-------------------------- MODULE ValidationProofs --------------------------
(***************************************************************************)
(* Proofs about Validation: the safety properties that its run checks, for *)
(* every set of records and identifiers and every value of the limits.     *)
(***************************************************************************)
EXTENDS Validation, FiniteSetTheorems, TLAPS

-----------------------------------------------------------------------------
\* The inductive invariant.

FlyingFinite == \A s \in Service : IsFiniteSet(flying[s])

\* Only identifiers that passed the local pattern are sent, in chunks that the
\* service accepts.
ChunksSendable ==
    \A s \in Service : \A c \in queued[s] \cup flying[s] :
        IsFiniteSet(c) /\ Cardinality(c) <= BatchMax /\ c \cap Malformed[s] = {}

\* The verdict v on identifier i does not contradict service s.
SoundVerdict(s, i, v) ==
    /\ v = "valid" => i \in Known[s]
    /\ v = "unknown" => i \notin Known[s]
    /\ v = "WARN_RULE_BYPASSED" => i \notin Malformed[s] /\ opened # {}
    /\ v # "ERR_EXTERNAL_REQUEST_REJECTED"

SoundFor(s, m) == \A i \in DOMAIN m : SoundVerdict(s, i, m[i])

FoundSound == \A s \in Service : SoundFor(s, found[s])
CacheSound == SoundFor("GSMA_TAC", cache)

CounterNoted == \A s \in Service : failed[s] >= Limit => s \in opened

\* What the partition needs and is not found yet is on its way.
AllRequested ==
    part # {} => \A s \in Service :
        Needed(s, part) \subseteq DOMAIN found[s] \cup UNION (queued[s] \cup flying[s])

ResultsSound == AcceptedIsGenuine /\ BypassEarned /\ RejectedIsUnknown

IInv ==
    /\ TypeOK
    /\ FlyingFinite /\ FailuresBounded
    /\ ChunksSendable /\ AllRequested
    /\ FoundSound /\ CacheSound /\ CounterNoted
    /\ ResultsSound

-----------------------------------------------------------------------------
\* Lemmas about the operators.

\* {**old, **new}: every key has its newer value.
LEMMA UpdateDomain ==
    ASSUME NEW old, NEW new
    PROVE  /\ DOMAIN Update(old, new) = DOMAIN old \cup DOMAIN new
           /\ \A i \in DOMAIN new : Update(old, new)[i] = new[i]
           /\ \A i \in DOMAIN old \ DOMAIN new : Update(old, new)[i] = old[i]
  BY DEF Update

\* Results that contradict nothing stay so when they are merged.
LEMMA UpdateSound ==
    ASSUME NEW s, NEW old, NEW new, SoundFor(s, old), SoundFor(s, new)
    PROVE  SoundFor(s, Update(old, new))
<1>1. /\ DOMAIN Update(old, new) = DOMAIN old \cup DOMAIN new
      /\ \A i \in DOMAIN new : Update(old, new)[i] = new[i]
      /\ \A i \in DOMAIN old \ DOMAIN new : Update(old, new)[i] = old[i]
  BY UpdateDomain
<1>2. ASSUME NEW i \in DOMAIN Update(old, new)
      PROVE  SoundVerdict(s, i, Update(old, new)[i])
  <2>1. CASE i \in DOMAIN new
    BY <1>1, <2>1, Zenon DEF SoundFor
  <2>2. CASE i \notin DOMAIN new
    <3>1. i \in DOMAIN old \ DOMAIN new
      BY <1>1, <1>2, <2>2
    <3> QED
      BY <1>1, <3>1, Zenon DEF SoundFor
  <2> QED
    BY <2>1, <2>2
<1> QED
  BY <1>2, Zenon DEF SoundFor

\* execute_validation_pipeline accepts a record only if no rule fails, and
\* otherwise reports a rule that does, with what it said.
LEMMA ValidatedMeaning ==
    ASSUME NEW r, NEW tacs
    PROVE  LET v == Validated(r, tacs)
           IN  \/ /\ v.rule = "none" /\ v.code = WarnOf(r, tacs)
                  /\ \A n \in 1..7 : RuleSays(RuleOrder[n], r, tacs) \in Good
               \/ \E n \in 1..7 :
                  /\ v.rule = RuleOrder[n]
                  /\ v.code = RuleSays(RuleOrder[n], r, tacs)
                  /\ v.code \notin Good
<1> DEFINE failing == {n \in 1..7 : RuleSays(RuleOrder[n], r, tacs) \notin Good}
           first == CHOOSE n \in failing : \A m \in failing : n <= m
<1>1. DOMAIN RuleOrder = 1..7
  BY DEF RuleOrder
<1>2. Validated(r, tacs) = IF failing = {} THEN [rule |-> "none", code |-> WarnOf(r, tacs)]
        ELSE [rule |-> RuleOrder[first], code |-> RuleSays(RuleOrder[first], r, tacs)]
  BY <1>1, Zenon DEF Validated
<1>3. CASE failing = {}
  BY <1>2, <1>3
<1>4. CASE failing # {}
  <2>1. \E n \in failing : \A m \in failing : n <= m
    <3> HIDE DEF failing
    <3>1. failing \subseteq 1..7
      BY DEF failing
    <3>2. 1..7 = {1, 2, 3, 4, 5, 6, 7}
      OBVIOUS
    <3>3. CASE 1 \in failing
      BY <3>1, <3>2, <3>3
    <3>4. CASE 1 \notin failing /\ 2 \in failing
      BY <3>1, <3>2, <3>4
    <3>5. CASE {1, 2} \cap failing = {} /\ 3 \in failing
      BY <3>1, <3>2, <3>5
    <3>6. CASE {1, 2, 3} \cap failing = {} /\ 4 \in failing
      BY <3>1, <3>2, <3>6
    <3>7. CASE {1, 2, 3, 4} \cap failing = {}
      <4>1. failing \subseteq {5, 6, 7}
        BY <3>1, <3>2, <3>7
      <4>2. 5 \in failing \/ (5 \notin failing /\ 6 \in failing) \/ failing = {7}
        BY <1>4, <4>1
      <4> QED
        BY <4>1, <4>2
    <3> QED
      BY <3>3, <3>4, <3>5, <3>6, <3>7
  <2>2. first \in failing
    BY <2>1
  <2>3. first \in 1..7 /\ RuleSays(RuleOrder[first], r, tacs) \notin Good
    BY <2>2
  <2> QED
    BY <1>2, <1>4, <2>3
<1> QED
  BY <1>3, <1>4

-----------------------------------------------------------------------------
\* Each action preserves the invariant.

LEMMA LimitsAreNat ==
    /\ BatchMax \in Nat /\ ServiceMax \in Nat /\ BatchMax <= ServiceMax
    /\ MaxConcurrency \in Nat /\ MaxConcurrency >= 1
    /\ Limit \in Nat /\ Limit >= 1
  BY BoundAssumption

LEMMA InitInv == Init => IInv
<1> SUFFICES ASSUME Init PROVE IInv
  OBVIOUS
<1>1. TypeOK
  BY DEF Init, TypeOK, NoChunks, Nothing
<1>2. FlyingFinite /\ FailuresBounded
  BY FS_EmptySet, LimitsAreNat DEF Init, FlyingFinite, FailuresBounded, NoChunks
<1>3. ChunksSendable /\ AllRequested
  BY DEF Init, ChunksSendable, AllRequested, NoChunks
<1>4. FoundSound /\ CacheSound
  BY DEF Init, FoundSound, CacheSound, SoundFor, Nothing
<1>5. CounterNoted
  BY LimitsAreNat DEF Init, CounterNoted
<1>6. ResultsSound
  BY DEF Init, ResultsSound, AcceptedIsGenuine, BypassEarned, RejectedIsUnknown, Accepted,
         Judged, Nothing
<1> QED
  BY <1>1, <1>2, <1>3, <1>4, <1>5, <1>6 DEF IInv

\* What the results say stays true while they do and no breaker is forgotten.
LEMMA ResultsKept ==
    ASSUME ResultsSound, results' = results, opened \subseteq opened'
    PROVE  ResultsSound'
  BY DEF ResultsSound, AcceptedIsGenuine, BypassEarned, RejectedIsUnknown, Accepted, Judged

\* No results, nothing to say.
LEMMA ResultsEmpty == ASSUME results' = Nothing PROVE ResultsSound'
  BY DEF ResultsSound, AcceptedIsGenuine, BypassEarned, RejectedIsUnknown, Accepted, Judged,
         Nothing

LEMMA CallInv ==
    ASSUME IInv, NEW s \in Service, NEW c, Call(s, c)
    PROVE  IInv'
<1> USE DEF IInv, Call, Admits, Dequeue
<1>1. TypeOK'
  BY DEF TypeOK
<1>2. /\ flying' \in [Service -> SUBSET SUBSET Id]
      /\ flying'[s] = flying[s] \cup {c}
      /\ \A t \in Service \ {s} : flying'[t] = flying[t]
  BY DEF TypeOK
<1>3. FlyingFinite'
  BY <1>2, FS_AddElement DEF FlyingFinite
<1>4. FailuresBounded'
  <2>1. Cardinality(flying'[s]) <= Cardinality(flying[s]) + 1 /\ Cardinality(flying[s]) \in Nat
    BY <1>2, FS_AddElement, FS_CardinalityType DEF FlyingFinite
  <2>2. failed[s] < Limit /\ failed[s] \in Nat
    BY LimitsAreNat DEF BreakerOpen, TypeOK
  <2>3. Cardinality(flying'[s]) \in Nat
    BY <1>3, FS_CardinalityType DEF FlyingFinite
  <2>4. failed'[s] + Cardinality(flying'[s]) < Limit + MaxConcurrency
    BY <2>1, <2>2, <2>3, LimitsAreNat
  <2> QED
    BY <1>2, <2>4 DEF FailuresBounded
<1>5. \A t \in Service : queued'[t] \cup flying'[t] = queued[t] \cup flying[t]
  BY <1>2 DEF TypeOK
<1>6. ChunksSendable'
  BY <1>5 DEF ChunksSendable
<1>7. AllRequested'
  BY <1>5 DEF AllRequested, Needed
<1>8. FoundSound' /\ CacheSound' /\ CounterNoted'
  BY DEF FoundSound, CacheSound, CounterNoted, SoundFor, SoundVerdict
<1>9. ResultsSound'
  BY ResultsKept
<1> QED
  BY <1>1, <1>3, <1>4, <1>6, <1>7, <1>8, <1>9

\* What an action that gives the chunk c its verdicts does to found.
LEMMA FoundGrows ==
    ASSUME IInv, NEW s \in Service, NEW c, NEW v, c \in queued[s] \cup flying[s],
           v \in [c -> Verdict], Found(s, v)
    PROVE  /\ DOMAIN found' = Service
           /\ found'[s] = Update(found[s], v)
           /\ \A t \in Service \ {s} : found'[t] = found[t]
           /\ \A t \in Service : /\ DOMAIN found'[t] \subseteq Id
                                 /\ \A i \in DOMAIN found'[t] : found'[t][i] \in Verdict
           /\ DOMAIN found'[s] = DOMAIN found[s] \cup c
<1>1. /\ DOMAIN found' = Service
      /\ found'[s] = Update(found[s], v)
      /\ \A t \in Service \ {s} : found'[t] = found[t]
  BY DEF IInv, TypeOK, Found
<1> DEFINE m == Update(found[s], v)
<1>a. /\ DOMAIN m = DOMAIN found[s] \cup DOMAIN v
      /\ \A i \in DOMAIN v : m[i] = v[i]
      /\ \A i \in DOMAIN found[s] \ DOMAIN v : m[i] = found[s][i]
  BY UpdateDomain
<1>b. found'[s] = m
  BY <1>1
<1> HIDE DEF m
<1>2. DOMAIN found'[s] = DOMAIN found[s] \cup c
  BY <1>a, <1>b
<1>3. c \subseteq Id
  BY DEF IInv, TypeOK
<1>4. \A i \in DOMAIN found'[s] : found'[s][i] \in Verdict
  <2> SUFFICES ASSUME NEW i \in DOMAIN found'[s] PROVE found'[s][i] \in Verdict
    OBVIOUS
  <2>1. CASE i \in c
    BY <1>a, <1>b, <2>1
  <2>2. CASE i \notin c
    BY <1>a, <1>b, <1>2, <2>2 DEF IInv, TypeOK
  <2> QED
    BY <2>1, <2>2
<1> QED
  BY <1>1, <1>2, <1>3, <1>4 DEF IInv, TypeOK

\* Verdicts are judged as before or more mildly once another breaker opens.
LEMMA SoundKept ==
    ASSUME NEW s \in Service, NEW i, NEW w, SoundVerdict(s, i, w), opened \subseteq opened'
    PROVE  SoundVerdict(s, i, w)'
  BY DEF SoundVerdict

\* found stays sound when a chunk gets sound verdicts.
LEMMA FoundStaysSound ==
    ASSUME IInv, NEW s \in Service, NEW c, NEW v, c \in queued[s] \cup flying[s],
           v \in [c -> Verdict], Found(s, v), opened \subseteq opened',
           \A i \in c : SoundVerdict(s, i, v[i])'
    PROVE  FoundSound'
<1>1. ASSUME NEW t \in Service, NEW i \in DOMAIN found'[t]
      PROVE  SoundVerdict(t, i, found[t][i])'
  <2>1. CASE t # s
    <3>1. found'[t] = found[t]
      BY <2>1, FoundGrows
    <3>2. SoundVerdict(t, i, found[t][i])
      BY <3>1, <1>1 DEF IInv, FoundSound, SoundFor
    <3> QED
      BY <3>1, <3>2 DEF SoundVerdict
  <2>2. CASE t = s
    <3> DEFINE m == Update(found[s], v)
    <3>1. /\ DOMAIN m = DOMAIN found[s] \cup DOMAIN v
          /\ \A j \in DOMAIN v : m[j] = v[j]
          /\ \A j \in DOMAIN found[s] \ DOMAIN v : m[j] = found[s][j]
      BY UpdateDomain
    <3>2. found'[s] = m
      BY FoundGrows
    <3> HIDE DEF m
    <3>3. CASE i \in c
      <4>1. found'[t][i] = v[i]
        BY <2>2, <3>1, <3>2, <3>3
      <4> QED
        BY <2>2, <3>3, <4>1 DEF SoundVerdict
    <3>4. CASE i \notin c
      <4>1. i \in DOMAIN found[s] /\ found'[t][i] = found[s][i]
        BY <1>1, <2>2, <3>1, <3>2, <3>4
      <4>2. SoundVerdict(s, i, found[s][i])
        BY <4>1 DEF IInv, FoundSound, SoundFor
      <4> QED
        BY <2>2, <4>1, <4>2 DEF SoundVerdict
    <3> QED
      BY <3>3, <3>4
  <2> QED
    BY <2>1, <2>2
<1> QED
  BY <1>1 DEF FoundSound, SoundFor

LEMMA BypassInv ==
    ASSUME IInv, NEW s \in Service, NEW c, Bypass(s, c)
    PROVE  IInv'
<1> DEFINE v == [i \in c |-> "WARN_RULE_BYPASSED"]
<1>1. v \in [c -> Verdict] /\ Found(s, v) /\ c \in queued[s]
  BY DEF Bypass, Verdict, Good, Admits
<1>2. s \in opened /\ opened' = opened
  BY DEF IInv, Bypass, BreakerOpen, CounterNoted
<1>3. \A i \in c : i \notin Malformed[s]
  BY <1>1 DEF IInv, ChunksSendable
<1>4. \A i \in c : SoundVerdict(s, i, v[i])'
  BY <1>2, <1>3 DEF SoundVerdict
<1> HIDE DEF v
<1>5. FoundSound'
  BY <1>1, <1>2, <1>4, FoundStaysSound
<1>6. /\ queued' \in [Service -> SUBSET SUBSET Id]
      /\ queued'[s] = queued[s] \ {c}
      /\ \A t \in Service \ {s} : queued'[t] = queued[t]
  BY DEF IInv, TypeOK, Bypass, Dequeue
<1>7. TypeOK'
  BY <1>1, <1>6, FoundGrows DEF IInv, TypeOK, Bypass
<1>8. FlyingFinite' /\ FailuresBounded' /\ CounterNoted' /\ CacheSound'
  BY DEF IInv, Bypass, FlyingFinite, FailuresBounded, CounterNoted, CacheSound, SoundFor,
         SoundVerdict
<1>9. ChunksSendable'
  <2>1. \A t \in Service : queued'[t] \cup flying'[t] \subseteq queued[t] \cup flying[t]
    BY <1>6 DEF Bypass
  <2> QED
    BY <2>1 DEF IInv, ChunksSendable
<1>10. AllRequested'
  <2>1. part' = part /\ cache' = cache /\ flying' = flying
    BY DEF Bypass
  <2> SUFFICES ASSUME part # {}, NEW t \in Service, NEW i \in Needed(t, part)
               PROVE  i \in DOMAIN found'[t] \cup UNION (queued'[t] \cup flying'[t])
    BY <2>1 DEF AllRequested, Needed
  <2>2. i \in DOMAIN found[t] \cup UNION (queued[t] \cup flying[t])
    BY DEF IInv, AllRequested
  <2>3. CASE t = s
    BY <1>1, <1>6, <2>1, <2>2, <2>3, FoundGrows
  <2>4. CASE t # s
    BY <1>1, <1>6, <2>1, <2>2, <2>4, FoundGrows
  <2> QED
    BY <2>3, <2>4
<1>11. ResultsSound'
  BY ResultsKept DEF IInv, Bypass
<1> QED
  BY <1>5, <1>7, <1>8, <1>9, <1>10, <1>11 DEF IInv

\* The end of a call, whatever its answer.
LEMMA CallEnds ==
    ASSUME IInv, NEW s \in Service, NEW c, NEW v,
           c \in flying[s], Land(s, c), v \in [c -> Verdict], Found(s, v),
           \A i \in c : SoundVerdict(s, i, v[i])',
           failed' \in [Service -> Nat], failed'[s] <= failed[s] + 1,
           \A t \in Service \ {s} : failed'[t] = failed[t],
           opened \subseteq opened', opened' \subseteq Service, CounterNoted',
           UNCHANGED <<cache, part, queued, results>>
    PROVE  IInv'
<1>1. FoundSound'
  BY FoundStaysSound
<1>2. /\ flying' \in [Service -> SUBSET SUBSET Id]
      /\ flying'[s] = flying[s] \ {c}
      /\ \A t \in Service \ {s} : flying'[t] = flying[t]
  BY DEF IInv, TypeOK, Land
<1>3. TypeOK'
  BY <1>2, FoundGrows DEF IInv, TypeOK
<1>4. FlyingFinite'
  BY <1>2, FS_RemoveElement DEF IInv, FlyingFinite
<1>5. FailuresBounded'
  <2>1. /\ Cardinality(flying'[s]) = Cardinality(flying[s]) - 1
        /\ Cardinality(flying[s]) \in Nat
    <3>1. IsFiniteSet(flying[s])
      BY DEF IInv, FlyingFinite
    <3>2. Cardinality(flying[s] \ {c}) = Cardinality(flying[s]) - 1
      BY <3>1, FS_RemoveElement
    <3> QED
      BY <1>2, <3>1, <3>2, FS_CardinalityType
  <2>2. failed[s] \in Nat /\ failed'[s] \in Nat
    BY DEF IInv, TypeOK
  <2>3. failed[s] + Cardinality(flying[s]) < Limit + MaxConcurrency
    BY DEF IInv, FailuresBounded
  <2>4. failed'[s] + Cardinality(flying'[s]) < Limit + MaxConcurrency
    BY <2>1, <2>2, <2>3, LimitsAreNat
  <2> QED
    BY <1>2, <2>4 DEF IInv, FailuresBounded
<1>6. ChunksSendable'
  <2>1. \A t \in Service : queued'[t] \cup flying'[t] \subseteq queued[t] \cup flying[t]
    BY <1>2
  <2> QED
    BY <2>1 DEF IInv, ChunksSendable
<1>7. AllRequested'
  <2> SUFFICES ASSUME part # {}, NEW t \in Service, NEW i \in Needed(t, part)
               PROVE  i \in DOMAIN found'[t] \cup UNION (queued'[t] \cup flying'[t])
    BY DEF AllRequested, Needed
  <2>1. i \in DOMAIN found[t] \cup UNION (queued[t] \cup flying[t])
    BY DEF IInv, AllRequested
  <2>2. CASE t = s
    BY <1>2, <2>1, <2>2, FoundGrows
  <2>3. CASE t # s
    BY <1>2, <2>1, <2>3, FoundGrows
  <2> QED
    BY <2>2, <2>3
<1>8. CacheSound'
  BY DEF IInv, CacheSound, SoundFor, SoundVerdict
<1>9. ResultsSound'
  BY ResultsKept DEF IInv
<1> QED
  BY <1>1, <1>3, <1>4, <1>5, <1>6, <1>7, <1>8, <1>9 DEF IInv

LEMMA AnsweredInv ==
    ASSUME IInv, NEW s \in Service, NEW c, Answered(s, c)
    PROVE  IInv'
<1> DEFINE v == [i \in c |-> Answer(s, c, i)]
<1>1. ~(Cardinality(c) > ServiceMax)
  BY LimitsAreNat, FS_CardinalityType DEF IInv, ChunksSendable, Answered
<1>2. \A i \in c : v[i] = IF i \in Known[s] THEN "valid" ELSE "unknown"
  BY <1>1 DEF Answer
<1>3. v \in [c -> Verdict]
  BY <1>2 DEF Verdict, Good
<1>4. Found(s, v) /\ c \in flying[s] /\ Land(s, c)
  BY DEF Answered
<1> HIDE DEF v
<1>5. opened' = opened /\ UNCHANGED <<cache, part, queued, results>>
  BY DEF Answered
<1>6. \A i \in c : SoundVerdict(s, i, v[i])'
  BY <1>2 DEF SoundVerdict
<1>7. /\ failed' \in [Service -> Nat] /\ failed'[s] = 0
      /\ \A t \in Service \ {s} : failed'[t] = failed[t]
  BY DEF Answered, IInv, TypeOK
<1>8. failed'[s] <= failed[s] + 1 /\ CounterNoted'
  BY <1>5, <1>7, LimitsAreNat DEF IInv, TypeOK, CounterNoted
<1>9. opened \subseteq opened' /\ opened' \subseteq Service
  BY <1>5 DEF IInv, TypeOK
<1> QED
  BY <1>3, <1>4, <1>5, <1>6, <1>7, <1>8, <1>9, CallEnds

LEMMA FaultInv ==
    ASSUME IInv, NEW s \in Service, NEW c, Fault(s, c)
    PROVE  IInv'
<1>1. PICK err \in Infra : Found(s, [i \in c |-> err])
  BY DEF Fault
<1> DEFINE v == [i \in c |-> err]
<1>2. v \in [c -> Verdict] /\ Found(s, v) /\ c \in flying[s] /\ Land(s, c)
  BY <1>1 DEF Fault, Verdict
<1>3. \A i \in c : v[i] \in Infra
  OBVIOUS
<1> HIDE DEF v
<1>4. \A i \in c : SoundVerdict(s, i, v[i])'
  BY <1>3 DEF SoundVerdict, Infra
<1>5. /\ failed' \in [Service -> Nat] /\ failed'[s] <= failed[s] + 1
      /\ \A t \in Service \ {s} : failed'[t] = failed[t]
  BY DEF Fault, IInv, TypeOK
<1>6. opened \subseteq opened' /\ opened' \subseteq Service /\ CounterNoted'
  BY DEF Fault, NoteOpened, IInv, TypeOK, CounterNoted
<1>7. UNCHANGED <<cache, part, queued, results>>
  BY DEF Fault
<1> QED
  BY <1>2, <1>4, <1>5, <1>6, <1>7, CallEnds

LEMMA PartitionFailsInv ==
    ASSUME IInv, NEW s \in Service, NEW c, PartitionFails(s, c)
    PROVE  IInv'
<1>1. PICK cut \in [Service -> SUBSET UNION {flying[t] : t \in Service}] :
        /\ \A t \in Service : cut[t] \subseteq flying[t]
        /\ failed' = [t \in Service |-> (IF t = s THEN 0 ELSE failed[t]) + Cardinality(cut[t])]
  BY DEF PartitionFails
<1>2. /\ part' = {} /\ queued' = NoChunks /\ flying' = NoChunks /\ cache' = cache
      /\ found' = [t \in Service |-> Nothing]
      /\ results' = [r \in part |-> PartitionFailed]
  BY DEF PartitionFails
<1>3. ASSUME NEW t \in Service
      PROVE  /\ Cardinality(cut[t]) \in Nat
             /\ Cardinality(cut[t]) <= Cardinality(flying[t])
             /\ Cardinality(flying[t]) \in Nat
  <2>1. IsFiniteSet(flying[t])
    BY DEF IInv, FlyingFinite
  <2>2. IsFiniteSet(cut[t]) /\ Cardinality(cut[t]) <= Cardinality(flying[t])
    BY <1>1, <2>1, FS_Subset
  <2> QED
    BY <2>1, <2>2, FS_CardinalityType
<1>4. failed' \in [Service -> Nat]
  BY <1>1, <1>3 DEF IInv, TypeOK
<1>5. opened \subseteq opened' /\ opened' \subseteq Service /\ CounterNoted'
  BY DEF PartitionFails, NoteOpened, IInv, TypeOK, CounterNoted
<1>6. TypeOK'
  <2>1. part \subseteq Rec
    BY RecAssumption DEF IInv, TypeOK
  <2>2. PartitionFailed \in Outcome
    BY DEF Outcome
  <2> QED
    BY <1>2, <1>4, <1>5, <2>1, <2>2 DEF IInv, TypeOK, NoChunks, Nothing
<1>7. FlyingFinite'
  BY <1>2, FS_EmptySet DEF FlyingFinite, NoChunks
<1>8. FailuresBounded'
  <2> SUFFICES ASSUME NEW t \in Service
               PROVE  failed'[t] + Cardinality(flying'[t]) < Limit + MaxConcurrency
    BY DEF FailuresBounded
  <2>1. Cardinality(flying'[t]) = 0
    BY <1>2, FS_EmptySet DEF NoChunks
  <2>2. failed'[t] <= failed[t] + Cardinality(flying[t]) /\ failed[t] \in Nat
    BY <1>1, <1>3 DEF IInv, TypeOK
  <2> QED
    BY <1>3, <1>4, <2>1, <2>2, LimitsAreNat DEF IInv, FailuresBounded
<1>9. ChunksSendable' /\ AllRequested'
  BY <1>2 DEF ChunksSendable, AllRequested, NoChunks
<1>10. FoundSound' /\ CacheSound'
  BY <1>2, <1>5 DEF IInv, FoundSound, CacheSound, SoundFor, SoundVerdict, Nothing
<1>11. ResultsSound'
  BY <1>2 DEF ResultsSound, AcceptedIsGenuine, BypassEarned, RejectedIsUnknown, Accepted, Judged
<1> QED
  BY <1>5, <1>6, <1>7, <1>8, <1>9, <1>10, <1>11 DEF IInv

LEMMA WorkerDiesInv == ASSUME IInv, WorkerDies PROVE IInv'
<1> USE DEF WorkerDies
<1>1. TypeOK'
  BY DEF TypeOK, NoChunks, Nothing
<1>2. FlyingFinite' /\ FailuresBounded'
  BY FS_EmptySet, LimitsAreNat DEF FlyingFinite, FailuresBounded, NoChunks
<1>3. ChunksSendable' /\ AllRequested'
  BY DEF ChunksSendable, AllRequested, NoChunks
<1>4. FoundSound' /\ CacheSound'
  BY DEF FoundSound, CacheSound, SoundFor, Nothing
<1>5. CounterNoted'
  BY LimitsAreNat DEF CounterNoted
<1>6. ResultsSound'
  BY ResultsEmpty
<1> QED
  BY <1>1, <1>2, <1>3, <1>4, <1>5, <1>6 DEF IInv

\* Chunking loses nothing and makes no chunk too long.
LEMMA ChunkedMeaning ==
    ASSUME NEW S, IsFiniteSet(S), NEW P \in Chunked(S)
    PROVE  UNION P = S /\ \A c \in P : IsFiniteSet(c) /\ Cardinality(c) <= BatchMax
<1>1. UNION P = S /\ \A c \in P : c \in SUBSET S /\ Cardinality(c) <= BatchMax
  BY DEF Chunked
<1>2. \A c \in P : IsFiniteSet(c)
  BY <1>1, FS_Subset
<1> QED
  BY <1>1, <1>2

\* A partition asks for finitely many identifiers.
LEMMA NeededFinite ==
    ASSUME NEW s \in Service, NEW p \in Partitions
    PROVE  IsFiniteSet(Needed(s, p)) /\ Needed(s, p) \subseteq Id
<1> DEFINE asked == {IdOf[s][r] : r \in p}
           f == [r \in p |-> IdOf[s][r]]
<1>1. IsFiniteSet(p) /\ p \subseteq Rec
  BY RecAssumption
<1>2. f \in Surjection(p, asked)
  BY DEF Surjection
<1>3. IsFiniteSet(asked)
  BY <1>1, <1>2, FS_Surjection
<1>4. asked \subseteq Id
  BY <1>1, IdAssumption
<1>5. Needed(s, p) \in SUBSET asked
  BY DEF Needed
<1> QED
  BY <1>3, <1>4, <1>5, FS_Subset

LEMMA StartPartitionInv ==
    ASSUME IInv, NEW p \in Partitions, StartPartition(p)
    PROVE  IInv'
<1>1. \A s \in Service : queued'[s] \in Chunked(Needed(s, p) \ Malformed[s])
  <2>1. PICK g \in Chunked(Needed("GSMA_TAC", p) \ Malformed["GSMA_TAC"]),
             h \in Chunked(Needed("HLR_HSS", p)),
             i \in Chunked(Needed("ITU_E164", p) \ Malformed["ITU_E164"]) :
          queued' = [s \in Service |->
            CASE s = "GSMA_TAC" -> g [] s = "HLR_HSS" -> h [] s = "ITU_E164" -> i]
    BY DEF StartPartition
  <2>2. queued'["GSMA_TAC"] = g /\ queued'["HLR_HSS"] = h /\ queued'["ITU_E164"] = i
    BY <2>1 DEF Service
  <2>3. Needed("HLR_HSS", p) \ Malformed["HLR_HSS"] = Needed("HLR_HSS", p)
    BY IdAssumption
  <2> QED
    BY <2>2, <2>3 DEF Service
<1>2. ASSUME NEW s \in Service
      PROVE  /\ UNION queued'[s] = Needed(s, p) \ Malformed[s]
             /\ \A c \in queued'[s] : IsFiniteSet(c) /\ Cardinality(c) <= BatchMax
             /\ Needed(s, p) \subseteq Id
  <2>1. IsFiniteSet(Needed(s, p) \ Malformed[s]) /\ Needed(s, p) \subseteq Id
    BY NeededFinite, FS_Subset
  <2> QED
    BY <1>1, <2>1, ChunkedMeaning
<1>3. /\ part' = p /\ results' = Nothing
      /\ found' = [s \in Service |-> [i \in Needed(s, p) \cap Malformed[s] |-> "unknown"]]
      /\ UNCHANGED <<failed, cache, flying, opened>>
  BY DEF StartPartition
<1>4. TypeOK'
  <2>1. queued' \in [Service -> SUBSET SUBSET Id]
    <3>1. \A s \in Service : queued'[s] \in SUBSET SUBSET Id
      BY <1>2
    <3>2. queued' = [s \in Service |-> queued'[s]]
      BY DEF StartPartition
    <3> QED
      BY <3>1, <3>2
  <2>2. /\ DOMAIN found' = Service
        /\ \A s \in Service : DOMAIN found'[s] \subseteq Id
                              /\ \A i \in DOMAIN found'[s] : found'[s][i] \in Verdict
    BY <1>2, <1>3 DEF Verdict
  <2>3. DOMAIN results' \subseteq Rec /\ \A r \in DOMAIN results' : results'[r] \in Outcome
    BY <1>3 DEF Nothing
  <2> QED
    BY <1>3, <2>1, <2>2, <2>3 DEF IInv, TypeOK
<1>5. FlyingFinite' /\ FailuresBounded' /\ CounterNoted'
  BY <1>3 DEF IInv, FlyingFinite, FailuresBounded, CounterNoted
<1>6. ChunksSendable'
  BY <1>2, <1>3 DEF IInv, ChunksSendable
<1>7. AllRequested'
  BY <1>2, <1>3 DEF AllRequested, Needed
<1>8. FoundSound'
  BY <1>3, IdAssumption DEF FoundSound, SoundFor, SoundVerdict
<1>9. CacheSound'
  BY <1>3 DEF IInv, CacheSound, SoundFor, SoundVerdict
<1>10. ResultsSound'
  BY <1>3, ResultsEmpty
<1> QED
  BY <1>4, <1>5, <1>6, <1>7, <1>8, <1>9, <1>10 DEF IInv

\* TAC_CACHE once the fetched results are in it.
NewCache == Update(cache, found["GSMA_TAC"])

\* When everything is fetched, every rule finds what it looks up.
LEMMA FetchedMeaning ==
    ASSUME IInv, Fetched, NEW r \in part
    PROVE  /\ r \in Rec
           /\ IdOf["HLR_HSS"][r] \in DOMAIN found["HLR_HSS"]
           /\ IdOf["ITU_E164"][r] \in DOMAIN found["ITU_E164"]
           /\ IdOf["GSMA_TAC"][r] \in DOMAIN cache \cup DOMAIN found["GSMA_TAC"]
<1>1. \A s \in Service : Needed(s, part) \subseteq DOMAIN found[s]
  BY DEF IInv, AllRequested, Fetched
<1>2. r \in Rec
  BY RecAssumption DEF IInv, TypeOK
<1>3. \A s \in Service \ {"GSMA_TAC"} : IdOf[s][r] \in Needed(s, part)
  BY DEF Needed
<1>4. IdOf["GSMA_TAC"][r] \in DOMAIN cache \/ IdOf["GSMA_TAC"][r] \in Needed("GSMA_TAC", part)
  BY DEF Needed
<1> QED
  BY <1>1, <1>2, <1>3, <1>4 DEF Service

LEMMA NewCacheMeaning ==
    ASSUME IInv
    PROVE  /\ DOMAIN NewCache = DOMAIN cache \cup DOMAIN found["GSMA_TAC"]
           /\ DOMAIN NewCache \subseteq Id
           /\ \A t \in DOMAIN NewCache : NewCache[t] \in Verdict
           /\ SoundFor("GSMA_TAC", NewCache)
<1> DEFINE new == found["GSMA_TAC"]
<1>1. /\ DOMAIN NewCache = DOMAIN cache \cup DOMAIN new
      /\ \A i \in DOMAIN new : NewCache[i] = new[i]
      /\ \A i \in DOMAIN cache \ DOMAIN new : NewCache[i] = cache[i]
  BY UpdateDomain DEF NewCache
<1>2. /\ DOMAIN new \subseteq Id /\ \A i \in DOMAIN new : new[i] \in Verdict
      /\ DOMAIN cache \subseteq Id /\ \A i \in DOMAIN cache : cache[i] \in Verdict
  BY DEF IInv, TypeOK, Service
<1>3. SoundFor("GSMA_TAC", cache) /\ SoundFor("GSMA_TAC", new)
  BY DEF IInv, CacheSound, FoundSound, Service
<1>4. SoundFor("GSMA_TAC", NewCache)
  BY <1>3, UpdateSound DEF NewCache
<1> HIDE DEF new
<1>5. DOMAIN NewCache \subseteq Id /\ \A t \in DOMAIN NewCache : NewCache[t] \in Verdict
  BY <1>1, <1>2
<1> QED
  BY <1>1, <1>4, <1>5 DEF new

\* What the rules say of a record, once everything is fetched: those that ask
\* a service do not contradict it.
LEMMA RulesMeaning ==
    ASSUME IInv, Fetched, NEW r \in part
    PROVE  /\ \A k \in {"R2", "R3", "R4b"} :
                /\ ServiceOf(k) \in Service
                /\ RuleSays(k, r, NewCache) \in Verdict
                /\ SoundVerdict(ServiceOf(k), IdOf[ServiceOf(k)][r], RuleSays(k, r, NewCache))
           /\ \A k \in LocalRule :
                RuleSays(k, r, NewCache) = IF k \in Broken[r] THEN "broken" ELSE "valid"
<1>1. /\ RuleSays("R2", r, NewCache) = found["ITU_E164"][IdOf["ITU_E164"][r]]
      /\ RuleSays("R3", r, NewCache) = found["HLR_HSS"][IdOf["HLR_HSS"][r]]
      /\ RuleSays("R4b", r, NewCache) = NewCache[IdOf["GSMA_TAC"][r]]
      /\ \A k \in LocalRule :
            RuleSays(k, r, NewCache) = IF k \in Broken[r] THEN "broken" ELSE "valid"
  BY DEF RuleSays, LocalRule
<1>2. ServiceOf("R2") = "ITU_E164" /\ ServiceOf("R3") = "HLR_HSS" /\ ServiceOf("R4b") = "GSMA_TAC"
  BY DEF ServiceOf
<1>3. /\ RuleSays("R2", r, NewCache) \in Verdict
      /\ SoundVerdict("ITU_E164", IdOf["ITU_E164"][r], RuleSays("R2", r, NewCache))
  BY <1>1, FetchedMeaning DEF IInv, TypeOK, FoundSound, SoundFor, Service
<1>4. /\ RuleSays("R3", r, NewCache) \in Verdict
      /\ SoundVerdict("HLR_HSS", IdOf["HLR_HSS"][r], RuleSays("R3", r, NewCache))
  BY <1>1, FetchedMeaning DEF IInv, TypeOK, FoundSound, SoundFor, Service
<1>5. /\ RuleSays("R4b", r, NewCache) \in Verdict
      /\ SoundVerdict("GSMA_TAC", IdOf["GSMA_TAC"][r], RuleSays("R4b", r, NewCache))
  BY <1>1, FetchedMeaning, NewCacheMeaning DEF SoundFor
<1> QED
  BY <1>1, <1>2, <1>3, <1>4, <1>5 DEF Service

\* An accepted record breaks no local rule, and no service is contradicted.
LEMMA AcceptedMeaning ==
    ASSUME IInv, Fetched, NEW r \in part,
           \A n \in 1..7 : RuleSays(RuleOrder[n], r, NewCache) \in Good
    PROVE  /\ Broken[r] = {}
           /\ WarnOf(r, NewCache) \in Good
           /\ WarnOf(r, NewCache) = "valid" => \A s \in Service : IdOf[s][r] \in Known[s]
           /\ WarnOf(r, NewCache) = "WARN_RULE_BYPASSED" =>
                 opened # {} /\ \A s \in Service : IdOf[s][r] \notin Malformed[s]
<1>1. \A k \in LocalRule \cup {"R2", "R3", "R4b"} : RuleSays(k, r, NewCache) \in Good
  BY DEF RuleOrder, LocalRule
<1>2. Broken[r] = {}
  BY <1>1, RulesMeaning, FetchedMeaning, RecAssumption DEF Good
<1>3. \A s \in Service : \E k \in {"R2", "R3", "R4b"} : s = ServiceOf(k)
  BY DEF Service, ServiceOf
<1>4. ASSUME WarnOf(r, NewCache) = "valid", NEW s \in Service
      PROVE  IdOf[s][r] \in Known[s]
  <2>1. PICK k \in {"R2", "R3", "R4b"} : s = ServiceOf(k)
    BY <1>3
  <2>2. RuleSays(k, r, NewCache) = "valid"
    BY <1>1, <1>4 DEF WarnOf, Good
  <2> QED
    BY <2>1, <2>2, RulesMeaning DEF SoundVerdict
<1>5. ASSUME NEW s \in Service PROVE IdOf[s][r] \notin Malformed[s]
  <2>1. PICK k \in {"R2", "R3", "R4b"} : s = ServiceOf(k)
    BY <1>3
  <2>2. RuleSays(k, r, NewCache) \in Good
    BY <1>1
  <2> QED
    BY <2>1, <2>2, RulesMeaning, IdAssumption DEF SoundVerdict, Good
<1>6. WarnOf(r, NewCache) = "WARN_RULE_BYPASSED" => opened # {}
  BY RulesMeaning DEF WarnOf, SoundVerdict
<1> QED
  BY <1>2, <1>4, <1>5, <1>6 DEF WarnOf, Good

LEMMA FinishInv == ASSUME IInv, Finish PROVE IInv'
<1>1. /\ Fetched /\ cache' = NewCache /\ part' = {}
      /\ results' = [r \in part |-> Validated(r, NewCache)]
      /\ found' = [s \in Service |-> Nothing]
      /\ UNCHANGED <<failed, queued, flying, opened>>
  BY DEF Finish, NewCache
<1>2. ASSUME NEW r \in part
      PROVE  \/ /\ results'[r].rule = "none" /\ results'[r].code = WarnOf(r, NewCache)
                /\ \A n \in 1..7 : RuleSays(RuleOrder[n], r, NewCache) \in Good
             \/ \E n \in 1..7 :
                /\ results'[r].rule = RuleOrder[n]
                /\ results'[r].code = RuleSays(RuleOrder[n], r, NewCache)
                /\ results'[r].code \notin Good
  BY <1>1, ValidatedMeaning
<1>3. ASSUME NEW r \in part, results'[r].rule = "none"
      PROVE  /\ results'[r].code = WarnOf(r, NewCache)
             /\ \A n \in 1..7 : RuleSays(RuleOrder[n], r, NewCache) \in Good
  BY <1>2, <1>3 DEF RuleOrder
<1>4. AcceptedIsGenuine' /\ BypassEarned'
  BY <1>1, <1>3, AcceptedMeaning DEF AcceptedIsGenuine, BypassEarned, Accepted, Judged
<1>5. RejectedIsUnknown'
  <2> SUFFICES ASSUME NEW r \in part, results'[r].rule # "none"
               PROVE  /\ results'[r].code = "unknown" =>
                           IdOf[ServiceOf(results'[r].rule)][r]
                             \notin Known[ServiceOf(results'[r].rule)]
                      /\ results'[r].code # "ERR_EXTERNAL_REQUEST_REJECTED"
    BY <1>1 DEF RejectedIsUnknown, Accepted, Judged
  <2>1. PICK n \in 1..7 : /\ results'[r].rule = RuleOrder[n]
                          /\ results'[r].code = RuleSays(RuleOrder[n], r, NewCache)
    BY <1>2
  <2>2. CASE RuleOrder[n] \in LocalRule
    BY <1>1, <2>1, <2>2, RulesMeaning
  <2>3. CASE RuleOrder[n] \in {"R2", "R3", "R4b"}
    BY <1>1, <2>1, <2>3, RulesMeaning DEF SoundVerdict
  <2> QED
    BY <2>2, <2>3 DEF RuleOrder, LocalRule
<1>6. TypeOK'
  <2>1. ASSUME NEW r \in part PROVE Validated(r, NewCache) \in Outcome
    <3> DEFINE v == Validated(r, NewCache)
    <3>1. v = [rule |-> v.rule, code |-> v.code]
      BY DEF Validated
    <3>2. \A n \in 1..7 : RuleSays(RuleOrder[n], r, NewCache) \in Verdict \cup {"broken"}
      <4>1. \A k \in LocalRule \cup {"R2", "R3", "R4b"} :
              RuleSays(k, r, NewCache) \in Verdict \cup {"broken"}
        BY <1>1, RulesMeaning DEF Verdict, Good
      <4> QED
        BY <4>1 DEF RuleOrder, LocalRule
    <3>3. WarnOf(r, NewCache) \in Verdict
      BY DEF WarnOf, Verdict, Good
    <3>4. v.code \in Verdict \cup {"broken"}
      BY <3>2, <3>3, ValidatedMeaning
    <3>5. v.rule \in {RuleOrder[n] : n \in DOMAIN RuleOrder} \cup {"none"}
      <4>1. DOMAIN RuleOrder = 1..7
        BY DEF RuleOrder
      <4> QED
        BY <4>1, ValidatedMeaning
    <3> QED
      BY <3>1, <3>4, <3>5 DEF Outcome
  <2>2. part \subseteq Rec
    BY RecAssumption DEF IInv, TypeOK
  <2>3. DOMAIN results' \subseteq Rec /\ \A r \in DOMAIN results' : results'[r] \in Outcome
    BY <1>1, <2>1, <2>2
  <2>4. DOMAIN cache' \subseteq Id /\ \A t \in DOMAIN cache' : cache'[t] \in Verdict
    BY <1>1, NewCacheMeaning
  <2> QED
    BY <1>1, <2>3, <2>4 DEF IInv, TypeOK, Nothing
<1>7. FlyingFinite' /\ FailuresBounded' /\ CounterNoted' /\ ChunksSendable' /\ AllRequested'
  BY <1>1 DEF IInv, FlyingFinite, FailuresBounded, CounterNoted, ChunksSendable, AllRequested
<1>8. FoundSound'
  BY <1>1 DEF FoundSound, SoundFor, Nothing
<1>9. CacheSound'
  BY <1>1, NewCacheMeaning DEF CacheSound, SoundFor, SoundVerdict
<1> QED
  BY <1>4, <1>5, <1>6, <1>7, <1>8, <1>9 DEF IInv, ResultsSound

-----------------------------------------------------------------------------
\* The theorems.

LEMMA NextInv == IInv /\ [Next]_vars => IInv'
<1> SUFFICES ASSUME IInv, [Next]_vars PROVE IInv'
  OBVIOUS
<1>1. ASSUME NEW p \in Partitions, StartPartition(p) PROVE IInv'
  BY <1>1, StartPartitionInv
<1>2. CASE Fetch
  <2>1. PICK s \in Service : \E c \in queued[s] \cup flying[s] :
          Call(s, c) \/ Bypass(s, c) \/ Answered(s, c) \/ Fault(s, c) \/ PartitionFails(s, c)
    BY <1>2 DEF Fetch
  <2> QED
    BY <2>1, CallInv, BypassInv, AnsweredInv, FaultInv, PartitionFailsInv
<1>3. CASE Finish
  BY <1>3, FinishInv
<1>4. CASE WorkerDies
  BY <1>4, WorkerDiesInv
<1>5. CASE UNCHANGED vars
  <2> USE <1>5 DEF vars, calls
  <2>1. TypeOK' /\ FlyingFinite' /\ FailuresBounded' /\ ChunksSendable' /\ CounterNoted'
    BY DEF IInv, TypeOK, FlyingFinite, FailuresBounded, ChunksSendable, CounterNoted
  <2>2. AllRequested'
    BY DEF IInv, AllRequested, Needed
  <2>3. FoundSound' /\ CacheSound'
    BY DEF IInv, FoundSound, CacheSound, SoundFor, SoundVerdict
  <2>4. ResultsSound'
    BY ResultsKept DEF IInv
  <2> QED
    BY <2>1, <2>2, <2>3, <2>4 DEF IInv
<1> QED
  BY <1>1, <1>2, <1>3, <1>4, <1>5 DEF Next

\* The invariant holds in every reachable state.
LEMMA Invariance == Spec => []IInv
  BY InitInv, NextInv, PTL DEF Spec

\* Types are correct: in particular the counters of the breakers are numbers
\* and every result is one that rules.py can produce.
THEOREM TypeCorrect == Spec => []TypeOK
<1>1. IInv => TypeOK
  BY DEF IInv
<1> QED
  BY <1>1, Invariance, PTL

\* A counter of rules.py overshoots CIRCUIT_BREAKER_LIMIT by less than
\* BATCH_FETCH_MAX_CONCURRENCY, for all values of both.
THEOREM BreakerOvershoot == Spec => []FailuresBounded
<1>1. IInv => FailuresBounded
  BY DEF IInv
<1> QED
  BY <1>1, Invariance, PTL

\* When the records of a partition are validated, no identifier is missing,
\* for every partition, chunk size and order of the answers.
THEOREM PrefetchComplete == Spec => []EveryIdFetched
<1>1. IInv => EveryIdFetched
  BY FetchedMeaning DEF EveryIdFetched
<1> QED
  BY <1>1, Invariance, PTL

\* A record is accepted without a warning only if it breaks no rule and every
\* service knows its identifiers.
THEOREM NoFalseAccept == Spec => []AcceptedIsGenuine
<1>1. IInv => AcceptedIsGenuine
  BY DEF IInv, ResultsSound
<1> QED
  BY <1>1, Invariance, PTL

\* A record is accepted with a warning only if it passes the local rules and
\* a breaker has opened.
THEOREM BypassOnlyWhenOpened == Spec => []BypassEarned
<1>1. IInv => BypassEarned
  BY DEF IInv, ResultsSound
<1> QED
  BY <1>1, Invariance, PTL

\* A record is rejected as unknown only if the service does not know it, and
\* never because its chunk was too long for the service.
THEOREM NoFalseReject == Spec => []RejectedIsUnknown
<1>1. IInv => RejectedIsUnknown
  BY DEF IInv, ResultsSound
<1> QED
  BY <1>1, Invariance, PTL

\* An open breaker with no call on its way stays open until the worker ends:
\* rules.py has no half-open state.
THEOREM NoHalfOpen == Spec => BreakerStaysOpen
<1>1. ASSUME TypeOK, [Next]_vars, NEW s \in Service, Quiet(s)
      PROVE  Quiet(s)' \/ opened' = {}
  <2> USE DEF Quiet
  <2>1. ASSUME NEW p \in Partitions, StartPartition(p) PROVE Quiet(s)'
    BY <1>1, <2>1 DEF StartPartition
  <2>2. CASE Fetch
    <3>1. PICK t \in Service : \E c \in queued[t] \cup flying[t] :
            Call(t, c) \/ Bypass(t, c) \/ Answered(t, c) \/ Fault(t, c) \/ PartitionFails(t, c)
      BY <2>2 DEF Fetch
    <3>2. PICK c :
            Call(t, c) \/ Bypass(t, c) \/ Answered(t, c) \/ Fault(t, c) \/ PartitionFails(t, c)
      BY <3>1
    <3>3. CASE Call(t, c)
      BY <1>1, <3>3 DEF Call, BreakerOpen, TypeOK
    <3>4. CASE Bypass(t, c)
      BY <1>1, <3>4 DEF Bypass
    <3>5. CASE Answered(t, c) \/ Fault(t, c)
      BY <1>1, <3>5 DEF Answered, Fault, Land, TypeOK
    <3>6. CASE PartitionFails(t, c)
      <4>1. s # t /\ flying'[s] = {}
        BY <1>1, <3>6 DEF PartitionFails, NoChunks
      <4>2. PICK cut : /\ cut[s] \subseteq flying[s]
                       /\ failed' = [u \in Service |->
                            (IF u = t THEN 0 ELSE failed[u]) + Cardinality(cut[u])]
        BY <3>6 DEF PartitionFails
      <4>3. Cardinality(cut[s]) = 0
        BY <1>1, <4>2, FS_EmptySet
      <4> QED
        BY <1>1, <4>1, <4>2, <4>3 DEF TypeOK
    <3> QED
      BY <3>2, <3>3, <3>4, <3>5, <3>6
  <2>3. CASE Finish
    BY <1>1, <2>3 DEF Finish
  <2>4. CASE WorkerDies
    BY <2>4 DEF WorkerDies
  <2>5. CASE UNCHANGED vars
    BY <1>1, <2>5 DEF vars, calls
  <2> QED
    BY <1>1, <2>1, <2>2, <2>3, <2>4, <2>5 DEF Next
<1>2. TypeOK /\ [Next]_vars =>
        [\A s \in Service : Quiet(s) => Quiet(s)' \/ opened' = {}]_vars
  BY <1>1
<1> QED
  BY <1>2, TypeCorrect, PTL DEF Spec, BreakerStaysOpen
=============================================================================
