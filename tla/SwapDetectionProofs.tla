------------------------ MODULE SwapDetectionProofs ------------------------
(***************************************************************************)
(* Conflict resolution and swap detection for batches of every length and  *)
(* content, histories of every length and order, any size of a chunk.      *)
(*                                                                         *)
(* Conflict B: the loop computes the rule, the rule has one solution, and  *)
(* the clean stream never shows a subscriber with two open sessions.       *)
(*                                                                         *)
(* Swap detection runs that loop, what it writes to swap_event are real    *)
(* reassignments, and it misses none but those that a failure dropped.     *)
(*                                                                         *)
(* A simulated batch, of any size: it finds what the simulator injects.    *)
(***************************************************************************)
EXTENDS Simulation, WellFoundedInduction, FiniteSetTheorems, SequenceTheorems, TLAPS

-----------------------------------------------------------------------------
\* What the loop of m has open is what the rule calls open at its cursor.
OpenFollowsRule ==
    \A m \in Imsi, s \in Session :
        s \in openSessions[m] <=>
            \E j \in Rows(df) : OpenAt(df, flagged, m, j, cursor[m] + 1) /\ df[j].sess = s

FlaggedBehindCursor ==
    \A i \in flagged : i \in Scanned(df, df[i].imsi) /\ i <= cursor[df[i].imsi]

FlagsFollowRule ==
    \A i \in Rows(df) : i <= cursor[df[i].imsi] =>
        (i \in flagged <=> ConflictB(df, flagged, i))

AtMostOneOpen == \A m \in Imsi : \A s, t \in openSessions[m] : s = t

\* Behind the cursor, a Stop separates the Starts of different sessions.
StartsSeparated ==
    \A m \in Imsi : \A i, j \in Scanned(df, m) :
        /\ i < j /\ j <= cursor[m]
        /\ df[i].status = "Start" /\ df[j].status = "Start"
        /\ i \notin flagged /\ j \notin flagged
        /\ ~SameSession(df, i, j)
        => \E k \in Scanned(df, m) : /\ i < k /\ k < j
                                     /\ SameSession(df, i, k) /\ Closes(df[k])

IInv ==
    /\ TypeOK
    /\ FlaggedBehindCursor
    /\ OpenFollowsRule
    /\ FlagsFollowRule
    /\ AtMostOneOpen
    /\ StartsSeparated

-----------------------------------------------------------------------------
LEMMA RowType ==
  ASSUME TypeOK, NEW i \in Rows(df)
  PROVE  /\ i \in Nat /\ i >= 1 /\ i <= Len(df)
         /\ df[i] \in Record
         /\ df[i].imsi \in Imsi /\ df[i].sess \in Session
         /\ df[i].status \in {"Start", "Stop", "Interim-Update"}
<1>1. df \in Seq(Record) /\ Len(df) \in Nat
  BY DEF TypeOK
<1>2. df[i] \in Record
  BY <1>1 DEF Rows
<1> QED
  BY <1>1, <1>2 DEF Rows, Record

LEMMA ScannedFacts ==
  ASSUME NEW m, NEW i \in Scanned(df, m)
  PROVE  i \in Rows(df) /\ df[i].imsi = m
BY DEF Scanned

\* Whether a session is open at row i does not depend on the flags of rows that
\* come later or belong to another subscriber.
LEMMA OpenIgnores ==
  ASSUME TypeOK, NEW m, NEW i \in Nat, NEW j \in Rows(df),
         NEW F, NEW x \in Nat, x >= i \/ df[x].imsi # m
  PROVE  OpenAt(df, F \cup {x}, m, j, i) <=> OpenAt(df, F, m, j, i)
<1>1. j \in Nat /\ (j \in Scanned(df, m) => df[j].imsi = m)
  BY RowType, ScannedFacts
<1>2. j \in Scanned(df, m) /\ j < i => j # x
  BY <1>1
<1> QED
  BY <1>2 DEF OpenAt

\* Nor does conflict B.
LEMMA RuleIgnores ==
  ASSUME TypeOK, NEW i \in Rows(df), NEW F, NEW x \in Nat, x >= i \/ df[x].imsi # df[i].imsi
  PROVE  ConflictB(df, F \cup {x}, i) <=> ConflictB(df, F, i)
<1>1. i \in Nat
  BY RowType
<1>2. \A j \in Rows(df) :
         OpenAt(df, F \cup {x}, df[i].imsi, j, i) <=> OpenAt(df, F, df[i].imsi, j, i)
  BY <1>1, OpenIgnores
<1> QED
  BY <1>2 DEF ConflictB

\* One row further, the open sessions are those that the row does not close,
\* and its own if it is a Start that is not refused.
LEMMA OpenNext ==
  ASSUME TypeOK, NEW m \in Imsi, NEW x \in Rows(df), NEW F, NEW j \in Rows(df)
  PROVE  OpenAt(df, F, m, j, x + 1) <=>
            \/ /\ OpenAt(df, F, m, j, x)
               /\ ~(x \in Scanned(df, m) /\ SameSession(df, j, x) /\ Closes(df[x]))
            \/ j = x /\ x \in Scanned(df, m) /\ df[x].status = "Start" /\ x \notin F
<1>1. x \in Nat /\ j \in Nat /\ \A k \in Scanned(df, m) : k \in Nat
  BY RowType, ScannedFacts
<1>2. j < x + 1 <=> j < x \/ j = x
  BY <1>1
<1>3. \A k \in Scanned(df, m) : k < x + 1 <=> k < x \/ k = x
  BY <1>1
<1>4. CASE j = x
  <2>1. ~(j < x) /\ j < x + 1
    BY <1>1, <1>4
  <2>2. \A k \in Scanned(df, m) : ~(j < k /\ k < x + 1)
    BY <1>1, <1>4
  <2> QED
    BY <1>4, <2>1, <2>2 DEF OpenAt
<1>5. CASE j < x
  BY <1>1, <1>2, <1>3, <1>5 DEF OpenAt
<1>6. CASE ~(j < x + 1)
  BY <1>1, <1>2, <1>6 DEF OpenAt
<1> QED
  BY <1>2, <1>4, <1>5, <1>6

-----------------------------------------------------------------------------
LEMMA Initially == Init => IInv
<1> SUFFICES ASSUME Init PROVE IInv
  OBVIOUS
<1>1. df \in Seq(Record) /\ Len(df) \in Nat
  BY BatchAssumption DEF Init, LoopInit
<1>2. TypeOK
  BY <1>1 DEF Init, LoopInit, TypeOK
<1>3. /\ \A m \in Imsi : cursor[m] = 0 /\ openSessions[m] = {}
      /\ flagged = {}
  BY DEF Init, LoopInit
<1>4. \A i \in Rows(df) : i \in Nat /\ i >= 1 /\ df[i].imsi \in Imsi
  BY <1>2, RowType
<1>5. \A m \in Imsi, j \in Rows(df) : ~OpenAt(df, flagged, m, j, cursor[m] + 1)
  BY <1>3, <1>4 DEF OpenAt
<1>6. OpenFollowsRule
  BY <1>3, <1>5 DEF OpenFollowsRule
<1>7. FlagsFollowRule /\ FlaggedBehindCursor
  BY <1>3, <1>4 DEF FlagsFollowRule, FlaggedBehindCursor
<1>8. AtMostOneOpen
  BY <1>3 DEF AtMostOneOpen
<1>9. StartsSeparated
  BY <1>3, <1>4, ScannedFacts DEF StartsSeparated
<1> QED
  BY <1>2, <1>6, <1>7, <1>8, <1>9 DEF IInv

\* The row under the cursor.
LEMMA CursorFacts ==
  ASSUME IInv, NEW m \in Imsi, HasRow(m)
  PROVE  /\ cursor[m] \in Nat
         /\ NextRow(m) = cursor[m] + 1
         /\ NextRow(m) \in Rows(df)
         /\ NextRow(m) \notin flagged \/ df[NextRow(m)].imsi # m
<1>1. cursor[m] \in Nat /\ Len(df) \in Nat /\ cursor[m] < Len(df)
  BY DEF IInv, TypeOK, HasRow
<1>2. NextRow(m) = cursor[m] + 1 /\ NextRow(m) \in Rows(df)
  BY <1>1 DEF NextRow, Rows
<1> QED
  BY <1>1, <1>2 DEF IInv, FlaggedBehindCursor

\* What both kinds of step have in common: the cursor of m moves to the next
\* row x, and the flags grow at most by x, if x belongs to m.
Advance(m, x) ==
    /\ HasRow(m) /\ x = NextRow(m)
    /\ cursor' = [cursor EXCEPT ![m] = @ + 1]
    /\ df' = df
    /\ \/ flagged' = flagged
       \/ flagged' = flagged \cup {x} /\ x \in Scanned(df, m)

LEMMA AdvanceFacts ==
  ASSUME IInv, NEW m \in Imsi, NEW x, Advance(m, x)
  PROVE  /\ x \in Rows(df) /\ x \in Nat /\ x = cursor[m] + 1 /\ cursor'[m] = x
         /\ \A n \in Imsi : n # m => cursor'[n] = cursor[n]
         /\ \A n \in Imsi : cursor[n] \in Nat /\ cursor'[n] \in Nat /\ cursor'[n] <= Len(df)
         /\ \A i \in Rows(df) : i # x => (i \in flagged' <=> i \in flagged)
<1>1. x \in Rows(df) /\ x = cursor[m] + 1
  BY CursorFacts DEF Advance
<1>2. cursor \in [Imsi -> Nat] /\ Len(df) \in Nat
  BY DEF IInv, TypeOK
<1>3. x \in Nat /\ x <= Len(df)
  BY <1>1, <1>2 DEF Rows
<1> QED
  BY <1>1, <1>2, <1>3 DEF Advance, IInv, TypeOK

\* The flags behind the cursors keep following the rule if the flag of the new
\* row does.
LEMMA FlagsStep ==
  ASSUME IInv, NEW m \in Imsi, NEW x, Advance(m, x),
         df[x].imsi = m => (x \in flagged' <=> ConflictB(df, flagged, x))
  PROVE  FlagsFollowRule' /\ FlaggedBehindCursor'
<1>1. /\ x \in Rows(df) /\ x \in Nat /\ x = cursor[m] + 1 /\ cursor'[m] = x
      /\ \A n \in Imsi : n # m => cursor'[n] = cursor[n]
      /\ \A n \in Imsi : cursor[n] \in Nat
      /\ \A i \in Rows(df) : i # x => (i \in flagged' <=> i \in flagged)
  BY AdvanceFacts
<1>2. /\ df' = df
      /\ flagged' = flagged \/ (flagged' = flagged \cup {x} /\ x \in Scanned(df, m))
  BY DEF Advance
<1>3. FlagsFollowRule'
  <2> SUFFICES ASSUME NEW i \in Rows(df), i <= cursor'[df[i].imsi]
               PROVE  i \in flagged' <=> ConflictB(df, flagged', i)
    BY <1>2 DEF FlagsFollowRule
  <2>1. i \in Nat /\ df[i].imsi \in Imsi
    BY RowType DEF IInv
  <2>2. ConflictB(df, flagged', i) <=> ConflictB(df, flagged, i)
    <3>1. CASE flagged' = flagged
      BY <3>1
    <3>2. CASE flagged' = flagged \cup {x} /\ x \in Scanned(df, m)
      <4>1. x >= i \/ df[x].imsi # df[i].imsi
        BY <1>1, <2>1, <3>2, ScannedFacts
      <4> QED
        BY <1>1, <3>2, <4>1, RuleIgnores DEF IInv
    <3> QED
      BY <1>2, <3>1, <3>2
  <2>3. CASE i # x
    <3>1. i <= cursor[df[i].imsi]
      BY <1>1, <2>1, <2>3
    <3> QED
      BY <1>1, <2>2, <2>3, <3>1 DEF IInv, FlagsFollowRule
  <2>4. CASE i = x /\ df[x].imsi = m
    BY <2>2, <2>4
  <2>5. CASE i = x /\ df[x].imsi # m
    <3>1. flagged' = flagged
      BY <1>2, <2>5, ScannedFacts
    <3>2. i <= cursor[df[i].imsi]
      BY <1>1, <2>1, <2>5
    <3> QED
      BY <3>1, <3>2 DEF IInv, FlagsFollowRule
  <2> QED
    BY <2>3, <2>4, <2>5
<1>4. FlaggedBehindCursor'
  <2> SUFFICES ASSUME NEW i \in flagged'
               PROVE  i \in Scanned(df, df[i].imsi) /\ i <= cursor'[df[i].imsi]
    BY <1>2 DEF FlaggedBehindCursor
  <2>1. CASE i \in flagged
    <3>1. i \in Scanned(df, df[i].imsi) /\ i <= cursor[df[i].imsi]
      BY <2>1 DEF IInv, FlaggedBehindCursor
    <3>2. i \in Nat /\ df[i].imsi \in Imsi
      BY <3>1, ScannedFacts, RowType DEF IInv
    <3> QED
      BY <1>1, <3>1, <3>2
  <2>2. CASE i = x /\ x \in Scanned(df, m)
    BY <1>1, <2>2, ScannedFacts
  <2> QED
    BY <1>2, <2>1, <2>2
<1> QED
  BY <1>3, <1>4

\* The sessions that the rule calls open after the step.
LEMMA OpenStep ==
  ASSUME IInv, NEW m \in Imsi, NEW x, Advance(m, x), NEW n \in Imsi, NEW j \in Rows(df)
  PROVE  OpenAt(df, flagged', n, j, cursor'[n] + 1) <=>
            IF n # m
            THEN OpenAt(df, flagged, n, j, cursor[n] + 1)
            ELSE \/ /\ OpenAt(df, flagged, m, j, x)
                    /\ ~(x \in Scanned(df, m) /\ SameSession(df, j, x) /\ Closes(df[x]))
                 \/ j = x /\ x \in Scanned(df, m) /\ df[x].status = "Start" /\ x \notin flagged'
<1>1. /\ x \in Rows(df) /\ x \in Nat /\ x = cursor[m] + 1 /\ cursor'[m] = x
      /\ n # m => cursor'[n] = cursor[n]
      /\ cursor[n] + 1 \in Nat
  BY AdvanceFacts
<1>2. flagged' = flagged \/ (flagged' = flagged \cup {x} /\ x \in Scanned(df, m))
  BY DEF Advance
<1>3. CASE n # m
  <2>1. CASE flagged' = flagged
    BY <1>1, <1>3, <2>1
  <2>2. CASE flagged' = flagged \cup {x} /\ x \in Scanned(df, m)
    <3>1. df[x].imsi # n
      BY <1>3, <2>2, ScannedFacts
    <3> QED
      BY <1>1, <1>3, <2>2, <3>1, OpenIgnores DEF IInv
  <2> QED
    BY <1>2, <2>1, <2>2
<1>4. CASE n = m
  <2>1. OpenAt(df, flagged', m, j, x) <=> OpenAt(df, flagged, m, j, x)
    <3>1. x >= x
      BY <1>1
    <3> QED
      BY <1>1, <1>2, <3>1, OpenIgnores DEF IInv
  <2> QED
    BY <1>1, <1>4, <2>1, OpenNext DEF IInv
<1> QED
  BY <1>3, <1>4

\* Before the step, the rule says of row x what the loop has open.
LEMMA OpenBefore ==
  ASSUME IInv, NEW m \in Imsi, NEW x, Advance(m, x)
  PROVE  \A s \in Session : s \in openSessions[m] <=>
            \E j \in Rows(df) : OpenAt(df, flagged, m, j, x) /\ df[j].sess = s
BY AdvanceFacts DEF IInv, OpenFollowsRule

\* A Start that is not refused when at most its own session is open keeps the
\* Starts behind the cursor separated.
LEMMA SeparatedStep ==
  ASSUME IInv, NEW m \in Imsi, NEW x, Advance(m, x),
         x \in Scanned(df, m) /\ df[x].status = "Start" /\ x \notin flagged'
            => openSessions[m] \subseteq {df[x].sess}
  PROVE  StartsSeparated'
<1>1. /\ x \in Rows(df) /\ x \in Nat /\ x = cursor[m] + 1 /\ cursor'[m] = x
      /\ \A n \in Imsi : n # m => cursor'[n] = cursor[n]
      /\ \A n \in Imsi : cursor[n] \in Nat
      /\ \A i \in Rows(df) : i # x => (i \in flagged' <=> i \in flagged)
      /\ df' = df
  BY AdvanceFacts DEF Advance
<1> SUFFICES ASSUME NEW n \in Imsi, NEW i \in Scanned(df, n), NEW j \in Scanned(df, n),
                    i < j, j <= cursor'[n],
                    df[i].status = "Start", df[j].status = "Start",
                    i \notin flagged', j \notin flagged', ~SameSession(df, i, j)
             PROVE  \E k \in Scanned(df, n) : /\ i < k /\ k < j
                                              /\ SameSession(df, i, k) /\ Closes(df[k])
  BY <1>1 DEF StartsSeparated
<1>2. /\ i \in Rows(df) /\ j \in Rows(df) /\ i \in Nat /\ j \in Nat
      /\ df[i].imsi = n /\ df[j].imsi = n /\ df[i].sess \in Session
  BY ScannedFacts, RowType DEF IInv
<1>3. CASE n # m \/ j # x
  <2>1. j <= cursor[n]
    BY <1>1, <1>2, <1>3
  <2>2. i \notin flagged /\ j \notin flagged
    <3>1. CASE n # m
      <4>1. flagged \subseteq flagged'
        BY DEF Advance
      <4> QED
        BY <4>1
    <3>2. CASE n = m
      <4>1. i # x /\ j # x
        BY <1>1, <1>2, <1>3, <2>1, <3>2
      <4> QED
        BY <1>1, <1>2, <4>1
    <3> QED
      BY <3>1, <3>2
  <2> QED
    BY <2>1, <2>2 DEF IInv, StartsSeparated
<1>4. CASE n = m /\ j = x
  <2>1. openSessions[m] \subseteq {df[x].sess} /\ df[i].sess # df[x].sess
    BY <1>4 DEF SameSession
  <2>2. df[i].sess \notin openSessions[m]
    BY <2>1
  <2>3. ~OpenAt(df, flagged, m, i, x)
    BY <1>2, <2>2, OpenBefore
  <2>4. i \notin flagged
    BY <1>1, <1>2, <1>4
  <2> QED
    BY <1>2, <1>4, <2>3, <2>4 DEF OpenAt
<1> QED
  BY <1>3, <1>4

\* The parts of the type invariant that a step touches.
LEMMA TypeStep ==
  ASSUME IInv, NEW m \in Imsi, NEW x, Advance(m, x),
         openSessions' \in [Imsi -> SUBSET Session]
  PROVE  TypeOK'
<1>1. /\ x \in Rows(df)
      /\ \A n \in Imsi : cursor'[n] \in Nat /\ cursor'[n] <= Len(df)
  BY AdvanceFacts
<1>2. cursor' \in [Imsi -> Nat]
  BY <1>1 DEF Advance, IInv, TypeOK
<1>3. flagged' \subseteq Rows(df)
  BY <1>1 DEF Advance, IInv, TypeOK
<1> QED
  BY <1>1, <1>2, <1>3 DEF Advance, IInv, TypeOK

LEMMA SkipStep ==
  ASSUME IInv, NEW m \in Imsi, Skip(m)
  PROVE  IInv'
<1> DEFINE x == NextRow(m)
<1>1. /\ Advance(m, x) /\ x \notin Scanned(df, m)
      /\ openSessions' = openSessions /\ flagged' = flagged /\ df' = df
  BY DEF Skip, Advance
<1>2. x \notin flagged \/ df[x].imsi # m
  BY <1>1, CursorFacts DEF Advance
<1> HIDE DEF x
<1>3. TypeOK'
  BY <1>1, TypeStep DEF IInv, TypeOK
<1>4. FlagsFollowRule' /\ FlaggedBehindCursor'
  BY <1>1, <1>2, FlagsStep DEF ConflictB
<1>5. StartsSeparated'
  BY <1>1, SeparatedStep
<1>6. OpenFollowsRule'
  <2> SUFFICES ASSUME NEW n \in Imsi, NEW s \in Session
               PROVE  s \in openSessions[n] <=>
                         \E j \in Rows(df) : /\ OpenAt(df, flagged', n, j, cursor'[n] + 1)
                                             /\ df[j].sess = s
    BY <1>1 DEF OpenFollowsRule
  <2>1. CASE n # m
    BY <1>1, <2>1, OpenStep DEF IInv, OpenFollowsRule
  <2>2. CASE n = m
    BY <1>1, <2>2, OpenStep, OpenBefore
  <2> QED
    BY <2>1, <2>2
<1>7. AtMostOneOpen'
  BY <1>1 DEF IInv, AtMostOneOpen
<1> QED
  BY <1>3, <1>4, <1>5, <1>6, <1>7 DEF IInv

\* The sessions that the row x of m leaves open, out of those open before.
OpenAfter(open, x, refused) ==
    IF df[x].status = "Start"
    THEN IF refused THEN open ELSE open \cup {df[x].sess}
    ELSE IF Closes(df[x]) THEN open \ {df[x].sess} ELSE open

\* The branches of the loop body.
LEMMA ScanFacts ==
  ASSUME IInv, NEW m \in Imsi, NEW x, x = NextRow(m), Scan(m)
  PROVE  /\ Advance(m, x) /\ x \in Scanned(df, m) /\ df' = df
         /\ x \in Rows(df) /\ df[x].sess \in Session /\ x \notin flagged
         /\ openSessions' = [openSessions EXCEPT ![m] = OpenAfter(openSessions[m], x, x \in flagged')]
         /\ x \in flagged' <=> /\ df[x].status = "Start"
                               /\ df[x].sess \notin openSessions[m]
                               /\ openSessions[m] # {}
         /\ flagged' = flagged \/ flagged' = flagged \cup {x}
<1>1. /\ HasRow(m) /\ x \in Scanned(df, m) /\ df' = df
      /\ cursor' = [cursor EXCEPT ![m] = @ + 1]
  BY DEF Scan
<1>2. x \in Rows(df) /\ df[x].imsi = m /\ df[x].sess \in Session /\ x \notin flagged
  BY <1>1, CursorFacts, ScannedFacts, RowType DEF IInv
<1>3. openSessions \in [Imsi -> SUBSET Session]
  BY DEF IInv, TypeOK
<1>4. CASE Start(m)
  <2>1. CASE df[x].sess \notin openSessions[m] /\ openSessions[m] # {}
    <3>1. /\ df[x].status = "Start"
          /\ flagged' = flagged \cup {x} /\ openSessions' = openSessions
      BY <1>4, <2>1 DEF Start
    <3>2. OpenAfter(openSessions[m], x, x \in flagged') = openSessions[m]
      BY <3>1 DEF OpenAfter
    <3> QED
      BY <1>1, <1>2, <1>3, <2>1, <3>1, <3>2 DEF Advance
  <2>2. CASE ~(df[x].sess \notin openSessions[m] /\ openSessions[m] # {})
    <3>1. /\ df[x].status = "Start" /\ flagged' = flagged
          /\ openSessions' = [openSessions EXCEPT ![m] = @ \cup {df[x].sess}]
      BY <1>4, <2>2 DEF Start
    <3>2. OpenAfter(openSessions[m], x, x \in flagged') = openSessions[m] \cup {df[x].sess}
      BY <1>2, <3>1 DEF OpenAfter
    <3> QED
      BY <1>1, <1>2, <1>3, <2>2, <3>1, <3>2 DEF Advance
  <2> QED
    BY <2>1, <2>2
<1>5. CASE Close(m)
  <2>1. /\ Closes(df[x]) /\ flagged' = flagged
        /\ openSessions' = [openSessions EXCEPT ![m] = @ \ {df[x].sess}]
    BY <1>5 DEF Close
  <2>2. df[x].status # "Start"
    BY <2>1 DEF Closes
  <2>3. OpenAfter(openSessions[m], x, x \in flagged') = openSessions[m] \ {df[x].sess}
    BY <2>1, <2>2 DEF OpenAfter
  <2> QED
    BY <1>1, <1>2, <1>3, <2>1, <2>2, <2>3 DEF Advance
<1>6. CASE Other(m)
  <2>1. /\ ~Closes(df[x]) /\ df[x].status # "Start" /\ flagged' = flagged
        /\ openSessions' = openSessions
    BY <1>6 DEF Other
  <2>2. OpenAfter(openSessions[m], x, x \in flagged') = openSessions[m]
    BY <2>1 DEF OpenAfter
  <2> QED
    BY <1>1, <1>2, <1>3, <2>1, <2>2 DEF Advance
<1> QED
  BY <1>4, <1>5, <1>6 DEF Scan

LEMMA ScanStep ==
  ASSUME IInv, NEW m \in Imsi, Scan(m)
  PROVE  IInv'
<1> DEFINE x == NextRow(m)
           row == df[x]
<1>1. /\ Advance(m, x) /\ x \in Scanned(df, m) /\ df' = df
      /\ x \in Rows(df) /\ row.sess \in Session /\ x \notin flagged
      /\ openSessions' = [openSessions EXCEPT ![m] = OpenAfter(openSessions[m], x, x \in flagged')]
      /\ x \in flagged' <=> /\ row.status = "Start"
                            /\ row.sess \notin openSessions[m]
                            /\ openSessions[m] # {}
  BY ScanFacts
<1> HIDE DEF x
<1>2. openSessions \in [Imsi -> SUBSET Session]
  BY DEF IInv, TypeOK
<1>3. /\ \A n \in Imsi : openSessions'[n] =
            IF n = m THEN OpenAfter(openSessions[m], x, x \in flagged') ELSE openSessions[n]
      /\ openSessions' \in [Imsi -> SUBSET Session]
  BY <1>1, <1>2 DEF OpenAfter
<1>4. \A s, t \in openSessions[m] : s = t
  BY DEF IInv, AtMostOneOpen
<1>5. TypeOK'
  BY <1>1, <1>3, TypeStep
<1>6. FlagsFollowRule' /\ FlaggedBehindCursor'
  <2>1. \A s \in openSessions[m] : s \in Session
    BY <1>2
  <2>2. openSessions[m] # {} <=> \E j \in Rows(df) : OpenAt(df, flagged, m, j, x)
    <3>1. \A j \in Rows(df) : df[j].sess \in Session
      BY RowType DEF IInv
    <3> QED
      BY <1>1, <2>1, <3>1, OpenBefore
  <2>3. row.sess \notin openSessions[m] <=>
           \A j \in Rows(df) : OpenAt(df, flagged, m, j, x) => ~SameSession(df, x, j)
    BY <1>1, OpenBefore DEF SameSession
  <2>4. row.imsi = m
    BY <1>1, ScannedFacts
  <2>5. x \in flagged' <=> ConflictB(df, flagged, x)
    BY <1>1, <2>2, <2>3, <2>4 DEF ConflictB
  <2> QED
    BY <1>1, <2>5, FlagsStep
<1>7. StartsSeparated'
  <2>1. row.status = "Start" /\ x \notin flagged' => openSessions[m] \subseteq {row.sess}
    BY <1>1, <1>4
  <2> QED
    BY <1>1, <2>1, SeparatedStep
<1>8. OpenFollowsRule'
  <2> SUFFICES ASSUME NEW n \in Imsi, NEW s \in Session
               PROVE  s \in openSessions'[n] <=>
                         \E j \in Rows(df) : /\ OpenAt(df, flagged', n, j, cursor'[n] + 1)
                                             /\ df[j].sess = s
    BY <1>1 DEF OpenFollowsRule
  <2>1. CASE n # m
    BY <1>1, <1>3, <2>1, OpenStep DEF IInv, OpenFollowsRule
  <2>2. CASE n = m
    <3>1. \A j \in Rows(df) : OpenAt(df, flagged', m, j, cursor'[m] + 1) <=>
             \/ OpenAt(df, flagged, m, j, x) /\ ~(df[j].sess = row.sess /\ Closes(row))
             \/ j = x /\ row.status = "Start" /\ x \notin flagged'
      BY <1>1, OpenStep DEF SameSession
    <3>2. s \in openSessions[m] <=>
             \E j \in Rows(df) : OpenAt(df, flagged, m, j, x) /\ df[j].sess = s
      BY <1>1, OpenBefore
    <3>3. row.status = "Start" => ~Closes(row)
      BY DEF Closes
    <3>4. s \in OpenAfter(openSessions[m], x, x \in flagged') <=>
             \/ s \in openSessions[m] /\ ~(s = row.sess /\ Closes(row))
             \/ s = row.sess /\ row.status = "Start" /\ x \notin flagged'
      BY <3>3 DEF OpenAfter
    <3> QED
      BY <1>1, <1>3, <2>2, <3>1, <3>2, <3>4
  <2> QED
    BY <2>1, <2>2
<1>9. AtMostOneOpen'
  <2> SUFFICES ASSUME NEW n \in Imsi, NEW s \in openSessions'[n], NEW t \in openSessions'[n]
               PROVE  s = t
    BY DEF AtMostOneOpen
  <2>1. CASE n # m
    BY <1>3, <2>1 DEF IInv, AtMostOneOpen
  <2>2. CASE n = m
    BY <1>1, <1>3, <1>4, <2>2 DEF OpenAfter
  <2> QED
    BY <2>1, <2>2
<1> QED
  BY <1>5, <1>6, <1>7, <1>8, <1>9 DEF IInv

LEMMA Inductive == IInv /\ [Next]_vars => IInv'
<1> SUFFICES ASSUME IInv, [Next]_vars PROVE IInv'
  OBVIOUS
<1>1. CASE UNCHANGED vars
  <2>1. TypeOK' /\ FlaggedBehindCursor' /\ AtMostOneOpen'
    BY <1>1 DEF vars, IInv, TypeOK, FlaggedBehindCursor, AtMostOneOpen
  <2>2. OpenFollowsRule' /\ FlagsFollowRule'
    BY <1>1 DEF vars, IInv, OpenFollowsRule, FlagsFollowRule
  <2>3. StartsSeparated'
    BY <1>1 DEF vars, IInv, StartsSeparated
  <2> QED
    BY <2>1, <2>2, <2>3 DEF IInv
<1> QED
  BY <1>1, SkipStep, ScanStep DEF Next

LEMMA Invariance == Spec => []IInv
BY Initially, Inductive, PTL DEF Spec

-----------------------------------------------------------------------------
\* The rule has at most one solution: two of them agree up to any row.
LEMMA RuleUnique ==
  ASSUME TypeOK, NEW F \in SUBSET Rows(df), NEW G \in SUBSET Rows(df),
         \A i \in Rows(df) : i \in F <=> ConflictB(df, F, i),
         \A i \in Rows(df) : i \in G <=> ConflictB(df, G, i)
  PROVE  F = G
<1> DEFINE D == {i \in Rows(df) : ~(i \in F <=> i \in G)}
<1> SUFFICES ASSUME D # {} PROVE FALSE
  OBVIOUS
<1>1. D \subseteq Nat
  BY RowType
<1>2. PICK i \in D : \A j \in D : ~(<<j, i>> \in OpToRel(<, Nat))
  BY <1>1, NatLessThanWellFounded, WFMin
<1>3. i \in Rows(df) /\ i \in Nat
  BY RowType
<1>4. \A j \in Rows(df) : j < i => (j \in F <=> j \in G)
  <2> SUFFICES ASSUME NEW j \in D, j < i PROVE FALSE
    OBVIOUS
  <2>1. j \in Nat
    BY <1>1
  <2> QED
    BY <1>2, <1>3, <2>1 DEF OpToRel
<1>5. \A j \in Rows(df) : OpenAt(df, F, df[i].imsi, j, i) <=> OpenAt(df, G, df[i].imsi, j, i)
  BY <1>4 DEF OpenAt
<1>6. ConflictB(df, F, i) <=> ConflictB(df, G, i)
  BY <1>5 DEF ConflictB
<1> QED
  BY <1>3, <1>6

\* At the end of the loops every row is behind the cursor of its subscriber.
LEMMA DoneFacts ==
  ASSUME IInv, Done
  PROVE  \A m \in Imsi : cursor[m] = Len(df)
BY DEF IInv, TypeOK, Done, HasRow

\* The cursors stay within the batch and the flags within its rows.
THEOREM TypeCorrect == Spec => []TypeOK
<1>1. IInv => TypeOK
  BY DEF IInv
<1> QED
  BY <1>1, Invariance, PTL

\* For every batch, in every interleaving of the groups, the loop flags exactly
\* the rows that the rule calls conflict B.
THEOREM LoopCorrect == Spec => []LoopComputesRule
<1>1. IInv => LoopComputesRule
  <2> SUFFICES ASSUME IInv, Done PROVE flagged = FlaggedB(df)
    BY DEF LoopComputesRule
  <2>1. \A i \in Rows(df) : i \in flagged <=> ConflictB(df, flagged, i)
    BY DoneFacts, RowType DEF IInv, FlagsFollowRule
  <2>2. flagged \in SUBSET Rows(df) /\ TypeOK
    BY DEF IInv, TypeOK
  <2>3. /\ FlaggedB(df) \in SUBSET Rows(df)
        /\ \A i \in Rows(df) : i \in FlaggedB(df) <=> ConflictB(df, FlaggedB(df), i)
    BY <2>1, <2>2 DEF FlaggedB
  <2> QED
    BY <2>1, <2>2, <2>3, RuleUnique
<1> QED
  BY <1>1, Invariance, PTL

\* For every batch, the clean stream has at most one open session per imsi.
THEOREM OneOpenSession == Spec => []OneOpenSessionPerImsi
<1>1. IInv => OneOpenSessionPerImsi
  <2> SUFFICES ASSUME IInv, Done, NEW i \in CleanRows, NEW j \in CleanRows, i < j,
                      df[i].status = "Start", df[j].status = "Start",
                      df[i].imsi = df[j].imsi, ~SameSession(df, i, j)
               PROVE  \E k \in CleanRows : /\ i < k /\ k < j
                                           /\ SameSession(df, i, k)
                                           /\ df[k].status = "Stop"
                                           /\ df[k].imsi = df[i].imsi
    BY DEF OneOpenSessionPerImsi
  <2> DEFINE m == df[i].imsi
  <2>1. /\ i \in Scanned(df, m) /\ j \in Scanned(df, m)
        /\ i \notin flagged /\ j \notin flagged
        /\ i \in Rows(df) /\ j \in Rows(df)
    BY DEF CleanRows, Clean, Scanned
  <2>2. m \in Imsi /\ j <= cursor[m]
    BY <2>1, DoneFacts, RowType DEF IInv
  <2>3. PICK k \in Scanned(df, m) : i < k /\ k < j /\ SameSession(df, i, k) /\ Closes(df[k])
    BY <2>1, <2>2 DEF IInv, StartsSeparated
  <2>4. k \in Rows(df) /\ df[k].imsi = m /\ df[k].status = "Stop"
    BY <2>3, ScannedFacts, RowType DEF IInv, Closes
  <2>5. k \notin flagged
    <3>1. cursor[df[k].imsi] >= k
      BY <2>2, <2>4, DoneFacts, RowType DEF IInv
    <3>2. ~ConflictB(df, flagged, k)
      BY <2>4 DEF ConflictB
    <3> QED
      BY <2>4, <3>1, <3>2 DEF IInv, FlagsFollowRule
  <2> QED
    BY <2>3, <2>4, <2>5 DEF CleanRows, Clean, Scanned
<1> QED
  BY <1>1, Invariance, PTL

\* Every row has a first row of its session.
LEMMA FirstExists ==
  ASSUME TypeOK, NEW i \in Rows(df)
  PROVE  \E j \in 1..i : SameSession(df, i, j) /\ IsFirstOfSession(df, j)
<1> DEFINE S == {j \in 1..i : SameSession(df, i, j)}
<1>1. i \in Nat /\ i >= 1 /\ i \in S /\ S \subseteq Nat
  BY RowType DEF SameSession
<1>2. PICK j \in S : \A k \in S : ~(<<k, j>> \in OpToRel(<, Nat))
  BY <1>1, NatLessThanWellFounded, WFMin
<1>3. \A k \in S : ~(k < j)
  BY <1>1, <1>2 DEF OpToRel
<1>4. \A k \in 1..(j - 1) : k \in 1..i /\ k < j
  BY <1>1
<1>5. \A k \in 1..(j - 1) : ~SameSession(df, j, k)
  BY <1>3, <1>4 DEF SameSession
<1> QED
  BY <1>5 DEF IsFirstOfSession

\* For every batch, the rows of a session that only its first row starts have
\* one identity in the clean stream.
THEOREM IdentityKept == Spec => []SessionKeepsIdentity
<1>1. IInv => SessionKeepsIdentity
  <2> SUFFICES ASSUME IInv, NEW i \in CleanRows, NEW j \in CleanRows, SameSession(df, i, j),
                      \A k \in Rows(df) : SameSession(df, i, k) /\ df[k].status = "Start"
                                             => IsFirstOfSession(df, k)
               PROVE  SameIdentity(df, i, j)
    BY DEF SessionKeepsIdentity
  <2>1. TypeOK /\ i \in Rows(df) /\ j \in Rows(df) /\ i \in Nat /\ j \in Nat
    BY RowType DEF IInv, CleanRows, Clean
  <2>2. PICK f \in 1..i : SameSession(df, i, f) /\ IsFirstOfSession(df, f)
    BY <2>1, FirstExists
  <2>3. PICK g \in 1..j : SameSession(df, j, g) /\ IsFirstOfSession(df, g)
    BY <2>1, FirstExists
  <2>4. f = g
    <3>1. SameSession(df, f, g) /\ SameSession(df, g, f)
      BY <2>2, <2>3 DEF SameSession
    <3>2. ~(g \in 1..(f - 1)) /\ ~(f \in 1..(g - 1))
      BY <2>2, <2>3, <3>1 DEF IsFirstOfSession
    <3> QED
      BY <2>1, <3>2
  <2>5. SameIdentity(df, i, f)
    <3>1. CASE df[i].status = "Start"
      <4>1. IsFirstOfSession(df, i)
        BY <2>1, <3>1 DEF SameSession
      <4>2. ~(f \in 1..(i - 1))
        BY <2>2, <4>1 DEF IsFirstOfSession
      <4> QED
        BY <2>1, <4>2 DEF SameIdentity
    <3>2. CASE df[i].status # "Start"
      BY <2>2, <3>2 DEF CleanRows, Clean, ConflictA
    <3> QED
      BY <3>1, <3>2
  <2>6. SameIdentity(df, j, g)
    <3>1. CASE df[j].status = "Start"
      <4>1. IsFirstOfSession(df, j)
        BY <2>1, <3>1 DEF SameSession
      <4>2. ~(g \in 1..(j - 1))
        BY <2>3, <4>1 DEF IsFirstOfSession
      <4> QED
        BY <2>1, <4>2 DEF SameIdentity
    <3>2. CASE df[j].status # "Start"
      BY <2>3, <3>2 DEF CleanRows, Clean, ConflictA
    <3> QED
      BY <3>1, <3>2
  <2> QED
    BY <2>4, <2>5, <2>6 DEF SameIdentity
<1> QED
  BY <1>1, Invariance, PTL

-----------------------------------------------------------------------------
\* The elements of a finite set in a strict total order, B[i] being those
\* before i: each number from 0 on is how many come before one element.
LEMMA Ranks ==
  ASSUME NEW S, IsFiniteSet(S), NEW B \in [S -> SUBSET S],
         \A i \in S : i \notin B[i],
         \A i, j \in S : i # j => i \in B[j] \/ j \in B[i],
         \A i, j \in S : i \in B[j] => B[i] \subseteq B[j]
  PROVE  /\ \A n \in 1..Cardinality(S) : \E i \in S : Cardinality(B[i]) = n - 1
         /\ \A i \in S : Cardinality(B[i]) + 1 \in 1..Cardinality(S)
         /\ \A i, j \in S : Cardinality(B[i]) = Cardinality(B[j]) => i = j
<1> DEFINE rank == [i \in S |-> Cardinality(B[i]) + 1]
<1>1. Cardinality(S) \in Nat
  BY FS_CardinalityType
<1>2. ASSUME NEW i \in S
      PROVE  IsFiniteSet(B[i]) /\ Cardinality(B[i]) \in Nat /\ Cardinality(B[i]) < Cardinality(S)
  <2>1. IsFiniteSet(S \ {i}) /\ Cardinality(S \ {i}) = Cardinality(S) - 1
    BY FS_RemoveElement
  <2>2. B[i] \in SUBSET (S \ {i})
    OBVIOUS
  <2>3. IsFiniteSet(B[i]) /\ Cardinality(B[i]) <= Cardinality(S \ {i})
    BY <2>1, <2>2, FS_Subset
  <2>4. Cardinality(B[i]) \in Nat
    BY <2>3, FS_CardinalityType
  <2> QED
    BY <1>1, <2>1, <2>3, <2>4
<1>3. ASSUME NEW i \in S, NEW j \in S, i \in B[j]
      PROVE  Cardinality(B[i]) < Cardinality(B[j])
  <2>1. IsFiniteSet(B[j] \ {i}) /\ Cardinality(B[j] \ {i}) = Cardinality(B[j]) - 1
    BY <1>2, <1>3, FS_RemoveElement
  <2>2. B[i] \in SUBSET (B[j] \ {i})
    BY <1>3
  <2>3. Cardinality(B[i]) <= Cardinality(B[j] \ {i})
    BY <2>1, <2>2, FS_Subset
  <2> QED
    BY <1>2, <2>1, <2>3
<1>4. rank \in Injection(S, 1..Cardinality(S))
  <2>1. rank \in [S -> 1..Cardinality(S)]
    BY <1>1, <1>2
  <2>2. ASSUME NEW i \in S, NEW j \in S, rank[i] = rank[j] PROVE i = j
    <3>1. Cardinality(B[i]) = Cardinality(B[j])
      BY <1>2, <2>2
    <3> QED
      BY <1>2, <1>3, <3>1
  <2> QED
    BY <2>1, <2>2 DEF Injection, IsInjective
<1>5. IsFiniteSet(1..Cardinality(S)) /\ Cardinality(1..Cardinality(S)) = Cardinality(S)
  BY <1>1, FS_Interval
<1> HIDE DEF rank
<1>6. rank \in Surjection(S, 1..Cardinality(S))
  BY <1>4, <1>5, FS_Injection
<1>7. ASSUME NEW n \in 1..Cardinality(S) PROVE \E i \in S : Cardinality(B[i]) = n - 1
  <2>1. \E i \in S : rank[i] = n
    BY <1>6 DEF Surjection
  <2>2. PICK i \in S : rank[i] = n
    BY <2>1
  <2>3. Cardinality(B[i]) + 1 = n /\ Cardinality(B[i]) \in Nat
    BY <1>2, <2>2 DEF rank
  <2> QED
    BY <1>1, <2>3
<1>8. \A i \in S : Cardinality(B[i]) + 1 \in 1..Cardinality(S)
  BY <1>1, <1>2
<1>9. \A i, j \in S : Cardinality(B[i]) = Cardinality(B[j]) => i = j
  BY <1>2, <1>3
<1> QED
  BY <1>7, <1>8, <1>9

-----------------------------------------------------------------------------
Rowlist == Seq([value : Imsi, at : Nat]) \cup Seq([value : Imei, at : Nat])
\* The assignments that come before assignment i.
Before(rows, i) == {j \in DOMAIN rows : \/ rows[j].at < rows[i].at
                                        \/ rows[j].at = rows[i].at /\ j < i}

LEMMA RowlistFacts ==
  ASSUME NEW rows \in Rowlist
  PROVE  /\ Len(rows) \in Nat /\ DOMAIN rows = 1..Len(rows)
         /\ IsFiniteSet(DOMAIN rows) /\ Cardinality(DOMAIN rows) = Len(rows)
         /\ \A i \in DOMAIN rows : i \in Nat /\ rows[i].at \in Nat
<1>1. ASSUME NEW T, rows \in Seq(T)
      PROVE  /\ Len(rows) \in Nat /\ DOMAIN rows = 1..Len(rows)
             /\ \A i \in DOMAIN rows : rows[i] \in T
  BY <1>1
<1>2. \A r \in [value : Imsi, at : Nat] \cup [value : Imei, at : Nat] : r.at \in Nat
  OBVIOUS
<1>3. /\ Len(rows) \in Nat /\ DOMAIN rows = 1..Len(rows)
      /\ \A i \in DOMAIN rows : rows[i].at \in Nat
  BY <1>1, <1>2 DEF Rowlist
<1>4. IsFiniteSet(1..Len(rows)) /\ Cardinality(1..Len(rows)) = Len(rows)
  BY <1>3, FS_Interval
<1> QED
  BY <1>3, <1>4

\* The history holds, at place n, the assignment that n - 1 others precede.
LEMMA HistoryAt ==
  ASSUME NEW rows \in Rowlist
  PROVE  /\ DOMAIN History(rows) = 1..Len(rows) /\ Len(History(rows)) = Len(rows)
         /\ \A n \in 1..Len(rows) : \E i \in DOMAIN rows :
               /\ History(rows)[n] = rows[i]
               /\ Cardinality(Before(rows, i)) = n - 1
<1> DEFINE B == [i \in DOMAIN rows |-> Before(rows, i)]
<1>1. /\ Len(rows) \in Nat /\ DOMAIN rows = 1..Len(rows)
      /\ IsFiniteSet(DOMAIN rows) /\ Cardinality(DOMAIN rows) = Len(rows)
      /\ \A i \in DOMAIN rows : i \in Nat /\ rows[i].at \in Nat
  BY RowlistFacts
<1>2. B \in [DOMAIN rows -> SUBSET DOMAIN rows]
  BY DEF Before
<1>3. \A i \in DOMAIN rows : i \notin B[i]
  BY <1>1 DEF Before
<1>4. \A i, j \in DOMAIN rows : i # j => i \in B[j] \/ j \in B[i]
  BY <1>1 DEF Before
<1>5. \A i, j \in DOMAIN rows : i \in B[j] => B[i] \subseteq B[j]
  BY <1>1 DEF Before
<1> HIDE DEF B
<1>6. \A n \in 1..Len(rows) : \E i \in DOMAIN rows : Cardinality(B[i]) = n - 1
  <2>1. \A n \in 1..Cardinality(DOMAIN rows) : \E i \in DOMAIN rows : Cardinality(B[i]) = n - 1
    BY <1>1, <1>2, <1>3, <1>4, <1>5, Ranks
  <2> QED
    BY <1>1, <2>1
<1>7. \A i \in DOMAIN rows : Rank(rows, i) = Cardinality(B[i])
  BY DEF Rank, B, Before
<1>8. DOMAIN History(rows) = 1..Len(rows)
  BY <1>1 DEF History
<1>9. Len(History(rows)) = Len(rows)
  BY <1>1, <1>8, LenProperties DEF History
<1>10. ASSUME NEW n \in 1..Len(rows)
       PROVE  \E i \in DOMAIN rows : /\ History(rows)[n] = rows[i]
                                     /\ Cardinality(Before(rows, i)) = n - 1
  <2> DEFINE c == CHOOSE i \in DOMAIN rows : Rank(rows, i) = n - 1
  <2>1. \E i \in DOMAIN rows : Rank(rows, i) = n - 1
    BY <1>6, <1>7
  <2>2. c \in DOMAIN rows /\ Rank(rows, c) = n - 1
    BY <2>1
  <2>3. History(rows)[n] = rows[c]
    BY <1>1 DEF History
  <2>4. Rank(rows, c) = Cardinality(Before(rows, c))
    BY <1>7, <2>2 DEF B
  <2> QED
    BY <2>2, <2>3, <2>4
<1> QED
  BY <1>8, <1>9, <1>10

\* Whoever all others in S precede is the last one in S.
LEMMA LastByCount ==
  ASSUME NEW rows \in Rowlist, NEW S \in SUBSET DOMAIN rows, NEW i \in S,
         Before(rows, i) \subseteq S, Cardinality(Before(rows, i)) = Cardinality(S) - 1
  PROVE  IsLast(rows, S, i)
<1>1. /\ IsFiniteSet(DOMAIN rows)
      /\ \A j \in DOMAIN rows : j \in Nat /\ rows[j].at \in Nat
  BY RowlistFacts
<1>2. IsFiniteSet(S)
  BY <1>1, FS_Subset
<1>3. IsFiniteSet(S \ {i}) /\ Cardinality(S \ {i}) = Cardinality(S) - 1
  BY <1>2, FS_RemoveElement
<1>4. Before(rows, i) \in SUBSET (S \ {i})
  BY <1>1 DEF Before
<1>5. Before(rows, i) = S \ {i}
  BY <1>3, <1>4, FS_Subset
<1> QED
  BY <1>1, <1>5 DEF IsLast, Before

\* The ends of a history are the last two assignments.
LEMMA HistoryEnds ==
  ASSUME NEW rows \in Rowlist, Len(rows) >= 2
  PROVE  \E i, j \in DOMAIN rows :
            /\ IsLast(rows, DOMAIN rows, i) /\ IsLast(rows, DOMAIN rows \ {i}, j)
            /\ History(rows)[Len(rows)] = rows[i] /\ History(rows)[Len(rows) - 1] = rows[j]
<1> DEFINE D == DOMAIN rows
           N == Len(rows)
<1>1. /\ N \in Nat /\ D = 1..N /\ IsFiniteSet(D) /\ Cardinality(D) = N
      /\ \A i \in D : i \in Nat /\ rows[i].at \in Nat
  BY RowlistFacts
<1>2. \E i \in D : History(rows)[N] = rows[i] /\ Cardinality(Before(rows, i)) = N - 1
  <2>1. N \in 1..N
    BY <1>1
  <2> QED
    BY <2>1, HistoryAt
<1>3. PICK i \in D : History(rows)[N] = rows[i] /\ Cardinality(Before(rows, i)) = N - 1
  BY <1>2
<1>4. IsLast(rows, D, i)
  BY <1>1, <1>3, LastByCount DEF Before
<1>5. \E j \in D : History(rows)[N - 1] = rows[j] /\ Cardinality(Before(rows, j)) = (N - 1) - 1
  <2>1. N - 1 \in 1..N
    BY <1>1
  <2> QED
    BY <2>1, HistoryAt
<1>6. PICK j \in D : History(rows)[N - 1] = rows[j] /\ Cardinality(Before(rows, j)) = (N - 1) - 1
  BY <1>5
<1>7. j # i
  BY <1>1, <1>3, <1>6
<1>8. i \notin Before(rows, j)
  BY <1>1, <1>4, <1>7 DEF IsLast, Before
<1>9. Cardinality(D \ {i}) = N - 1
  BY <1>1, FS_RemoveElement
<1>10. IsLast(rows, D \ {i}, j)
  <2>1. D \ {i} \in SUBSET D /\ j \in D \ {i} /\ Before(rows, j) \subseteq D \ {i}
    BY <1>7, <1>8 DEF Before
  <2> QED
    BY <1>6, <1>9, <2>1, LastByCount
<1> QED
  BY <1>3, <1>4, <1>6, <1>10

-----------------------------------------------------------------------------
LEMMA InitRunsLoop == DetectInit => Init
<1> SUFFICES ASSUME DetectInit PROVE Init
  OBVIOUS
<1>1. PICK s \in Scenario : df = s.batch /\ hlr = s.onFile
  BY DEF DetectInit
<1>2. df \in Batch
  BY <1>1, ScenarioAssumption
<1> QED
  BY <1>2 DEF DetectInit, Init

LEMMA StepRunsLoop == [DetectNext]_<<vars, detection>> => [Next]_vars
<1>1. Loop => Next
  <2> SUFFICES ASSUME Loop PROVE Next
    OBVIOUS
  <2>1. PICK n \in DOMAIN GroupOrder : Skip(GroupOrder[n]) \/ Scan(GroupOrder[n])
    BY DEF Loop
  <2>2. GroupOrder[n] \in Imsi
    BY OrderAssumption DEF ToSet
  <2> QED
    BY <2>1, <2>2 DEF Next
<1>2. ResolveRaises \/ Detect \/ Answered \/ Unanswered \/ Verified => UNCHANGED vars
  BY DEF ResolveRaises, Detect, Answered, Unanswered, Verified
<1>3. VerifyRaises \/ Write \/ WriteFails => UNCHANGED vars
  BY DEF VerifyRaises, Write, WriteFails
<1> QED
  BY <1>1, <1>2, <1>3 DEF DetectNext

\* Resolving the conflicts of a batch by groups, with swap detection after it,
\* is a behaviour of the conflict resolution: whatever holds of it holds here.
THEOREM DetectionRunsLoop == DetectSpec => Spec
BY InitRunsLoop, StepRunsLoop, PTL DEF DetectSpec, Spec

LEMMA LoopInvariance == DetectSpec => []IInv
BY DetectionRunsLoop, Invariance, PTL

-----------------------------------------------------------------------------
Stage == {"resolve", "raised", "write", "done"} \cup SwapType

Reassignment(e) ==
    LET rows == hlr[e.type][e.msisdn]
    IN  /\ \E i, j \in DOMAIN rows :
              /\ IsLast(rows, DOMAIN rows, i) /\ IsLast(rows, DOMAIN rows \ {i}, j)
              /\ e.new = rows[i].value /\ e.confirmed = rows[i].at /\ e.old = rows[j].value
        /\ e.row \in CleanRows
        /\ df[e.row].msisdn = e.msisdn /\ Identity(e.type, df[e.row]) = e.new
        /\ \E k \in CleanRows : /\ k < e.row /\ df[k].msisdn = e.msisdn
                                /\ Identity(e.type, df[k]) # e.new

\* Nothing is confirmed before the flags are final, and the histories are those
\* of the type that is being verified.
SoundInv ==
    /\ hlr \in OnFile
    /\ step \in Stage
    /\ step = "resolve" => confirmed = {} /\ swapEvent = {}
    /\ step \in SwapType =>
          \A m \in Msisdn : histories[m] \in {<<>>, History(hlr[step][m])}
    /\ \A e \in confirmed \cup swapEvent : Reassignment(e)

LEMMA FileFacts ==
  ASSUME hlr \in OnFile, NEW type \in SwapType, NEW m \in Msisdn
  PROVE  hlr[type][m] \in Rowlist
<1>1. CASE type = "SIM_SWAP"
  <2>1. hlr[type] \in [Msisdn -> Seq([value : Imsi, at : Nat])]
    BY <1>1 DEF OnFile
  <2> QED
    BY <2>1 DEF Rowlist
<1>2. CASE type = "DEVICE_SWAP"
  <2>1. hlr[type] \in [Msisdn -> Seq([value : Imei, at : Nat])]
    BY <1>2 DEF OnFile
  <2> QED
    BY <2>1 DEF Rowlist
<1> QED
  BY <1>1, <1>2 DEF SwapType

LEMMA SignalFacts ==
  ASSUME IInv, NEW type \in SwapType, NEW i \in Signals(type)
  PROVE  /\ i \in CleanRows /\ i \in Rows(df) /\ i \in Nat /\ df[i].msisdn \in Msisdn
         /\ \E k \in CleanRows : /\ k < i /\ df[k].msisdn = df[i].msisdn
                                 /\ Identity(type, df[k]) # Identity(type, df[i])
<1>1. i \in CleanRows /\ i \in Rows(df)
  BY DEF Signals, ConflictC, ConflictD, CleanRows, Clean
<1>2. i \in Nat /\ df[i] \in Record
  BY <1>1, RowType DEF IInv
<1>3. CASE type = "SIM_SWAP"
  <2>1. ConflictC(df, flagged, i)
    BY <1>3 DEF Signals
  <2>2. PICK k \in Rows(df) : PreviousOf(df, flagged, i, k) /\ df[k].imsi # df[i].imsi
    BY <2>1 DEF ConflictC
  <2>3. k \in CleanRows /\ k < i /\ df[k].msisdn = df[i].msisdn
    BY <2>2 DEF PreviousOf, CleanRows
  <2>4. Identity(type, df[k]) # Identity(type, df[i])
    BY <1>3, <2>2 DEF Identity
  <2> QED
    BY <1>1, <1>2, <2>3, <2>4 DEF Record
<1>4. CASE type = "DEVICE_SWAP"
  <2>1. ConflictD(df, flagged, i)
    BY <1>4 DEF Signals
  <2>2. PICK k \in Rows(df) : PreviousOf(df, flagged, i, k) /\ df[k].imei # df[i].imei
    BY <2>1 DEF ConflictD
  <2>3. k \in CleanRows /\ k < i /\ df[k].msisdn = df[i].msisdn
    BY <2>2 DEF PreviousOf, CleanRows
  <2>4. Identity(type, df[k]) # Identity(type, df[i])
    BY <1>4, <2>2 DEF Identity
  <2> QED
    BY <1>1, <1>2, <2>3, <2>4 DEF Record
<1> QED
  BY <1>1, <1>2, <1>3, <1>4 DEF SwapType, Record

LEMMA EventsSoundNow ==
  ASSUME IInv, SoundInv, step \in SwapType, NEW e \in Events(step)
  PROVE  Reassignment(e)
<1> DEFINE last(m) == histories[m][Len(histories[m])]
           before(m) == histories[m][Len(histories[m]) - 1]
<1>1. PICK i \in Signals(step) :
         /\ Len(histories[df[i].msisdn]) >= 2
         /\ Identity(step, df[i]) = last(df[i].msisdn).value
         /\ e = [row |-> i, type |-> step, msisdn |-> df[i].msisdn,
                 old |-> before(df[i].msisdn).value, new |-> last(df[i].msisdn).value,
                 confirmed |-> last(df[i].msisdn).at]
  BY DEF Events
<1> DEFINE m == df[i].msisdn
           rows == hlr[step][m]
<1>2. m \in Msisdn /\ rows \in Rowlist
  BY SignalFacts, FileFacts DEF SoundInv
<1>3. histories[m] = History(rows)
  <2>1. histories[m] \in {<<>>, History(rows)}
    BY <1>2 DEF SoundInv
  <2>2. histories[m] # <<>>
    BY <1>1
  <2> QED
    BY <2>1, <2>2
<1>4. Len(History(rows)) = Len(rows) /\ Len(rows) >= 2
  BY <1>1, <1>2, <1>3, HistoryAt
<1>5. \E x, y \in DOMAIN rows :
         /\ IsLast(rows, DOMAIN rows, x) /\ IsLast(rows, DOMAIN rows \ {x}, y)
         /\ History(rows)[Len(rows)] = rows[x] /\ History(rows)[Len(rows) - 1] = rows[y]
  BY <1>2, <1>4, HistoryEnds
<1>6. last(m) = History(rows)[Len(rows)] /\ before(m) = History(rows)[Len(rows) - 1]
  BY <1>3, <1>4
<1>7. /\ e.row = i /\ e.type = step /\ e.msisdn = m
      /\ e.old = before(m).value /\ e.new = last(m).value /\ e.confirmed = last(m).at
  BY <1>1, Zenon
<1>8. Identity(step, df[i]) = e.new
  BY <1>1, <1>7
<1>9. PICK x, y \in DOMAIN rows :
         /\ IsLast(rows, DOMAIN rows, x) /\ IsLast(rows, DOMAIN rows \ {x}, y)
         /\ History(rows)[Len(rows)] = rows[x] /\ History(rows)[Len(rows) - 1] = rows[y]
  BY <1>5
<1> HIDE DEF last, before
<1>10. e.new = rows[x].value /\ e.confirmed = rows[x].at /\ e.old = rows[y].value
  BY <1>6, <1>7, <1>9
<1>11. PICK k \in CleanRows : /\ k < i /\ df[k].msisdn = df[i].msisdn
                              /\ Identity(step, df[k]) # Identity(step, df[i])
  BY SignalFacts
<1>12. /\ e.row \in CleanRows
       /\ df[e.row].msisdn = e.msisdn /\ Identity(e.type, df[e.row]) = e.new
       /\ k < e.row /\ df[k].msisdn = e.msisdn /\ Identity(e.type, df[k]) # e.new
  BY <1>7, <1>8, <1>11, SignalFacts
<1>13. rows = hlr[e.type][e.msisdn]
  BY <1>7
<1> HIDE DEF rows
<1> QED
  BY <1>9, <1>10, <1>12, <1>13 DEF Reassignment

LEMMA SoundInit == DetectInit => SoundInv
<1> SUFFICES ASSUME DetectInit PROVE SoundInv
  OBVIOUS
<1>1. PICK s \in Scenario : hlr = s.onFile
  BY DEF DetectInit
<1>2. hlr \in OnFile
  BY <1>1, ScenarioAssumption
<1> QED
  BY <1>2 DEF DetectInit, SoundInv, Stage, SwapType

LEMMA ReassignmentStays ==
  ASSUME UNCHANGED <<vars, hlr>>, NEW e, Reassignment(e)
  PROVE  Reassignment(e)'
BY DEF vars, Reassignment, CleanRows

\* The loop changes nothing that swap detection looks at once it has begun.
LEMMA LoopKeepsSound ==
  ASSUME SoundInv, Loop
  PROVE  SoundInv'
<1>1. step = "resolve" /\ UNCHANGED <<hlr, step, histories, confirmed, swapEvent>>
  BY DEF Loop, detection, file, verify
<1> QED
  BY <1>1 DEF SoundInv, SwapType

LEMMA SoundStep == SoundInv /\ IInv /\ [DetectNext]_<<vars, detection>> => SoundInv'
<1> SUFFICES ASSUME SoundInv, IInv, [DetectNext]_<<vars, detection>> PROVE SoundInv'
  OBVIOUS
<1>1. CASE Loop
  BY <1>1, LoopKeepsSound
<1>2. ASSUME UNCHANGED <<vars, hlr>>, step' \in Stage, step' # "resolve",
             confirmed' \cup swapEvent' \subseteq confirmed \cup swapEvent,
             step' \in SwapType =>
                \A m \in Msisdn : histories'[m] \in {<<>>, History(hlr[step'][m])}
      PROVE  SoundInv'
  <2>1. \A e \in confirmed' \cup swapEvent' : Reassignment(e)'
    BY <1>2, ReassignmentStays DEF SoundInv
  <2> QED
    BY <1>2, <2>1 DEF SoundInv
<1>3. ASSUME NEW type \in SwapType, Begin(type)
      PROVE  step' \in Stage /\ step' # "resolve" /\ \A m \in Msisdn : histories'[m] = <<>>
  BY <1>3 DEF Begin, NoHistory, Stage, SwapType
<1>4. CASE Detect
  <2>1. UNCHANGED <<vars, hlr, confirmed, swapEvent>>
    BY <1>4 DEF Detect, file
  <2>2. CASE step' = "done"
    BY <1>2, <2>1, <2>2 DEF Stage, SwapType
  <2>3. CASE Begin("SIM_SWAP")
    BY <1>2, <1>3, <2>1, <2>3 DEF SwapType
  <2> QED
    BY <1>4, <2>2, <2>3 DEF Detect
<1>5. CASE Answered
  <2>1. /\ UNCHANGED <<vars, hlr, step, confirmed, swapEvent>> /\ step \in SwapType
        /\ histories' = [m \in Msisdn |-> IF m \in ToSet(Chunk) THEN History(hlr[step][m])
                                                                ELSE histories[m]]
    BY <1>5 DEF Answered, file
  <2>2. \A m \in Msisdn : histories'[m] \in {<<>>, History(hlr[step][m])}
    BY <2>1 DEF SoundInv
  <2> QED
    BY <1>2, <2>1, <2>2 DEF SoundInv, SwapType
<1>6. CASE Unanswered
  BY <1>2, <1>6 DEF Unanswered, file, SoundInv, SwapType
<1>7. CASE Verified
  <2>1. /\ UNCHANGED <<vars, hlr, swapEvent>> /\ step \in SwapType
        /\ confirmed' = confirmed \cup Events(step)
    BY <1>7 DEF Verified, file
  <2>2. \A e \in confirmed' \cup swapEvent' : Reassignment(e)'
    BY <2>1, EventsSoundNow, ReassignmentStays DEF SoundInv
  <2>3. CASE Begin("DEVICE_SWAP")
    BY <1>3, <2>1, <2>2, <2>3 DEF SoundInv, SwapType
  <2>4. CASE step' = "write"
    BY <2>1, <2>2, <2>4 DEF SoundInv, SwapType, Stage
  <2> QED
    BY <1>7, <2>3, <2>4 DEF Verified, NextType
<1>8. CASE VerifyRaises
  <2>1. UNCHANGED <<vars, hlr, confirmed, swapEvent>>
    BY <1>8 DEF VerifyRaises, file
  <2>2. CASE Begin("DEVICE_SWAP")
    BY <1>2, <1>3, <2>1, <2>2 DEF SwapType
  <2>3. CASE step' = "write"
    BY <1>2, <2>1, <2>3 DEF Stage, SwapType
  <2> QED
    BY <1>8, <2>2, <2>3 DEF VerifyRaises
<1>9. CASE Write \/ WriteFails
  BY <1>2, <1>9 DEF Write, WriteFails, file, verify, Stage, SwapType
<1>10. CASE ResolveRaises
  BY <1>2, <1>10 DEF ResolveRaises, file, verify, Stage, SwapType
<1>11. CASE UNCHANGED <<vars, detection>>
  <2>1. UNCHANGED <<vars, hlr, step, histories, confirmed, swapEvent>>
    BY <1>11 DEF detection, file, verify
  <2>2. \A e \in confirmed' \cup swapEvent' : Reassignment(e)'
    BY <2>1, ReassignmentStays DEF SoundInv
  <2> QED
    BY <2>1, <2>2 DEF SoundInv
<1> QED
  BY <1>1, <1>4, <1>5, <1>6, <1>7, <1>8, <1>9, <1>10, <1>11 DEF DetectNext

LEMMA SoundInvariance == DetectSpec => []SoundInv
BY SoundInit, SoundStep, LoopInvariance, PTL DEF DetectSpec

\* For every batch, HLR file and size of a chunk, whatever requests fail: each
\* row of swap_event is the last reassignment that the HLR has for its number,
\* seen in the clean rows of the batch.
THEOREM EventsSound == DetectSpec => []EventsAreReassignments
<1>1. SoundInv => EventsAreReassignments
  BY DEF SoundInv, EventsAreReassignments, Reassignment
<1> QED
  BY <1>1, SoundInvariance, PTL

-----------------------------------------------------------------------------
Firsts(type) ==
    {i \in Signals(type) : \A j \in Signals(type) : j < i => df[j].msisdn # df[i].msisdn}

\* The number of every signal is asked for.
LEMMA MsisdnsFacts ==
  ASSUME IInv, NEW type \in SwapType
  PROVE  /\ MsisdnsOf(type) \in Seq(Msisdn)
         /\ \A i \in Signals(type) : df[i].msisdn \in ToSet(MsisdnsOf(type))
<1> DEFINE F == Firsts(type)
           B == [i \in F |-> {j \in F : j < i}]
           first(n) == CHOOSE i \in F : Cardinality({j \in F : j < i}) = n - 1
<1>1. \A i \in Signals(type) : i \in Rows(df) /\ i \in Nat /\ df[i].msisdn \in Msisdn
  BY SignalFacts
<1>2. IsFiniteSet(F)
  <2>1. Len(df) \in Nat
    BY DEF IInv, TypeOK
  <2>2. IsFiniteSet(1..Len(df))
    BY <2>1, FS_Interval
  <2>3. F \in SUBSET (1..Len(df))
    BY <1>1 DEF Firsts, Rows
  <2> QED
    BY <2>2, <2>3, FS_Subset
<1>3. \A i \in F : i \in Nat /\ i \in Signals(type) /\ df[i].msisdn \in Msisdn
  BY <1>1 DEF Firsts
<1>4. B \in [F -> SUBSET F] /\ \A i \in F : B[i] = {j \in F : j < i}
  OBVIOUS
<1> HIDE DEF F
<1>5. \A i \in F : i \notin B[i]
  BY <1>3, <1>4
<1>6. \A i, j \in F : i # j => i \in B[j] \/ j \in B[i]
  BY <1>3, <1>4
<1>7. \A i, j \in F : i \in B[j] => B[i] \subseteq B[j]
  BY <1>3, <1>4
<1> HIDE DEF B
<1>8. /\ \A n \in 1..Cardinality(F) : \E i \in F : Cardinality(B[i]) = n - 1
      /\ \A i \in F : Cardinality(B[i]) + 1 \in 1..Cardinality(F)
      /\ \A i, j \in F : Cardinality(B[i]) = Cardinality(B[j]) => i = j
  BY <1>2, <1>4, <1>5, <1>6, <1>7, Ranks
<1>9. Cardinality(F) \in Nat /\ \A i \in F : Cardinality(B[i]) \in Nat
  <2>1. Cardinality(F) \in Nat
    BY <1>2, FS_CardinalityType
  <2>2. ASSUME NEW i \in F PROVE Cardinality(B[i]) \in Nat
    <3>1. IsFiniteSet(B[i])
      BY <1>2, <1>4, FS_Subset
    <3> QED
      BY <3>1, FS_CardinalityType
  <2> QED
    BY <2>1, <2>2
<1>10. MsisdnsOf(type) = [n \in 1..Cardinality(F) |-> df[first(n)].msisdn]
  BY DEF MsisdnsOf, Firsts, F
<1>11. ASSUME NEW n \in 1..Cardinality(F)
       PROVE  first(n) \in F /\ Cardinality(B[first(n)]) = n - 1
  <2>1. \E i \in F : Cardinality({j \in F : j < i}) = n - 1
    BY <1>4, <1>8
  <2>2. first(n) \in F /\ Cardinality({j \in F : j < first(n)}) = n - 1
    BY <2>1
  <2> QED
    BY <1>4, <2>2
<1> HIDE DEF first
<1>12. MsisdnsOf(type) \in Seq(Msisdn)
  <2>1. \A n \in 1..Cardinality(F) : df[first(n)].msisdn \in Msisdn
    BY <1>3, <1>11
  <2> QED
    BY <1>9, <1>10, <2>1
<1>13. ASSUME NEW i \in F PROVE df[i].msisdn \in ToSet(MsisdnsOf(type))
  <2> DEFINE n == Cardinality(B[i]) + 1
  <2>1. n \in 1..Cardinality(F) /\ n - 1 = Cardinality(B[i])
    BY <1>8, <1>9
  <2>2. first(n) = i
    BY <1>8, <1>11, <2>1
  <2>3. n \in DOMAIN MsisdnsOf(type) /\ MsisdnsOf(type)[n] = df[i].msisdn
    BY <1>10, <2>1, <2>2
  <2> QED
    BY <2>3 DEF ToSet
<1>14. ASSUME NEW i \in Signals(type) PROVE \E f \in F : df[f].msisdn = df[i].msisdn
  <2> DEFINE S == {j \in Signals(type) : df[j].msisdn = df[i].msisdn}
  <2>1. S \subseteq Nat /\ i \in S
    BY <1>1
  <2>2. PICK f \in S : \A j \in S : ~(<<j, f>> \in OpToRel(<, Nat))
    BY <2>1, NatLessThanWellFounded, WFMin
  <2>3. \A j \in S : ~(j < f)
    BY <2>1, <2>2 DEF OpToRel
  <2>4. f \in F
    BY <2>3 DEF F, Firsts
  <2> QED
    BY <2>4
<1> QED
  BY <1>12, <1>13, <1>14

\* A chunk and what comes after it are all that is pending.
LEMMA ChunkFacts ==
  ASSUME pending \in Seq(Msisdn)
  PROVE  /\ Rest \in Seq(Msisdn)
         /\ ToSet(pending) \subseteq Msisdn
         /\ ToSet(pending) \subseteq ToSet(Chunk) \cup ToSet(Rest)
<1> DEFINE L == Len(pending)
           c == IF L < BatchSize THEN L ELSE BatchSize
<1>1. L \in Nat /\ DOMAIN pending = 1..L /\ \A i \in 1..L : pending[i] \in Msisdn
  OBVIOUS
<1>2. /\ BatchSize \in Nat /\ BatchSize >= 1 /\ c \in Nat /\ c <= L /\ c <= BatchSize
      /\ c = L \/ c = BatchSize
  BY <1>1, SizeAssumption
<1>3. /\ Chunk \in Seq(Msisdn) /\ Len(Chunk) = c
      /\ \A i \in 1..c : Chunk[i] = pending[i]
  <2>1. \A i \in 1..c : pending[i] \in Msisdn
    BY <1>1, <1>2
  <2>2. /\ SubSeq(pending, 1, c) \in Seq(Msisdn)
        /\ Len(SubSeq(pending, 1, c)) = IF 1 <= c THEN c - 1 + 1 ELSE 0
        /\ \A i \in 1..(c - 1 + 1) : SubSeq(pending, 1, c)[i] = pending[1 + i - 1]
    BY <1>2, <2>1, SubSeqProperties
  <2>3. Chunk = SubSeq(pending, 1, c)
    BY DEF Chunk
  <2> HIDE DEF c
  <2> QED
    BY <1>2, <2>2, <2>3
<1>4. /\ Rest \in Seq(Msisdn)
      /\ Len(Rest) = IF BatchSize + 1 <= L THEN L - BatchSize ELSE 0
      /\ \A i \in 1..(L - BatchSize) : Rest[i] = pending[BatchSize + i]
  <2>1. \A i \in (BatchSize + 1)..L : pending[i] \in Msisdn
    BY <1>1, <1>2
  <2>2. /\ Rest \in Seq(Msisdn)
        /\ Len(Rest) = IF BatchSize + 1 <= L THEN L - (BatchSize + 1) + 1 ELSE 0
        /\ \A i \in 1..(L - (BatchSize + 1) + 1) : Rest[i] = pending[(BatchSize + 1) + i - 1]
    BY <1>1, <1>2, <2>1, SubSeqProperties DEF Rest
  <2>3. L - (BatchSize + 1) + 1 = L - BatchSize
    BY <1>1, <1>2
  <2>4. \A i \in 1..(L - BatchSize) : (BatchSize + 1) + i - 1 = BatchSize + i
    BY <1>1, <1>2
  <2> HIDE DEF L
  <2> QED
    BY <2>2, <2>3, <2>4
<1> HIDE DEF L, c
<1>5. ASSUME NEW i \in 1..L PROVE pending[i] \in ToSet(Chunk) \cup ToSet(Rest)
  <2>1. CASE i <= c
    <3>1. i \in DOMAIN Chunk /\ Chunk[i] = pending[i]
      BY <1>2, <1>3, <2>1
    <3> QED
      BY <3>1 DEF ToSet
  <2>2. CASE i > c
    <3>1. i > BatchSize
      BY <1>1, <1>2, <2>2
    <3>2. i - BatchSize \in 1..(L - BatchSize)
      BY <1>1, <1>2, <3>1
    <3>3. Len(Rest) = L - BatchSize
      BY <1>1, <1>2, <1>4, <3>1
    <3>4. i - BatchSize \in DOMAIN Rest
      BY <1>4, <3>2, <3>3
    <3>5. Rest[i - BatchSize] = pending[i]
      BY <1>1, <1>2, <1>4, <3>2
    <3> QED
      BY <3>4, <3>5 DEF ToSet
  <2> QED
    BY <1>1, <1>2, <2>1, <2>2
<1> QED
  BY <1>1, <1>4, <1>5 DEF ToSet

-----------------------------------------------------------------------------
\* The HLR confirms the signal of row i, and no failure has dropped it.
Due(type, i) ==
    LET rows == hlr[type][df[i].msisdn]
    IN  /\ Len(rows) >= 2
        /\ \E n \in DOMAIN rows : /\ IsLast(rows, DOMAIN rows, n)
                                  /\ rows[n].value = Identity(type, df[i])
        /\ <<type, df[i].msisdn>> \notin dropped

Reports(e, type, i) ==
    e.type = type /\ e.msisdn = df[i].msisdn /\ e.new = Identity(type, df[i])

AllConfirmed(type) ==
    \A i \in Signals(type) : Due(type, i) => \E e \in confirmed : Reports(e, type, i)
AllWritten(type) ==
    \A i \in Signals(type) : Due(type, i) => \E e \in swapEvent : Reports(e, type, i)

\* A number is still to be asked for, or its answer failed, or it is there.
AskedOrPending ==
    \A i \in Signals(step) : LET m == df[i].msisdn
                            IN  \/ m \in ToSet(pending)
                                \/ <<step, m>> \in dropped
                                \/ histories[m] = History(hlr[step][m])

CompleteInv ==
    /\ pending \in Seq(Msisdn)
    /\ step \in SwapType => AskedOrPending
    /\ step \in {"DEVICE_SWAP", "write"} => AllConfirmed("SIM_SWAP")
    /\ step = "write" => AllConfirmed("DEVICE_SWAP")
    /\ step = "done" => AllWritten("SIM_SWAP") /\ AllWritten("DEVICE_SWAP")

LEMMA LastUnique ==
  ASSUME NEW rows \in Rowlist, NEW i, NEW j,
         IsLast(rows, DOMAIN rows, i), IsLast(rows, DOMAIN rows, j)
  PROVE  i = j
BY RowlistFacts DEF IsLast

\* What is due when all answers are there is among the events.
LEMMA DueIsEvent ==
  ASSUME IInv, SoundInv, CompleteInv, step \in SwapType, pending = <<>>,
         NEW i \in Signals(step), Due(step, i)
  PROVE  \E e \in Events(step) : Reports(e, step, i)
<1> DEFINE m == df[i].msisdn
           rows == hlr[step][m]
           N == Len(rows)
<1>1. m \in Msisdn /\ rows \in Rowlist
  BY SignalFacts, FileFacts DEF SoundInv
<1>2. N >= 2 /\ N \in Nat
  BY <1>1, RowlistFacts DEF Due
<1>3. histories[m] = History(rows)
  <2>1. m \notin ToSet(pending)
    BY DEF ToSet
  <2>2. <<step, m>> \notin dropped
    BY DEF Due
  <2> QED
    BY <2>1, <2>2 DEF CompleteInv, AskedOrPending
<1>4. Len(histories[m]) = N
  BY <1>1, <1>3, HistoryAt
<1>5. PICK n \in DOMAIN rows :
         IsLast(rows, DOMAIN rows, n) /\ rows[n].value = Identity(step, df[i])
  BY DEF Due
<1>6. PICK x \in DOMAIN rows : IsLast(rows, DOMAIN rows, x) /\ History(rows)[N] = rows[x]
  BY <1>1, <1>2, HistoryEnds
<1>7. Identity(step, df[i]) = histories[m][N].value
  BY <1>1, <1>3, <1>5, <1>6, LastUnique
<1> DEFINE last(k) == histories[k][Len(histories[k])]
           before(k) == histories[k][Len(histories[k]) - 1]
           e == [row |-> i, type |-> step, msisdn |-> m, old |-> before(m).value,
                 new |-> last(m).value, confirmed |-> last(m).at]
<1>8. Len(histories[m]) >= 2 /\ Identity(step, df[i]) = last(m).value
  BY <1>2, <1>4, <1>7
<1>9. e \in Events(step)
  BY <1>8 DEF Events
<1>10. Reports(e, step, i)
  BY <1>8 DEF Reports
<1> QED
  BY <1>9, <1>10

LEMMA SignalsStay ==
  ASSUME UNCHANGED <<vars, hlr>>, dropped \subseteq dropped', NEW type
  PROVE  /\ Signals(type)' = Signals(type)
         /\ \A i : Due(type, i)' => Due(type, i)
         /\ \A e, i : Reports(e, type, i)' <=> Reports(e, type, i)
<1>1. Signals(type)' = Signals(type)
  BY DEF vars, Signals
<1>2. \A i : Due(type, i)' => Due(type, i)
  BY DEF vars, Due
<1>3. \A e, i : Reports(e, type, i)' <=> Reports(e, type, i)
  BY DEF vars, Reports
<1> QED
  BY <1>1, <1>2, <1>3

LEMMA ConfirmedStay ==
  ASSUME UNCHANGED <<vars, hlr>>, dropped \subseteq dropped', confirmed \subseteq confirmed',
         NEW type, AllConfirmed(type)
  PROVE  AllConfirmed(type)'
BY SignalsStay DEF AllConfirmed

LEMMA CompleteInit == DetectInit => CompleteInv
BY DEF DetectInit, CompleteInv, SwapType

\* verify_batch begins with every number of its signals pending.
LEMMA BeginAsks ==
  ASSUME IInv, UNCHANGED <<vars, hlr>>, dropped \subseteq dropped',
         NEW type \in SwapType, Begin(type)
  PROVE  step' = type /\ pending' \in Seq(Msisdn) /\ AskedOrPending'
<1>1. step' = type /\ pending' = MsisdnsOf(type)
  BY DEF Begin
<1>2. /\ pending' \in Seq(Msisdn)
      /\ \A i \in Signals(type) : df[i].msisdn \in ToSet(pending')
  BY <1>1, MsisdnsFacts
<1>3. Signals(type)' = Signals(type) /\ df' = df
  BY SignalsStay DEF vars
<1>4. AskedOrPending'
  BY <1>1, <1>2, <1>3 DEF AskedOrPending
<1> QED
  BY <1>1, <1>2, <1>4

LEMMA AnswerKeepsAsked ==
  ASSUME IInv, CompleteInv, Answered
  PROVE  AskedOrPending' /\ pending' \in Seq(Msisdn)
<1>1. /\ UNCHANGED <<vars, hlr, step, dropped>> /\ step \in SwapType
      /\ pending' = Rest
      /\ histories' = [m \in Msisdn |-> IF m \in ToSet(Chunk) THEN History(hlr[step][m])
                                                              ELSE histories[m]]
  BY DEF Answered, file
<1>2. /\ Rest \in Seq(Msisdn)
      /\ ToSet(pending) \subseteq ToSet(Chunk) \cup ToSet(Rest)
  BY ChunkFacts DEF CompleteInv
<1>3. Signals(step)' = Signals(step) /\ df' = df
  BY <1>1, SignalsStay DEF vars
<1>4. ASSUME NEW i \in Signals(step)
      PROVE  LET m == df[i].msisdn
             IN  \/ m \in ToSet(pending') \/ <<step, m>> \in dropped
                 \/ histories'[m] = History(hlr[step][m])
  <2> DEFINE m == df[i].msisdn
  <2>1. m \in Msisdn
    BY <1>1, SignalFacts
  <2>2. m \in ToSet(pending) \/ <<step, m>> \in dropped \/ histories[m] = History(hlr[step][m])
    BY <1>1 DEF CompleteInv, AskedOrPending
  <2>3. CASE m \in ToSet(Chunk)
    BY <1>1, <2>1, <2>3
  <2>4. CASE m \notin ToSet(Chunk)
    BY <1>1, <1>2, <2>1, <2>2, <2>4
  <2> QED
    BY <2>3, <2>4
<1>5. AskedOrPending'
  BY <1>1, <1>3, <1>4 DEF AskedOrPending
<1> QED
  BY <1>1, <1>2, <1>5

LEMMA FailureKeepsAsked ==
  ASSUME IInv, CompleteInv, Unanswered
  PROVE  AskedOrPending' /\ pending' \in Seq(Msisdn)
<1>1. /\ UNCHANGED <<vars, hlr, step, histories>> /\ step \in SwapType
      /\ pending' = Rest
      /\ dropped' = dropped \cup {<<step, m>> : m \in ToSet(Chunk)}
  BY DEF Unanswered, file
<1>2. /\ Rest \in Seq(Msisdn)
      /\ ToSet(pending) \subseteq ToSet(Chunk) \cup ToSet(Rest)
  BY ChunkFacts DEF CompleteInv
<1>3. Signals(step)' = Signals(step) /\ df' = df
  BY <1>1, SignalsStay DEF vars
<1>4. ASSUME NEW i \in Signals(step)
      PROVE  LET m == df[i].msisdn
             IN  \/ m \in ToSet(pending') \/ <<step, m>> \in dropped'
                 \/ histories[m] = History(hlr[step][m])
  BY <1>1, <1>2 DEF CompleteInv, AskedOrPending
<1>5. AskedOrPending'
  BY <1>1, <1>3, <1>4 DEF AskedOrPending
<1> QED
  BY <1>1, <1>2, <1>5

\* What is due of a type has been confirmed once it is verified.
LEMMA VerifiedConfirms ==
  ASSUME IInv, SoundInv, CompleteInv, Verified, NEW type, type = step
  PROVE  AllConfirmed(type)'
<1>1. /\ UNCHANGED <<vars, hlr, dropped>> /\ step \in SwapType /\ pending = <<>>
      /\ confirmed' = confirmed \cup Events(step)
  BY DEF Verified, file
<1>2. \A i \in Signals(type) : Due(type, i) => \E e \in confirmed' : Reports(e, type, i)
  BY <1>1, DueIsEvent
<1>3. Signals(type)' = Signals(type)
  BY <1>1, SignalsStay
<1>4. \A i : Due(type, i)' <=> Due(type, i)
  BY <1>1 DEF vars, Due
<1>5. \A e, i : Reports(e, type, i)' <=> Reports(e, type, i)
  BY <1>1, SignalsStay
<1> QED
  BY <1>2, <1>3, <1>4, <1>5 DEF AllConfirmed

LEMMA CompleteStep ==
  ASSUME CompleteInv, SoundInv, IInv, DetectNext
  PROVE  CompleteInv'
<1>1. CASE Loop
  <2>1. step = "resolve" /\ step' = "resolve" /\ pending' = pending
    BY <1>1 DEF Loop, detection, verify
  <2> QED
    BY <2>1 DEF CompleteInv, SwapType
<1>2. CASE Detect
  <2>1. /\ UNCHANGED <<vars, hlr, dropped>>
        /\ \/ step' = "done" /\ pending' = pending
              /\ Signals("SIM_SWAP") = {} /\ Signals("DEVICE_SWAP") = {}
           \/ Begin("SIM_SWAP")
    BY <1>2 DEF Detect, file
  <2>2. CASE step' = "done" /\ pending' = pending
             /\ Signals("SIM_SWAP") = {} /\ Signals("DEVICE_SWAP") = {}
    <3>1. Signals("SIM_SWAP")' = {} /\ Signals("DEVICE_SWAP")' = {}
      BY <2>1, <2>2, SignalsStay
    <3>2. AllWritten("SIM_SWAP")' /\ AllWritten("DEVICE_SWAP")'
      BY <3>1 DEF AllWritten
    <3> QED
      BY <2>2, <3>2 DEF CompleteInv, SwapType
  <2>3. CASE Begin("SIM_SWAP")
    <3>1. step' = "SIM_SWAP" /\ pending' \in Seq(Msisdn) /\ AskedOrPending'
      BY <2>1, <2>3, BeginAsks DEF SwapType
    <3> QED
      BY <3>1 DEF CompleteInv
  <2> QED
    BY <2>1, <2>2, <2>3
<1>3. CASE Answered
  <2>1. /\ UNCHANGED <<vars, hlr, step, confirmed, dropped>> /\ step \in SwapType
    BY <1>3 DEF Answered, file
  <2>2. step' = "DEVICE_SWAP" => AllConfirmed("SIM_SWAP")'
    BY <2>1, ConfirmedStay DEF CompleteInv
  <2> QED
    BY <1>3, <2>1, <2>2, AnswerKeepsAsked DEF CompleteInv, SwapType
<1>4. CASE Unanswered
  <2>1. /\ UNCHANGED <<vars, hlr, step, confirmed>> /\ step \in SwapType
        /\ dropped \subseteq dropped'
    BY <1>4 DEF Unanswered, file
  <2>2. step' = "DEVICE_SWAP" => AllConfirmed("SIM_SWAP")'
    BY <2>1, ConfirmedStay DEF CompleteInv
  <2> QED
    BY <1>4, <2>1, <2>2, FailureKeepsAsked DEF CompleteInv, SwapType
<1>5. CASE Verified
  <2>1. /\ UNCHANGED <<vars, hlr, dropped>> /\ step \in SwapType
        /\ confirmed \subseteq confirmed'
    BY <1>5 DEF Verified, file
  <2>2. CASE step = "SIM_SWAP"
    <3>1. Begin("DEVICE_SWAP")
      BY <1>5, <2>2 DEF Verified, NextType
    <3>2. step' = "DEVICE_SWAP" /\ pending' \in Seq(Msisdn) /\ AskedOrPending'
      BY <2>1, <3>1, BeginAsks DEF SwapType
    <3>3. AllConfirmed("SIM_SWAP")'
      BY <1>5, <2>2, VerifiedConfirms
    <3> QED
      BY <3>2, <3>3 DEF CompleteInv
  <2>3. CASE step = "DEVICE_SWAP"
    <3>1. step' = "write" /\ pending' = pending
      BY <1>5, <2>3 DEF Verified, NextType
    <3>2. AllConfirmed("DEVICE_SWAP")'
      BY <1>5, <2>3, VerifiedConfirms
    <3>3. AllConfirmed("SIM_SWAP")'
      BY <2>1, <2>3, ConfirmedStay DEF CompleteInv
    <3> QED
      BY <3>1, <3>2, <3>3 DEF CompleteInv, SwapType
  <2> QED
    BY <2>1, <2>2, <2>3 DEF SwapType
<1>6. CASE VerifyRaises
  <2>1. /\ UNCHANGED <<vars, hlr, confirmed>> /\ step \in SwapType
        /\ dropped' = dropped \cup ({step} \X Msisdn)
    BY <1>6 DEF VerifyRaises, file
  <2>2. ASSUME NEW type, type = step PROVE AllConfirmed(type)'
    <3>1. \A i \in Signals(type) : <<type, df[i].msisdn>> \in dropped'
      BY <2>1, <2>2, SignalFacts
    <3>2. Signals(type)' = Signals(type) /\ df' = df
      BY <2>1, SignalsStay DEF vars
    <3>3. \A i \in Signals(type)' : ~Due(type, i)'
      BY <3>1, <3>2 DEF Due
    <3> QED
      BY <3>3 DEF AllConfirmed
  <2>3. CASE step = "SIM_SWAP"
    <3>1. Begin("DEVICE_SWAP")
      BY <1>6, <2>3 DEF VerifyRaises
    <3>2. step' = "DEVICE_SWAP" /\ pending' \in Seq(Msisdn) /\ AskedOrPending'
      BY <2>1, <3>1, BeginAsks DEF SwapType
    <3> QED
      BY <2>2, <2>3, <3>2 DEF CompleteInv
  <2>4. CASE step = "DEVICE_SWAP"
    <3>1. step' = "write" /\ pending' = <<>>
      BY <1>6, <2>4 DEF VerifyRaises
    <3>2. AllConfirmed("SIM_SWAP")'
      BY <2>1, <2>4, ConfirmedStay DEF CompleteInv
    <3> QED
      BY <2>2, <2>4, <3>1, <3>2 DEF CompleteInv, SwapType
  <2> QED
    BY <2>1, <2>3, <2>4 DEF SwapType
<1>7. CASE Write
  <2>1. /\ UNCHANGED <<vars, hlr, pending, dropped>> /\ step = "write"
        /\ swapEvent' = confirmed /\ step' = "done"
    BY <1>7 DEF Write, file, verify
  <2>2. ASSUME NEW type, AllConfirmed(type) PROVE AllWritten(type)'
    BY <2>1, <2>2, SignalsStay DEF AllConfirmed, AllWritten
  <2> QED
    BY <2>1, <2>2 DEF CompleteInv, SwapType
<1>8. CASE WriteFails
  <2>1. /\ UNCHANGED <<vars, hlr, pending>> /\ step = "write" /\ step' = "done"
        /\ dropped' = SwapType \X Msisdn
    BY <1>8 DEF WriteFails, file, verify
  <2>2. ASSUME NEW type \in SwapType PROVE AllWritten(type)'
    <3>1. \A i \in Signals(type) : <<type, df[i].msisdn>> \in dropped'
      BY <2>1, SignalFacts
    <3>2. Signals(type)' = Signals(type) /\ df' = df
      BY <2>1 DEF vars, Signals
    <3>3. \A i \in Signals(type)' : ~Due(type, i)'
      BY <3>1, <3>2 DEF Due
    <3> QED
      BY <3>3 DEF AllWritten
  <2> QED
    BY <2>1, <2>2 DEF CompleteInv, SwapType
<1>9. CASE ResolveRaises
  <2>1. step' = "raised" /\ pending' = pending
    BY <1>9 DEF ResolveRaises, verify
  <2> QED
    BY <2>1 DEF CompleteInv, SwapType
<1> QED
  BY <1>1, <1>2, <1>3, <1>4, <1>5, <1>6, <1>7, <1>8, <1>9 DEF DetectNext

LEMMA CompleteStutter ==
  ASSUME CompleteInv, UNCHANGED <<vars, detection>>
  PROVE  CompleteInv'
<1>1. /\ UNCHANGED <<vars, hlr, step, pending, histories, confirmed, swapEvent, dropped>>
      /\ df' = df
  BY DEF detection, file, verify, vars
<1>2. /\ \A type : Signals(type)' = Signals(type)
      /\ \A type, i : Due(type, i)' <=> Due(type, i)
      /\ \A type, e, i : Reports(e, type, i)' <=> Reports(e, type, i)
  BY <1>1 DEF vars, Signals, Due, Reports
<1>3. AskedOrPending' <=> AskedOrPending
  BY <1>1 DEF vars, Signals, AskedOrPending
<1>4. \A type : AllConfirmed(type) => AllConfirmed(type)'
  BY <1>1, <1>2 DEF AllConfirmed
<1>5. \A type : AllWritten(type) => AllWritten(type)'
  BY <1>1, <1>2 DEF AllWritten
<1> QED
  BY <1>1, <1>3, <1>4, <1>5 DEF CompleteInv

LEMMA CompleteInvariance == DetectSpec => []CompleteInv
<1>1. CompleteInv /\ SoundInv /\ IInv /\ [DetectNext]_<<vars, detection>> => CompleteInv'
  BY CompleteStep, CompleteStutter
<1> QED
  BY <1>1, CompleteInit, SoundInvariance, LoopInvariance, PTL DEF DetectSpec

\* Between two clean rows of a number with different identities, the first one
\* that carries the identity of the second is a signal.
LEMMA ChangeSignals ==
  ASSUME IInv, NEW type \in SwapType, NEW i \in CleanRows, NEW j \in CleanRows,
         i < j, df[i].msisdn = df[j].msisdn, Identity(type, df[i]) # Identity(type, df[j])
  PROVE  \E k \in Signals(type) : /\ df[k].msisdn = df[j].msisdn
                                  /\ Identity(type, df[k]) = Identity(type, df[j])
<1> DEFINE Like(k) == /\ i < k /\ k <= j /\ df[k].msisdn = df[j].msisdn
                      /\ Identity(type, df[k]) = Identity(type, df[j])
           S == {k \in CleanRows : Like(k)}
<1>1. CleanRows \subseteq Rows(df) /\ CleanRows \subseteq Nat
  BY RowType DEF IInv, CleanRows, Clean
<1>2. j \in S /\ S \subseteq Nat
  <2>1. j \in Nat /\ j <= j
    BY <1>1
  <2> QED
    BY <1>1, <2>1
<1>3. PICK k \in S : \A x \in S : ~(<<x, k>> \in OpToRel(<, Nat))
  BY <1>2, NatLessThanWellFounded, WFMin
<1>4. \A x \in S : ~(x < k)
  BY <1>2, <1>3 DEF OpToRel
<1>5. k \in CleanRows /\ k \in Nat /\ i \in Nat /\ j \in Nat /\ Like(k)
  BY <1>1
<1> DEFINE D == {d \in 1..(k - i) : k - d \in CleanRows /\ df[k - d].msisdn = df[j].msisdn}
<1>6. k - i \in D /\ D \subseteq Nat
  BY <1>5
<1>7. PICK d \in D : \A x \in D : ~(<<x, d>> \in OpToRel(<, Nat))
  BY <1>6, NatLessThanWellFounded, WFMin
<1>8. \A x \in D : ~(x < d)
  BY <1>6, <1>7 DEF OpToRel
<1> DEFINE p == k - d
<1>9. /\ p \in CleanRows /\ p \in Nat /\ i <= p /\ p < k
      /\ df[p].msisdn = df[j].msisdn /\ d \in Nat /\ p = k - d
  BY <1>5
<1>10. \A q \in CleanRows : p < q /\ q < k => df[q].msisdn # df[j].msisdn
  <2> SUFFICES ASSUME NEW q \in CleanRows, p < q, q < k, df[q].msisdn = df[j].msisdn
               PROVE  FALSE
    OBVIOUS
  <2>1. q \in Nat
    BY <1>1
  <2>2. k - q \in 1..(k - i) /\ k - (k - q) = q /\ k - q < d
    BY <1>5, <1>9, <2>1
  <2> QED
    BY <1>8, <2>2
<1> HIDE DEF p
<1>11. PreviousOf(df, flagged, k, p)
  BY <1>5, <1>9, <1>10 DEF PreviousOf, CleanRows
<1>12. Identity(type, df[p]) # Identity(type, df[k])
  <2>1. CASE p = i
    BY <1>5, <2>1
  <2>2. CASE p # i
    BY <1>4, <1>5, <1>9, <2>2
  <2> QED
    BY <2>1, <2>2
<1>13. k \in Signals(type)
  <2>1. k \in Rows(df) /\ p \in Rows(df) /\ k \in Clean(df, flagged)
    BY <1>1, <1>5, <1>9 DEF CleanRows
  <2>2. CASE type = "SIM_SWAP"
    BY <1>11, <1>12, <2>1, <2>2 DEF Signals, ConflictC, Identity
  <2>3. CASE type = "DEVICE_SWAP"
    BY <1>11, <1>12, <2>1, <2>3 DEF Signals, ConflictD, Identity
  <2> QED
    BY <2>2, <2>3 DEF SwapType
<1> QED
  BY <1>5, <1>13

\* For every batch, HLR file and size of a chunk: a swap within the batch that
\* the HLR confirms is in swap_event unless a failure dropped its number.
THEOREM SwapsComplete == DetectSpec => []SwapsRecorded
<1>1. IInv /\ CompleteInv => SwapsRecorded
  <2> SUFFICES ASSUME IInv, CompleteInv, step = "done", NEW type \in SwapType,
                      NEW i \in CleanRows, NEW j \in CleanRows,
                      i < j, df[i].msisdn = df[j].msisdn,
                      Identity(type, df[i]) # Identity(type, df[j]),
                      Due(type, j)
               PROVE  \E e \in swapEvent : Reports(e, type, j)
    BY DEF SwapsRecorded, Due, Reports
  <2>1. PICK k \in Signals(type) : /\ df[k].msisdn = df[j].msisdn
                                   /\ Identity(type, df[k]) = Identity(type, df[j])
    BY ChangeSignals
  <2>2. Due(type, k)
    BY <2>1 DEF Due
  <2>3. AllWritten(type)
    BY DEF CompleteInv, SwapType
  <2>4. PICK e \in swapEvent : Reports(e, type, k)
    BY <2>2, <2>3 DEF AllWritten
  <2> QED
    BY <2>1, <2>4 DEF Reports
<1> QED
  BY <1>1, LoopInvariance, CompleteInvariance, PTL

-----------------------------------------------------------------------------
\* A record or a row x of session s at time t, by what it is for: the two
\* records of the session, the second Start of injection B, the session on
\* another card (C) or device (D).
Base(s) == Spacing * s
Neighbour(s) == (s + 1) % Pool

IsStart(s, x, t) ==
    /\ x.sess = <<"SESS", s>> /\ x.status = "Start"
    /\ x.imsi = s /\ x.msisdn = s /\ x.imei = <<"TAC", s>>
    /\ t = Base(s)
AtEnd(s, x, t) ==
    /\ x.sess = <<"SESS", s>> /\ x.status = "Stop" /\ x.imei = <<"TAC", s>>
    /\ t = Base(s) + Duration[s]
IsStop(rolls, s, x, t) ==
    /\ AtEnd(s, x, t)
    /\ x.imsi = (IF rolls[s] = "A imsi" THEN Neighbour(s) ELSE s)
    /\ x.msisdn = (IF rolls[s] = "A msisdn" THEN Neighbour(s) ELSE s)
IsSecond(rolls, s, x, t) ==
    /\ rolls[s] = "B"
    /\ x.sess = <<"SESS_B", s>> /\ x.status = "Start"
    /\ x.imsi = s /\ x.msisdn = s /\ x.imei = <<"TAC", s>>
    /\ Base(s) < t /\ t < Base(s) + Duration[s]
    /\ t = Base(s) + Duration[s] \div 2
SwapAt(s, x, t) ==
    /\ x.status \in {"Start", "Stop"}
    /\ t = Base(s) + Duration[s] + Pause + (IF x.status = "Start" THEN 0 ELSE SwapTime)
IsOnCard(rolls, s, x, t) ==
    /\ rolls[s] = "C"
    /\ x.sess = <<"SESS_C", s>>
    /\ x.imsi = Pool + SimTarget(rolls, s) /\ x.msisdn = SimTarget(rolls, s)
    /\ x.imei = <<"TAC", s>>
    /\ SwapAt(s, x, t)
IsOnDevice(rolls, s, x, t) ==
    /\ rolls[s] = "D"
    /\ x.sess = <<"SESS_D", s>>
    /\ x.imsi = s /\ x.msisdn = s
    /\ x.imei = NewDevice(DeviceTarget(rolls, s))
    /\ SwapAt(s, x, t)
IsRecord(rolls, s, x, t) ==
    \/ IsStart(s, x, t)
    \/ IsStop(rolls, s, x, t)
    \/ IsSecond(rolls, s, x, t)
    \/ IsOnCard(rolls, s, x, t)
    \/ IsOnDevice(rolls, s, x, t)

Indices == 0..(Sessions - 1)

\* The numbers that the formulas above are made of.
LEMMA SessionNumbers ==
  ASSUME NEW s \in Indices
  PROVE  /\ s \in Nat /\ s \in Subscriber /\ SubscriberOf(s) = s /\ Base(s) \in Nat
         /\ Neighbour(s) \in Subscriber /\ Neighbour(s) # s
         /\ Duration[s] \in Nat /\ Duration[s] > 0
         /\ Pause \in Nat /\ Pause > 0 /\ SwapTime \in Nat /\ SwapTime > 0
         /\ Duration[s] \div 2 \in Nat /\ 0 < Duration[s] \div 2 /\ Duration[s] \div 2 < Duration[s]
         /\ Pool \in Nat /\ Pool > 1
<1>1. /\ Pool \in Nat /\ Pool > 1 /\ Subscribers \in Nat \ {0} /\ Sessions \in Nat
      /\ Spacing \in Nat /\ Subscribers <= Pool /\ Sessions <= Subscribers
      /\ Pause \in Nat \ {0} /\ SwapTime \in Nat \ {0}
  BY PoolAssumption, SimulationAssumption
<1>2. s \in Nat /\ s < Subscribers /\ s < Pool
  BY <1>1 DEF Indices
<1>3. Base(s) \in Nat
  BY <1>1, <1>2 DEF Base
<1>4. SubscriberOf(s) = s
  <2> DEFINE q == s \div Subscribers
             r == s % Subscribers
  <2>1. s = Subscribers * q + r /\ q \in Int /\ r \in Nat /\ r < Subscribers
    BY <1>1, <1>2
  <2>2. q = 0
    <3> HIDE DEF q, r
    <3>1. q > 0 => Subscribers * q >= Subscribers
      BY <1>1, <2>1
    <3>2. q < 0 => Subscribers * q <= 0 - Subscribers
      BY <1>1, <2>1
    <3> QED
      BY <1>1, <1>2, <2>1, <3>1, <3>2
  <2> HIDE DEF q
  <2> QED
    BY <1>1, <2>1, <2>2 DEF SubscriberOf
<1>5. Neighbour(s) \in 0..(Pool - 1) /\ Neighbour(s) # s
  <2> DEFINE q == (s + 1) \div Pool
             r == (s + 1) % Pool
  <2>1. s + 1 = Pool * q + r /\ q \in Int /\ r \in Nat /\ r < Pool
    BY <1>1, <1>2
  <2>2. r # s
    <3> HIDE DEF q, r
    <3>1. q > 0 => Pool * q >= Pool
      BY <1>1, <2>1
    <3>2. q < 0 => Pool * q <= 0 - Pool
      BY <1>1, <2>1
    <3>3. q = 0 => Pool * q = 0
      BY <1>1
    <3> QED
      BY <1>1, <1>2, <2>1, <3>1, <3>2, <3>3
  <2>3. r \in 0..(Pool - 1)
    <3> HIDE DEF r, q
    <3> QED
      BY <1>1, <2>1
  <2> QED
    BY <2>2, <2>3 DEF Neighbour
<1>6. Duration[s] \in Nat \ {0} /\ Duration[s] % 2 = 0
  <2>1. s \in DOMAIN Duration
    BY PoolAssumption DEF Indices
  <2> QED
    BY PoolAssumption, <2>1
<1>7. \A d \in Nat \ {0} : d % 2 = 0 => d \div 2 \in Nat /\ 0 < d \div 2 /\ d \div 2 < d
  OBVIOUS
<1> QED
  BY <1>1, <1>2, <1>3, <1>4, <1>5, <1>6, <1>7 DEF Subscriber

LEMMA BeforeFacts ==
  ASSUME NEW rolls, NEW s \in Nat, NEW roll
  PROVE  SwapsBefore(rolls, s, roll) \in Nat
<1> DEFINE T == {t \in 0..(s - 1) : rolls[t] = roll}
<1>1. IsFiniteSet(0..(s - 1))
  BY FS_Interval
<1>2. IsFiniteSet(T)
  BY <1>1, FS_Subset
<1> QED
  BY <1>2, FS_CardinalityType DEF SwapsBefore

\* The cursor of a swap stays within the subscribers that have one.
LEMMA EligibleFacts ==
  ASSUME NEW every \in Nat \ {0}, NEW n \in Nat
  PROVE  Eligible(every, n) \in Subscriber /\ HasSwap(Eligible(every, n), every)
<1> DEFINE K == (Pool + every - 1) \div every
           c == n % K
           x == every * c
<1>1. Pool \in Nat /\ Pool > 1
  BY PoolAssumption
<1>2. K \in Nat /\ K > 0 /\ every * K <= Pool + every - 1
  <2> DEFINE N == Pool + every - 1
             r == N % every
  <2>1. N \in Nat /\ N >= every
    BY <1>1
  <2>2. K = N \div every
    OBVIOUS
  <2> HIDE DEF N, K
  <2>3. N = every * K + r /\ K \in Int /\ r \in Nat /\ r < every
    BY <2>1, <2>2
  <2> HIDE DEF r
  <2>4. K <= 0 => every * K <= 0
    BY <2>3
  <2>5. K > 0 /\ every * K <= N
    BY <2>1, <2>3, <2>4
  <2> QED
    BY <2>3, <2>5 DEF N
<1> HIDE DEF K
<1>3. c \in Nat /\ c <= K - 1
  BY <1>2
<1> HIDE DEF c
<1>4. x \in Nat /\ x <= Pool - 1
  <2>1. every * c <= every * (K - 1)
    BY <1>2, <1>3
  <2>2. every * (K - 1) = every * K - every
    BY <1>2
  <2> QED
    BY <1>1, <1>2, <1>3, <2>1, <2>2
<1>5. x % every = 0
  <2> DEFINE q == x \div every
             r == x % every
  <2>1. x = every * q + r /\ q \in Int /\ r \in Nat /\ r < every
    <3>1. x \in Nat
      BY <1>4
    <3> HIDE DEF x
    <3> QED
      BY <3>1
  <2> HIDE DEF q, r
  <2>2. r = every * (c - q)
    BY <1>3, <2>1
  <2>3. c - q > 0 => every * (c - q) >= every
    BY <1>3, <2>1
  <2>4. c - q < 0 => every * (c - q) < 0
    BY <1>3, <2>1
  <2>5. c - q = 0 => every * (c - q) = 0
    BY <1>3, <2>1
  <2>6. r = 0
    BY <1>3, <2>1, <2>2, <2>3, <2>4, <2>5
  <2> QED
    BY <2>6 DEF r
<1>6. Eligible(every, n) = x
  BY DEF Eligible, x, c, K
<1> QED
  BY <1>1, <1>4, <1>5, <1>6 DEF Subscriber, HasSwap

LEMMA TargetFacts ==
  ASSUME NEW rolls, NEW s \in Nat
  PROVE  /\ SimTarget(rolls, s) \in Subscriber /\ HasSwap(SimTarget(rolls, s), SimEvery)
         /\ DeviceTarget(rolls, s) \in Subscriber /\ HasSwap(DeviceTarget(rolls, s), DeviceEvery)
<1>1. SimEvery \in Nat \ {0} /\ DeviceEvery \in Nat \ {0}
  BY PoolAssumption
<1>2. SwapsBefore(rolls, s, "C") \in Nat /\ SwapsBefore(rolls, s, "D") \in Nat
  BY BeforeFacts
<1> QED
  BY <1>1, <1>2, EligibleFacts DEF SimTarget, DeviceTarget

\* What the simulator sends has one of these forms.
LEMMA SentFacts ==
  ASSUME NEW rolls \in [Indices -> Roll], NEW r \in Sent(rolls)
  PROVE  \E s \in Indices : IsRecord(rolls, s, r, r.at)
<1>1. PICK s \in Indices : r \in Injected(rolls, s)
  BY DEF Sent, Indices
<1> DEFINE start == Generated(s, "Start")
           stop == Generated(s, "Stop")
<1>2. SubscriberOf(s) = s /\ Base(s) \in Nat /\ Duration[s] \in Nat
  BY SessionNumbers
<1>3. /\ start.sess = <<"SESS", s>> /\ start.status = "Start" /\ start.imsi = s
      /\ start.msisdn = s /\ start.imei = <<"TAC", s>> /\ start.at = Base(s)
  BY <1>2 DEF Generated, Base
<1>4. /\ stop.sess = <<"SESS", s>> /\ stop.status = "Stop" /\ stop.imsi = s
      /\ stop.msisdn = s /\ stop.imei = <<"TAC", s>> /\ stop.at = Base(s) + Duration[s]
  BY <1>2 DEF Generated, Base
<1>5. ASSUME r = start
      PROVE  IsRecord(rolls, s, r, r.at)
  BY <1>3, <1>5 DEF IsRecord, IsStart
<1>6. ASSUME r = stop, rolls[s] \notin {"A imsi", "A msisdn"}
      PROVE  IsRecord(rolls, s, r, r.at)
  BY <1>4, <1>6 DEF IsRecord, IsStop, AtEnd
<1>7. ASSUME NEW name, NEW number, NEW card, NEW device, r \in SwapSession(name, s, number, card, device)
      PROVE  /\ r.sess = <<name, s>> /\ r.imsi = card /\ r.msisdn = number /\ r.imei = device
             /\ SwapAt(s, r, r.at)
  <2>1. PICK status \in {"Start", "Stop"} :
            r = [sess |-> <<name, s>>, imsi |-> card, msisdn |-> number, imei |-> device,
                 status |-> status,
                 at |-> Spacing * s + Duration[s] + Pause
                            + (IF status = "Start" THEN 0 ELSE SwapTime)]
    BY <1>7 DEF SwapSession
  <2> QED
    BY <2>1 DEF SwapAt, Base
<1>8. CASE rolls[s] = "none"
  <2>1. r \in {start, stop}
    BY <1>1, <1>8 DEF Injected
  <2> QED
    BY <1>5, <1>6, <1>8, <2>1
<1>9. CASE rolls[s] = "A imsi"
  <2>1. r \in {start, [stop EXCEPT !.imsi = Neighbour(s)]}
    BY <1>1, <1>2, <1>9 DEF Injected, Neighbour
  <2>2. CASE r = start
    BY <1>5, <2>2
  <2>3. CASE r = [stop EXCEPT !.imsi = Neighbour(s)]
    <3>1. /\ r.sess = stop.sess /\ r.status = stop.status /\ r.imsi = Neighbour(s)
          /\ r.msisdn = stop.msisdn /\ r.imei = stop.imei /\ r.at = stop.at
      BY <2>3 DEF Generated
    <3> QED
      BY <1>4, <1>9, <3>1 DEF IsRecord, IsStop, AtEnd
  <2> QED
    BY <2>1, <2>2, <2>3
<1>10. CASE rolls[s] = "A msisdn"
  <2>1. r \in {start, [stop EXCEPT !.msisdn = Neighbour(s)]}
    BY <1>1, <1>2, <1>10 DEF Injected, Neighbour
  <2>2. CASE r = start
    BY <1>5, <2>2
  <2>3. CASE r = [stop EXCEPT !.msisdn = Neighbour(s)]
    <3>1. /\ r.sess = stop.sess /\ r.status = stop.status /\ r.imsi = stop.imsi
          /\ r.msisdn = Neighbour(s) /\ r.imei = stop.imei /\ r.at = stop.at
      BY <2>3 DEF Generated
    <3> QED
      BY <1>4, <1>10, <3>1 DEF IsRecord, IsStop, AtEnd
  <2> QED
    BY <2>1, <2>2, <2>3
<1>11. CASE rolls[s] = "B"
  <2> DEFINE second == [start EXCEPT !.sess = <<"SESS_B", s>>, !.at = @ + Duration[s] \div 2]
  <2>1. r \in {start, stop, second}
    BY <1>1, <1>11 DEF Injected
  <2>2. CASE r = second
    <3>1. /\ r.sess = <<"SESS_B", s>> /\ r.status = start.status /\ r.imsi = start.imsi
          /\ r.msisdn = start.msisdn /\ r.imei = start.imei
          /\ r.at = start.at + Duration[s] \div 2
      BY <2>2 DEF Generated
    <3>2. /\ Base(s) \in Nat /\ Duration[s] \in Nat /\ Duration[s] \div 2 \in Nat
          /\ 0 < Duration[s] \div 2 /\ Duration[s] \div 2 < Duration[s]
      BY SessionNumbers
    <3>3. Base(s) < r.at /\ r.at < Base(s) + Duration[s]
      BY <1>3, <3>1, <3>2
    <3> QED
      BY <1>3, <1>11, <3>1, <3>3 DEF IsRecord, IsSecond
  <2> QED
    BY <1>5, <1>6, <1>11, <2>1, <2>2
<1>12. CASE rolls[s] = "C"
  <2> DEFINE target == SimTarget(rolls, s)
  <2>1. r \in {start, stop} \cup SwapSession("SESS_C", s, target, NewCard(target), start.imei)
    BY <1>1, <1>12 DEF Injected
  <2>2. CASE r \in SwapSession("SESS_C", s, target, NewCard(target), start.imei)
    BY <1>3, <1>7, <1>12, <2>2 DEF IsRecord, IsOnCard, NewCard
  <2> QED
    BY <1>5, <1>6, <1>12, <2>1, <2>2
<1>13. CASE rolls[s] = "D"
  <2> DEFINE device == NewDevice(DeviceTarget(rolls, s))
  <2>1. r \in {start, stop} \cup SwapSession("SESS_D", s, start.msisdn, start.imsi, device)
    BY <1>1, <1>13 DEF Injected
  <2>2. CASE r \in SwapSession("SESS_D", s, start.msisdn, start.imsi, device)
    BY <1>3, <1>7, <1>13, <2>2 DEF IsRecord, IsOnDevice
  <2> QED
    BY <1>5, <1>6, <1>13, <2>1, <2>2
<1>14. rolls[s] \in Roll
  OBVIOUS
<1> QED
  BY <1>8, <1>9, <1>10, <1>11, <1>12, <1>13, <1>14 DEF Roll

-----------------------------------------------------------------------------
LEMMA KeyFixes ==
  ASSUME NEW rolls, NEW s \in Indices, NEW p \in Indices, NEW x, NEW y, NEW t, NEW u,
         IsRecord(rolls, s, x, t), IsRecord(rolls, p, y, u),
         x.sess = y.sess, x.status = y.status
  PROVE  s = p /\ t = u
<1>1. /\ IsStop(rolls, s, x, t) => AtEnd(s, x, t)
      /\ IsStop(rolls, p, y, u) => AtEnd(p, y, u)
  BY DEF IsStop
<1>2. /\ IsStart(s, x, t) \/ AtEnd(s, x, t) \/ IsSecond(rolls, s, x, t)
            \/ IsOnCard(rolls, s, x, t) \/ IsOnDevice(rolls, s, x, t)
      /\ IsStart(p, y, u) \/ AtEnd(p, y, u) \/ IsSecond(rolls, p, y, u)
            \/ IsOnCard(rolls, p, y, u) \/ IsOnDevice(rolls, p, y, u)
  BY <1>1 DEF IsRecord
<1>3. CASE IsStart(s, x, t)
  BY <1>2, <1>3 DEF AtEnd, IsStart, IsSecond, IsOnCard, IsOnDevice
<1>4. CASE AtEnd(s, x, t)
  BY <1>2, <1>4 DEF AtEnd, IsStart, IsSecond, IsOnCard, IsOnDevice
<1>5. CASE IsSecond(rolls, s, x, t)
  BY <1>2, <1>5 DEF AtEnd, IsStart, IsSecond, IsOnCard, IsOnDevice
<1>6. CASE IsOnCard(rolls, s, x, t)
  BY <1>2, <1>6 DEF AtEnd, IsStart, IsSecond, IsOnCard, IsOnDevice, SwapAt
<1>7. CASE IsOnDevice(rolls, s, x, t)
  BY <1>2, <1>7 DEF AtEnd, IsStart, IsSecond, IsOnCard, IsOnDevice, SwapAt
<1> QED
  BY <1>2, <1>3, <1>4, <1>5, <1>6, <1>7

-----------------------------------------------------------------------------
\* The batch that is being processed is a simulated one.
InSimulation ==
    /\ df \in Seq(Record)
    /\ origin.rolls \in [Indices -> Roll]
    /\ IsDataFrame(df, origin)
    /\ hlr = SeededOnFile

\* The record that row i stands for.
RecordAt(i) == CHOOSE r \in Accepted(origin) : df[i] = Row(r)
TimeOf(i) == RecordAt(i).at

LEMMA RecordFacts ==
  ASSUME InSimulation, NEW r \in Accepted(origin)
  PROVE  /\ \E s \in Indices : IsRecord(origin.rolls, s, r, r.at)
         /\ r.at \in Nat
         /\ KeyOf(r) = <<r.sess, r.status>>
         /\ Row(r).sess = r.sess /\ Row(r).status = r.status /\ Row(r).imsi = r.imsi
         /\ Row(r).msisdn = r.msisdn /\ Row(r).imei = r.imei
<1>1. PICK s \in Indices : IsRecord(origin.rolls, s, r, r.at)
  <2>1. r \in Sent(origin.rolls) /\ origin.rolls \in [Indices -> Roll]
    BY DEF Accepted, InSimulation
  <2> QED
    BY <2>1, SentFacts
<1>2. r.at \in Nat
  <2>1. /\ Base(s) \in Nat /\ Duration[s] \in Nat /\ Duration[s] \div 2 \in Nat
        /\ Pause \in Nat /\ SwapTime \in Nat
    BY SessionNumbers
  <2>2. IsStart(s, r, r.at) \/ IsSecond(origin.rolls, s, r, r.at) => r.at \in Nat
    BY <2>1 DEF IsStart, IsSecond
  <2>3. IsStop(origin.rolls, s, r, r.at) => r.at \in Nat
    <3>1. AtEnd(s, r, r.at) => r.at \in Nat
      BY <2>1 DEF AtEnd
    <3> QED
      BY <3>1 DEF IsStop
  <2>4. SwapAt(s, r, r.at) => r.at \in Nat
    BY <2>1 DEF SwapAt
  <2>5. IsOnCard(origin.rolls, s, r, r.at) \/ IsOnDevice(origin.rolls, s, r, r.at) => r.at \in Nat
    BY <2>4 DEF IsOnCard, IsOnDevice
  <2> QED
    BY <1>1, <2>2, <2>3, <2>5 DEF IsRecord
<1> QED
  BY <1>1, <1>2 DEF Row, Columns, KeyOf

\* Each row has the form of one record, and its place in the order of the times.
LEMMA RowFacts ==
  ASSUME InSimulation, NEW i \in Rows(df)
  PROVE  /\ i \in Nat /\ TimeOf(i) \in Nat
         /\ RecordAt(i) \in Accepted(origin)
         /\ KeyOf(RecordAt(i)) = <<df[i].sess, df[i].status>>
         /\ df[i].sess = RecordAt(i).sess /\ df[i].status = RecordAt(i).status
         /\ df[i].imsi = RecordAt(i).imsi /\ df[i].msisdn = RecordAt(i).msisdn
         /\ df[i].imei = RecordAt(i).imei
         /\ \E s \in Indices : IsRecord(origin.rolls, s, df[i], TimeOf(i))
<1>1. i \in Nat /\ i \in DOMAIN df
  BY DEF Rows, InSimulation
<1>2. \E r \in Accepted(origin) : df[i] = Row(r)
  BY <1>1 DEF InSimulation, IsDataFrame
<1> DEFINE r == RecordAt(i)
<1>3. r \in Accepted(origin) /\ df[i] = Row(r)
  BY <1>2 DEF RecordAt
<1> HIDE DEF r
<1>4. PICK s \in Indices : IsRecord(origin.rolls, s, r, r.at)
  BY <1>3, RecordFacts
<1>5. /\ df[i].sess = r.sess /\ df[i].status = r.status /\ df[i].imsi = r.imsi
      /\ df[i].msisdn = r.msisdn /\ df[i].imei = r.imei
      /\ KeyOf(r) = <<r.sess, r.status>> /\ r.at \in Nat
  BY <1>3, RecordFacts
<1>6. IsRecord(origin.rolls, s, df[i], r.at)
  BY <1>4, <1>5 DEF IsRecord, IsStart, IsStop, AtEnd, IsSecond, IsOnCard, IsOnDevice, SwapAt
<1> QED
  BY <1>1, <1>3, <1>5, <1>6 DEF r, TimeOf

LEMMA SameKeySameTime ==
  ASSUME InSimulation, NEW i \in Rows(df), NEW r \in Accepted(origin),
         KeyOf(r) = <<df[i].sess, df[i].status>>
  PROVE  r.at = TimeOf(i)
<1>1. PICK s \in Indices : IsRecord(origin.rolls, s, df[i], TimeOf(i))
  BY RowFacts
<1>2. PICK p \in Indices : IsRecord(origin.rolls, p, r, r.at)
  BY RecordFacts
<1>3. r.sess = df[i].sess /\ r.status = df[i].status
  BY RecordFacts
<1> QED
  BY <1>1, <1>2, <1>3, KeyFixes

LEMMA OrderFacts ==
  ASSUME InSimulation, NEW i \in Rows(df), NEW j \in Rows(df)
  PROVE  /\ i < j => TimeOf(i) <= TimeOf(j)
         /\ TimeOf(i) < TimeOf(j) => i < j
         /\ df[i].sess = df[j].sess /\ df[i].status = df[j].status => i = j
<1>1. ASSUME NEW a \in Rows(df), NEW b \in Rows(df), a < b
      PROVE  TimeOf(a) <= TimeOf(b) /\ ~(df[a].sess = df[b].sess /\ df[a].status = df[b].status)
  <2>1. a \in DOMAIN df /\ b \in DOMAIN df
    BY DEF Rows, InSimulation
  <2>2. PICK r \in Accepted(origin), q \in Accepted(origin) :
            /\ df[a] = Row(r) /\ df[b] = Row(q) /\ KeyOf(r) # KeyOf(q) /\ r.at <= q.at
    BY <1>1, <2>1 DEF InSimulation, IsDataFrame
  <2>3. /\ KeyOf(r) = <<df[a].sess, df[a].status>>
        /\ KeyOf(q) = <<df[b].sess, df[b].status>>
    BY <2>2, RecordFacts
  <2>4. r.at = TimeOf(a) /\ q.at = TimeOf(b)
    BY <2>3, SameKeySameTime
  <2> QED
    BY <2>2, <2>3, <2>4
<1>2. i \in Nat /\ j \in Nat /\ TimeOf(i) \in Nat /\ TimeOf(j) \in Nat
  BY RowFacts
<1>3. i < j \/ j < i \/ i = j
  BY <1>2
<1> QED
  BY <1>1, <1>2, <1>3

LEMMA RowOf ==
  ASSUME InSimulation, NEW r \in Accepted(origin)
  PROVE  \E i \in Rows(df) : /\ df[i].sess = r.sess /\ df[i].status = r.status
                             /\ df[i].imsi = r.imsi /\ df[i].msisdn = r.msisdn
                             /\ df[i].imei = r.imei /\ TimeOf(i) = r.at
<1>1. PICK i \in DOMAIN df : df[i] = Row(r)
  BY DEF InSimulation, IsDataFrame
<1>2. i \in Rows(df)
  BY DEF Rows, InSimulation
<1>3. /\ df[i].sess = r.sess /\ df[i].status = r.status /\ df[i].imsi = r.imsi
      /\ df[i].msisdn = r.msisdn /\ df[i].imei = r.imei
      /\ KeyOf(r) = <<df[i].sess, df[i].status>>
  BY <1>1, RecordFacts
<1>4. TimeOf(i) = r.at
  BY <1>2, <1>3, SameKeySameTime
<1> QED
  BY <1>2, <1>3, <1>4

Here(name, s, status) == \E i \in Rows(df) : df[i].sess = <<name, s>> /\ df[i].status = status

LEMMA HereArrived ==
  ASSUME InSimulation, NEW name, NEW s, NEW status
  PROVE  Here(name, s, status) <=> Arrived(Accepted(origin), name, s, status)
<1>1. ASSUME Here(name, s, status)
      PROVE  Arrived(Accepted(origin), name, s, status)
  BY <1>1, RowFacts DEF Here, Arrived
<1>2. ASSUME Arrived(Accepted(origin), name, s, status)
      PROVE  Here(name, s, status)
  <2>1. PICK r \in Accepted(origin) : KeyOf(r) = <<<<name, s>>, status>>
    BY <1>2 DEF Arrived
  <2>2. r.sess = <<name, s>> /\ r.status = status
    BY <2>1, RecordFacts
  <2> QED
    BY <2>2, RowOf DEF Here
<1> QED
  BY <1>1, <1>2

\* Which record a row is, told by the name of its session and its status.
LEMMA Forms ==
  ASSUME InSimulation, NEW i \in Rows(df)
  PROVE  \E s \in Indices :
            \/ df[i].sess = <<"SESS", s>> /\ IsStart(s, df[i], TimeOf(i))
            \/ df[i].sess = <<"SESS", s>> /\ IsStop(origin.rolls, s, df[i], TimeOf(i))
            \/ df[i].sess = <<"SESS_B", s>> /\ IsSecond(origin.rolls, s, df[i], TimeOf(i))
            \/ df[i].sess = <<"SESS_C", s>> /\ IsOnCard(origin.rolls, s, df[i], TimeOf(i))
            \/ df[i].sess = <<"SESS_D", s>> /\ IsOnDevice(origin.rolls, s, df[i], TimeOf(i))
BY RowFacts DEF IsRecord, IsStart, IsStop, AtEnd, IsSecond, IsOnCard, IsOnDevice

LEMMA FormOfName ==
  ASSUME InSimulation, NEW i \in Rows(df), NEW s, NEW name, df[i].sess = <<name, s>>
  PROVE  /\ s \in Indices
         /\ name = "SESS" /\ df[i].status = "Start" => IsStart(s, df[i], TimeOf(i))
         /\ name = "SESS" /\ df[i].status # "Start" => IsStop(origin.rolls, s, df[i], TimeOf(i))
         /\ name = "SESS_B" => IsSecond(origin.rolls, s, df[i], TimeOf(i))
         /\ name = "SESS_C" => IsOnCard(origin.rolls, s, df[i], TimeOf(i))
         /\ name = "SESS_D" => IsOnDevice(origin.rolls, s, df[i], TimeOf(i))
         /\ name \in {"SESS", "SESS_B", "SESS_C", "SESS_D"}
<1>1. PICK p \in Indices :
            \/ df[i].sess = <<"SESS", p>> /\ IsStart(p, df[i], TimeOf(i))
            \/ df[i].sess = <<"SESS", p>> /\ IsStop(origin.rolls, p, df[i], TimeOf(i))
            \/ df[i].sess = <<"SESS_B", p>> /\ IsSecond(origin.rolls, p, df[i], TimeOf(i))
            \/ df[i].sess = <<"SESS_C", p>> /\ IsOnCard(origin.rolls, p, df[i], TimeOf(i))
            \/ df[i].sess = <<"SESS_D", p>> /\ IsOnDevice(origin.rolls, p, df[i], TimeOf(i))
  BY Forms
<1>2. p = s
  BY <1>1
<1>3. IsStart(p, df[i], TimeOf(i)) => df[i].status = "Start"
  BY DEF IsStart
<1>4. IsStop(origin.rolls, p, df[i], TimeOf(i)) => df[i].status = "Stop"
  BY DEF IsStop, AtEnd
<1> QED
  BY <1>1, <1>2, <1>3, <1>4

-----------------------------------------------------------------------------
Mutated(s) == origin.rolls[s] \in {"A imsi", "A msisdn"}

LEMMA ConflictAFacts ==
  ASSUME InSimulation, NEW i \in Rows(df)
  PROVE  ConflictA(df, i) <=>
            \E s \in Indices : /\ df[i].sess = <<"SESS", s>> /\ df[i].status = "Stop"
                               /\ Mutated(s) /\ Here("SESS", s, "Start")
<1>1. i \in Nat /\ \A j \in 1..i : j \in Rows(df) /\ j \in Nat
  BY RowFacts DEF Rows, InSimulation
<1>2. ASSUME ConflictA(df, i)
      PROVE  \E s \in Indices : /\ df[i].sess = <<"SESS", s>> /\ df[i].status = "Stop"
                                /\ Mutated(s) /\ Here("SESS", s, "Start")
  <2>1. PICK j \in 1..i : SameSession(df, i, j) /\ ~SameIdentity(df, i, j)
    BY <1>2 DEF ConflictA
  <2>2. j \in Rows(df) /\ df[i].sess = df[j].sess /\ df[i].status # "Start"
    BY <1>1, <1>2, <2>1 DEF ConflictA, SameSession
  <2>3. df[i].imsi # df[j].imsi \/ df[i].msisdn # df[j].msisdn
    BY <2>1 DEF SameIdentity
  <2>4. PICK s \in Indices, name \in {"SESS", "SESS_B", "SESS_C", "SESS_D"} : df[i].sess = <<name, s>>
    BY Forms
  <2>5. df[j].sess = <<name, s>>
    BY <2>2, <2>4
  <2>6. name # "SESS_B"
    BY <2>2, <2>4, FormOfName DEF IsSecond
  <2>7. name # "SESS_C" /\ name # "SESS_D"
    BY <2>2, <2>3, <2>4, <2>5, FormOfName DEF IsOnCard, IsOnDevice
  <2>8. IsStop(origin.rolls, s, df[i], TimeOf(i)) /\ df[i].sess = <<"SESS", s>>
    BY <2>2, <2>4, <2>6, <2>7, FormOfName
  <2>9. df[i].status = "Stop"
    BY <2>8 DEF IsStop, AtEnd
  <2>10. df[j].status = "Start"
    <3> SUFFICES ASSUME df[j].status # "Start"
                 PROVE  FALSE
      OBVIOUS
    <3>1. IsStop(origin.rolls, s, df[j], TimeOf(j))
      BY <2>2, <2>5, <2>6, <2>7, FormOfName
    <3> QED
      BY <2>2, <2>3, <2>8, <3>1 DEF IsStop
  <2>11. Here("SESS", s, "Start") /\ df[j].imsi = s /\ df[j].msisdn = s
    BY <2>2, <2>5, <2>6, <2>7, <2>10, FormOfName DEF Here, IsStart
  <2>12. Mutated(s)
    BY <2>3, <2>8, <2>11 DEF IsStop, Mutated
  <2> QED
    BY <2>8, <2>9, <2>11, <2>12
<1>3. ASSUME NEW s \in Indices, df[i].sess = <<"SESS", s>>, df[i].status = "Stop",
             Mutated(s), Here("SESS", s, "Start")
      PROVE  ConflictA(df, i)
  <2>1. PICK j \in Rows(df) : df[j].sess = <<"SESS", s>> /\ df[j].status = "Start"
    BY <1>3 DEF Here
  <2>2. IsStart(s, df[j], TimeOf(j)) /\ IsStop(origin.rolls, s, df[i], TimeOf(i))
    BY <1>3, <2>1, FormOfName
  <2>3. j \in Nat /\ j < i
    <3>1. TimeOf(j) < TimeOf(i)
      <4>1. TimeOf(i) = Base(s) + Duration[s] /\ TimeOf(j) = Base(s)
        BY <2>2 DEF IsStart, IsStop, AtEnd
      <4> QED
        BY <4>1, SessionNumbers
    <3> QED
      BY <2>1, <3>1, RowFacts, OrderFacts
  <2>4. ~SameIdentity(df, i, j)
    BY <1>3, <2>2, SessionNumbers DEF IsStart, IsStop, Mutated, SameIdentity
  <2>5. IsFirstOfSession(df, j)
    <3> SUFFICES ASSUME NEW k \in 1..(j - 1), SameSession(df, j, k)
                 PROVE  FALSE
      BY DEF IsFirstOfSession
    <3>1. k \in Rows(df) /\ k \in Nat /\ k < j /\ df[k].sess = <<"SESS", s>>
      BY <1>1, <2>1, <2>3 DEF SameSession
    <3>2. df[k].status # "Start"
      BY <2>1, <3>1, OrderFacts
    <3>3. IsStop(origin.rolls, s, df[k], TimeOf(k))
      BY <3>1, <3>2, FormOfName
    <3>4. df[k].status = df[i].status
      BY <1>3, <3>3 DEF IsStop, AtEnd
    <3>5. k = i
      BY <1>3, <3>1, <3>4, OrderFacts
    <3> QED
      BY <1>1, <2>3, <3>1, <3>5
  <2>6. j \in 1..i /\ SameSession(df, i, j) /\ df[i].status # "Start"
    BY <1>1, <1>3, <2>1, <2>3 DEF SameSession, Rows
  <2> QED
    BY <2>4, <2>5, <2>6 DEF ConflictA
<1> QED
  BY <1>2, <1>3

-----------------------------------------------------------------------------
\* The flags are final and follow the rule.
Flagged == \A i \in Rows(df) : i \in flagged <=> ConflictB(df, flagged, i)

\* The Starts on the card of a subscriber: those of the session itself, of its
\* injections B and D.
LEMMA StartsOn ==
  ASSUME InSimulation, NEW i \in Rows(df), df[i].status = "Start",
         NEW s \in Indices, df[i].imsi = s
  PROVE  \/ df[i].sess = <<"SESS", s>> /\ IsStart(s, df[i], TimeOf(i))
         \/ df[i].sess = <<"SESS_B", s>> /\ IsSecond(origin.rolls, s, df[i], TimeOf(i))
         \/ df[i].sess = <<"SESS_D", s>> /\ IsOnDevice(origin.rolls, s, df[i], TimeOf(i))
<1>1. PICK p \in Indices :
            \/ df[i].sess = <<"SESS", p>> /\ IsStart(p, df[i], TimeOf(i))
            \/ df[i].sess = <<"SESS", p>> /\ IsStop(origin.rolls, p, df[i], TimeOf(i))
            \/ df[i].sess = <<"SESS_B", p>> /\ IsSecond(origin.rolls, p, df[i], TimeOf(i))
            \/ df[i].sess = <<"SESS_C", p>> /\ IsOnCard(origin.rolls, p, df[i], TimeOf(i))
            \/ df[i].sess = <<"SESS_D", p>> /\ IsOnDevice(origin.rolls, p, df[i], TimeOf(i))
  BY Forms
<1>2. ~IsStop(origin.rolls, p, df[i], TimeOf(i))
  BY DEF IsStop, AtEnd
<1>3. ~IsOnCard(origin.rolls, p, df[i], TimeOf(i))
  <2>1. SimTarget(origin.rolls, p) \in Nat /\ Pool \in Nat /\ s < Pool /\ s \in Nat
    BY SessionNumbers, TargetFacts DEF Subscriber
  <2> QED
    BY <2>1 DEF IsOnCard
<1>4. p = s
  BY <1>1, <1>2, <1>3 DEF IsStart, IsSecond, IsOnDevice
<1> QED
  BY <1>1, <1>2, <1>3, <1>4

\* What an open session is for a row of a batch with its flags.
LEMMA OpenFacts ==
  ASSUME NEW i \in Rows(df), NEW j, NEW m, OpenAt(df, flagged, m, j, i)
  PROVE  /\ j \in Rows(df) /\ j < i /\ df[j].imsi = m /\ df[j].status = "Start"
         /\ \A k \in Rows(df) : /\ df[k].imsi = m /\ ~ConflictA(df, k)
                                /\ j < k /\ k < i /\ df[j].sess = df[k].sess
                                => df[k].status # "Stop"
BY DEF OpenAt, Scanned, SameSession, Closes

\* The Start of a session comes first on its card.
LEMMA StartNotFlagged ==
  ASSUME InSimulation, Flagged, NEW i \in Rows(df), NEW s,
         df[i].sess = <<"SESS", s>>, df[i].status = "Start"
  PROVE  i \notin flagged
<1> SUFFICES ASSUME i \in flagged
             PROVE  FALSE
  OBVIOUS
<1>1. s \in Indices /\ IsStart(s, df[i], TimeOf(i))
  BY FormOfName
<1>2. PICK j \in Rows(df) : OpenAt(df, flagged, s, j, i)
  BY <1>1 DEF Flagged, ConflictB, IsStart
<1>3. j < i /\ df[j].imsi = s /\ df[j].status = "Start"
  BY <1>2, OpenFacts
<1>4. /\ TimeOf(j) <= TimeOf(i) /\ TimeOf(j) \in Nat /\ TimeOf(i) \in Nat
      /\ i \in Nat /\ j \in Nat
  BY <1>3, RowFacts, OrderFacts
<1>5. df[j].sess # <<"SESS", s>>
  BY <1>3, <1>4, OrderFacts
<1>6. CASE IsSecond(origin.rolls, s, df[j], TimeOf(j))
  BY <1>1, <1>4, <1>6, SessionNumbers DEF IsSecond, IsStart
<1>7. CASE IsOnDevice(origin.rolls, s, df[j], TimeOf(j))
  <2>1. TimeOf(j) = Base(s) + Duration[s] + Pause + 0
    BY <1>3, <1>7 DEF IsOnDevice, SwapAt
  <2> QED
    BY <1>1, <1>4, <2>1, SessionNumbers DEF IsStart
<1> QED
  BY <1>1, <1>3, <1>5, <1>6, <1>7, StartsOn

\* The Start of a session is open at a later row of its card unless its Stop
\* comes in between.
LEMMA StartOpen ==
  ASSUME InSimulation, Flagged, NEW i \in Rows(df), NEW j \in Rows(df), NEW s,
         df[j].sess = <<"SESS", s>>, df[j].status = "Start", TimeOf(j) < TimeOf(i),
         Here("SESS", s, "Stop") => TimeOf(i) < Base(s) + Duration[s]
  PROVE  OpenAt(df, flagged, s, j, i)
<1>1. s \in Indices /\ IsStart(s, df[j], TimeOf(j))
  BY FormOfName
<1>2. j \in Nat /\ i \in Nat /\ j < i
  BY RowFacts, OrderFacts
<1>3. j \notin flagged
  BY StartNotFlagged
<1>4. j \in Scanned(df, s)
  BY <1>1 DEF Scanned, ConflictA, IsStart
<1>5. ASSUME NEW k \in Scanned(df, s), j < k, k < i, SameSession(df, j, k), Closes(df[k])
      PROVE  FALSE
  <2>1. k \in Rows(df) /\ df[k].sess = <<"SESS", s>> /\ df[k].status # "Start"
    BY <1>5 DEF Scanned, SameSession, Closes
  <2>2. IsStop(origin.rolls, s, df[k], TimeOf(k))
    BY <2>1, FormOfName
  <2>3. Here("SESS", s, "Stop") /\ TimeOf(k) = Base(s) + Duration[s]
    BY <2>1, <2>2 DEF Here, IsStop, AtEnd
  <2>4. TimeOf(k) <= TimeOf(i) /\ TimeOf(i) \in Nat /\ TimeOf(k) \in Nat
    BY <1>5, <2>1, OrderFacts, RowFacts
  <2> QED
    BY <2>3, <2>4
<1> QED
  BY <1>2, <1>3, <1>4, <1>5 DEF OpenAt

\* The second Start of injection B is refused if the first one arrives.
LEMMA SecondFlagged ==
  ASSUME InSimulation, Flagged, NEW i \in Rows(df), NEW s, df[i].sess = <<"SESS_B", s>>
  PROVE  i \in flagged <=> Here("SESS", s, "Start")
<1>1. s \in Indices /\ IsSecond(origin.rolls, s, df[i], TimeOf(i))
  BY FormOfName
<1>2. df[i].imsi = s /\ df[i].status = "Start" /\ origin.rolls[s] = "B"
  BY <1>1 DEF IsSecond
<1>3. ASSUME i \in flagged
      PROVE  Here("SESS", s, "Start")
  <2>1. PICK j \in Rows(df) : OpenAt(df, flagged, s, j, i)
    BY <1>2, <1>3 DEF Flagged, ConflictB
  <2>2. j < i /\ df[j].imsi = s /\ df[j].status = "Start" /\ j \in Nat /\ i \in Nat
    BY <2>1, OpenFacts, RowFacts
  <2>3. df[j].sess # <<"SESS_B", s>>
    BY <1>2, <2>2, OrderFacts
  <2>4. ~IsOnDevice(origin.rolls, s, df[j], TimeOf(j))
    BY <1>2 DEF IsOnDevice
  <2> QED
    BY <1>1, <2>2, <2>3, <2>4, StartsOn DEF Here
<1>4. ASSUME Here("SESS", s, "Start")
      PROVE  i \in flagged
  <2>1. PICK j \in Rows(df) : df[j].sess = <<"SESS", s>> /\ df[j].status = "Start"
    BY <1>4 DEF Here
  <2>2. IsStart(s, df[j], TimeOf(j))
    BY <2>1, FormOfName
  <2>3. TimeOf(j) < TimeOf(i) /\ TimeOf(i) < Base(s) + Duration[s]
    BY <1>1, <2>2 DEF IsStart, IsSecond
  <2>4. OpenAt(df, flagged, s, j, i)
    BY <2>1, <2>3, StartOpen
  <2>5. ASSUME NEW k \in Rows(df), OpenAt(df, flagged, s, k, i), SameSession(df, i, k)
        PROVE  FALSE
    <3>1. k < i /\ df[k].status = "Start" /\ df[k].sess = df[i].sess /\ i \in Nat
      BY <2>5, OpenFacts, RowFacts DEF SameSession
    <3> QED
      BY <1>2, <3>1, OrderFacts
  <2>6. i \in Scanned(df, s)
    BY <1>2 DEF Scanned, ConflictA
  <2> QED
    BY <1>2, <2>4, <2>5, <2>6 DEF Flagged, ConflictB
<1> QED
  BY <1>3, <1>4

\* The Start on a new device is refused if the session before it does not stop.
LEMMA DeviceFlagged ==
  ASSUME InSimulation, Flagged, NEW i \in Rows(df), NEW s,
         df[i].sess = <<"SESS_D", s>>, df[i].status = "Start"
  PROVE  i \in flagged <=> Here("SESS", s, "Start") /\ ~Here("SESS", s, "Stop")
<1>1. s \in Indices /\ IsOnDevice(origin.rolls, s, df[i], TimeOf(i))
  BY FormOfName
<1>2. /\ df[i].imsi = s /\ origin.rolls[s] = "D"
      /\ TimeOf(i) = Base(s) + Duration[s] + Pause
  BY <1>1, SessionNumbers DEF IsOnDevice, SwapAt
<1>3. ASSUME i \in flagged
      PROVE  Here("SESS", s, "Start") /\ ~Here("SESS", s, "Stop")
  <2>1. PICK j \in Rows(df) : OpenAt(df, flagged, s, j, i)
    BY <1>2, <1>3 DEF Flagged, ConflictB
  <2>2. j < i /\ df[j].imsi = s /\ df[j].status = "Start" /\ j \in Nat /\ i \in Nat
    BY <2>1, OpenFacts, RowFacts
  <2>3. df[j].sess # <<"SESS_D", s>>
    BY <2>2, OrderFacts
  <2>4. ~IsSecond(origin.rolls, s, df[j], TimeOf(j))
    BY <1>2 DEF IsSecond
  <2>5. df[j].sess = <<"SESS", s>> /\ IsStart(s, df[j], TimeOf(j))
    BY <1>1, <2>2, <2>3, <2>4, StartsOn
  <2>6. ASSUME NEW k \in Rows(df), df[k].sess = <<"SESS", s>>, df[k].status = "Stop"
        PROVE  FALSE
    <3>1. IsStop(origin.rolls, s, df[k], TimeOf(k))
      BY <2>6, FormOfName
    <3>2. df[k].imsi = s /\ TimeOf(k) = Base(s) + Duration[s]
      BY <1>2, <3>1 DEF IsStop, AtEnd
    <3>3. TimeOf(j) < TimeOf(k) /\ TimeOf(k) < TimeOf(i)
      BY <1>1, <1>2, <2>5, <3>2, SessionNumbers DEF IsStart
    <3>4. j < k /\ k < i
      BY <3>3, OrderFacts
    <3>5. ~ConflictA(df, k)
      <4>1. ~Mutated(s) /\ \A q : df[k].sess = <<"SESS", q>> => q = s
        BY <1>2, <2>6 DEF Mutated
      <4> QED
        BY <4>1, ConflictAFacts
    <3> QED
      BY <2>1, <2>5, <2>6, <3>2, <3>4, <3>5, OpenFacts
  <2> QED
    BY <2>2, <2>5, <2>6 DEF Here
<1>4. ASSUME Here("SESS", s, "Start"), ~Here("SESS", s, "Stop")
      PROVE  i \in flagged
  <2>1. PICK j \in Rows(df) : df[j].sess = <<"SESS", s>> /\ df[j].status = "Start"
    BY <1>4 DEF Here
  <2>2. IsStart(s, df[j], TimeOf(j))
    BY <2>1, FormOfName
  <2>3. TimeOf(j) < TimeOf(i)
    BY <1>1, <1>2, <2>2, SessionNumbers DEF IsStart
  <2>4. OpenAt(df, flagged, s, j, i)
    BY <1>4, <2>1, <2>3, StartOpen
  <2>5. ASSUME NEW k \in Rows(df), OpenAt(df, flagged, s, k, i), SameSession(df, i, k)
        PROVE  FALSE
    <3>1. k < i /\ df[k].status = "Start" /\ df[k].sess = df[i].sess /\ i \in Nat
      BY <2>5, OpenFacts, RowFacts DEF SameSession
    <3> QED
      BY <3>1, OrderFacts
  <2>6. i \in Scanned(df, s)
    BY <1>2 DEF Scanned, ConflictA
  <2> QED
    BY <1>2, <2>4, <2>5, <2>6 DEF Flagged, ConflictB
<1> QED
  BY <1>3, <1>4

\* The Start on a new card is refused only if the card was given out before and
\* the sessions on it are not apart.
LEMMA CardFlagged ==
  ASSUME InSimulation, Flagged, NEW i \in Rows(df), NEW s, df[i].sess = <<"SESS_C", s>>,
         i \in flagged
  PROVE  <<df[i].sess, df[i].status>> \in PossibleConflicts(origin)
<1> SUFFICES ASSUME <<df[i].sess, df[i].status>> \notin PossibleConflicts(origin)
             PROVE  FALSE
  OBVIOUS
<1> DEFINE m == df[i].imsi
<1>1. s \in Indices /\ IsOnCard(origin.rolls, s, df[i], TimeOf(i)) /\ df[i].status = "Start"
  BY FormOfName DEF Flagged, ConflictB
<1>2. PICK j \in Rows(df) : OpenAt(df, flagged, m, j, i)
  BY DEF Flagged, ConflictB
<1>3. /\ j < i /\ df[j].imsi = m /\ df[j].status = "Start" /\ j \in Nat /\ i \in Nat
      /\ TimeOf(j) <= TimeOf(i) /\ TimeOf(j) \in Nat /\ TimeOf(i) \in Nat
  BY <1>2, OpenFacts, RowFacts, OrderFacts
<1>4. PICK p \in Indices : df[j].sess = <<"SESS_C", p>> /\ IsOnCard(origin.rolls, p, df[j], TimeOf(j))
  <2>1. m \notin Indices
    <3>1. Pool \in Nat /\ SimTarget(origin.rolls, s) \in Nat /\ m = Pool + SimTarget(origin.rolls, s)
      BY <1>1, SessionNumbers, TargetFacts DEF IsOnCard, Subscriber
    <3>2. \A q \in Indices : q < Pool
      BY SessionNumbers DEF Subscriber
    <3> QED
      BY <3>1, <3>2
  <2>2. PICK p \in Indices :
            \/ df[j].sess = <<"SESS", p>> /\ IsStart(p, df[j], TimeOf(j))
            \/ df[j].sess = <<"SESS", p>> /\ IsStop(origin.rolls, p, df[j], TimeOf(j))
            \/ df[j].sess = <<"SESS_B", p>> /\ IsSecond(origin.rolls, p, df[j], TimeOf(j))
            \/ df[j].sess = <<"SESS_C", p>> /\ IsOnCard(origin.rolls, p, df[j], TimeOf(j))
            \/ df[j].sess = <<"SESS_D", p>> /\ IsOnDevice(origin.rolls, p, df[j], TimeOf(j))
    BY Forms
  <2>3. ~IsStop(origin.rolls, p, df[j], TimeOf(j))
    BY <1>3 DEF IsStop, AtEnd
  <2> QED
    BY <1>3, <2>1, <2>2, <2>3 DEF IsStart, IsSecond, IsOnDevice
<1>5. s # p
  BY <1>1, <1>3, <1>4, OrderFacts
<1>6. /\ origin.rolls[s] = "C" /\ origin.rolls[p] = "C"
      /\ SimTarget(origin.rolls, s) = SimTarget(origin.rolls, p)
      /\ s \in DOMAIN origin.rolls /\ p \in DOMAIN origin.rolls
  <2>1. /\ Pool \in Nat /\ SimTarget(origin.rolls, s) \in Nat /\ SimTarget(origin.rolls, p) \in Nat
    BY <1>1, <1>4, SessionNumbers, TargetFacts DEF Subscriber
  <2>2. Pool + SimTarget(origin.rolls, s) = Pool + SimTarget(origin.rolls, p)
    BY <1>1, <1>3, <1>4 DEF IsOnCard
  <2>3. s \in DOMAIN origin.rolls /\ p \in DOMAIN origin.rolls
    BY <1>1, <1>4 DEF InSimulation
  <2> QED
    BY <1>1, <1>4, <2>1, <2>2, <2>3 DEF IsOnCard
<1>7. Ends(origin, s, p) \/ Ends(origin, p, s)
  <2> SUFFICES ASSUME ~Ends(origin, s, p), ~Ends(origin, p, s)
               PROVE  <<<<"SESS_C", s>>, "Start">> \in PossibleConflicts(origin)
    BY <1>1
  <2> QED
    BY <1>5, <1>6 DEF PossibleConflicts
<1>8. ASSUME NEW a \in Indices, NEW b \in Indices, NEW x \in Rows(df), NEW y \in Rows(df),
             df[x].sess = <<"SESS_C", a>>, df[x].status = "Start",
             df[y].sess = <<"SESS_C", b>>, df[y].status = "Start", Ends(origin, a, b)
      PROVE  \E k \in Rows(df) : /\ df[k].sess = <<"SESS_C", a>> /\ df[k].status = "Stop"
                                 /\ TimeOf(x) < TimeOf(k) /\ TimeOf(k) < TimeOf(y)
  <2>1. PICK r \in Accepted(origin), q \in Accepted(origin) :
            /\ KeyOf(r) = <<<<"SESS_C", a>>, "Stop">> /\ KeyOf(q) = <<<<"SESS_C", b>>, "Start">>
            /\ r.at < q.at
    BY <1>8 DEF Ends
  <2>2. PICK k \in Rows(df) : df[k].sess = r.sess /\ df[k].status = r.status /\ TimeOf(k) = r.at
    BY RowOf
  <2>3. df[k].sess = <<"SESS_C", a>> /\ df[k].status = "Stop"
    BY <2>1, <2>2, RecordFacts
  <2>4. q.at = TimeOf(y)
    BY <1>8, <2>1, SameKeySameTime
  <2>5. TimeOf(x) < TimeOf(k)
    <3>1. SwapAt(a, df[x], TimeOf(x)) /\ SwapAt(a, df[k], TimeOf(k))
      BY <1>8, <2>3, FormOfName DEF IsOnCard
    <3> QED
      BY <1>8, <2>3, <3>1, SessionNumbers DEF SwapAt
  <2> QED
    BY <2>1, <2>2, <2>3, <2>4, <2>5
<1>9. CASE Ends(origin, s, p)
  <2>1. PICK k \in Rows(df) : TimeOf(i) < TimeOf(k) /\ TimeOf(k) < TimeOf(j)
    BY <1>1, <1>3, <1>4, <1>8, <1>9
  <2>2. TimeOf(k) \in Nat
    BY RowFacts
  <2> QED
    BY <1>3, <2>1, <2>2
<1>10. CASE Ends(origin, p, s)
  <2>1. PICK k \in Rows(df) : /\ df[k].sess = <<"SESS_C", p>> /\ df[k].status = "Stop"
                              /\ TimeOf(j) < TimeOf(k) /\ TimeOf(k) < TimeOf(i)
    BY <1>1, <1>3, <1>4, <1>8, <1>10
  <2>2. j < k /\ k < i
    BY <2>1, OrderFacts
  <2>3. df[k].imsi = m
    <3>1. IsOnCard(origin.rolls, p, df[k], TimeOf(k))
      BY <2>1, FormOfName
    <3> QED
      BY <1>3, <1>4, <3>1 DEF IsOnCard
  <2>4. ~ConflictA(df, k)
    BY <2>1, ConflictAFacts
  <2> QED
    BY <1>2, <1>4, <2>1, <2>2, <2>3, <2>4, OpenFacts
<1> QED
  BY <1>7, <1>9, <1>10

-----------------------------------------------------------------------------
\* The rows that are not clean: the expected conflicts, and some possible ones.
LEMMA UncleanRows ==
  ASSUME InSimulation, Flagged, NEW i \in Rows(df)
  PROVE  /\ <<df[i].sess, df[i].status>> \in ExpectedConflicts(origin) => i \notin CleanRows
         /\ i \notin CleanRows => <<df[i].sess, df[i].status>> \in
                                    ExpectedConflicts(origin) \cup PossibleConflicts(origin)
<1> DEFINE A == Accepted(origin)
           key == <<df[i].sess, df[i].status>>
           changed == {<<<<"SESS", s>>, "Stop">> :
                          s \in {s \in {s \in DOMAIN origin.rolls :
                                           /\ origin.rolls[s] \in {"A imsi", "A msisdn"}
                                           /\ Arrived(A, "SESS", s, "Start")} :
                                    Arrived(A, "SESS", s, "Stop")}}
           both(name) == {s \in DOMAIN origin.rolls : /\ Arrived(A, name, s, "Start")
                                                      /\ Arrived(A, "SESS", s, "Start")}
           again == {<<<<"SESS_B", s>>, "Start">> : s \in both("SESS_B")}
           device == {<<<<"SESS_D", s>>, "Start">> :
                         s \in {s \in both("SESS_D") : ~Arrived(A, "SESS", s, "Stop")}}
<1>1. ExpectedConflicts(origin) = changed \cup again \cup device
  BY DEF ExpectedConflicts
<1>2. DOMAIN origin.rolls = Indices
  BY DEF InSimulation
<1>3. i \notin CleanRows <=> ConflictA(df, i) \/ i \in flagged
  BY DEF CleanRows, Clean
<1>4. PICK s \in Indices, name \in {"SESS", "SESS_B", "SESS_C", "SESS_D"} : df[i].sess = <<name, s>>
  BY Forms
<1>5. \A q, other : df[i].sess = <<other, q>> => other = name /\ q = s
  BY <1>4
<1>6. Here(name, s, df[i].status)
  BY <1>4 DEF Here
<1>7. key \in changed <=> name = "SESS" /\ df[i].status = "Stop" /\ Mutated(s) /\ Here("SESS", s, "Start")
  BY <1>2, <1>4, <1>5, <1>6, HereArrived DEF Mutated
<1>8. ConflictA(df, i) <=> key \in changed
  BY <1>4, <1>5, <1>7, ConflictAFacts
<1>9. key \in again <=> name = "SESS_B" /\ df[i].status = "Start" /\ Here("SESS", s, "Start")
  BY <1>2, <1>4, <1>5, <1>6, HereArrived
<1>10. key \in device <=> /\ name = "SESS_D" /\ df[i].status = "Start"
                          /\ Here("SESS", s, "Start") /\ ~Here("SESS", s, "Stop")
  BY <1>2, <1>4, <1>5, <1>6, HereArrived
<1>11. i \in flagged => df[i].status = "Start"
  BY DEF Flagged, ConflictB
<1> DEFINE maybe == key \in PossibleConflicts(origin)
<1>12. /\ key \in again \/ key \in device => i \in flagged
       /\ i \in flagged => key \in again \/ key \in device \/ maybe
  <2>1. CASE name = "SESS"
    BY <1>4, <1>9, <1>10, <1>11, <2>1, StartNotFlagged
  <2>2. CASE name = "SESS_B"
    <3>1. df[i].status = "Start"
      BY <1>4, <2>2, FormOfName DEF IsSecond
    <3> QED
      BY <1>4, <1>9, <1>10, <2>2, <3>1, SecondFlagged
  <2>3. CASE name = "SESS_C"
    BY <1>4, <1>9, <1>10, <2>3, CardFlagged
  <2>4. CASE name = "SESS_D"
    BY <1>4, <1>9, <1>10, <1>11, <2>4, DeviceFlagged
  <2> QED
    BY <1>4, <2>1, <2>2, <2>3, <2>4
<1> QED
  BY <1>1, <1>3, <1>8, <1>12

LEMMA ConflictsFound ==
  ASSUME InSimulation, Flagged
  PROVE  /\ ExpectedConflicts(origin) \subseteq Conflicts
         /\ Conflicts \subseteq ExpectedConflicts(origin) \cup PossibleConflicts(origin)
<1>1. Conflicts \subseteq ExpectedConflicts(origin) \cup PossibleConflicts(origin)
  BY UncleanRows DEF Conflicts
<1>2. ASSUME NEW key \in ExpectedConflicts(origin)
      PROVE  key \in Conflicts
  <2>1. PICK name, s, status : key = <<<<name, s>>, status>> /\ Arrived(Accepted(origin), name, s, status)
    BY <1>2 DEF ExpectedConflicts
  <2>2. PICK i \in Rows(df) : df[i].sess = <<name, s>> /\ df[i].status = status
    BY <2>1, HereArrived DEF Here
  <2> QED
    BY <2>1, <2>2, UncleanRows DEF Conflicts
<1> QED
  BY <1>1, <1>2

-----------------------------------------------------------------------------
\* The records that are clean whatever is open, and those that may be; what seen
\* of SwapsSeen says of them.
SurelyClean == Without(origin, ExpectedConflicts(origin) \cup PossibleConflicts(origin))
MaybeClean == Without(origin, ExpectedConflicts(origin))
SurelySeen(name, s, r, q) ==
    r \in SurelyClean /\ q \in SurelyClean
    /\ r.sess = <<name, s>> /\ q.msisdn = r.msisdn /\ q.at < r.at
MaybeSeen(name, s, r, q) ==
    r \in MaybeClean /\ q \in MaybeClean
    /\ r.sess = <<name, s>> /\ q.msisdn = r.msisdn /\ q.at <= r.at

LEMMA SureSwaps ==
  SwapsSeen(origin, SurelyClean, After) =
    {<<"SIM_SWAP", SimTarget(origin.rolls, s)>> :
        s \in {s \in DOMAIN origin.rolls : \E r, q : SurelySeen("SESS_C", s, r, q) /\ r.imsi # q.imsi}}
    \cup
    {<<"DEVICE_SWAP", SubscriberOf(s)>> :
        s \in {s \in DOMAIN origin.rolls :
                  /\ \E r, q : SurelySeen("SESS_D", s, r, q) /\ r.imei # q.imei
                  /\ DeviceTarget(origin.rolls, s) = SubscriberOf(s)}}
<1> DEFINE seen(name, s, f) ==
        \E r, q \in SurelyClean : /\ r.sess = <<name, s>> /\ q.msisdn = r.msisdn
                                  /\ q.at < r.at /\ r[f] # q[f]
<1>1. SwapsSeen(origin, SurelyClean, After) =
        {<<"SIM_SWAP", SimTarget(origin.rolls, s)>> :
            s \in {s \in DOMAIN origin.rolls : seen("SESS_C", s, "imsi")}}
        \cup
        {<<"DEVICE_SWAP", SubscriberOf(s)>> :
            s \in {s \in DOMAIN origin.rolls : /\ seen("SESS_D", s, "imei")
                                               /\ DeviceTarget(origin.rolls, s) = SubscriberOf(s)}}
  BY DEF SwapsSeen, After
<1>2. /\ \A s : seen("SESS_C", s, "imsi") <=> \E r, q : SurelySeen("SESS_C", s, r, q) /\ r.imsi # q.imsi
      /\ \A s : seen("SESS_D", s, "imei") <=> \E r, q : SurelySeen("SESS_D", s, r, q) /\ r.imei # q.imei
  BY DEF SurelySeen
<1> HIDE DEF seen
<1> QED
  BY <1>1, <1>2

LEMMA PossibleSwaps ==
  SwapsSeen(origin, MaybeClean, NotBefore) =
    {<<"SIM_SWAP", SimTarget(origin.rolls, s)>> :
        s \in {s \in DOMAIN origin.rolls : \E r, q : MaybeSeen("SESS_C", s, r, q) /\ r.imsi # q.imsi}}
    \cup
    {<<"DEVICE_SWAP", SubscriberOf(s)>> :
        s \in {s \in DOMAIN origin.rolls :
                  /\ \E r, q : MaybeSeen("SESS_D", s, r, q) /\ r.imei # q.imei
                  /\ DeviceTarget(origin.rolls, s) = SubscriberOf(s)}}
<1> DEFINE seen(name, s, f) ==
        \E r, q \in MaybeClean : /\ r.sess = <<name, s>> /\ q.msisdn = r.msisdn
                                 /\ q.at <= r.at /\ r[f] # q[f]
<1>1. SwapsSeen(origin, MaybeClean, NotBefore) =
        {<<"SIM_SWAP", SimTarget(origin.rolls, s)>> :
            s \in {s \in DOMAIN origin.rolls : seen("SESS_C", s, "imsi")}}
        \cup
        {<<"DEVICE_SWAP", SubscriberOf(s)>> :
            s \in {s \in DOMAIN origin.rolls : /\ seen("SESS_D", s, "imei")
                                               /\ DeviceTarget(origin.rolls, s) = SubscriberOf(s)}}
  BY DEF SwapsSeen, NotBefore
<1>2. /\ \A s : seen("SESS_C", s, "imsi") <=> \E r, q : MaybeSeen("SESS_C", s, r, q) /\ r.imsi # q.imsi
      /\ \A s : seen("SESS_D", s, "imei") <=> \E r, q : MaybeSeen("SESS_D", s, r, q) /\ r.imei # q.imei
  BY DEF MaybeSeen
<1> HIDE DEF seen
<1> QED
  BY <1>1, <1>2

\* Rows and records: a clean row for each record that is surely clean, and none
\* for others than those that may be.
LEMMA CleanRowOf ==
  ASSUME InSimulation, Flagged, NEW r \in SurelyClean
  PROVE  \E i \in CleanRows : /\ i \in Rows(df) /\ df[i].sess = r.sess /\ df[i].status = r.status
                              /\ df[i].imsi = r.imsi /\ df[i].msisdn = r.msisdn
                              /\ df[i].imei = r.imei /\ TimeOf(i) = r.at
<1>1. /\ r \in Accepted(origin)
      /\ KeyOf(r) \notin ExpectedConflicts(origin) \cup PossibleConflicts(origin)
  BY DEF SurelyClean, Without
<1>2. PICK i \in Rows(df) : /\ df[i].sess = r.sess /\ df[i].status = r.status
                            /\ df[i].imsi = r.imsi /\ df[i].msisdn = r.msisdn
                            /\ df[i].imei = r.imei /\ TimeOf(i) = r.at
  BY <1>1, RowOf
<1>3. KeyOf(r) = <<df[i].sess, df[i].status>>
  BY <1>1, <1>2, RecordFacts
<1>4. i \in CleanRows
  BY <1>1, <1>3, UncleanRows
<1> QED
  BY <1>2, <1>4

LEMMA CleanRecordOf ==
  ASSUME InSimulation, Flagged, NEW i \in CleanRows
  PROVE  /\ i \in Rows(df) /\ RecordAt(i) \in MaybeClean /\ RecordAt(i).at = TimeOf(i)
         /\ df[i].sess = RecordAt(i).sess /\ df[i].msisdn = RecordAt(i).msisdn
         /\ df[i].imsi = RecordAt(i).imsi /\ df[i].imei = RecordAt(i).imei
<1>1. i \in Rows(df)
  BY DEF CleanRows, Clean
<1>2. KeyOf(RecordAt(i)) \notin ExpectedConflicts(origin)
  BY <1>1, RowFacts, UncleanRows
<1> QED
  BY <1>1, <1>2, RowFacts DEF MaybeClean, Without, TimeOf

\* What the HLR has on file for the numbers of the pool.
LEMMA SeededFacts ==
  ASSUME hlr = SeededOnFile, NEW m \in Msisdn, NEW type \in SwapType
  PROVE  LET every == IF type = "SIM_SWAP" THEN SimEvery ELSE DeviceEvery
             new == IF type = "SIM_SWAP" THEN NewCard(m) ELSE NewDevice(m)
             rows == hlr[type][m]
         IN  /\ Len(rows) \in Nat /\ DOMAIN rows = 1..Len(rows)
             /\ Len(rows) >= 2 => m \in Subscriber /\ HasSwap(m, every)
             /\ m \in Subscriber /\ HasSwap(m, every) =>
                   /\ Len(rows) = 2
                   /\ rows[1].at = 1 /\ rows[2].at = 2 /\ rows[2].value = new
<1> DEFINE every == IF type = "SIM_SWAP" THEN SimEvery ELSE DeviceEvery
           new == IF type = "SIM_SWAP" THEN NewCard(m) ELSE NewDevice(m)
           old == IF type = "SIM_SWAP" THEN m ELSE Device(m)
           rows == hlr[type][m]
<1>1. rows = (IF m \in Subscriber THEN Seeded[type][m] ELSE <<>>)
  BY DEF SeededOnFile
<1>2. m \in Subscriber =>
        Seeded[type][m] = <<[value |-> old, at |-> 1]>>
                          \o (IF HasSwap(m, every) THEN <<[value |-> new, at |-> 2]>> ELSE <<>>)
  BY DEF Seeded, SwapType
<1> HIDE DEF old, new, every
<1>3. CASE m \notin Subscriber
  <2>1. rows = <<>>
    BY <1>1, <1>3
  <2>2. Len(rows) = 0 /\ DOMAIN rows = 1..0
    BY <2>1
  <2> QED
    BY <1>3, <2>2
<1>4. CASE m \in Subscriber /\ ~HasSwap(m, every)
  <2>1. rows = <<[value |-> old, at |-> 1]>>
    BY <1>1, <1>2, <1>4
  <2>2. Len(rows) = 1 /\ DOMAIN rows = 1..1
    BY <2>1
  <2> QED
    BY <1>4, <2>2 DEF every
<1>5. CASE m \in Subscriber /\ HasSwap(m, every)
  <2>1. rows = <<[value |-> old, at |-> 1], [value |-> new, at |-> 2]>>
    BY <1>1, <1>2, <1>5
  <2>2. /\ Len(rows) = 2 /\ DOMAIN rows = 1..2
        /\ rows[1].at = 1 /\ rows[2].at = 2 /\ rows[2].value = new
    BY <2>1
  <2> QED
    BY <1>5, <2>2 DEF every, new
<1> QED
  BY <1>3, <1>4, <1>5

\* The last assignment on file of a number that has a swap.
LEMMA SeededLast ==
  ASSUME hlr = SeededOnFile, NEW m \in Msisdn, NEW type \in SwapType,
         m \in Subscriber, HasSwap(m, IF type = "SIM_SWAP" THEN SimEvery ELSE DeviceEvery)
  PROVE  /\ Len(hlr[type][m]) = 2
         /\ IsLast(hlr[type][m], DOMAIN hlr[type][m], 2)
         /\ \A i \in DOMAIN hlr[type][m] : IsLast(hlr[type][m], DOMAIN hlr[type][m], i) => i = 2
         /\ hlr[type][m][2].value = IF type = "SIM_SWAP" THEN NewCard(m) ELSE NewDevice(m)
<1> DEFINE rows == hlr[type][m]
<1>1. /\ Len(rows) = 2 /\ DOMAIN rows = 1..2 /\ rows[1].at = 1 /\ rows[2].at = 2
      /\ rows[2].value = IF type = "SIM_SWAP" THEN NewCard(m) ELSE NewDevice(m)
  BY SeededFacts
<1> HIDE DEF rows
<1>2. IsLast(rows, DOMAIN rows, 2)
  BY <1>1 DEF IsLast
<1>3. \A i \in DOMAIN rows : IsLast(rows, DOMAIN rows, i) => i = 2
  BY <1>1 DEF IsLast
<1> QED
  BY <1>1, <1>2, <1>3 DEF rows

\* The identity that the HLR has as the last one of a number of the pool is
\* carried by an added session only.
LEMMA CarriesNewCard ==
  ASSUME InSimulation, NEW i \in Rows(df), df[i].msisdn \in Nat, df[i].imsi = NewCard(df[i].msisdn)
  PROVE  \E s \in Indices : df[i].sess = <<"SESS_C", s>> /\ df[i].msisdn = SimTarget(origin.rolls, s)
<1>1. PICK s \in Indices, name \in {"SESS", "SESS_B", "SESS_C", "SESS_D"} : df[i].sess = <<name, s>>
  BY Forms
<1>2. /\ Pool \in Nat /\ Pool > 1 /\ df[i].imsi = Pool + df[i].msisdn
      /\ s \in 0..(Pool - 1) /\ Neighbour(s) \in 0..(Pool - 1)
  BY SessionNumbers DEF NewCard, Subscriber
<1>3. df[i].imsi \notin 0..(Pool - 1)
  BY <1>2
<1>4. name # "SESS"
  <2>1. ~IsStart(s, df[i], TimeOf(i))
    BY <1>2, <1>3 DEF IsStart
  <2>2. ~IsStop(origin.rolls, s, df[i], TimeOf(i))
    BY <1>2, <1>3 DEF IsStop
  <2> QED
    BY <1>1, <2>1, <2>2, FormOfName
<1>5. name # "SESS_B" /\ name # "SESS_D"
  BY <1>1, <1>2, <1>3, FormOfName DEF IsSecond, IsOnDevice
<1> QED
  BY <1>1, <1>4, <1>5, FormOfName DEF IsOnCard

LEMMA CarriesNewDevice ==
  ASSUME InSimulation, NEW i \in Rows(df), df[i].msisdn \in Nat, df[i].imei = NewDevice(df[i].msisdn)
  PROVE  \E s \in Indices : /\ df[i].sess = <<"SESS_D", s>> /\ df[i].msisdn = s
                            /\ DeviceTarget(origin.rolls, s) = s
<1>1. PICK s \in Indices, name \in {"SESS", "SESS_B", "SESS_C", "SESS_D"} : df[i].sess = <<name, s>>
  BY Forms
<1>2. df[i].imei = <<"999999", Pool + df[i].msisdn>>
  BY DEF NewDevice, Device, SwapTac
<1>3. df[i].imei # <<"TAC", s>>
  BY <1>2
<1>4. name # "SESS"
  <2>1. /\ ~IsStart(s, df[i], TimeOf(i)) /\ ~IsStop(origin.rolls, s, df[i], TimeOf(i))
    BY <1>3 DEF IsStart, IsStop, AtEnd
  <2> QED
    BY <1>1, <2>1, FormOfName
<1>5. name = "SESS_D"
  <2>1. /\ ~IsSecond(origin.rolls, s, df[i], TimeOf(i)) /\ ~IsOnCard(origin.rolls, s, df[i], TimeOf(i))
    BY <1>3 DEF IsSecond, IsOnCard
  <2> QED
    BY <1>1, <1>4, <2>1, FormOfName
<1>6. /\ df[i].msisdn = s /\ df[i].imei = <<"999999", Pool + DeviceTarget(origin.rolls, s)>>
  BY <1>1, <1>5, FormOfName DEF IsOnDevice, NewDevice, Device, SwapTac
<1>7. Pool + df[i].msisdn = Pool + DeviceTarget(origin.rolls, s)
  BY <1>2, <1>6
<1>8. Pool \in Nat /\ DeviceTarget(origin.rolls, s) \in Nat
  BY SessionNumbers, TargetFacts DEF Subscriber
<1> QED
  BY <1>1, <1>5, <1>6, <1>7, <1>8

-----------------------------------------------------------------------------
LEMMA SwapsAreInjected ==
  ASSUME InSimulation, Flagged, TypeOK, EventsAreReassignments,
         NEW e \in swapEvent, e.type \in SwapType
  PROVE  <<e.type, e.msisdn>> \in SwapsSeen(origin, MaybeClean, NotBefore)
<1> DEFINE type == e.type
           m == e.msisdn
           i == e.row
           rows == hlr[type][m]
<1>1. PICK a \in DOMAIN rows, b \in DOMAIN rows :
          /\ IsLast(rows, DOMAIN rows, a) /\ IsLast(rows, DOMAIN rows \ {a}, b)
          /\ e.new = rows[a].value
  BY DEF EventsAreReassignments
<1>2. PICK k \in CleanRows : k < i /\ df[k].msisdn = m /\ Identity(type, df[k]) # e.new
  BY DEF EventsAreReassignments
<1>3. i \in CleanRows /\ df[i].msisdn = m /\ Identity(type, df[i]) = e.new
  BY DEF EventsAreReassignments
<1>4. i \in Rows(df) /\ k \in Rows(df) /\ m \in Msisdn /\ i \in Nat /\ k \in Nat
  <2>1. i \in Rows(df) /\ k \in Rows(df)
    BY <1>2, <1>3 DEF CleanRows, Clean
  <2> QED
    BY <1>3, <2>1, RowType DEF Record
<1>5. a # b
  BY <1>1 DEF IsLast
<1> DEFINE every == IF type = "SIM_SWAP" THEN SimEvery ELSE DeviceEvery
           new == IF type = "SIM_SWAP" THEN NewCard(m) ELSE NewDevice(m)
<1>6. m \in Subscriber /\ HasSwap(m, every)
  <2>1. /\ Len(rows) \in Nat /\ DOMAIN rows = 1..Len(rows)
        /\ Len(rows) >= 2 => m \in Subscriber /\ HasSwap(m, every)
    BY <1>4, SeededFacts DEF InSimulation
  <2>2. Len(rows) >= 2
    <3> HIDE DEF rows, every
    <3> QED
      BY <1>1, <1>5, <2>1
  <2> QED
    BY <2>1, <2>2
<1>7. e.new = new
  <2>1. hlr = SeededOnFile
    BY DEF InSimulation
  <2> QED
    BY <1>1, <1>4, <1>6, <2>1, SeededLast
<1>8. /\ RecordAt(i) \in MaybeClean /\ RecordAt(k) \in MaybeClean
      /\ df[i].sess = RecordAt(i).sess
      /\ RecordAt(i).msisdn = m /\ RecordAt(k).msisdn = m
      /\ RecordAt(i).imsi = df[i].imsi /\ RecordAt(k).imsi = df[k].imsi
      /\ RecordAt(i).imei = df[i].imei /\ RecordAt(k).imei = df[k].imei
  BY <1>2, <1>3, CleanRecordOf
<1>9. RecordAt(k).at <= RecordAt(i).at
  BY <1>2, <1>4, OrderFacts DEF TimeOf
<1>10. m \in Nat
  BY <1>6, PoolAssumption DEF Subscriber
<1>11. ASSUME NEW name, NEW s, df[i].sess = <<name, s>>
       PROVE  MaybeSeen(name, s, RecordAt(i), RecordAt(k))
  BY <1>8, <1>9, <1>11 DEF MaybeSeen
<1>12. DOMAIN origin.rolls = Indices
  BY DEF InSimulation
<1>13. CASE type = "SIM_SWAP"
  <2>1. df[i].imsi = NewCard(m) /\ df[k].imsi # df[i].imsi
    BY <1>2, <1>3, <1>7, <1>13 DEF Identity
  <2>2. PICK s \in Indices : df[i].sess = <<"SESS_C", s>> /\ df[i].msisdn = SimTarget(origin.rolls, s)
    BY <1>3, <1>4, <1>10, <2>1, CarriesNewCard
  <2>3. MaybeSeen("SESS_C", s, RecordAt(i), RecordAt(k)) /\ RecordAt(i).imsi # RecordAt(k).imsi
    BY <1>8, <1>11, <2>1, <2>2
  <2> QED
    BY <1>3, <1>12, <1>13, <2>2, <2>3, PossibleSwaps
<1>14. CASE type = "DEVICE_SWAP"
  <2>1. df[i].imei = NewDevice(m) /\ df[k].imei # df[i].imei
    BY <1>2, <1>3, <1>7, <1>14 DEF Identity
  <2>2. PICK s \in Indices : /\ df[i].sess = <<"SESS_D", s>> /\ df[i].msisdn = s
                             /\ DeviceTarget(origin.rolls, s) = s
    BY <1>3, <1>4, <1>10, <2>1, CarriesNewDevice
  <2>3. MaybeSeen("SESS_D", s, RecordAt(i), RecordAt(k)) /\ RecordAt(i).imei # RecordAt(k).imei
    BY <1>8, <1>11, <2>1, <2>2
  <2>4. SubscriberOf(s) = s
    BY SessionNumbers
  <2> QED
    BY <1>3, <1>12, <1>14, <2>2, <2>3, <2>4, PossibleSwaps
<1> QED
  BY <1>13, <1>14 DEF SwapType

\* A clean record after another of its number with another identity is a swap
\* that SwapsRecorded is about.
LEMMA SeenIsWritten ==
  ASSUME InSimulation, Flagged, TypeOK, SwapsRecorded, step = "done", dropped = {},
         NEW type \in SwapType, NEW r \in SurelyClean, NEW q \in SurelyClean,
         q.msisdn = r.msisdn, q.at < r.at,
         IF type = "SIM_SWAP" THEN r.imsi # q.imsi ELSE r.imei # q.imei,
         r.msisdn \in Subscriber,
         HasSwap(r.msisdn, IF type = "SIM_SWAP" THEN SimEvery ELSE DeviceEvery),
         IF type = "SIM_SWAP" THEN r.imsi = NewCard(r.msisdn) ELSE r.imei = NewDevice(r.msisdn)
  PROVE  \E e \in swapEvent : e.type = type /\ e.msisdn = r.msisdn
<1>1. PICK j \in CleanRows : /\ j \in Rows(df) /\ df[j].imsi = r.imsi /\ df[j].msisdn = r.msisdn
                             /\ df[j].imei = r.imei /\ TimeOf(j) = r.at
  BY CleanRowOf
<1>2. PICK i \in CleanRows : /\ i \in Rows(df) /\ df[i].imsi = q.imsi /\ df[i].msisdn = q.msisdn
                             /\ df[i].imei = q.imei /\ TimeOf(i) = q.at
  BY CleanRowOf
<1>3. i < j
  BY <1>1, <1>2, OrderFacts
<1> DEFINE m == df[j].msisdn
           rows == hlr[type][m]
<1>4. m \in Msisdn /\ m = r.msisdn
  BY <1>1, RowType DEF Record
<1>5. /\ Len(rows) = 2 /\ IsLast(rows, DOMAIN rows, 2)
      /\ rows[2].value = IF type = "SIM_SWAP" THEN NewCard(m) ELSE NewDevice(m)
  <2>1. hlr = SeededOnFile
    BY DEF InSimulation
  <2> QED
    BY <1>4, <2>1, SeededLast
<1>6. rows[2].value = Identity(type, df[j]) /\ Identity(type, df[i]) # Identity(type, df[j])
  BY <1>1, <1>2, <1>4, <1>5 DEF Identity
<1>7. 2 \in DOMAIN rows
  BY <1>5 DEF IsLast
<1>8. <<type, m>> \notin dropped
  OBVIOUS
<1> HIDE DEF rows
<1>9. Len(rows) >= 2
  BY <1>5
<1>10. df[i].msisdn = df[j].msisdn
  BY <1>1, <1>2
<1> USE DEF rows
<1> QED
  BY <1>3, <1>4, <1>5, <1>6, <1>7, <1>8, <1>9, <1>10 DEF SwapsRecorded

LEMMA InjectedAreWritten ==
  ASSUME InSimulation, Flagged, TypeOK, SwapsRecorded, step = "done", dropped = {},
         NEW swap \in SwapsSeen(origin, SurelyClean, After)
  PROVE  \E e \in swapEvent : swap = <<e.type, e.msisdn>>
<1>1. DOMAIN origin.rolls = Indices
  BY DEF InSimulation
<1>2. ASSUME NEW s \in Indices, NEW r, NEW q, NEW name \in {"SESS_C", "SESS_D"}, SurelySeen(name, s, r, q)
      PROVE  /\ r \in SurelyClean /\ q \in SurelyClean /\ q.msisdn = r.msisdn /\ q.at < r.at
             /\ name = "SESS_C" => IsOnCard(origin.rolls, s, r, r.at)
             /\ name = "SESS_D" => IsOnDevice(origin.rolls, s, r, r.at)
  <2>1. r \in SurelyClean /\ q \in SurelyClean /\ q.msisdn = r.msisdn /\ q.at < r.at
    BY <1>2 DEF SurelySeen
  <2>2. PICK i \in Rows(df) : /\ df[i].sess = r.sess /\ df[i].status = r.status
                              /\ df[i].imsi = r.imsi /\ df[i].msisdn = r.msisdn
                              /\ df[i].imei = r.imei /\ TimeOf(i) = r.at
    BY <2>1, RowOf DEF SurelyClean, Without
  <2>3. df[i].sess = <<name, s>>
    BY <1>2, <2>2 DEF SurelySeen
  <2>4. /\ name = "SESS_C" => IsOnCard(origin.rolls, s, df[i], TimeOf(i))
        /\ name = "SESS_D" => IsOnDevice(origin.rolls, s, df[i], TimeOf(i))
    BY <2>3, FormOfName
  <2>5. /\ name = "SESS_C" => IsOnCard(origin.rolls, s, r, r.at)
        /\ name = "SESS_D" => IsOnDevice(origin.rolls, s, r, r.at)
    BY <2>2, <2>4 DEF IsOnCard, IsOnDevice, SwapAt
  <2> QED
    BY <2>1, <2>5
<1>3. ASSUME NEW s \in Indices, NEW r, NEW q, SurelySeen("SESS_C", s, r, q), r.imsi # q.imsi
      PROVE  \E e \in swapEvent : e.type = "SIM_SWAP" /\ e.msisdn = SimTarget(origin.rolls, s)
  <2>1. r \in SurelyClean /\ q \in SurelyClean /\ q.msisdn = r.msisdn /\ q.at < r.at
    BY <1>2, <1>3
  <2>2. r.msisdn = SimTarget(origin.rolls, s) /\ r.imsi = NewCard(r.msisdn)
    BY <1>2, <1>3 DEF IsOnCard, NewCard
  <2>3. r.msisdn \in Subscriber /\ HasSwap(r.msisdn, SimEvery)
    BY <2>2, TargetFacts, SessionNumbers
  <2> QED
    BY <1>3, <2>1, <2>2, <2>3, SeenIsWritten DEF SwapType
<1>4. ASSUME NEW s \in Indices, NEW r, NEW q, SurelySeen("SESS_D", s, r, q), r.imei # q.imei,
             DeviceTarget(origin.rolls, s) = SubscriberOf(s)
      PROVE  \E e \in swapEvent : e.type = "DEVICE_SWAP" /\ e.msisdn = SubscriberOf(s)
  <2>1. r \in SurelyClean /\ q \in SurelyClean /\ q.msisdn = r.msisdn /\ q.at < r.at
    BY <1>2, <1>4
  <2>2. SubscriberOf(s) = s /\ s \in Nat
    BY SessionNumbers
  <2>3. r.msisdn = s /\ r.imei = NewDevice(r.msisdn)
    BY <1>2, <1>4, <2>2 DEF IsOnDevice
  <2>4. r.msisdn \in Subscriber /\ HasSwap(r.msisdn, DeviceEvery)
    BY <1>4, <2>2, <2>3, TargetFacts
  <2> QED
    BY <1>4, <2>1, <2>2, <2>3, <2>4, SeenIsWritten DEF SwapType
<1>5. \/ \E s \in Indices : /\ swap = <<"SIM_SWAP", SimTarget(origin.rolls, s)>>
                            /\ \E r, q : SurelySeen("SESS_C", s, r, q) /\ r.imsi # q.imsi
      \/ \E s \in Indices : /\ swap = <<"DEVICE_SWAP", SubscriberOf(s)>>
                            /\ \E r, q : SurelySeen("SESS_D", s, r, q) /\ r.imei # q.imei
                            /\ DeviceTarget(origin.rolls, s) = SubscriberOf(s)
  BY <1>1, SureSwaps
<1> QED
  BY <1>3, <1>4, <1>5

-----------------------------------------------------------------------------
\* The batch, the HLR and the origin are those of one scenario; nothing is
\* detected before the loop is done; swap events have one of the two types.
SceneInv ==
    /\ \E scenario \in Scenario :
          df = scenario.batch /\ hlr = scenario.onFile /\ origin = scenario.origin
    /\ step # "resolve" => Done
    /\ \A e \in confirmed \cup swapEvent : e.type \in SwapType

LEMMA SceneInit == DetectInit => SceneInv
BY DEF DetectInit, SceneInv

LEMMA SceneStep == SceneInv /\ [DetectNext]_<<vars, detection>> => SceneInv'
<1> SUFFICES ASSUME SceneInv, [DetectNext]_<<vars, detection>>
             PROVE  SceneInv'
  OBVIOUS
<1>1. ASSUME UNCHANGED <<df, hlr, origin>>, step' # "resolve" => Done',
             \A e \in confirmed' \cup swapEvent' : e.type \in SwapType
      PROVE  SceneInv'
  BY <1>1 DEF SceneInv
<1>2. UNCHANGED vars /\ Done => Done'
  BY DEF vars, Done, HasRow
<1>3. ASSUME Loop
      PROVE  SceneInv'
  <2>1. df' = df
    BY <1>3 DEF Loop, Skip, Scan
  <2> QED
    BY <1>1, <1>3, <2>1 DEF Loop, detection, file, verify, SceneInv
<1>4. ASSUME Detect
      PROVE  SceneInv'
  BY <1>1, <1>2, <1>4 DEF Detect, vars, file, SceneInv
<1>5. ASSUME Answered \/ Unanswered
      PROVE  SceneInv'
  BY <1>1, <1>2, <1>5 DEF Answered, Unanswered, vars, file, SceneInv, SwapType
<1>6. ASSUME Verified
      PROVE  SceneInv'
  <2>1. \A e \in Events(step) : e.type \in SwapType
    BY <1>6 DEF Verified, Events
  <2> QED
    BY <1>1, <1>2, <1>6, <2>1 DEF Verified, NextType, vars, file, SceneInv, SwapType
<1>7. ASSUME VerifyRaises
      PROVE  SceneInv'
  BY <1>1, <1>2, <1>7 DEF VerifyRaises, vars, file, SceneInv, SwapType
<1>8. ASSUME Write \/ WriteFails
      PROVE  SceneInv'
  BY <1>1, <1>2, <1>8 DEF Write, WriteFails, vars, file, verify, SceneInv
<1>9. ASSUME ResolveRaises
      PROVE  SceneInv'
  BY <1>1, <1>2, <1>9 DEF ResolveRaises, vars, file, verify, SceneInv
<1>10. ASSUME UNCHANGED <<vars, detection>>
      PROVE  SceneInv'
  BY <1>1, <1>2, <1>10 DEF vars, detection, file, verify, SceneInv
<1> QED
  BY <1>3, <1>4, <1>5, <1>6, <1>7, <1>8, <1>9, <1>10 DEF DetectNext

LEMMA SceneInvariance == DetectSpec => []SceneInv
BY SceneInit, SceneStep, PTL DEF DetectSpec

\* For every draw of the simulator, number of sessions, durations and pool, and
\* whatever records validation rejects: when no request or write fails, a batch
\* that is got through ends with the injected conflicts and swaps that can be
\* seen, and with no others than those on a card that is given out twice and
\* those of records with the same time.
THEOREM InjectionsFound == DetectSpec => []InjectedFound
<1>1. ASSUME IInv, SceneInv, EventsAreReassignments, SwapsRecorded
      PROVE  InjectedFound
  <2> SUFFICES ASSUME step = "done", origin.by = "simulator", dropped = {}
               PROVE  /\ ExpectedConflicts(origin) \subseteq Conflicts
                      /\ Conflicts \subseteq ExpectedConflicts(origin) \cup PossibleConflicts(origin)
                      /\ SwapsSeen(origin, SurelyClean, After) \subseteq Swaps
                      /\ Swaps \subseteq SwapsSeen(origin, MaybeClean, NotBefore)
    BY DEF InjectedFound, SurelyClean, MaybeClean
  <2>1. InSimulation
    <3>1. df \in Seq(Record)
      BY <1>1 DEF IInv, TypeOK
    <3>2. PICK scenario \in Scenario :
              df = scenario.batch /\ hlr = scenario.onFile /\ origin = scenario.origin
      BY <1>1 DEF SceneInv
    <3>3. Simulated(scenario)
      BY <3>2, SimulationAssumption
    <3> QED
      BY <3>1, <3>2, <3>3 DEF Simulated, InSimulation, Indices
  <2>2. Flagged
    <3>1. Done
      BY <1>1 DEF SceneInv
    <3>2. \A m \in Imsi : cursor[m] = Len(df)
      BY <1>1, <3>1, DoneFacts
    <3> QED
      BY <1>1, <3>2, RowType DEF IInv, FlagsFollowRule, Flagged
  <2>3. TypeOK /\ \A e \in swapEvent : e.type \in SwapType
    BY <1>1 DEF IInv, SceneInv
  <2>4. Swaps \subseteq SwapsSeen(origin, MaybeClean, NotBefore)
    BY <1>1, <2>1, <2>2, <2>3, SwapsAreInjected DEF Swaps
  <2>5. SwapsSeen(origin, SurelyClean, After) \subseteq Swaps
    BY <1>1, <2>1, <2>2, <2>3, InjectedAreWritten DEF Swaps
  <2> QED
    BY <2>1, <2>2, <2>4, <2>5, ConflictsFound
<1> QED
  BY <1>1, LoopInvariance, SceneInvariance, EventsSound, SwapsComplete, PTL

=============================================================================
