--------------------------- MODULE VideoClockProofs ---------------------------
(***************************************************************************)
(* Proofs about the video clock, for every geometry of lines and frames:   *)
(* no cycle is lost, where the clock stands depends on the total alone, and*)
(* the calls together emit the timeline.                                   *)
(***************************************************************************)
EXTENDS VideoClock, FiniteSetTheorems, TLAPS

\* The type invariant is inductive.
LEMMA TimingTypes == TypeOK /\ [Next]_clockVars => TypeOK'
<1> SUFFICES ASSUME TypeOK, [Next]_clockVars PROVE TypeOK'
  OBVIOUS
<1> USE TimingAssumption
<1>1. ASSUME NEW cycles \in BlockCycles, Advance(cycles) PROVE TypeOK'
  BY <1>1 DEF Advance, Enter, TypeOK
<1>2. CASE LastPass /\ UNCHANGED <<clock, start, laps>>
  BY <1>2 DEF LastPass, TypeOK, HBlankNow
<1>3. CASE LinePass /\ laps' \in {laps, laps + 1} /\ UNCHANGED <<clock, start>>
  <2>1. /\ line' = NextLine
        /\ frame' = IF line + 1 = LinesPerFrame THEN NextFrame ELSE frame
        /\ inLine >= CyclesPerLine /\ inLine' = inLine - CyclesPerLine
        /\ hblankSent' = FALSE /\ looping' = looping
    BY <1>3 DEF LinePass
  <2>2. line' \in 0 .. LinesPerFrame - 1 /\ frame' \in 0 .. FrameWidth - 1 /\ inLine' \in Nat
    BY <2>1 DEF TypeOK, NextLine, NextFrame
  <2>3. laps' \in Nat
    BY <1>3 DEF TypeOK
  <2>4. clock' \in Nat /\ start' \in Nat
    BY <1>3 DEF TypeOK
  <2> QED BY <2>1, <2>2, <2>3, <2>4 DEF TypeOK
<1>4. CASE UNCHANGED clockVars
  BY <1>4 DEF clockVars, timing, TypeOK
<1> QED BY <1>1, <1>2, <1>3, <1>4 DEF Next, Pass, Wraps

\* The clock's state has the right types at every point of every call.
THEOREM TypeCorrect == Spec => []TypeOK
<1>1. Init => TypeOK
  <2> SUFFICES ASSUME Init PROVE TypeOK
    OBVIOUS
  <2>1. line = 0 /\ LinesPerFrame \in Nat /\ LinesPerFrame > 0
    BY TimingAssumption DEF Init, TimingInit
  <2>2. frame = 0 /\ FrameWidth \in Nat /\ FrameWidth > 0
    BY TimingAssumption DEF Init, TimingInit
  <2>3. line \in 0 .. LinesPerFrame - 1 /\ frame \in 0 .. FrameWidth - 1
    BY <2>1, <2>2
  <2>4. inLine = 0 /\ hblankSent = FALSE /\ looping = FALSE
          /\ clock = 0 /\ start = 0 /\ laps = 0
    BY DEF Init, TimingInit
  <2> QED BY <2>3, <2>4 DEF TypeOK
<1> QED BY <1>1, TimingTypes, PTL DEF Spec

\* No block length, and no number of lines crossed in one call, loses a cycle.
THEOREM CyclesConserved == Spec => []CyclesAreConserved
<1> USE TimingAssumption
<1>1. Init => CyclesAreConserved
  BY DEF Init, TimingInit, CyclesAreConserved
<1>2. TypeOK /\ CyclesAreConserved /\ [Next]_clockVars => CyclesAreConserved'
  <2> SUFFICES ASSUME TypeOK, CyclesAreConserved, [Next]_clockVars
               PROVE  CyclesAreConserved'
    OBVIOUS
  <2> DEFINE lines == (laps * FrameWidth + frame) * LinesPerFrame + line
  <2>1. lines \in Nat /\ clock = lines * CyclesPerLine + inLine
    BY DEF TypeOK, CyclesAreConserved
  <2>2. lines * CyclesPerLine \in Nat
    <3> HIDE DEF lines
    <3> QED BY <2>1
  <2>3. ASSUME NEW cycles \in BlockCycles, Advance(cycles) PROVE CyclesAreConserved'
    <3>1. lines' = lines /\ inLine' = inLine + cycles /\ clock' = clock + cycles
      BY <2>3 DEF Advance, Enter
    <3>2. clock' = lines * CyclesPerLine + inLine'
      <4> HIDE DEF lines
      <4> QED BY <2>1, <2>2, <3>1 DEF TypeOK
    <3> QED BY <3>1, <3>2 DEF CyclesAreConserved
  <2>4. CASE LastPass /\ UNCHANGED <<clock, start, laps>>
    BY <2>4 DEF LastPass, CyclesAreConserved
  <2>5. CASE LinePass /\ laps' = (IF Wraps THEN laps + 1 ELSE laps)
             /\ UNCHANGED <<clock, start>>
    <3> DEFINE f == laps * FrameWidth + frame
    <3>1. f \in Nat /\ LinesPerFrame \in Nat /\ line \in Nat
      BY DEF TypeOK
    <3>2. laps' * FrameWidth + frame' = IF line + 1 = LinesPerFrame THEN f + 1 ELSE f
      BY <2>5 DEF LinePass, NextFrame, Wraps, TypeOK
    <3>3. lines' = lines + 1
      <4> HIDE DEF f
      <4>1. \A x, c \in Nat : (x + 1) * c = x * c + c /\ x * c \in Nat
        BY SMT
      <4>2. (f + 1) * LinesPerFrame = f * LinesPerFrame + LinesPerFrame
              /\ f * LinesPerFrame \in Nat
        BY <3>1, <4>1
      <4>3. line' = NextLine
        BY <2>5 DEF LinePass
      <4>4. lines' = (IF line + 1 = LinesPerFrame THEN f + 1 ELSE f) * LinesPerFrame + line'
        BY <3>2
      <4>5. lines = f * LinesPerFrame + line
        BY DEF f
      <4> HIDE DEF lines
      <4>6. CASE line + 1 = LinesPerFrame
        BY <3>1, <4>2, <4>3, <4>4, <4>5, <4>6 DEF NextLine
      <4>7. CASE line + 1 # LinesPerFrame
        BY <3>1, <4>2, <4>3, <4>4, <4>5, <4>7 DEF NextLine
      <4> QED BY <4>6, <4>7
    <3>4. clock' = lines' * CyclesPerLine + inLine'
      <4>1. inLine' = inLine - CyclesPerLine /\ clock' = clock
        BY <2>5 DEF LinePass
      <4>2. inLine \in Nat /\ CyclesPerLine \in Nat
        BY DEF TypeOK
      <4>3. \A x, c \in Nat : (x + 1) * c = x * c + c
        BY SMT
      <4> HIDE DEF lines
      <4>4. (lines + 1) * CyclesPerLine = lines * CyclesPerLine + CyclesPerLine
        BY <2>1, <4>2, <4>3
      <4> QED BY <2>1, <2>2, <3>3, <4>1, <4>2, <4>4
    <3> QED BY <3>4 DEF CyclesAreConserved
  <2>6. CASE UNCHANGED clockVars
    BY <2>6 DEF clockVars, timing, CyclesAreConserved
  <2> QED BY <2>3, <2>4, <2>5, <2>6 DEF Next, Pass
<1> QED BY <1>1, <1>2, TypeCorrect, PTL DEF Spec

\* The HBlank of a line is announced exactly once, whatever the block lengths.
THEOREM HBlankExact == Spec => []HBlankFlagIsExact
<1> USE TimingAssumption
<1>1. Init => HBlankFlagIsExact
  BY DEF Init, TimingInit, HBlankFlagIsExact
<1>2. TypeOK /\ HBlankFlagIsExact /\ [Next]_clockVars => HBlankFlagIsExact'
  <2> SUFFICES ASSUME TypeOK, HBlankFlagIsExact, [Next]_clockVars
               PROVE  HBlankFlagIsExact'
    OBVIOUS
  <2>1. ASSUME NEW cycles \in BlockCycles, Advance(cycles) PROVE HBlankFlagIsExact'
    BY <2>1 DEF Advance, Enter, TypeOK, HBlankFlagIsExact
  <2>2. CASE LastPass /\ UNCHANGED <<clock, start, laps>>
    BY <2>2 DEF LastPass, HBlankNow, TypeOK, HBlankFlagIsExact
  <2>3. CASE LinePass /\ UNCHANGED <<clock, start>>
    BY <2>3 DEF LinePass, HBlankFlagIsExact
  <2>4. CASE UNCHANGED clockVars
    BY <2>4 DEF clockVars, timing, HBlankFlagIsExact
  <2> QED BY <2>1, <2>2, <2>3, <2>4 DEF Next, Pass
<1> QED BY <1>1, <1>2, TypeCorrect, PTL DEF Spec

\* Quotient and remainder are determined by their equation.
LEMMA DivMod ==
    ASSUME NEW d \in Nat \ {0}, NEW q \in Nat, NEW r \in Nat, r < d,
           NEW x \in Nat, x = q * d + r
    PROVE  x \div d = q /\ x % d = r
<1>1. x \div d = q
  BY SMT
<1>2. x = d * (x \div d) + (x % d) /\ x % d \in Nat
  BY SMT
<1> DEFINE k == q * d
           z == x % d
<1>3. d * q = k /\ k \in Nat
  BY SMT
<1>4. z \in Nat /\ x = k + r /\ x = k + z
  BY <1>1, <1>2, <1>3
<1> HIDE DEF k, z
<1>5. z = r
  BY <1>3, <1>4
<1> QED BY <1>1, <1>5 DEF z

\* Two machines given the same cycles in different batches stand at the same
\* line, frame and cycle.
THEOREM PositionIsTotal == Spec => []PositionFollowsClock
<1> USE TimingAssumption
<1>1. TypeOK /\ CyclesAreConserved /\ HBlankFlagIsExact => PositionFollowsClock
  <2> SUFFICES ASSUME TypeOK, CyclesAreConserved, HBlankFlagIsExact, ~looping
               PROVE  /\ line = LineAt(clock)
                      /\ frame = FrameAt(clock)
                      /\ inLine = clock % CyclesPerLine
    BY DEF PositionFollowsClock
  <2> DEFINE f == laps * FrameWidth + frame
             lines == f * LinesPerFrame + line
  <2>1. f \in Nat /\ lines \in Nat /\ inLine \in Nat /\ inLine < CyclesPerLine /\ clock \in Nat
    BY DEF TypeOK, HBlankFlagIsExact
  <2>2. clock = lines * CyclesPerLine + inLine
    BY DEF CyclesAreConserved
  <2>3. f \div FrameWidth = laps /\ f % FrameWidth = frame
    BY <2>1, DivMod DEF TypeOK
  <2> HIDE DEF f
  <2>4. lines \div LinesPerFrame = f /\ lines % LinesPerFrame = line
    BY <2>1, DivMod DEF TypeOK
  <2> HIDE DEF lines
  <2>5. clock \div CyclesPerLine = lines /\ clock % CyclesPerLine = inLine
    BY <2>1, <2>2, DivMod
  <2> QED BY <2>3, <2>4, <2>5 DEF LineAt, FrameAt
<1> QED BY <1>1, TypeCorrect, CyclesConserved, HBlankExact, PTL

-----------------------------------------------------------------------------
(* The timeline, one stretch after another. *)

\* Two sequences joined.
LEMMA Joined ==
    ASSUME NEW S, NEW s \in Seq(S), NEW t \in Seq(S)
    PROVE  s \o t \in Seq(S) /\ Len(s \o t) = Len(s) + Len(t)
OBVIOUS

\* A cycle has up to three events.
LEMMA EventsType ==
    ASSUME NEW t \in Nat
    PROVE  EventsAt(t) \in Seq(VideoEvents) /\ Len(EventsAt(t)) \in 0 .. 3
<1> USE TimingAssumption
<1>1. LineAt(t) \in 0 .. LinesPerFrame - 1
  <2>1. t \div CyclesPerLine \in Nat
    BY SMT
  <2> QED BY <2>1 DEF LineAt
<1>2. \A l \in 0 .. LinesPerFrame - 1 :
         Event("HBlankIn", l) \in VideoEvents /\ Event("LineStart", l) \in VideoEvents
  BY DEF VideoEvents
<1>3. Event("VBlankIn", 0) \in VideoEvents /\ Event("VBlankOut", 0) \in VideoEvents
  BY DEF VideoEvents
<1> DEFINE h == <<Event("HBlankIn", LineAt(t))>>
           v == IF LineAt(t) = ActiveLines THEN <<Event("VBlankIn", 0)>> ELSE <<>>
           w == IF LineAt(t) = 0 THEN <<Event("VBlankOut", 0)>> ELSE <<>>
           l == <<Event("LineStart", LineAt(t))>>
<1>4. /\ h \in Seq(VideoEvents) /\ Len(h) = 1
      /\ v \in Seq(VideoEvents) /\ Len(v) \in 0 .. 1
      /\ w \in Seq(VideoEvents) /\ Len(w) \in 0 .. 1
      /\ l \in Seq(VideoEvents) /\ Len(l) = 1
  BY <1>1, <1>2, <1>3
<1>5. EventsAt(t) \in {h, v \o w \o l, <<>>}
  BY DEF EventsAt
<1> HIDE DEF h, v, w, l
<1>6. v \o w \o l \in Seq(VideoEvents) /\ Len(v \o w \o l) \in 0 .. 3
  <2>1. \A m, n \in 0 .. 1 : m + n \in Nat /\ m + n + 1 \in 0 .. 3
    OBVIOUS
  <2>2. v \o w \in Seq(VideoEvents) /\ Len(v \o w) = Len(v) + Len(w)
    BY <1>4, Joined
  <2>3. /\ (v \o w) \o l \in Seq(VideoEvents)
        /\ Len((v \o w) \o l) = Len(v \o w) + Len(l)
    BY <1>4, <2>2, Joined
  <2>4. Len((v \o w) \o l) = Len(v) + Len(w) + 1
    BY <1>4, <2>2, <2>3, Zenon
  <2> QED BY <1>4, <2>1, <2>3, <2>4, Zenon
<1>7. <<>> \in Seq(VideoEvents) /\ Len(<<>>) = 0
  OBVIOUS
<1>8. CASE EventsAt(t) = h
  BY <1>4, <1>8
<1>9. CASE EventsAt(t) = v \o w \o l
  BY <1>6, <1>9
<1>10. CASE EventsAt(t) = <<>>
  BY <1>7, <1>10
<1> QED BY <1>5, <1>8, <1>9, <1>10

\* The marks of a stretch are finitely many.
LEMMA MarksFinite ==
    ASSUME NEW a \in Nat, NEW b \in Nat
    PROVE  IsFiniteSet(Marks(a, b))
<1> DEFINE X == a + 1 .. b
           Y == 1 .. 3
<1>1. a + 1 \in Int /\ b \in Int /\ 1 \in Int /\ 3 \in Int
  OBVIOUS
<1>2. IsFiniteSet(X) /\ IsFiniteSet(Y)
  BY <1>1, FS_Interval
<1>3. Marks(a, b) \subseteq X \X Y
  BY DEF Marks
<1> HIDE DEF X, Y
<1>4. IsFiniteSet(X \X Y)
  BY <1>2, FS_Product
<1> QED BY <1>3, <1>4, FS_Subset

\* Those of one more cycle are as many more as the cycle has events.
LEMMA CountOne ==
    ASSUME NEW a \in Nat, NEW b \in Nat, a <= b
    PROVE  /\ Count(a, b) \in Nat
           /\ Count(a, b + 1) = Count(a, b) + Len(EventsAt(b + 1))
<1> DEFINE n == Len(EventsAt(b + 1))
           S == Marks(a, b)
           T == {b + 1} \X (1 .. n)
<1>1. IsFiniteSet(Marks(a, b))
  BY MarksFinite
<1>2. n \in 0 .. 3
  BY EventsType
<1>3. IsFiniteSet(T) /\ Cardinality(T) = n
  <2>1. Cardinality({b + 1}) = 1 /\ IsFiniteSet({b + 1})
    BY FS_Singleton
  <2>2. IsFiniteSet(1 .. n) /\ Cardinality(1 .. n) = n
    <3> HIDE DEF n
    <3>1. n \in Nat /\ n \in Int /\ 1 \in Int
      BY <1>2
    <3>2. IsFiniteSet(1 .. n) /\ Cardinality(1 .. n) = IF 1 > n THEN 0 ELSE n - 1 + 1
      BY <3>1, FS_Interval
    <3> QED BY <3>1, <3>2
  <2>3. IsFiniteSet(T) /\ Cardinality(T) = 1 * n
    <3> DEFINE X == {b + 1}
               Y == 1 .. n
    <3>1. /\ IsFiniteSet(X) /\ IsFiniteSet(Y)
          /\ Cardinality(X) = 1 /\ Cardinality(Y) = n
      BY <2>1, <2>2
    <3> HIDE DEF X, Y, n
    <3>2. IsFiniteSet(X \X Y) /\ Cardinality(X \X Y) = Cardinality(X) * Cardinality(Y)
      BY <3>1, FS_Product
    <3>3. IsFiniteSet(X \X Y) /\ Cardinality(X \X Y) = 1 * n
      BY <3>1, <3>2
    <3> QED BY <3>3 DEF X, Y, n
  <2> HIDE DEF T, n
  <2> QED BY <2>3, <1>2
<1>4. Marks(a, b + 1) = S \cup T
  <2>1. a + 1 .. b + 1 = (a + 1 .. b) \cup {b + 1} /\ b + 1 \notin a + 1 .. b
    OBVIOUS
  <2>2. \A j \in 1 .. 3 : j <= n <=> j \in 1 .. n
    <3> HIDE DEF n
    <3> QED BY <1>2
  <2>3. 1 .. n \subseteq 1 .. 3
    <3> HIDE DEF n
    <3> QED BY <1>2
  <2>4. ASSUME NEW m PROVE m \in Marks(a, b + 1) <=> m \in S \/ m \in T
    <3>1. m \in S <=> m \in (a + 1 .. b) \X (1 .. 3) /\ m[2] <= Len(EventsAt(m[1]))
      BY DEF Marks
    <3>2. m \in Marks(a, b + 1) <=>
             m \in (a + 1 .. b + 1) \X (1 .. 3) /\ m[2] <= Len(EventsAt(m[1]))
      BY DEF Marks
    <3>3. CASE m \in {b + 1} \X (1 .. 3)
      BY <2>1, <2>2, <2>3, <3>1, <3>2, <3>3
    <3>4. CASE m \notin {b + 1} \X (1 .. 3)
      BY <2>1, <2>3, <3>1, <3>2, <3>4
    <3> QED BY <3>3, <3>4
  <2> QED BY <2>4
<1>5. S \cap T = {}
  BY DEF Marks
<1> HIDE DEF S, T
<1>6. Cardinality(S \cup T) = Cardinality(S) + Cardinality(T)
  <2>1. IsFiniteSet(S)
    BY <1>1 DEF S
  <2>2. Cardinality(S \cup T) = Cardinality(S) + Cardinality(T) - Cardinality(S \cap T)
    BY <2>1, <1>3, FS_Union
  <2>3. Cardinality(S \cap T) = 0
    BY <1>5, FS_EmptySet
  <2>4. Cardinality(S) \in Nat /\ Cardinality(T) \in Nat
    BY <2>1, <1>3, FS_CardinalityType
  <2> QED BY <2>2, <2>3, <2>4
<1>7. Cardinality(Marks(a, b)) \in Nat
  BY <1>1, FS_CardinalityType
<1> QED BY <1>3, <1>4, <1>6, <1>7 DEF Count, S

\* A longer stretch has no fewer events.
LEMMA CountGrows ==
    ASSUME NEW a \in Nat, NEW b \in Nat, NEW c \in Nat, b <= c
    PROVE  Count(a, b) <= Count(a, c)
<1>1. Marks(a, b) \subseteq Marks(a, c)
  BY DEF Marks
<1>2. IsFiniteSet(Marks(a, c))
  BY MarksFinite
<1> QED BY <1>1, <1>2, FS_Subset DEF Count

\* Nothing happens in a stretch without cycles.
LEMMA EmptyTimeline ==
    ASSUME NEW a \in Nat
    PROVE  IsTimeline(<<>>, a, a)
<1>1. Marks(a, a) = {}
  BY DEF Marks
<1>2. Count(a, a) = 0
  BY <1>1, FS_EmptySet DEF Count
<1> QED BY <1>2 DEF IsTimeline

\* One more cycle appends its events.
LEMMA LongerTimeline ==
    ASSUME NEW a \in Nat, NEW b \in Nat, a <= b,
           NEW s \in Seq(VideoEvents), IsTimeline(s, a, b)
    PROVE  /\ s \o EventsAt(b + 1) \in Seq(VideoEvents)
           /\ IsTimeline(s \o EventsAt(b + 1), a, b + 1)
<1> DEFINE e == EventsAt(b + 1)
           r == s \o e
<1>1. e \in Seq(VideoEvents)
  BY EventsType
<1>2. /\ Count(a, b) \in Nat /\ Len(s) = Count(a, b)
      /\ Count(a, b + 1) = Count(a, b) + Len(e)
  BY CountOne DEF IsTimeline
<1>3. /\ r \in Seq(VideoEvents) /\ Len(r) = Len(s) + Len(e) /\ Len(e) \in Nat
      /\ \A i \in 1 .. Len(s) : r[i] = s[i]
      /\ \A i \in 1 .. Len(e) : r[Len(s) + i] = e[i]
  <2> HIDE DEF e
  <2> QED BY <1>1
<1>4. ASSUME NEW t \in a + 1 .. b + 1, NEW j \in 1 .. Len(EventsAt(t))
      PROVE  r[Count(a, t - 1) + j] = EventsAt(t)[j]
  <2>1. CASE t = b + 1
    <3>1. Count(a, t - 1) = Len(s)
      BY <1>2, <2>1
    <3> QED BY <1>3, <2>1, <3>1
  <2>2. CASE t # b + 1
    <3>1. t \in a + 1 .. b /\ t \in Nat /\ t - 1 \in Nat /\ a <= t - 1
      BY <2>2
    <3>2. Count(a, t - 1) \in Nat /\ Count(a, t) = Count(a, t - 1) + Len(EventsAt(t))
      <4>1. (t - 1) + 1 = t
        BY <3>1
      <4> QED BY <3>1, <4>1, CountOne
    <3>3. Count(a, t) <= Count(a, b)
      BY <3>1, CountGrows
    <3>4. Len(EventsAt(t)) \in Nat
      BY <3>1, EventsType
    <3>5. Count(a, t - 1) + j \in 1 .. Len(s)
      BY <1>2, <3>2, <3>3, <3>4
    <3>6. s[Count(a, t - 1) + j] = EventsAt(t)[j]
      BY <3>1 DEF IsTimeline
    <3> QED BY <1>3, <3>5, <3>6
  <2> QED BY <2>1, <2>2
<1>5. Len(r) = Count(a, b + 1)
  BY <1>2, <1>3
<1> HIDE DEF r
<1>6. IsTimeline(r, a, b + 1)
  BY <1>4, <1>5 DEF IsTimeline
<1> QED BY <1>3, <1>6 DEF r

\* Cycles without events change nothing.
LEMMA QuietTimeline ==
    ASSUME NEW a \in Nat, NEW b \in Nat, NEW c \in Nat, a <= b, b <= c, NEW s,
           IsTimeline(s, a, b),
           \A t \in b + 1 .. c : EventsAt(t) = <<>>
    PROVE  IsTimeline(s, a, c)
<1>1. \A t \in b + 1 .. c : Len(EventsAt(t)) = 0
  OBVIOUS
<1>2. Marks(a, c) = Marks(a, b)
  BY <1>1 DEF Marks
<1>3. \A t \in a + 1 .. c : t \in a + 1 .. b \/ t \in b + 1 .. c
  OBVIOUS
<1> QED BY <1>1, <1>2, <1>3 DEF IsTimeline, Count

-----------------------------------------------------------------------------
(* The loop emits the timeline. *)

\* The cycle at which the line began that the loop is at.
LineStart == clock - inLine

\* Up to where the events of a call in progress are complete: where the call
\* began, or the start of the line the loop is at.
Reached == IF start < LineStart THEN LineStart ELSE start

\* What makes the timeline inductive: the part of it that is out already.
EmitsSoFar ==
    /\ out \in Seq(VideoEvents)
    /\ start <= clock
    /\ looping => /\ IsTimeline(out, start, Reached)
                  /\ Reached - LineStart < CyclesPerLine
                  /\ hblankSent <=> Reached - LineStart >= HBlankStart

\* The cycles of the line in progress, by absolute time.
LEMMA ThisLine ==
    ASSUME TypeOK, CyclesAreConserved
    PROVE  /\ LineStart \in Nat
           /\ \A c \in LineStart .. LineStart + CyclesPerLine - 1 :
                 c \in Nat /\ c % CyclesPerLine = c - LineStart /\ LineAt(c) = line
           /\ (LineStart + CyclesPerLine) % CyclesPerLine = 0
           /\ LineAt(LineStart + CyclesPerLine) = NextLine
<1> USE TimingAssumption
<1> DEFINE f == laps * FrameWidth + frame
           lines == f * LinesPerFrame + line
<1>1. f \in Nat /\ line \in Nat /\ line < LinesPerFrame
  BY DEF TypeOK
<1>2. lines \in Nat /\ clock = lines * CyclesPerLine + inLine
  BY <1>1 DEF CyclesAreConserved
<1>3. \A x, c \in Nat : (x + 1) * c = x * c + c /\ x * c \in Nat
  BY SMT
<1>4. lines % LinesPerFrame = line
  <2> HIDE DEF f
  <2> QED BY <1>1, <1>2, DivMod
<1>5. (lines + 1) % LinesPerFrame = NextLine
  <2> HIDE DEF f
  <2>1. CASE line + 1 = LinesPerFrame
    <3>1. (f + 1) * LinesPerFrame = f * LinesPerFrame + LinesPerFrame /\ f * LinesPerFrame \in Nat
      BY <1>1, <1>3
    <3>2. lines + 1 = (f + 1) * LinesPerFrame + 0
      BY <1>1, <2>1, <3>1
    <3>3. f + 1 \in Nat /\ lines + 1 \in Nat /\ 0 \in Nat /\ 0 < LinesPerFrame
      BY <1>1, <1>2
    <3> HIDE DEF lines
    <3>4. (lines + 1) % LinesPerFrame = 0
      BY <3>2, <3>3, DivMod
    <3> QED BY <2>1, <3>4 DEF NextLine
  <2>2. CASE line + 1 # LinesPerFrame
    <3>1. f * LinesPerFrame \in Nat
      BY <1>1, <1>3
    <3>2. lines + 1 = f * LinesPerFrame + (line + 1)
      BY <1>1, <3>1
    <3>3. lines + 1 \in Nat /\ line + 1 \in Nat /\ line + 1 < LinesPerFrame
      BY <1>1, <1>2, <2>2
    <3> DEFINE x == lines + 1
               r == line + 1
    <3>4. f \in Nat /\ x \in Nat /\ r \in Nat /\ r < LinesPerFrame /\ x = f * LinesPerFrame + r
      BY <1>1, <3>2, <3>3
    <3> HIDE DEF lines, x, r
    <3>5. x % LinesPerFrame = r
      BY <3>4, DivMod
    <3>6. (lines + 1) % LinesPerFrame = line + 1
      BY <3>5 DEF x, r
    <3> QED BY <2>2, <3>6 DEF NextLine
  <2> QED BY <2>1, <2>2
<1> HIDE DEF f, lines
<1>6. LineStart = lines * CyclesPerLine /\ LineStart \in Nat
  <2>1. lines * CyclesPerLine \in Nat
    BY <1>2, <1>3
  <2> QED BY <1>2, <2>1 DEF LineStart, TypeOK
<1>7. ASSUME NEW c \in LineStart .. LineStart + CyclesPerLine - 1
      PROVE  c \in Nat /\ c % CyclesPerLine = c - LineStart /\ LineAt(c) = line
  <2>1. /\ c \in Nat /\ c - LineStart \in Nat /\ c - LineStart < CyclesPerLine
        /\ c = lines * CyclesPerLine + (c - LineStart)
    BY <1>6
  <2>2. c \div CyclesPerLine = lines /\ c % CyclesPerLine = c - LineStart
    <3> DEFINE r == c - LineStart
    <3>1. /\ CyclesPerLine \in Nat \ {0} /\ lines \in Nat /\ r \in Nat /\ r < CyclesPerLine
          /\ c \in Nat /\ c = lines * CyclesPerLine + r
      BY <1>2, <2>1
    <3> HIDE DEF r
    <3>2. c \div CyclesPerLine = lines /\ c % CyclesPerLine = r
      BY ONLY <3>1, DivMod
    <3> QED BY <3>2 DEF r
  <2> QED BY <1>4, <2>1, <2>2 DEF LineAt
<1>8. LET c == LineStart + CyclesPerLine
      IN  c % CyclesPerLine = 0 /\ LineAt(c) = NextLine
  <2> DEFINE c == LineStart + CyclesPerLine
  <2>1. (lines + 1) * CyclesPerLine = lines * CyclesPerLine + CyclesPerLine
    BY <1>2, <1>3
  <2>2. c \in Nat /\ c = (lines + 1) * CyclesPerLine + 0 /\ lines + 1 \in Nat
    BY <1>2, <1>6, <2>1
  <2> HIDE DEF c
  <2>3. c \div CyclesPerLine = lines + 1 /\ c % CyclesPerLine = 0
    BY <2>2, DivMod
  <2> QED BY <1>5, <2>3 DEF LineAt, c
<1> QED BY <1>6, <1>7, <1>8

\* Going on within the line: the only event that can come is the HBlank, and a
\* pass that finds it due emits it.
LEMMA UpTo ==
    ASSUME TypeOK, CyclesAreConserved, EmitsSoFar, looping, NEW c \in Nat,
           Reached <= c, c < LineStart + CyclesPerLine,
           c <= clock, inLine >= HBlankStart => c >= LineStart + HBlankStart
    PROVE  /\ out \o HBlankEvents \in Seq(VideoEvents)
           /\ IsTimeline(out \o HBlankEvents, start, c)
<1> USE TimingAssumption
<1> DEFINE h == LineStart + HBlankStart
<1>1. /\ LineStart \in Nat /\ start \in Nat /\ Reached \in Nat /\ start <= Reached
      /\ LineStart <= Reached /\ h \in Nat /\ h < LineStart + CyclesPerLine
      /\ clock \in Nat /\ inLine \in Nat /\ clock = LineStart + inLine
  BY ThisLine DEF TypeOK, Reached, LineStart
<1>2. \A t \in LineStart + 1 .. LineStart + CyclesPerLine - 1 :
         EventsAt(t) = IF t = h /\ line < ActiveLines THEN <<Event("HBlankIn", line)>> ELSE <<>>
  <2> SUFFICES ASSUME NEW t \in LineStart + 1 .. LineStart + CyclesPerLine - 1
               PROVE  EventsAt(t) = IF t = h /\ line < ActiveLines
                                    THEN <<Event("HBlankIn", line)>> ELSE <<>>
    OBVIOUS
  <2>1. t % CyclesPerLine = t - LineStart /\ LineAt(t) = line
    BY <1>1, ThisLine
  <2>2. t - LineStart # 0 /\ (t - LineStart = HBlankStart <=> t = h)
    BY <1>1
  <2> QED BY <2>1, <2>2 DEF EventsAt
<1>3. out \in Seq(VideoEvents) /\ IsTimeline(out, start, Reached)
      /\ (hblankSent <=> Reached >= h)
  BY <1>1 DEF EmitsSoFar
<1> HIDE DEF h
<1>4. CASE HBlankNow
  <2>1. Reached < h /\ h <= c
    BY <1>1, <1>3, <1>4 DEF HBlankNow, h
  <2>2. IsTimeline(out, start, h - 1)
    <3>1. h - 1 \in Nat /\ Reached <= h - 1
      BY <1>1, <2>1
    <3>2. \A t \in Reached + 1 .. h - 1 : EventsAt(t) = <<>>
      BY <1>1, <1>2
    <3> QED BY <1>1, <1>3, <3>1, <3>2, QuietTimeline
  <2>3. EventsAt(h) = HBlankEvents
    <3>1. h \in LineStart + 1 .. LineStart + CyclesPerLine - 1
      BY <1>1, <2>1
    <3> QED BY <1>2, <1>4, <3>1 DEF HBlankEvents
  <2>4. out \o HBlankEvents \in Seq(VideoEvents) /\ IsTimeline(out \o HBlankEvents, start, h)
    <3>1. h - 1 \in Nat /\ start <= h - 1 /\ (h - 1) + 1 = h
      BY <1>1, <2>1
    <3> QED BY <1>1, <1>3, <2>2, <2>3, <3>1, LongerTimeline
  <2>5. \A t \in h + 1 .. c : EventsAt(t) = <<>>
    BY <1>1, <1>2, <2>1
  <2>6. start <= h
    BY <1>1, <2>1
  <2> QED BY <1>1, <2>1, <2>4, <2>5, <2>6, QuietTimeline
<1>5. CASE ~HBlankNow
  <2>1. HBlankEvents = <<>>
    BY <1>5 DEF HBlankEvents
  <2>2. out \o HBlankEvents = out
    BY <1>3, <2>1
  <2>3. h <= Reached \/ c < h
    BY <1>1, <1>3, <1>5 DEF HBlankNow, h
  <2>4. \A t \in Reached + 1 .. c : EventsAt(t) = <<>>
    BY <1>1, <1>2, <2>3
  <2> QED BY <1>1, <1>3, <2>2, <2>4, QuietTimeline
<1> QED BY <1>4, <1>5

\* What finishing a line emits stands in the timeline at the start of the next.
LEMMA NextLineStarts ==
    ASSUME TypeOK, CyclesAreConserved
    PROVE  EventsAt(LineStart + CyclesPerLine) = LineEvents
<1> USE TimingAssumption
<1> DEFINE c == LineStart + CyclesPerLine
<1>1. c % CyclesPerLine = 0 /\ LineAt(c) = NextLine
  BY ThisLine
<1> HIDE DEF c
<1>2. NextLine = ActiveLines <=> line + 1 = ActiveLines
  BY DEF NextLine, TypeOK
<1>3. NextLine = 0 <=> line + 1 = LinesPerFrame
  BY DEF NextLine, TypeOK
<1>4. 0 # HBlankStart
  OBVIOUS
<1>5. EventsAt(c) = (IF NextLine = ActiveLines THEN <<Event("VBlankIn", 0)>> ELSE <<>>)
                       \o (IF NextLine = 0 THEN <<Event("VBlankOut", 0)>> ELSE <<>>)
                       \o <<Event("LineStart", NextLine)>>
  BY <1>1, <1>4, Zenon DEF EventsAt
<1> QED BY <1>2, <1>3, <1>5, Zenon DEF LineEvents, c

\* Every call emits its stretch of the timeline, whatever the batches.
THEOREM TimelineEmitted == Spec => []EmitsTheTimeline
<1> USE TimingAssumption
<1> DEFINE Inv == EmitsSoFar /\ EmitsTheTimeline
<1>1. Init => Inv
  <2> SUFFICES ASSUME Init PROVE Inv
    OBVIOUS
  <2>1. out = <<>> /\ start = 0 /\ clock = 0 /\ looping = FALSE
    BY DEF Init, TimingInit
  <2>2. IsTimeline(<<>>, 0, 0)
    BY EmptyTimeline
  <2>3. <<>> \in Seq(VideoEvents)
    OBVIOUS
  <2> QED BY <2>1, <2>2, <2>3 DEF EmitsSoFar, EmitsTheTimeline
<1>2. TypeOK /\ CyclesAreConserved /\ HBlankFlagIsExact /\ Inv /\ [Next]_clockVars => Inv'
  <2> SUFFICES ASSUME TypeOK, CyclesAreConserved, HBlankFlagIsExact, Inv, [Next]_clockVars
               PROVE  Inv'
    OBVIOUS
  <2>1. ASSUME NEW cycles \in BlockCycles, Advance(cycles) PROVE Inv'
    <3>1. /\ out' = <<>> /\ start' = clock /\ clock' = clock + cycles /\ looping' = TRUE
          /\ inLine' = inLine + cycles /\ hblankSent' = hblankSent /\ ~looping
      BY <2>1 DEF Advance, Enter
    <3>2. cycles \in Nat /\ clock \in Nat /\ inLine \in Nat /\ inLine < CyclesPerLine
          /\ (hblankSent <=> inLine >= HBlankStart)
      BY <3>1 DEF TypeOK, HBlankFlagIsExact
    <3>3. LineStart' = clock - inLine /\ Reached' = clock
      BY <3>1, <3>2 DEF LineStart, Reached
    <3>4. IsTimeline(<<>>, clock, clock)
      BY <3>2, EmptyTimeline
    <3>5. IsTimeline(out, start, Reached)' <=> IsTimeline(<<>>, clock, clock)
      BY <3>1, <3>3 DEF IsTimeline, Count, Marks, EventsAt, LineAt
    <3>6. <<>> \in Seq(VideoEvents)
      OBVIOUS
    <3>7. (Reached - LineStart)' = inLine
      BY <3>2, <3>3
    <3>8. EmitsSoFar'
      BY <3>1, <3>2, <3>4, <3>5, <3>6, <3>7 DEF EmitsSoFar, VideoEvents, Event
    <3> QED BY <3>1, <3>8 DEF EmitsTheTimeline
  <2>2. CASE LastPass /\ UNCHANGED <<clock, start, laps>>
    <3>1. /\ out' = out \o HBlankEvents /\ start' = start /\ clock' = clock
          /\ looping' = FALSE /\ looping /\ inLine < CyclesPerLine
      BY <2>2 DEF LastPass
    <3>2. /\ clock \in Nat /\ inLine \in Nat /\ start \in Nat /\ LineStart \in Nat
          /\ clock = LineStart + inLine /\ Reached <= clock /\ start <= clock
      BY ThisLine DEF TypeOK, LineStart, Reached, EmitsSoFar
    <3>3. /\ out \o HBlankEvents \in Seq(VideoEvents)
          /\ IsTimeline(out \o HBlankEvents, start, clock)
      BY <3>1, <3>2, UpTo
    <3>4. IsTimeline(out, start, clock)' <=> IsTimeline(out \o HBlankEvents, start, clock)
      BY <3>1 DEF IsTimeline, Count, Marks, EventsAt, LineAt
    <3> QED BY <3>1, <3>2, <3>3, <3>4 DEF EmitsSoFar, EmitsTheTimeline, VideoEvents, Event
  <2>3. CASE LinePass /\ UNCHANGED <<clock, start>>
    <3> DEFINE e == out \o HBlankEvents
               n == LineStart + CyclesPerLine
    <3>1. /\ out' = out \o HBlankEvents \o LineEvents /\ start' = start /\ clock' = clock
          /\ looping' = TRUE /\ looping /\ inLine >= CyclesPerLine
          /\ inLine' = inLine - CyclesPerLine /\ hblankSent' = FALSE
      BY <2>3 DEF LinePass, TypeOK
    <3>2. /\ clock \in Nat /\ inLine \in Nat /\ start \in Nat /\ LineStart \in Nat
          /\ clock = LineStart + inLine /\ Reached < n /\ start <= clock
          /\ start <= Reached /\ Reached \in Nat
      BY <3>1, ThisLine DEF TypeOK, LineStart, Reached, EmitsSoFar
    <3>3. /\ n - 1 \in Nat /\ Reached <= n - 1 /\ start <= n - 1 /\ n <= clock
          /\ n - 1 >= LineStart + HBlankStart /\ n - 1 <= clock
          /\ n - 1 < LineStart + CyclesPerLine /\ (n - 1) + 1 = n
      BY <3>1, <3>2
    <3>4. e \in Seq(VideoEvents) /\ IsTimeline(e, start, n - 1)
      <4> HIDE DEF n
      <4> QED BY <3>1, <3>3, UpTo
    <3>5. EventsAt(n) = LineEvents
      BY NextLineStarts
    <3> HIDE DEF e, n
    <3>6. e \o LineEvents \in Seq(VideoEvents) /\ IsTimeline(e \o LineEvents, start, n)
      <4>1. e \o EventsAt((n - 1) + 1) \in Seq(VideoEvents)
            /\ IsTimeline(e \o EventsAt((n - 1) + 1), start, (n - 1) + 1)
        BY <3>2, <3>3, <3>4, LongerTimeline
      <4> QED BY <3>3, <3>5, <4>1
    <3>7. LineStart' = n /\ Reached' = n
      BY <3>1, <3>2, <3>3 DEF LineStart, Reached, n
    <3>8. out' = e \o LineEvents
      BY <3>1 DEF e
    <3>9. IsTimeline(out, start, Reached)' <=> IsTimeline(e \o LineEvents, start, n)
      BY <3>1, <3>7, <3>8 DEF IsTimeline, Count, Marks, EventsAt, LineAt
    <3>10. (Reached - LineStart)' = 0
      BY <3>2, <3>7 DEF n
    <3>11. EmitsSoFar'
      BY <3>1, <3>2, <3>6, <3>8, <3>9, <3>10 DEF EmitsSoFar, VideoEvents, Event
    <3> QED BY <3>1, <3>11 DEF EmitsTheTimeline
  <2>4. CASE UNCHANGED clockVars
    <3>1. UNCHANGED <<out, start, clock, looping, inLine, hblankSent>>
      BY <2>4 DEF clockVars, timing
    <3>2. Reached' = Reached /\ LineStart' = LineStart
      BY <3>1 DEF LineStart, Reached
    <3>3. /\ IsTimeline(out, start, Reached)' <=> IsTimeline(out, start, Reached)
          /\ IsTimeline(out, start, clock)' <=> IsTimeline(out, start, clock)
      BY <3>1, <3>2 DEF IsTimeline, Count, Marks, EventsAt, LineAt
    <3> QED BY <3>1, <3>2, <3>3 DEF EmitsSoFar, EmitsTheTimeline, VideoEvents, Event
  <2> QED BY <2>1, <2>2, <2>3, <2>4 DEF Next, Pass
<1>3. Inv => EmitsTheTimeline
  OBVIOUS
<1> QED BY <1>1, <1>2, <1>3, TypeCorrect, CyclesConserved, HBlankExact, PTL DEF Spec

=============================================================================
