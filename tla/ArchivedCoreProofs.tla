------------------------- MODULE ArchivedCoreProofs -------------------------
(***************************************************************************)
(* What the DMA, the line clock, the jumps of the DSP, the SMPC with its   *)
(* controller ports and the CD block of the first emulator keep, as the    *)
(* components MCArchivedCore runs; and the theorems about all its          *)
(* components side by side.                                                *)
(***************************************************************************)
EXTENDS MCArchivedCore, ThreadProofs

-----------------------------------------------------------------------------
(***************************************************************************)
(* DMA: every transfer raises one end, for any number of levels and any    *)
(* lists whose first descriptor is not empty.                              *)
(***************************************************************************)

UnitSteps == {"run unit", "burst unit", "flush unit"}

Steps == {"parked", "pending?", "start", "snapshot", "started", "run", "burst", "flush"} \cup UnitSteps

DmaLevel == [left : Nat, rest : Seq(Nat), direct : BOOLEAN, pending : BOOLEAN, clear : BOOLEAN]

\* The level a unit is run for.
UnitLevel == IF at.step = "flush unit" THEN flushing - 1 ELSE at.level

\* The inductive invariant: a flush has done the levels before the one it is at, so
\* that a level that starts is idle; and a unit is run on what the level has left.
EngineInv ==
    /\ at \in [step : Steps, level : Dma!Level]
    /\ found \in Dma!Level \cup {Dma!Nowhere}
    /\ dma \in [Dma!Level -> DmaLevel]
    /\ started \in [Dma!Level -> Int]
    /\ Dma!OneEndEach
    /\ flushing \in 0 .. Levels
    /\ flushing # 0 <=> at.step \in {"flush", "flush unit"}
    /\ \A k \in Dma!Level : k + 1 < flushing => dma[k].left = 0
    /\ at.step \in {"start", "snapshot"} => dma[at.level].left = 0
    /\ at.step \in UnitSteps =>
          copy \in DmaLevel /\ copy.left # 0 /\ dma[UnitLevel].left = copy.left

LEMMA UnitIsForALevel ==
    ASSUME Dma!DmaEngineAssumption, EngineInv, at.step \in UnitSteps
    PROVE  UnitLevel \in Dma!Level
<1>1. at.level \in Dma!Level /\ (at.step = "flush unit" => flushing # 0)
  BY Zenon DEF EngineInv
<1>2. flushing \in 0 .. Levels /\ Levels \in Nat
  BY Zenon DEF EngineInv, Dma!DmaEngineAssumption
<1>3. flushing # 0 => flushing - 1 \in Dma!Level
  BY <1>2 DEF Dma!Level
<1> QED BY <1>1, <1>3, Zenon DEF UnitLevel

\* What the master marks leaves all counts alone.
LEMMA MarkingStep ==
    ASSUME Dma!DmaEngineAssumption, EngineInv, dma' \in [Dma!Level -> DmaLevel],
           \A l \in Dma!Level : dma'[l].left = dma[l].left,
           found' \in Dma!Level \cup {Dma!Nowhere}, UNCHANGED <<at, copy, flushing, started>>
    PROVE  EngineInv'
<1>1. Dma!OneEndEach'
  BY Zenon DEF EngineInv, Dma!OneEndEach
<1>2. at.step \in UnitSteps => dma'[UnitLevel].left = dma[UnitLevel].left /\ UnitLevel' = UnitLevel
  BY UnitIsForALevel, Zenon DEF UnitLevel
<1>3. at \in [step : Steps, level : Dma!Level]
  BY Zenon DEF EngineInv
<1>4. at.step \in {"start", "snapshot"} => dma'[at.level].left = 0
  BY <1>3 DEF EngineInv
<1>5. at.step \in UnitSteps => copy \in DmaLevel /\ copy.left # 0 /\ dma[UnitLevel].left = copy.left
  BY Zenon DEF EngineInv
<1>6. at'.step \in UnitSteps => copy' \in DmaLevel /\ copy'.left # 0 /\ dma'[UnitLevel'].left = copy'.left
  BY <1>2, <1>5
<1>7. \A k \in Dma!Level : k + 1 < flushing => dma'[k].left = 0
  BY Zenon DEF EngineInv
<1> QED BY <1>1, <1>3, <1>4, <1>6, <1>7, Zenon DEF EngineInv

\* Setting flags of one level keeps all levels and their counts.
LEMMA Marked ==
    ASSUME dma \in [Dma!Level -> DmaLevel], NEW l \in Dma!Level, NEW d \in DmaLevel, d.left = dma[l].left,
           dma' = [dma EXCEPT ![l] = d]
    PROVE  dma' \in [Dma!Level -> DmaLevel] /\ \A k \in Dma!Level : dma'[k].left = dma[k].left
OBVIOUS

\* What Chased returns.
LEMMA ChasedFields ==
    ASSUME NEW d, NEW e \in BOOLEAN, NEW r, r = [level |-> d, ended |-> e]
    PROVE  r.level = d /\ (r.ended <=> e)
OBVIOUS

\* After a unit the transfer is ended just when nothing of it is left.
LEMMA ChasedEnds ==
    ASSUME NEW c \in DmaLevel, ChaseGuard \in Nat
    PROVE  Dma!Chased(c).level \in DmaLevel /\ (Dma!Chased(c).ended <=> Dma!Chased(c).level.left = 0)
<1> DEFINE skips == {n \in 0 .. Len(c.rest) : \A i \in 1 .. n - 1 : c.rest[i] = 0}
           n == CHOOSE n \in skips : \A k \in skips : k <= n
           last == IF n <= ChaseGuard THEN n ELSE ChaseGuard
           next == [c EXCEPT !.left = c.rest[last], !.rest = SubSeq(c.rest, last + 1, Len(c.rest))]
<1>1. Dma!Chased(c) = IF c.left # 0 THEN [level |-> c, ended |-> FALSE]
                  ELSE IF last = 0 THEN [level |-> c, ended |-> TRUE]
                  ELSE [level |-> next, ended |-> c.rest[last] = 0]
  BY DEF Dma!Chased
<1>2. c.rest \in Seq(Nat) /\ Len(c.rest) \in Nat /\ c.left \in Nat
  BY DEF DmaLevel
<1>3. skips \in SUBSET (0 .. Len(c.rest)) /\ 0 \in skips
  BY <1>2
<1>4. n \in skips
  <2>1. \E x \in skips : \A k \in skips : k <= x
    BY <1>2, <1>3, GreatestNatural, Zenon
  <2> HIDE DEF skips
  <2> QED BY <2>1
<1>5. n \in 0 .. Len(c.rest)
  BY <1>3, <1>4
<1> HIDE DEF n
<1>6. last \in 0 .. Len(c.rest)
  BY <1>2, <1>5
<1> HIDE DEF last
<1>7. last # 0 => c.rest[last] \in Nat /\ SubSeq(c.rest, last + 1, Len(c.rest)) \in Seq(Nat)
  BY <1>2, <1>6
<1>8. last # 0 => next \in DmaLevel /\ next.left = c.rest[last]
  BY <1>7 DEF DmaLevel
<1> HIDE DEF next
<1>9. CASE c.left # 0
  <2>1. Dma!Chased(c) = [level |-> c, ended |-> FALSE]
    BY <1>1, <1>9, Zenon
  <2>2. Dma!Chased(c).level = c /\ (Dma!Chased(c).ended <=> FALSE)
    BY <2>1, ChasedFields, Zenon
  <2> QED BY <1>9, <2>2, Zenon
<1>10. CASE c.left = 0 /\ last = 0
  <2>1. Dma!Chased(c) = [level |-> c, ended |-> TRUE]
    BY <1>1, <1>10, Zenon
  <2>2. Dma!Chased(c).level = c /\ (Dma!Chased(c).ended <=> TRUE)
    BY <2>1, ChasedFields, Zenon
  <2> QED BY <1>10, <2>2, Zenon
<1>11. CASE c.left = 0 /\ last # 0
  <2>1. Dma!Chased(c) = [level |-> next, ended |-> c.rest[last] = 0]
    BY <1>1, <1>11, Zenon
  <2>2. Dma!Chased(c).level = next /\ (Dma!Chased(c).ended <=> c.rest[last] = 0)
    <3> DEFINE empty == c.rest[last] = 0
    <3>1. empty \in BOOLEAN /\ Dma!Chased(c) = [level |-> next, ended |-> empty]
      BY <2>1, Zenon
    <3> HIDE DEF empty
    <3>2. Dma!Chased(c).level = next /\ (Dma!Chased(c).ended <=> empty)
      BY <3>1, ChasedFields, Zenon
    <3> QED BY <3>2 DEF empty
  <2> QED BY <1>8, <1>11, <2>2, Zenon
<1> QED BY <1>9, <1>10, <1>11

\* A step of Core 6 that only goes elsewhere.
LEMMA GoingStep ==
    ASSUME EngineInv, UNCHANGED <<dma, started, found>>,
           at' \in [step : Steps \ UnitSteps, level : Dma!Level], flushing' \in 0 .. Levels,
           flushing' # 0 <=> at'.step = "flush",
           \A k \in Dma!Level : k + 1 < flushing' => dma[k].left = 0,
           at'.step \in {"start", "snapshot"} => dma[at'.level].left = 0
    PROVE  EngineInv'
<1>1. Dma!OneEndEach' /\ started' \in [Dma!Level -> Int] /\ dma' \in [Dma!Level -> DmaLevel]
        /\ found' \in Dma!Level \cup {Dma!Nowhere}
  BY Zenon DEF EngineInv, Dma!OneEndEach
<1>2. at' \in [step : Steps, level : Dma!Level] /\ at'.step \notin UnitSteps
  OBVIOUS
<1> QED BY <1>1, <1>2, Zenon DEF EngineInv, UnitSteps

\* Every step of the master, of an interrupt and of Core 6 keeps the invariant.
LEMMA EngineStep ==
    ASSUME Dma!DmaEngineAssumption, \A list \in Lists : list[1] # 0,
           EngineInv, [Dma!EngineNext]_engineVars
    PROVE  EngineInv'
<1> USE Dma!DmaEngineAssumption
<1>1. ASSUME NEW l \in Dma!Level, Dma!RequestTrigger(l)
      PROVE  EngineInv'
  <2> DEFINE d == [dma[l] EXCEPT !.pending = TRUE]
  <2>1. dma' = [dma EXCEPT ![l] = d] /\ UNCHANGED <<at, copy, flushing, started, found>>
    BY <1>1 DEF Dma!RequestTrigger
  <2>2. dma \in [Dma!Level -> DmaLevel] /\ dma[l] \in DmaLevel
    BY Zenon DEF EngineInv
  <2>3. d \in DmaLevel /\ d.left = dma[l].left
    BY <2>2 DEF DmaLevel
  <2> HIDE DEF d
  <2>4. found \in Dma!Level \cup {Dma!Nowhere}
    BY Zenon DEF EngineInv
  <2> QED BY <2>1, <2>2, <2>3, <2>4, Marked, MarkingStep
<1>2. ASSUME NEW l \in Dma!Level, Dma!Arm(l) \/ Dma!FindArmed(l)
      PROVE  EngineInv'
  BY <1>2, MarkingStep, Zenon DEF Dma!Arm, Dma!FindArmed, EngineInv
<1>3. CASE Dma!MarkByFactor
  <2> DEFINE d == [dma[found] EXCEPT !.pending = TRUE, !.clear = TRUE]
  <2>1. found \in Dma!Level /\ dma' = [dma EXCEPT ![found] = d] /\ found' = Dma!Nowhere
          /\ UNCHANGED <<at, copy, flushing, started>>
    BY <1>3, Zenon DEF Dma!MarkByFactor, EngineInv
  <2>2. dma \in [Dma!Level -> DmaLevel] /\ dma[found] \in DmaLevel
    BY <2>1, Zenon DEF EngineInv
  <2>3. d \in DmaLevel /\ d.left = dma[found].left
    BY <2>2 DEF DmaLevel
  <2> HIDE DEF d
  <2> QED BY <2>1, <2>2, <2>3, Marked, MarkingStep
<1>4. CASE Dma!BeginPass
  <2>1. at' = [step |-> "pending?", level |-> 0] /\ UNCHANGED <<dma, started, found, flushing>>
          /\ at.step = "parked"
    BY <1>4 DEF Dma!BeginPass, Dma!GoTo
  <2>2. flushing = 0 /\ 0 \in Dma!Level
    BY <2>1 DEF EngineInv, Dma!DmaEngineAssumption, Dma!Level
  <2>3. at' \in [step : Steps \ UnitSteps, level : Dma!Level] /\ at'.step = "pending?"
    BY <2>1, <2>2 DEF Steps, UnitSteps
  <2>4. \A k \in Dma!Level : ~(k + 1 < 0)
    BY DEF Dma!Level, Dma!DmaEngineAssumption
  <2> QED BY <2>1, <2>2, <2>3, <2>4, GoingStep DEF EngineInv
<1>5. ASSUME NEW l \in Dma!Level, Dma!LookPending(l)
      PROVE  EngineInv'
  <2>1. at = [step |-> "pending?", level |-> l] /\ UNCHANGED <<dma, started, found>>
    BY <1>5 DEF Dma!LookPending, Dma!At
  <2>2. flushing = 0 /\ Levels \in Nat \ {0} /\ 1 \in 0 .. Levels
    BY <2>1 DEF EngineInv, Dma!DmaEngineAssumption
  <2>3. \A k \in Dma!Level : ~(k + 1 < 0) /\ ~(k + 1 < 1)
    BY DEF Dma!Level, Dma!DmaEngineAssumption
  <2>4. \/ at' = [step |-> "run", level |-> l] /\ flushing' = 0
        \/ at' = [step |-> "flush", level |-> l] /\ flushing' = 1
        \/ at' = [step |-> "start", level |-> l] /\ flushing' = 0 /\ dma[l].left = 0
    BY <1>5, <2>2 DEF Dma!LookPending, Dma!GoTo, Dma!Flushes
  <2>5. at' \in [step : Steps \ UnitSteps, level : Dma!Level] /\ flushing' \in 0 .. Levels
    <3>1. {"run", "flush", "start"} \subseteq Steps \ UnitSteps
      BY DEF Steps, UnitSteps
    <3>2. \E s \in {"run", "flush", "start"} : at' = [step |-> s, level |-> l]
      BY <2>4
    <3>3. flushing' = 0 \/ flushing' = 1
      BY <2>4
    <3> HIDE DEF Dma!Level
    <3>4. at' \in [step : Steps \ UnitSteps, level : Dma!Level]
      BY <3>1, <3>2
    <3> QED BY <2>2, <3>3, <3>4
  <2>6. (flushing' # 0 <=> at'.step = "flush") /\ (at'.step \in {"start", "snapshot"} => dma[at'.level].left = 0)
    BY <2>4
  <2>7. \A k \in Dma!Level : ~(k + 1 < flushing')
    BY <2>3, <2>4
  <2> QED BY <2>1, <2>5, <2>6, <2>7, GoingStep
<1>6. ASSUME NEW l \in Dma!Level, Dma!ReadDen(l)
      PROVE  EngineInv'
  <2>1. /\ at = [step |-> "start", level |-> l] /\ at' = [step |-> "snapshot", level |-> l]
        /\ UNCHANGED <<dma, started, found, flushing>>
    BY <1>6 DEF Dma!ReadDen, Dma!At, Dma!GoTo
  <2>2. /\ flushing = 0 /\ 0 \in 0 .. Levels /\ dma[l].left = 0
        /\ \A k \in Dma!Level : k + 1 < flushing => dma[k].left = 0
    BY <2>1 DEF EngineInv, Dma!DmaEngineAssumption
  <2>3. at' \in [step : Steps \ UnitSteps, level : Dma!Level]
    BY <2>1 DEF Steps, UnitSteps
  <2> QED BY <2>1, <2>2, <2>3, GoingStep
<1>7. ASSUME NEW l \in Dma!Level, Dma!Start(l)
      PROVE  EngineInv'
  <2>1. PICK list \in Lists :
           dma' = [dma EXCEPT ![l] = [left |-> list[1], rest |-> Tail(list), direct |-> list \in Direct,
                                      pending |-> FALSE, clear |-> FALSE]]
    BY <1>7 DEF Dma!Start
  <2> DEFINE d == [left |-> list[1], rest |-> Tail(list), direct |-> list \in Direct,
                   pending |-> FALSE, clear |-> FALSE]
  <2>2. d \in DmaLevel /\ d.left # 0
    <3>1. list \in Seq(Nat) /\ list # <<>>
      BY DEF Dma!DmaEngineAssumption
    <3>2. list[1] \in Nat /\ Tail(list) \in Seq(Nat) /\ list[1] # 0 /\ (list \in Direct) \in BOOLEAN
      BY <3>1
    <3> QED BY <3>2 DEF DmaLevel
  <2>3. dma' = [dma EXCEPT ![l] = d]
    BY <2>1
  <2> HIDE DEF d
  <2>4. /\ started' = [started EXCEPT ![l] = @ + 1] /\ at = [step |-> "snapshot", level |-> l]
        /\ at' = [step |-> "started", level |-> l] /\ UNCHANGED <<flushing, found>>
    BY <1>7 DEF Dma!Start, Dma!At, Dma!GoTo
  <2>5. dma' \in [Dma!Level -> DmaLevel] /\ dma'[l].left # 0 /\ \A k \in Dma!Level \ {l} : dma'[k] = dma[k]
    BY <2>2, <2>3, Zenon DEF EngineInv
  <2>6. flushing = 0 /\ dma[l].left = 0 /\ started[l] = 0 /\ started \in [Dma!Level -> Int]
    BY <2>4 DEF EngineInv, Dma!OneEndEach
  <2>7. Dma!OneEndEach'
    BY <2>4, <2>5, <2>6 DEF EngineInv, Dma!OneEndEach
  <2>8. started' \in [Dma!Level -> Int]
    BY <2>4, <2>6
  <2> QED BY <2>4, <2>5, <2>6, <2>7, <2>8 DEF EngineInv, Steps, UnitSteps, Dma!Level
<1>8. ASSUME NEW l \in Dma!Level, Dma!Started(l)
      PROVE  EngineInv'
  <2> DEFINE d == [dma[l] EXCEPT !.pending = FALSE]
  <2>1. /\ dma' = [dma EXCEPT ![l] = d] /\ UNCHANGED <<flushing, started, found>>
        /\ at = [step |-> "started", level |-> l] /\ at' = [step |-> "burst", level |-> l]
    BY <1>8 DEF Dma!Started, Dma!At, Dma!GoTo
  <2>2. dma \in [Dma!Level -> DmaLevel] /\ dma[l] \in DmaLevel
    BY Zenon DEF EngineInv
  <2>3. d \in DmaLevel /\ d.left = dma[l].left
    BY <2>2 DEF DmaLevel
  <2> HIDE DEF d
  <2>4. dma' \in [Dma!Level -> DmaLevel] /\ \A k \in Dma!Level : dma'[k].left = dma[k].left
    BY <2>1, <2>2, <2>3, Marked
  <2> QED BY <2>1, <2>4 DEF EngineInv, Steps, UnitSteps, Dma!OneEndEach
<1>9. CASE Dma!CopyOut
  <2>1. /\ at.step \in {"run", "burst", "flush"} /\ dma[Dma!Served].left # 0 /\ copy' = dma[Dma!Served]
        /\ UNCHANGED <<dma, flushing, started, found>>
        /\ at' = [step |-> CASE at.step = "run" -> "run unit" [] at.step = "burst" -> "burst unit"
                              [] OTHER -> "flush unit", level |-> at.level]
    BY <1>9, Zenon DEF Dma!CopyOut, Dma!Running, EngineInv
  <2>2. at'.step \in UnitSteps /\ at'.level = at.level /\ at' \in [step : Steps, level : Dma!Level]
          /\ (at'.step = "flush unit" <=> at.step = "flush")
    BY <2>1, Zenon DEF EngineInv, Steps, UnitSteps
  <2>3. Dma!Served \in Dma!Level /\ UnitLevel' = Dma!Served
    <3>1. Dma!Served = IF at.step = "flush" THEN flushing - 1 ELSE at.level
      BY DEF Dma!Served
    <3>2. UnitLevel' = IF at'.step = "flush unit" THEN flushing - 1 ELSE at.level
      BY <2>1, <2>2, Zenon DEF UnitLevel
    <3>3. at.level \in Dma!Level /\ (at.step = "flush" => flushing # 0) /\ flushing \in 0 .. Levels
      BY Zenon DEF EngineInv
    <3>4. flushing # 0 => flushing - 1 \in Dma!Level
      BY <3>3 DEF Dma!Level, Dma!DmaEngineAssumption
    <3> QED BY <2>2, <3>1, <3>2, <3>3, <3>4, Zenon
  <2>4. copy' \in DmaLevel
    BY <2>1, <2>3, Zenon DEF EngineInv
  <2>5. at'.step \notin {"start", "snapshot"} /\ (at'.step \in {"flush", "flush unit"} <=> at.step = "flush")
    BY <2>2, Zenon DEF UnitSteps
  <2> QED BY <2>1, <2>2, <2>3, <2>4, <2>5, Zenon DEF EngineInv, Dma!OneEndEach
<1>10. CASE Dma!Unit
  <2> DEFINE c == [copy EXCEPT !.left = @ - 1]
             done == Dma!Chased(c)
             l == UnitLevel
  <2>1. /\ at.step \in UnitSteps /\ dma' = [dma EXCEPT ![l] = done.level]
        /\ started' = [started EXCEPT ![l] = IF done.ended THEN @ - 1 ELSE @]
        /\ at' = [at EXCEPT !.step = Dma!StepAfterUnit] /\ UNCHANGED <<flushing, found>>
    BY <1>10, Zenon DEF Dma!Unit, UnitSteps, UnitLevel
  <2>2. copy \in DmaLevel /\ copy.left # 0 /\ dma[l].left # 0
    BY <2>1, Zenon DEF EngineInv
  <2>3. c \in DmaLevel
    BY <2>2 DEF DmaLevel
  <2>4. done.level \in DmaLevel /\ (done.ended <=> done.level.left = 0)
    <3> HIDE DEF c
    <3> QED BY <2>3, ChasedEnds DEF Dma!DmaEngineAssumption
  <2>5. l \in Dma!Level /\ (at.step = "flush unit" => l = flushing - 1)
    BY <2>1, UnitIsForALevel, Zenon DEF UnitLevel
  <2> HIDE DEF c, done, l
  <2>6. dma' \in [Dma!Level -> DmaLevel] /\ dma'[l] = done.level /\ \A k \in Dma!Level \ {l} : dma'[k] = dma[k]
    BY <2>1, <2>4, <2>5, Zenon DEF EngineInv
  <2>7. started \in [Dma!Level -> Int] /\ started[l] = 1
    BY <2>2, <2>5, Zenon DEF EngineInv, Dma!OneEndEach
  <2> DEFINE n == IF done.ended THEN started[l] - 1 ELSE started[l]
  <2>8. n = (IF done.ended THEN 0 ELSE 1) /\ started' = [started EXCEPT ![l] = n] /\ n \in Int
    BY <2>1, <2>7
  <2> HIDE DEF n
  <2>9. /\ started' \in [Dma!Level -> Int] /\ started'[l] = n
        /\ \A k \in Dma!Level \ {l} : started'[k] = started[k]
    BY <2>5, <2>7, <2>8, Zenon
  <2>10. Dma!OneEndEach'
    <3>1. started'[l] = IF dma'[l].left # 0 THEN 1 ELSE 0
      BY <2>4, <2>6, <2>8, <2>9
    <3>2. \A k \in Dma!Level \ {l} : started[k] = IF dma[k].left # 0 THEN 1 ELSE 0
      BY Zenon DEF Dma!OneEndEach, EngineInv
    <3> QED BY <2>6, <2>9, <3>1, <3>2 DEF Dma!OneEndEach
  <2>11. at' \in [step : Steps, level : Dma!Level] /\ at'.step \in {"run", "burst", "flush"}
           /\ (at'.step = "flush" <=> at.step = "flush unit")
    BY <2>1, Zenon DEF Dma!StepAfterUnit, EngineInv, Steps, UnitSteps
  <2>12. flushing # 0 <=> at.step = "flush unit"
    BY <2>1, Zenon DEF EngineInv, UnitSteps
  <2>13. \A k \in Dma!Level : k + 1 < flushing' => dma'[k].left = 0
    <3>1. flushing' = flushing /\ flushing \in 0 .. Levels
            /\ \A k \in Dma!Level : k + 1 < flushing => dma[k].left = 0
      BY <2>1, Zenon DEF EngineInv
    <3>2. ASSUME NEW k \in Dma!Level, k + 1 < flushing PROVE k # l
      <4>1. k \in Int /\ k + 1 < flushing /\ flushing \in Int
        BY <3>1, <3>2 DEF Dma!Level, Dma!DmaEngineAssumption
      <4>2. flushing # 0
        BY <3>1, <3>2, <4>1 DEF Dma!Level, Dma!DmaEngineAssumption
      <4>3. l = flushing - 1
        BY <2>5, <2>12, <4>2, Zenon
      <4> QED BY <4>1, <4>3
    <3> QED BY <2>6, <3>1, <3>2
  <2> QED BY <2>1, <2>6, <2>9, <2>10, <2>11, <2>12, <2>13, Zenon DEF EngineInv, UnitSteps
<1>11. CASE Dma!Return
  <2>1. UNCHANGED <<dma, copy, found, started>> /\ at.step \in {"run", "burst", "flush"}
    BY <1>11 DEF Dma!Return, Dma!Running
  <2>2. at.level \in Dma!Level /\ flushing \in 0 .. Levels /\ Levels \in Nat \ {0}
          /\ (flushing # 0 <=> at.step = "flush")
    BY <2>1, Zenon DEF EngineInv, Dma!DmaEngineAssumption
  <2>3. \A k \in Dma!Level : (k + 1 < flushing => dma[k].left = 0) /\ k \in Nat /\ k < Levels
    <3>1. \A k \in Dma!Level : k + 1 < flushing => dma[k].left = 0
      BY Zenon DEF EngineInv
    <3> QED BY <2>2, <3>1 DEF Dma!Level
  <2>4. CASE at.step = "flush" /\ Dma!MoreToFlush(flushing)
    <3>1. flushing' = flushing + 1 /\ at' = at /\ dma[flushing - 1].left = 0
      BY <1>11, <2>4 DEF Dma!Return, Dma!Served
    <3>2. flushing' \in 0 .. Levels /\ flushing' # 0
      BY <2>2, <2>4, <3>1 DEF Dma!MoreToFlush
    <3>3. ASSUME NEW k \in Dma!Level, k + 1 < flushing' PROVE dma[k].left = 0
      <4>1. k + 1 < flushing \/ k = flushing - 1
        BY <2>2, <2>3, <3>1, <3>3
      <4> QED BY <2>3, <3>1, <4>1
    <3>4. at' \in [step : Steps \ UnitSteps, level : Dma!Level] /\ at'.step = "flush"
      BY <2>4, <3>1, Zenon DEF EngineInv, UnitSteps
    <3> QED BY <2>1, <3>2, <3>3, <3>4, GoingStep
  <2>5. CASE at.step = "flush" /\ ~Dma!MoreToFlush(flushing)
    <3>1. flushing' = 0 /\ at' = [step |-> "start", level |-> at.level]
            /\ dma[flushing - 1].left = 0
      BY <1>11, <2>5 DEF Dma!Return, Dma!Served, Dma!GoTo
    <3>2. flushing = Levels
      BY <2>2, <2>5 DEF Dma!MoreToFlush
    <3>3. at.level + 1 < flushing \/ at.level = flushing - 1
      BY <2>2, <2>3, <3>2
    <3>4. dma[at.level].left = 0
      BY <2>2, <2>3, <3>1, <3>3
    <3>5. at' \in [step : Steps \ UnitSteps, level : Dma!Level] /\ at'.step = "start" /\ at'.level = at.level
      BY <2>2, <3>1 DEF Steps, UnitSteps
    <3>6. \A k \in Dma!Level : ~(k + 1 < 0)
      BY <2>3
    <3> QED BY <2>1, <2>2, <3>1, <3>4, <3>5, <3>6, GoingStep
  <2>6. CASE at.step # "flush"
    <3>1. /\ flushing' = flushing
          /\ \/ at' = [step |-> "run", level |-> at.level]
             \/ Dma!AfterLevel(at.level)
      BY <1>11, <2>1, <2>6 DEF Dma!Return, Dma!GoTo
    <3>2. Dma!AfterLevel(at.level) =>
              \/ /\ at' = [step |-> "pending?", level |-> at.level + 1]
                 /\ at.level + 1 \in Dma!Level
              \/ at' = [step |-> "parked", level |-> 0] /\ 0 \in Dma!Level
      BY <2>2, <2>3 DEF Dma!AfterLevel, Dma!GoTo, Dma!Level
    <3>3. at' \in [step : Steps \ UnitSteps, level : Dma!Level] /\ at'.step \notin {"flush", "start", "snapshot"}
      <4>1. {"run", "pending?", "parked"} \subseteq Steps \ UnitSteps
              /\ {"run", "pending?", "parked"} \cap {"flush", "start", "snapshot"} = {}
        BY DEF Steps, UnitSteps
      <4>2. \E s \in {"run", "pending?", "parked"}, k \in Dma!Level : at' = [step |-> s, level |-> k]
        BY <2>2, <3>1, <3>2
      <4> HIDE DEF Dma!Level
      <4> QED BY <4>1, <4>2
    <3> QED BY <2>1, <2>2, <2>3, <2>6, <3>1, <3>3, GoingStep
  <2> QED BY <2>4, <2>5, <2>6
<1>12. CASE UNCHANGED engineVars
  BY <1>12, MarkingStep, Zenon DEF engineVars, EngineInv
<1> QED
  BY <1>1, <1>2, <1>3, <1>4, <1>5, <1>6, <1>7, <1>8, <1>9, <1>10, <1>11, <1>12
  DEF Dma!EngineNext, Dma!Core6

LEMMA EngineStart == Dma!DmaEngineAssumption /\ Dma!EngineInit => EngineInv
BY DEF Dma!DmaEngineAssumption, Dma!EngineInit, EngineInv, DmaLevel, Dma!Idle, Steps,
   UnitSteps,
       Dma!OneEndEach, Dma!Level

-----------------------------------------------------------------------------
(***************************************************************************)
(* The CD drive, the transfer of directory records and the handshake of    *)
(* commands.                                                               *)
(***************************************************************************)

\* What the drive's numbers are.
DriveTyped ==
    /\ fad \in Nat /\ play_start \in Nat /\ play_end \in Nat /\ free \in Nat
    /\ periodic_cycles \in Nat /\ status_cycles \in Nat

\* The rest of a run is served a period at a time, and none is longer than the idle one.
DriveInv == DriveTyped /\ Cd!RemaindersAreSmall /\ Cd!PlaysWithinRange

LEMMA DiscIsOfNumbers ==
    /\ {VBlankPeriod, AudioPeriod, DataPeriod, IdlePeriod, PollPeriod} \subseteq Nat \ {0}
    /\ DataPeriod <= IdlePeriod /\ AudioPeriod <= IdlePeriod /\ VBlankPeriod <= PollPeriod
    /\ LeadOut \in Nat /\ MaxFree \in Nat
    /\ \A f \in Files : f.lba \in Nat /\ f.sectors \in Nat
    /\ Disc[1].start \in Nat /\ \A n : Cd!TrackToFad(n) \in Nat
  <1>1. /\ {VBlankPeriod, AudioPeriod, DataPeriod, IdlePeriod, PollPeriod} \subseteq Nat \ {0}
        /\ DataPeriod < AudioPeriod /\ AudioPeriod < IdlePeriod /\ VBlankPeriod <= PollPeriod
        /\ Files \subseteq [lba : Nat, sectors : Nat]
        /\ {LeadOut, MaxFree, MaxCommands} \subseteq Nat
        /\ Disc \in Seq([start : Nat, end : Nat, audio : BOOLEAN]) /\ Disc # <<>>
    BY InstanceAssumptions DEF Cd!PlaybackAssumption
  <1>2. \A n \in DOMAIN Disc : Disc[n].start \in Nat
    <2> DEFINE Track == [start : Nat, end : Nat, audio : BOOLEAN]
    <2>1. \A t \in Track : t.start \in Nat
      OBVIOUS
    <2>2. Disc \in Seq(Track)
      BY <1>1
    <2> HIDE DEF Track
    <2>3. \A n \in DOMAIN Disc : Disc[n] \in Track
      BY <2>2
    <2> QED
      BY <2>1, <2>3
  <1>3. 1 \in DOMAIN Disc
    BY <1>1
  <1>4. \A n : Cd!TrackToFad(n) \in Nat
    BY <1>2, <1>3 DEF Cd!TrackToFad
  <1> QED
    BY <1>1, <1>2, <1>3, <1>4

LEMMA DriveStart == Cd!DriveInit => DriveInv
  BY DiscIsOfNumbers
  DEF Cd!DriveInit, DriveInv, DriveTyped, Cd!RemaindersAreSmall, Cd!PlaysWithinRange

LEMMA PeriodIsShort == Cd!Period \in Nat \ {0} /\ Cd!Period <= IdlePeriod /\ IdlePeriod \in Nat
  BY DiscIsOfNumbers DEF Cd!Period

LEMMA CommandKeepsDrive ==
    ASSUME DriveInv,
           \/ Cd!PlayCommand \/ Cd!SeekDisc \/ Cd!ReadFile \/ Cd!Restate \/ Cd!ConnectFilter \/ Cd!ReleaseBlock
    PROVE  DriveInv' /\ Cd!StoresOnlyData
  <1>0. DriveTyped /\ Cd!RemaindersAreSmall /\ Cd!PlaysWithinRange
    BY DEF DriveInv
  <1>1. /\ UNCHANGED <<periodic_cycles, status_cycles, running>>
        /\ free' = free \/ free' = free + 1
    BY DEF Cd!PlayCommand, Cd!PlayDisc, Cd!SeekDisc, Cd!ReadFile, Cd!Restate,
       Cd!ConnectFilter, Cd!ReleaseBlock, Cd!Command, Cd!clock
  <1>2. Cd!RemaindersAreSmall' /\ Cd!StoresOnlyData
    BY <1>0, <1>1 DEF Cd!RemaindersAreSmall, Cd!StoresOnlyData, DriveTyped
  <1>3. /\ fad' \in Nat /\ play_start' \in Nat /\ play_end' \in Nat /\ Cd!PlaysWithinRange'
    <2>1. CASE Cd!PlayCommand
      <3>1. PICK n \in Cd!Positions, end \in Cd!Positions : Cd!PlayDisc(n, end)
        BY <2>1 DEF Cd!PlayCommand
      <3>2. n \in Nat /\ end \in Nat /\ Cd!TrackToFad(n) \in Nat /\ LeadOut \in Nat
        BY DiscIsOfNumbers DEF Cd!Positions
      <3> QED
        BY <3>1, <3>2 DEF Cd!PlayDisc, Cd!PlayFrom, Cd!PlaysWithinRange
    <2>2. CASE Cd!SeekDisc
      <3>1. PICK n \in 0 .. Len(Disc) + 1 :
              /\ fad' = IF disc THEN Cd!TrackToFad(n) ELSE n
              /\ Cd!SetStatus("PAUSE") /\ UNCHANGED <<play_start, play_end>>
        BY <2>2 DEF Cd!SeekDisc
      <3>2. n \in Nat
        BY InstanceAssumptions DEF Cd!PlaybackAssumption
      <3> QED
        BY <1>0, <3>1, <3>2, DiscIsOfNumbers
        DEF Cd!SetStatus, Cd!PlaysWithinRange, DriveTyped
    <2>3. CASE Cd!ReadFile
      <3>1. PICK f \in Files : Cd!PlayFrom(f.lba, f.lba + f.sectors)
        BY <2>3 DEF Cd!ReadFile
      <3>2. f.lba \in Nat /\ f.sectors \in Nat
        BY DiscIsOfNumbers
      <3> QED
        BY <3>1, <3>2 DEF Cd!PlayFrom, Cd!PlaysWithinRange
    <2>4. CASE Cd!Restate
      BY <1>0, <2>4 DEF Cd!Restate, Cd!SetStatus, Cd!PlaysWithinRange, DriveTyped
    <2>5. CASE Cd!ConnectFilter \/ Cd!ReleaseBlock
      BY <1>0, <2>5 DEF Cd!ConnectFilter, Cd!ReleaseBlock, Cd!PlaysWithinRange, DriveTyped
    <2> QED
      BY <2>1, <2>2, <2>3, <2>4, <2>5
  <1> QED
    BY <1>0, <1>1, <1>2, <1>3 DEF DriveInv, DriveTyped

LEMMA EngineKeepsDrive ==
    ASSUME DriveInv, Cd!Engine
    PROVE  DriveInv' /\ Cd!StoresOnlyData
  <1>0. DriveTyped /\ Cd!RemaindersAreSmall /\ Cd!PlaysWithinRange
    BY DEF DriveInv
  <1>1. CASE Cd!VBlank
    <2> DEFINE elapsed == status_cycles + VBlankPeriod
    <2>1. /\ running' = TRUE /\ periodic_cycles' = periodic_cycles + VBlankPeriod
          /\ status_cycles' = IF Cd!PollDue(elapsed) THEN elapsed - PollPeriod ELSE elapsed
          /\ UNCHANGED <<fad, play_start, play_end, free>>
          /\ status' = status \/ status' = "NODISC"
      BY <1>1 DEF Cd!VBlank, Cd!SetStatus
    <2>2. VBlankPeriod \in Nat /\ PollPeriod \in Nat /\ VBlankPeriod <= PollPeriod
      BY DiscIsOfNumbers
    <2>3. status_cycles' \in Nat /\ status_cycles' < PollPeriod
      BY <1>0, <2>1, <2>2 DEF Cd!PollDue, Cd!RemaindersAreSmall, DriveTyped
    <2>4. Cd!PlaysWithinRange'
      BY <1>0, <2>1 DEF Cd!PlaysWithinRange
    <2> QED
      BY <1>0, <2>1, <2>2, <2>3, <2>4
      DEF DriveInv, DriveTyped, Cd!RemaindersAreSmall, Cd!StoresOnlyData
  <1>2. CASE Cd!EndRun
    <2>1. /\ periodic_cycles < Cd!Period
          /\ UNCHANGED <<status, fad, play_start, play_end, free, periodic_cycles, status_cycles>>
      BY <1>2 DEF Cd!EndRun, Cd!drive
    <2>2. periodic_cycles < IdlePeriod
      BY <1>0, <2>1, PeriodIsShort DEF DriveTyped
    <2> QED
      BY <1>0, <2>1, <2>2
      DEF DriveInv, DriveTyped, Cd!RemaindersAreSmall, Cd!PlaysWithinRange,
          Cd!StoresOnlyData
  <1>3. ASSUME running, periodic_cycles >= Cd!Period, Cd!TakePeriod, UNCHANGED <<status_cycles, running>>
        PROVE  periodic_cycles' \in Nat /\ status_cycles' \in Nat /\ Cd!RemaindersAreSmall'
    BY <1>0, <1>3, PeriodIsShort DEF DriveTyped, Cd!TakePeriod, Cd!RemaindersAreSmall
  <1>4. CASE Cd!StepIdle \/ Cd!StepWithoutDisc
    <2>1. /\ running /\ periodic_cycles >= Cd!Period /\ Cd!TakePeriod
          /\ UNCHANGED <<fad, play_start, play_end, free, status_cycles, running>>
          /\ status' # "PLAY"
      BY <1>4 DEF Cd!StepIdle, Cd!StepWithoutDisc, Cd!SetStatus
    <2> QED
      BY <1>0, <1>3, <2>1 DEF DriveInv, DriveTyped, Cd!PlaysWithinRange, Cd!StoresOnlyData
  <1>5. CASE Cd!StepPlayback
    <2> DEFINE data == Cd!TracksAt(fad) # {} /\ ~isaudio'
    <2>1. /\ running /\ periodic_cycles >= Cd!Period /\ Cd!TakePeriod
          /\ UNCHANGED <<play_start, play_end, status_cycles, running>>
          /\ isaudio' = Cd!SectorIsAudio /\ free' = Cd!FreeAfter(data)
          /\ fad' = fad + 1 /\ (Cd!Reached => status' = "PAUSE")
      BY <1>5 DEF Cd!StepPlayback, Cd!EndOfPlay, Cd!SetStatus
    <2>2. Cd!PlaysWithinRange'
      BY <1>0, <2>1 DEF Cd!Reached, Cd!PlaysWithinRange, DriveTyped
    <2>3. free' \in Nat
      BY <1>0, <2>1 DEF Cd!FreeAfter, DriveTyped
    <2>4. Cd!StoresOnlyData
      <3> SUFFICES ASSUME free' < free PROVE \E t \in Cd!TracksAt(fad) : ~Disc[t].audio
        BY DEF Cd!StoresOnlyData
      <3>1. data
        BY <1>0, <2>1 DEF Cd!FreeAfter, DriveTyped
      <3>2. ~Disc[CHOOSE t \in Cd!TracksAt(fad) : TRUE].audio
        BY <2>1, <3>1 DEF Cd!SectorIsAudio
      <3>3. (CHOOSE t \in Cd!TracksAt(fad) : TRUE) \in Cd!TracksAt(fad)
        BY <3>1
      <3> QED
        BY <3>2, <3>3
    <2> QED
      BY <1>0, <1>3, <2>1, <2>2, <2>3, <2>4 DEF DriveInv, DriveTyped
  <1> QED
    BY <1>1, <1>2, <1>4, <1>5 DEF Cd!Engine

LEMMA DriveStep == DriveInv /\ [Cd!DriveNext]_driveVars => DriveInv' /\ Cd!StoresOnlyData
  <1> SUFFICES ASSUME DriveInv, [Cd!DriveNext]_driveVars PROVE DriveInv' /\ Cd!StoresOnlyData
    OBVIOUS
  <1>1. CASE UNCHANGED driveVars
    BY <1>1
    DEF driveVars, DriveInv, DriveTyped, Cd!RemaindersAreSmall, Cd!PlaysWithinRange,
        Cd!StoresOnlyData
  <1>2. CASE Cd!DriveNext
    BY <1>2, CommandKeepsDrive, EngineKeepsDrive DEF Cd!DriveNext
  <1> QED
    BY <1>1, <1>2

\* What the port announces is what it holds, but for the table of contents.
PortInv ==
    /\ trans_buffer \in Nat /\ transfercount \in Nat /\ cdwnum \in Nat
    /\ infotranstype \in {"SubQ", "SubRw", "SingleFile"} => cdwnum = trans_buffer
    /\ Cd!RecordsAreOfDirectory

LEMMA PortStart == Cd!PortInit => PortInv
  BY DEF Cd!PortInit, PortInv, Cd!RecordsAreOfDirectory

LEMMA PortStep == PortInv /\ [Cd!PortNext]_cdPortVars => PortInv' /\ Cd!DeliversWholeRecords
  <1> SUFFICES ASSUME PortInv, [Cd!PortNext]_cdPortVars PROVE PortInv' /\ Cd!DeliversWholeRecords
    OBVIOUS
  <1>1. CASE Cd!ChangeDirectory
    <2>1. /\ UNCHANGED <<infotranstype, trans_buffer, transfercount, cdwnum>>
          /\ fileinfo' = Directories[curdirsect']
      BY <1>1 DEF Cd!ChangeDirectory, Cd!ReadRecords, Cd!port
    <2> QED
      BY <2>1 DEF PortInv, Cd!RecordsAreOfDirectory, Cd!DeliversWholeRecords
  <1>2. CASE Cd!GetToc \/ Cd!GetSubcode \/ Cd!GetFileInfo
    <2>1. PICK type \in {"Toc", "SubQ", "SubRw", "SingleFile"}, words \in Nat, announced \in Nat :
            Cd!FillPort(type, words, announced) /\ (type # "Toc" => announced = words)
      BY <1>2 DEF Cd!GetToc, Cd!GetSubcode, Cd!GetFileInfo
    <2> QED
      BY <2>1
      DEF Cd!FillPort, Cd!directory, PortInv, Cd!RecordsAreOfDirectory,
          Cd!DeliversWholeRecords
  <1>3. CASE Cd!EndDataTransfer
    BY <1>3
    DEF Cd!EndDataTransfer, Cd!directory, PortInv, Cd!RecordsAreOfDirectory,
        Cd!DeliversWholeRecords
  <1>4. CASE Cd!ReadInfoPort
    BY <1>4
    DEF Cd!ReadInfoPort, Cd!AfterWord, Cd!directory, PortInv, Cd!RecordsAreOfDirectory,
        Cd!DeliversWholeRecords
  <1>5. CASE UNCHANGED cdPortVars
    BY <1>5 DEF cdPortVars, PortInv, Cd!RecordsAreOfDirectory, Cd!DeliversWholeRecords
  <1> QED
    BY <1>1, <1>2, <1>3, <1>4, <1>5 DEF Cd!PortNext

\* Where the host is in its command, and what of it is in the registers.
HandshakeInv ==
    /\ host \in {"clear", "cr1", "cr2", "cr3", "cr4", "wake", "wait"}
    /\ cr \in [Cd!CR -> {"reset", "command", "answer", "report"}]
    /\ host \in {"clear", "cr1"} => ~command_pending
    /\ host \in {"cr1", "cr2", "cr3", "cr4"} => ~cmok
    /\ host = "cr2" => cr[1] = "command"
    /\ host = "cr3" => cr[1] = "command" /\ cr[2] = "command"
    /\ host = "cr4" => cr[1] = "command" /\ cr[2] = "command" /\ cr[3] = "command"
    /\ host \in {"wake", "wait"} =>
          \/ command_pending /\ ~cmok /\ \A r \in Cd!CR : cr[r] = "command"
          \/ ~command_pending /\ executed = "whole"

LEMMA HandshakeStart == Cd!CommandInit => HandshakeInv
  BY DEF Cd!CommandInit, HandshakeInv, Cd!CR

LEMMA HandshakeStep == HandshakeInv /\ [Cd!CommandNext]_commandVars => HandshakeInv'
  <1> SUFFICES ASSUME HandshakeInv, [Cd!CommandNext]_commandVars PROVE HandshakeInv'
    OBVIOUS
  <1> USE DEF Cd!CR
  <1>1. CASE Cd!Host
    <2>1. CASE Cd!HostClears \/ Cd!ReadAnswer \/ Cd!WakeCore
      BY <2>1 DEF Cd!HostClears, Cd!ReadAnswer, Cd!WakeCore, Cd!HirqWrite, HandshakeInv
    <2>2. CASE Cd!WriteCR1
      BY <2>2 DEF Cd!WriteCR1, HandshakeInv
    <2>3. CASE Cd!WriteCR2
      BY <2>3 DEF Cd!WriteCR2, HandshakeInv
    <2>4. CASE Cd!WriteCR3
      BY <2>4 DEF Cd!WriteCR3, HandshakeInv
    <2>5. CASE Cd!WriteCR4
      BY <2>5 DEF Cd!WriteCR4, HandshakeInv
    <2> QED
      BY <1>1, <2>1, <2>2, <2>3, <2>4, <2>5 DEF Cd!Host
  <1>2. CASE Cd!VBlankIn \/ Cd!Unpark \/ Cd!Leave
    BY <1>2 DEF Cd!VBlankIn, Cd!Unpark, Cd!Leave, HandshakeInv
  <1>3. CASE Cd!Work
    <2> DEFINE done == IF Cd!ExecutesNow THEN Cd!Executed(cr)
                       ELSE [cr |-> cr, cmok |-> cmok, what |-> executed]
    <2>1. /\ ~Cd!Writing /\ host' = host /\ command_pending' = FALSE
          /\ cr' = IF vblank_pending THEN [r \in Cd!CR |-> "report"] ELSE done.cr
          /\ cmok' = done.cmok /\ executed' = done.what
      BY <1>3, InstanceAssumptions DEF Cd!Work
    <2>2. done.cr \in [Cd!CR -> {"reset", "command", "answer", "report"}]
      BY DEF HandshakeInv, Cd!Executed
    <2>3. CASE command_pending
      <3>1. host \in {"wake", "wait"} /\ \A r \in Cd!CR : cr[r] = "command"
        BY <2>1, <2>3 DEF HandshakeInv, Cd!Writing
      <3>2. done.what = "whole"
        BY <2>3, <3>1 DEF Cd!ExecutesNow, Cd!Executed, Cd!Dispatches
      <3> QED
        BY <2>1, <2>2, <3>1, <3>2 DEF HandshakeInv
    <2>4. CASE ~command_pending
      <3>1. done.what = executed /\ done.cmok = cmok
        BY <2>4 DEF Cd!ExecutesNow
      <3> QED
        BY <2>1, <2>2, <2>4, <3>1 DEF HandshakeInv, Cd!Writing
    <2> QED
      BY <2>3, <2>4
  <1>4. CASE UNCHANGED commandVars
    BY <1>4 DEF commandVars, HandshakeInv
  <1> QED
    BY <1>1, <1>2, <1>3, <1>4 DEF Cd!CommandNext, Cd!Core7

LEMMA HandshakeIsExact == HandshakeInv => Cd!CmokIsOfThisCommand
  BY DEF HandshakeInv, Cd!CmokIsOfThisCommand

-----------------------------------------------------------------------------
(***************************************************************************)
(* The lines of a frame.                                                   *)
(***************************************************************************)

\* The lines before Timer 0's have been captured; what a step raises is at its line.
LinesInv ==
    /\ timers.line \in 0 .. LinesPerFrame - 1 /\ 1 .. timers.line \subseteq snapshots
    /\ {"line", "matched", "counter", "armed", "preset"} \subseteq DOMAIN timers
    /\ "vblank_in" \in out => timers.line = BlankLine
    /\ "vblank_out" \in out => snapshots = {0}

LEMMA LinesStart == Moved!Init => LinesInv
  BY InstanceAssumptions DEF Moved!Init, LinesInv, Moved!LineClockAssumption

LEMMA AccountKeeps ==
    ASSUME LinesInv, NEW by, NEW cost, NEW timerBefore, NEW lineBefore,
           Moved!Account(by, cost, timerBefore, lineBefore)
    PROVE  LinesInv'
  <1> DEFINE delta == by % Wrap
             forTimer == (timerBefore + delta) % Wrap
             forLine == (lineBefore + delta) % Wrap
             ticks == forTimer >= TimerBatch
             ticked == IF ticks THEN Moved!Ticked(forTimer) ELSE timers
             newLine == forLine >= cyclesPerLine
             blanked == Moved!AfterHBlank(ticked)
             event == IF newLine THEN Moved!LineEvent(blanked.line) ELSE {}
             Parts(t) == {"line", "matched", "counter", "armed", "preset"} \subseteq DOMAIN t
  <1>1. /\ timers' = IF ~newLine THEN ticked
                     ELSE IF "vblank_out" \in event THEN Moved!AfterVBlankOut(blanked) ELSE blanked
        /\ snapshots' = IF ~newLine THEN snapshots
                        ELSE (IF "vblank_out" \in event THEN {} ELSE snapshots)
                                 \cup Moved!Captured(blanked.line)
        /\ \A e \in {"vblank_in", "vblank_out"} : e \in out' => e \in event
    BY DEF Moved!Account
  <1>2. ticked.line = timers.line /\ Parts(ticked)
    BY DEF Moved!Ticked, LinesInv
  <1>3. blanked.line = ticked.line + 1 /\ Parts(blanked)
    BY <1>2 DEF Moved!AfterHBlank
  <1>4. Moved!AfterVBlankOut(blanked).line = 0 /\ Parts(Moved!AfterVBlankOut(blanked))
    BY <1>3 DEF Moved!AfterVBlankOut
  <1> DEFINE n == timers.line + 1
  <1>5. /\ n \in 1 .. LinesPerFrame /\ timers.line = n - 1 /\ 1 .. n - 1 \subseteq snapshots
        /\ {LinesPerFrame, BlankLine, CommandLine} \subseteq Nat /\ BlankLine < LinesPerFrame
        /\ CommandLine < BlankLine /\ 0 < CommandLine
    BY InstanceAssumptions DEF LinesInv, Moved!LineClockAssumption
  <1>6. CASE ~newLine
    <2>1. timers' = ticked /\ snapshots' = snapshots /\ "vblank_in" \notin out' /\ "vblank_out" \notin out'
      BY <1>1, <1>6
    <2> QED
      BY <1>2, <2>1 DEF LinesInv
  <1>7. CASE newLine
    <2>1. blanked.line = n /\ event = Moved!LineEvent(n)
      BY <1>2, <1>3, <1>7
    <2> HIDE DEF blanked, event, n, newLine, ticked
    <2>2. CASE n = LinesPerFrame
      <3>1. event = {"vblank_out"}
        BY <1>5, <2>1, <2>2 DEF Moved!LineEvent
      <3>2. snapshots' = {0} /\ timers' = Moved!AfterVBlankOut(blanked) /\ "vblank_in" \notin out'
        BY <1>1, <1>7, <2>1, <2>2, <3>1 DEF Moved!Captured
      <3> QED
        BY <1>4, <1>5, <3>2 DEF LinesInv
    <2>3. CASE n # LinesPerFrame
      <3>1. "vblank_out" \notin event /\ ("vblank_in" \in event => n = BlankLine)
        BY <1>5, <2>1, <2>3 DEF Moved!LineEvent
      <3>2. timers' = blanked /\ snapshots' = snapshots \cup {n}
        BY <1>1, <1>7, <2>1, <2>3, <3>1 DEF Moved!Captured
      <3>3. 1 .. n \subseteq snapshots' /\ n \in 0 .. LinesPerFrame - 1
        BY <1>5, <2>3, <3>2
      <3> QED
        BY <1>1, <1>3, <2>1, <3>1, <3>2, <3>3 DEF LinesInv
    <2> QED
      BY <2>2, <2>3
  <1> QED
    BY <1>6, <1>7

LEMMA LinesStep == LinesInv /\ [Moved!Next]_lineVars => LinesInv'
  <1> SUFFICES ASSUME LinesInv, [Moved!Next]_lineVars PROVE LinesInv'
    OBVIOUS
  <1>1. ASSUME NEW c \in Costs, Moved!Step(c) \/ (\E j \in CatchUps : Moved!CaughtUp(c, j))
                                   \/ (\E u \in Uptimes : Moved!SystemReset(c, u))
        PROVE  LinesInv'
    BY <1>1, AccountKeeps DEF Moved!Step, Moved!CaughtUp, Moved!SystemReset
  <1>2. ASSUME UNCHANGED snapshots, out' = {}, timers'.line = timers.line,
               DOMAIN timers' = DOMAIN timers
        PROVE  LinesInv'
    BY <1>2 DEF LinesInv
  <1>3. CASE (\E r \in Rates \ {cyclesPerLine} : Moved!ClockChange(r)) \/ Moved!ArmLine
    BY <1>2, <1>3 DEF Moved!ClockChange, Moved!ArmLine
  <1>5. CASE UNCHANGED lineVars
    BY <1>5 DEF LinesInv, lineVars
  <1> QED
    BY <1>1, <1>3, <1>5 DEF Moved!Next

LEMMA LinesAreCaptured == LinesInv => Moved!EveryLineIsCaptured
  BY DEF LinesInv, Moved!EveryLineIsCaptured

-----------------------------------------------------------------------------
(***************************************************************************)
(* The cycles of a frame, of a command's delay and of Timer 1, while the   *)
(* counter is left to count.                                               *)
(***************************************************************************)

LEMMA OnlyOneIsGreatest == ASSUME NEW x PROVE Frames!MaxOf({x}) = x /\ Timer1!MaxOf({x}) = x
  BY DEF Frames!MaxOf, Timer1!MaxOf

\* What the proofs use of the constants.
LineSizes ==
    /\ {Wrap, TimerBatch, LineCycles, LinesPerFrame, CommandLine, BlankLine} \subseteq Nat \ {0}
    /\ TimerBatch + LineCycles <= Wrap /\ LineCycles + LineCycles <= Wrap
    /\ CommandLine < BlankLine /\ BlankLine < LinesPerFrame
    /\ Costs \subseteq 1 .. LineCycles /\ Costs # {}
    /\ Delays \subseteq Nat /\ Presets \subseteq Nat
    /\ FrameHistory \in Nat /\ TimerHistory \in Nat

LEMMA LineSizesHold == LineSizes
  <1>1. Frames!LineClockAssumption /\ Timer1!LineClockAssumption
    BY InstanceAssumptions
  <1>2. /\ Wrap \in Nat /\ TimerBatch \in 1 .. Wrap /\ LineCycles \in Nat \ {0}
        /\ TimerBatch + LineCycles <= Wrap /\ LineCycles + LineCycles <= Wrap
        /\ Costs \subseteq 1 .. LineCycles /\ Costs # {} /\ Delays \subseteq Nat
        /\ FrameHistory \in Nat
    BY <1>1, OnlyOneIsGreatest DEF Frames!LineClockAssumption
  <1>3. /\ {CommandLine, BlankLine, LinesPerFrame} \subseteq Nat
        /\ 0 < CommandLine /\ CommandLine < BlankLine /\ BlankLine < LinesPerFrame
    BY <1>1 DEF Frames!LineClockAssumption
  <1>4. Presets \subseteq Nat /\ TimerHistory \in Nat
    BY <1>1 DEF Timer1!LineClockAssumption
  <1> QED
    BY <1>2, <1>3, <1>4 DEF LineSizes

LEMMA DearestCost ==
    /\ Frames!MaxOf(Costs) \in 1 .. LineCycles
    /\ \A c \in Costs : c <= Frames!MaxOf(Costs)
  <1>1. Costs \in SUBSET (0 .. LineCycles) /\ LineCycles \in Nat /\ Costs # {}
    BY LineSizesHold DEF LineSizes
  <1>2. \E n \in Costs : \A m \in Costs : m <= n
    BY <1>1, GreatestNatural
  <1> QED
    BY <1>2, LineSizesHold DEF LineSizes, Frames!MaxOf

\* A line more is LineCycles more.
LEMMA LineAfterLine ==
    ASSUME NEW n \in Nat, NEW r \in Nat
    PROVE  /\ n * r \in Nat /\ (n + 1) * r = (n * r) + r
           /\ \A m \in Nat : m <= n => m * r <= n * r
  OBVIOUS

LEMMA OrZero == ASSUME NEW S, S \subseteq Nat, NEW x \in S \cup {0} PROVE x \in Nat /\ (x \in S \/ x = 0)
  OBVIOUS

TimerFields == {"line", "matched", "counter", "armed", "preset"}

AgeFields == {"frame", "timer", "loaded", "command", "delay"}

\* Where the frame stands, in cycles.
Position == (timers.line * LineCycles) + pendingLine

\* Since the frame began the clock has counted what it brought along and the cycles of
\* its age; a delay has left what its command has not yet waited.
FramesInv ==
    /\ TimerFields \subseteq DOMAIN timers /\ AgeFields \subseteq DOMAIN age
    /\ cyclesPerLine = LineCycles
    /\ timers.line \in 0 .. LinesPerFrame - 1 /\ pendingLine \in 0 .. LineCycles - 1
    /\ age.frame \in Nat /\ age.frame <= Position
    /\ Position - age.frame <= Frames!MaxOf(Costs) - 1
    /\ age.command \in Nat /\ age.delay \in Delays \cup {0}
    /\ wait # {} => wait = {age.delay - age.command} /\ age.command <= age.delay

LEMMA FramesStart == Frames!Init => FramesInv
  <1> SUFFICES ASSUME Frames!Init PROVE FramesInv
    OBVIOUS
  <1>1. /\ timers.line = 0 /\ pendingLine = 0 /\ cyclesPerLine = LineCycles /\ wait = {}
        /\ age.frame = 0 /\ age.command = 0 /\ age.delay = 0
        /\ TimerFields \subseteq DOMAIN timers /\ AgeFields \subseteq DOMAIN age
    BY OnlyOneIsGreatest DEF Frames!Init, TimerFields, AgeFields, Frames!NoWait
  <1>2. Position = 0
    BY <1>1, LineSizesHold DEF LineSizes, Position
  <1> QED
    BY <1>1, <1>2, LineSizesHold, DearestCost DEF FramesInv, LineSizes

\* The difference of two counts is itself, so far from 2^32.
LEMMA CountsAreSmall ==
    ASSUME NEW c \in 1 .. LineCycles, NEW q \in 0 .. LineCycles - 1, NEW t \in 0 .. TimerBatch - 1
    PROVE  (q + (c % Wrap)) % Wrap = q + c /\ (t + (c % Wrap)) % Wrap = t + c
  <1>1. LineSizes
    BY LineSizesHold
  <1>2. CASE c < Wrap
    <2>1. c % Wrap = c
      BY <1>1, <1>2 DEF LineSizes
    <2>2. q + c \in 0 .. Wrap - 1 /\ t + c \in 0 .. Wrap - 1 /\ Wrap \in Nat \ {0}
      BY <1>1 DEF LineSizes
    <2> HIDE DEF LineSizes
    <2>3. (q + c) % Wrap = q + c /\ (t + c) % Wrap = t + c
      BY <2>2
    <2> QED
      BY <2>1, <2>3
  <1> QED
    BY <1>1, <1>2 DEF LineSizes

LEMMA FrameAccount ==
    ASSUME FramesInv, NEW cost \in Costs, NEW t, Frames!Account(cost, cost, t, pendingLine)
    PROVE  /\ FramesInv'
           /\ Frames!FrameTakesItsTime
           /\ Frames!CommandsWaitTheirDelay
  <1> DEFINE most == Frames!MaxOf(Costs)
             delta == cost % Wrap
             forTimer == (t + delta) % Wrap
             forLine == (pendingLine + delta) % Wrap
             ticks == forTimer >= TimerBatch
             ticked == IF ticks THEN Frames!Ticked(forTimer) ELSE timers
             newLine == forLine >= cyclesPerLine
             blanked == Frames!AfterHBlank(ticked)
             event == IF newLine THEN Frames!LineEvent(blanked.line) ELSE {}
             left == {w - cost : w \in wait}
             Parts(u) == TimerFields \subseteq DOMAIN u
  <1>1. /\ LineSizes /\ FramesInv /\ cost \in 1 .. LineCycles /\ cost <= most /\ most \in 1 .. LineCycles
        /\ TimerBatch \in Nat \ {0}
    BY LineSizesHold, DearestCost DEF LineSizes
  <1>2. forLine = pendingLine + cost
    BY <1>1, CountsAreSmall DEF FramesInv, LineSizes
  <1>3. /\ pendingLine' = IF newLine THEN forLine - cyclesPerLine ELSE forLine
        /\ timers' = IF ~newLine THEN ticked
                     ELSE IF "vblank_out" \in event THEN Frames!AfterVBlankOut(blanked) ELSE blanked
        /\ "vblank_out" \in out' <=> "vblank_out" \in event
        /\ "command" \in out' <=> Frames!Due(left)
        /\ wait' = IF Frames!Due(left) THEN {} ELSE left
        /\ spent' = cost
        /\ AgeFields \subseteq DOMAIN age'
        /\ age'.frame = IF "vblank_out" \in event THEN 0 ELSE Frames!Counted(age.frame, cost)
        /\ age'.command = IF Frames!Due(left) \/ wait = {} THEN 0 ELSE Frames!Counted(age.command, cost)
        /\ age'.delay = IF Frames!Due(left) THEN 0 ELSE age.delay
        /\ cyclesPerLine' = cyclesPerLine
    <2>1. "vblank_out" # "timer1" /\ "vblank_out" # "command" /\ "command" # "timer1"
          /\ "command" \notin event
      BY DEF Frames!LineEvent
    <2> HIDE DEF event, ticked, newLine, forLine, forTimer, left, blanked
    <2>2. Frames!Account(cost, cost, t, pendingLine)
      OBVIOUS
    <2> QED
      BY <2>1 DEF Frames!Account, Frames!LineRest, Frames!NoWait, AgeFields, event, ticked, newLine, forLine, forTimer, left, blanked
  <1>4. ticked.line = timers.line /\ Parts(ticked)
    BY DEF Frames!Ticked, FramesInv, TimerFields
  <1>5. blanked.line = ticked.line + 1 /\ Parts(blanked)
    BY <1>4 DEF Frames!AfterHBlank, TimerFields
  <1>6. Frames!AfterVBlankOut(blanked).line = 0 /\ Parts(Frames!AfterVBlankOut(blanked))
    BY <1>5 DEF Frames!AfterVBlankOut, TimerFields
  <1>7. LinesPerFrame * LineCycles <= FrameHistory /\ FrameHistory \in Nat
    BY <1>1, HistoriesAreLong DEF LineSizes
  <1> DEFINE n == timers.line
             LinePlace == (n * LineCycles) + pendingLine
  <1>8. /\ n \in 0 .. LinesPerFrame - 1 /\ pendingLine \in 0 .. LineCycles - 1 /\ age.frame \in Nat
        /\ cyclesPerLine = LineCycles /\ age.frame <= LinePlace /\ LinePlace - age.frame <= most - 1
    BY DEF FramesInv, Position
  <1>9. /\ n * LineCycles \in Nat /\ (n + 1) * LineCycles = (n * LineCycles) + LineCycles
        /\ n + 1 <= LinesPerFrame => (n + 1) * LineCycles <= LinesPerFrame * LineCycles
    BY <1>1, <1>8, LineAfterLine DEF LineSizes
  <1> DEFINE FramePart ==
                 /\ TimerFields \subseteq DOMAIN timers' /\ AgeFields \subseteq DOMAIN age'
                 /\ cyclesPerLine' = LineCycles
                 /\ timers'.line \in 0 .. LinesPerFrame - 1 /\ pendingLine' \in 0 .. LineCycles - 1
                 /\ age'.frame \in Nat /\ age'.frame <= Position'
                 /\ Position' - age'.frame <= most - 1
  <1>10. FramePart /\ Frames!FrameTakesItsTime
    <2> HIDE DEF event, ticked, newLine, forLine, left, blanked, most
    <2>1. CASE ~newLine
      <3>1. event = {}
        BY <2>1 DEF event
      <3>2. /\ pendingLine' = pendingLine + cost /\ timers' = ticked /\ timers'.line = n
            /\ pendingLine + cost < LineCycles /\ age'.frame = Frames!Counted(age.frame, cost)
            /\ "vblank_out" \notin out'
        BY <1>1, <1>2, <1>3, <1>4, <1>8, <2>1, <3>1 DEF newLine, LineSizes
      <3>3. Position' = LinePlace + cost
        BY <1>1, <1>8, <1>9, <3>2 DEF Position, LineSizes
      <3>4. LinePlace + cost < FrameHistory
        BY <1>1, <1>7, <1>8, <1>9, <3>2 DEF LineSizes
      <3>5. age'.frame = age.frame + cost
        BY <1>1, <1>7, <1>8, <1>9, <3>2, <3>4 DEF Frames!Counted, LineSizes
      <3> QED
        BY <1>1, <1>3, <1>4, <1>8, <1>9, <3>2, <3>3, <3>5 DEF Frames!FrameTakesItsTime, LineSizes
    <2>2. CASE newLine
      <3>1. /\ pendingLine' = pendingLine + cost - LineCycles /\ pendingLine' \in 0 .. LineCycles - 1
            /\ pendingLine' <= most - 1
            /\ blanked.line = n + 1 /\ event = Frames!LineEvent(n + 1)
        BY <1>1, <1>2, <1>3, <1>4, <1>5, <1>8, <2>2 DEF newLine, event, LineSizes
      <3>2. CASE n + 1 = LinesPerFrame
        <4>1. "vblank_out" \in event
          BY <1>1, <3>1, <3>2 DEF Frames!LineEvent, LineSizes
        <4>2. timers' = Frames!AfterVBlankOut(blanked) /\ age'.frame = 0 /\ timers'.line = 0
          BY <1>3, <1>6, <2>2, <4>1
        <4>3. Position' = pendingLine'
          BY <1>1, <3>1, <4>2 DEF Position, LineSizes
        <4>4. FramePart
          BY <1>1, <1>3, <1>6, <1>8, <3>1, <4>2, <4>3 DEF LineSizes
        <4>5. /\ age.frame + cost <= (LinesPerFrame * LineCycles) + (most - 1)
              /\ age.frame + cost >= (LinesPerFrame * LineCycles) - (most - 1)
          BY <1>1, <1>8, <1>9, <3>1, <3>2 DEF LineSizes
        <4>6. Frames!MaxOf({LineCycles}) = LineCycles /\ LinesPerFrame * LineCycles \in Nat
          <5>1. LinesPerFrame \in Nat /\ LineCycles \in Nat
            BY <1>1 DEF LineSizes
          <5> QED
            BY <5>1, LineAfterLine, OnlyOneIsGreatest
        <4>7. Frames!FrameTakesItsTime
          BY <1>1, <1>3, <1>8, <4>5, <4>6 DEF Frames!FrameTakesItsTime, LineSizes, most
        <4> QED
          BY <4>4, <4>7
      <3>3. CASE n + 1 # LinesPerFrame
        <4>1. "vblank_out" \notin event
          BY <1>1, <3>1, <3>3 DEF Frames!LineEvent, LineSizes
        <4>2. timers' = blanked /\ timers'.line = n + 1 /\ age'.frame = Frames!Counted(age.frame, cost)
          BY <1>3, <2>2, <3>1, <4>1
        <4>3. Position' = LinePlace + cost
          BY <1>1, <1>8, <1>9, <3>1, <4>2 DEF Position, LineSizes
        <4>4. (n + 1) * LineCycles + LineCycles <= LinesPerFrame * LineCycles
          <5>1. n + 2 <= LinesPerFrame /\ LinesPerFrame \in Nat /\ LineCycles \in Nat
            BY <1>1, <1>8, <3>3 DEF LineSizes
          <5>2. (n + 2) * LineCycles <= LinesPerFrame * LineCycles
            BY <1>8, <5>1, LineAfterLine
          <5>3. (n + 2) * LineCycles = (n + 1) * LineCycles + LineCycles
            BY <1>8, <5>1
          <5> QED
            BY <5>2, <5>3
        <4>5. age'.frame = age.frame + cost
          BY <1>1, <1>7, <1>8, <1>9, <3>1, <4>2, <4>4 DEF Frames!Counted, LineSizes
        <4> QED
          BY <1>1, <1>3, <1>5, <1>8, <1>9, <3>1, <3>3, <4>1, <4>2, <4>3, <4>5
          DEF Frames!FrameTakesItsTime, LineSizes
      <3> QED
        BY <3>2, <3>3
    <2> QED
      BY <2>1, <2>2
  <1> DEFINE CommandPart ==
                 /\ age'.command \in Nat /\ age'.delay \in Delays \cup {0}
                 /\ wait' # {} => wait' = {age'.delay - age'.command} /\ age'.command <= age'.delay
  <1>11. CommandPart /\ Frames!CommandsWaitTheirDelay
    <2> HIDE DEF event, ticked, newLine, forLine, blanked, most, FramePart, left
    <2>d. age.delay \in Delays \cup {0} /\ Delays \subseteq Nat
      BY <1>1 DEF FramesInv, LineSizes
    <2>e. age.delay \in Nat /\ (age.delay \in Delays \/ age.delay = 0)
      BY <2>d, OrZero
    <2>0. /\ age.command \in Nat /\ age.delay \in Nat
          /\ wait # {} => wait = {age.delay - age.command} /\ age.command <= age.delay
      BY <1>1, <2>e DEF FramesInv
    <2>1. CASE wait = {}
      <3>1. left = {}
        BY <2>1 DEF left
      <3>2. ~Frames!Due(left)
        BY <3>1 DEF Frames!Due
      <3> QED
        BY <1>3, <2>0, <2>d, <2>1, <3>1, <3>2 DEF Frames!CommandsWaitTheirDelay, Frames!NoWait
    <2>2. CASE wait # {}
      <3> DEFINE rest == age.delay - age.command - cost
      <3>0. rest \in Int /\ cost \in Nat /\ wait = {age.delay - age.command}
        BY <1>1, <2>0, <2>2
      <3>1. left = {rest}
        BY <3>0 DEF left
      <3>2. Frames!Due(left) <=> rest <= 0
        BY <3>1 DEF Frames!Due
      <3>3. CASE rest <= 0
        BY <1>1, <1>3, <2>0, <2>d, <2>2, <3>0, <3>2, <3>3 DEF Frames!CommandsWaitTheirDelay, Frames!NoWait, most
      <3>4. CASE ~(rest <= 0)
        <4>1. age.command + cost < age.delay /\ age.delay <= FrameHistory /\ FrameHistory \in Nat
          <5>2. age.delay <= FrameHistory
            BY <1>7, <2>e, HistoriesAreLong
          <5> QED
            BY <1>7, <2>0, <2>2, <3>0, <3>4, <5>2
        <4>2. age'.command = age.command + cost /\ age'.delay = age.delay /\ wait' = {rest}
          <5>1. ~Frames!Due(left)
            BY <3>2, <3>4
          <5> HIDE DEF rest
          <5>2. /\ age'.command = Frames!Counted(age.command, cost) /\ age'.delay = age.delay
                /\ wait' = {rest}
            BY <1>3, <2>2, <3>1, <5>1
          <5>3. Frames!Counted(age.command, cost) = age.command + cost
            BY <2>0, <3>0, <4>1 DEF Frames!Counted
          <5> QED
            BY <5>2, <5>3
        <4>3. "command" \notin out'
          BY <1>3, <3>2, <3>4
        <4> QED
          BY <2>0, <2>d, <2>2, <3>0, <4>1, <4>2, <4>3 DEF Frames!CommandsWaitTheirDelay, Frames!NoWait
      <3> QED
        BY <3>3, <3>4
    <2> QED
      BY <2>1, <2>2
  <1> HIDE DEF most, ticked
  <1> QED
    BY <1>10, <1>11 DEF FramesInv, most

LEMMA FramesStep ==
    FramesInv /\ [Frames!Next]_lineVars =>
        FramesInv' /\ (UNCHANGED lineVars \/ (Frames!FrameTakesItsTime /\ Frames!CommandsWaitTheirDelay))
  <1> SUFFICES ASSUME FramesInv, [Frames!Next]_lineVars
               PROVE  FramesInv' /\ (UNCHANGED lineVars \/ (Frames!FrameTakesItsTime /\ Frames!CommandsWaitTheirDelay))
    OBVIOUS
  <1>1. ASSUME NEW c \in Costs, Frames!Step(c)
        PROVE  FramesInv' /\ Frames!FrameTakesItsTime /\ Frames!CommandsWaitTheirDelay
    BY <1>1, FrameAccount DEF Frames!Step
  <1>2. ASSUME NEW d \in Delays, Frames!ArmDelay(d)
        PROVE  FramesInv' /\ Frames!FrameTakesItsTime /\ Frames!CommandsWaitTheirDelay
    <2>1. d \in Nat
      BY LineSizesHold DEF LineSizes
    <2>2. /\ AgeFields \subseteq DOMAIN age' /\ age'.frame = age.frame /\ age'.command = 0 /\ age'.delay = d
          /\ wait' = {d} /\ UNCHANGED <<timers, cyclesPerLine, pendingLine>> /\ out' = {}
      BY <1>2 DEF Frames!ArmDelay, FramesInv, AgeFields
    <2> QED
      BY <2>1, <2>2 DEF FramesInv, Position, Frames!FrameTakesItsTime, Frames!CommandsWaitTheirDelay
  <1>3. ASSUME Frames!ArmLine
        PROVE  FramesInv' /\ Frames!FrameTakesItsTime /\ Frames!CommandsWaitTheirDelay
    <2>2. /\ AgeFields \subseteq DOMAIN age' /\ age'.frame = age.frame /\ age'.command = 0 /\ age'.delay = 0
          /\ wait' = {} /\ UNCHANGED <<timers, cyclesPerLine, pendingLine>> /\ out' = {}
      BY <1>3 DEF Frames!ArmLine, FramesInv, AgeFields, Frames!NoWait
    <2> QED
      BY <2>2 DEF FramesInv, Position, Frames!FrameTakesItsTime, Frames!CommandsWaitTheirDelay, Frames!NoWait
  <1>4. ASSUME NEW r \in {LineCycles} \ {cyclesPerLine}, Frames!ClockChange(r)
        PROVE  FALSE
    BY <1>4 DEF FramesInv
  <1>5. CASE UNCHANGED lineVars
    BY <1>5 DEF lineVars, FramesInv, Position
  <1> QED
    BY <1>1, <1>2, <1>3, <1>4, <1>5 DEF Frames!Next

\* What Timer 1 has counted since its reload is no more than its age and what the batch
\* held when it was loaded; a history that is full is past every preset.
TimerInv ==
    /\ TimerFields \subseteq DOMAIN timers /\ AgeFields \subseteq DOMAIN age
    /\ cyclesPerLine = LineCycles
    /\ pendingTimer \in 0 .. TimerBatch - 1 /\ pendingLine \in 0 .. LineCycles - 1
    /\ timers.counter \in Int /\ timers.preset \in Presets \cup {0}
    /\ age.timer \in Nat /\ age.loaded \in Presets \cup {0}
    /\ \/ age.timer >= TimerHistory
       \/ (4 * (age.loaded - timers.counter)) + pendingTimer <= age.timer + (TimerBatch - 1)

LEMMA TimerStart == Timer1!Init => TimerInv
  <1> SUFFICES ASSUME Timer1!Init PROVE TimerInv
    OBVIOUS
  <1>1. /\ timers.counter = 0 /\ timers.preset = 0 /\ pendingLine = 0 /\ pendingTimer = 0
        /\ cyclesPerLine = LineCycles /\ age.timer = 0 /\ age.loaded = 0
        /\ TimerFields \subseteq DOMAIN timers /\ AgeFields \subseteq DOMAIN age
    BY OnlyOneIsGreatest, Zenon DEF Timer1!Init, TimerFields, AgeFields
  <1> QED
    BY <1>1, LineSizesHold DEF TimerInv, LineSizes

LEMMA TimerAccount ==
    ASSUME TimerInv, NEW cost \in Costs, Timer1!Account(cost, cost, pendingTimer, pendingLine)
    PROVE  TimerInv' /\ Timer1!TimerOneNotEarly
  <1> DEFINE delta == cost % Wrap
             forTimer == (pendingTimer + delta) % Wrap
             forLine == (pendingLine + delta) % Wrap
             ticks == forTimer >= TimerBatch
             ticked == IF ticks THEN Timer1!Ticked(forTimer) ELSE timers
             newLine == forLine >= cyclesPerLine
             blanked == Timer1!AfterHBlank(ticked)
             event == IF newLine THEN Timer1!LineEvent(blanked.line) ELSE {}
             loads == newLine /\ mode.enabled /\ ticked.armed
             Parts(u) == TimerFields \subseteq DOMAIN u
  <1>1. /\ LineSizes /\ cost \in 1 .. LineCycles /\ TimerBatch \in Nat \ {0} /\ LineCycles \in Nat \ {0}
        /\ TimerHistory \in Nat /\ Presets \subseteq Nat
    BY LineSizesHold DEF LineSizes
  <1>2. forLine = pendingLine + cost /\ forTimer = pendingTimer + cost
    BY <1>1, CountsAreSmall DEF TimerInv, LineSizes
  <1>3. /\ pendingLine' = IF newLine THEN forLine - cyclesPerLine ELSE forLine
        /\ pendingTimer' = IF forTimer < TimerBatch THEN forTimer ELSE 0
        /\ timers' = IF ~newLine THEN ticked
                     ELSE IF "vblank_out" \in event THEN Timer1!AfterVBlankOut(blanked) ELSE blanked
        /\ "timer1" \in out' => ticks /\ Timer1!Expires(forTimer)
        /\ spent' = cost
        /\ AgeFields \subseteq DOMAIN age'
        /\ age'.timer = IF loads THEN 0 ELSE Timer1!Counted(age.timer, cost)
        /\ age'.loaded = IF loads THEN ticked.preset ELSE age.loaded
        /\ cyclesPerLine' = cyclesPerLine
    <2>1. "vblank_out" # "timer1" /\ "vblank_out" # "command" /\ "command" # "timer1"
          /\ "timer1" \notin event
      BY DEF Timer1!LineEvent
    <2> HIDE DEF event, ticked, newLine, forLine, forTimer, blanked
    <2>2. Timer1!Account(cost, cost, pendingTimer, pendingLine)
      OBVIOUS
    <2> QED
      BY <2>1 DEF Timer1!Account, Timer1!LineRest, Timer1!TimerRest, AgeFields, event, ticked,
         newLine, forLine, forTimer, blanked
  <1>4. /\ pendingTimer \in 0 .. TimerBatch - 1 /\ timers.counter \in Int
        /\ timers.preset \in Presets \cup {0} /\ age.timer \in Nat /\ age.loaded \in Nat
        /\ age.loaded \in Presets \cup {0}
        /\ pendingLine \in 0 .. LineCycles - 1 /\ cyclesPerLine = LineCycles
    BY <1>1, OrZero DEF TimerInv
  <1> DEFINE Slow(counter, load, left, old) ==
                 old >= TimerHistory \/ (4 * (load - counter)) + left <= old + (TimerBatch - 1)
  <1>5. Slow(timers.counter, age.loaded, pendingTimer, age.timer)
    BY DEF TimerInv
  \* What a tick counts is less than the cycles it is for.
  <1>6. /\ Parts(ticked) /\ ticked.counter \in Int /\ ticked.preset = timers.preset
        /\ ticks => 4 * (timers.counter - ticked.counter) <= forTimer
        /\ ~ticks => ticked.counter = timers.counter
    <2>1. CASE ticks /\ Timer1!Counts
      <3> DEFINE c == timers.counter - forTimer \div 4
      <3>1. forTimer \in Nat /\ timers.counter \in Int
        BY <1>1, <1>2, <1>4
      <3> HIDE DEF forTimer
      <3>2. forTimer \div 4 \in Nat /\ 4 * (forTimer \div 4) <= forTimer
        BY <3>1
      <3>3. c \in Int /\ 4 * (timers.counter - c) <= forTimer
        BY <3>1, <3>2
      <3>4. ticked = [timers EXCEPT !.counter = c, !.armed = @ \/ c <= 0]
        BY <2>1 DEF Timer1!Ticked
      <3> HIDE DEF c
      <3>5. Parts(ticked) /\ ticked.counter = c /\ ticked.preset = timers.preset
        BY <3>4 DEF TimerInv, TimerFields
      <3> QED
        BY <2>1, <3>3, <3>5
    <2>2. CASE ~(ticks /\ Timer1!Counts)
      <3>1. ticked = timers
        BY <2>2 DEF Timer1!Ticked
      <3>2. Parts(timers)
        BY DEF TimerInv
      <3> QED
        BY <1>1, <1>2, <1>4, <3>1, <3>2
    <2> QED
      BY <2>1, <2>2
  <1>7. /\ Parts(blanked) /\ blanked.preset = ticked.preset
        /\ blanked.counter = IF mode.enabled /\ ticked.armed THEN ticked.preset ELSE ticked.counter
    BY <1>6 DEF Timer1!AfterHBlank, TimerFields
  <1>8. LET after == Timer1!AfterVBlankOut(blanked)
        IN  Parts(after) /\ after.preset = blanked.preset /\ after.counter = blanked.counter
    BY <1>7 DEF Timer1!AfterVBlankOut, TimerFields
  <1>9. /\ Parts(timers') /\ timers'.preset = timers.preset
        /\ timers'.counter = IF loads THEN timers.preset ELSE ticked.counter
    <2> HIDE DEF ticked, blanked, event, newLine
    <2>1. CASE ~newLine
      BY <1>3, <1>6, <2>1
    <2>2. CASE newLine
      BY <1>3, <1>6, <1>7, <1>8, <2>2
    <2> QED
      BY <2>1, <2>2
  <1>10. timers.preset \in Nat /\ ticked.counter \in Int
    BY <1>1, <1>4, <1>6, OrZero
  <1>11. /\ pendingTimer' \in 0 .. TimerBatch - 1 /\ pendingLine' \in 0 .. LineCycles - 1
         /\ cyclesPerLine' = LineCycles /\ timers'.counter \in Int
         /\ timers'.preset \in Presets \cup {0} /\ age'.loaded \in Presets \cup {0} /\ age'.timer \in Nat
    <2> HIDE DEF ticked, loads
    <2>1. pendingLine' \in 0 .. LineCycles - 1 /\ pendingTimer' \in 0 .. TimerBatch - 1
      BY <1>1, <1>2, <1>3, <1>4
    <2>2. Timer1!Counted(age.timer, cost) \in Nat
      BY <1>1, <1>4 DEF Timer1!Counted
    <2>3. age'.timer \in Nat /\ age'.loaded \in Presets \cup {0}
      BY <1>3, <1>4, <1>6, <2>2
    <2> QED
      BY <1>3, <1>4, <1>9, <1>10, <2>1, <2>3
  \* The cycles counted, whether they tick now or wait.
  <1>12. /\ age.timer >= TimerHistory
             \/ (4 * (age.loaded - ticked.counter)) + pendingTimer' <= age.timer + cost + (TimerBatch - 1)
         /\ ticks => \/ age.timer >= TimerHistory
                     \/ 4 * (age.loaded - ticked.counter) <= age.timer + cost + (TimerBatch - 1)
    <2>1. CASE ticks
      <3>1. pendingTimer' = 0
        BY <1>1, <1>2, <1>3, <1>4, <2>1
      <3> HIDE DEF ticked
      <3> QED
        BY <1>1, <1>2, <1>4, <1>5, <1>6, <1>10, <2>1, <3>1
    <2>2. CASE ~ticks
      <3>1. pendingTimer' = pendingTimer + cost /\ ticked.counter = timers.counter
        BY <1>1, <1>2, <1>3, <1>4, <1>6, <2>2
      <3> HIDE DEF ticked, ticks
      <3> QED
        BY <1>1, <1>4, <1>5, <2>2, <3>1
    <2> QED
      BY <2>1, <2>2
  <1>13. Slow(timers'.counter, age'.loaded, pendingTimer', age'.timer)
    <2> HIDE DEF ticked, loads, ticks, forTimer, forLine
    <2>1. CASE loads
      <3>1. age'.loaded = timers'.counter /\ age'.timer = 0 /\ timers'.counter \in Int
        BY <1>3, <1>6, <1>9, <1>11, <2>1
      <3> QED
        BY <1>1, <1>11, <3>1
    <2>2. CASE ~loads
      <3>1. /\ age'.loaded = age.loaded /\ age'.timer = Timer1!Counted(age.timer, cost)
            /\ timers'.counter = ticked.counter
        BY <1>3, <1>9, <2>2
      <3>2. \/ age'.timer = age.timer + cost
            \/ age'.timer >= TimerHistory
        BY <1>1, <1>4, <3>1 DEF Timer1!Counted
      <3>3. age.timer >= TimerHistory => age'.timer >= TimerHistory
        BY <1>1, <1>4, <3>1 DEF Timer1!Counted
      <3> QED
        BY <1>1, <1>4, <1>10, <1>11, <1>12, <3>1, <3>2, <3>3
    <2> QED
      BY <2>1, <2>2
  <1>14. Timer1!TimerOneNotEarly
    <2> SUFFICES ASSUME "timer1" \in out'
                 PROVE  age.timer + spent' >= 4 * age.loaded - (TimerBatch - 1)
      BY DEF Timer1!TimerOneNotEarly
    <2>1. ticks /\ Timer1!Ticked(forTimer).counter <= 0
      BY <1>3 DEF Timer1!Expires
    <2>2. ticked.counter <= 0
      BY <2>1
    <2>3. 4 * age.loaded <= TimerHistory
      BY <1>1, <1>4, OrZero, HistoriesAreLong
    <2> HIDE DEF ticked, ticks
    <2> QED
      BY <1>1, <1>3, <1>4, <1>10, <1>12, <2>1, <2>2, <2>3
  <1> HIDE DEF ticked
  <1> QED
    BY <1>3, <1>9, <1>11, <1>13, <1>14 DEF TimerInv

LEMMA TimerStep ==
    TimerInv /\ [Timer1!Next]_lineVars =>
        TimerInv' /\ (UNCHANGED lineVars \/ Timer1!TimerOneNotEarly)
  <1> SUFFICES ASSUME TimerInv, [Timer1!Next]_lineVars
               PROVE  TimerInv' /\ (UNCHANGED lineVars \/ Timer1!TimerOneNotEarly)
    OBVIOUS
  <1>1. ASSUME NEW c \in Costs, Timer1!Step(c)
        PROVE  TimerInv' /\ Timer1!TimerOneNotEarly
    BY <1>1, TimerAccount DEF Timer1!Step
  <1>2. ASSUME Timer1!ArmLine
        PROVE  TimerInv' /\ Timer1!TimerOneNotEarly
    <2>1. /\ AgeFields \subseteq DOMAIN age' /\ age'.timer = age.timer /\ age'.loaded = age.loaded
          /\ UNCHANGED <<timers, cyclesPerLine, pendingLine, pendingTimer>> /\ out' = {}
      BY <1>2 DEF Timer1!ArmLine, TimerInv, AgeFields
    <2> QED
      BY <2>1 DEF TimerInv, Timer1!TimerOneNotEarly
  <1>3. ASSUME NEW new \in Presets, Timer1!WriteT1S(new)
        PROVE  TimerInv' /\ Timer1!TimerOneNotEarly
    <2>1. /\ TimerFields \subseteq DOMAIN timers' /\ timers'.counter = timers.counter
          /\ timers'.preset = new
          /\ UNCHANGED <<age, cyclesPerLine, pendingLine, pendingTimer>> /\ out' = {}
      BY <1>3 DEF Timer1!WriteT1S, TimerInv, TimerFields
    <2> QED
      BY <2>1 DEF TimerInv, Timer1!TimerOneNotEarly
  <1>4. ASSUME NEW new, Timer1!WriteT1MD(new)
        PROVE  TimerInv' /\ Timer1!TimerOneNotEarly
    BY <1>4 DEF Timer1!WriteT1MD, TimerInv, Timer1!TimerOneNotEarly
  <1>5. ASSUME NEW r \in {LineCycles} \ {cyclesPerLine}, Timer1!ClockChange(r)
        PROVE  FALSE
    BY <1>5 DEF TimerInv
  <1>6. CASE UNCHANGED lineVars
    BY <1>6 DEF lineVars, TimerInv
  <1> QED
    BY <1>1, <1>2, <1>3, <1>4, <1>5, <1>6 DEF Timer1!Next

-----------------------------------------------------------------------------
(***************************************************************************)
(* The controller ports.                                                   *)
(***************************************************************************)

\* What is plugged in: a kind, the buttons held and the positions of its axes.
Devices == [kind : (ReportedKinds \cup PolledKinds) \cup {"pad", "none"}, held : SUBSET Polled!Buttons, axis : Seq(Int)]

PadsInv ==
    port \in [Polled!Ports -> Devices] /\ moved \in [Polled!Ports -> BOOLEAN] /\ Polled!MotionToldOnce

LEMMA RestIsADevice ==
    ASSUME NEW kind \in (ReportedKinds \cup PolledKinds) \cup {"pad", "none"}
    PROVE  /\ Polled!Rest(kind) \in Devices /\ Polled!Rest(kind).kind = kind
           /\ kind = "mouse" => Polled!Rest(kind).axis = <<0, 0>> /\ Polled!Rest(kind).held = {}
  <1> DEFINE n == Polled!Axes(kind)
             axes == [i \in 1 .. n |-> IF kind = "mouse" THEN 0 ELSE 127]
  <1>1. n \in Nat /\ (kind = "mouse" => n = 2)
    BY DEF Polled!Axes
  <1>2. Polled!Rest(kind) = [kind |-> kind, held |-> {}, axis |-> axes]
    BY DEF Polled!Rest
  <1> HIDE DEF n
  <1>3. axes \in Seq(Int)
    BY <1>1
  <1>4. kind = "mouse" => axes = <<0, 0>>
    BY <1>1
  <1> HIDE DEF axes
  <1> QED
    BY <1>2, <1>3, <1>4 DEF Devices

\* Initially a pad is in the first port.
LEMMA PadsStart == Polled!Init => PadsInv
  <1> SUFFICES ASSUME Polled!Init PROVE PadsInv
    OBVIOUS
  <1>1. port = <<Polled!Rest("pad"), Polled!Rest("none")>>
    BY DEF Polled!Init
  <1>2. port \in [Polled!Ports -> Devices] /\ moved \in [Polled!Ports -> BOOLEAN] /\ port[1].kind = "pad" /\ port[2].kind = "none"
    BY <1>1, RestIsADevice DEF Polled!Ports, Polled!Init
  <1> QED
    BY <1>2 DEF PadsInv, Polled!MotionToldOnce, Polled!Ports

\* Both sets of ports have the same peripherals.
LEMMA SamePeripherals ==
    /\ \A kind : Reported!Rest(kind) = Polled!Rest(kind)
    /\ \A s : Reported!Flushed(s) = Polled!Flushed(s)
    /\ Reported!Init => Polled!Init
    /\ Polled!MotionToldOnce => Reported!MotionToldOnce
  <1>1. \A kind : Reported!Axes(kind) = Polled!Axes(kind)
    BY DEF Reported!Axes, Polled!Axes
  <1>2. \A kind : Reported!Rest(kind) = Polled!Rest(kind)
    BY <1>1 DEF Reported!Rest, Polled!Rest
  <1>3. Reported!Motion = Polled!Motion /\ Reported!Ports = Polled!Ports
    BY DEF Reported!Motion, Polled!Motion, Reported!Ports, Polled!Ports
  <1>4. \A s : Reported!Flushed(s) = Polled!Flushed(s)
    BY <1>3 DEF Reported!Flushed, Polled!Flushed
  <1>5. Reported!Init => Polled!Init
    BY <1>2, <1>3 DEF Reported!Init, Polled!Init
  <1>6. Polled!MotionToldOnce => Reported!MotionToldOnce
    BY <1>3 DEF Reported!MotionToldOnce, Polled!MotionToldOnce
  <1> QED
    BY <1>2, <1>4, <1>5, <1>6

\* What a step does to the devices: plugs one, moves one, reports them or leaves them.
PadsEffect ==
    \/ \E pt \in Polled!Ports : \E kind \in ReportedKinds \cup PolledKinds :
          /\ port' = [port EXCEPT ![pt] = Polled!Rest(kind)]
          /\ moved' = [moved EXCEPT ![pt] = FALSE]
    \/ \E pt \in Polled!Ports : \E held \in SUBSET Polled!Buttons : \E angle \in Int :
          /\ port' = [port EXCEPT ![pt] =
                 [kind |-> @.kind, held |-> held,
                  axis |-> [i \in DOMAIN @.axis |-> IF i % 2 = 1 THEN angle ELSE 255 - angle]]]
          /\ moved' = [moved EXCEPT ![pt] = TRUE]
    \/ /\ port' = [pt \in Polled!Ports |-> Polled!Flushed(port[pt])]
       /\ moved' = [pt \in Polled!Ports |-> FALSE]
    \/ UNCHANGED <<port, moved>>

LEMMA PolledEffect == [Polled!Next]_portsVars => PadsEffect
  <1> SUFFICES ASSUME [Polled!Next]_portsVars PROVE PadsEffect
    OBVIOUS
  <1>1. /\ {1} \subseteq Polled!Ports /\ PolledPresses \subseteq SUBSET Polled!Buttons
        /\ PolledAngles \subseteq Int
    BY InstanceAssumptions
    DEF Polled!Ports, Polled!ButtonsAssumption, Polled!AnglesAssumption
  <1>2. ASSUME NEW pt \in {1}, NEW kind \in PolledKinds, Polled!Plug(pt, kind) PROVE PadsEffect
    BY <1>1, <1>2, Zenon DEF Polled!Plug, PadsEffect
  <1>3. ASSUME NEW pt \in {1}, NEW held \in PolledPresses, NEW angle \in PolledAngles,
               Polled!Move(pt, held, angle)
        PROVE  PadsEffect
    <2>1. pt \in Polled!Ports /\ held \in SUBSET Polled!Buttons /\ angle \in Int
      BY <1>1
    <2> QED
      BY <1>3, <2>1, Zenon DEF Polled!Move, PadsEffect
  <1>4. CASE Polled!Intback
    BY <1>4 DEF Polled!Intback, PadsEffect
  <1>5. CASE UNCHANGED <<port, moved>>
    BY <1>5 DEF PadsEffect
  <1>6. ASSUME NEW pt, NEW val, Polled!WritePdr(pt, val) \/ Polled!WriteDdr(pt, val)
        PROVE  PadsEffect
    BY <1>5, <1>6 DEF Polled!WritePdr, Polled!WriteDdr
  <1>7. CASE UNCHANGED portsVars
    BY <1>5, <1>7 DEF portsVars
  <1> QED
    BY <1>2, <1>3, <1>4, <1>6, <1>7 DEF Polled!Next

LEMMA ReportedEffect == [Reported!Next]_portsVars => PadsEffect
  <1> SUFFICES ASSUME [Reported!Next]_portsVars PROVE PadsEffect
    OBVIOUS
  <1>1. /\ {1, 2} \subseteq Polled!Ports /\ ReportedPresses \subseteq SUBSET Polled!Buttons
        /\ ReportedAngles \subseteq Int
    <2>1. Reported!Buttons = Polled!Buttons
      BY DEF Reported!Buttons, Reported!Motion, Polled!Buttons, Polled!Motion
    <2>2. ReportedPresses \subseteq SUBSET Polled!Buttons
      BY <2>1, InstanceAssumptions DEF Reported!ButtonsAssumption
    <2>3. {1, 2} \subseteq Polled!Ports
      BY DEF Polled!Ports
    <2>4. ReportedAngles \subseteq Int
      BY InstanceAssumptions DEF Reported!AnglesAssumption
    <2> QED
      BY <2>2, <2>3, <2>4
  <1>2. ASSUME NEW pt \in {1, 2}, NEW kind \in ReportedKinds, Reported!Plug(pt, kind) PROVE PadsEffect
    BY <1>1, <1>2, SamePeripherals DEF Reported!Plug, PadsEffect
  <1>3. ASSUME NEW pt \in {1, 2}, NEW held \in ReportedPresses, NEW angle \in ReportedAngles,
               Reported!Move(pt, held, angle)
        PROVE  PadsEffect
    <2>1. pt \in Polled!Ports /\ held \in SUBSET Polled!Buttons /\ angle \in Int
      BY <1>1
    <2> QED
      BY <1>3, <2>1, Zenon DEF Reported!Move, PadsEffect
  <1>4. CASE Reported!Intback
    BY <1>4, SamePeripherals DEF Reported!Intback, PadsEffect, Reported!Ports, Polled!Ports
  <1>5. CASE UNCHANGED <<port, moved>>
    BY <1>5 DEF PadsEffect
  <1>6. ASSUME NEW pt, NEW val, Reported!WritePdr(pt, val) \/ Reported!WriteDdr(pt, val)
        PROVE  PadsEffect
    BY <1>5, <1>6 DEF Reported!WritePdr, Reported!WriteDdr
  <1>7. CASE UNCHANGED portsVars
    BY <1>5, <1>7 DEF portsVars
  <1> QED
    BY <1>2, <1>3, <1>4, <1>6, <1>7 DEF Reported!Next

\* Every step of the program and of the user keeps the devices.
LEMMA PadsStep == PadsInv /\ PadsEffect => PadsInv'
  <1> SUFFICES ASSUME PadsInv, PadsEffect PROVE PadsInv'
    OBVIOUS
  <1>0. /\ port \in [Polled!Ports -> Devices] /\ moved \in [Polled!Ports -> BOOLEAN] /\ Polled!MotionToldOnce
    BY DEF PadsInv
  <1>1. ASSUME NEW pt \in Polled!Ports, NEW d \in Devices, NEW told \in BOOLEAN,
               port' = [port EXCEPT ![pt] = d], moved' = [moved EXCEPT ![pt] = told],
               told \/ (d.kind = "mouse" => d.axis = <<0, 0>> /\ d.held = {})
        PROVE  PadsInv'
    <2>1. /\ port' \in [Polled!Ports -> Devices] /\ port'[pt] = d
          /\ \A q \in Polled!Ports \ {pt} : port'[q] = port[q]
      BY <1>0, <1>1
    <2>2. /\ moved' \in [Polled!Ports -> BOOLEAN] /\ (moved'[pt] <=> told)
          /\ \A q \in Polled!Ports \ {pt} : moved'[q] = moved[q]
      BY <1>0, <1>1
    <2>3. ASSUME NEW q \in Polled!Ports, port'[q].kind = "mouse", ~moved'[q]
          PROVE  port'[q].axis = <<0, 0>> /\ port'[q].held \cap Polled!Motion = {}
      <3>1. CASE q = pt
        BY <1>1, <2>1, <2>2, <2>3, <3>1
      <3>2. CASE q # pt
        BY <1>0, <2>1, <2>2, <2>3, <3>2 DEF Polled!MotionToldOnce
      <3> QED
        BY <3>1, <3>2
    <2> QED
      BY <2>1, <2>2, <2>3 DEF PadsInv, Polled!MotionToldOnce
  <1>2. ASSUME NEW pt \in Polled!Ports, NEW kind \in ReportedKinds \cup PolledKinds,
               port' = [port EXCEPT ![pt] = Polled!Rest(kind)],
               moved' = [moved EXCEPT ![pt] = FALSE]
        PROVE  PadsInv'
    BY <1>1, <1>2, RestIsADevice
  <1>3. ASSUME NEW pt \in Polled!Ports, NEW held \in SUBSET Polled!Buttons, NEW angle \in Int,
               port' = [port EXCEPT ![pt] =
                   [kind |-> @.kind, held |-> held,
                    axis |-> [i \in DOMAIN @.axis |->
                                  IF i % 2 = 1 THEN angle ELSE 255 - angle]]],
               moved' = [moved EXCEPT ![pt] = TRUE]
        PROVE  PadsInv'
    <2> DEFINE s == port[pt]
               axes == [i \in DOMAIN s.axis |-> IF i % 2 = 1 THEN angle ELSE 255 - angle]
               d == [kind |-> s.kind, held |-> held, axis |-> axes]
    <2>1. s \in Devices /\ held \in SUBSET Polled!Buttons /\ angle \in Int
      BY <1>0
    <2>2. axes \in Seq(Int)
      <3>1. s.axis \in Seq(Int)
        BY <2>1 DEF Devices
      <3>2. Len(s.axis) \in Nat /\ DOMAIN s.axis = 1 .. Len(s.axis)
        BY <3>1
      <3> HIDE DEF s
      <3> QED
        BY <2>1, <3>2
    <2>3. port' = [port EXCEPT ![pt] = d]
      BY <1>3
    <2>4. d \in Devices /\ moved' = [moved EXCEPT ![pt] = TRUE]
      <3> HIDE DEF axes
      <3> QED
        BY <1>3, <2>1, <2>2 DEF Devices
    <2> HIDE DEF d
    <2> QED
      BY <1>0, <1>1, <2>3, <2>4, Zenon
  <1>4. CASE /\ port' = [pt \in Polled!Ports |-> Polled!Flushed(port[pt])]
             /\ moved' = [pt \in Polled!Ports |-> FALSE]
    <2>1. \A pt \in Polled!Ports : port'[pt] = Polled!Flushed(port[pt]) /\ ~moved'[pt]
      BY <1>4
    <2>2. port' = [pt \in Polled!Ports |-> port'[pt]] /\ moved' \in [Polled!Ports -> BOOLEAN]
      BY <1>4
    <2>3. ASSUME NEW pt \in Polled!Ports
          PROVE  /\ port'[pt] \in Devices
                 /\ port'[pt].kind = "mouse" => port'[pt].axis = <<0, 0>> /\ port'[pt].held \cap Polled!Motion = {}
      <3> DEFINE s == port[pt]
                 rest == s.held \ Polled!Motion
      <3>1. s \in Devices /\ port'[pt] = Polled!Flushed(s) /\ <<0, 0>> \in Seq(Int)
        BY <1>0, <2>1
      <3>2. CASE s.kind = "mouse"
        <4>1. Polled!Flushed(s) = [kind |-> s.kind, held |-> rest, axis |-> <<0, 0>>]
          BY <3>1, <3>2 DEF Polled!Flushed, Devices
        <4>2. rest \in SUBSET Polled!Buttons /\ rest \cap Polled!Motion = {}
          BY <3>1 DEF Devices
        <4> HIDE DEF rest
        <4> QED
          BY <3>1, <4>1, <4>2 DEF Devices
      <3>3. CASE s.kind # "mouse"
        BY <3>1, <3>3 DEF Polled!Flushed
      <3> QED
        BY <3>2, <3>3
    <2>4. port' \in [Polled!Ports -> Devices]
      BY <2>2, <2>3
    <2> QED
      BY <2>2, <2>3, <2>4 DEF PadsInv, Polled!MotionToldOnce
  <1>5. ASSUME UNCHANGED <<port, moved>> PROVE PadsInv'
    BY <1>0, <1>5 DEF PadsInv, Polled!MotionToldOnce
  <1> QED
    BY <1>2, <1>3, <1>4, <1>5 DEF PadsEffect

\* The bytes of the buttons, the second of which is in its five high bits.
LEMMA ButtonBytes ==
    ASSUME NEW held \in SUBSET Polled!Buttons
    PROVE  /\ Polled!Bits(held, Polled!Byte0) \in 0 .. 255
           /\ \E k \in 0 .. 31 : Polled!Bits(held, Polled!Byte1) = 8 * k
  <1>1. "" \notin held
    BY Zenon DEF Polled!Buttons, Polled!Motion
  <1>2. Polled!Bits(held, Polled!Byte0) \in 0 .. 255
    <2> DEFINE bit(i, weight) == IF i \in DOMAIN Polled!Byte0 /\ Polled!Byte0[i] \in held THEN weight ELSE 0
    <2>2. Polled!Bits(held, Polled!Byte0) = bit(1, 1) + bit(2, 2) + bit(3, 4) + bit(4, 8)
                                + bit(5, 16) + bit(6, 32) + bit(7, 64) + bit(8, 128)
      BY DEF Polled!Bits
    <2>3. /\ bit(1, 1) \in {0, 1} /\ bit(2, 2) \in {0, 2} /\ bit(3, 4) \in {0, 4}
          /\ bit(4, 8) \in {0, 8} /\ bit(5, 16) \in {0, 16} /\ bit(6, 32) \in {0, 32}
          /\ bit(7, 64) \in {0, 64} /\ bit(8, 128) \in {0, 128}
      OBVIOUS
    <2> HIDE DEF bit
    <2> QED
      BY <2>2, <2>3
  <1>3. \E k \in 0 .. 31 : Polled!Bits(held, Polled!Byte1) = 8 * k
    <2> DEFINE bit(i, weight) == IF i \in DOMAIN Polled!Byte1 /\ Polled!Byte1[i] \in held THEN weight ELSE 0
    <2>1. bit(1, 1) = 0 /\ bit(2, 2) = 0 /\ bit(3, 4) = 0
      BY <1>1, Zenon DEF Polled!Byte1
    <2>2. \A i : \A w \in Nat : bit(i, w) \in {0, w}
      OBVIOUS
    <2>3. Polled!Bits(held, Polled!Byte1) = bit(1, 1) + bit(2, 2) + bit(3, 4) + bit(4, 8)
                                + bit(5, 16) + bit(6, 32) + bit(7, 64) + bit(8, 128)
      BY DEF Polled!Bits
    <2> HIDE DEF bit
    <2>4. /\ bit(4, 8) \in {0, 8} /\ bit(5, 16) \in {0, 16} /\ bit(6, 32) \in {0, 32}
          /\ bit(7, 64) \in {0, 64} /\ bit(8, 128) \in {0, 128}
      BY <2>2
    <2> DEFINE k == (bit(4, 8) + bit(5, 16) + bit(6, 32) + bit(7, 64) + bit(8, 128)) \div 8
    <2>5. k \in 0 .. 31 /\ Polled!Bits(held, Polled!Byte1) = 8 * k
      BY <2>1, <2>3, <2>4
    <2> QED
      BY <2>5
  <1> QED
    BY <1>2, <1>3

\* What the four selections of a polling program read (write_pdr).
LEMMA PolledNibbles ==
    ASSUME NEW pt, ddr[pt] % 128 = 96
    PROVE  LET d == Polled!ToPortData(port[pt]).data
           IN  /\ Polled!Response(pt, 96) = 20 + (8 * Polled!Bit(d[2], 8))
               /\ Polled!Response(pt, 64) = 16 + (d[1] % 16)
               /\ Polled!Response(pt, 32) = 16 + (d[1] \div 16)
               /\ Polled!Response(pt, 0) = 16 + (d[2] \div 16)
  <1>1. /\ (96 \div 128) * 128 = 0 /\ (96 \div 32) % 4 = 3 /\ (64 \div 128) * 128 = 0
        /\ (64 \div 32) % 4 = 2 /\ (32 \div 128) * 128 = 0 /\ (32 \div 32) % 4 = 1
        /\ (0 \div 128) * 128 = 0 /\ (0 \div 32) % 4 = 0
    OBVIOUS
  <1> DEFINE r == Polled!ToPortData(port[pt])
             m == ddr[pt] % 128
  <1>2. m = 96
    OBVIOUS
  <1> HIDE DEF r, m
  <1> QED
    BY <1>1, <1>2 DEF Polled!Response, r, m

\* The buttons an axis presses are buttons.
LEMMA SynthesizedAreButtons ==
    ASSUME NEW s \in Devices PROVE s.held \cup Polled!Synthesized(s) \in SUBSET Polled!Buttons
  <1>1. Polled!Synthesized(s) \subseteq {"left", "right", "up", "down"}
    BY DEF Polled!Synthesized
  <1> QED
    BY <1>1 DEF Devices, Polled!Buttons

\* The bytes of the buttons come before those of the axes.
LEMMA ButtonsComeFirst ==
    ASSUME NEW two \in Seq(Int), Len(two) = 2, NEW axes \in Seq(Int)
    PROVE  LET d == two \o axes
           IN  d \in Seq(Int) /\ Len(d) >= 2 /\ d[1] = two[1] /\ d[2] = two[2]
  <1> DEFINE d == two \o axes
  <1>1. d \in Seq(Int) /\ Len(d) = Len(two) + Len(axes)
    BY ConcatProperties
  <1>2. \A i \in 1 .. Len(two) + Len(axes) :
            d[i] = IF i <= Len(two) THEN two[i] ELSE axes[i - Len(two)]
    BY ConcatProperties
  <1>3. Len(axes) \in Nat
    OBVIOUS
  <1> HIDE DEF d
  <1> QED
    BY <1>1, <1>2, <1>3 DEF d

\* What a polling program puts together is what INTBACK reports.
LEMMA PollingIsExact == PadsInv => Polled!PollingAgrees
  <1> SUFFICES ASSUME PadsInv, NEW pt \in Polled!Ports, ddr[pt] % 128 = 96,
                      port[pt].kind \in {"pad", "3d", "wheel", "mission", "twin"}
               PROVE  SubSeq(Polled!ToPortData(port[pt]).data, 1, 2)
                          = <<(16 * (Polled!Response(pt, 32) % 16)) + (Polled!Response(pt, 64) % 16),
                              (16 * (Polled!Response(pt, 0) % 16)) + (Polled!Response(pt, 96) % 16) + 3>>
    BY DEF Polled!PollingAgrees
  <1> DEFINE s == port[pt]
             held == s.held \cup Polled!Synthesized(s)
             low == Polled!Bits(held, Polled!Byte0)
             high == Polled!Bits(held, Polled!Byte1)
             d == Polled!ToPortData(s).data
  <1>1. s \in Devices /\ held \in SUBSET Polled!Buttons
    BY SynthesizedAreButtons DEF PadsInv
  <1>2. low \in 0 .. 255
    BY <1>1, ButtonBytes
  <1>3. PICK k \in 0 .. 31 : high = 8 * k
    BY <1>1, ButtonBytes
  <1>4. s.axis \in Seq(Int)
    BY <1>1 DEF Devices
  <1>5. d = <<255 - low, 255 - high>> \/ d = <<255 - low, 255 - high>> \o s.axis
    BY Zenon DEF Polled!ToPortData, Polled!Serialized, Polled!Report
  <1>6. /\ Polled!Response(pt, 96) = 20 + (8 * Polled!Bit(d[2], 8)) /\ Polled!Response(pt, 64) = 16 + (d[1] % 16)
        /\ Polled!Response(pt, 32) = 16 + (d[1] \div 16) /\ Polled!Response(pt, 0) = 16 + (d[2] \div 16)
    BY PolledNibbles
  <1> HIDE DEF s, held, low, high, d
  <1>7. d \in Seq(Int) /\ Len(d) >= 2 /\ d[1] = 255 - low /\ d[2] = 255 - high
    <2> DEFINE two == <<255 - low, 255 - high>>
    <2>1. two \in Seq(Int) /\ Len(two) = 2 /\ two[1] = 255 - low /\ two[2] = 255 - high
      BY <1>2, <1>3
    <2> HIDE DEF two
    <2>2. CASE d = two
      <3>1. d \in Seq(Int) /\ Len(d) = 2 /\ d[1] = 255 - low /\ d[2] = 255 - high
        BY <2>1, <2>2, Zenon
      <3>2. Len(d) >= 2
        BY <3>1
      <3> QED
        BY <3>1, <3>2
    <2>3. CASE d = two \o s.axis
      BY <1>4, <2>1, <2>3, ButtonsComeFirst
    <2> QED
      BY <1>5, <2>2, <2>3 DEF two
  <1>8. SubSeq(d, 1, 2) = <<d[1], d[2]>>
    <2>1. \A i \in 1 .. 2 : d[i] \in Int
      BY <1>7
    <2>2. /\ SubSeq(d, 1, 2) \in Seq(Int)
          /\ Len(SubSeq(d, 1, 2)) = IF 1 <= 2 THEN 2 - 1 + 1 ELSE 0
          /\ \A i \in 1 .. 2 - 1 + 1 : SubSeq(d, 1, 2)[i] = d[1 + i - 1]
      BY <2>1, SubSeqProperties
    <2> DEFINE pair == SubSeq(d, 1, 2)
    <2> HIDE DEF pair
    <2>3. pair \in Seq(Int) /\ Len(pair) = 2 /\ pair[1] = d[1] /\ pair[2] = d[2]
      BY <2>2 DEF pair
    <2>4. pair = <<d[1], d[2]>>
      BY <2>3
    <2> QED
      BY <2>4 DEF pair
  <1>9. (16 * ((16 + (d[1] \div 16)) % 16)) + ((16 + (d[1] % 16)) % 16) = d[1]
    BY <1>2, <1>7
  <1>10. (16 * ((16 + (d[2] \div 16)) % 16)) + ((20 + (8 * ((d[2] \div 8) % 2))) % 16) + 3 = d[2]
    <2> DEFINE e == 31 - k
    <2>1. e \in 0 .. 31 /\ d[2] = (8 * e) + 7
      <3>1. d[2] = 255 - (8 * k)
        BY <1>3, <1>7
      <3> QED
        BY <3>1
    <2> HIDE DEF e
    <2>2. d[2] \div 8 = e /\ d[2] \div 16 = e \div 2
      BY <2>1
    <2>3. e \div 2 \in 0 .. 15 /\ e % 2 \in 0 .. 1 /\ e = (2 * (e \div 2)) + (e % 2)
      BY <2>1
    <2>4. (16 + (e \div 2)) % 16 = e \div 2 /\ (20 + (8 * (e % 2))) % 16 = 4 + (8 * (e % 2))
      BY <2>3
    <2> QED
      BY <2>1, <2>2, <2>3, <2>4
  <1> QED
    BY <1>6, <1>8, <1>9, <1>10 DEF Polled!Bit, d, s

LEMMA AxesAtRest ==
    ASSUME NEW kind
    PROVE  Polled!Rest(kind).kind = kind /\ Len(Polled!Rest(kind).axis) = Polled!Axes(kind)
  <1> DEFINE n == Polled!Axes(kind)
             axes == [i \in 1 .. n |-> IF kind = "mouse" THEN 0 ELSE 127]
  <1>1. n \in Nat
    BY DEF Polled!Axes
  <1>2. Polled!Rest(kind) = [kind |-> kind, held |-> {}, axis |-> axes]
    BY DEF Polled!Rest
  <1> HIDE DEF n
  <1>3. Len(axes) = n
    BY <1>1
  <1> HIDE DEF axes
  <1>4. Len(axes) = Polled!Axes(kind)
    BY <1>3 DEF n
  <1> QED
    BY <1>2, <1>4

\* Every peripheral has the axes of its kind.
AxesFit == \A pt \in Polled!Ports : Len(port[pt].axis) = Polled!Axes(port[pt].kind)

LEMMA AxesStart == Polled!Init => AxesFit
  <1> SUFFICES ASSUME Polled!Init, NEW pt \in Polled!Ports
               PROVE  Len(port[pt].axis) = Polled!Axes(port[pt].kind)
    BY DEF AxesFit
  <1>1. port = <<Polled!Rest("pad"), Polled!Rest("none")>> /\ pt \in {1, 2}
    BY DEF Polled!Init, Polled!Ports
  <1>2. PICK kind \in {"pad", "none"} : port[pt] = Polled!Rest(kind)
    BY <1>1
  <1> QED
    BY <1>2, AxesAtRest

LEMMA AxesStep == PadsInv /\ AxesFit /\ PadsEffect => AxesFit'
  <1> SUFFICES ASSUME PadsInv, AxesFit, PadsEffect, NEW q \in Polled!Ports
               PROVE  Len(port'[q].axis) = Polled!Axes(port'[q].kind)
    BY DEF AxesFit
  <1> DEFINE Fit == Len(port'[q].axis) = Polled!Axes(port'[q].kind)
  <1> SUFFICES Fit
    OBVIOUS
  <1> HIDE DEF Fit
  <1>1. /\ port \in [Polled!Ports -> Devices] /\ Len(port[q].axis) = Polled!Axes(port[q].kind)
        /\ port[q] \in Devices
    BY DEF PadsInv, AxesFit
  <1>2. ASSUME NEW pt \in Polled!Ports, NEW kind \in ReportedKinds \cup PolledKinds,
               port' = [port EXCEPT ![pt] = Polled!Rest(kind)], moved' = [moved EXCEPT ![pt] = FALSE]
        PROVE  Fit
    <2>1. port'[q] = IF q = pt THEN Polled!Rest(kind) ELSE port[q]
      BY <1>1, <1>2
    <2> QED
      BY <1>1, <2>1, AxesAtRest DEF Fit
  <1>3. ASSUME NEW pt \in Polled!Ports, NEW held \in SUBSET Polled!Buttons, NEW angle \in Int,
               port' = [port EXCEPT ![pt] =
                   [kind |-> @.kind, held |-> held,
                    axis |-> [i \in DOMAIN @.axis |->
                                  IF i % 2 = 1 THEN angle ELSE 255 - angle]]],
               moved' = [moved EXCEPT ![pt] = TRUE]
        PROVE  Fit
    <2> DEFINE s == port[pt]
               axes == [i \in DOMAIN s.axis |-> IF i % 2 = 1 THEN angle ELSE 255 - angle]
               d == [kind |-> s.kind, held |-> held, axis |-> axes]
    <2>1. port' = [port EXCEPT ![pt] = d] /\ d.kind = s.kind /\ d.axis = axes
      BY <1>3
    <2>2. s.axis \in Seq(Int) /\ Len(s.axis) = Polled!Axes(s.kind)
      BY <1>1 DEF Devices, PadsInv, AxesFit
    <2>3. Len(axes) = Len(s.axis)
      <3>1. DOMAIN s.axis = 1 .. Len(s.axis) /\ Len(s.axis) \in Nat
        BY <2>2
      <3> DEFINE n == Len(s.axis)
      <3>2. axes = [i \in 1 .. n |-> IF i % 2 = 1 THEN angle ELSE 255 - angle] /\ n \in Nat
        BY <3>1
      <3> HIDE DEF n, axes
      <3>3. Len(axes) = n
        BY <3>2
      <3> QED
        BY <3>3 DEF n
    <2> HIDE DEF d, axes
    <2>4. port'[q] = IF q = pt THEN d ELSE port[q]
      BY <1>1, <2>1
    <2> QED
      BY <1>1, <2>1, <2>2, <2>3, <2>4 DEF Fit
  <1>4. CASE /\ port' = [pt \in Polled!Ports |-> Polled!Flushed(port[pt])]
             /\ moved' = [pt \in Polled!Ports |-> FALSE]
    <2> DEFINE s == port[q]
    <2>1. port'[q] = Polled!Flushed(s) /\ s \in Devices /\ Len(s.axis) = Polled!Axes(s.kind)
      BY <1>1, <1>4
    <2> HIDE DEF s
    <2>2. CASE s.kind = "mouse"
      <3>1. /\ Polled!Flushed(s).axis = <<0, 0>> /\ Polled!Flushed(s).kind = "mouse"
        BY <2>1, <2>2 DEF Polled!Flushed, Devices
      <3> QED
        BY <2>1, <3>1 DEF Polled!Axes, Fit
    <2>3. CASE s.kind # "mouse"
      BY <2>1, <2>3 DEF Polled!Flushed, Fit
    <2> QED
      BY <2>2, <2>3
  <1>5. CASE UNCHANGED <<port, moved>>
    BY <1>1, <1>5 DEF Fit
  <1>6. CASE \E pt \in Polled!Ports : \E kind \in ReportedKinds \cup PolledKinds :
              /\ port' = [port EXCEPT ![pt] = Polled!Rest(kind)]
              /\ moved' = [moved EXCEPT ![pt] = FALSE]
    <2>1. PICK pt \in Polled!Ports, kind \in ReportedKinds \cup PolledKinds :
              /\ port' = [port EXCEPT ![pt] = Polled!Rest(kind)]
              /\ moved' = [moved EXCEPT ![pt] = FALSE]
      BY <1>6
    <2> QED
      BY <1>2, <2>1, Zenon
  <1>7. CASE \E pt \in Polled!Ports : \E held \in SUBSET Polled!Buttons : \E angle \in Int :
              /\ port' = [port EXCEPT ![pt] =
                     [kind |-> @.kind, held |-> held,
                      axis |-> [i \in DOMAIN @.axis |->
                                    IF i % 2 = 1 THEN angle ELSE 255 - angle]]]
              /\ moved' = [moved EXCEPT ![pt] = TRUE]
    <2>1. PICK pt \in Polled!Ports, held \in SUBSET Polled!Buttons, angle \in Int :
              /\ port' = [port EXCEPT ![pt] =
                     [kind |-> @.kind, held |-> held,
                      axis |-> [i \in DOMAIN @.axis |->
                                    IF i % 2 = 1 THEN angle ELSE 255 - angle]]]
              /\ moved' = [moved EXCEPT ![pt] = TRUE]
      BY <1>7, Zenon
    <2> QED
      BY <1>3, <2>1, Zenon
  <1> QED
    BY <1>4, <1>5, <1>6, <1>7, Zenon DEF PadsEffect

\* One port's part of a report: a status alone, or 241, an ID that counts the data, and
\* the data.
Part(bytes) ==
    /\ bytes \in Seq(Int)
    /\ \/ Len(bytes) = 1 /\ bytes[1] # 241
       \/ Len(bytes) \in 2 .. 11 /\ bytes[1] = 241 /\ bytes[2] % 16 = Len(bytes) - 2

\* What a program reads off the front of a report is the first port's part.
LEMMA ReadsOnePart ==
    ASSUME NEW a, Part(a), NEW rest \in Seq(Int)
    PROVE  Reported!Read1(a \o rest).data = a /\ Reported!Read1(a \o rest).rest = rest
  <1> DEFINE all == a \o rest
             n == Len(a)
             m == Len(rest)
  <1>1. a \in Seq(Int) /\ n \in 1 .. 11 /\ m \in Nat
    BY DEF Part
  <1>2. /\ all \in Seq(Int) /\ Len(all) = n + m
        /\ \A i \in 1 .. n + m : all[i] = IF i <= n THEN a[i] ELSE rest[i - n]
    BY <1>1, ConcatProperties
  <1>3. all # <<>> /\ all[1] = a[1] /\ (n >= 2 => all[2] = a[2])
    <2> HIDE DEF all, n, m
    <2>1. all[1] = a[1] /\ (n >= 2 => all[2] = a[2])
      BY <1>1, <1>2
    <2>2. Len(all) # 0
      BY <1>1, <1>2
    <2> QED
      BY <2>1, <2>2
  \* What stands behind the part.
  <1>4. SubSeq(all, n + 1, n + m) = rest
    <2> DEFINE back == SubSeq(all, n + 1, n + m)
    <2>1. \A i \in n + 1 .. n + m : all[i] \in Int
      <3> HIDE DEF all, n, m
      <3> QED
        BY <1>1, <1>2
    <2>2. /\ back \in Seq(Int)
          /\ Len(back) = IF n + 1 <= n + m THEN (n + m) - (n + 1) + 1 ELSE 0
          /\ \A i \in 1 .. (n + m) - (n + 1) + 1 : back[i] = all[(n + 1) + i - 1]
      BY <1>1, <2>1, SubSeqProperties
    <2> HIDE DEF back, all, n
    <2>3. Len(back) = m
      BY <1>1, <2>2
    <2>4. ASSUME NEW i \in 1 .. m PROVE back[i] = rest[i]
      <3>1. back[i] = all[n + i] /\ n + i \in 1 .. n + m /\ ~(n + i <= n) /\ (n + i) - n = i
        BY <1>1, <2>2
      <3> HIDE DEF m
      <3> QED
        BY <1>2, <3>1
    <2> HIDE DEF m
    <2>5. Len(back) = Len(rest) /\ \A i \in 1 .. Len(back) : back[i] = rest[i]
      BY <2>3, <2>4 DEF m
    <2> QED
      BY <2>2, <2>5, SeqEqual DEF back
  <1>5. SubSeq(all, 1, n) = a
    <2>1. n \in 1 .. Len(a) /\ 1 \in 1 .. Len(a)
      <3>1. n \in 1 .. n /\ 1 \in 1 .. n
        <4> HIDE DEF n
        <4> QED
          BY <1>1
      <3> QED
        BY <3>1
    <2>2. SubSeq(all, 1, n) = SubSeq(a, 1, n)
      BY <1>1, <2>1, SubSeqOfConcat1
    <2> QED
      BY <1>1, <2>2, SubSeqFull
  <1>6. CASE n = 1
    <2>1. a[1] # 241
      BY <1>6 DEF Part
    <2>2. a = <<a[1]>>
      BY <1>1, <1>6
    <2>3. Tail(all) = SubSeq(all, 2, Len(all))
      BY <1>2, <1>3, TailIsSubSeq
    <2>4. Tail(all) = rest
      BY <1>1, <1>2, <1>4, <1>6, <2>3
    <2> HIDE DEF all
    <2>5. Reported!Read1(all) = [data |-> <<all[1]>>, rest |-> Tail(all)]
      BY <1>3, <2>1 DEF Reported!Read1
    <2> QED
      BY <1>3, <2>2, <2>4, <2>5 DEF all
  <1>7. CASE n # 1
    <2>1. a[1] = 241 /\ a[2] % 16 = n - 2 /\ n \in 2 .. 11
      BY <1>7 DEF Part
    <2>2. 2 + (all[2] % 16) = n /\ 3 + (all[2] % 16) = n + 1 /\ Len(all) = n + m
      BY <1>1, <1>2, <1>3, <2>1
    <2> HIDE DEF all, n, m
    <2>3. Reported!Read1(all) = [data |-> SubSeq(all, 1, n), rest |-> SubSeq(all, n + 1, n + m)]
      BY <1>3, <2>1, <2>2 DEF Reported!Read1
    <2>4. Reported!Read1(all).data = a /\ Reported!Read1(all).rest = rest
      BY <1>4, <1>5, <2>3
    <2> QED
      BY <2>4 DEF all
  <1> QED
    BY <1>6, <1>7

\* The part of each peripheral, as it is expected and as chunk_port_data writes it.
Expected(r) == IF r.status = 241 THEN <<241, r.id>> \o r.data ELSE <<r.status>>

LEMMA TwoBytes == ASSUME NEW st \in Int, NEW id \in Int PROVE <<st>> \o <<id>> = <<st, id>>
  <1> DEFINE both == <<st>> \o <<id>>
  <1>1. <<st>> \in Seq(Int) /\ <<id>> \in Seq(Int) /\ Len(<<st>>) = 1 /\ Len(<<id>>) = 1
    OBVIOUS
  <1>2. both \in Seq(Int) /\ Len(both) = 2 /\ both[1] = <<st>>[1] /\ both[2] = <<id>>[1]
    BY <1>1, ConcatProperties
  <1> HIDE DEF both
  <1>3. both = <<st, id>>
    BY <1>2
  <1> QED
    BY <1>3 DEF both

LEMMA Joined ==
    ASSUME NEW a \in Seq(Int), NEW b \in Seq(Int)
    PROVE  /\ a \o b \in Seq(Int) /\ Len(a \o b) = Len(a) + Len(b)
           /\ Len(a) \in Nat /\ Len(b) \in Nat
           /\ \A i \in 1 .. Len(a) : (a \o b)[i] = a[i]
  <1>1. Len(a) \in Nat /\ Len(b) \in Nat
    OBVIOUS
  <1> QED
    BY <1>1, ConcatProperties

LEMMA WholePart ==
    ASSUME NEW id \in Int, NEW data \in Seq(Int), Len(data) <= 9, id % 16 = Len(data)
    PROVE  Part(<<241, id>> \o data) /\ Len(<<241, id>> \o data) <= 11
  <1> DEFINE two == <<241, id>>
             full == two \o data
             n == Len(data)
             m == Len(full)
  <1>1. two \in Seq(Int) /\ Len(two) = 2 /\ two[1] = 241 /\ two[2] = id
    OBVIOUS
  <1> HIDE DEF two
  <1>2. /\ full \in Seq(Int) /\ m = 2 + n /\ n \in Nat
        /\ \A i \in 1 .. 2 : full[i] = two[i]
    <2>1. two \in Seq(Int) /\ Len(two) = 2
      BY <1>1
    <2>2. full \in Seq(Int) /\ m = Len(two) + n
      BY <2>1, Joined, Zenon
    <2>3. n \in Nat
      OBVIOUS
    <2>4. \A i \in 1 .. Len(two) : full[i] = two[i]
      BY <2>1, Joined, Zenon
    <2> HIDE DEF full, m, n
    <2> QED
      BY <2>1, <2>2, <2>3, <2>4, Zenon
  <1> HIDE DEF full, n, m
  <1>3. full[1] = 241 /\ full[2] = id
    BY <1>1, <1>2
  <1>4. n <= 9 /\ id % 16 = n
    BY DEF n
  <1>5. m \in 2 .. 11 /\ m - 2 = n
    BY <1>2, <1>4
  <1>6. Part(full)
    BY <1>2, <1>3, <1>4, <1>5 DEF Part, m
  <1> QED
    BY <1>5, <1>6 DEF two, full, m

LEMMA PartsOfReports ==
    ASSUME NEW st, NEW id \in Int, NEW size \in Nat, NEW data \in Seq(Int),
           \/ st \in {240, 160} /\ size = 0
           \/ st = 241 /\ size = Len(data) /\ size <= 9 /\ id % 16 = size
    PROVE  LET r == Reported!Report(st, id, size, data)
           IN  Reported!PortBytes(r) = Expected(r) /\ Part(Expected(r)) /\ Len(Expected(r)) <= 11
  <1> DEFINE r == Reported!Report(st, id, size, data)
             told == SubSeq(data, 1, size)
  <1>1. r.status = st /\ r.id = id /\ r.size = size /\ r.data = data
    BY DEF Reported!Report
  <1> HIDE DEF r
  <1> DEFINE Fits == Reported!PortBytes(r) = Expected(r) /\ Part(Expected(r)) /\ Len(Expected(r)) <= 11
  <1> SUFFICES Fits
    BY DEF r
  <1> HIDE DEF Fits
  <1>2. CASE st \in {240, 160} /\ size = 0
    <2>1. told = <<>>
      BY <1>2, SubSeqEmpty
    <2>2. Reported!PortBytes(r) = (<<st>> \o <<>>) \o told
      BY <1>1, <1>2 DEF Reported!PortBytes
    <2> DEFINE alone == <<st>>
    <2>3. alone \in Seq(Int) /\ Len(alone) = 1 /\ alone[1] # 241
      BY <1>2
    <2> HIDE DEF told, alone
    <2>4. Reported!PortBytes(r) = alone
      BY <2>1, <2>2, <2>3, ConcatEmptySeq DEF alone
    <2>5. Expected(r) = alone
      BY <1>1, <1>2 DEF Expected, alone
    <2>6. Part(alone) /\ Len(alone) <= 11
      BY <2>3 DEF Part
    <2> QED
      BY <2>4, <2>5, <2>6 DEF Fits
  <1>3. CASE st = 241 /\ size = Len(data) /\ size <= 9 /\ id % 16 = size
    <2>1. told = data
      BY <1>3, SubSeqFull
    <2>2. Reported!PortBytes(r) = (<<st>> \o <<id>>) \o told
      BY <1>1, <1>3 DEF Reported!PortBytes
    <2> DEFINE two == <<st, id>>
               full == two \o data
    <2>3. <<st>> \o <<id>> = two
      BY <1>3, TwoBytes
    <2>4. Expected(r) = full /\ Reported!PortBytes(r) = full
      <3> HIDE DEF told, r
      <3> QED
        BY <1>1, <1>3, <2>1, <2>2, <2>3 DEF Expected
    <2>5. Part(full) /\ Len(full) <= 11
      <3>1. Part(<<241, id>> \o data) /\ Len(<<241, id>> \o data) <= 11
        BY <1>3, WholePart
      <3> QED
        BY <1>3, <3>1
    <2> QED
      BY <2>4, <2>5 DEF Fits
  <1> QED
    BY <1>2, <1>3

LEMMA BitsAreANumber == ASSUME NEW held, NEW order PROVE Reported!Bits(held, order) \in Int
  <1> DEFINE bit(i, weight) == IF i \in DOMAIN order /\ order[i] \in held THEN weight ELSE 0
  <1>1. Reported!Bits(held, order) = bit(1, 1) + bit(2, 2) + bit(3, 4) + bit(4, 8)
                            + bit(5, 16) + bit(6, 32) + bit(7, 64) + bit(8, 128)
    BY DEF Reported!Bits
  <1>2. \A i : \A w \in Int : bit(i, w) \in Int
    OBVIOUS
  <1> HIDE DEF bit
  <1> QED
    BY <1>1, <1>2

LEMMA EveryDeviceHasAPart ==
    ASSUME NEW s, s.axis \in Seq(Int), Len(s.axis) = Reported!Axes(s.kind),
           s.kind \in {"none", "pad", "wheel", "mission", "3d", "twin", "keyboard", "mouse", "gun"}
    PROVE  LET r == Reported!ToPortData(s)
           IN  Reported!PortBytes(r) = Expected(r) /\ Part(Expected(r)) /\ Len(Expected(r)) <= 11
  <1> DEFINE Fits(r) == Reported!PortBytes(r) = Expected(r) /\ Part(Expected(r)) /\ Len(Expected(r)) <= 11
             held == s.held \cup Reported!Synthesized(s)
             bytes == Reported!Serialized(held)
             mouse == <<Reported!Bits(s.held, Reported!MouseByte)>>
             gun == <<124, 255, 255 - Reported!Bits(s.held, Reported!GunByte)>>
  <1>1. bytes \in Seq(Int) /\ Len(bytes) = 2
    <2>1. Reported!Bits(held, Reported!Byte0) \in Int /\ Reported!Bits(held, Reported!Byte1) \in Int
      BY BitsAreANumber
    <2> QED
      BY <2>1 DEF Reported!Serialized
  <1>2. mouse \in Seq(Int) /\ Len(mouse) = 1 /\ gun \in Seq(Int)
    <2>1. Reported!Bits(s.held, Reported!MouseByte) \in Int /\ Reported!Bits(s.held, Reported!GunByte) \in Int
      BY BitsAreANumber
    <2> QED
      BY <2>1
  <1>3. ASSUME NEW id \in Int, NEW data \in Seq(Int), Len(data) <= 9, id % 16 = Len(data)
        PROVE  Fits(Reported!Report(241, id, Len(data), data))
    <2>1. Len(data) \in Nat
      OBVIOUS
    <2> QED
      BY <1>3, <2>1, PartsOfReports, Zenon
  <1>12. ASSUME NEW st \in {240, 160}, NEW id \in Int, NEW data \in Seq(Int)
         PROVE  Fits(Reported!Report(st, id, 0, data))
    BY PartsOfReports
  <1> HIDE DEF Fits, bytes, mouse, gun
  <1> SUFFICES Fits(Reported!ToPortData(s))
    BY DEF Fits
  <1> DEFINE axis == s.axis
  <1> axis \in Seq(Int) /\ Len(axis) = Reported!Axes(s.kind)
    OBVIOUS
  <1>11. s.axis = axis
    OBVIOUS
  <1> HIDE DEF axis
  <1>4. /\ bytes \o axis \in Seq(Int) /\ Len(bytes \o axis) = 2 + Len(axis)
        /\ mouse \o axis \in Seq(Int) /\ Len(mouse \o axis) = 1 + Len(axis)
    <2>1. bytes \o axis \in Seq(Int) /\ Len(bytes \o axis) = Len(bytes) + Len(axis)
      BY <1>1, Joined, Zenon
    <2>2. mouse \o axis \in Seq(Int) /\ Len(mouse \o axis) = Len(mouse) + Len(axis)
      BY <1>2, Joined, Zenon
    <2>3. Len(mouse) = 1
      BY <1>2
    <2>4. Len(bytes) = 2
      BY <1>1
    <2> QED
      BY <2>1, <2>2, <2>3, <2>4, Zenon
  <1>5. CASE s.kind = "none"
    <2> DEFINE data == <<0, 0>>
    <2>1. Reported!ToPortData(s) = Reported!Report(240, 0, 0, data)
      BY <1>5 DEF Reported!ToPortData
    <2>2. 240 \in {240, 160} /\ 0 \in Int /\ data \in Seq(Int)
      OBVIOUS
    <2> HIDE DEF data
    <2>3. Fits(Reported!Report(240, 0, 0, data))
      BY <1>12, <2>2
    <2> QED
      BY <2>1, <2>3, Zenon
  <1>6. CASE s.kind = "pad"
    <2>1. Reported!ToPortData(s) = Reported!Report(241, 2, 2, bytes)
      BY <1>6 DEF Reported!ToPortData, bytes
    <2>2. 2 \in Int /\ 2 = Len(bytes) /\ Len(bytes) <= 9 /\ 2 % 16 = Len(bytes)
      BY <1>1
    <2> QED
      BY <1>1, <1>3, <2>1, <2>2, Zenon
  <1>7. CASE s.kind \in {"wheel", "mission", "3d", "twin"}
    <2> DEFINE data == bytes \o axis
    <2>1. data \in Seq(Int) /\ Len(data) = 2 + Reported!Axes(s.kind)
      BY <1>4
    <2> HIDE DEF data
    <2>2. PICK id \in {19, 21, 22, 25} : \E n \in {3, 5, 6, 9} :
              Reported!ToPortData(s) = Reported!Report(241, id, n, data) /\ n = Len(data) /\ id % 16 = n
      BY <1>7, <1>11, <2>1 DEF Reported!ToPortData, Reported!Axes, bytes, data
    <2>3. id \in Int /\ Len(data) <= 9 /\ id % 16 = Len(data)
      BY <2>2
    <2>4. Reported!ToPortData(s) = Reported!Report(241, id, Len(data), data)
      BY <2>2
    <2> QED
      BY <1>3, <2>1, <2>3, <2>4, Zenon
  <1>8. CASE s.kind = "keyboard"
    <2> DEFINE data == <<255, 248, 6, 0>>
    <2>1. Reported!ToPortData(s) = Reported!Report(241, 52, 4, data)
      BY <1>8 DEF Reported!ToPortData
    <2>2. data \in Seq(Int) /\ 52 \in Int /\ 4 = Len(data) /\ Len(data) <= 9 /\ 52 % 16 = Len(data)
      OBVIOUS
    <2> HIDE DEF data
    <2> QED
      BY <1>3, <2>1, <2>2, Zenon
  <1>9. CASE s.kind = "mouse"
    <2> DEFINE data == mouse \o axis
    <2>1. data \in Seq(Int) /\ Len(data) = 3
      BY <1>4, <1>9 DEF Reported!Axes
    <2>2. Reported!ToPortData(s) = Reported!Report(241, 227, 3, data)
      BY <1>9, <1>11 DEF Reported!ToPortData, mouse
    <2> HIDE DEF data
    <2>3. 227 \in Int /\ 3 = Len(data) /\ Len(data) <= 9 /\ 227 % 16 = Len(data)
      BY <2>1
    <2> QED
      BY <1>3, <2>1, <2>2, <2>3, Zenon
  <1>10. CASE s.kind = "gun"
    <2>1. Reported!ToPortData(s) = Reported!Report(160, 37, 0, gun)
      BY <1>10 DEF Reported!ToPortData, gun
    <2>2. Fits(Reported!Report(160, 37, 0, gun))
      BY <1>2, <1>12
    <2> QED
      BY <2>1, <2>2, Zenon
  <1> QED
    BY <1>5, <1>6, <1>7, <1>8, <1>9, <1>10

LEMMA ReportsParse == PadsInv /\ AxesFit => Reported!ReportParses
  <1> SUFFICES ASSUME PadsInv, AxesFit, Reported!Intback
               PROVE  LET one == Reported!Read1(report')
                          two == Reported!Read1(one.rest)
                          expected(s) ==
                              LET r == Reported!ToPortData(s)
                              IN  IF r.status = 241 THEN <<241, r.id>> \o r.data ELSE <<r.status>>
                      IN  /\ one.data = expected(port[1]) /\ two.data = expected(port[2])
                          /\ two.rest = <<>>
    BY DEF Reported!ReportParses
  <1> DEFINE a == Expected(Reported!ToPortData(port[1]))
             b == Expected(Reported!ToPortData(port[2]))
  <1>1. ASSUME NEW q \in {1, 2}
        PROVE  LET r == Reported!ToPortData(port[q])
               IN  Reported!PortBytes(r) = Expected(r) /\ Part(Expected(r)) /\ Len(Expected(r)) <= 11
    <2>1. port[q] \in Devices /\ Len(port[q].axis) = Polled!Axes(port[q].kind)
      BY DEF PadsInv, AxesFit, Polled!Ports
    <2>2. Polled!Axes(port[q].kind) = Reported!Axes(port[q].kind)
      BY DEF Reported!Axes, Polled!Axes
    <2>3. (ReportedKinds \cup PolledKinds) \cup {"pad", "none"} \subseteq
              {"none", "pad", "wheel", "mission", "3d", "twin", "keyboard", "mouse", "gun"}
      BY InstanceAssumptions DEF Reported!KindsAssumption, Polled!KindsAssumption
    <2>4. port[q].axis \in Seq(Int) /\ port[q].kind \in (ReportedKinds \cup PolledKinds) \cup {"pad", "none"}
      BY <2>1 DEF Devices
    <2> QED
      BY <2>1, <2>2, <2>3, <2>4, EveryDeviceHasAPart
  <1>2. Part(a) /\ Part(b) /\ Len(a) <= 11 /\ Len(b) <= 11 /\ Reported!PortBytes(Reported!ToPortData(port[1])) = a
        /\ Reported!PortBytes(Reported!ToPortData(port[2])) = b
    BY <1>1
  <1> HIDE DEF a, b
  <1>3. a \in Seq(Int) /\ b \in Seq(Int) /\ a \o b \in Seq(Int) /\ Len(a \o b) = Len(a) + Len(b)
    BY <1>2, ConcatProperties DEF Part
  <1>4. report' = SubSeq(a \o b, 1, IF Len(a \o b) < 32 THEN Len(a \o b) ELSE 32)
    BY <1>2 DEF Reported!Intback, Reported!Chunk
  <1>5. report' = a \o b
    <2> DEFINE all == a \o b
    <2>1. all \in Seq(Int) /\ Len(all) \in Nat /\ Len(all) = Len(a) + Len(b)
      BY <1>3
    <2>2. Len(a) \in Nat /\ Len(b) \in Nat
      BY <1>3
    <2>3. report' = SubSeq(all, 1, IF Len(all) < 32 THEN Len(all) ELSE 32)
      BY <1>4
    <2> HIDE DEF all
    <2>4. Len(all) < 32
      BY <1>2, <2>1, <2>2
    <2>5. report' = all
      BY <2>1, <2>3, <2>4, SubSeqFull
    <2> QED
      BY <2>5 DEF all
  <1>6. Reported!Read1(a \o b).data = a /\ Reported!Read1(a \o b).rest = b
    BY <1>2, <1>3, ReadsOnePart
  <1>7. b = b \o <<>> /\ <<>> \in Seq(Int)
    BY <1>3, ConcatEmptySeq, EmptySeq
  <1>8. Reported!Read1(b).data = b /\ Reported!Read1(b).rest = <<>>
    <2>1. Reported!Read1(b \o <<>>).data = b /\ Reported!Read1(b \o <<>>).rest = <<>>
      BY <1>2, <1>7, ReadsOnePart
    <2>2. b \o <<>> = b
      BY <1>7
    <2> QED
      BY <2>1, <2>2
  <1> QED
    BY <1>5, <1>6, <1>8 DEF Expected, a, b

-----------------------------------------------------------------------------
(***************************************************************************)
(* The SMPC: all that is safe about a command, for any programs on the     *)
(* SH-2s where nothing else is said.                                       *)
(***************************************************************************)

\* The inductive invariant: while a command waits or is executed SF has not been
\* read clear since.
WaitingInv ==
    /\ Smpc!BusyWhilePending
    /\ Smpc!IdleMeansDone
    /\ Smpc!Locked => pending = Smpc!Nothing

\* Initially nothing is pending.
LEMMA WaitingStart == Smpc!Init \/ Hasty!Init => WaitingInv
  BY DEF Smpc!Init, Hasty!Init, WaitingInv, Smpc!BusyWhilePending, Smpc!IdleMeansDone,
         Smpc!Locked, Smpc!Nothing, Hasty!Nothing

\* Every step of the writers, of core 7 and of the video keeps it.
LEMMA WaitingStep == WaitingInv /\ [Smpc!Next]_smpcVars => WaitingInv'
<1> USE DEF WaitingInv, Smpc!BusyWhilePending, Smpc!IdleMeansDone, Smpc!Locked
<1> SUFFICES ASSUME WaitingInv, [Smpc!Next]_smpcVars PROVE WaitingInv'
  OBVIOUS
<1>1. ASSUME NEW w \in SmpcWriters, NEW c, Smpc!Arm(w, c), ~Smpc!Locked, UNCHANGED core7
      PROVE  WaitingInv'
  BY <1>1 DEF Smpc!Arm, Smpc!Nothing
<1>2. ASSUME NEW w \in SmpcWriters, Smpc!HandleIreg0(w)
      PROVE  WaitingInv'
  <2>1. CASE intback /\ store[w][2] = "continue" /\ store[w][2] # "break"
    BY <1>1, <1>2, <2>1 DEF Smpc!HandleIreg0
  <2>2. CASE ~(intback /\ store[w][2] = "continue") \/ store[w][2] = "break"
    BY <1>2, <2>2 DEF Smpc!HandleIreg0
  <2> QED BY <2>1, <2>2
<1>3. ASSUME NEW w \in SmpcWriters, Smpc!HandleComreg(w)
      PROVE  WaitingInv'
  BY <1>1, <1>3 DEF Smpc!HandleComreg
<1>4. ASSUME NEW w \in SmpcWriters, Smpc!ReadSf(w)
      PROVE  WaitingInv'
  BY <1>4 DEF Smpc!ReadSf, Smpc!regs, Smpc!smpc
<1>5. CASE Smpc!DelayOver \/ Smpc!Line207 \/ Smpc!BlankIn \/ Smpc!BlankOut
  BY <1>5
  DEF Smpc!DelayOver, Smpc!Line207, Smpc!BlankIn, Smpc!BlankOut, Smpc!Dispatch, Smpc!regs,
      Smpc!smpc
<1>6. CASE Smpc!Begin
  BY <1>6 DEF Smpc!Begin
<1>7. CASE Smpc!Finish
  BY <1>7 DEF Smpc!Finish
<1>8. ASSUME UNCHANGED <<pending, sf, idle, core7>>
      PROVE  WaitingInv'
  BY <1>8
<1>9. ASSUME NEW w \in SmpcWriters,
             \/ \E ports \in BOOLEAN : Smpc!StoreIreg1(w, ports)
             \/ \E v \in Smpc!Values : Smpc!StoreIreg0(w, v)
             \/ \E c \in SmpcCommands : Smpc!StoreComreg(w, c)
      PROVE  WaitingInv'
  BY <1>8, <1>9 DEF Smpc!StoreIreg1, Smpc!StoreIreg0, Smpc!StoreComreg, Smpc!regs, Smpc!smpc
<1>10. CASE UNCHANGED smpcVars
  BY <1>8, <1>10 DEF smpcVars, Smpc!regs, Smpc!smpc
<1> QED BY <1>2, <1>3, <1>4, <1>5, <1>6, <1>7, <1>9, <1>10 DEF Smpc!Next, Smpc!Handles

\* A program that does not wait for SF keeps it as well.
LEMMA HastyWaitingStep == WaitingInv /\ [Hasty!Next]_smpcVars => WaitingInv'
<1> USE DEF WaitingInv, Smpc!BusyWhilePending, Smpc!IdleMeansDone, Smpc!Locked, Hasty!Locked,
            Smpc!Nothing, Hasty!Nothing
<1> SUFFICES ASSUME WaitingInv, [Hasty!Next]_smpcVars PROVE WaitingInv'
  OBVIOUS
<1>1. ASSUME NEW w \in SmpcWriters, NEW c, Hasty!Arm(w, c), ~Hasty!Locked, UNCHANGED core7
      PROVE  WaitingInv'
  BY <1>1 DEF Hasty!Arm
<1>2. ASSUME NEW w \in SmpcWriters, Hasty!HandleIreg0(w)
      PROVE  WaitingInv'
  <2>1. CASE intback /\ store[w][2] = "continue" /\ store[w][2] # "break"
    BY <1>1, <1>2, <2>1 DEF Hasty!HandleIreg0
  <2>2. CASE ~(intback /\ store[w][2] = "continue") \/ store[w][2] = "break"
    BY <1>2, <2>2 DEF Hasty!HandleIreg0
  <2> QED BY <2>1, <2>2
<1>3. ASSUME NEW w \in SmpcWriters, Hasty!HandleComreg(w)
      PROVE  WaitingInv'
  BY <1>1, <1>3 DEF Hasty!HandleComreg
<1>4. ASSUME NEW w \in SmpcWriters, Hasty!ReadSf(w)
      PROVE  WaitingInv'
  BY <1>4 DEF Hasty!ReadSf, Hasty!regs, Hasty!smpc
<1>5. CASE Hasty!DelayOver \/ Hasty!Line207 \/ Hasty!BlankIn \/ Hasty!BlankOut
  BY <1>5
  DEF Hasty!DelayOver, Hasty!Line207, Hasty!BlankIn, Hasty!BlankOut, Hasty!Dispatch,
      Hasty!regs, Hasty!smpc
<1>6. CASE Hasty!Begin
  BY <1>6 DEF Hasty!Begin
<1>7. CASE Hasty!Finish
  BY <1>7 DEF Hasty!Finish
<1>8. ASSUME UNCHANGED <<pending, sf, idle, core7>>
      PROVE  WaitingInv'
  BY <1>8
<1>9. ASSUME NEW w \in SmpcWriters,
             \/ \E ports \in BOOLEAN : Hasty!StoreIreg1(w, ports)
             \/ \E v \in Hasty!Values : Hasty!StoreIreg0(w, v)
             \/ \E c \in SmpcCommands : Hasty!StoreComreg(w, c)
      PROVE  WaitingInv'
  BY <1>8, <1>9
  DEF Hasty!StoreIreg1, Hasty!StoreIreg0, Hasty!StoreComreg, Hasty!regs, Hasty!smpc
<1>10. CASE UNCHANGED smpcVars
  BY <1>8, <1>10 DEF smpcVars, Hasty!regs, Hasty!smpc
<1> QED BY <1>2, <1>3, <1>4, <1>5, <1>6, <1>7, <1>9, <1>10 DEF Hasty!Next, Hasty!Handles

\* The inductive invariant: the master waits for what the pending command waits for.
TurnInv ==
    /\ ready /\ pending # Hasty!Nothing => over
    /\ wake # "none" /\ pending # Hasty!Nothing => pending[2] = wake

\* Every step keeps the order of the commands.
LEMMA TurnStep ==
    ASSUME SmpcWriters \subseteq {"master"}, TurnInv, [Hasty!Next]_smpcVars
    PROVE  TurnInv'
<1> USE DEF TurnInv
<1>1. ASSUME NEW w \in SmpcWriters, NEW c, Hasty!Arm(w, c)
      PROVE  TurnInv'
  <2>1. w = "master"
    OBVIOUS
  <2>2. ready' = FALSE /\ pending' = <<c, Hasty!WaitOf(c)>> /\ wake' = Hasty!WaitOf(c)
    BY <1>1, <2>1 DEF Hasty!Arm
  <2> QED BY <2>2
<1>2. ASSUME NEW w \in SmpcWriters, Hasty!Handles(w)
      PROVE  TurnInv'
  BY <1>1, <1>2 DEF Hasty!Handles, Hasty!HandleIreg0, Hasty!HandleComreg
<1>3. ASSUME NEW kind, Hasty!Dispatch(kind), kind # "none", UNCHANGED pending
      PROVE  TurnInv'
  BY <1>3 DEF Hasty!Dispatch
<1>4. CASE Hasty!DelayOver \/ Hasty!Line207
  BY <1>3, <1>4 DEF Hasty!DelayOver, Hasty!Line207
<1>5. CASE Hasty!Begin
  BY <1>5 DEF Hasty!Begin
<1>6. ASSUME UNCHANGED <<pending, wake, ready, over>>
      PROVE  TurnInv'
  BY <1>6
<1>7. ASSUME Hasty!BlankIn \/ Hasty!BlankOut \/ Hasty!Finish
      PROVE  TurnInv'
  BY <1>6, <1>7 DEF Hasty!BlankIn, Hasty!BlankOut, Hasty!Finish, Hasty!smpc
<1>8. ASSUME NEW w \in SmpcWriters,
             \/ \E ports \in BOOLEAN : Hasty!StoreIreg1(w, ports)
             \/ \E v \in Hasty!Values : Hasty!StoreIreg0(w, v)
             \/ \E c \in SmpcCommands : Hasty!StoreComreg(w, c)
             \/ Hasty!ReadSf(w)
      PROVE  TurnInv'
  BY <1>6, <1>8
  DEF Hasty!StoreIreg1, Hasty!StoreIreg0, Hasty!StoreComreg, Hasty!ReadSf, Hasty!smpc
<1>9. CASE UNCHANGED smpcVars
  BY <1>6, <1>9 DEF smpcVars, Hasty!smpc
<1> QED BY <1>2, <1>4, <1>5, <1>7, <1>8, <1>9 DEF Hasty!Next

\* What is executed has waited.
LEMMA TurnIsWaitedFor == TurnInv /\ [Hasty!Next]_smpcVars => Hasty!WaitsItsTurn
  <1> SUFFICES ASSUME TurnInv, [Hasty!Next]_smpcVars, ~Hasty!Locked, Hasty!Locked'
               PROVE  over
    BY DEF Hasty!WaitsItsTurn
  <1>1. core7' # core7 /\ core7' \notin {"parked", "awake"}
    BY DEF Hasty!Locked
  <1>2. Hasty!Begin
    BY <1>1 DEF Hasty!Next, smpcVars, Hasty!smpc, Hasty!StoreIreg1, Hasty!StoreIreg0,
       Hasty!StoreComreg, Hasty!Handles, Hasty!HandleIreg0, Hasty!HandleComreg,
       Hasty!ReadSf, Hasty!DelayOver, Hasty!Line207, Hasty!Dispatch, Hasty!BlankIn,
       Hasty!BlankOut, Hasty!Finish
  <1> QED
    BY <1>1, <1>2 DEF Hasty!Begin, TurnInv

\* What an SH-2 may have stored and not handled yet.
Stores == {Smpc!Nothing} \cup ({"IREG0"} \X Smpc!Values) \cup ({"COMREG"} \X SmpcCommands)

\* An INTBACK is on its way: stored, pending or being executed.
Asked ==
    \/ core7 = "INTBACK"
    \/ pending # Smpc!Nothing /\ pending[1] = "INTBACK"
    \/ \E w \in SmpcWriters : store[w] = <<"COMREG", "INTBACK">>

\* The inductive invariant: once an INTBACK is cut, the next is a new one.
CutInv ==
    /\ WaitingInv
    /\ store \in [SmpcWriters -> Stores]
    /\ \A w \in SmpcWriters : store[w] # Smpc!Nothing => idle # {}
    /\ ~firstPeri
    /\ intback => sr # "cut"
    /\ sr = "cut" /\ Asked => ireg0 \in {"0", "status"}

\* Every step keeps a cut INTBACK cut, if one program writes and waits.
LEMMA CutStep ==
    ASSUME NEW only, SmpcWriters = {only}, CutInv, [Smpc!Next]_smpcVars
    PROVE  CutInv' /\ (sr = "cut" => sr' # "next")
<1> DEFINE Goal == CutInv' /\ (sr = "cut" => sr' # "next")
<1> SUFFICES Goal
  OBVIOUS
<1>1. WaitingInv'
  BY WaitingStep DEF CutInv
<1>2. ASSUME UNCHANGED <<store, idle, firstPeri, intback, sr, ireg0, pending>>,
             core7' = core7 \/ core7' # "INTBACK"
      PROVE  Goal
  BY <1>1, <1>2 DEF CutInv, Asked
<1> HIDE DEF Goal
<1>3. ASSUME \E ports \in BOOLEAN : Smpc!StoreIreg1(only, ports)
      PROVE  Goal
  BY <1>2, <1>3 DEF Smpc!StoreIreg1, Smpc!smpc
<1>4. ASSUME NEW v \in Smpc!Values, Smpc!StoreIreg0(only, v)
      PROVE  Goal
  <2>1. /\ store' = [store EXCEPT ![only] = <<"IREG0", v>>]
        /\ only \in idle /\ store[only] = Smpc!Nothing
        /\ UNCHANGED <<idle, firstPeri, intback, sr, pending, core7>>
    BY <1>4 DEF Smpc!StoreIreg0, Smpc!May, Smpc!smpc
  <2>2. pending = Smpc!Nothing /\ core7 # "INTBACK"
    BY <2>1 DEF CutInv, WaitingInv, Smpc!IdleMeansDone, Smpc!Locked
  <2>3. store' \in [SmpcWriters -> Stores] /\ store'[only] = <<"IREG0", v>>
    BY <2>1 DEF CutInv, Stores
  <2>4. ~Asked'
    BY <2>1, <2>2, <2>3 DEF Asked
  <2> QED BY <1>1, <2>1, <2>3, <2>4 DEF CutInv, Goal
<1>5. ASSUME NEW c \in SmpcCommands, Smpc!StoreComreg(only, c)
      PROVE  Goal
  <2>1. /\ store' = [store EXCEPT ![only] = <<"COMREG", c>>]
        /\ only \in idle /\ store[only] = Smpc!Nothing
        /\ UNCHANGED <<idle, firstPeri, intback, sr, pending, core7, ireg0>>
        /\ c = "INTBACK" => ireg0 \in {"0", "status"}
    BY <1>5 DEF Smpc!StoreComreg, Smpc!May, Smpc!smpc, Smpc!regs
  <2>2. pending = Smpc!Nothing /\ core7 # "INTBACK"
    BY <2>1 DEF CutInv, WaitingInv, Smpc!IdleMeansDone, Smpc!Locked
  <2>3. store' \in [SmpcWriters -> Stores] /\ store'[only] = <<"COMREG", c>>
    BY <2>1 DEF CutInv, Stores
  <2>4. Asked' => c = "INTBACK"
    BY <2>1, <2>2, <2>3 DEF Asked
  <2> QED BY <1>1, <2>1, <2>3, <2>4 DEF CutInv, Goal
<1>6. ASSUME Smpc!HandleIreg0(only)
      PROVE  Goal
  <2>1. /\ store' = [store EXCEPT ![only] = Smpc!Nothing] /\ store[only] # Smpc!Nothing
        /\ store[only][1] = "IREG0" /\ UNCHANGED <<firstPeri, core7, ireg0>>
    BY <1>6 DEF Smpc!HandleIreg0
  <2>2. pending = Smpc!Nothing /\ core7 # "INTBACK"
    BY <2>1 DEF CutInv, WaitingInv, Smpc!IdleMeansDone, Smpc!Locked
  <2>3. store' \in [SmpcWriters -> Stores] /\ store'[only] = Smpc!Nothing
    BY <2>1 DEF CutInv, Stores
  <2>4. CASE intback /\ store[only][2] = "break"
    <3>1. intback' = FALSE /\ sr' = "cut" /\ UNCHANGED <<pending, idle>>
      BY <1>6, <2>4 DEF Smpc!HandleIreg0
    <3>2. ~Asked'
      BY <2>1, <2>2, <2>3, <3>1 DEF Asked, Smpc!Nothing
    <3> QED BY <1>1, <2>1, <2>3, <3>1, <3>2 DEF CutInv, Goal
  <2>5. CASE ~(intback /\ store[only][2] = "break")
    <3>1. UNCHANGED <<sr, intback>> /\ (sr = "cut" => UNCHANGED <<pending, idle>>)
      BY <1>6, <2>5 DEF Smpc!HandleIreg0, CutInv
    <3>2. sr = "cut" => ~Asked'
      BY <2>1, <2>2, <2>3, <3>1 DEF Asked, Smpc!Nothing
    <3> QED BY <1>1, <2>1, <2>3, <3>1, <3>2 DEF CutInv, Goal
  <2> QED BY <2>4, <2>5
<1>7. ASSUME Smpc!HandleComreg(only)
      PROVE  Goal
  <2>1. /\ store' = [store EXCEPT ![only] = Smpc!Nothing] /\ store[only] # Smpc!Nothing
        /\ store[only][1] = "COMREG" /\ pending' = <<store[only][2], Smpc!WaitOf(store[only][2])>>
        /\ UNCHANGED <<firstPeri, core7, ireg0, sr, intback>>
    BY <1>7 DEF Smpc!HandleComreg, Smpc!Arm
  <2>2. pending = Smpc!Nothing /\ core7 # "INTBACK"
    BY <2>1 DEF CutInv, WaitingInv, Smpc!IdleMeansDone, Smpc!Locked
  <2>3. store' \in [SmpcWriters -> Stores] /\ store'[only] = Smpc!Nothing
    BY <2>1 DEF CutInv, Stores
  <2>4. Asked' => store[only] = <<"COMREG", "INTBACK">>
    <3>1. store[only] \in {"COMREG"} \X SmpcCommands
      BY <2>1 DEF CutInv, Stores, Smpc!Nothing
    <3>2. Asked' => store[only][2] = "INTBACK"
      BY <2>1, <2>2, <2>3 DEF Asked, Smpc!Nothing
    <3> QED BY <3>1, <3>2
  <2>5. Asked' => Asked
    BY <2>4 DEF Asked
  <2> QED BY <1>1, <2>1, <2>3, <2>5 DEF CutInv, Goal
<1>8. ASSUME Smpc!ReadSf(only)
      PROVE  Goal
  BY <1>1, <1>8 DEF Smpc!ReadSf, Smpc!regs, Smpc!smpc, CutInv, Asked, Goal
<1>9. ASSUME Smpc!DelayOver \/ Smpc!Line207
      PROVE  Goal
  BY <1>2, <1>9 DEF Smpc!DelayOver, Smpc!Line207, Smpc!Dispatch, Smpc!regs
<1>10. ASSUME Smpc!BlankIn \/ Smpc!BlankOut
       PROVE  Goal
  BY <1>1, <1>10 DEF Smpc!BlankIn, Smpc!BlankOut, Smpc!regs, Smpc!smpc, CutInv, Asked, Goal
<1>11. ASSUME Smpc!Begin
       PROVE  Goal
  BY <1>1, <1>11 DEF Smpc!Begin, CutInv, Asked, Goal
<1>12. ASSUME Smpc!Finish
       PROVE  Goal
  <2>1. UNCHANGED <<store, idle, ireg0, pending>> /\ core7' = "parked"
    BY <1>12 DEF Smpc!Finish
  <2>2. /\ ~firstPeri'
        /\ intback' => sr' # "cut"
        /\ sr = "cut" => sr' # "next"
    <3>1. CASE core7 = "INTBACK"
      <4>1. ~firstPeri /\ (sr = "cut" => ireg0 \in {"0", "status"}) /\ (intback => sr # "cut")
        BY <3>1 DEF CutInv, Asked
      <4>2. \/ Smpc!Status
            \/ intback' = FALSE /\ sr' = "cut" /\ UNCHANGED firstPeri
            \/ ireg0 \in {"0", "continue"} /\ Smpc!Chunk
            \/ UNCHANGED <<sr, intback, firstPeri>>
        BY <1>12, <3>1, Zenon DEF Smpc!Finish
      <4>3. CASE Smpc!Status
        BY <4>1, <4>3 DEF Smpc!Status
      <4>4. CASE ireg0 \in {"0", "continue"} /\ Smpc!Chunk
        <5>1. ~firstPeri' /\ sr' \in {"first", "next"} /\ (ireg0 = "0" => sr' = "first")
          BY <4>4, Zenon DEF Smpc!Chunk
        <5>2. sr = "cut" => ireg0 = "0"
          BY <4>1, <4>4
        <5> QED BY <5>1, <5>2
      <4>5. CASE \/ intback' = FALSE /\ sr' = "cut" /\ UNCHANGED firstPeri
                \/ UNCHANGED <<sr, intback, firstPeri>>
        BY <4>1, <4>5
      <4> QED BY <4>2, <4>3, <4>4, <4>5
    <3>2. CASE core7 # "INTBACK"
      <4>1. UNCHANGED <<sr, intback, firstPeri>>
        BY <1>12, <3>2 DEF Smpc!Finish
      <4>2. ~firstPeri /\ (intback => sr # "cut")
        BY DEF CutInv
      <4> QED BY <4>1, <4>2
    <3> QED BY <3>1, <3>2
  <2>3. pending = Smpc!Nothing /\ idle = {}
    BY <1>12 DEF Smpc!Finish, CutInv, WaitingInv, Smpc!IdleMeansDone
  <2>4. ~Asked'
    <3>1. store[only] = Smpc!Nothing
      BY <2>3 DEF CutInv
    <3> QED BY <2>1, <2>3, <3>1 DEF Asked, Smpc!Nothing
  <2> QED BY <1>1, <2>1, <2>2, <2>4 DEF CutInv, Goal
<1>13. ASSUME UNCHANGED smpcVars
       PROVE  Goal
  BY <1>2, <1>13 DEF smpcVars, Smpc!regs, Smpc!smpc
<1> QED
  BY <1>3, <1>4, <1>5, <1>6, <1>7, <1>8, <1>9, <1>10, <1>11, <1>12, <1>13
  DEF Smpc!Next, Smpc!Handles

-----------------------------------------------------------------------------
(***************************************************************************)
(* The interpreter of the DSP, on programs of jumps, loops, calls and ends.*)
(***************************************************************************)

\* The fields of its state.
DspFields ==
    {"pc", "prog", "md", "ct", "rx", "ry", "ra0", "wa0", "ra0m", "wa0m", "lop", "top", "inc",
     "ac", "p", "alu", "flags", "ex", "e", "t0", "port", "addr", "jmp", "delayed", "wait",
     "dma", "mem"}

DspPlaces == 0 .. JumpLength - 1

IsDsp(s) == s = [field \in DspFields |-> s[field]]

\* What a step of the program or of the ports relies on: no transfer is under way, a
\* jump that is pending is one that was delayed, and a running program is then at an
\* instruction that is neither a loop nor a call.
JumpsInv ==
    /\ IsDsp(dsp) /\ dsp.pc \in DspPlaces /\ dsp.top \in DspPlaces /\ dsp.prog \in Mixed
    /\ dsp.ex \in BOOLEAN /\ dsp.delayed \in BOOLEAN
    /\ dsp.t0 = FALSE /\ dsp.wait = 0 /\ dsp.addr = <<0, 0>>
    /\ dsp.jmp \in DspPlaces \cup {-1}
    /\ dsp.jmp # -1 => dsp.delayed
    /\ dsp.ex /\ dsp.jmp # -1 => dsp.prog[dsp.pc] \notin LoopOps

LEMMA PlaceAfter == \A n \in DspPlaces : (n + 1) % JumpLength \in DspPlaces
  BY JumpsAssumption DEF DspPlaces

LEMMA JumpsStart == Jumps!DspInit => JumpsInv
  <1> SUFFICES ASSUME Jumps!DspInit PROVE JumpsInv
    OBVIOUS
  <1>1. PICK program \in Mixed : \E start, memory : dsp = Jumps!Fresh(program, start, memory)
    BY DEF Jumps!DspInit
  <1>4. PICK start, memory : dsp = Jumps!Fresh(program, start, memory)
    BY <1>1
  <1>2. /\ IsDsp(dsp) /\ dsp.pc = 0 /\ dsp.top = 0 /\ dsp.prog = program /\ dsp.ex = TRUE
        /\ dsp.delayed = FALSE /\ dsp.t0 = FALSE /\ dsp.wait = 0 /\ dsp.addr = <<0, 0>>
        /\ dsp.jmp = -1
    BY <1>4 DEF Jumps!Fresh, IsDsp, DspFields, Jumps!None
  <1>3. 0 \in DspPlaces
    BY JumpsAssumption DEF DspPlaces
  <1> QED
    BY <1>2, <1>3, Zenon DEF JumpsInv

\* An instruction in the program.
LEMMA KindsOfInstructions ==
    ASSUME NEW i \in JumpOps \cup LoopOps \cup {Nop, EndOp}
    PROVE  \/ i = Nop \/ i = EndOp
           \/ i.class = "jmp" /\ i.target \in DspPlaces /\ i \in JumpOps
           \/ i.class \in {"lps", "btm"} /\ i \in LoopOps
           \/ /\ i.class = "mvi" /\ i.cond = "always" /\ i.dest = <<"call">> /\ i.val \in DspPlaces
              /\ i \in LoopOps
  <1>1. CASE i \in JumpOps
    BY <1>1, JumpsAssumption DEF JumpOps, Jmp, DspPlaces
  <1>2. CASE i \in LoopOps
    BY <1>2, JumpsAssumption DEF LoopOps, DspPlaces
  <1> QED
    BY <1>1, <1>2

\* What every step of a program of jumps leaves as it is.
KeepsMemory(s, t) ==
    /\ IsDsp(t) /\ t.prog = s.prog /\ t.t0 = s.t0 /\ t.wait = s.wait /\ t.addr = s.addr

LEMMA Finishes ==
    ASSUME NEW s, IsDsp(s)
    PROVE  LET u == Jumps!Finish(s)
           IN  /\ KeepsMemory(s, u) /\ u.ex = s.ex /\ u.top = s.top /\ u.port = s.port
               /\ s.jmp = -1 => u.pc = (s.pc + 1) % JumpLength /\ u.jmp = -1 /\ u.delayed = s.delayed
               /\ s.jmp # -1 /\ s.delayed => u.pc = s.jmp /\ u.jmp = -1 /\ u.delayed = s.delayed
               /\ s.jmp # -1 /\ ~s.delayed =>
                      u.pc = (s.pc + 1) % JumpLength /\ u.jmp = s.jmp /\ u.delayed = TRUE
  <1> DEFINE a == Jumps!ApplyInc(s)
             t == [a EXCEPT !.pc = (@ + 1) % JumpLength]
  <1>1. /\ IsDsp(a) /\ a.pc = s.pc /\ a.ex = s.ex /\ a.top = s.top /\ a.port = s.port
        /\ a.jmp = s.jmp /\ a.delayed = s.delayed /\ KeepsMemory(s, a)
    BY DEF Jumps!ApplyInc, IsDsp, DspFields, KeepsMemory
  <1> HIDE DEF a
  <1>2. /\ IsDsp(t) /\ t.pc = (s.pc + 1) % JumpLength /\ t.ex = s.ex /\ t.top = s.top
        /\ t.port = s.port /\ t.jmp = s.jmp /\ t.delayed = s.delayed /\ KeepsMemory(s, t)
    BY <1>1 DEF IsDsp, DspFields, KeepsMemory
  <1>3. Jumps!Finish(s) =
            CASE t.jmp = -1 -> t
              [] t.jmp # -1 /\ t.delayed -> [t EXCEPT !.pc = t.jmp, !.jmp = -1]
              [] OTHER -> [t EXCEPT !.delayed = TRUE]
    BY DEF Jumps!Finish, Jumps!None, a
  <1> HIDE DEF t
  <1> DEFINE u == Jumps!Finish(s)
  <1>4. CASE s.jmp = -1
    <2>1. u = t
      BY <1>2, <1>3, <1>4
    <2> QED
      BY <1>2, <1>4, <2>1
  <1>5. CASE s.jmp # -1 /\ s.delayed
    <2>1. u = [t EXCEPT !.pc = t.jmp, !.jmp = -1]
      BY <1>2, <1>3, <1>5
    <2> HIDE DEF u
    <2>2. u.pc = s.jmp /\ u.jmp = -1 /\ u.delayed = s.delayed /\ KeepsMemory(s, u) /\ u.ex = s.ex
          /\ u.top = s.top /\ u.port = s.port
      BY <1>2, <2>1, Zenon DEF IsDsp, DspFields, KeepsMemory
    <2> QED
      BY <1>5, <2>2 DEF u
  <1>6. CASE s.jmp # -1 /\ ~s.delayed
    <2>1. u = [t EXCEPT !.delayed = TRUE]
      BY <1>2, <1>3, <1>6
    <2> HIDE DEF u
    <2>2. /\ u.pc = (s.pc + 1) % JumpLength /\ u.jmp = s.jmp /\ u.delayed = TRUE /\ KeepsMemory(s, u)
          /\ u.ex = s.ex /\ u.top = s.top /\ u.port = s.port
      BY <1>2, <2>1, Zenon DEF IsDsp, DspFields, KeepsMemory
    <2> QED
      BY <1>6, <2>2 DEF u
  <1> QED
    BY <1>4, <1>5, <1>6

\* What an instruction does to the control of the program: nothing, an end, or a jump.
Passes(s, t) ==
    /\ KeepsMemory(s, t) /\ t.pc = s.pc /\ t.ex = s.ex /\ t.top = s.top
    /\ t.jmp = s.jmp /\ t.delayed = s.delayed

Ends(s, t) ==
    /\ KeepsMemory(s, t) /\ t.pc = s.pc /\ t.ex = FALSE /\ t.top = s.top
    /\ t.port = (s.pc + 1) % JumpLength /\ t.jmp = s.jmp /\ t.delayed = s.delayed

JumpsAway(s, t) ==
    /\ KeepsMemory(s, t) /\ t.pc = s.pc /\ t.ex = s.ex /\ t.top \in DspPlaces
    /\ t.jmp \in DspPlaces /\ ~t.delayed

LEMMA Executes ==
    ASSUME NEW s, IsDsp(s), s.pc \in DspPlaces, s.top \in DspPlaces,
           NEW i \in JumpOps \cup LoopOps \cup {Nop, EndOp}, s.jmp # -1 => i \notin LoopOps
    PROVE  LET t == Jumps!Execute(s, i)
           IN  \/ Passes(s, t)
               \/ Ends(s, t)
               \/ s.jmp = -1 /\ i \in JumpOps \cup LoopOps /\ JumpsAway(s, t)
  <1> DEFINE t == Jumps!Execute(s, i)
             Fine == \/ Passes(s, t) \/ Ends(s, t)
                     \/ s.jmp = -1 /\ i \in JumpOps \cup LoopOps /\ JumpsAway(s, t)
  <1> SUFFICES Fine
    OBVIOUS
  <1> HIDE DEF Fine
  <1>1. ASSUME NEW r, IsDsp(r), Passes(s, r), NEW to \in DspPlaces PROVE JumpsAway(s, Jumps!JumpTo(r, to))
    BY <1>1 DEF Jumps!JumpTo, Passes, JumpsAway, KeepsMemory, IsDsp, DspFields
  <1>2. ASSUME NEW to \in DspPlaces, t = Jumps!Loop(s, to) PROVE Passes(s, t) \/ JumpsAway(s, t)
    <2> DEFINE r == [s EXCEPT !.lop = @ - 1]
    <2>1. IsDsp(r) /\ Passes(s, r)
      BY DEF IsDsp, DspFields, Passes, KeepsMemory
    <2>2. t = IF s.lop = 0 THEN s ELSE Jumps!JumpTo(r, to)
      BY <1>2 DEF Jumps!Loop
    <2>3. Passes(s, s)
      BY DEF Passes, KeepsMemory
    <2> HIDE DEF r, t
    <2> QED
      BY <1>1, <2>1, <2>2, <2>3
  <1>3. CASE i = Nop
    <2> DEFINE r == Jumps!AluResult(i.alu, s.ac, s.p, s.flags)
               m == [s EXCEPT !.alu = r.alu, !.flags = r.flags]
    <2>1. t = Jumps!Operation(m, i)
      BY <1>3 DEF Jumps!Execute, Nop
    <2>2. Passes(s, m)
      BY Zenon DEF IsDsp, DspFields, Passes, KeepsMemory
    <2> HIDE DEF m
    <2>3. Jumps!Operation(m, i) = m
      <3>1. <<>> # <<"mul">> /\ <<>> # <<"clr">> /\ <<>> # <<"alu">>
        OBVIOUS
      <3> QED
        BY <1>3, <3>1, Zenon DEF Nop, Jumps!Operation
    <2> QED
      BY <2>1, <2>2, <2>3 DEF Fine
  <1>4. CASE i = EndOp
    <2>1. t = Jumps!Stop(s, FALSE)
      BY <1>4 DEF Jumps!Execute, EndOp
    <2> QED
      BY <2>1, Zenon DEF Fine, Jumps!Stop, Ends, KeepsMemory, IsDsp, DspFields
  <1>5. CASE i.class = "jmp" /\ i.target \in DspPlaces /\ i \in JumpOps
    <2>1. t = IF s.jmp = -1 /\ Jumps!Holds(s, i.cond) THEN Jumps!JumpTo(s, i.target) ELSE s
      BY <1>5 DEF Jumps!Execute, Jumps!None
    <2>2. Passes(s, s)
      BY DEF Passes, KeepsMemory
    <2>3. JumpsAway(s, Jumps!JumpTo(s, i.target))
      BY <1>1, <1>5, <2>2
    <2> HIDE DEF t
    <2> QED
      BY <1>5, <2>1, <2>2, <2>3 DEF Fine
  <1>6. CASE i.class \in {"lps", "btm"} /\ i \in LoopOps
    <2>1. t = Jumps!Loop(s, IF i.class = "lps" THEN s.pc ELSE s.top)
      BY <1>6 DEF Jumps!Execute
    <2>2. (IF i.class = "lps" THEN s.pc ELSE s.top) \in DspPlaces /\ s.jmp = -1
      BY <1>6
    <2>3. Passes(s, t) \/ JumpsAway(s, t)
      BY <1>2, <2>1, <2>2
    <2> HIDE DEF t
    <2> QED
      BY <1>6, <2>2, <2>3 DEF Fine
  <1>7. CASE /\ i.class = "mvi" /\ i.cond = "always" /\ i.dest = <<"call">> /\ i.val \in DspPlaces
             /\ i \in LoopOps
    <2> DEFINE m == [s EXCEPT !.alu = s.ac]
    <2>1. t = Jumps!WriteDest(m, i.dest, i.val)
      <3>1. Jumps!Holds(s, i.cond)
        BY <1>7 DEF Jumps!Holds
      <3> QED
        BY <1>7, <3>1 DEF Jumps!Execute
    <2>2. Passes(s, m) /\ IsDsp(m)
      BY DEF IsDsp, DspFields, Passes, KeepsMemory
    <2> HIDE DEF m, t
    <2>3. i.dest[1] = "call"
      BY <1>7
    <2>4. t = [m EXCEPT !.top = (m.pc + 1) % JumpLength, !.jmp = i.val, !.delayed = FALSE]
      BY <2>1, <2>3 DEF Jumps!WriteDest
    <2>5. (m.pc + 1) % JumpLength \in DspPlaces
      BY <2>2, PlaceAfter DEF Passes
    <2>6. t.top \in DspPlaces /\ t.jmp = i.val /\ t.delayed = FALSE /\ t.pc = m.pc /\ t.ex = m.ex /\ KeepsMemory(s, t)
      BY <2>2, <2>4, <2>5, Zenon DEF IsDsp, DspFields, Passes, KeepsMemory
    <2>7. JumpsAway(s, t)
      BY <1>7, <2>2, <2>6 DEF JumpsAway, Passes
    <2>8. s.jmp = -1
      BY <1>7
    <2> QED
      BY <1>7, <2>7, <2>8 DEF Fine
  <1> QED
    BY <1>3, <1>4, <1>5, <1>6, <1>7, KindsOfInstructions

LEMMA StepOfAProgram ==
    ASSUME JumpsInv, Jumps!Step
    PROVE  \E i \in JumpOps \cup LoopOps \cup {Nop, EndOp} :
              LET t == Jumps!Execute([dsp EXCEPT !.inc = {}], i)
              IN  i = dsp.prog[dsp.pc] /\ dsp' = Jumps!Finish(t)
  <1> DEFINE i == dsp.prog[dsp.pc]
  <1>1. dsp.t0 = FALSE /\ dsp.wait = 0 /\ i \in JumpOps \cup LoopOps \cup {Nop, EndOp}
    BY DEF JumpsInv, Mixed, DspPlaces
  <1>2. Jumps!StepDma(dsp) = dsp
    BY <1>1 DEF Jumps!StepDma
  <1>3. Jumps!Force(dsp, i) = dsp
    BY <1>1 DEF Jumps!Force
  <1>4. Jumps!Decided(dsp, i) = i
    BY <1>1 DEF Jumps!Decided
  <1>5. dsp' = Jumps!Finish(Jumps!Execute([dsp EXCEPT !.inc = {}], i))
    BY <1>2, <1>3, <1>4 DEF Jumps!Step
  <1> QED
    BY <1>1, <1>5

\* A step of the program: the counter goes on, jumps, or is about to.
LEMMA ProgramStep ==
    ASSUME JumpsInv, Jumps!Step
    PROVE  /\ JumpsInv'
           /\ dsp'.pc = Jumps!AfterNext
           /\ \/ ~Jumps!InSlot /\ Jumps!InSlot'
              \/ ~Jumps!InSlot' /\ Jumps!AfterNext' = (Jumps!AfterNext + 1) % JumpLength
           /\ dsp.jmp = -1 /\ ~dsp'.ex => dsp'.port = dsp'.pc
  <1> DEFINE Fine ==
                 /\ JumpsInv'
                 /\ dsp'.pc = Jumps!AfterNext
                 /\ \/ ~Jumps!InSlot /\ Jumps!InSlot'
                    \/ ~Jumps!InSlot' /\ Jumps!AfterNext' = (Jumps!AfterNext + 1) % JumpLength
                 /\ dsp.jmp = -1 /\ ~dsp'.ex => dsp'.port = dsp'.pc
  <1> SUFFICES Fine
    OBVIOUS
  <1> HIDE DEF Fine
  <1> DEFINE s == [dsp EXCEPT !.inc = {}]
             t == Jumps!Execute(s, dsp.prog[dsp.pc])
             u == Jumps!Finish(t)
             i == dsp.prog[dsp.pc]
  <1>1. i \in JumpOps \cup LoopOps \cup {Nop, EndOp} /\ dsp' = u
    BY StepOfAProgram
  <1>2. /\ KeepsMemory(dsp, s) /\ s.pc = dsp.pc /\ s.ex = dsp.ex /\ s.top = dsp.top /\ s.jmp = dsp.jmp
        /\ s.delayed = dsp.delayed
    BY DEF JumpsInv, IsDsp, DspFields, KeepsMemory
  <1>3. dsp.ex
    BY DEF Jumps!Step
  <1>4. s.jmp # -1 => i \notin LoopOps
    BY <1>2, <1>3 DEF JumpsInv
  <1> HIDE DEF s, i
  <1>5. \/ Passes(s, t) \/ Ends(s, t)
        \/ s.jmp = -1 /\ i \in JumpOps \cup LoopOps /\ JumpsAway(s, t)
    <2>1. IsDsp(s) /\ s.pc \in DspPlaces /\ s.top \in DspPlaces
      BY <1>2 DEF KeepsMemory, JumpsInv
    <2> QED
      BY <1>1, <1>4, <2>1, Executes DEF i
  <1> HIDE DEF t
  <1>6. IsDsp(t) /\ KeepsMemory(s, t)
    BY <1>5 DEF Passes, Ends, JumpsAway, KeepsMemory
  <1>7. /\ KeepsMemory(t, u) /\ u.ex = t.ex /\ u.top = t.top /\ u.port = t.port
        /\ t.jmp = -1 => u.pc = (t.pc + 1) % JumpLength /\ u.jmp = -1 /\ u.delayed = t.delayed
        /\ t.jmp # -1 /\ t.delayed => u.pc = t.jmp /\ u.jmp = -1 /\ u.delayed = t.delayed
        /\ t.jmp # -1 /\ ~t.delayed =>
               u.pc = (t.pc + 1) % JumpLength /\ u.jmp = t.jmp /\ u.delayed = TRUE
    BY <1>6, Finishes
  <1> HIDE DEF u
  <1>8. /\ dsp.pc \in DspPlaces /\ dsp.top \in DspPlaces /\ dsp.jmp \in DspPlaces \cup {-1} /\ -1 \notin DspPlaces
        /\ dsp.delayed \in BOOLEAN /\ (dsp.jmp # -1 => dsp.delayed) /\ dsp.prog \in Mixed
        /\ dsp.t0 = FALSE /\ dsp.wait = 0 /\ dsp.addr = <<0, 0>>
    BY DEF JumpsInv, DspPlaces
  <1>9. IsDsp(u) /\ u.prog = dsp.prog /\ u.t0 = FALSE /\ u.wait = 0 /\ u.addr = <<0, 0>>
    BY <1>2, <1>6, <1>7, <1>8 DEF KeepsMemory
  <1>10. Jumps!AfterNext = IF dsp.jmp # -1 THEN dsp.jmp ELSE (dsp.pc + 1) % JumpLength
    BY DEF Jumps!AfterNext, Jumps!None
  <1>11. Jumps!AfterNext' = IF u.jmp # -1 THEN u.jmp ELSE (u.pc + 1) % JumpLength
    BY <1>1 DEF Jumps!AfterNext, Jumps!None
  <1>12. (Jumps!InSlot <=> dsp.jmp # -1) /\ (Jumps!InSlot' <=> u.jmp # -1)
    BY <1>1 DEF Jumps!InSlot, Jumps!None
  <1>13. (dsp.pc + 1) % JumpLength \in DspPlaces
    BY <1>8, PlaceAfter
  <1>14. CASE t.jmp = dsp.jmp /\ t.delayed = dsp.delayed /\ t.pc = dsp.pc /\ t.top = dsp.top
              /\ (t.ex = dsp.ex \/ (t.ex = FALSE /\ t.port = (dsp.pc + 1) % JumpLength))
    <2>1. u.jmp = -1 /\ u.pc = Jumps!AfterNext /\ u.top = dsp.top /\ u.delayed = dsp.delayed
      BY <1>7, <1>8, <1>10, <1>14
    <2>2. u.pc \in DspPlaces /\ u.ex \in BOOLEAN
      BY <1>3, <1>7, <1>8, <1>10, <1>13, <1>14, <2>1
    <2>3. JumpsInv'
      BY <1>1, <1>8, <1>9, <2>1, <2>2 DEF JumpsInv
    <2>4. dsp.jmp = -1 /\ ~u.ex => u.port = u.pc
      BY <1>3, <1>7, <1>10, <1>14, <2>1
    <2> QED
      BY <1>1, <1>11, <1>12, <2>1, <2>3, <2>4 DEF Fine
  <1>15. CASE s.jmp = -1 /\ i \in JumpOps \cup LoopOps /\ JumpsAway(s, t)
    <2>1. /\ dsp.jmp = -1 /\ t.jmp \in DspPlaces /\ ~t.delayed /\ t.pc = dsp.pc /\ t.ex = dsp.ex
          /\ t.top \in DspPlaces
      BY <1>2, <1>15 DEF JumpsAway
    <2>2. /\ u.pc = (dsp.pc + 1) % JumpLength /\ u.jmp \in DspPlaces /\ u.delayed = TRUE
          /\ u.ex = TRUE /\ u.top \in DspPlaces
      <3>1. dsp.ex = TRUE
        BY <1>3 DEF JumpsInv
      <3> QED
        BY <1>7, <1>8, <2>1, <3>1
    <2>3. dsp.prog[u.pc] \notin LoopOps
      BY <1>8, <1>15, <2>2 DEF Mixed, DspPlaces, i
    <2>4. JumpsInv'
      BY <1>1, <1>8, <1>9, <1>13, <2>2, <2>3 DEF JumpsInv
    <2>5. dsp'.pc = Jumps!AfterNext /\ ~Jumps!InSlot /\ Jumps!InSlot' /\ dsp'.ex
      <3>1. u.jmp # -1
        BY <1>8, <2>2
      <3> QED
        BY <1>1, <1>10, <1>12, <2>1, <2>2, <3>1
    <2> QED
      BY <2>4, <2>5, Zenon DEF Fine
  <1> QED
    <2>1. CASE Passes(s, t)
      BY <1>2, <1>14, <2>1 DEF Passes
    <2>2. CASE Ends(s, t)
      BY <1>2, <1>14, <2>2 DEF Ends
    <2> QED
      BY <1>5, <1>15, <2>1, <2>2

\* A write or a read at the ports.
LEMMA PortAccess ==
    ASSUME JumpsInv, Jumps!Ports
    PROVE  /\ JumpsInv'
           /\ \/ UNCHANGED dspVars
              \/ /\ dsp.ex => dsp'.pc = dsp.pc
                 /\ dsp'.ex => ~Jumps!InSlot'
                 /\ ~dsp'.ex => dsp'.jmp = dsp.jmp
  <1> DEFINE Fine ==
                 /\ JumpsInv'
                 /\ \/ UNCHANGED dspVars
                    \/ /\ dsp.ex => dsp'.pc = dsp.pc
                       /\ dsp'.ex => ~Jumps!InSlot'
                       /\ ~dsp'.ex => dsp'.jmp = dsp.jmp
  <1> SUFFICES Fine
    OBVIOUS
  <1> HIDE DEF Fine
  <1>1. /\ IsDsp(dsp) /\ dsp.pc \in DspPlaces /\ dsp.top \in DspPlaces /\ dsp.prog \in Mixed
        /\ dsp.ex \in BOOLEAN /\ dsp.delayed \in BOOLEAN
        /\ dsp.t0 = FALSE /\ dsp.wait = 0 /\ dsp.addr = <<0, 0>> /\ dsp.jmp \in DspPlaces \cup {-1}
        /\ (dsp.jmp # -1 => dsp.delayed)
    BY DEF JumpsInv
  <1>2. ASSUME NEW c \in [le : BOOLEAN, pc : {1}, ex : BOOLEAN], Jumps!WriteControl(c) PROVE Fine
    <2> DEFINE place == IF c.le THEN c.pc ELSE dsp.pc
               to == IF c.ex THEN -1 ELSE dsp.jmp
    <2>1. dsp' = [dsp EXCEPT !.ex = c.ex, !.port = c.pc, !.pc = place, !.jmp = to]
      BY <1>2 DEF Jumps!WriteControl, Jumps!None
    <2>2. /\ place \in DspPlaces /\ to \in DspPlaces \cup {-1} /\ (dsp.ex => place = dsp.pc)
          /\ (c.ex => to = -1) /\ (~c.ex => to = dsp.jmp) /\ c.ex \in BOOLEAN
      BY <1>1, <1>2, JumpsAssumption DEF Jumps!WriteControl, DspPlaces
    <2> HIDE DEF place, to
    <2>3. /\ IsDsp(dsp)' /\ dsp'.pc = place /\ dsp'.jmp = to /\ dsp'.ex = c.ex /\ dsp'.top = dsp.top
          /\ dsp'.prog = dsp.prog /\ dsp'.delayed = dsp.delayed /\ dsp'.t0 = dsp.t0
          /\ dsp'.wait = dsp.wait /\ dsp'.addr = dsp.addr
      BY <1>1, <2>1 DEF IsDsp, DspFields
    <2>4. JumpsInv'
      BY <1>1, <2>2, <2>3 DEF JumpsInv
    <2> QED
      BY <2>2, <2>3, <2>4 DEF Fine, Jumps!InSlot, Jumps!None
  <1>3. ASSUME NEW i \in {Nop, EndOp}, Jumps!Upload(i) PROVE Fine
    <2> DEFINE prog == [dsp.prog EXCEPT ![dsp.pc] = i]
               after == (dsp.pc + 1) % JumpLength
    <2>1. dsp' = [dsp EXCEPT !.prog = prog, !.pc = after, !.port = after] /\ ~dsp.ex
      BY <1>3 DEF Jumps!Upload
    <2>2. after \in DspPlaces
      BY <1>1, PlaceAfter
    <2>3. prog \in Mixed
      <3>1. dsp.prog \in [DspPlaces -> JumpOps \cup LoopOps \cup {Nop, EndOp}] /\ i \notin JumpOps \cup LoopOps
        <4>1. Nop.class = "op" /\ EndOp.class = "end"
          BY DEF Nop, EndOp
        <4>2. \A j \in JumpOps \cup LoopOps : j.class \in {"jmp", "lps", "btm", "mvi"}
          BY DEF JumpOps, LoopOps, Jmp
        <4> QED
          BY <1>1, <1>3, <4>1, <4>2 DEF Mixed, DspPlaces
      <3>2. prog \in [DspPlaces -> JumpOps \cup LoopOps \cup {Nop, EndOp}]
        BY <3>1
      <3>3. ASSUME NEW k \in DspPlaces, prog[k] \in JumpOps \cup LoopOps
            PROVE  prog[(k + 1) % JumpLength] \notin LoopOps
        <4> DEFINE n == (k + 1) % JumpLength
        <4>1. n \in DspPlaces
          BY PlaceAfter
        <4>2. k # dsp.pc
          BY <1>1, <3>1, <3>3
        <4>3. dsp.prog[n] \notin LoopOps
          BY <1>1, <3>1, <3>3, <4>2 DEF Mixed, DspPlaces
        <4> HIDE DEF n
        <4>4. prog[n] \notin LoopOps
          BY <1>1, <3>1, <4>1, <4>3
        <4> QED
          BY <4>4 DEF n
      <3> QED
        BY <3>2, <3>3, Zenon DEF Mixed, DspPlaces
    <2> HIDE DEF prog, after
    <2>4. /\ IsDsp(dsp)' /\ dsp'.pc = after /\ dsp'.jmp = dsp.jmp /\ dsp'.ex = dsp.ex
          /\ dsp'.top = dsp.top /\ dsp'.prog = prog /\ dsp'.delayed = dsp.delayed
          /\ dsp'.t0 = dsp.t0 /\ dsp'.wait = dsp.wait /\ dsp'.addr = dsp.addr
      BY <1>1, <2>1 DEF IsDsp, DspFields
    <2>5. JumpsInv'
      BY <1>1, <2>1, <2>2, <2>3, <2>4 DEF JumpsInv
    <2> QED
      BY <2>1, <2>4, <2>5 DEF Fine
  <1>4. CASE UNCHANGED dspVars
    BY <1>4 DEF Fine, JumpsInv, IsDsp, dspVars
  <1>5. [dsp EXCEPT !.addr = <<0, 0>>] = dsp /\ Jumps!NextAddr = dsp
    <2>1. (0 + 1) % 1 = 0
      OBVIOUS
    <2>2. [dsp EXCEPT !.addr = dsp.addr] = dsp
      BY <1>1 DEF IsDsp, DspFields
    <2>3. [<<0, 0>> EXCEPT ![2] = 0] = <<0, 0>>
      OBVIOUS
    <2> QED
      BY <1>1, <2>1, <2>2, <2>3 DEF Jumps!NextAddr
  <1>6. ASSUME NEW v, Jumps!WriteData(v) PROVE Fine
    <2>1. CASE dsp.ex
      BY <1>4, <1>6, <2>1 DEF Jumps!WriteData, dspVars
    <2>2. CASE ~dsp.ex
      <3> DEFINE md == [dsp.md EXCEPT ![0] = [@ EXCEPT ![0] = v]]
      <3>1. dsp' = [dsp EXCEPT !.md = md]
        BY <1>1, <1>5, <1>6, <2>2 DEF Jumps!WriteData
      <3> HIDE DEF md
      <3>2. /\ IsDsp(dsp)' /\ dsp'.pc = dsp.pc /\ dsp'.jmp = dsp.jmp /\ dsp'.ex = dsp.ex
            /\ dsp'.top = dsp.top /\ dsp'.prog = dsp.prog /\ dsp'.delayed = dsp.delayed
            /\ dsp'.t0 = dsp.t0 /\ dsp'.wait = dsp.wait /\ dsp'.addr = dsp.addr
        BY <1>1, <3>1 DEF IsDsp, DspFields
      <3>3. JumpsInv'
        BY <1>1, <2>2, <3>2 DEF JumpsInv
      <3> QED
        BY <2>2, <3>2, <3>3 DEF Fine
    <2> QED
      BY <2>1, <2>2
  <1>7. ASSUME Jumps!ReadData PROVE Fine
    BY <1>4, <1>5, <1>7 DEF Jumps!ReadData, dspVars
  <1>8. ASSUME Jumps!WriteAddr(0 % 4, 0) PROVE Fine
    <2>1. 0 % 4 = 0
      OBVIOUS
    <2> QED
      BY <1>4, <1>5, <1>8, <2>1 DEF Jumps!WriteAddr, dspVars
  <1> QED
    BY <1>2, <1>3, <1>6, <1>7, <1>8 DEF Jumps!Ports

\* The DSP's counter is a pipeline of two addresses, and an end tells where it is.
LEMMA JumpsStep ==
    JumpsInv /\ [Jumps!DspNext]_dspVars =>
        JumpsInv' /\ (UNCHANGED dspVars \/ (Jumps!CounterIsAPipeline /\ Jumps!EndTellsWhere))
  <1> SUFFICES ASSUME JumpsInv, [Jumps!DspNext]_dspVars
               PROVE  /\ JumpsInv'
                      /\ UNCHANGED dspVars \/ (Jumps!CounterIsAPipeline /\ Jumps!EndTellsWhere)
    OBVIOUS
  <1>1. CASE UNCHANGED dspVars
    BY <1>1 DEF JumpsInv, IsDsp, dspVars
  <1>2. CASE Jumps!Step
    <2>1. dsp.ex
      BY <1>2 DEF Jumps!Step
    <2> QED
      BY <1>2, <2>1, ProgramStep DEF Jumps!CounterIsAPipeline, Jumps!EndTellsWhere, Jumps!None
  <1>3. CASE Jumps!Ports /\ ~Jumps!Step
    BY <1>3, PortAccess DEF Jumps!CounterIsAPipeline, Jumps!EndTellsWhere
  <1> QED
    BY <1>1, <1>2, <1>3 DEF Jumps!DspNext

-----------------------------------------------------------------------------
(***************************************************************************)
(* The components of the first emulator side by side, as TLC runs them.    *)
(***************************************************************************)

\* Every component starts in an initial state, those of many instances if it is theirs.
LEMMA SuiteStarts ==
    SuiteInit =>
        /\ Init /\ RamInit /\ EventsInit /\ IrqInit /\ Dma!EngineInit
        /\ Buffers!Init /\ Cd!DriveInit /\ Cd!PortInit /\ Cd!CommandInit
        /\ part = "jumps" => Jumps!DspInit
        /\ part = "frames" => Frames!Init
        /\ part = "timer1" => Timer1!Init
        /\ part = "moved" => Moved!Init
        /\ part = "smpc" => Smpc!Init
        /\ part = "hasty" => Hasty!Init
        /\ Polled!Init \/ Reported!Init
  <1> SUFFICES ASSUME SuiteInit
               PROVE  /\ Init /\ RamInit /\ EventsInit /\ IrqInit /\ Dma!EngineInit
                      /\ Buffers!Init /\ Cd!DriveInit /\ Cd!PortInit /\ Cd!CommandInit
                      /\ part = "jumps" => Jumps!DspInit
                      /\ part = "frames" => Frames!Init
                      /\ part = "timer1" => Timer1!Init
                      /\ part = "moved" => Moved!Init
                      /\ part = "smpc" => Smpc!Init
                      /\ part = "hasty" => Hasty!Init
                      /\ Polled!Init \/ Reported!Init
    OBVIOUS
  <1>1. /\ Init /\ RamInit /\ EventsInit /\ IrqInit /\ Dma!EngineInit
        /\ Buffers!Init /\ Cd!DriveInit /\ Cd!PortInit /\ Cd!CommandInit
    BY DEF SuiteInit
  <1>2. /\ part = "jumps" => Jumps!DspInit
        /\ part = "frames" => Frames!Init
        /\ part = "timer1" => Timer1!Init
        /\ part = "moved" => Moved!Init
        /\ part = "smpc" => Smpc!Init
        /\ part = "hasty" => Hasty!Init
        /\ Polled!Init \/ Reported!Init
    BY DEF SuiteInit
  <1> QED
    BY <1>1, <1>2

\* A step of the suite is one of each component, or leaves it alone.
LEMMA SuiteSteps ==
    [SuiteNext]_suiteVars =>
        /\ [Next]_vars /\ [RamNext]_ramVars /\ [EventsNext]_eventsVars /\ [IrqNext]_irqVars
        /\ [Dma!EngineNext]_engineVars
        /\ [Buffers!Next]_buffersVars /\ [Cd!DriveNext]_driveVars /\ [Cd!PortNext]_cdPortVars
        /\ [Cd!CommandNext]_commandVars
        /\ part' = part
        /\ part = "moved" => [Moved!Next]_lineVars
        /\ part = "smpc" => [Smpc!Next]_smpcVars
        /\ part = "hasty" => [Hasty!Next]_smpcVars
        /\ [Polled!Next]_portsVars \/ [Reported!Next]_portsVars
  BY DEF SuiteNext, suiteVars, ButForCores, ButForRam, ButForEvents, ButForIrqs,
         ButForEngine, ButForUnits, ButForAlu, ButForDsp, ButForLine, ButForSmpc,
         ButForPorts, ButForBuffers, ButForDrive, ButForCdPort, ButForCommand

\* Where the rule of a step exempts a component that stands, the suite stands.
LEMMA LoneSteps ==
    [SuiteNext]_suiteVars =>
        /\ part = "jumps" =>
              [Jumps!DspNext]_dspVars /\ (UNCHANGED dspVars => UNCHANGED suiteVars)
        /\ part = "frames" =>
              [Frames!Next]_lineVars /\ (UNCHANGED lineVars => UNCHANGED suiteVars)
        /\ part = "timer1" =>
              [Timer1!Next]_lineVars /\ (UNCHANGED lineVars => UNCHANGED suiteVars)
  <1> SUFFICES ASSUME [SuiteNext]_suiteVars
               PROVE  /\ part = "jumps" =>
                            [Jumps!DspNext]_dspVars /\ (UNCHANGED dspVars => UNCHANGED suiteVars)
                      /\ part = "frames" =>
                            [Frames!Next]_lineVars /\ (UNCHANGED lineVars => UNCHANGED suiteVars)
                      /\ part = "timer1" =>
                            [Timer1!Next]_lineVars /\ (UNCHANGED lineVars => UNCHANGED suiteVars)
    OBVIOUS
  <1>1. CASE UNCHANGED suiteVars
    BY <1>1 DEF suiteVars
  <1>2. CASE SuiteNext
    <2>1. CASE part = "jumps"
      <3>1. Jumps!DspNext /\ UNCHANGED ButForDsp
        BY <1>2, <2>1 DEF SuiteNext
      <3>2. UNCHANGED dspVars /\ UNCHANGED ButForDsp => UNCHANGED suiteVars
        BY DEF ButForDsp, suiteVars
      <3> QED
        BY <2>1, <3>1, <3>2
    <2>2. CASE part = "frames"
      <3>1. Frames!Next /\ UNCHANGED ButForLine
        BY <1>2, <2>2 DEF SuiteNext
      <3>2. UNCHANGED lineVars /\ UNCHANGED ButForLine => UNCHANGED suiteVars
        BY DEF ButForLine, suiteVars
      <3> QED
        BY <2>2, <3>1, <3>2
    <2>3. CASE part = "timer1"
      <3>1. Timer1!Next /\ UNCHANGED ButForLine
        BY <1>2, <2>3 DEF SuiteNext
      <3>2. UNCHANGED lineVars /\ UNCHANGED ButForLine => UNCHANGED suiteVars
        BY DEF ButForLine, suiteVars
      <3> QED
        BY <2>3, <3>1, <3>2
    <2> QED
      BY <2>1, <2>2, <2>3
  <1> QED
    BY <1>1, <1>2

\* However the threads interleave, accesses to the work RAM are whole, land in order and
\* wait in no circle, a parked core is to be parked, and a raised interrupt is kept and
\* listed in order until it is delivered (shared_buffers.rs, sync.rs, archived scu.rs).
THEOREM ThreadsAlwaysShareSafely == SuiteSpec => []ThreadsShareSafely
  <1> DEFINE AllInv == SleepInv /\ RamInv /\ IrqsInv
  <1>1. SuiteInit => AllInv
    BY SuiteStarts, SleepStart, RamStart, IrqsStart
  <1>2. AllInv /\ [SuiteNext]_suiteVars => AllInv'
    BY SuiteSteps, SleepStep, RamStep, IrqsStep
  <1>3. AllInv => ThreadsShareSafely
    BY LocksExclude, RisingLocks DEF SleepInv, RamInv, IrqsInv, ThreadsShareSafely
  <1> QED
    BY <1>1, <1>2, <1>3, PTL DEF SuiteSpec

\* A drain delivers the one highest of the interrupts that are latched and not masked
\* (archived scu.rs).
THEOREM DrainsDeliverTheHighest == SuiteSpec => [][OneHighestPerWrite]_suiteVars
  <1>1. IrqsInv /\ [SuiteNext]_suiteVars => IrqsInv' /\ OneHighestPerWrite
    BY SuiteSteps, IrqsStep, DrainDelivers
  <1> QED
    BY <1>1, SuiteStarts, IrqsStart, PTL DEF SuiteSpec

\* However the master's writes, its interrupts and Core 6's passes interleave, no
\* transfer is cut off and none announces its end twice, if its first descriptor is
\* not empty; one whose first is empty ends without a word (archived scu.rs).
THEOREM EveryTransferEndsOnce ==
    ASSUME \A list \in Lists : list[1] # 0
    PROVE  SuiteSpec => []Dma!OneEndEach
  <1>1. Dma!DmaEngineAssumption
    BY InstanceAssumptions
  <1>2. SuiteInit => EngineInv
    BY <1>1, SuiteStarts, EngineStart
  <1>3. EngineInv /\ [SuiteNext]_suiteVars => EngineInv'
    BY <1>1, SuiteSteps, EngineStep
  <1>4. EngineInv => Dma!OneEndEach
    BY Zenon DEF EngineInv
  <1> QED
    BY <1>2, <1>3, <1>4, PTL DEF SuiteSpec

\* Every line of a frame is captured however the counter is moved and the clock changed;
\* who finds SF clear finds the results of the SMPC's command complete, and a command
\* that is written while SF is set is found so; a mouse's motion is told once; what a
\* program polls at a port is what INTBACK reports (archived sh2.rs, smpc.rs,
\* peripheral.rs).
THEOREM PeripheralsAlwaysExact == SuiteSpec => []PeripheralsAreExact
  <1> DEFINE AllInv == /\ part = "moved" => LinesInv
                       /\ part \in {"smpc", "hasty"} => WaitingInv
                       /\ PadsInv
  <1>1. SuiteInit => AllInv
    <2>1. (part = "smpc" => Smpc!Init) /\ (part = "hasty" => Hasty!Init) =>
              (part \in {"smpc", "hasty"} => WaitingInv)
      BY WaitingStart
    <2> QED
      BY <2>1, SuiteStarts, LinesStart, PadsStart, SamePeripherals
  <1>2. AllInv /\ [SuiteNext]_suiteVars => AllInv'
    <2>1. PadsInv /\ ([Polled!Next]_portsVars \/ [Reported!Next]_portsVars) => PadsInv'
      BY PadsStep, PolledEffect, ReportedEffect
    <2> QED
      BY <2>1, SuiteSteps, LinesStep, WaitingStep, HastyWaitingStep
  <1>3. AllInv => PeripheralsAreExact
    <2>1. PadsInv => Reported!MotionToldOnce
      BY SamePeripherals DEF PadsInv
    <2> QED
      BY <2>1, LinesAreCaptured, PollingIsExact
      DEF PeripheralsAreExact, WaitingInv, Smpc!BusyWhilePending, Hasty!BusyWhilePending,
          Smpc!Nothing, Hasty!Nothing
  <1> QED
    BY <1>1, <1>2, <1>3, PTL DEF SuiteSpec

\* If the host finishes its puts and writes its commands in one go, a block of the CD
\* buffer in use is in one place and the counts are those of the lists, a play stays in
\* its range and no time piles up, the records are the directory's and CMOK is of the
\* command that waits for it (archived cs2.rs).
THEOREM TheCdBlockIsExact == SuiteSpec => []CdBlockIsExact
  <1> DEFINE AllInv == Buffers!BuffersInv /\ DriveInv /\ PortInv /\ HandshakeInv
  <1>0. Buffers!HostFinishes
    BY InstanceAssumptions DEF Buffers!HostFinishes
  <1>1. SuiteInit => AllInv
    BY <1>0, SuiteStarts, Buffers!BuffersStart, DriveStart, PortStart, HandshakeStart
  <1>2. AllInv /\ [SuiteNext]_suiteVars => AllInv'
    <2>1. Buffers!BuffersInv /\ [Buffers!Next]_buffersVars => Buffers!BuffersInv'
      BY <1>0, Buffers!BuffersStep DEF buffersVars, Buffers!vars
    <2> QED
      BY <2>1, SuiteSteps, DriveStep, PortStep, HandshakeStep
  <1>3. AllInv => CdBlockIsExact
    BY Buffers!BuffersAreExact, HandshakeIsExact DEF DriveInv, PortInv, CdBlockIsExact
  <1> QED
    BY <1>1, <1>2, <1>3, PTL DEF SuiteSpec

\* A sector leaves the buffer when all of it was read, only the data of a data track is
\* stored, and a record is delivered whole (archived cs2.rs).
CdSteps == Buffers!DeletesWhatItDelivered /\ Cd!StoresOnlyData /\ Cd!DeliversWholeRecords

THEOREM CdStepsAreExact == SuiteSpec => [][CdSteps]_suiteVars
  <1> DEFINE AllInv == Buffers!BuffersInv /\ DriveInv /\ PortInv
  <1>0. Buffers!HostFinishes
    BY InstanceAssumptions DEF Buffers!HostFinishes
  <1>1. SuiteInit => AllInv
    BY <1>0, SuiteStarts, Buffers!BuffersStart, DriveStart, PortStart
  <1>2. AllInv /\ [SuiteNext]_suiteVars => AllInv' /\ CdSteps
    <2>1. Buffers!BuffersInv /\ [Buffers!Next]_buffersVars =>
              Buffers!BuffersInv' /\ (Buffers!ReadLong => Buffers!DeletesWhatItDelivered)
      BY <1>0, Buffers!BuffersStep DEF buffersVars, Buffers!vars
    <2>2. ~Buffers!ReadLong => Buffers!DeletesWhatItDelivered
      BY DEF Buffers!DeletesWhatItDelivered
    <2> QED
      BY <2>1, <2>2, SuiteSteps, DriveStep, PortStep DEF CdSteps
  <1> QED
    BY <1>1, <1>2, PTL DEF SuiteSpec

\* Whoever has read SF clear, and has armed nothing since, finds every result in its
\* place, although core 7 clears SF before it writes them (archived smpc.rs, sh2.rs).
THEOREM ResultsAreComplete ==
    SuiteSpec => [](part \in {"smpc", "hasty"} => Smpc!IdleMeansDone /\ Smpc!BusyWhilePending)
  <1> DEFINE Inv == part \in {"smpc", "hasty"} => WaitingInv
  <1>1. SuiteInit => Inv
    BY SuiteStarts, WaitingStart
  <1>2. Inv /\ [SuiteNext]_suiteVars => Inv'
    BY SuiteSteps, WaitingStep, HastyWaitingStep
  <1>3. Inv => (part \in {"smpc", "hasty"} => Smpc!IdleMeansDone /\ Smpc!BusyWhilePending)
    BY DEF WaitingInv
  <1> QED
    BY <1>1, <1>2, <1>3, PTL DEF SuiteSpec

\* Core 7 executes no command before its own time when only the master has the SMPC,
\* even for a program that writes commands over each other; the slave, which counts
\* nothing, has its commands executed by chance (archived lib.rs, smpc.rs).
THEOREM NoneIsEarly ==
    ASSUME SmpcWriters \subseteq {"master"}
    PROVE  SuiteSpec => [][part = "hasty" => Hasty!WaitsItsTurn]_suiteVars
  <1> DEFINE Inv == part = "hasty" => TurnInv
  <1>1. SuiteInit => Inv
    BY SuiteStarts DEF Hasty!Init, TurnInv
  <1>2. Inv /\ [SuiteNext]_suiteVars => Inv'
    BY SuiteSteps, TurnStep
  <1>3. Inv /\ [SuiteNext]_suiteVars => (part = "hasty" => Hasty!WaitsItsTurn)
    BY TurnIsWaitedFor, SuiteSteps
  <1> QED
    BY <1>1, <1>2, <1>3, PTL DEF SuiteSpec

\* A program that waits for SF between its commands, as the BIOS does, gets no more of a
\* report after its break (archived smpc.rs).
THEOREM BreaksAreFinal ==
    ASSUME NEW only, SmpcWriters = {only}
    PROVE  SuiteSpec => [][part = "smpc" => Smpc!BreakIsFinal]_suiteVars
  <1> DEFINE BreakInv == part = "smpc" => CutInv
  <1>1. SuiteInit => BreakInv
    BY SuiteStarts, WaitingStart DEF Smpc!Init, CutInv, Stores, Asked, Smpc!Nothing
  <1>2. CutInv /\ [Smpc!Next]_smpcVars => CutInv' /\ Smpc!BreakIsFinal
    BY CutStep DEF Smpc!BreakIsFinal
  <1>3. BreakInv /\ [SuiteNext]_suiteVars =>
            BreakInv' /\ (part = "smpc" => Smpc!BreakIsFinal)
    BY <1>2, SuiteSteps
  <1> QED
    BY <1>1, <1>3, PTL DEF SuiteSpec

\* Every step of the first emulator's components keeps its rule, if only the master
\* has the SMPC: a core wakes others for a reason; a drain delivers the highest; the
\* DSP's counter is a pipeline through every program of jumps, loops, calls, starts and
\* stops; a frame, a command's delay and Timer 1 take their cycles whatever the
\* instructions cost; no command is executed early and a break is final; a report of
\* any two peripherals parses; a sector, a track and a record are whole (archived
\* sync.rs, scu.rs, scu_dsp.rs, sh2.rs, smpc.rs, peripheral.rs, cs2.rs).
THEOREM StepsAlwaysKeepTheirRules ==
    ASSUME SmpcWriters = {"master"}
    PROVE  SuiteSpec => ArchivedStepsKeepTheirRules
  <1> DEFINE OwnInv == /\ part = "jumps" => JumpsInv
                       /\ part = "frames" => FramesInv
                       /\ part = "timer1" => TimerInv
                       /\ part = "smpc" => CutInv
                       /\ part = "hasty" => TurnInv
             SharedInv == /\ SleepInv /\ IrqsInv /\ PadsInv /\ AxesFit
                          /\ Buffers!BuffersInv /\ DriveInv /\ PortInv
             Rule == ArchivedStep \/ UNCHANGED suiteVars
  <1>0. Buffers!HostFinishes
    BY InstanceAssumptions DEF Buffers!HostFinishes
  <1>1. SuiteInit => OwnInv /\ SharedInv
    <2> SUFFICES ASSUME SuiteInit PROVE OwnInv /\ SharedInv
      OBVIOUS
    <2>1. OwnInv
      <3>1. part = "smpc" => CutInv
        BY SuiteStarts, WaitingStart DEF Smpc!Init, CutInv, Stores, Asked, Smpc!Nothing
      <3>2. part = "hasty" => TurnInv
        BY SuiteStarts DEF Hasty!Init, TurnInv
      <3> QED
        BY <3>1, <3>2, SuiteStarts, JumpsStart, FramesStart, TimerStart
    <2>2. SharedInv
      BY <1>0, SuiteStarts, SleepStart, IrqsStart, PadsStart, AxesStart, SamePeripherals,
         Buffers!BuffersStart, DriveStart, PortStart
    <2> QED
      BY <2>1, <2>2
  <1>2. OwnInv /\ SharedInv /\ [SuiteNext]_suiteVars => OwnInv' /\ SharedInv' /\ Rule
    <2> SUFFICES ASSUME OwnInv, SharedInv, [SuiteNext]_suiteVars
                 PROVE  OwnInv' /\ SharedInv' /\ Rule
      OBVIOUS
    <2>1. /\ part' = part
          /\ part = "jumps" => JumpsInv' /\ (UNCHANGED suiteVars
                                  \/ (Jumps!CounterIsAPipeline /\ Jumps!EndTellsWhere))
      BY SuiteSteps, LoneSteps, JumpsStep
    <2>2. part = "frames" => FramesInv' /\ (UNCHANGED suiteVars
                                  \/ (Frames!FrameTakesItsTime /\ Frames!CommandsWaitTheirDelay))
      BY LoneSteps, FramesStep
    <2>3. part = "timer1" => TimerInv' /\ (UNCHANGED suiteVars \/ Timer1!TimerOneNotEarly)
      BY LoneSteps, TimerStep
    <2>4. part = "smpc" => CutInv' /\ Smpc!BreakIsFinal
      BY SuiteSteps, CutStep DEF Smpc!BreakIsFinal
    <2>5. part = "hasty" => TurnInv' /\ Hasty!WaitsItsTurn
      BY SuiteSteps, TurnStep, TurnIsWaitedFor
    <2>6. SleepInv' /\ NoIdleBroadcast /\ IrqsInv' /\ OneHighestPerWrite
      BY SuiteSteps, SleepStep, BroadcastHasReason, IrqsStep, DrainDelivers
    <2>7. PadsInv' /\ AxesFit' /\ Reported!ReportParses
      <3>1. PadsEffect
        BY SuiteSteps, PolledEffect, ReportedEffect
      <3> QED
        BY <3>1, PadsStep, AxesStep, ReportsParse
    <2>8. Buffers!BuffersInv' /\ Buffers!DeletesWhatItDelivered
      <3>1. Buffers!BuffersInv /\ [Buffers!Next]_buffersVars =>
                Buffers!BuffersInv' /\ (Buffers!ReadLong => Buffers!DeletesWhatItDelivered)
        BY <1>0, Buffers!BuffersStep DEF buffersVars, Buffers!vars
      <3>2. ~Buffers!ReadLong => Buffers!DeletesWhatItDelivered
        BY DEF Buffers!DeletesWhatItDelivered
      <3> QED
        BY <3>1, <3>2, SuiteSteps
    <2>9. DriveInv' /\ Cd!StoresOnlyData /\ PortInv' /\ Cd!DeliversWholeRecords
      BY SuiteSteps, DriveStep, PortStep
    <2>10. OwnInv' /\ SharedInv'
      BY <2>1, <2>2, <2>3, <2>4, <2>5, <2>6, <2>7, <2>8, <2>9
    <2>11. Rule
      BY <2>1, <2>2, <2>3, <2>4, <2>5, <2>6, <2>7, <2>8, <2>9 DEF ArchivedStep
    <2> QED
      BY <2>10, <2>11
  <1> QED
    <2> HIDE DEF OwnInv, SharedInv
    <2>1. OwnInv /\ SharedInv /\ [SuiteNext]_suiteVars => [ArchivedStep]_suiteVars
      BY <1>2
    <2> QED
      BY <1>1, <1>2, <2>1, PTL DEF SuiteSpec, ArchivedStepsKeepTheirRules

=============================================================================
