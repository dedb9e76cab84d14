---------------------------- MODULE DeviceProofs ----------------------------
(***************************************************************************)
(* The devices of the live emulator.  The account of the sound CPU, for    *)
(* every ratio of the clocks, batch, cost of an instruction and length of  *)
(* a block: no cycle is lost, the output follows the core, and the core is *)
(* never ahead of the SH-2 and lags less than a batch.  The clock of the   *)
(* CD drive, for every batch and period.  The transfers of the SCU, for    *)
(* every memory, list, stride and address, and the runs of its DSP.  The   *)
(* timers and the slots of the SCSP, for every prescaler, batch and pitch. *)
(***************************************************************************)
EXTENDS MCBusDevices, TLAPS

-----------------------------------------------------------------------------
(***************************************************************************)
(* Arithmetic.                                                             *)
(***************************************************************************)

LEMMA Division ==
    ASSUME NEW n \in Nat \ {0}, NEW x \in Nat
    PROVE  /\ x \div n \in Nat /\ x % n \in 0 .. n - 1
           /\ x = n * (x \div n) + (x % n)
  OBVIOUS

LEMMA Distributes ==
    ASSUME NEW a \in Int, NEW b \in Int, NEW c \in Int
    PROVE  a * (b + c) = (a * b) + (a * c) /\ (a * b) \in Int
  OBVIOUS

LEMMA Grows ==
    ASSUME NEW n \in Nat, NEW a \in Int, NEW b \in Int, a <= b
    PROVE  n * a <= n * b
  OBVIOUS

LEMMA QuotientBelow ==
    ASSUME NEW n \in Nat \ {0}, NEW x \in Nat, NEW b \in Nat, x < n * (b + 1)
    PROVE  x \div n \in 0 .. b
  <1> DEFINE q == x \div n
  <1>1. q \in Nat /\ n * q <= x
    BY Division
  <1> HIDE DEF q
  <1>2. CASE q <= b
    BY <1>1, <1>2 DEF q
  <1>3. CASE b + 1 <= q
    <2>1. n * (b + 1) <= n * q
      BY <1>1, <1>3, Grows
    <2>2. n * (b + 1) \in Int /\ n * q \in Int
      BY <1>1
    <2> QED
      BY <1>1, <2>1, <2>2
  <1> QED
    BY <1>1, <1>2, <1>3

-----------------------------------------------------------------------------
(***************************************************************************)
(* A batch.                                                                *)
(***************************************************************************)

\* The instructions that a batch pays for do not cost more than the batch, and it pays
\* for one at least.
LEMMA BudgetPays ==
    ASSUME NEW b \in Nat, b >= MinBatch
    PROVE  Instructions(b) \in Nat \ {0} /\ Instructions(b) * AvgNum <= b * AvgDen
  <1> DEFINE x == b * AvgDen
             n == x \div AvgNum
  <1>1. /\ AvgNum \in Nat \ {0} /\ AvgDen \in Nat \ {0} /\ MinBatch \in Nat
        /\ AvgNum <= MinBatch * AvgDen
    BY RatioAssumption
  <1>2. x \in Nat /\ AvgNum <= x
    <2>1. AvgDen * MinBatch <= AvgDen * b
      BY <1>1, Grows
    <2>2. AvgDen * MinBatch = MinBatch * AvgDen /\ AvgDen * b = x
      BY <1>1
    <2> HIDE DEF x
    <2>3. x \in Nat /\ MinBatch * AvgDen \in Int
      BY <1>1 DEF x
    <2> QED
      BY <1>1, <2>1, <2>2, <2>3
  <1>3. Instructions(b) = n
    BY DEF Instructions
  <1> HIDE DEF x
  <1>4. n \in Nat /\ x = AvgNum * n + (x % AvgNum) /\ x % AvgNum \in 0 .. AvgNum - 1
    BY <1>1, <1>2, Division
  <1> HIDE DEF n
  <1>5. n # 0
    BY <1>1, <1>2, <1>4
  <1>6. n * AvgNum = AvgNum * n /\ AvgNum * n \in Nat
    BY <1>1, <1>4
  <1>7. n * AvgNum <= x
    BY <1>1, <1>4, <1>6
  <1> QED
    BY <1>3, <1>4, <1>5, <1>7 DEF x

\* The JIT spends no more than it is given.
LEMMA JitSpendsWithin ==
    ASSUME NEW b \in Nat, b >= MinBatch, NEW s \in JitSpends(b)
    PROVE  s \in 0 .. b
  <1> DEFINE n == Instructions(b)
  <1>1. n \in Nat \ {0} /\ n * AvgNum <= b * AvgDen
    BY BudgetPays
  <1>2. PICK k \in 0 .. n : s = CyclesOf(k)
    BY <1>1 DEF JitSpends
  <1>3. AvgNum \in Nat \ {0} /\ AvgDen \in Nat \ {0}
    BY RatioAssumption
  <1> HIDE DEF n
  <1>4. k * AvgNum <= b * AvgDen /\ k * AvgNum \in Nat /\ b * AvgDen \in Nat
    <2>1. AvgNum * k <= AvgNum * n
      BY <1>1, <1>2, <1>3, Grows
    <2>2. AvgNum * k = k * AvgNum /\ AvgNum * n = n * AvgNum
      BY <1>1, <1>2, <1>3
    <2>3. /\ k * AvgNum \in Nat /\ n * AvgNum \in Nat /\ b * AvgDen \in Nat
      BY <1>1, <1>2, <1>3
    <2> QED
      BY <1>1, <2>1, <2>2, <2>3
  <1> DEFINE x == 2 * k * AvgNum + AvgDen
             d == 2 * AvgDen
  <1>5. x = 2 * (k * AvgNum) + AvgDen /\ d * (b + 1) = 2 * (b * AvgDen) + 2 * AvgDen
    BY <1>2, <1>3
  <1>6. s = x \div d
    BY <1>2 DEF CyclesOf
  <1>7. d \in Nat \ {0} /\ x \in Nat
    BY <1>2, <1>3, <1>4, <1>5
  <1> HIDE DEF x, d
  <1>8. x < d * (b + 1)
    BY <1>3, <1>4, <1>5
  <1> QED
    BY <1>6, <1>7, <1>8, QuotientBelow

\* The interpreter overruns by less than an instruction.
LEMMA SpendsWithin ==
    ASSUME NEW b \in Nat, b >= MinBatch, NEW s \in Spends(b)
    PROVE  /\ s \in Nat
           /\ s <= b + (IF Profiling THEN LongestInsn - 1 ELSE 0)
  <1>1. CASE Profiling
    BY <1>1, RatioAssumption DEF Spends, InterpreterSpends
  <1>2. CASE ~Profiling
    BY <1>2, JitSpendsWithin DEF Spends
  <1> QED
    BY <1>1, <1>2

-----------------------------------------------------------------------------
(***************************************************************************)
(* The inductive invariant: the accounts of cycles and of samples balance, *)
(* and a debt is less than an instruction of the interpreter.              *)
(***************************************************************************)

DebtIsSmall == budget >= IF Profiling THEN 1 - LongestInsn ELSE 0

PacingInv == TypeOK /\ CyclesAreConserved /\ SamplesFollowTheCore /\ DebtIsSmall

LEMMA PacingStart == Init => PacingInv
  <1> SUFFICES ASSUME Init PROVE PacingInv
    OBVIOUS
  <1>1. /\ Den \in Nat \ {0} /\ CyclesPerSample \in Nat \ {0} /\ LongestInsn \in Nat \ {0}
        /\ Num * 0 = 0 /\ Den * 0 = 0 /\ 0 * CyclesPerSample = 0
    BY RatioAssumption
  <1>2. TypeOK
    <2>1. running \in BOOLEAN
      BY DEF Init
    <2>2. 0 \in 0 .. Den - 1 /\ 0 \in 0 .. CyclesPerSample - 1
      BY <1>1
    <2> QED
      BY <2>1, <2>2 DEF Init, TypeOK
  <1>3. CyclesAreConserved
    BY <1>1 DEF Init, CyclesAreConserved
  <1>4. SamplesFollowTheCore
    BY <1>1 DEF Init, SamplesFollowTheCore
  <1>5. DebtIsSmall
    BY <1>1 DEF Init, DebtIsSmall
  <1> QED
    BY <1>2, <1>3, <1>4, <1>5 DEF PacingInv

\* What is earned and what is carried on is what was carried and the block.
LEMMA Earning ==
    ASSUME TypeOK, NEW c \in Nat
    PROVE  /\ Earned(c) \in Nat
           /\ (carry + c * Num) % Den \in 0 .. Den - 1
           /\ carry + (Num * c) = Den * Earned(c) + ((carry + c * Num) % Den)
  <1> DEFINE x == carry + c * Num
  <1>1. Num \in Nat /\ Den \in Nat \ {0} /\ carry \in Nat
    BY RatioAssumption DEF TypeOK
  <1>2. x \in Nat /\ x = carry + (Num * c)
    BY <1>1
  <1>3. Earned(c) = x \div Den
    BY DEF Earned
  <1> HIDE DEF x
  <1>4. /\ x \div Den \in Nat /\ x % Den \in 0 .. Den - 1
        /\ x = Den * (x \div Den) + (x % Den)
    BY <1>1, <1>2, Division
  <1> QED
    BY <1>2, <1>3, <1>4 DEF x

\* Samples are made of what is spent.
LEMMA Generating ==
    ASSUME TypeOK, SamplesFollowTheCore, NEW s \in Nat, Generate(s), spent' = spent + s
    PROVE  /\ samples' \in Nat /\ cycleCarry' \in 0 .. CyclesPerSample - 1
           /\ SamplesFollowTheCore'
  <1> DEFINE x == cycleCarry + s
             q == x \div CyclesPerSample
  <1>1. /\ CyclesPerSample \in Nat \ {0} /\ cycleCarry \in Nat /\ samples \in Nat /\ spent \in Nat
    BY RatioAssumption DEF TypeOK
  <1>2. x \in Nat
    BY <1>1
  <1>3. samples' = samples + q /\ cycleCarry' = x % CyclesPerSample
    BY DEF Generate
  <1>4. spent + s = samples * CyclesPerSample + x
    BY <1>1 DEF SamplesFollowTheCore
  <1> HIDE DEF x
  <1>5. /\ q \in Nat /\ x % CyclesPerSample \in 0 .. CyclesPerSample - 1
        /\ x = CyclesPerSample * q + (x % CyclesPerSample)
    BY <1>1, <1>2, Division
  <1> HIDE DEF q
  <1>6. (samples + q) * CyclesPerSample = samples * CyclesPerSample + CyclesPerSample * q
    BY <1>1, <1>5
  <1>7. samples * CyclesPerSample \in Nat /\ CyclesPerSample * q \in Nat
    BY <1>1, <1>5
  <1>8. spent' = samples' * CyclesPerSample + cycleCarry'
    BY <1>1, <1>2, <1>3, <1>4, <1>5, <1>6, <1>7
  <1> QED
    BY <1>1, <1>3, <1>5, <1>8 DEF SamplesFollowTheCore

\* The account of the cycles after a block, of which s are spent.
LEMMA Accounting ==
    ASSUME TypeOK, CyclesAreConserved, NEW c \in Nat, NEW s \in Nat,
           carry' = (carry + c * Num) % Den, ran' = ran + c,
           spent' = spent + s, budget' = budget + Earned(c) - s
    PROVE  CyclesAreConserved'
  <1> DEFINE e == Earned(c)
             r == (carry + c * Num) % Den
  <1>1. /\ e \in Nat /\ r \in 0 .. Den - 1
        /\ carry + (Num * c) = Den * e + r
    BY Earning
  <1>2. /\ Num \in Nat /\ Den \in Nat \ {0} /\ carry \in Nat /\ ran \in Nat
        /\ spent \in Nat /\ budget \in Int
    BY RatioAssumption DEF TypeOK
  <1>3. carry' = r /\ spent' + budget' = (spent + budget) + e
    BY <1>1, <1>2
  <1> HIDE DEF e, r
  <1>4. Num * ran' = (Num * ran) + (Num * c) /\ Num * ran \in Int /\ Num * c \in Int
    BY <1>2, Distributes
  <1>5. /\ Den * (spent' + budget') = (Den * (spent + budget)) + (Den * e)
        /\ Den * (spent + budget) \in Int /\ Den * e \in Int
    BY <1>1, <1>2, <1>3, Distributes
  <1>6. Num * ran = Den * (spent + budget) + carry
    BY DEF CyclesAreConserved
  <1>7. Num * ran' = Den * (spent' + budget') + carry'
    BY <1>1, <1>2, <1>3, <1>4, <1>5, <1>6
  <1> QED
    BY <1>7 DEF CyclesAreConserved

LEMMA PacingStep == PacingInv /\ [Next]_vars => PacingInv'
  <1> SUFFICES ASSUME PacingInv, [Next]_vars PROVE PacingInv'
    OBVIOUS
  <1>0. /\ TypeOK /\ CyclesAreConserved /\ SamplesFollowTheCore /\ DebtIsSmall
        /\ MinBatch \in Nat /\ LongestInsn \in Nat \ {0} /\ BlockCycles \subseteq Nat
    BY RatioAssumption DEF PacingInv
  <1>1. CASE UNCHANGED vars
    BY <1>1 DEF vars, PacingInv, TypeOK, CyclesAreConserved, SamplesFollowTheCore, DebtIsSmall
  <1>2. CASE Next
    <2>1. PICK c \in BlockCycles, on \in BOOLEAN :
             clock' = clock + c /\ running' = on /\ SoundStep(c, on)
      BY <1>2 DEF Next, Step
    <2>2. c \in Nat
      BY <1>0
    <2>3. CASE ~on
      <3>1. UNCHANGED <<carry, budget, cycleCarry, samples, ran, spent>>
        BY <2>1, <2>3 DEF SoundStep
      <3> QED
        BY <1>0, <2>1, <2>2, <3>1
        DEF PacingInv, TypeOK, CyclesAreConserved, SamplesFollowTheCore, DebtIsSmall
    <2>4. CASE on
      <3>1. /\ carry' = (carry + c * Num) % Den /\ ran' = ran + c
            /\ Save(c) \/ Run(c)
        BY <2>1, <2>4 DEF SoundStep
      <3>2. Earned(c) \in Nat /\ (carry + c * Num) % Den \in 0 .. Den - 1 /\ budget \in Int
        BY <1>0, <2>2, Earning DEF TypeOK
      <3>3. PICK s \in Nat :
               /\ spent' = spent + s /\ budget' = budget + Earned(c) - s
               /\ Generate(s)
               /\ DebtIsSmall'
        <4>1. CASE Save(c)
          <5>1. /\ spent' = spent + 0 /\ budget' = budget + Earned(c) - 0
                /\ Generate(0)
            BY <1>0, <3>2, <4>1 DEF Save, TypeOK
          <5>2. DebtIsSmall'
            BY <1>0, <3>2, <5>1 DEF DebtIsSmall
          <5> QED
            BY <5>1, <5>2
        <4>2. CASE Run(c)
          <5>1. PICK s \in Spends(budget + Earned(c)) :
                   /\ budget' = budget + Earned(c) - s /\ spent' = spent + s
                   /\ Generate(s)
            BY <4>2 DEF Run
          <5>2. budget + Earned(c) \in Nat /\ budget + Earned(c) >= MinBatch
            BY <1>0, <3>2, <4>2 DEF Run
          <5>3. s \in Nat /\ s <= budget + Earned(c) + (IF Profiling THEN LongestInsn - 1 ELSE 0)
            BY <5>2, SpendsWithin
          <5>4. DebtIsSmall'
            BY <1>0, <3>2, <5>1, <5>3 DEF DebtIsSmall
          <5> QED
            BY <5>1, <5>3, <5>4
        <4> QED
          BY <3>1, <4>1, <4>2
      <3>4. CyclesAreConserved'
        BY <1>0, <2>2, <3>1, <3>3, Accounting
      <3>5. /\ samples' \in Nat /\ cycleCarry' \in 0 .. CyclesPerSample - 1
            /\ SamplesFollowTheCore'
        BY <1>0, <3>3, Generating
      <3>6. TypeOK'
        BY <1>0, <2>1, <2>2, <3>1, <3>2, <3>3, <3>5 DEF TypeOK
      <3> QED
        BY <3>3, <3>4, <3>5, <3>6 DEF PacingInv
    <2> QED
      BY <2>3, <2>4
  <1> QED
    BY <1>1, <1>2

THEOREM PacingIsConsistent == Spec => []PacingInv
  BY PacingStart, PacingStep, PTL DEF Spec

\* The counters of the pacing stay in their ranges (sound_cpu.rs, scsp.rs).
THEOREM PacingTypeCorrect == Spec => []TypeOK
  <1>1. PacingInv => TypeOK
    BY DEF PacingInv
  <1> QED
    BY <1>1, PacingIsConsistent, PTL

\* However the blocks cut the time, no cycle is lost or counted twice.
THEOREM NoCycleIsLost == Spec => []CyclesAreConserved
  <1>1. PacingInv => CyclesAreConserved
    BY DEF PacingInv
  <1> QED
    BY <1>1, PacingIsConsistent, PTL

\* What the core spent is samples and a rest.
THEOREM OutputFollowsTheCore == Spec => []SamplesFollowTheCore
  <1>1. PacingInv => SamplesFollowTheCore
    BY DEF PacingInv
  <1> QED
    BY <1>1, PacingIsConsistent, PTL

\* The sound CPU is never ahead of the SH-2, the interpreter by less than an
\* instruction (sound_cpu.rs:5).
THEOREM SoundIsNeverAhead == Spec => []NeverAhead
  <1>1. PacingInv => NeverAhead
    <2> SUFFICES ASSUME PacingInv PROVE NeverAhead
      OBVIOUS
    <2> DEFINE debt == IF Profiling THEN LongestInsn - 1 ELSE 0
    <2>1. /\ Num * ran = Den * (spent + budget) + carry
          /\ Den \in Nat /\ Num \in Nat /\ ran \in Nat /\ spent \in Nat /\ budget \in Int
          /\ carry \in Nat /\ debt \in Nat /\ budget + debt >= 0
      BY RatioAssumption DEF PacingInv, TypeOK, CyclesAreConserved, DebtIsSmall
    <2>2. Den * debt = IF Profiling THEN Den * (LongestInsn - 1) ELSE 0
      BY <2>1
    <2> HIDE DEF debt
    <2>3. Den * (spent + budget) + (Den * debt) = (Den * spent) + (Den * (budget + debt))
      BY <2>1
    <2>4. Den * 0 <= Den * (budget + debt)
      BY <2>1, Grows
    <2>5. /\ Den * (spent + budget) \in Int /\ Den * debt \in Int /\ Den * spent \in Int
          /\ Den * (budget + debt) \in Int /\ Num * ran \in Int
      BY <2>1
    <2>6. Den * spent <= Num * ran + (Den * debt)
      BY <2>1, <2>3, <2>4, <2>5
    <2> QED
      BY <2>2, <2>6 DEF NeverAhead
  <1> QED
    BY <1>1, PacingIsConsistent, PTL

-----------------------------------------------------------------------------
(***************************************************************************)
(* Lag: a batch of the JIT is spent but for less than a batch, because its *)
(* instructions are what the batch pays for, rounded.                      *)
(***************************************************************************)

\* A batch is worth an instruction, half a cycle of rounding included.
BatchIsWorthMore == 2 * AvgNum + AvgDen <= 2 * (MinBatch * AvgDen)

LEMMA RoundedToNearest ==
    ASSUME NEW n \in Nat
    PROVE  /\ CyclesOf(n) \in Nat
           /\ 2 * (n * AvgNum) < 2 * (AvgDen * CyclesOf(n)) + AvgDen
  <1> DEFINE x == 2 * n * AvgNum + AvgDen
             d == 2 * AvgDen
             s == x \div d
  <1>1. AvgNum \in Nat \ {0} /\ AvgDen \in Nat \ {0} /\ n * AvgNum \in Nat
    BY RatioAssumption
  <1>2. x = 2 * (n * AvgNum) + AvgDen /\ x \in Nat /\ d \in Nat \ {0}
    BY <1>1
  <1>3. s = CyclesOf(n)
    BY DEF CyclesOf
  <1>4. s \in Nat /\ x < d * s + d
    <2> HIDE DEF x, d
    <2>1. s \in Nat /\ x % d \in 0 .. d - 1 /\ x = d * s + (x % d)
      BY <1>2, Division
    <2> HIDE DEF s
    <2>2. d * s \in Nat
      BY <1>2, <2>1
    <2> QED
      BY <1>2, <2>1, <2>2
  <1> HIDE DEF s
  <1>5. d * s = 2 * (AvgDen * s) /\ AvgDen * s \in Nat
    BY <1>1, <1>4
  <1>6. 2 * (n * AvgNum) + AvgDen < 2 * (AvgDen * s) + 2 * AvgDen
    BY <1>2, <1>4, <1>5 DEF d
  <1> HIDE DEF x, d
  <1>7. 2 * (n * AvgNum) < 2 * (AvgDen * s) + AvgDen
    BY <1>1, <1>5, <1>6
  <1> QED
    BY <1>3, <1>4, <1>7

LEMMA SpendsAlmostAll ==
    ASSUME BatchIsWorthMore, ~MayStop, NEW b \in Nat, b >= MinBatch, NEW s \in Spends(b)
    PROVE  b - s < MinBatch
  <1> DEFINE n == Instructions(b)
  <1>1. /\ AvgNum \in Nat \ {0} /\ AvgDen \in Nat \ {0} /\ MinBatch \in Nat \ {0}
        /\ LongestInsn \in Nat \ {0}
    BY RatioAssumption
  <1>2. CASE Profiling
    BY <1>1, <1>2 DEF Spends, InterpreterSpends
  <1>3. CASE ~Profiling
    <2>1. n \in Nat \ {0}
      BY BudgetPays
    <2>2. s = CyclesOf(n)
      BY <1>3, <2>1 DEF Spends, JitSpends
    <2>3. b * AvgDen < n * AvgNum + AvgNum /\ n * AvgNum \in Nat /\ b * AvgDen \in Nat
      <3> DEFINE x == b * AvgDen
      <3>1. n = x \div AvgNum
        BY DEF Instructions
      <3>2. x \in Nat
        BY <1>1
      <3> HIDE DEF x, n
      <3>3. x = AvgNum * n + (x % AvgNum) /\ x % AvgNum \in 0 .. AvgNum - 1
        BY <1>1, <3>1, <3>2, Division
      <3>4. AvgNum * n = n * AvgNum /\ n * AvgNum \in Nat
        BY <1>1, <2>1
      <3> QED
        BY <1>1, <3>2, <3>3, <3>4 DEF x
    <2> HIDE DEF n
    <2>4. s \in Nat /\ 2 * (n * AvgNum) < 2 * (AvgDen * s) + AvgDen
      BY <2>1, <2>2, RoundedToNearest
    <2>5. AvgDen * s \in Nat /\ MinBatch * AvgDen \in Nat
      BY <1>1, <2>4
    <2>6. b * AvgDen < (AvgDen * s) + (MinBatch * AvgDen)
      BY <1>1, <2>3, <2>4, <2>5 DEF BatchIsWorthMore
    <2>7. CASE b - s >= MinBatch
      <3>1. AvgDen * (s + MinBatch) <= AvgDen * b
        BY <1>1, <2>4, <2>7, Grows
      <3>2. /\ AvgDen * (s + MinBatch) = (AvgDen * s) + (AvgDen * MinBatch)
            /\ AvgDen * MinBatch = MinBatch * AvgDen /\ AvgDen * b = b * AvgDen
        BY <1>1, <2>4
      <3>3. FALSE
        BY <2>3, <2>5, <2>6, <3>1, <3>2
      <3> QED
        BY <3>3
    <2> QED
      BY <1>1, <2>4, <2>7
  <1> QED
    BY <1>2, <1>3

LEMMA LagStep ==
    ASSUME BatchIsWorthMore, PacingInv, LagIsBelowABatch, [Next]_vars
    PROVE  LagIsBelowABatch'
  <1> SUFFICES ASSUME ~MayStop PROVE budget' < MinBatch
    BY DEF LagIsBelowABatch
  <1>1. TypeOK /\ budget < MinBatch /\ MinBatch \in Nat /\ BlockCycles \subseteq Nat
    BY RatioAssumption DEF PacingInv, LagIsBelowABatch
  <1>2. CASE UNCHANGED vars
    BY <1>1, <1>2 DEF vars
  <1>3. CASE Next
    <2>1. PICK c \in BlockCycles, on \in BOOLEAN : SoundStep(c, on)
      BY <1>3 DEF Next, Step
    <2>2. CASE ~on
      BY <1>1, <2>1, <2>2 DEF SoundStep
    <2>3. CASE Save(c)
      BY <2>3 DEF Save
    <2>4. CASE Run(c)
      <3>1. PICK s \in Spends(budget + Earned(c)) :
               budget' = budget + Earned(c) - s
        BY <2>4 DEF Run
      <3>2. /\ budget \in Int /\ Earned(c) \in Nat
            /\ budget + Earned(c) \in Nat /\ budget + Earned(c) >= MinBatch
        BY <1>1, <2>4, Earning DEF Run, TypeOK
      <3>3. s \in Nat
        BY <3>2, SpendsWithin
      <3>4. budget + Earned(c) - s < MinBatch
        BY <3>2, <3>3, SpendsAlmostAll
      <3> QED
        BY <1>1, <3>1, <3>2, <3>3, <3>4
    <2> QED
      BY <2>1, <2>2, <2>3, <2>4 DEF SoundStep
  <1> QED
    BY <1>2, <1>3

-----------------------------------------------------------------------------
(***************************************************************************)
(* The clock of the CD drive.                                              *)
(***************************************************************************)

DriveInv ==
    /\ cdCarry \in 0 .. CdBatch - 1 /\ acc \in 0 .. CdPeriod - 1
    /\ pulses \in Nat /\ cdClock \in Nat
    /\ Cd!CyclesAreConserved

LEMMA DriveStart == Cd!Init => DriveInv
  <1> SUFFICES ASSUME Cd!Init PROVE DriveInv
    OBVIOUS
  <1>1. CdBatch \in Nat \ {0} /\ CdPeriod \in Nat \ {0} /\ CdPeriod * 0 = 0
    BY InstanceAssumptions DEF Cd!CdAssumption
  <1> QED
    BY <1>1 DEF Cd!Init, DriveInv, Cd!CyclesAreConserved

LEMMA DriveStep == ASSUME DriveInv, [Cd!Next]_cdVars PROVE DriveInv'
  <1>1. /\ CdBatch \in Nat \ {0} /\ CdPeriod \in Nat \ {0} /\ CdSteps \subseteq Nat
    BY InstanceAssumptions DEF Cd!CdAssumption
  <1>2. CASE UNCHANGED <<cdCarry, acc, cdClock, pulses>>
    BY <1>2 DEF DriveInv, Cd!CyclesAreConserved
  <1>3. ASSUME NEW c \in CdSteps, Cd!Advance(c) PROVE DriveInv'
    <2>1. c \in Nat /\ cdClock' = cdClock + c /\ cdClock' \in Nat
      BY <1>1, <1>3 DEF Cd!Advance, DriveInv
    <2>2. CASE ~Cd!Full(c)
      BY <1>1, <1>3, <2>1, <2>2 DEF Cd!Advance, Cd!Full, DriveInv, Cd!CyclesAreConserved
    <2>3. CASE Cd!Full(c)
      <3> DEFINE x == acc + (cdCarry + c)
                 q == x \div CdPeriod
      <3>1. cdCarry' = 0 /\ acc' = x % CdPeriod /\ pulses' = pulses + q
        BY <1>3, <2>3 DEF Cd!Advance, Cd!Tick
      <3>2. x \in Nat
        BY <2>1, <1>1 DEF DriveInv
      <3>3. cdClock' = CdPeriod * pulses + x /\ CdPeriod * pulses \in Nat
        BY <1>1, <2>1 DEF DriveInv, Cd!CyclesAreConserved
      <3> HIDE DEF x
      <3>4. q \in Nat /\ acc' \in 0 .. CdPeriod - 1 /\ x = CdPeriod * q + acc'
        BY <1>1, <3>1, <3>2, Division
      <3> HIDE DEF q
      <3>5. pulses \in Nat /\ CdPeriod * pulses' = (CdPeriod * pulses) + (CdPeriod * q)
        BY <1>1, <3>1, <3>4, Distributes DEF DriveInv
      <3>6. cdClock' = CdPeriod * pulses' + acc' + cdCarry'
        BY <1>1, <3>1, <3>3, <3>4, <3>5
      <3> QED
        BY <1>1, <2>1, <3>1, <3>4, <3>5, <3>6 DEF DriveInv, Cd!CyclesAreConserved
    <2> QED
      BY <2>2, <2>3
  <1> QED
    BY <1>2, <1>3 DEF Cd!Next, Cd!WriteHirq, Cd!WriteCr, Cd!WriteCrLong, cdVars, Cd!clockVars

LEMMA DriveIsPunctual == DriveInv => Cd!ScdqIsPunctual
  <1> SUFFICES ASSUME DriveInv PROVE Cd!ScdqIsPunctual
    OBVIOUS
  <1>1. /\ CdBatch \in Nat \ {0} /\ CdPeriod \in Nat \ {0} /\ pulses \in Nat
        /\ cdCarry \in 0 .. CdBatch - 1 /\ acc \in 0 .. CdPeriod - 1
        /\ cdClock = CdPeriod * pulses + acc + cdCarry
    BY InstanceAssumptions DEF Cd!CdAssumption, DriveInv, Cd!CyclesAreConserved
  <1>2. /\ pulses * CdPeriod = CdPeriod * pulses /\ CdPeriod * pulses \in Nat
        /\ (pulses + 1) * CdPeriod = CdPeriod * pulses + CdPeriod
    BY <1>1
  <1> QED
    BY <1>1, <1>2 DEF Cd!ScdqIsPunctual

\* What a step of the drive shows in HIRQ.
LEMMA DriveFlags == ASSUME DriveInv, [Cd!Next]_cdVars PROVE Cd!FlagsShow
  <1>1. /\ CdBatch \in Nat \ {0} /\ CdPeriod \in Nat \ {0} /\ CdSteps \subseteq Nat
        /\ \A c \in CdSteps : c + CdBatch <= CdPeriod
        /\ pulses \in Nat
    BY InstanceAssumptions DEF Cd!CdAssumption, DriveInv
  <1>2. CASE UNCHANGED cdVars
    BY <1>1, <1>2 DEF cdVars, Cd!FlagsShow
  <1>3. ASSUME NEW mask, Cd!WriteHirq(mask) PROVE Cd!FlagsShow
    BY <1>1, <1>3 DEF Cd!WriteHirq, Cd!FlagsShow, Cd!clockVars
  <1>4. ASSUME NEW i \in 1 .. 4, NEW v, Cd!WriteCr(i, v) PROVE Cd!FlagsShow
    <2>1. pulses' = pulses /\ hirq \subseteq hirq'
      BY <1>4 DEF Cd!WriteCr, Cd!Execute, Cd!clockVars
    <2>2. cmd'[4] # cmd[4] => "CMOK" \in hirq'
      BY <1>4 DEF Cd!WriteCr, Cd!Execute
    <2> QED
      BY <1>1, <2>1, <2>2 DEF Cd!FlagsShow
  <1>5. ASSUME NEW i \in 1 .. 4, NEW hi, NEW lo, Cd!WriteCrLong(i, hi, lo)
        PROVE  Cd!FlagsShow
    BY <1>4, <1>5 DEF Cd!WriteCrLong
  <1>6. ASSUME NEW c \in CdSteps, Cd!Advance(c) PROVE Cd!FlagsShow
    <2>1. cmd' = cmd /\ hirq \subseteq hirq'
      BY <1>6 DEF Cd!Advance, Cd!Tick
    <2>2. CASE ~Cd!Full(c)
      BY <1>1, <1>6, <2>1, <2>2 DEF Cd!Advance, Cd!FlagsShow
    <2>3. CASE Cd!Full(c)
      <3> DEFINE x == acc + (cdCarry + c)
                 q == x \div CdPeriod
      <3>1. /\ pulses' = pulses + q
            /\ hirq' = hirq \cup (IF x >= CdPeriod THEN {"SCDQ"} ELSE {})
        BY <1>6, <2>3 DEF Cd!Advance, Cd!Tick
      <3>2. x \in Nat /\ x < 2 * CdPeriod
        BY <1>1 DEF DriveInv
      <3>3. 2 * CdPeriod = CdPeriod * (1 + 1)
        BY <1>1
      <3> HIDE DEF x
      <3>4. q \in 0 .. 1
        BY <1>1, <3>2, <3>3, QuotientBelow
      <3>5. CASE x < CdPeriod
        <4>1. x < CdPeriod * (0 + 1)
          BY <1>1, <3>5
        <4>2. q \in 0 .. 0
          BY <1>1, <3>2, <4>1, QuotientBelow
        <4> QED
          BY <1>1, <2>1, <3>1, <4>2 DEF Cd!FlagsShow
      <3>6. CASE x >= CdPeriod
        BY <1>1, <2>1, <3>1, <3>4, <3>6 DEF Cd!FlagsShow
      <3> QED
        BY <1>1, <3>2, <3>5, <3>6
    <2> QED
      BY <2>2, <2>3
  <1> QED
    BY <1>2, <1>3, <1>4, <1>5, <1>6 DEF Cd!Next

-----------------------------------------------------------------------------
(***************************************************************************)
(* The transfers of the SCU: arithmetic of addresses.                      *)
(***************************************************************************)

LEMMA Quotient ==
    ASSUME NEW n \in Nat \ {0}, NEW q \in Nat, NEW r \in 0 .. n - 1
    PROVE  (n * q + r) % n = r /\ (n * q + r) \div n = q
  <1> DEFINE x == n * q + r
             p == x \div n
             t == x % n
  <1>1. n * q \in Nat /\ x \in Nat
    OBVIOUS
  <1> HIDE DEF x
  <1>2. p \in Nat /\ t \in 0 .. n - 1 /\ x = n * p + t
    BY <1>1, Division
  <1> HIDE DEF p, t
  <1>3. n * p \in Nat /\ n * q + r = n * p + t
    BY <1>2 DEF x
  <1>4. CASE p = q
    BY <1>2, <1>3, <1>4 DEF p, t, x
  <1>5. CASE p + 1 <= q
    <2>1. n * (p + 1) <= n * q /\ n * (p + 1) = n * p + n
      BY <1>2, <1>5, Grows
    <2> QED
      BY <1>1, <1>2, <1>3, <2>1
  <1>6. CASE q + 1 <= p
    <2>1. n * (q + 1) <= n * p /\ n * (q + 1) = n * q + n
      BY <1>2, <1>6, Grows
    <2> QED
      BY <1>1, <1>2, <1>3, <2>1
  <1> QED
    BY <1>2, <1>4, <1>5, <1>6

\* A wrapped address may be added to before it wraps again.
LEMMA WrapsOnce ==
    ASSUME NEW n \in Nat \ {0}, NEW x \in Nat, NEW y \in Nat
    PROVE  ((x % n) + y) % n = (x + y) % n
  <1> DEFINE q == x \div n
             r == x % n
             z == r + y
             p == z \div n
             t == z % n
  <1>1. q \in Nat /\ r \in 0 .. n - 1 /\ x = n * q + r
    BY Division
  <1> HIDE DEF q, r
  <1>2. z \in Nat
    BY <1>1
  <1> HIDE DEF z
  <1>3. p \in Nat /\ t \in 0 .. n - 1 /\ z = n * p + t
    BY <1>2, Division
  <1> HIDE DEF p, t
  <1>4. n * (q + p) = n * q + n * p /\ n * q \in Nat /\ n * p \in Nat /\ q + p \in Nat
    BY <1>1, <1>3
  <1>5. x + y = n * (q + p) + t
    BY <1>1, <1>2, <1>3, <1>4 DEF z
  <1>6. (x + y) % n = t
    BY <1>3, <1>4, <1>5, Quotient
  <1> QED
    BY <1>6 DEF t, z, r

LEMMA Products ==
    ASSUME NEW a \in Nat, NEW b \in Nat
    PROVE  a * b \in Nat
  OBVIOUS

LEMMA InsideIsKept ==
    ASSUME NEW n \in Nat \ {0}, NEW x \in 0 .. n - 1
    PROVE  x % n = x
  <1>1. n * 0 + x = x
    OBVIOUS
  <1> QED
    BY <1>1, Quotient

-----------------------------------------------------------------------------
(***************************************************************************)
(* The inductive invariant of a transfer.                                  *)
(***************************************************************************)

Cell == Transfers!Address

Memory == [Cell -> 0 .. Width - 1]

Count == 0 .. Transfers!CountRange - 1

Channel == [r : Cell, w : Cell, c : Count, readAdd : Nat, writeAdd : Nat,
            indirect : BOOLEAN, keepR : BOOLEAN, keepW : BOOLEAN, go : BOOLEAN]

Entry == [src : Cell, dst : Cell, bytes : Count \ {0}]

DmaTypes ==
    /\ mem \in Memory /\ before \in Memory
    /\ found \in [mem : Memory, ch : Channel] /\ ch \in Channel
    /\ stage \in {"program", "list", "copy", "end"}
    /\ list \in Seq(Entry) /\ copying \in Nat
    /\ src \in Cell /\ dst \in Cell
    /\ done \in Count /\ done = 4 * Transfers!Longs

\* The entry that the list of the transfer had at k when it began.
FoundEntry(k) == Transfers!EntryAt(found.mem, found.ch.w + 6 * (k - 1))

FoundLast(k) == Transfers!Last(found.mem, found.ch.w + 6 * (k - 1))

\* While the list is read nothing has changed, and the cursor is at the next entry.
Reading ==
    stage = "list" =>
        /\ mem = found.mem /\ before = mem /\ ch = found.ch /\ found.ch.indirect
        /\ Len(list) <= ListLimit
        /\ \A k \in 1 .. Len(list) : list[k] = FoundEntry(k) /\ ~FoundLast(k)
        /\ src = (found.ch.w + 6 * Len(list)) % Cells
        /\ copying = 1 /\ done = 0

\* The cursors are at the next long.  Of nearly the greatest count, done wraps.
AtTheNext ==
    Transfers!Countable(list[copying]) =>
        /\ done < list[copying].bytes + 4
        /\ src = Transfers!Source(Transfers!Longs, 0)
        /\ dst = Transfers!Target(Transfers!Longs, 0)

Copying ==
    stage = "copy" =>
        /\ copying \in 1 .. Len(list) /\ ch = found.ch
        /\ AtTheNext
        /\ ~found.ch.indirect =>
            list = <<[src |-> found.ch.r, dst |-> found.ch.w,
                      bytes |-> Transfers!CountOf(found.ch.c)]>>

DmaInv ==
    /\ DmaTypes /\ Reading /\ Copying
    /\ Transfers!CopiesTheBlock /\ Transfers!ListIsAsFound /\ Transfers!ContinuesWhereItEnded

LEMMA DmaConstants ==
    /\ Cells \in Nat \ {0} /\ Width \in Nat \ {0} /\ Width % 2 = 0
    /\ MaxCount \in Count \ {0} /\ Counts \subseteq Count /\ ListLimit \in Nat
    /\ Transfers!CountRange \in Nat \ {0}
    /\ \E m \in Nat : Transfers!CountRange = 4 * m
    /\ Memories \subseteq Memory /\ Addresses \subseteq Cell /\ WriteAdds \subseteq Nat
    /\ Cell = 0 .. Cells - 1
  <1>1. Transfers!DmaAssumption
    BY InstanceAssumptions
  <1>2. Width \in Nat \ {0} /\ Width % 2 = 0
    BY <1>1 DEF Transfers!DmaAssumption
  <1>3. PICK h \in Nat : Width = 2 * h
    <2>1. Width = 2 * (Width \div 2) /\ Width \div 2 \in Nat
      BY <1>2
    <2> QED
      BY <2>1
  <1>4. Transfers!CountRange = 4 * (h * h) /\ h * h \in Nat
    BY <1>3 DEF Transfers!CountRange
  <1>5. h * h # 0
    BY <1>2, <1>3
  <1>6. Transfers!CountRange \in Nat \ {0}
    BY <1>4, <1>5
  <1>7. MaxCount \in Count \ {0} /\ Counts \subseteq Count
    BY <1>1, <1>6 DEF Transfers!DmaAssumption, Transfers!CountRange, Count
  <1> QED
    BY <1>1, <1>2, <1>4, <1>6, <1>7 DEF Transfers!DmaAssumption, Memory, Cell, Transfers!Address

LEMMA EntryTypes ==
    ASSUME NEW e \in Entry
    PROVE  /\ e.src \in Cell /\ e.dst \in Cell /\ e.src \in Nat /\ e.dst \in Nat
           /\ e.bytes \in Nat \ {0}
  <1>1. Cell \subseteq Nat /\ Count \subseteq Nat
    BY DmaConstants DEF Count
  <1>2. e.src \in Cell /\ e.dst \in Cell /\ e.bytes \in Count \ {0}
    BY DEF Entry
  <1> QED
    BY <1>1, <1>2

LEMMA ChannelTypes ==
    ASSUME NEW c \in Channel
    PROVE  c.r \in Nat /\ c.w \in Nat /\ c.readAdd \in Nat /\ c.writeAdd \in Nat
  <1>1. Cell \subseteq Nat
    BY DmaConstants
  <1>2. c.r \in Cell /\ c.w \in Cell /\ c.readAdd \in Nat /\ c.writeAdd \in Nat
    BY DEF Channel
  <1> QED
    BY <1>1, <1>2

\* What is read of memory.
LEMMA ReadTypes ==
    ASSUME NEW m \in Memory, NEW a \in Nat
    PROVE  /\ Transfers!At(m, a) \in 0 .. Width - 1
           /\ Transfers!Long(m, a) \in Count
           /\ Transfers!EntryAt(m, a) \in Entry
  <1>1. \A b \in Nat : Transfers!At(m, b) \in 0 .. Width - 1
    <2> TAKE b \in Nat
    <2>1. b % Cells \in Cell
      BY DmaConstants, Division
    <2> QED
      BY <2>1 DEF Transfers!At, Memory
  <1>2. \A b \in Nat : Transfers!Long(m, b) \in Count
    <2> TAKE b \in Nat
    <2> DEFINE hi == Transfers!At(m, b)
               lo == Transfers!At(m, b + 1)
    <2>1. hi \in 0 .. Width - 1 /\ lo \in 0 .. Width - 1 /\ Width \in Nat
      BY <1>1, DmaConstants
    <2>2. Transfers!Long(m, b) = hi * Width + lo
      BY DEF Transfers!Long
    <2> HIDE DEF hi, lo
    <2>3. Width * (hi + 1) <= Width * Width /\ Width * (hi + 1) = hi * Width + Width
      BY <2>1, Grows
    <2>4. hi * Width \in Nat /\ Width * Width \in Nat
      BY <2>1
    <2> QED
      BY <2>1, <2>2, <2>3, <2>4 DEF Count, Transfers!CountRange
  <1>3. /\ Transfers!Long(m, a + 4) % Cells \in Cell /\ Transfers!Long(m, a + 2) % Cells \in Cell
        /\ Transfers!CountOf(Transfers!Long(m, a)) \in Count \ {0}
    <2>1. /\ Transfers!Long(m, a + 4) \in Nat /\ Transfers!Long(m, a + 2) \in Nat
          /\ Transfers!Long(m, a) \in Count
      BY <1>2 DEF Count
    <2> QED
      BY <2>1, DmaConstants, Division DEF Transfers!CountOf
  <1> QED
    BY <1>1, <1>2, <1>3 DEF Transfers!EntryAt, Entry

\* Reading wraps: an address and its wrapped form read the same.
LEMMA ReadWraps ==
    ASSUME NEW m \in Memory, NEW a \in Nat
    PROVE  /\ Transfers!EntryAt(m, a % Cells) = Transfers!EntryAt(m, a)
           /\ Transfers!Last(m, a % Cells) <=> Transfers!Last(m, a)
  <1>1. \A k \in Nat : Transfers!At(m, (a % Cells) + k) = Transfers!At(m, a + k)
    BY DmaConstants, WrapsOnce DEF Transfers!At
  <1>2. a % Cells \in Nat
    BY DmaConstants, Division
  <1>3. \A k \in Nat : Transfers!Long(m, (a % Cells) + k) = Transfers!Long(m, a + k)
    <2> TAKE k \in Nat
    <2>1. (a % Cells) + k + 1 = (a % Cells) + (k + 1) /\ a + k + 1 = a + (k + 1)
      BY <1>2
    <2> QED
      BY <1>1, <2>1 DEF Transfers!Long
  <1>4. (a % Cells) + 0 = a % Cells /\ a + 0 = a
    BY <1>2
  <1>5. /\ Transfers!Long(m, a % Cells) = Transfers!Long(m, a)
        /\ Transfers!Long(m, (a % Cells) + 2) = Transfers!Long(m, a + 2)
        /\ Transfers!Long(m, (a % Cells) + 4) = Transfers!Long(m, a + 4)
        /\ Transfers!At(m, (a % Cells) + 4) = Transfers!At(m, a + 4)
    BY <1>1, <1>3, <1>4
  <1> QED
    BY <1>5 DEF Transfers!EntryAt, Transfers!Last

-----------------------------------------------------------------------------
(***************************************************************************)
(* The steps of a transfer.                                                *)
(***************************************************************************)

LEMMA DmaStart == Transfers!DmaInit => DmaInv
  <1> SUFFICES ASSUME Transfers!DmaInit PROVE DmaInv
    OBVIOUS
  <1>1. /\ mem \in Memory /\ before = mem /\ stage = "program" /\ list = <<>>
        /\ copying = 0 /\ src = 0 /\ dst = 0 /\ done = 0
        /\ ch = [r |-> 0, w |-> 0, c |-> 0, readAdd |-> 0, writeAdd |-> 0,
                 indirect |-> FALSE, keepR |-> FALSE, keepW |-> FALSE, go |-> FALSE]
        /\ found = [mem |-> mem, ch |-> ch]
    BY DmaConstants DEF Transfers!DmaInit
  <1>2. 0 \in Cell /\ 0 \in Count
    BY DmaConstants DEF Count
  <1>3. ch \in Channel
    BY <1>1, <1>2 DEF Channel
  <1>4. found \in [mem : Memory, ch : Channel]
    BY <1>1, <1>3
  <1>5. DmaTypes
    BY <1>1, <1>2, <1>3, <1>4 DEF DmaTypes, Transfers!Longs
  <1> QED
    BY <1>1, <1>5 DEF DmaInv, Reading, Copying, Transfers!CopiesTheBlock,
       Transfers!ListIsAsFound, Transfers!ContinuesWhereItEnded

\* What an entry begins with: nothing is copied.
LEMMA EntryBegins ==
    ASSUME list' \in Seq(Entry), copying' \in 1 .. Len(list'), done' = 0,
           src' = list'[copying'].src, dst' = list'[copying'].dst,
           before' = mem', ch' \in Channel
    PROVE  /\ done' \in Count /\ done' = 4 * Transfers!Longs'
           /\ src' \in Cell /\ dst' \in Cell
           /\ AtTheNext'
           /\ Transfers!CopiesTheBlock'
  <1> DEFINE e == list'[copying']
  <1>1. e \in Entry
    OBVIOUS
  <1> HIDE DEF e
  <1>2. /\ e.src \in Cell /\ e.dst \in Cell /\ e.src \in Nat /\ e.dst \in Nat
        /\ e.bytes \in Nat \ {0}
    BY <1>1, EntryTypes
  <1>3. Transfers!Longs' = 0
    BY DEF Transfers!Longs
  <1>4. src' = Transfers!Source(Transfers!Longs, 0)'
    <2>1. 0 * ch'.readAdd = 0
      BY DEF Channel
    <2>2. e.src + 0 + 0 = e.src
      BY <1>2
    <2>3. e.src % Cells = e.src
      BY <1>2, DmaConstants, InsideIsKept
    <2> QED
      BY <1>3, <2>1, <2>2, <2>3 DEF Transfers!Source, e
  <1>5. dst' = Transfers!Target(Transfers!Longs, 0)'
    <2>1. 0 * ch'.writeAdd = 0 /\ (2 * 0 + 0) * ch'.writeAdd = 0
      BY DEF Channel
    <2>2. e.dst + 0 = e.dst
      BY <1>2
    <2>3. e.dst % Cells = e.dst
      BY <1>2, DmaConstants, InsideIsKept
    <2> QED
      BY <1>3, <2>1, <2>2, <2>3 DEF Transfers!Target, Transfers!ToBBus, e
  <1>6. Transfers!CopiesTheBlock'
    <2>1. \A a \in Cell : Transfers!Hits(a)' = {}
      BY <1>3 DEF Transfers!Hits
    <2> QED
      BY <2>1 DEF Transfers!CopiesTheBlock, Cell
  <1> QED
    BY <1>2, <1>3, <1>4, <1>5, <1>6, DmaConstants DEF Count, AtTheNext, e

LEMMA ProgramStep == ASSUME DmaInv, Transfers!Program PROVE DmaInv'
  <1>1. PICK r \in Addresses, w \in Addresses, c \in Counts, ra \in {0, 2}, wa \in WriteAdds,
             i \in BOOLEAN, kr \in BOOLEAN, kw \in BOOLEAN :
           ch' = [r |-> r, w |-> w, c |-> c, readAdd |-> ra, writeAdd |-> wa,
                  indirect |-> i, keepR |-> kr, keepW |-> kw, go |-> TRUE]
    BY DEF Transfers!Program
  <1>2. /\ found' = [mem |-> mem, ch |-> ch'] /\ mem' = mem /\ before' = mem
        /\ copying' = 1 /\ done' = 0 /\ dst' = ch'.w
        /\ stage' = IF ch'.indirect THEN "list" ELSE "copy"
        /\ src' = IF ch'.indirect THEN ch'.w ELSE ch'.r
        /\ list' = IF ch'.indirect THEN <<>>
                   ELSE <<[src |-> ch'.r, dst |-> ch'.w, bytes |-> Transfers!CountOf(ch'.c)]>>
    BY DEF Transfers!Program
  <1>3. ch' \in Channel
    BY <1>1, DmaConstants DEF Channel
  <1>4. /\ ch'.r \in Cell /\ ch'.w \in Cell /\ ch'.indirect \in BOOLEAN /\ ch'.c \in Count
        /\ Transfers!CountOf(ch'.c) \in Count \ {0}
    BY <1>3, DmaConstants DEF Channel, Transfers!CountOf
  <1>5. /\ mem \in Memory /\ found' \in [mem : Memory, ch : Channel]
        /\ found'.mem = mem /\ found'.ch = ch'
    BY <1>2, <1>3 DEF DmaInv, DmaTypes
  <1>6. CASE ch'.indirect
    <2>1. DmaTypes'
      BY <1>2, <1>3, <1>4, <1>5, <1>6, DmaConstants DEF DmaTypes, Transfers!Longs, Count
    <2>2. Reading'
      <3>1. ch'.w = (ch'.w + 6 * 0) % Cells
        BY <1>4, DmaConstants, InsideIsKept
      <3>2. Len(list') = 0 /\ list' = <<>>
        BY <1>2, <1>6
      <3> QED
        BY <1>2, <1>5, <1>6, <3>1, <3>2, DmaConstants DEF Reading
    <2> QED
      BY <1>2, <1>6, <2>1, <2>2 DEF DmaInv, Copying, Transfers!CopiesTheBlock,
         Transfers!ListIsAsFound, Transfers!ContinuesWhereItEnded
  <1>7. CASE ~ch'.indirect
    <2> DEFINE e == [src |-> ch'.r, dst |-> ch'.w, bytes |-> Transfers!CountOf(ch'.c)]
    <2>1. e \in Entry /\ e.src = ch'.r /\ e.dst = ch'.w
      BY <1>4 DEF Entry
    <2>2. list' = <<e>> /\ stage' = "copy" /\ src' = ch'.r
      BY <1>2, <1>7
    <2> HIDE DEF e
    <2>3. /\ list' \in Seq(Entry) /\ copying' \in 1 .. Len(list')
          /\ list'[copying'] = e
      BY <1>2, <2>1, <2>2
    <2>4. src' = list'[copying'].src /\ dst' = list'[copying'].dst
      BY <1>2, <2>1, <2>2, <2>3
    <2>5. /\ done' \in Count /\ done' = 4 * Transfers!Longs'
          /\ src' \in Cell /\ dst' \in Cell
          /\ AtTheNext'
          /\ Transfers!CopiesTheBlock'
      BY <1>2, <1>3, <2>3, <2>4, EntryBegins
    <2>6. DmaTypes'
      BY <1>2, <1>3, <1>5, <2>2, <2>3, <2>5 DEF DmaTypes
    <2>7. Copying'
      BY <1>2, <1>5, <2>2, <2>3, <2>5 DEF Copying, e
    <2> QED
      BY <1>5, <1>7, <2>2, <2>5, <2>6, <2>7 DEF DmaInv, Reading,
         Transfers!ListIsAsFound, Transfers!ContinuesWhereItEnded
  <1> QED
    BY <1>4, <1>6, <1>7

LEMMA ReadListStep == ASSUME DmaInv, Transfers!ReadList PROVE DmaInv'
  <1> DEFINE n == Len(list)
             a == found.ch.w + 6 * n
             e == Transfers!EntryAt(mem, src)
  <1>1. /\ stage = "list" /\ list' = Append(list, e)
        /\ UNCHANGED <<mem, ch, copying, done, found, before>>
        /\ IF Transfers!Last(mem, src) \/ Transfers!TooLong(Len(list'))
           THEN /\ stage' = "copy"
                /\ src' = list'[1].src /\ dst' = list'[1].dst
           ELSE /\ stage' = "list"
                /\ src' = (src + 6) % Cells /\ dst' = dst
    BY DEF Transfers!ReadList
  <1>2. /\ DmaTypes /\ mem = found.mem /\ before = mem /\ ch = found.ch /\ found.ch.indirect
        /\ n <= ListLimit /\ copying = 1 /\ done = 0
        /\ \A k \in 1 .. n : list[k] = FoundEntry(k) /\ ~FoundLast(k)
        /\ src = a % Cells
    BY <1>1 DEF DmaInv, Reading
  <1>3. /\ mem \in Memory /\ list \in Seq(Entry) /\ n \in Nat /\ found.ch.w \in Nat /\ a \in Nat
        /\ ch \in Channel /\ found \in [mem : Memory, ch : Channel]
    <2>1. /\ mem \in Memory /\ list \in Seq(Entry) /\ ch \in Channel
          /\ found \in [mem : Memory, ch : Channel]
      BY <1>2 DEF DmaTypes
    <2>2. n \in Nat /\ found.ch.w \in Nat
      BY <2>1, DmaConstants DEF Channel
    <2> QED
      BY <2>1, <2>2
  <1>4. e = FoundEntry(n + 1) /\ (Transfers!Last(mem, src) <=> FoundLast(n + 1)) /\ e \in Entry
    <2>1. found.ch.w + 6 * ((n + 1) - 1) = a
      BY <1>3
    <2>2. e = Transfers!EntryAt(mem, a) /\ (Transfers!Last(mem, src) <=> Transfers!Last(mem, a))
      BY <1>2, <1>3, ReadWraps
    <2> HIDE DEF a
    <2>3. Transfers!EntryAt(mem, a) \in Entry
      BY <1>3, ReadTypes
    <2> QED
      BY <1>2, <2>1, <2>2, <2>3 DEF FoundEntry, FoundLast
  <1> HIDE DEF e, n, a
  <1>5. /\ list' \in Seq(Entry) /\ Len(list') = n + 1 /\ list'[n + 1] = e
        /\ \A k \in 1 .. n : list'[k] = list[k]
    BY <1>1, <1>3, <1>4 DEF n
  <1>6. \A k : FoundEntry(k)' = FoundEntry(k) /\ (FoundLast(k)' <=> FoundLast(k))
    BY <1>1 DEF FoundEntry, FoundLast
  <1>7. \A k \in 1 .. n + 1 : list'[k] = FoundEntry(k)' /\ (k < n + 1 => ~FoundLast(k)')
    <2> TAKE k \in 1 .. n + 1
    <2>1. k \in 1 .. n \/ k = n + 1
      BY <1>3
    <2> QED
      BY <1>2, <1>3, <1>4, <1>5, <1>6, <2>1
  <1>8. CASE Transfers!Last(mem, src) \/ Transfers!TooLong(Len(list'))
    <2>1. stage' = "copy" /\ src' = list'[1].src /\ dst' = list'[1].dst
      BY <1>1, <1>8
    <2>2. copying' \in 1 .. Len(list') /\ copying' = 1 /\ done' = 0 /\ before' = mem'
      BY <1>1, <1>2, <1>3, <1>5
    <2>3. /\ done' \in Count /\ done' = 4 * Transfers!Longs'
          /\ src' \in Cell /\ dst' \in Cell
          /\ AtTheNext'
          /\ Transfers!CopiesTheBlock'
      BY <1>1, <1>3, <1>5, <2>1, <2>2, EntryBegins
    <2>4. DmaTypes'
      BY <1>1, <1>2, <1>5, <2>1, <2>2, <2>3 DEF DmaTypes
    <2>5. Copying'
      BY <1>1, <1>2, <2>2, <2>3 DEF Copying
    <2>6. FoundLast(Len(list))' \/ n + 1 = ListLimit + 1
      <3>1. Transfers!TooLong(Len(list')) => n + 1 = ListLimit + 1
        BY <1>2, <1>3, <1>5, DmaConstants DEF Transfers!TooLong
      <3>2. FoundLast(Len(list))' <=> FoundLast(n + 1)
        BY <1>1, <1>5 DEF FoundLast
      <3> QED
        BY <1>4, <1>8, <3>1, <3>2
    <2>7. Transfers!ListIsAsFound'
      <3>1. \A k \in 1 .. Len(list') :
               /\ list'[k] = FoundEntry(k)'
               /\ k < Len(list') => ~FoundLast(k)'
        BY <1>5, <1>7
      <3>2. FoundLast(Len(list))' \/ Len(list') = ListLimit + 1
        BY <1>5, <2>6
      <3> QED
        BY <3>1, <3>2, Zenon DEF Transfers!ListIsAsFound, FoundEntry, FoundLast
    <2> QED
      BY <2>1, <2>3, <2>4, <2>5, <2>7 DEF DmaInv, Reading, Transfers!ContinuesWhereItEnded
  <1>9. CASE ~(Transfers!Last(mem, src) \/ Transfers!TooLong(Len(list')))
    <2>1. stage' = "list" /\ src' = (src + 6) % Cells /\ dst' = dst
      BY <1>1, <1>9
    <2>2. src' = (found'.ch.w + 6 * Len(list')) % Cells
      <3>1. a + 6 = found'.ch.w + 6 * Len(list')
        BY <1>1, <1>3, <1>5 DEF a
      <3>2. ((a % Cells) + 6) % Cells = (a + 6) % Cells
        BY <1>3, DmaConstants, WrapsOnce
      <3>3. src' = (a + 6) % Cells
        BY <1>2, <2>1, <3>2
      <3> QED
        BY <3>1, <3>3
    <2>3. \A k \in 1 .. n + 1 : ~FoundLast(k)'
      BY <1>3, <1>4, <1>6, <1>7, <1>9
    <2>4. n + 1 <= ListLimit
      BY <1>3, <1>5, <1>9, DmaConstants DEF Transfers!TooLong
    <2>5. Reading'
      BY <1>1, <1>2, <1>5, <1>7, <2>2, <2>3, <2>4 DEF Reading
    <2>6. src' \in Cell
      <3>1. src + 6 \in Nat
        BY <1>2, DmaConstants DEF DmaTypes
      <3>2. (src + 6) % Cells \in Cell
        BY <3>1, DmaConstants, Division
      <3> QED
        BY <2>1, <3>2
    <2>7. DmaTypes'
      BY <1>1, <1>2, <1>5, <2>1, <2>6 DEF DmaTypes, Transfers!Longs
    <2> QED
      BY <2>1, <2>5, <2>7 DEF DmaInv, Copying, Transfers!CopiesTheBlock,
         Transfers!ListIsAsFound, Transfers!ContinuesWhereItEnded
  <1> QED
    BY <1>8, <1>9

-----------------------------------------------------------------------------
(***************************************************************************)
(* A long is copied: two more words are sent, the last of their cells.     *)
(***************************************************************************)

\* The cells that the w-th word of the entry goes to and comes from.
SentTo(w) == Transfers!Target(w \div 2, w % 2)

TakenFrom(w) == Transfers!Source(w \div 2, w % 2)

\* What cell a holds of the entry.
Holds(a) ==
    IF Transfers!Hits(a) = {} THEN before[a]
    ELSE before[TakenFrom(Transfers!LastOf(Transfers!Hits(a)))]

LEMMA GreatestIsLast ==
    ASSUME NEW S \in SUBSET Nat, NEW w \in S, \A v \in S : v <= w
    PROVE  Transfers!LastOf(S) = w
  <1>1. \A u \in S : (\A v \in S : v <= u) => u = w
    OBVIOUS
  <1> QED
    BY <1>1 DEF Transfers!LastOf

LEMMA AddressTypes ==
    ASSUME DmaTypes, copying \in 1 .. Len(list), NEW k \in Nat, NEW h \in {0, 1}
    PROVE  Transfers!Source(k, h) \in Cell /\ Transfers!Target(k, h) \in Cell
  <1> DEFINE s == list[copying].src
             d == list[copying].dst
             p == k * ch.readAdd
             q == k * ch.writeAdd
             r == (2 * k + h) * ch.writeAdd
  <1>1. list[copying] \in Entry /\ ch \in Channel
    BY DEF DmaTypes
  <1>2. s \in Nat /\ d \in Nat /\ ch.readAdd \in Nat /\ ch.writeAdd \in Nat
    BY <1>1, EntryTypes, ChannelTypes
  <1>3. p \in Nat /\ q \in Nat
    BY <1>2, Products
  <1>4. 2 * k + h \in Nat
    OBVIOUS
  <1>5. r \in Nat
    BY <1>2, <1>4, Products
  <1>6. /\ Transfers!Source(k, h) = (s + p + h) % Cells
        /\ Transfers!Target(k, h) = (d + (IF Transfers!ToBBus THEN r ELSE q + h)) % Cells
    BY DEF Transfers!Source, Transfers!Target
  <1> HIDE DEF s, d, p, q, r
  <1>7. s + p + h \in Nat /\ d + (IF Transfers!ToBBus THEN r ELSE q + h) \in Nat
    BY <1>2, <1>3, <1>5
  <1>8. \A x \in Nat : x % Cells \in Cell
    BY DmaConstants, Division
  <1> QED
    BY <1>6, <1>7, <1>8

\* Where the cursors are after the k-th long, and where its second word is.
LEMMA CursorsMove ==
    ASSUME DmaTypes, copying \in 1 .. Len(list), NEW k \in Nat,
           src = Transfers!Source(k, 0), dst = Transfers!Target(k, 0)
    PROVE  /\ (src + ch.readAdd) % Cells = Transfers!Source(k + 1, 0)
           /\ (src + 1) % Cells = Transfers!Source(k, 1)
           /\ Transfers!AdvanceDst = Transfers!Target(k + 1, 0)
           /\ Transfers!SecondWord = Transfers!Target(k, 1)
  <1> DEFINE s == list[copying].src
             d == list[copying].dst
             ra == ch.readAdd
             wa == ch.writeAdd
  <1>1. list[copying] \in Entry /\ ch \in Channel
    BY DEF DmaTypes
  <1>2. s \in Nat /\ d \in Nat /\ ra \in Nat /\ wa \in Nat
    BY <1>1, EntryTypes, ChannelTypes
  <1>3. /\ \A h \in {0, 1} : Transfers!Source(k, h) = (s + k * ra + h) % Cells
        /\ Transfers!Source(k + 1, 0) = (s + (k + 1) * ra + 0) % Cells
    BY DEF Transfers!Source
  <1>4. /\ (src + ch.readAdd) % Cells = Transfers!Source(k + 1, 0)
        /\ (src + 1) % Cells = Transfers!Source(k, 1)
    <2> DEFINE x == s + k * ra + 0
    <2>1. src = x % Cells
      BY <1>3
    <2> HIDE DEF s, ra
    <2>2. x \in Nat /\ x + ra = s + (k + 1) * ra + 0 /\ x + 1 = s + k * ra + 1
      BY <1>2
    <2> HIDE DEF x
    <2>3. ((x % Cells) + ra) % Cells = (x + ra) % Cells
      BY <1>2, <2>2, DmaConstants, WrapsOnce
    <2>4. 1 \in Nat /\ ((x % Cells) + 1) % Cells = (x + 1) % Cells
      BY <2>2, DmaConstants, WrapsOnce
    <2> QED
      BY <1>3, <2>1, <2>2, <2>3, <2>4 DEF ra
  <1>5. CASE Transfers!ToBBus
    <2> DEFINE x == d + (2 * k + 0) * wa
    <2>1. /\ dst = x % Cells
          /\ Transfers!Target(k, 1) = (d + (2 * k + 1) * wa) % Cells
          /\ Transfers!Target(k + 1, 0) = (d + (2 * (k + 1) + 0) * wa) % Cells
          /\ Transfers!AdvanceDst = (dst + 2 * wa) % Cells
          /\ Transfers!SecondWord = (dst + wa) % Cells
      BY <1>5 DEF Transfers!Target, Transfers!AdvanceDst, Transfers!SecondWord
    <2> HIDE DEF d, wa
    <2>2. /\ x \in Nat /\ x + wa = d + (2 * k + 1) * wa
          /\ x + 2 * wa = d + (2 * (k + 1) + 0) * wa /\ 2 * wa \in Nat
      <3> DEFINE t == k * wa
                 u == (2 * k + 0) * wa
                 v == (2 * k + 1) * wa
                 y == (2 * (k + 1) + 0) * wa
      <3>1. t \in Nat /\ u = 2 * t /\ v = 2 * t + wa /\ y = 2 * t + 2 * wa
        BY <1>2
      <3> HIDE DEF t, u, v, y
      <3>2. d \in Nat /\ wa \in Nat
        BY <1>2
      <3>3. d + u \in Nat /\ 2 * wa \in Nat
        BY <3>1, <3>2
      <3>4. d + u + wa = d + v
        BY <3>1, <3>2
      <3>5. d + u + 2 * wa = d + y
        BY <3>1, <3>2
      <3> QED
        BY <3>3, <3>4, <3>5 DEF u, v, y
    <2> HIDE DEF x
    <2>3. /\ ((x % Cells) + wa) % Cells = (x + wa) % Cells
          /\ ((x % Cells) + 2 * wa) % Cells = (x + 2 * wa) % Cells
      BY <1>2, <2>2, DmaConstants, WrapsOnce
    <2> QED
      BY <1>4, <2>1, <2>2, <2>3
  <1>6. CASE ~Transfers!ToBBus
    <2> DEFINE x == d + (k * wa + 0)
    <2>1. /\ dst = x % Cells
          /\ Transfers!Target(k, 1) = (d + (k * wa + 1)) % Cells
          /\ Transfers!Target(k + 1, 0) = (d + ((k + 1) * wa + 0)) % Cells
          /\ Transfers!AdvanceDst = (dst + 1 * wa) % Cells
          /\ Transfers!SecondWord = (dst + 1) % Cells
      BY <1>6 DEF Transfers!Target, Transfers!AdvanceDst, Transfers!SecondWord
    <2> HIDE DEF d, wa
    <2>2. /\ x \in Nat /\ x + 1 = d + (k * wa + 1)
          /\ x + wa = d + ((k + 1) * wa + 0) /\ 1 * wa = wa
      BY <1>2
    <2> HIDE DEF x
    <2>3. 1 \in Nat /\ ((x % Cells) + 1) % Cells = (x + 1) % Cells
      BY <2>2, DmaConstants, WrapsOnce
    <2>4. ((x % Cells) + wa) % Cells = (x + wa) % Cells
      BY <1>2, <2>2, DmaConstants, WrapsOnce
    <2> QED
      BY <1>4, <2>1, <2>2, <2>3, <2>4
  <1> QED
    BY <1>5, <1>6

\* If every cell held what it was sent last and the sources are not overwritten, so
\* it is after the k-th long.
LEMMA LongIsCopied ==
    ASSUME DmaTypes, copying \in 1 .. Len(list), NEW k \in Nat,
           Transfers!Longs = k, Transfers!Longs' = k + 1,
           4 * k < list[copying].bytes, Transfers!Disjoint,
           \A a \in Cell : mem[a] = Holds(a),
           UNCHANGED <<list, copying, ch, before>>,
           mem' = [mem EXCEPT ![Transfers!Target(k, 0)] = mem[Transfers!Source(k, 0)],
                              ![Transfers!Target(k, 1)] = mem[Transfers!Source(k, 1)]]
    PROVE  \A a \in Cell : mem'[a] = Holds(a)'
  <1> DEFINE new == 2 * k
  <1>1. \A w : SentTo(w)' = SentTo(w) /\ TakenFrom(w)' = TakenFrom(w)
    BY DEF SentTo, TakenFrom, Transfers!Target, Transfers!Source, Transfers!ToBBus
  <1>2. /\ SentTo(new) = Transfers!Target(k, 0) /\ SentTo(new + 1) = Transfers!Target(k, 1)
        /\ TakenFrom(new) = Transfers!Source(k, 0) /\ TakenFrom(new + 1) = Transfers!Source(k, 1)
    <2>1. /\ new \div 2 = k /\ new % 2 = 0
          /\ (new + 1) \div 2 = k /\ (new + 1) % 2 = 1
      OBVIOUS
    <2> QED
      BY <2>1 DEF SentTo, TakenFrom
  <1>3. /\ \A a : Transfers!Hits(a) = {w \in 0 .. new - 1 : SentTo(w) = a}
        /\ \A a : Transfers!Hits(a)' = {w \in 0 .. new + 1 : SentTo(w) = a}
    <2>1. 2 * (k + 1) - 1 = new + 1
      OBVIOUS
    <2>2. \A a : Transfers!Hits(a)' = {w \in 0 .. 2 * (k + 1) - 1 : SentTo(w)' = a}
      BY DEF Transfers!Hits, SentTo
    <2> QED
      BY <1>1, <2>1, <2>2 DEF Transfers!Hits, SentTo
  <1>4. \A h \in {0, 1} : mem[Transfers!Source(k, h)] = before[Transfers!Source(k, h)]
    <2> SUFFICES ASSUME NEW h \in {0, 1}
                 PROVE  Transfers!Hits(Transfers!Source(k, h)) = {}
      BY AddressTypes DEF Holds
    <2>1. ASSUME NEW w \in 0 .. new - 1 PROVE SentTo(w) # Transfers!Source(k, h)
      <3>1. list[copying].bytes \in Nat
        <4>1. list[copying] \in Entry
          BY DEF DmaTypes
        <4> QED
          BY <4>1, EntryTypes
      <3>2. k \in 0 .. (list[copying].bytes + 3) \div 4 - 1
        BY <3>1
      <3>3. w \div 2 \in 0 .. k /\ w % 2 \in {0, 1}
        OBVIOUS
      <3>4. w \div 2 \in 0 .. (list[copying].bytes + 3) \div 4 - 1
        <4> DEFINE l == (list[copying].bytes + 3) \div 4
                   v == w \div 2
        <4>1. l \in Int
          BY <3>1
        <4> HIDE DEF l, v
        <4>2. v \in 0 .. k /\ k \in 0 .. l - 1
          BY <3>2, <3>3 DEF l, v
        <4>3. v \in 0 .. l - 1
          BY <4>1, <4>2
        <4> QED
          BY <4>3 DEF l, v
      <3> QED
        BY <3>2, <3>3, <3>4 DEF Transfers!Disjoint, SentTo
    <2> QED
      BY <1>3, <2>1
  <1>5. mem \in Memory /\ Transfers!Target(k, 0) \in Cell /\ Transfers!Target(k, 1) \in Cell
    BY AddressTypes DEF DmaTypes
  <1> SUFFICES ASSUME NEW a \in Cell PROVE mem'[a] = Holds(a)'
    OBVIOUS
  <1>6. CASE Transfers!Target(k, 1) = a
    <2>1. mem'[a] = before[TakenFrom(new + 1)]
      BY <1>2, <1>4, <1>5, <1>6 DEF Memory
    <2>2. /\ Transfers!Hits(a)' \in SUBSET Nat /\ new + 1 \in Transfers!Hits(a)'
          /\ \A v \in Transfers!Hits(a)' : v <= new + 1
      BY <1>2, <1>3, <1>6
    <2>3. Transfers!LastOf(Transfers!Hits(a)') = new + 1
      BY <2>2, GreatestIsLast
    <2> QED
      BY <1>1, <2>1, <2>2, <2>3 DEF Holds, TakenFrom, Transfers!Source
  <1>7. CASE Transfers!Target(k, 1) # a /\ Transfers!Target(k, 0) = a
    <2>1. mem'[a] = before[TakenFrom(new)]
      BY <1>2, <1>4, <1>5, <1>7 DEF Memory
    <2>2. /\ Transfers!Hits(a)' \in SUBSET Nat /\ new \in Transfers!Hits(a)'
          /\ \A v \in Transfers!Hits(a)' : v <= new
      <3>1. \A w \in 0 .. new + 1 : w \in Nat /\ (w <= new \/ w = new + 1)
        OBVIOUS
      <3>2. new \in 0 .. new + 1
        OBVIOUS
      <3> HIDE DEF new
      <3> QED
        BY <1>2, <1>3, <1>7, <3>1, <3>2
    <2>3. Transfers!LastOf(Transfers!Hits(a)') = new
      BY <2>2, GreatestIsLast
    <2> QED
      BY <1>1, <2>1, <2>2, <2>3 DEF Holds, TakenFrom, Transfers!Source
  <1>8. CASE Transfers!Target(k, 1) # a /\ Transfers!Target(k, 0) # a
    <2>1. mem'[a] = mem[a]
      BY <1>5, <1>8 DEF Memory
    <2>2. Transfers!Hits(a)' = Transfers!Hits(a)
      <3>1. \A w \in 0 .. new + 1 : w \in 0 .. new - 1 \/ w = new \/ w = new + 1
        OBVIOUS
      <3>2. 0 .. new - 1 \subseteq 0 .. new + 1
        OBVIOUS
      <3> HIDE DEF new
      <3> QED
        BY <1>2, <1>3, <1>8, <3>1, <3>2
    <2> QED
      BY <2>1, <2>2 DEF Holds, TakenFrom, Transfers!Source
  <1> QED
    BY <1>6, <1>7, <1>8

LEMMA CopyLongStep == ASSUME DmaInv, Transfers!CopyLong PROVE DmaInv'
  <1> DEFINE e == list[copying]
             k == Transfers!Longs
  <1>1. /\ stage = "copy" /\ done < e.bytes
        /\ mem' = [mem EXCEPT ![dst] = Transfers!At(mem, src),
                              ![Transfers!SecondWord] = Transfers!At(mem, src + 1)]
        /\ dst' = Transfers!AdvanceDst /\ src' = (src + ch.readAdd) % Cells
        /\ done' = (done + 4) % Transfers!CountRange
        /\ UNCHANGED <<ch, stage, list, copying, ended, found, before>>
    BY DEF Transfers!CopyLong, Transfers!More, Transfers!Copied
  <1>2. DmaTypes /\ copying \in 1 .. Len(list) /\ ch = found.ch /\ AtTheNext
    BY <1>1 DEF DmaInv, Copying
  <1>3. /\ e \in Entry /\ ch \in Channel /\ mem \in Memory /\ src \in Cell /\ dst \in Cell
        /\ done \in Count /\ done = 4 * k
    BY <1>2 DEF DmaTypes
  <1>4. /\ e.dst \in Nat /\ e.bytes \in Nat /\ ch.writeAdd \in Nat /\ ch.readAdd \in Nat
        /\ src \in Nat /\ dst \in Nat
    <2> HIDE DEF e
    <2>1. src \in Nat /\ dst \in Nat
      BY <1>3, DmaConstants
    <2> QED
      BY <1>3, <2>1, EntryTypes, ChannelTypes
  <1>5. k \in Nat /\ Transfers!CountRange \in Nat \ {0} /\ done \in Nat
    BY <1>3, DmaConstants DEF Transfers!Longs, Count
  <1>6. /\ done' \in Count /\ done' = 4 * Transfers!Longs'
        /\ done + 4 < Transfers!CountRange => done' = 4 * (k + 1) /\ Transfers!Longs' = k + 1
    <2> DEFINE n == Transfers!CountRange
    <2>1. PICK m \in Nat : n = 4 * m
      BY DmaConstants
    <2>2. n \in Nat \ {0} /\ done \in 0 .. n - 1 /\ done' = (done + 4) % n
      BY <1>1, <1>3, <1>5 DEF Count
    <2>3. Transfers!Longs' = done' \div 4
      BY DEF Transfers!Longs
    <2> HIDE DEF n, k
    <2>4. CASE done + 4 < n
      <3>1. done' = done + 4
        BY <1>5, <2>2, <2>4, InsideIsKept
      <3>2. done' \div 4 = k + 1
        BY <1>3, <1>5, <3>1
      <3> QED
        BY <1>3, <1>5, <2>2, <2>3, <2>4, <3>1, <3>2 DEF Count, n
    <2>5. CASE done + 4 >= n
      <3>1. done + 4 = n
        BY <1>3, <1>5, <2>1, <2>2, <2>5
      <3>2. n * 1 + 0 = n /\ 0 \in 0 .. n - 1
        BY <2>2
      <3>3. (n * 1 + 0) % n = 0
        BY <2>2, <3>2, Quotient
      <3>4. done' = 0
        BY <2>2, <3>1, <3>2, <3>3
      <3> QED
        BY <2>2, <2>3, <2>5, <3>4 DEF Count, n
    <2> QED
      BY <2>2, <2>4, <2>5
  <1>7. src' \in Cell /\ dst' \in Cell /\ Transfers!SecondWord \in Cell
    <2>1. \A x \in Nat : x % Cells \in Cell
      BY DmaConstants, Division
    <2>2. \A n \in {1, 2} : dst + n * ch.writeAdd \in Nat
      BY <1>4
    <2>3. dst' = (dst + 2 * ch.writeAdd) % Cells \/ dst' = (dst + 1 * ch.writeAdd) % Cells
      BY <1>1 DEF Transfers!AdvanceDst
    <2>4. Transfers!SecondWord = (dst + ch.writeAdd) % Cells \/ Transfers!SecondWord = (dst + 1) % Cells
      BY DEF Transfers!SecondWord
    <2>5. dst + ch.writeAdd \in Nat /\ dst + 1 \in Nat /\ src + ch.readAdd \in Nat
      BY <1>4
    <2>6. src' \in Cell
      BY <1>1, <2>1, <2>5
    <2>7. dst' \in Cell
      BY <2>1, <2>2, <2>3
    <2>8. Transfers!SecondWord \in Cell
      BY <2>1, <2>4, <2>5
    <2> QED
      BY <2>6, <2>7, <2>8
  <1>8. mem' \in Memory
    <2>1. Transfers!At(mem, src) \in 0 .. Width - 1 /\ Transfers!At(mem, src + 1) \in 0 .. Width - 1
      BY <1>3, <1>4, ReadTypes
    <2> QED
      BY <1>1, <1>3, <2>1 DEF Memory
  <1>9. DmaTypes'
    BY <1>1, <1>2, <1>6, <1>7, <1>8 DEF DmaTypes
  <1>10. Transfers!Countable(e) =>
           /\ done' = 4 * (k + 1) /\ Transfers!Longs' = k + 1
           /\ src = Transfers!Source(k, 0) /\ dst = Transfers!Target(k, 0)
           /\ src' = Transfers!Source(k + 1, 0) /\ dst' = Transfers!Target(k + 1, 0)
           /\ Transfers!SecondWord = Transfers!Target(k, 1)
           /\ (src + 1) % Cells = Transfers!Source(k, 1)
    <2> SUFFICES ASSUME Transfers!Countable(e)
                 PROVE  /\ done + 4 < Transfers!CountRange
                        /\ src = Transfers!Source(k, 0) /\ dst = Transfers!Target(k, 0)
                        /\ src' = Transfers!Source(k + 1, 0) /\ dst' = Transfers!Target(k + 1, 0)
                        /\ Transfers!SecondWord = Transfers!Target(k, 1)
                        /\ (src + 1) % Cells = Transfers!Source(k, 1)
      BY <1>6
    <2>1. done + 4 < Transfers!CountRange
      BY <1>1, <1>4, <1>5 DEF Transfers!Countable
    <2>2. src = Transfers!Source(k, 0) /\ dst = Transfers!Target(k, 0)
      BY <1>2 DEF AtTheNext
    <2> HIDE DEF k
    <2> QED
      BY <1>1, <1>2, <1>5, <2>1, <2>2, CursorsMove
  <1>11. AtTheNext'
    <2> SUFFICES ASSUME Transfers!Countable(e)
                 PROVE  /\ done' < e.bytes + 4
                        /\ src' = Transfers!Source(Transfers!Longs, 0)'
                        /\ dst' = Transfers!Target(Transfers!Longs, 0)'
      BY <1>1 DEF AtTheNext, Transfers!Countable
    <2>1. done' < e.bytes + 4
      BY <1>1, <1>3, <1>4, <1>5, <1>10
    <2>2. /\ Transfers!Source(Transfers!Longs, 0)' = Transfers!Source(k + 1, 0)
          /\ Transfers!Target(Transfers!Longs, 0)' = Transfers!Target(k + 1, 0)
      BY <1>1, <1>10 DEF Transfers!Source, Transfers!Target, Transfers!ToBBus
    <2> QED
      BY <1>10, <2>1, <2>2
  <1>12. Copying'
    BY <1>1, <1>2, <1>11 DEF DmaInv, Copying
  <1>13. Transfers!CopiesTheBlock'
    <2>1. Transfers!Disjoint' <=> Transfers!Disjoint
      BY <1>1 DEF Transfers!Disjoint, Transfers!Source, Transfers!Target, Transfers!ToBBus
    <2>2. Transfers!Countable(list[copying])' <=> Transfers!Countable(e)
      BY <1>1 DEF Transfers!Countable
    <2> SUFFICES ASSUME Transfers!Countable(e), Transfers!Disjoint
                 PROVE  \A a \in Cell : mem'[a] = Holds(a)'
      BY <2>1, <2>2 DEF Transfers!CopiesTheBlock, Holds, TakenFrom, Cell
    <2>3. \A a \in Cell : mem[a] = Holds(a)
      BY <1>1 DEF DmaInv, Transfers!CopiesTheBlock, Holds, TakenFrom, Cell
    <2>4. mem' = [mem EXCEPT ![Transfers!Target(k, 0)] = mem[Transfers!Source(k, 0)],
                             ![Transfers!Target(k, 1)] = mem[Transfers!Source(k, 1)]]
      <3>1. src % Cells = src
        BY <1>3, DmaConstants, InsideIsKept
      <3>2. Transfers!At(mem, src) = mem[src] /\ Transfers!At(mem, src + 1) = mem[(src + 1) % Cells]
        BY <3>1 DEF Transfers!At
      <3> QED
        BY <1>1, <1>10, <3>2
    <2>5. 4 * k < e.bytes
      BY <1>1, <1>3
    <2>6. Transfers!Longs = k /\ Transfers!Longs' = k + 1
      BY <1>10
    <2> HIDE DEF k
    <2> QED
      BY <1>1, <1>2, <1>5, <2>3, <2>4, <2>5, <2>6, LongIsCopied
  <1> QED
    BY <1>1, <1>9, <1>12, <1>13 DEF DmaInv, Reading, Transfers!ListIsAsFound,
       Transfers!ContinuesWhereItEnded

\* Where a transfer whose entry is copied has left its cursors.
LEMMA EntryIsOver ==
    ASSUME DmaInv, Transfers!EndEntry
    PROVE  LET longs == (list[copying].bytes + 3) \div 4
           IN  /\ src = Transfers!Source(longs, 0) /\ dst = Transfers!Target(longs, 0)
  <1> DEFINE e == list[copying]
             k == Transfers!Longs
  <1>1. stage = "copy" /\ ~(done < e.bytes)
    BY DEF Transfers!EndEntry, Transfers!More
  <1>2. DmaTypes /\ copying \in 1 .. Len(list) /\ AtTheNext
    BY <1>1 DEF DmaInv, Copying
  <1>3. e \in Entry /\ done \in Count /\ done = 4 * k
    BY <1>2 DEF DmaTypes
  <1>4. e.bytes \in Nat /\ done \in Nat /\ k \in Nat /\ done < Transfers!CountRange
    <2>1. e.bytes \in Nat
      <3> HIDE DEF e
      <3> QED
        BY <1>3, EntryTypes
    <2>2. done \in Nat /\ done < Transfers!CountRange
      BY <1>3, DmaConstants DEF Count
    <2> QED
      BY <2>1, <2>2 DEF Transfers!Longs
  <1>5. Transfers!Countable(e)
    <2>1. PICK m \in Nat : Transfers!CountRange = 4 * m
      BY DmaConstants
    <2> HIDE DEF k, e
    <2>2. done <= Transfers!CountRange - 4
      BY <1>3, <1>4, <2>1
    <2> QED
      BY <1>1, <1>4, <2>1, <2>2 DEF Transfers!Countable
  <1>6. /\ done < e.bytes + 4
        /\ src = Transfers!Source(k, 0) /\ dst = Transfers!Target(k, 0)
    BY <1>2, <1>5 DEF AtTheNext
  <1>7. (e.bytes + 3) \div 4 = k
    <2> HIDE DEF k, e
    <2> QED
      BY <1>1, <1>3, <1>4, <1>6
  <1> QED
    BY <1>6, <1>7

LEMMA EndEntryStep == ASSUME DmaInv, Transfers!EndEntry PROVE DmaInv'
  <1> DEFINE e == list[copying]
             longs == (e.bytes + 3) \div 4
  <1>1. /\ stage = "copy" /\ ch' = Transfers!Updated /\ before' = mem /\ done' = 0
        /\ IF copying < Len(list)
           THEN /\ copying' = copying + 1 /\ stage' = stage
                /\ src' = list[copying + 1].src /\ dst' = list[copying + 1].dst
           ELSE stage' = "end" /\ UNCHANGED <<copying, src, dst>>
        /\ UNCHANGED <<mem, list, ended, found>>
    BY DEF Transfers!EndEntry
  <1>2. /\ DmaTypes /\ copying \in 1 .. Len(list) /\ ch = found.ch
        /\ ~found.ch.indirect =>
             list = <<[src |-> found.ch.r, dst |-> found.ch.w,
                       bytes |-> Transfers!CountOf(found.ch.c)]>>
    BY <1>1 DEF DmaInv, Copying
  <1>3. /\ ch \in Channel /\ src \in Cell /\ dst \in Cell /\ list \in Seq(Entry)
    BY <1>2 DEF DmaTypes
  <1>4. ch' \in Channel
    BY <1>1, <1>3 DEF Channel, Transfers!Updated
  <1>5. CASE copying < Len(list)
    <2>1. found.ch.indirect
      <3>1. ~found.ch.indirect => Len(list) = 1
        BY <1>2
      <3>2. Len(list) # 1
        <4> DEFINE n == Len(list)
        <4>1. n \in Nat /\ copying \in 1 .. n /\ copying < n
          BY <1>2, <1>3, <1>5
        <4> HIDE DEF n
        <4>2. n # 1
          BY <4>1
        <4> QED
          BY <4>2 DEF n
      <3> QED
        BY <3>1, <3>2, Zenon
    <2>2. ch' = ch
      BY <1>1, <1>2, <1>3, <2>1 DEF Transfers!Updated, Channel
    <2>3. /\ copying' \in 1 .. Len(list') /\ list' \in Seq(Entry) /\ stage' = "copy"
          /\ src' = list'[copying'].src /\ dst' = list'[copying'].dst /\ before' = mem'
      BY <1>1, <1>2, <1>3, <1>5
    <2>4. /\ done' \in Count /\ done' = 4 * Transfers!Longs'
          /\ src' \in Cell /\ dst' \in Cell /\ AtTheNext' /\ Transfers!CopiesTheBlock'
      BY <1>1, <1>4, <2>3, EntryBegins
    <2>5. DmaTypes'
      BY <1>1, <1>2, <1>4, <2>3, <2>4 DEF DmaTypes
    <2>6. Copying'
      BY <1>1, <1>2, <2>1, <2>2, <2>3, <2>4 DEF Copying
    <2>7. Transfers!ListIsAsFound'
      BY <1>1 DEF DmaInv, Transfers!ListIsAsFound
    <2> QED
      BY <2>3, <2>4, <2>5, <2>6, <2>7 DEF DmaInv, Reading, Transfers!ContinuesWhereItEnded
  <1>6. CASE ~(copying < Len(list))
    <2>1. /\ stage' = "end" /\ UNCHANGED <<copying, src, dst>>
      BY <1>1, <1>6
    <2>2. DmaTypes'
      <3>1. 0 \in Count /\ Transfers!Longs' = 0
        BY <1>1, DmaConstants DEF Transfers!Longs, Count
      <3> QED
        BY <1>1, <1>2, <1>4, <2>1, <3>1 DEF DmaTypes
    <2>3. Transfers!ContinuesWhereItEnded'
      <3> DEFINE c == found.ch
      <3>1. CASE c.indirect
        BY <1>1, <1>2, <1>3, <3>1 DEF Transfers!Updated, Transfers!ContinuesWhereItEnded, Channel
      <3>2. CASE ~c.indirect
        <4> DEFINE n == (Transfers!CountOf(c.c) + 3) \div 4
        <4>1. /\ e.src = c.r /\ e.dst = c.w /\ e.bytes = Transfers!CountOf(c.c)
          BY <1>2, <3>2
        <4>2. longs \in Nat /\ n = longs /\ e.dst \in Nat
          <5>1. e \in Entry
            BY <1>2, <1>3
          <5>2. e.bytes \in Nat /\ e.dst \in Nat
            BY <5>1, EntryTypes
          <5> QED
            BY <4>1, <5>2
        <4> HIDE DEF e, longs, n
        <4>3. src = Transfers!Source(longs, 0) /\ dst = Transfers!Target(longs, 0)
          BY EntryIsOver DEF longs, e
        <4>4. /\ c.readAdd \in Nat /\ c.writeAdd \in Nat /\ c.r \in Nat /\ c.w \in Nat
          BY <1>2, <1>3, ChannelTypes
        <4>5. src = (c.r + n * c.readAdd) % Cells
          <5>1. src = (e.src + longs * ch.readAdd + 0) % Cells
            BY <4>3 DEF Transfers!Source, e
          <5>2. c.r + n * c.readAdd + 0 = c.r + n * c.readAdd
            BY <4>2, <4>4
          <5> QED
            BY <1>2, <4>1, <4>2, <5>1, <5>2
        <4>6. dst = (c.w + (n * (IF c.w \in BBus THEN 2 ELSE 1)) * c.writeAdd) % Cells
          <5>1. dst = (e.dst + (IF e.dst \in BBus THEN (2 * longs + 0) * ch.writeAdd
                                ELSE longs * ch.writeAdd + 0)) % Cells
            BY <4>3 DEF Transfers!Target, Transfers!ToBBus, e
          <5>2. 2 * n + 0 = n * 2 /\ n * c.writeAdd + 0 = (n * 1) * c.writeAdd
            BY <4>2, <4>4
          <5> QED
            BY <1>2, <4>1, <4>2, <5>1, <5>2
        <4>7. /\ ch'.r = (IF c.keepR THEN c.r ELSE src) /\ ch'.w = (IF c.keepW THEN c.w ELSE dst)
          BY <1>1, <1>2, <1>3, <3>2 DEF Transfers!Updated, Channel
        <4> QED
          BY <1>1, <3>2, <4>5, <4>6, <4>7 DEF Transfers!ContinuesWhereItEnded, n
      <3> QED
        BY <3>1, <3>2
    <2> QED
      BY <2>1, <2>2, <2>3 DEF DmaInv, Reading, Copying, Transfers!CopiesTheBlock,
         Transfers!ListIsAsFound
  <1> QED
    BY <1>5, <1>6

LEMMA DmaInvStep == ASSUME DmaInv, [Transfers!DmaNext]_dmaVars PROVE DmaInv'
  <1>1. CASE UNCHANGED dmaVars
    <2>1. UNCHANGED <<mem, ch, stage, list, copying, src, dst, done, ended, found, before>>
      BY <1>1 DEF dmaVars
    <2>2. DmaTypes' /\ Reading' /\ Copying'
      BY <2>1 DEF DmaInv, DmaTypes, Reading, Copying, AtTheNext, FoundEntry, FoundLast,
         Transfers!Longs, Transfers!Source, Transfers!Target, Transfers!ToBBus
    <2>3. Transfers!ListIsAsFound' /\ Transfers!ContinuesWhereItEnded'
      BY <2>1 DEF DmaInv, Transfers!ListIsAsFound, Transfers!ContinuesWhereItEnded
    <2>4. Transfers!CopiesTheBlock'
      <3>1. /\ Transfers!Disjoint' <=> Transfers!Disjoint
            /\ Transfers!Countable(list[copying])' <=> Transfers!Countable(list[copying])
        BY <2>1 DEF Transfers!Disjoint, Transfers!Countable, Transfers!Source,
           Transfers!Target, Transfers!ToBBus
      <3>2. \A a : Transfers!Hits(a)' = Transfers!Hits(a)
        BY <2>1 DEF Transfers!Hits, Transfers!Longs, Transfers!Target, Transfers!ToBBus
      <3>3. \A a : Holds(a)' = Holds(a)
        BY <2>1, <3>2 DEF Holds, TakenFrom, Transfers!Source
      <3>4. stage = "copy" /\ Transfers!Countable(list[copying]) /\ Transfers!Disjoint =>
              \A a \in Cell : mem[a] = Holds(a)
        BY DEF DmaInv, Transfers!CopiesTheBlock, Holds, TakenFrom, Cell
      <3>5. (stage = "copy" /\ Transfers!Countable(list[copying]) /\ Transfers!Disjoint)' =>
              \A a \in Cell : mem'[a] = Holds(a)'
        BY <2>1, <3>1, <3>3, <3>4
      <3> QED
        BY <3>5 DEF Transfers!CopiesTheBlock, Holds, TakenFrom, Cell
    <2> QED
      BY <2>2, <2>3, <2>4 DEF DmaInv
  <1>2. CASE Transfers!End
    <2>1. /\ ch' = [ch EXCEPT !.go = FALSE] /\ stage = "end" /\ stage' = "program"
          /\ UNCHANGED <<mem, list, copying, src, dst, done, found, before>>
      BY <1>2 DEF Transfers!End, Transfers!cursor
    <2>2. ch' \in Channel
      BY <2>1 DEF DmaInv, DmaTypes, Channel
    <2>3. DmaTypes'
      BY <2>1, <2>2 DEF DmaInv, DmaTypes, Transfers!Longs
    <2> QED
      BY <2>1, <2>3 DEF DmaInv, Reading, Copying, Transfers!CopiesTheBlock,
         Transfers!ListIsAsFound, Transfers!ContinuesWhereItEnded
  <1> QED
    BY <1>1, <1>2, ProgramStep, ReadListStep, CopyLongStep, EndEntryStep
    DEF Transfers!DmaNext, Transfers!DmaStep

-----------------------------------------------------------------------------
(***************************************************************************)
(* The DSP of the SCU: the run that a step of the machine owes.            *)
(***************************************************************************)

\* The program executes, and is to be run, from the store that asks until the run.
DspInv ==
    /\ runs \in {0, 1} /\ asked \in BOOLEAN
    /\ dspRunning \in BOOLEAN /\ startRequested \in BOOLEAN
    /\ (dspRunning <=> startRequested) /\ (dspRunning <=> asked /\ runs = 0)
    /\ ~asked => runs = 0

LEMMA DspStart == Transfers!DspInit => DspInv
  BY DEF Transfers!DspInit, DspInv

LEMMA DspStep == ASSUME DspInv, [Transfers!DspNext]_dspVars PROVE DspInv'
  <1>1. CASE UNCHANGED <<dspRunning, startRequested, asked, runs>>
    BY <1>1 DEF DspInv
  <1>2. ASSUME runs = 0, NEW le \in BOOLEAN, NEW ex \in BOOLEAN, NEW pc,
               Transfers!WritePpaf(le, pc, ex)
        PROVE  DspInv'
    <2>1. /\ dspRunning' \in BOOLEAN /\ (dspRunning' <=> dspRunning \/ ex)
          /\ startRequested' \in BOOLEAN /\ (startRequested' <=> startRequested \/ ex)
          /\ asked' \in BOOLEAN /\ (asked' <=> asked \/ ex) /\ runs' = runs
      BY <1>2, Zenon DEF Transfers!WritePpaf, DspInv
    <2> QED
      BY <1>2, <2>1 DEF DspInv
  <1>3. CASE Transfers!Run
    <2>1. /\ dspRunning' = FALSE /\ startRequested' = FALSE
          /\ runs' = runs + 1 /\ asked' = asked /\ startRequested
      BY <1>3 DEF Transfers!Run
    <2>2. asked /\ runs = 0
      BY <2>1, Zenon DEF DspInv
    <2>3. runs' = 1
      BY <2>1, <2>2
    <2> QED
      BY <2>1, <2>2, <2>3, 1 # 0, Zenon DEF DspInv
  <1>4. CASE Transfers!EndOfStep
    BY <1>4 DEF Transfers!EndOfStep, DspInv
  <1> QED
    BY <1>1, <1>2, <1>3, <1>4
    DEF Transfers!DspNext, Transfers!WritePpd, Transfers!WritePda, Transfers!WritePdd,
        Transfers!ReadPdd, Transfers!WritePartOfPdd, dspVars

LEMMA DspRunsOnce == DspInv => Transfers!RunsOnce
  BY DEF DspInv, Transfers!RunsOnce

-----------------------------------------------------------------------------
(***************************************************************************)
(* The timers of the SCSP.                                                 *)
(***************************************************************************)

Lap == Top * SoundTick

Gain(t) == SoundTick \div 2 ^ prescaler[t]

\* What a timer would stand at if it did not wrap.
Total(t) == loaded[t] * SoundTick + since[t] * Gain(t)

\* The inductive invariant: a count is what was loaded and what the samples since
\* have added, less a lap for every time that it wrapped.
TimersInv ==
    /\ prescaler \in [Timers -> Prescalers] /\ loaded \in [Timers -> 0 .. Top]
    /\ count \in [Timers -> 0 .. Lap] /\ since \in [Timers -> Nat]
    /\ owed \in Nat /\ (batch # "none" => owed = 0)
    /\ \A t \in Timers :
           /\ since[t] <= Scsp!Period(t)
           /\ count[t] = Total(t) - Lap * Scsp!Wraps(t, since[t])

LEMMA TimerConstants ==
    /\ SoundTick \in Nat \ {0} /\ Top \in Nat \ {0} /\ Lap \in Nat \ {0}
    /\ 0 \in Prescalers /\ SampleBit \notin Timers
    /\ \A p \in Prescalers :
           /\ 2 ^ p \in Nat \ {0} /\ SoundTick \div 2 ^ p \in 1 .. SoundTick
           /\ (Top * 2 ^ p) * (SoundTick \div 2 ^ p) = Lap /\ Top * 2 ^ p \in Nat \ {0}
  <1>1. /\ SoundTick \in Nat \ {0} /\ Top \in Nat \ {0}
        /\ 0 \in Prescalers /\ SampleBit \notin Timers
        /\ \A p \in Prescalers : 2 ^ p \in 1 .. SoundTick /\ SoundTick % 2 ^ p = 0
    BY InstanceAssumptions DEF Scsp!TimersAssumption
  <1>2. Lap \in Nat \ {0}
    BY <1>1 DEF Lap
  <1>3. ASSUME NEW n \in 1 .. SoundTick, SoundTick % n = 0
        PROVE  /\ SoundTick \div n \in 1 .. SoundTick /\ Top * n \in Nat \ {0}
               /\ (Top * n) * (SoundTick \div n) = Lap
    <2> DEFINE q == SoundTick \div n
    <2>1. q \in Nat /\ SoundTick = n * q
      <3>1. n \in Nat \ {0} /\ SoundTick \in Nat
        BY <1>1
      <3>2. q \in Nat /\ SoundTick = n * q + (SoundTick % n)
        BY <3>1, Division
      <3> QED
        BY <1>3, <3>1, <3>2
    <2> HIDE DEF q
    <2>2. q # 0 /\ q <= n * q
      BY <1>1, <2>1
    <2>3. (Top * n) * q = Top * (n * q) /\ Top * n \in Nat \ {0}
      BY <1>1, <2>1
    <2> QED
      BY <1>1, <2>1, <2>2, <2>3 DEF q, Lap
  <1> QED
    BY <1>1, <1>2, <1>3

LEMMA TimersStart == Scsp!TimersInit => TimersInv
  <1> SUFFICES ASSUME Scsp!TimersInit PROVE TimersInv
    OBVIOUS
  <1>1. /\ count = [t \in Timers |-> 0] /\ prescaler = [t \in Timers |-> 0]
        /\ loaded = [t \in Timers |-> 0] /\ since = [t \in Timers |-> 0]
        /\ batch = "none" /\ owed = 0
    BY DEF Scsp!TimersInit
  <1>2. ASSUME NEW t \in Timers
        PROVE  since[t] <= Scsp!Period(t) /\ count[t] = Total(t) - Lap * Scsp!Wraps(t, since[t])
    <2>1. /\ prescaler[t] \in Prescalers /\ since[t] = 0 /\ loaded[t] = 0 /\ count[t] = 0
          /\ Scsp!Wraps(t, since[t]) = 0
      BY <1>1, TimerConstants DEF Scsp!Wraps
    <2>2. Scsp!Period(t) \in Nat /\ Gain(t) \in Nat
      BY <2>1, TimerConstants DEF Scsp!Period, Gain
    <2> QED
      BY <2>1, <2>2, TimerConstants DEF Total
  <1> QED
    BY <1>1, <1>2, TimerConstants DEF TimersInv

\* A timer that is loaded starts over.
LEMMA LoadStep ==
    ASSUME TimersInv, NEW t \in Timers, NEW v \in 0 .. Top, NEW p \in Prescalers,
           Scsp!LoadTimer(t, v, p)
    PROVE  TimersInv'
  <1>1. /\ count' = [count EXCEPT ![t] = v * SoundTick] /\ prescaler' = [prescaler EXCEPT ![t] = p]
        /\ loaded' = [loaded EXCEPT ![t] = v] /\ since' = [since EXCEPT ![t] = 0]
        /\ owed' = owed /\ batch # "none" /\ batch' = "run"
    BY DEF Scsp!LoadTimer, Scsp!Execute
  <1>2. v * SoundTick \in 0 .. Lap
    BY TimerConstants, Grows DEF Lap
  <1>3. /\ prescaler' \in [Timers -> Prescalers] /\ loaded' \in [Timers -> 0 .. Top]
        /\ count' \in [Timers -> 0 .. Lap] /\ since' \in [Timers -> Nat]
        /\ owed' = 0
    BY <1>1, <1>2 DEF TimersInv
  <1>4. ASSUME NEW u \in Timers
        PROVE  /\ since'[u] <= Scsp!Period(u)'
               /\ count'[u] = Total(u)' - Lap * Scsp!Wraps(u, since[u])'
    <2>1. CASE u = t
      <3>1. /\ prescaler'[u] = p /\ since'[u] = 0 /\ loaded'[u] = v /\ count'[u] = v * SoundTick
            /\ Scsp!Wraps(u, since[u])' = 0
        BY <1>1, <2>1 DEF TimersInv, Scsp!Wraps
      <3>2. Scsp!Period(u)' \in Nat /\ Gain(u)' \in Nat
        BY <3>1, TimerConstants DEF Scsp!Period, Gain
      <3> QED
        BY <1>2, <3>1, <3>2, TimerConstants DEF Total
    <2>2. CASE u # t
      <3>1. /\ prescaler'[u] = prescaler[u] /\ since'[u] = since[u]
            /\ loaded'[u] = loaded[u] /\ count'[u] = count[u]
        BY <1>1, <2>2 DEF TimersInv
      <3> QED
        BY <3>1 DEF TimersInv, Total, Gain, Scsp!Period, Scsp!Wraps
    <2> QED
      BY <2>1, <2>2
  <1> QED
    BY <1>1, <1>3, <1>4 DEF TimersInv

\* A timer fires in a sample if it wraps once more by then, and it never wraps twice.
LEMMA FiresOnTime ==
    ASSUME Top > 1, TimersInv, NEW t \in Timers
    PROVE  /\ Scsp!Wraps(t, since[t]) \in Nat
           /\ Scsp!TickedCount(t) \in Nat
           /\ Scsp!TickedCount(t) = (Total(t) + Gain(t)) - Lap * Scsp!Wraps(t, since[t])
           /\ Scsp!Fires(t) <=> Scsp!TickedCount(t) >= Lap
           /\ Scsp!TickedCount(t) < 2 * Lap
           /\ Scsp!Wraps(t, since[t] + 1) =
                  Scsp!Wraps(t, since[t]) + (IF Scsp!Fires(t) THEN 1 ELSE 0)
  <1> DEFINE W == Scsp!Wraps(t, since[t])
             c == Scsp!TickedCount(t)
             x == Total(t) + Gain(t)
  <1>1. /\ prescaler[t] \in Prescalers /\ loaded[t] \in 0 .. Top /\ count[t] \in 0 .. Lap
        /\ since[t] \in Nat /\ count[t] = Total(t) - Lap * W
    BY DEF TimersInv
  <1>2. Gain(t) \in 1 .. SoundTick /\ Lap \in Nat \ {0} /\ SoundTick \in Nat
    BY <1>1, TimerConstants DEF Gain
  <1>3. Gain(t) < Lap
    <2>1. 2 * SoundTick <= Top * SoundTick
      BY <1>2, TimerConstants, Grows
    <2> QED
      BY <1>2, <2>1, TimerConstants DEF Lap
  <1>4. loaded[t] * SoundTick \in Nat /\ since[t] * Gain(t) \in Nat /\ Total(t) \in Nat
    BY <1>1, <1>2 DEF Total
  <1>5. W \in Nat
    <2>1. W = IF since[t] = 0 THEN 0 ELSE Total(t) \div Lap
      BY DEF Scsp!Wraps, Total, Gain, Lap
    <2> QED
      <3>1. Total(t) \div Lap \in Nat
        BY <1>2, <1>4, Division
      <3> QED
        BY <2>1, <3>1
  <1>6. /\ (since[t] + 1) * Gain(t) = since[t] * Gain(t) + Gain(t)
        /\ since[t] + 1 # 0
    BY <1>1, <1>2, <1>4
  <1>7. Scsp!Wraps(t, since[t] + 1) = x \div Lap
    <2>1. loaded[t] * SoundTick + (since[t] + 1) * Gain(t) = x
      BY <1>1, <1>2, <1>4, <1>6 DEF Total
    <2> QED
      BY <1>6, <2>1 DEF Scsp!Wraps, Gain, Lap
  <1>8. c = count[t] + Gain(t) /\ (Scsp!Fires(t) <=> c >= Lap)
    BY DEF Scsp!TickedCount, Scsp!Fires, Gain, Lap
  <1> HIDE DEF W, c
  <1>9. Lap * W \in Nat /\ Lap * (W + 1) = Lap * W + Lap
    BY <1>2, <1>5
  <1>10. x = Lap * W + c /\ c \in Nat /\ c < 2 * Lap
    BY <1>1, <1>2, <1>3, <1>4, <1>8, <1>9
  <1> HIDE DEF x
  <1>11. ASSUME c < Lap PROVE x \div Lap = W
    BY <1>2, <1>5, <1>10, <1>11, Quotient
  <1>12. ASSUME c >= Lap PROVE x \div Lap = W + 1
    <2>1. x = Lap * (W + 1) + (c - Lap) /\ c - Lap \in 0 .. Lap - 1 /\ W + 1 \in Nat
      BY <1>2, <1>5, <1>9, <1>10, <1>12
    <2> QED
      BY <1>2, <2>1, Quotient
  <1>13. x \div Lap = W + (IF Scsp!Fires(t) THEN 1 ELSE 0)
    BY <1>2, <1>5, <1>8, <1>10, <1>11, <1>12
  <1>14. c = x - Lap * W
    BY <1>5, <1>9, <1>10
  <1> QED
    BY <1>5, <1>7, <1>8, <1>10, <1>13, <1>14 DEF W, c, x

\* After a period a timer stands where it stood after as many samples of the first one.
LEMMA PeriodIsOver ==
    ASSUME TimersInv, NEW t \in Timers, since[t] = Scsp!Period(t)
    PROVE  /\ Total(t) + Gain(t) = (loaded[t] * SoundTick + Gain(t)) + Lap
           /\ Scsp!Wraps(t, since[t] + 1) = Scsp!Wraps(t, 1) + 1
           /\ Scsp!Wraps(t, 1) \in Nat
  <1> DEFINE y == loaded[t] * SoundTick + Gain(t)
  <1>1. prescaler[t] \in Prescalers /\ loaded[t] \in 0 .. Top
    BY DEF TimersInv
  <1>2. /\ Gain(t) \in 1 .. SoundTick /\ Lap \in Nat \ {0} /\ SoundTick \in Nat
        /\ Scsp!Period(t) * Gain(t) = Lap /\ Scsp!Period(t) \in Nat
    BY <1>1, TimerConstants DEF Gain, Scsp!Period
  <1>3. loaded[t] * SoundTick \in Nat /\ y \in Nat
    BY <1>1, <1>2
  <1>4. (since[t] + 1) * Gain(t) = Lap + Gain(t) /\ since[t] + 1 # 0 /\ 1 * Gain(t) = Gain(t)
    BY <1>2
  <1>5. /\ Scsp!Wraps(t, since[t] + 1) = (loaded[t] * SoundTick + (since[t] + 1) * Gain(t)) \div Lap
        /\ Scsp!Wraps(t, 1) = (loaded[t] * SoundTick + 1 * Gain(t)) \div Lap
    BY <1>4 DEF Scsp!Wraps, Gain, Lap
  <1>6. /\ Scsp!Wraps(t, since[t] + 1) = (y + Lap) \div Lap
        /\ Scsp!Wraps(t, 1) = y \div Lap
    <2>1. loaded[t] * SoundTick + (since[t] + 1) * Gain(t) = y + Lap
      BY <1>2, <1>3, <1>4
    <2> QED
      BY <1>4, <1>5, <2>1
  <1>7. Total(t) + Gain(t) = y + Lap
    BY <1>2, <1>3 DEF Total
  <1> HIDE DEF y
  <1>8. (y + Lap) \div Lap = (y \div Lap) + 1 /\ y \div Lap \in Nat
    <2> DEFINE q == y \div Lap
               r == y % Lap
    <2>1. q \in Nat /\ r \in 0 .. Lap - 1 /\ y = Lap * q + r
      BY <1>2, <1>3, Division
    <2> HIDE DEF q, r
    <2>2. Lap * (q + 1) = Lap * q + Lap /\ Lap * q \in Nat
      BY <1>2, <2>1
    <2>3. y + Lap = Lap * (q + 1) + r
      BY <1>2, <2>1, <2>2
    <2>4. q + 1 \in Nat
      BY <2>1
    <2>5. (Lap * (q + 1) + r) \div Lap = q + 1
      BY <1>2, <2>1, <2>4, Quotient
    <2> QED
      BY <2>1, <2>3, <2>5 DEF q
  <1> QED
    BY <1>6, <1>7, <1>8 DEF y

LEMMA SampleStep ==
    ASSUME Top > 1, TimersInv, Scsp!SampleTimers
    PROVE  TimersInv' /\ Scsp!TimersKeepTime
  <1>1. /\ count' = [t \in Timers |-> IF Scsp!Fires(t) THEN Scsp!TickedCount(t) - Lap
                                      ELSE Scsp!TickedCount(t)]
        /\ scipd' = scipd \cup {SampleBit} \cup {t \in Timers : Scsp!Fires(t)}
        /\ since' = [t \in Timers |-> IF since[t] = Scsp!Period(t) THEN 1 ELSE since[t] + 1]
        /\ owed' = owed - 1 /\ owed > 0 /\ batch = "none" /\ batch' = batch
        /\ prescaler' = prescaler /\ loaded' = loaded
    BY DEF Scsp!SampleTimers, Scsp!TickTimers, Scsp!coreVars, Lap
  <1>2. ASSUME NEW t \in Timers
        PROVE  /\ count'[t] \in 0 .. Lap /\ since'[t] \in Nat
               /\ since'[t] <= Scsp!Period(t)'
               /\ count'[t] = Total(t)' - Lap * Scsp!Wraps(t, since[t])'
    <2> DEFINE W == Scsp!Wraps(t, since[t])
               V == Scsp!Wraps(t, since[t] + 1)
               x == Total(t) + Gain(t)
    <2>1. /\ W \in Nat /\ V = W + (IF Scsp!Fires(t) THEN 1 ELSE 0)
          /\ Scsp!TickedCount(t) \in Nat /\ Scsp!TickedCount(t) = x - Lap * W
          /\ Scsp!Fires(t) <=> Scsp!TickedCount(t) >= Lap
          /\ Scsp!TickedCount(t) < 2 * Lap
      BY FiresOnTime
    <2>2. /\ Lap \in Nat \ {0} /\ Scsp!Period(t) \in Nat \ {0} /\ since[t] \in Nat
          /\ since[t] <= Scsp!Period(t) /\ loaded[t] * SoundTick \in Nat
          /\ Gain(t) \in Nat /\ since[t] * Gain(t) \in Nat /\ x \in Nat
      BY TimerConstants DEF TimersInv, Scsp!Period, Gain, Total
    <2>3. /\ Scsp!Period(t)' = Scsp!Period(t) /\ Gain(t)' = Gain(t)
          /\ since'[t] = IF since[t] = Scsp!Period(t) THEN 1 ELSE since[t] + 1
          /\ Total(t)' = loaded[t] * SoundTick + since'[t] * Gain(t)
          /\ Scsp!Wraps(t, since[t])' = Scsp!Wraps(t, since'[t])
      BY <1>1 DEF Scsp!Period, Gain, Total, Scsp!Wraps
    <2>4. count'[t] = IF Scsp!Fires(t) THEN Scsp!TickedCount(t) - Lap ELSE Scsp!TickedCount(t)
      BY <1>1
    <2> HIDE DEF W, V
    <2>5. Lap * W \in Nat /\ Lap * (W + 1) = Lap * W + Lap
      BY <2>1, <2>2
    <2>6. count'[t] \in 0 .. Lap /\ count'[t] = x - Lap * V
      <3>1. CASE Scsp!Fires(t)
        <4>1. Lap * V = Lap * W + Lap
          BY <2>1, <2>5, <3>1
        <4> QED
          BY <2>1, <2>2, <2>4, <2>5, <3>1, <4>1
      <3>2. CASE ~Scsp!Fires(t)
        BY <2>1, <2>2, <2>4, <2>5, <3>2
      <3> QED
        BY <3>1, <3>2
    <2>7. CASE since[t] = Scsp!Period(t)
      <3>1. since'[t] = 1 /\ Total(t)' = loaded[t] * SoundTick + Gain(t)
        BY <2>2, <2>3, <2>7
      <3>2. /\ x = (loaded[t] * SoundTick + Gain(t)) + Lap
            /\ V = Scsp!Wraps(t, 1) + 1 /\ Scsp!Wraps(t, 1) \in Nat
        BY <2>7, PeriodIsOver DEF V
      <3>3. Lap * V = Lap * Scsp!Wraps(t, 1) + Lap /\ Lap * Scsp!Wraps(t, 1) \in Nat
        BY <2>2, <3>2
      <3>4. count'[t] = Total(t)' - Lap * Scsp!Wraps(t, 1)
        BY <2>2, <2>6, <3>1, <3>2, <3>3
      <3>5. Scsp!Wraps(t, since[t])' = Scsp!Wraps(t, 1)
        BY <2>3, <3>1, Zenon
      <3>6. since'[t] \in Nat /\ since'[t] <= Scsp!Period(t)'
        <4>1. Scsp!Period(t)' \in Nat \ {0}
          BY <2>2, <2>3, Zenon
        <4>2. since'[t] = 1
          BY <3>1
        <4> QED
          BY <4>1, <4>2
      <3> QED
        BY <2>6, <3>4, <3>5, <3>6, Zenon
    <2>8. CASE since[t] # Scsp!Period(t)
      <3>1. since'[t] = since[t] + 1 /\ since'[t] <= Scsp!Period(t) /\ since'[t] \in Nat
        BY <2>2, <2>3, <2>8
      <3>2. Total(t)' = x
        <4>1. (since[t] + 1) * Gain(t) = since[t] * Gain(t) + Gain(t)
          BY <2>2
        <4> QED
          BY <2>2, <2>3, <3>1, <4>1 DEF Total
      <3> QED
        BY <2>3, <2>6, <3>1, <3>2 DEF V
    <2> QED
      BY <2>7, <2>8
  <1>3. TimersInv'
    <2>1. /\ prescaler' \in [Timers -> Prescalers] /\ loaded' \in [Timers -> 0 .. Top]
          /\ owed' \in Nat /\ (batch' # "none" => owed' = 0)
      BY <1>1 DEF TimersInv
    <2>2. count' \in [Timers -> 0 .. Lap] /\ since' \in [Timers -> Nat]
      <3>1. DOMAIN count' = Timers /\ DOMAIN since' = Timers
        BY <1>1
      <3>2. count' = [t \in Timers |-> count'[t]] /\ since' = [t \in Timers |-> since'[t]]
        BY <1>1
      <3> QED
        BY <1>2, <3>2
    <2> QED
      BY <1>2, <2>1, <2>2 DEF TimersInv
  <1>4. Scsp!TimersKeepTime
    <2>1. ASSUME NEW t \in Timers
          PROVE  t \in scipd' <=> t \in scipd
                               \/ Scsp!Wraps(t, since[t] + 1) > Scsp!Wraps(t, since[t])
      <3>1. t \in scipd' <=> t \in scipd \/ Scsp!Fires(t)
        BY <1>1, TimerConstants
      <3>2. Scsp!Fires(t) <=> Scsp!Wraps(t, since[t] + 1) > Scsp!Wraps(t, since[t])
        BY FiresOnTime
      <3> QED
        BY <3>1, <3>2
    <2> QED
      BY <2>1 DEF Scsp!TimersKeepTime
  <1> QED
    BY <1>3, <1>4

LEMMA TimersStep ==
    ASSUME Top > 1, TimersInv, [Scsp!TimersNext]_timersVars
    PROVE  TimersInv' /\ (UNCHANGED timersVars \/ Scsp!TimersKeepTime)
  <1>1. ASSUME UNCHANGED <<count, prescaler, loaded, since>>,
               owed' \in Nat, batch' # "none" => owed' = 0
        PROVE  TimersInv'
    <2>1. \A t \in Timers :
              /\ since'[t] <= Scsp!Period(t)'
              /\ count'[t] = Total(t)' - Lap * Scsp!Wraps(t, since[t])'
      BY <1>1 DEF TimersInv, Total, Gain, Scsp!Period, Scsp!Wraps
    <2> QED
      BY <1>1, <2>1 DEF TimersInv
  <1>2. CASE \/ Scsp!StartBatch \/ Scsp!TakeInterrupt \/ Scsp!Return
             \/ (\E bits \in SUBSET Scsp!Sources \ {{}} : Scsp!Acknowledge(bits))
             \/ (\E mask \in EnableMasks : Scsp!WriteEnable(mask))
    <2>1. /\ UNCHANGED <<count, prescaler, loaded, since>> /\ owed' = owed
          /\ (batch # "none" \/ owed = 0)
      BY <1>2 DEF Scsp!StartBatch, Scsp!TakeInterrupt, Scsp!Return, Scsp!Acknowledge,
         Scsp!WriteEnable, Scsp!Execute, Scsp!countVars
    <2>2. owed' # owed - 1 /\ owed = 0
      BY <2>1 DEF TimersInv
    <2> QED
      BY <1>1, <2>1, <2>2 DEF Scsp!TimersKeepTime, TimersInv
  <1>3. CASE Scsp!EndBatch
    <2>1. PICK n \in BatchSamples : owed' = n
      BY <1>3 DEF Scsp!EndBatch
    <2>2. n \in Nat /\ owed = 0 /\ batch' = "none"
      BY <1>3, <2>1, InstanceAssumptions DEF Scsp!TimersAssumption, Scsp!EndBatch, TimersInv
    <2> QED
      BY <1>1, <1>3, <2>1, <2>2
      DEF Scsp!EndBatch, Scsp!countVars, Scsp!TimersKeepTime
  <1>4. ASSUME NEW t \in Timers, NEW v \in 0 .. Top, NEW p \in Prescalers,
               Scsp!LoadTimer(t, v, p)
        PROVE  TimersInv' /\ Scsp!TimersKeepTime
    <2>1. owed' = owed /\ owed \in Nat
      BY <1>4 DEF Scsp!LoadTimer, TimersInv
    <2> QED
      BY <1>4, <2>1, LoadStep DEF Scsp!TimersKeepTime
  <1>5. CASE UNCHANGED timersVars
    BY <1>1, <1>5 DEF timersVars, TimersInv
  <1> QED
    BY <1>2, <1>3, <1>4, <1>5, SampleStep DEF Scsp!TimersNext, Scsp!Driver

-----------------------------------------------------------------------------
(***************************************************************************)
(* The slots of the SCSP.                                                  *)
(***************************************************************************)

Note == [active : BOOLEAN, pos : Nat, loop : Nat, lsa : Nat, lea : Nat, gain : Nat,
         age : Nat]

InItsSample(s) ==
    s.active => \/ s.pos \div One < Scsp!End(s)
                \/ s.loop # 0 /\ s.pos = s.lsa * One

\* The invariant is inductive as it is.
SlotsInv ==
    /\ regs \in [Slots -> Scsp!Registers] /\ slot \in [Slots -> Note]
    /\ \A i \in Slots : InItsSample(slot[i])

\* KYONEX: the slot obeys its own KYONB, and goes on if it played.
LEMMA KeyIsObeyed ==
    ASSUME NEW s \in Note, InItsSample(s), NEW r \in Scsp!Registers
    PROVE  LET t == Scsp!ApplyKey(s, r)
           IN  /\ t \in Note /\ InItsSample(t) /\ (t.active <=> r.kyonb)
               /\ s.active /\ t.active => t = s
  <1> DEFINE t == Scsp!ApplyKey(s, r)
  <1>1. /\ r.kyonb \in BOOLEAN /\ r.loop \in Nat /\ r.lsa \in Nat /\ r.lea \in Nat
        /\ One \in Nat \ {0} /\ FullGain \in Nat
    BY InstanceAssumptions DEF Scsp!SlotAssumption, Scsp!Registers
  <1>2. CASE r.kyonb /\ ~s.active
    <2>1. t = [active |-> TRUE, pos |-> 0, loop |-> r.loop, lsa |-> r.lsa, lea |-> r.lea,
               gain |-> FullGain, age |-> 0]
      BY <1>2 DEF Scsp!ApplyKey, Scsp!StartSlot
    <2>2. t \in Note /\ t.active /\ t.pos = 0 /\ t.lea \in Nat
      BY <1>1, <2>1 DEF Note
    <2>3. 0 \div One = 0
      <3>1. One * 0 + 0 = 0
        BY <1>1
      <3> QED
        BY <1>1, <3>1, Quotient
    <2> QED
      BY <1>2, <2>2, <2>3 DEF InItsSample, Scsp!End
  <1>3. CASE r.kyonb /\ s.active
    BY <1>3 DEF Scsp!ApplyKey
  <1>4. CASE ~r.kyonb
    <2>1. t = [s EXCEPT !.active = FALSE]
      BY <1>4 DEF Scsp!ApplyKey
    <2> QED
      BY <1>4, <2>1 DEF Note, InItsSample
  <1> QED
    BY <1>1, <1>2, <1>3, <1>4

\* A sample moves the position, which stays in the sample or goes to the loop start.
LEMMA PositionMoves ==
    ASSUME NEW s \in Note, NEW step \in Nat
    PROVE  LET t == Scsp!Decayed(Scsp!Wrapped([s EXCEPT !.pos = @ + step]))
           IN  t \in Note /\ InItsSample(t) /\ t.age >= s.age
  <1> DEFINE m == [s EXCEPT !.pos = @ + step]
             w == Scsp!Wrapped(m)
             t == Scsp!Decayed(w)
  <1>1. One \in Nat \ {0} /\ Hold \in Nat
    BY InstanceAssumptions DEF Scsp!SlotAssumption
  <1>2. m \in Note /\ m.age = s.age
    BY DEF Note
  <1> HIDE DEF m
  <1>3. w \in Note /\ InItsSample(w) /\ w.age = m.age
    <2>1. CASE ~Scsp!Over(m)
      <3>1. m.pos \div One < Scsp!End(m)
        <4>1. m.pos \div One \in Nat /\ Scsp!End(m) \in Nat
          BY <1>1, <1>2, Division DEF Note, Scsp!End
        <4> QED
          BY <2>1, <4>1 DEF Scsp!Over
      <3> QED
        BY <1>2, <2>1, <3>1 DEF Scsp!Wrapped, InItsSample
    <2>2. CASE Scsp!Over(m) /\ m.loop = 0
      BY <1>2, <2>2 DEF Scsp!Wrapped, InItsSample, Note
    <2>3. CASE Scsp!Over(m) /\ m.loop # 0
      <3>1. w = [m EXCEPT !.pos = m.lsa * One] /\ m.lsa * One \in Nat
        BY <1>1, <1>2, <2>3 DEF Scsp!Wrapped, Note
      <3>2. w \in Note /\ w.pos = w.lsa * One /\ w.loop # 0 /\ w.age = m.age
        BY <1>2, <2>3, <3>1 DEF Note
      <3> QED
        BY <3>2 DEF InItsSample
    <2> QED
      BY <2>1, <2>2, <2>3
  <1> HIDE DEF w
  <1>4. /\ t.active = w.active /\ t.pos = w.pos /\ t.loop = w.loop /\ t.lsa = w.lsa
        /\ t.lea = w.lea /\ t \in Note /\ t.age >= w.age
    BY <1>1, <1>3 DEF Scsp!Decayed, Note
  <1>5. InItsSample(t)
    BY <1>3, <1>4 DEF InItsSample, Scsp!End
  <1> QED
    BY <1>2, <1>3, <1>4, <1>5 DEF m, w

LEMMA SlotsStart == Scsp!SlotsInit => SlotsInv
  BY DEF Scsp!SlotsInit, SlotsInv, Scsp!Silent, Note, InItsSample

LEMMA SlotsStep ==
    ASSUME SlotsInv, [Scsp!SlotsNext]_slotsVars
    PROVE  SlotsInv' /\ Scsp!KeysActTogether
  <1>1. ASSUME regs' \in [Slots -> Scsp!Registers], slot' = slot
        PROVE  SlotsInv' /\ Scsp!KeysActTogether
    BY <1>1 DEF SlotsInv, Scsp!KeysActTogether, Note
  <1>2. ASSUME NEW i \in Slots, NEW on \in BOOLEAN, NEW loop \in LoopModes,
               NEW execute \in BOOLEAN, Scsp!WriteControl(i, on, loop, execute)
        PROVE  SlotsInv' /\ Scsp!KeysActTogether
    <2>1. regs' = [regs EXCEPT ![i].kyonb = on, ![i].loop = loop]
      BY <1>2 DEF Scsp!WriteControl
    <2>2. regs' \in [Slots -> Scsp!Registers]
      BY <2>1 DEF SlotsInv, Scsp!Registers
    <2>3. CASE ~execute
      BY <1>1, <1>2, <2>2, <2>3 DEF Scsp!WriteControl
    <2>4. CASE execute
      <3>1. slot' = [j \in Slots |-> Scsp!ApplyKey(slot[j], regs'[j])]
        BY <1>2, <2>4 DEF Scsp!WriteControl, Scsp!ApplyKeys
      <3>2. ASSUME NEW j \in Slots
            PROVE  /\ slot'[j] \in Note /\ InItsSample(slot'[j])
                   /\ slot'[j].active <=> regs'[j].kyonb
                   /\ slot[j].active /\ slot'[j].active => slot'[j] = slot[j]
        BY <2>2, <3>1, KeyIsObeyed DEF SlotsInv
      <3>3. SlotsInv'
        BY <2>2, <3>1, <3>2 DEF SlotsInv
      <3>4. \A j \in Slots : slot[j].age \in Nat
        BY DEF SlotsInv, Note
      <3> QED
        BY <3>2, <3>3, <3>4 DEF Scsp!KeysActTogether
    <2> QED
      BY <2>3, <2>4
  <1>3. CASE Scsp!SampleSlots
    <2>1. /\ slot' = [i \in Slots |->
                        IF slot[i].active
                        THEN Scsp!Decayed(Scsp!Wrapped([slot[i] EXCEPT !.pos = @ + regs[i].pitch]))
                        ELSE slot[i]]
          /\ regs' = regs
      BY <1>3 DEF Scsp!SampleSlots
    <2>2. ASSUME NEW i \in Slots
          PROVE  /\ slot'[i] \in Note /\ InItsSample(slot'[i])
                 /\ slot'[i].age >= slot[i].age /\ (slot'[i].active => slot[i].active)
      <3>1. slot[i] \in Note /\ regs[i].pitch \in Nat /\ InItsSample(slot[i])
        BY InstanceAssumptions DEF SlotsInv, Scsp!SlotAssumption, Scsp!Registers
      <3>2. CASE slot[i].active
        BY <2>1, <3>1, <3>2, PositionMoves
      <3>3. CASE ~slot[i].active
        BY <2>1, <3>1, <3>3 DEF Note
      <3> QED
        BY <3>2, <3>3
    <2>3. SlotsInv'
      BY <2>1, <2>2 DEF SlotsInv
    <2> QED
      BY <2>2, <2>3 DEF Scsp!KeysActTogether
  <1>4. ASSUME NEW i \in Slots, NEW lsa \in LoopStarts, NEW lea \in LoopEnds,
               Scsp!WriteAddresses(i, lsa, lea)
        PROVE  SlotsInv' /\ Scsp!KeysActTogether
    <2>1. regs' = [regs EXCEPT ![i].lsa = lsa, ![i].lea = lea] /\ slot' = slot
      BY <1>4 DEF Scsp!WriteAddresses
    <2>2. regs' \in [Slots -> Scsp!Registers]
      BY <2>1 DEF SlotsInv, Scsp!Registers
    <2> QED
      BY <1>1, <2>1, <2>2
  <1>5. ASSUME NEW i \in Slots, NEW step \in PitchSteps, Scsp!WritePitch(i, step)
        PROVE  SlotsInv' /\ Scsp!KeysActTogether
    <2>1. regs' = [regs EXCEPT ![i].pitch = step] /\ slot' = slot
      BY <1>5 DEF Scsp!WritePitch
    <2>2. regs' \in [Slots -> Scsp!Registers]
      BY <2>1 DEF SlotsInv, Scsp!Registers
    <2> QED
      BY <1>1, <2>1, <2>2
  <1>6. CASE UNCHANGED slotsVars
    BY <1>1, <1>6 DEF slotsVars, SlotsInv
  <1> QED
    BY <1>2, <1>3, <1>4, <1>5, <1>6 DEF Scsp!SlotsNext

-----------------------------------------------------------------------------
(***************************************************************************)
(* The devices together: a step of one leaves the state of the others.     *)
(***************************************************************************)

LEMMA SuiteStarts ==
    SuiteInit => /\ Init /\ Cd!Init /\ Transfers!DmaInit /\ Transfers!DspInit
                 /\ Scsp!TimersInit /\ Scsp!SlotsInit
  BY DEF SuiteInit

LEMMA SuiteSteps ==
    [SuiteNext]_suiteVars =>
        /\ [Next]_vars /\ [Cd!Next]_cdVars
        /\ [Transfers!DmaNext]_dmaVars /\ [Transfers!DspNext]_dspVars
        /\ [Scsp!SlotsNext]_slotsVars /\ [Scsp!TimersNext]_timersVars
        /\ part = "timers" /\ UNCHANGED timersVars => UNCHANGED suiteVars
  BY DEF SuiteNext, suiteVars, ButForSound, ButForTimers, ButForSlots, ButForEffects,
         ButForDma, ButForDsp, ButForCd

\* The clocks of the sound CPU and of the drive lose no cycle and count none twice,
\* the samples follow the core, which lags less than a batch, and SCDQ is a batch
\* late at most: for every ratio, batch and period, and however blocks cut the time,
\* if a batch pays for more than an instruction.
THEOREM ClocksAreAlwaysKept ==
    ASSUME BatchIsWorthMore
    PROVE  SuiteSpec => []ClocksAreKept
  <1> DEFINE ClocksInv == PacingInv /\ LagIsBelowABatch /\ DriveInv
  <1>1. SuiteInit => ClocksInv
    <2>1. Init => LagIsBelowABatch
      BY RatioAssumption DEF Init, LagIsBelowABatch
    <2> QED
      BY <2>1, SuiteStarts, PacingStart, DriveStart
  <1>2. ClocksInv /\ [SuiteNext]_suiteVars => ClocksInv'
    BY SuiteSteps, PacingStep, LagStep, DriveStep
  <1>3. ClocksInv => ClocksAreKept
    BY DriveIsPunctual DEF ClocksAreKept, PacingInv, DriveInv
  <1> QED
    BY <1>1, <1>2, <1>3, PTL DEF SuiteSpec

\* A pulse of the drive and the answer to a command show in HIRQ until a store takes
\* them back, and two pulses never fall into one step.
THEOREM DriveFlagsShow == SuiteSpec => [][Cd!FlagsShow]_suiteVars
  <1>1. SuiteInit => DriveInv
    BY SuiteStarts, DriveStart
  <1>2. DriveInv /\ [SuiteNext]_suiteVars => DriveInv'
    BY SuiteSteps, DriveStep
  <1>3. DriveInv /\ [SuiteNext]_suiteVars => [Cd!FlagsShow]_suiteVars
    BY SuiteSteps, DriveFlags
  <1> QED
    BY <1>1, <1>2, <1>3, PTL DEF SuiteSpec

\* A transfer copies the block that its registers or its list described when it
\* began, whatever its strides, and leaves the registers where the next one goes on;
\* the DSP's program runs once for a step that starts it: for every memory, list and
\* address.
THEOREM TransfersAreAlwaysExact == SuiteSpec => []TransfersAreExact
  <1>1. SuiteInit => DmaInv /\ DspInv
    BY SuiteStarts, DmaStart, DspStart
  <1>2. DmaInv /\ DspInv /\ [SuiteNext]_suiteVars => DmaInv' /\ DspInv'
    BY SuiteSteps, DmaInvStep, DspStep
  <1>3. DmaInv /\ DspInv => TransfersAreExact
    BY DspRunsOnce DEF TransfersAreExact, DmaInv
  <1> QED
    BY <1>1, <1>2, <1>3, PTL DEF SuiteSpec

\* A timer of the SCSP fires (Top - value) << prescaler samples after it was loaded and
\* then every period, without drift, for every prescaler, value and batch of samples,
\* however the driver acknowledges and loads in between (scsp.rs).
THEOREM TimersFireOnTime ==
    ASSUME Top > 1
    PROVE  SuiteSpec => [][part = "timers" => Scsp!TimersKeepTime]_suiteVars
  <1>1. SuiteInit => TimersInv
    BY SuiteStarts, TimersStart
  <1>2. TimersInv /\ [SuiteNext]_suiteVars =>
            TimersInv' /\ [part = "timers" => Scsp!TimersKeepTime]_suiteVars
    BY SuiteSteps, TimersStep
  <1> QED
    BY <1>1, <1>2, PTL DEF SuiteSpec

\* However addresses and pitch are rewritten while it plays, a slot of the SCSP reads
\* inside the sample it was started with, or at its loop start: for any number of slots
\* and any addresses and pitches (scsp.rs).
THEOREM SlotsPlayTheirSamples ==
    SuiteSpec => [](part = "slots" => Scsp!PlaysItsSample)
  <1>1. SuiteInit => SlotsInv
    BY SuiteStarts, SlotsStart
  <1>2. SlotsInv /\ [SuiteNext]_suiteVars => SlotsInv'
    BY SuiteSteps, SlotsStep
  <1>3. SlotsInv => Scsp!PlaysItsSample
    BY DEF SlotsInv, Scsp!PlaysItsSample, InItsSample
  <1> QED
    BY <1>1, <1>2, <1>3, PTL DEF SuiteSpec

\* KYONEX makes every slot obey its own KYONB at once, a note that plays is not started
\* again, and no note starts otherwise (scsp.rs).
THEOREM NotesStartTogether == SuiteSpec => [][Scsp!KeysActTogether]_suiteVars
  <1>1. SuiteInit => SlotsInv
    BY SuiteStarts, SlotsStart
  <1>2. SlotsInv /\ [SuiteNext]_suiteVars => SlotsInv' /\ Scsp!KeysActTogether
    BY SuiteSteps, SlotsStep
  <1> QED
    BY <1>1, <1>2, PTL DEF SuiteSpec

=============================================================================
