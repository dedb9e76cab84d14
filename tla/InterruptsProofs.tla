--------------------------- MODULE InterruptsProofs ---------------------------
(***************************************************************************)
(* Proofs about the delivery of interrupts and the start of transfers, for *)
(* every assignment of levels, every set of channels and every program.    *)
(***************************************************************************)
EXTENDS Interrupts, TLAPS, WellFoundedInduction

\* The assumptions about the constants, in the form the steps use.
LEMMA Constants ==
    /\ \A b \in Bits : b \in 0 .. 15 /\ Level[b] \in 0 .. 15
    /\ \A c \in Channels : EndBit[c] \in Bits /\ EndBit[c] \notin EventBits
    /\ EventBits \subseteq Bits
    /\ Trap \notin Bits
BY ScuAssumption, ProgramAssumption

\* Removing the last element of a sequence leaves a sequence.
LEMMA FrontType ==
    ASSUME NEW S, NEW s \in Seq(S), s # <<>>
    PROVE  /\ s[Len(s)] \in S
           /\ SubSeq(s, 1, Len(s) - 1) \in Seq(S)
           /\ Len(SubSeq(s, 1, Len(s) - 1)) = Len(s) - 1
           /\ \A i \in 1 .. Len(s) - 1 : SubSeq(s, 1, Len(s) - 1)[i] = s[i]
<1>1. Len(s) - 1 \in 0 .. Len(s) /\ s[Len(s)] \in S
  OBVIOUS
<1>2. \A k \in 0 .. Len(s) :
         /\ SubSeq(s, 1, k) \in Seq(S)
         /\ Len(SubSeq(s, 1, k)) = k
         /\ \A i \in 1 .. k : SubSeq(s, 1, k)[i] = s[i]
  <2> SUFFICES ASSUME NEW k \in 0 .. Len(s)
               PROVE  /\ SubSeq(s, 1, k) \in Seq(S)
                      /\ Len(SubSeq(s, 1, k)) = k
                      /\ \A i \in 1 .. k : SubSeq(s, 1, k)[i] = s[i]
    OBVIOUS
  <2>1. SubSeq(s, 1, k) \in Seq(S)
    OBVIOUS
  <2>2. Len(SubSeq(s, 1, k)) = k
    OBVIOUS
  <2>3. \A i \in 1 .. k : SubSeq(s, 1, k)[i] = s[i]
    OBVIOUS
  <2> QED BY <2>1, <2>2, <2>3
<1> QED BY <1>1, <1>2

\* The channels that an event starts, as a sequence.
LEMMA TriggeredType ==
    ASSUME NEW f
    PROVE  /\ Triggered(f) \in Seq(Channels)
           /\ \A i \in DOMAIN Triggered(f) :
                 ch[Triggered(f)[i]].armed /\ ch[Triggered(f)[i]].factor = f
           /\ \A i, j \in DOMAIN Triggered(f) :
                 Triggered(f)[i] = Triggered(f)[j] => i = j
<1> DEFINE A == IfWaiting(0, f)
           B == IfWaiting(1, f)
           C == IfWaiting(2, f)
<1>1. /\ A \in Seq(Channels) /\ B \in Seq(Channels) /\ C \in Seq(Channels)
      /\ Len(A) \in {0, 1} /\ Len(B) \in {0, 1} /\ Len(C) \in {0, 1}
  BY DEF IfWaiting
<1>2. /\ Len(A) = 1 => A[1] = 0 /\ ch[0].armed /\ ch[0].factor = f
      /\ Len(B) = 1 => B[1] = 1 /\ ch[1].armed /\ ch[1].factor = f
      /\ Len(C) = 1 => C[1] = 2 /\ ch[2].armed /\ ch[2].factor = f
  BY DEF IfWaiting
<1> HIDE DEF A, B, C
<1>3. (A \o B) \o C \in Seq(Channels)
  BY <1>1
<1>4. \A i \in DOMAIN ((A \o B) \o C) :
         \/ i = 1 /\ Len(A) = 1 /\ ((A \o B) \o C)[i] = A[1]
         \/ i = Len(A) + 1 /\ Len(B) = 1 /\ ((A \o B) \o C)[i] = B[1]
         \/ i = Len(A) + Len(B) + 1 /\ Len(C) = 1 /\ ((A \o B) \o C)[i] = C[1]
  BY <1>1
<1>5. Triggered(f) = (A \o B) \o C
  BY DEF Triggered, A, B, C
<1>6. \A i \in DOMAIN ((A \o B) \o C) :
         ch[((A \o B) \o C)[i]].armed /\ ch[((A \o B) \o C)[i]].factor = f
  BY <1>2, <1>4
<1>7. \A i, j \in DOMAIN ((A \o B) \o C) :
         ((A \o B) \o C)[i] = ((A \o B) \o C)[j] => i = j
  BY <1>2, <1>4
<1> QED BY <1>3, <1>5, <1>6, <1>7

-----------------------------------------------------------------------------
(* The best of the pending interrupts. *)

\* Whenever an unmasked interrupt with a level is pending, one is the best.
LEMMA BestExists ==
    ASSUME ist \subseteq Bits, Active # {}
    PROVE  \E b \in Bits : IsBest(b)
<1> USE Constants
<1> DEFINE Rank(b) == 16 * (15 - Level[b]) + b
           T == {Rank(b) : b \in Active}
<1>1. \A b \in Active : b \in Bits /\ b \in 0 .. 15 /\ Level[b] \in 0 .. 15
  BY DEF Active
<1>2. T \subseteq Nat /\ T # {}
  BY <1>1
<1>3. PICK x \in T : \A y \in T : ~ (<<y, x>> \in OpToRel(<, Nat))
  <2> HIDE DEF T
  <2> QED BY <1>2, WFMin, NatLessThanWellFounded
<1>4. \A y \in T : ~ (y < x)
  BY <1>2, <1>3 DEF OpToRel
<1>5. PICK b \in Active : x = Rank(b)
  BY <1>3
<1>6. ASSUME NEW o \in Active
      PROVE  Level[o] < Level[b] \/ (Level[o] = Level[b] /\ b <= o)
  <2>1. ~ (Rank(o) < Rank(b))
    BY <1>4, <1>5
  <2> QED BY <2>1, <1>1, <1>5
<1> QED BY <1>1, <1>5, <1>6 DEF IsBest

\* What the CPU was not offered does not exceed the best.
LEMMA BestIsHighest ==
    ASSUME ist \subseteq Bits, NEW b \in Bits, IsBest(b), NEW o \in ist \ ims
    PROVE  Level[o] <= Level[b]
BY Constants DEF IsBest, Active

-----------------------------------------------------------------------------
(* Types. *)

\* Starting a transfer when an event happens keeps the queue one of channels.
LEMMA EventType ==
    ASSUME ScuType, NEW b \in Bits, Happen(b) \/ Raise(b)
    PROVE  ScuType'
<1>1. CASE Happen(b)
  <2>1. ready' \in Seq(Channels)
    BY <1>1, TriggeredType DEF Happen, ScuType
  <2> QED BY <1>1, <2>1 DEF Happen, ScuType
<1>2. CASE Raise(b)
  BY <1>2 DEF Raise, ScuType
<1> QED BY <1>1, <1>2

\* Writing a register of the SCU keeps its types.
LEMMA WriteType ==
    ASSUME ScuType, WriteRegister
    PROVE  ScuType'
<1>1. CASE \E s \in SUBSET Bits : WriteIms(s) \/ WriteIst(s)
  BY <1>1 DEF WriteIms, WriteIst, ScuType
<1>2. ASSUME NEW c \in Channels, NEW f \in Factors, WriteMode(c, f) PROVE ScuType'
  BY <1>2 DEF WriteMode, ScuType, Channel
<1>3. ASSUME NEW c \in Channels, NEW en \in Enables, WriteEnable(c, en) PROVE ScuType'
  <2>1. en \in SUBSET {"enable", "go"}
    BY ProgramAssumption
  <2> DEFINE new == [ch[c] EXCEPT !.en = en, !.armed = "enable" \in en]
  <2>2. new \in Channel
    <3>1. ch[c] \in Channel /\ ("enable" \in en) \in BOOLEAN
      BY DEF ScuType
    <3> QED BY <2>1, <3>1 DEF Channel
  <2>3. ch' = [ch EXCEPT ![c] = new]
    BY <1>3 DEF WriteEnable
  <2>4. ch' \in [Channels -> Channel]
    <3> HIDE DEF new
    <3> QED BY <2>2, <2>3 DEF ScuType
  <2>5. ready' \in Seq(Channels)
    BY <1>3 DEF WriteEnable, ScuType
  <2> QED BY <1>3, <2>4, <2>5 DEF WriteEnable, ScuType
<1> QED BY <1>1, <1>2, <1>3 DEF WriteRegister

\* Running a transfer keeps the types of the SCU.
LEMMA RunDmaType ==
    ASSUME ScuType, RunDma
    PROVE  ScuType' /\ Head(ready) \in Channels
<1>1. Head(ready) \in Channels /\ Tail(ready) \in Seq(Channels)
  BY DEF RunDma, ScuType
<1>2. ch' \in [Channels -> Channel]
  BY <1>1 DEF RunDma, ScuType, Channel
<1> QED BY <1>1, <1>2, Constants DEF RunDma, ScuType

\* Every way a block ends keeps the types of the CPU.
LEMMA LeaveType ==
    ASSUME CpuType(Bits \cup {Trap}), LeaveBlock
    PROVE  CpuType(Bits \cup {Trap})'
<1> DEFINE Frame == [mask : 0 .. 15, vector : Bits \cup {Trap}]
<1>1. CASE UNCHANGED cpu
  BY <1>1 DEF cpu, CpuType
<1>2. CASE Sleep
  BY <1>2 DEF Sleep, CpuType
<1>3. CASE Rte
  <2>1. frames \in Seq(Frame) /\ frames # <<>>
    BY <1>3 DEF Rte, CpuType
  <2>2. frames[Len(frames)] \in Frame
        /\ SubSeq(frames, 1, Len(frames) - 1) \in Seq(Frame)
    BY <2>1, FrontType
  <2>3. frames[Len(frames)].mask \in 0 .. 15
    BY <2>2
  <2> QED BY <1>3, <2>2, <2>3 DEF Rte, CpuType
<1>4. CASE Trapa(Trap)
  BY <1>4 DEF Trapa, Saved, CpuType
<1>5. ASSUME NEW m \in Masks, LoadMask(m) PROVE CpuType(Bits \cup {Trap})'
  BY <1>5, ProgramAssumption DEF LoadMask, CpuType
<1> QED BY <1>1, <1>2, <1>3, <1>4, <1>5 DEF LeaveBlock

\* Entering an interrupt keeps the types of the CPU.
LEMMA InterruptType ==
    ASSUME CpuType(Bits \cup {Trap}), NEW b \in Bits, Interrupt(Level[b], b)
    PROVE  CpuType(Bits \cup {Trap})'
<1> DEFINE frame == [mask |-> imask, vector |-> b]
<1>1. Level[b] \in 0 .. 15
  BY Constants
<1>2. frame \in [mask : 0 .. 15, vector : Bits \cup {Trap}]
  BY DEF CpuType
<1>3. frames' = Append(frames, frame)
  BY DEF Interrupt, Saved
<1>4. frames' \in Seq([mask : 0 .. 15, vector : Bits \cup {Trap}])
  <2> HIDE DEF frame
  <2> QED BY <1>2, <1>3 DEF CpuType
<1> QED BY <1>1, <1>4 DEF Interrupt, CpuType

\* The type invariant is inductive.
LEMMA NextType == TypeOK /\ [Next]_vars => TypeOK'
<1> SUFFICES ASSUME TypeOK, [Next]_vars PROVE TypeOK'
  OBVIOUS
<1> USE DEF TypeOK
<1>1. CASE RunAsleep
  BY <1>1 DEF RunAsleep, scu, cpu, ScuType, CpuType
<1>2. CASE EnterBlock
  BY <1>2 DEF EnterBlock, scu, cpu, ScuType, CpuType
<1>3. CASE WriteRegister
  <2>1. ScuType'
    BY <1>3, WriteType
  <2> QED BY <1>3, <2>1 DEF WriteRegister, cpu, CpuType
<1>4. CASE LeaveBlock
  <2>1. CpuType(Bits \cup {Trap})'
    BY <1>4, LeaveType
  <2> QED BY <1>4, <2>1 DEF LeaveBlock, scu, ScuType
<1>5. CASE Fault
  BY <1>5 DEF Fault, scu, cpu, ScuType, CpuType
<1>6. CASE RaiseEvent
  <2>1. PICK b \in Bits : (Happen(b) \/ Raise(b)) /\ happened' = happened \cup {b}
    BY <1>6 DEF RaiseEvent
  <2>2. ScuType'
    BY <2>1, EventType
  <2> QED BY <1>6, <2>1, <2>2 DEF RaiseEvent, cpu, CpuType
<1>7. CASE EndOfEvents
  BY <1>7 DEF EndOfEvents, scu, cpu, ScuType, CpuType
<1>8. CASE Transfer
  <2>1. ScuType'
    BY <1>8, RunDmaType DEF Transfer
  <2> QED BY <1>8, <2>1 DEF Transfer, cpu, CpuType
<1>9. CASE EndOfTransfers
  BY <1>9 DEF EndOfTransfers, scu, cpu, ScuType, CpuType
<1>10. CASE Deliver
  <2>1. ASSUME NEW b \in Bits, Interrupt(Level[b], b), Acknowledge(b)
        PROVE  ScuType' /\ CpuType(Bits \cup {Trap})'
    <3>1. CpuType(Bits \cup {Trap})'
      BY <2>1, InterruptType
    <3> QED BY <2>1, <3>1 DEF Acknowledge, ScuType
  <2>2. CASE UNCHANGED <<scu, cpu>>
    BY <1>10, <2>2 DEF Deliver, scu, cpu, ScuType, CpuType
  <2> QED BY <1>10, <2>1, <2>2 DEF Deliver
<1>11. CASE UNCHANGED vars
  BY <1>11 DEF vars, scu, cpu, ScuType, CpuType
<1> QED BY <1>1, <1>2, <1>3, <1>4, <1>5, <1>6, <1>7, <1>8, <1>9, <1>10, <1>11 DEF Next

\* The registers, the queue and the exception frames keep their types whatever
\* programs write and whatever events happen.
THEOREM TypeCorrect == Spec => []TypeOK
<1>1. Init => TypeOK
  <2> SUFFICES ASSUME Init PROVE TypeOK
    OBVIOUS
  <2>1. [en |-> {}, armed |-> FALSE, factor |-> ResetFactor] \in Channel
    BY ScuAssumption DEF Channel, Factors
  <2>2. ScuType
    BY <2>1 DEF Init, ScuInit, ScuType
  <2>3. imask = 15 /\ sleeping = FALSE /\ frames = <<>>
    BY DEF Init, CpuInit
  <2>4. <<>> \in Seq([mask : 0 .. 15, vector : Bits \cup {Trap}]) /\ 15 \in 0 .. 15
    OBVIOUS
  <2>5. CpuType(Bits \cup {Trap})
    BY <2>3, <2>4, Zenon DEF CpuType
  <2> QED BY <2>2, <2>5 DEF Init, TypeOK
<1> QED BY <1>1, NextType, PTL DEF Spec

-----------------------------------------------------------------------------
(* Safety. *)

\* The armed flag of a channel and the enable bit that programs read agree.
THEOREM ArmedEnabled == Spec => []ArmedIsEnabled
<1>1. Init => ArmedIsEnabled
  BY DEF Init, ScuInit, ArmedIsEnabled
<1>2. TypeOK /\ ArmedIsEnabled /\ [Next]_vars => ArmedIsEnabled'
  <2> SUFFICES ASSUME TypeOK, ArmedIsEnabled, [Next]_vars PROVE ArmedIsEnabled'
    OBVIOUS
  <2> USE DEF ArmedIsEnabled
  <2>1. ch \in [Channels -> Channel]
    BY DEF TypeOK, ScuType
  <2>2. ASSUME NEW c \in Channels, NEW f \in Factors, WriteMode(c, f)
        PROVE  ArmedIsEnabled'
    BY <2>1, <2>2 DEF WriteMode, Channel
  <2>3. ASSUME NEW c \in Channels, NEW en \in Enables, WriteEnable(c, en)
        PROVE  ArmedIsEnabled'
    <3>1. ch'[c].en = en /\ ch'[c].armed = ("enable" \in en)
      BY <2>1, <2>3 DEF WriteEnable, Channel
    <3>2. \A d \in Channels \ {c} : ch'[d] = ch[d]
      BY <2>1, <2>3 DEF WriteEnable
    <3> QED BY <3>1, <3>2
  <2>4. CASE RunDma
    <3>1. Head(ready) \in Channels
      BY <2>4, RunDmaType DEF TypeOK
    <3> QED BY <2>1, <2>4, <3>1 DEF RunDma, Channel
  <2>5. CASE UNCHANGED ch
    BY <2>5
  <2>6. CASE WriteRegister
    BY <2>2, <2>3, <2>5, <2>6 DEF WriteRegister, WriteIms, WriteIst
  <2>7. CASE RaiseEvent
    BY <2>5, <2>7 DEF RaiseEvent, Happen, Raise
  <2>8. CASE Deliver
    BY <2>5, <2>8 DEF Deliver, Acknowledge, scu
  <2> QED
    BY <2>4, <2>5, <2>6, <2>7, <2>8
       DEF Next, RunAsleep, EnterBlock, LeaveBlock, Fault, EndOfEvents, Transfer,
           EndOfTransfers, vars, scu
<1> QED BY <1>1, <1>2, TypeCorrect, PTL DEF Spec

\* No interrupt the CPU would take is left when a block starts or a sleep goes
\* on, although a step offers only one.
THEOREM NoneDeliverable == Spec => []NothingDeliverable
<1>1. Init => NothingDeliverable
  BY DEF Init, ScuInit, NothingDeliverable
<1>2. TypeOK /\ NothingDeliverable /\ [Next]_vars => NothingDeliverable'
  <2> SUFFICES ASSUME TypeOK, NothingDeliverable, [Next]_vars, phase' = "cpu",
                      NEW o \in ist' \ ims'
               PROVE  Level[o] <= imask'
    BY DEF NothingDeliverable
  <2>1. ist \subseteq Bits /\ imask \in 0 .. 15
    BY DEF TypeOK, ScuType, CpuType
  <2>2. CASE Deliver
    <3>1. ASSUME NEW b \in Bits, IsBest(b), Interrupt(Level[b], b), Acknowledge(b)
          PROVE  Level[o] <= imask'
      <4>1. o \in ist \ ims /\ imask' = Level[b]
        BY <3>1 DEF Interrupt, Acknowledge
      <4> QED BY <2>1, <3>1, <4>1, BestIsHighest
    <3>2. ASSUME \A b \in Bits : IsBest(b) => ~Accepts(Level[b]), UNCHANGED <<scu, cpu>>
          PROVE  Level[o] <= imask'
      <4>1. o \in ist \ ims /\ imask' = imask /\ Level[o] \in 0 .. 15
        BY <2>1, <3>2, Constants DEF scu, cpu
      <4>2. CASE Level[o] = 0
        BY <2>1, <4>1, <4>2
      <4>3. CASE Level[o] > 0
        <5>1. o \in Active
          BY <4>1, <4>3 DEF Active
        <5>2. PICK b \in Bits : IsBest(b)
          BY <2>1, <5>1, BestExists
        <5>3. Level[o] <= Level[b] /\ ~(Level[b] > imask)
          BY <2>1, <3>2, <4>1, <5>2, BestIsHighest DEF Accepts
        <5> QED BY <2>1, <4>1, <5>3, Constants
      <4> QED BY <4>1, <4>2, <4>3
    <3> QED BY <2>2, <3>1, <3>2 DEF Deliver
  <2>3. CASE UNCHANGED vars
    BY <2>3 DEF vars, scu, cpu, NothingDeliverable
  <2> QED
    BY <2>2, <2>3 DEF Next, RunAsleep, EnterBlock, WriteRegister, LeaveBlock, Fault,
                      RaiseEvent, EndOfEvents, Transfer, EndOfTransfers
<1> QED BY <1>1, <1>2, TypeCorrect, PTL DEF Spec

\* An interrupt is never taken on top of a handler of its level or above it, as
\* long as handlers do not lower the mask themselves.
THEOREM NestingAlwaysRises == Spec => []NestingRises
<1>1. Init => NestingRises
  BY DEF Init, CpuInit, NestingRises
<1>2. TypeOK /\ NestingRises /\ [Next]_vars => NestingRises'
  <2> SUFFICES ASSUME TypeOK, NestingRises, [Next]_vars, Disciplined
               PROVE  NestingRises'
    BY DEF NestingRises
  <2> DEFINE Frame == [mask : 0 .. 15, vector : Bits \cup {Trap}]
  <2>1. frames \in Seq(Frame) /\ imask \in 0 .. 15
    BY DEF TypeOK, CpuType
  <2>2. \A i \in 1 .. Len(frames) :
           frames[i].vector # Trap =>
              /\ Level[frames[i].vector] \in 0 .. 15
              /\ frames[i].mask < Level[frames[i].vector]
              /\ Level[frames[i].vector] <= imask
              /\ \A j \in i + 1 .. Len(frames) :
                    Level[frames[i].vector] <= frames[j].mask
    <3>1. DOMAIN frames = 1 .. Len(frames) /\ \A i \in 1 .. Len(frames) : frames[i] \in Frame
      <4> HIDE DEF Frame
      <4> QED BY <2>1
    <3> QED BY <3>1, Constants DEF NestingRises
  <2>3. CASE UNCHANGED <<imask, frames>>
    BY <2>3 DEF NestingRises
  <2>4. CASE Rte
    <3>1. /\ frames' \in Seq(Frame)
          /\ Len(frames') = Len(frames) - 1
          /\ \A i \in 1 .. Len(frames) - 1 : frames'[i] = frames[i]
          /\ Len(frames) \in Nat \ {0}
          /\ DOMAIN frames' = 1 .. Len(frames')
      <4> HIDE DEF Frame
      <4>1. frames # <<>> /\ frames' = SubSeq(frames, 1, Len(frames) - 1)
        BY <2>4 DEF Rte
      <4>2. Len(frames) \in Nat \ {0}
        BY <2>1, <4>1
      <4>3. frames' \in Seq(Frame) => DOMAIN frames' = 1 .. Len(frames')
        OBVIOUS
      <4> QED BY <2>1, <4>1, <4>2, <4>3, FrontType
    <3>2. imask' = frames[Len(frames)].mask
      BY <2>4 DEF Rte
    <3> QED BY <2>2, <3>1, <3>2 DEF NestingRises
  <2>5. ASSUME NEW v, NEW m, frames' = Append(frames, [mask |-> imask, vector |-> v]),
               v \in Bits \cup {Trap}, imask' = m,
               IF v = Trap THEN m = imask ELSE m = Level[v] /\ imask < m
        PROVE  NestingRises'
    <3> DEFINE f == [mask |-> imask, vector |-> v]
    <3>1. f \in Frame /\ f.mask = imask /\ f.vector = v
      BY <2>1, <2>5
    <3>2. frames' = Append(frames, f)
      BY <2>5
    <3> HIDE DEF f
    <3>3. /\ Len(frames') = Len(frames) + 1 /\ Len(frames) \in Nat
          /\ DOMAIN frames' = 1 .. Len(frames) + 1
          /\ \A i \in 1 .. Len(frames) : frames'[i] = frames[i]
          /\ frames'[Len(frames) + 1] = f
      BY <2>1, <3>1, <3>2
    <3>4. m \in 0 .. 15 /\ imask <= m
      <4>1. CASE v = Trap
        BY <2>1, <2>5, <4>1
      <4>2. CASE v # Trap
        BY <2>1, <2>5, <4>2, Constants
      <4> QED BY <4>1, <4>2
    <3>5. \A i \in 1 .. Len(frames) : frames[i].vector # Trap =>
             /\ Level[frames[i].vector] <= imask'
             /\ \A j \in i + 1 .. Len(frames) + 1 :
                   Level[frames[i].vector] <= frames'[j].mask
      <4> SUFFICES ASSUME NEW i \in 1 .. Len(frames), frames[i].vector # Trap
                   PROVE  /\ Level[frames[i].vector] <= imask'
                          /\ \A j \in i + 1 .. Len(frames) + 1 :
                                Level[frames[i].vector] <= frames'[j].mask
        OBVIOUS
      <4> DEFINE l == Level[frames[i].vector]
      <4>1. /\ l \in 0 .. 15 /\ l <= imask
            /\ \A j \in i + 1 .. Len(frames) : l <= frames[j].mask
        BY <2>2
      <4> HIDE DEF l
      <4>2. l <= imask'
        BY <2>1, <2>5, <3>4, <4>1
      <4>3. ASSUME NEW j \in i + 1 .. Len(frames) + 1 PROVE l <= frames'[j].mask
        <5>1. CASE j = Len(frames) + 1
          BY <3>1, <3>3, <4>1, <5>1
        <5>2. CASE j # Len(frames) + 1
          <6>1. j \in i + 1 .. Len(frames) /\ j \in 1 .. Len(frames)
            BY <3>3, <5>2
          <6> QED BY <3>3, <4>1, <6>1
        <5> QED BY <5>1, <5>2
      <4> QED BY <4>2, <4>3 DEF l
    <3>6. v # Trap => imask < Level[v] /\ Level[v] <= imask'
      BY <2>5, <3>4
    <3> QED BY <2>2, <3>1, <3>3, <3>5, <3>6 DEF NestingRises
  <2>6. ASSUME NEW m \in Masks, KeepsMask(m), LoadMask(m) PROVE NestingRises'
    <3>1. frames' = frames /\ imask' = m
      BY <2>6 DEF LoadMask
    <3>2. \A i \in DOMAIN frames : frames[i].vector # Trap => Level[frames[i].vector] <= m
      BY <2>6 DEF KeepsMask, Entered
    <3> QED BY <3>1, <3>2 DEF NestingRises
  <2>7. CASE LeaveBlock
    <3>1. CASE Trapa(Trap)
      BY <3>1, <2>5 DEF Trapa, Saved
    <3> QED BY <2>3, <2>4, <2>6, <2>7, <3>1 DEF LeaveBlock, Sleep, cpu
  <2>8. CASE Deliver
    <3>1. ASSUME NEW b \in Bits, Interrupt(Level[b], b) PROVE NestingRises'
      <4>1. b # Trap /\ imask < Level[b]
        BY <3>1, <2>1, Constants DEF Interrupt, Accepts
      <4> QED BY <3>1, <4>1, <2>5 DEF Interrupt, Saved
    <3> QED BY <2>3, <2>8, <3>1 DEF Deliver, cpu
  <2> QED
    BY <2>3, <2>7, <2>8 DEF Next, RunAsleep, EnterBlock, WriteRegister, Fault,
       RaiseEvent, EndOfEvents, Transfer, EndOfTransfers, vars, cpu
<1> QED BY <1>1, <1>2, TypeCorrect, PTL DEF Spec

\* What keeps a channel from being queued twice: a queued channel waits for an
\* event that has already happened in this step, or was started by software,
\* and the queue is empty when a step is over.
QueueIsFresh ==
    Disciplined =>
        /\ phase \in {"deliver", "cpu"} => ready = <<>>
        /\ \A i \in DOMAIN ready : ch[ready[i]].factor \in happened \cup {Software}

\* Appending a duplicate-free run of new channels keeps the queue duplicate-free.
LEMMA AppendQueued ==
    ASSUME NEW S, NEW q \in Seq(S), NEW t \in Seq(S),
           \A i, j \in DOMAIN q : q[i] = q[j] => i = j,
           \A i, j \in DOMAIN t : t[i] = t[j] => i = j,
           \A i \in DOMAIN q, j \in DOMAIN t : q[i] # t[j]
    PROVE  /\ \A i, j \in DOMAIN (q \o t) : (q \o t)[i] = (q \o t)[j] => i = j
           /\ \A i \in DOMAIN (q \o t) :
                 \/ \E j \in DOMAIN q : (q \o t)[i] = q[j]
                 \/ \E j \in DOMAIN t : (q \o t)[i] = t[j]
<1> DEFINE n == Len(q)
           m == Len(t)
           r == q \o t
<1>1. n \in Nat /\ m \in Nat /\ DOMAIN q = 1 .. n /\ DOMAIN t = 1 .. m
  OBVIOUS
<1>2. /\ DOMAIN r = 1 .. n + m
      /\ \A i \in 1 .. n + m : r[i] = IF i <= n THEN q[i] ELSE t[i - n]
  OBVIOUS
<1> HIDE DEF n, m, r
<1>3. \A i \in 1 .. n + m : i <= n \/ i - n \in 1 .. m
  BY <1>1
<1>4. \A i \in 1 .. n + m : i <= n => i \in 1 .. n
  BY <1>1
<1>5. ASSUME NEW i \in 1 .. n + m, NEW j \in 1 .. n + m, r[i] = r[j] PROVE i = j
  <2>1. CASE i <= n /\ j <= n
    BY <1>1, <1>2, <1>4, <1>5, <2>1
  <2>2. CASE ~(i <= n) /\ ~(j <= n)
    <3>1. i - n = j - n
      BY <1>1, <1>2, <1>3, <1>5, <2>2
    <3> QED BY <1>1, <3>1
  <2>3. CASE i <= n /\ ~(j <= n)
    BY <1>1, <1>2, <1>3, <1>4, <1>5, <2>3
  <2>4. CASE ~(i <= n) /\ j <= n
    BY <1>1, <1>2, <1>3, <1>4, <1>5, <2>4
  <2> QED BY <2>1, <2>2, <2>3, <2>4
<1>6. \A i \in 1 .. n + m : (\E j \in DOMAIN q : r[i] = q[j]) \/ (\E j \in DOMAIN t : r[i] = t[j])
  BY <1>1, <1>2, <1>3, <1>4
<1> QED BY <1>2, <1>5, <1>6 DEF r

\* The queue is fresh, and so no channel is queued twice.
THEOREM QueueStaysFresh == Spec => [](ReadyAreArmed /\ QueueIsFresh)
<1> DEFINE Inv == ReadyAreArmed /\ QueueIsFresh
<1>1. Init => Inv
  BY DEF Init, ScuInit, ReadyAreArmed, QueueIsFresh
<1>2. TypeOK /\ Inv /\ [Next]_vars => Inv'
  <2> SUFFICES ASSUME TypeOK, Inv, [Next]_vars, Disciplined PROVE Inv'
    BY DEF ReadyAreArmed, QueueIsFresh
  <2>1. ready \in Seq(Channels) /\ ch \in [Channels -> Channel]
    BY DEF TypeOK, ScuType
  <2>2. /\ \A i \in DOMAIN ready : ch[ready[i]].armed
        /\ \A i, j \in DOMAIN ready : ready[i] = ready[j] => i = j
        /\ phase \in {"deliver", "cpu"} => ready = <<>>
        /\ \A i \in DOMAIN ready : ch[ready[i]].factor \in happened \cup {Software}
    BY DEF ReadyAreArmed, QueueIsFresh
  <2>3. \A i \in DOMAIN ready : ready[i] \in Channels /\ ready[i] \in Started
    BY <2>1 DEF Started
  <2>4. CASE ready' = ready /\ ch' = ch /\ happened \subseteq happened'
             /\ (phase' \in {"deliver", "cpu"} => ready = <<>>)
    BY <2>2, <2>4 DEF ReadyAreArmed, QueueIsFresh
  <2>5. CASE WriteRegister
    <3>1. ASSUME NEW c \in Channels, NEW f \in Factors, c \notin Started, WriteMode(c, f)
          PROVE  Inv'
      <4>1. \A d \in Channels \ {c} : ch'[d] = ch[d]
        BY <2>1, <3>1 DEF WriteMode
      <4>2. \A i \in DOMAIN ready : ch'[ready[i]] = ch[ready[i]]
        BY <2>3, <3>1, <4>1
      <4>3. ready' = ready /\ happened' = happened /\ phase' = "block"
        BY <2>5, <3>1 DEF WriteMode, WriteRegister
      <4> QED BY <2>2, <4>2, <4>3 DEF ReadyAreArmed, QueueIsFresh
    <3>2. ASSUME NEW c \in Channels, NEW en \in Enables, c \notin Started, WriteEnable(c, en)
          PROVE  Inv'
      <4>1. \A d \in Channels \ {c} : ch'[d] = ch[d]
        BY <2>1, <3>2 DEF WriteEnable
      <4>2. \A i \in DOMAIN ready : ch'[ready[i]] = ch[ready[i]]
        BY <2>3, <3>2, <4>1
      <4>3. happened' = happened /\ phase' = "block"
        BY <2>5 DEF WriteRegister
      <4>4. CASE ready' = ready
        BY <2>2, <4>2, <4>3, <4>4 DEF ReadyAreArmed, QueueIsFresh
      <4>5. CASE ready' # ready
        <5>1. ready' = Append(ready, c) /\ "enable" \in en /\ ch[c].factor = Software
          BY <3>2, <4>5 DEF WriteEnable
        <5>2. ch'[c].armed /\ ch'[c].factor = Software
          BY <2>1, <3>2, <5>1 DEF WriteEnable, Channel
        <5>3. /\ DOMAIN ready' = 1 .. Len(ready) + 1 /\ DOMAIN ready = 1 .. Len(ready)
              /\ Len(ready) \in Nat
              /\ \A i \in 1 .. Len(ready) : ready'[i] = ready[i]
              /\ ready'[Len(ready) + 1] = c
          BY <2>1, <5>1
        <5>4. \A i \in DOMAIN ready : ready[i] # c
          BY <2>3, <3>2
        <5>5. \A i, j \in DOMAIN ready' : ready'[i] = ready'[j] => i = j
          BY <2>2, <5>3, <5>4
        <5>6. \A i \in DOMAIN ready' :
                 ch'[ready'[i]].armed /\ ch'[ready'[i]].factor \in happened \cup {Software}
          <6> SUFFICES ASSUME NEW i \in DOMAIN ready'
                       PROVE  ch'[ready'[i]].armed
                              /\ ch'[ready'[i]].factor \in happened \cup {Software}
            OBVIOUS
          <6>1. i \in DOMAIN ready \/ i = Len(ready) + 1
            BY <5>3
          <6>2. CASE i \in DOMAIN ready
            BY <2>2, <4>2, <5>3, <6>2
          <6>3. CASE i = Len(ready) + 1
            BY <5>2, <5>3, <6>3
          <6> QED BY <6>1, <6>2, <6>3
        <5> QED BY <4>3, <5>5, <5>6 DEF ReadyAreArmed, QueueIsFresh
      <4> QED BY <4>4, <4>5
    <3>3. ASSUME NEW s \in SUBSET Bits, WriteIms(s) \/ WriteIst(s) PROVE Inv'
      BY <2>4, <2>5, <3>3 DEF WriteIms, WriteIst, WriteRegister
    <3> QED BY <2>5, <3>1, <3>2, <3>3 DEF WriteRegister, LeavesAlone
  <2>6. CASE RaiseEvent
    <3>1. PICK b \in Bits \ happened :
             /\ IF b \in EventBits THEN Happen(b) ELSE Raise(b)
             /\ happened' = happened \cup {b}
             /\ phase' = "events"
      BY <2>6 DEF RaiseEvent
    <3>2. CASE b \notin EventBits
      BY <2>4, <3>1, <3>2 DEF Raise
    <3>3. CASE b \in EventBits
      <4> DEFINE t == Triggered(b)
      <4>1. ready' = ready \o t /\ ch' = ch
        BY <3>1, <3>3 DEF Happen
      <4>2. /\ t \in Seq(Channels)
            /\ \A i \in DOMAIN t : ch[t[i]].armed /\ ch[t[i]].factor = b
            /\ \A i, j \in DOMAIN t : t[i] = t[j] => i = j
        BY TriggeredType
      <4> HIDE DEF t
      <4>3. b \notin happened \cup {Software}
        BY <3>1, <3>3, ScuAssumption
      <4>4. \A i \in DOMAIN ready, j \in DOMAIN t : ready[i] # t[j]
        BY <2>2, <4>2, <4>3
      <4>5. /\ \A i, j \in DOMAIN ready' : ready'[i] = ready'[j] => i = j
            /\ \A i \in DOMAIN ready' :
                  \/ \E j \in DOMAIN ready : ready'[i] = ready[j]
                  \/ \E j \in DOMAIN t : ready'[i] = t[j]
        <5>1. \A i, j \in DOMAIN ready : ready[i] = ready[j] => i = j
          BY <2>2
        <5>2. /\ \A i, j \in DOMAIN (ready \o t) : (ready \o t)[i] = (ready \o t)[j] => i = j
              /\ \A i \in DOMAIN (ready \o t) :
                    \/ \E j \in DOMAIN ready : (ready \o t)[i] = ready[j]
                    \/ \E j \in DOMAIN t : (ready \o t)[i] = t[j]
          BY <2>1, <4>2, <4>4, <5>1, AppendQueued, Zenon
        <5> QED BY <4>1, <5>2, Zenon
      <4>6. \A i \in DOMAIN ready' :
               ch'[ready'[i]].armed /\ ch'[ready'[i]].factor \in happened' \cup {Software}
        BY <2>2, <3>1, <4>1, <4>2, <4>5
      <4> QED BY <3>1, <4>5, <4>6 DEF ReadyAreArmed, QueueIsFresh
    <3> QED BY <3>2, <3>3
  <2>7. CASE Transfer
    <3> DEFINE c == Head(ready)
    <3>1. /\ ready # <<>> /\ ready' = Tail(ready) /\ happened' = happened /\ phase' = "dma"
          /\ ch' = [ch EXCEPT ![c].armed = FALSE, ![c].en = @ \ {"enable"}]
      BY <2>7 DEF Transfer, RunDma
    <3>2. /\ c \in Channels /\ c = ready[1]
          /\ Len(ready) \in Nat \ {0} /\ DOMAIN ready = 1 .. Len(ready)
          /\ DOMAIN ready' = 1 .. Len(ready) - 1
          /\ \A i \in 1 .. Len(ready) - 1 : ready'[i] = ready[i + 1]
      BY <2>1, <3>1
    <3>3. \A d \in Channels \ {c} : ch'[d] = ch[d]
      BY <2>1, <3>1
    <3> HIDE DEF c
    <3>4. \A i \in DOMAIN ready' : i + 1 \in DOMAIN ready /\ ready'[i] = ready[i + 1]
      BY <3>2
    <3>5. \A i \in DOMAIN ready' : ready'[i] # c
      BY <2>2, <3>2, <3>4
    <3>6. \A i \in DOMAIN ready' : ch'[ready'[i]] = ch[ready[i + 1]]
      BY <2>3, <3>3, <3>4, <3>5
    <3>7. \A i, j \in DOMAIN ready' : ready'[i] = ready'[j] => i = j
      <4> SUFFICES ASSUME NEW i \in DOMAIN ready', NEW j \in DOMAIN ready',
                          ready'[i] = ready'[j]
                   PROVE  i = j
        OBVIOUS
      <4>1. i + 1 = j + 1
        BY <2>2, <3>4
      <4> QED BY <3>2, <4>1
    <3>8. \A i \in DOMAIN ready' :
             ch'[ready'[i]].armed /\ ch'[ready'[i]].factor \in happened' \cup {Software}
      <4> SUFFICES ASSUME NEW i \in DOMAIN ready'
                   PROVE  ch'[ready'[i]].armed
                          /\ ch'[ready'[i]].factor \in happened' \cup {Software}
        OBVIOUS
      <4>1. ch'[ready'[i]] = ch[ready[i + 1]] /\ i + 1 \in DOMAIN ready
        BY <3>4, <3>6
      <4>2. ch[ready[i + 1]].armed /\ ch[ready[i + 1]].factor \in happened \cup {Software}
        BY <2>2, <4>1
      <4> QED BY <3>1, <4>1, <4>2
    <3>9. phase' \notin {"deliver", "cpu"}
      BY <3>1
    <3> QED BY <3>7, <3>8, <3>9, Zenon DEF ReadyAreArmed, QueueIsFresh
  <2>8. CASE Deliver
    <3>1. ready = <<>> /\ ready' = ready
      BY <2>2, <2>8 DEF Deliver, Acknowledge, scu
    <3> QED BY <3>1 DEF ReadyAreArmed, QueueIsFresh
  <2> QED
    BY <2>2, <2>4, <2>5, <2>6, <2>7, <2>8
       DEF Next, RunAsleep, EnterBlock, LeaveBlock, Fault, EndOfEvents,
           EndOfTransfers, vars, scu
<1> QED BY <1>1, <1>2, TypeCorrect, PTL DEF Spec

\* A queued channel is armed and queued once, as long as programs leave alone
\* the channels they have just started.
THEOREM ReadyStayArmed == Spec => []ReadyAreArmed
BY QueueStaysFresh, PTL

=============================================================================
