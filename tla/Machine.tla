------------------------------- MODULE Machine -------------------------------
(***************************************************************************)
(* machine.rs: step runs one block of the CPU and advance moves the rest   *)
(* of the machine on by the cycles the block took.  This module composes   *)
(* the CPU, the SCU and the video clock with what advance does between     *)
(* them: the flags of the VDP2, the drawing of the VDP1, the requests of   *)
(* the SMPC.  Each of advance's calls is a stage of its own, in the order  *)
(* of the code; within a stage nothing else runs.                          *)
(*                                                                         *)
(* Two calls of advance are left out, the tick of the CD block and the     *)
(* sound step: neither touches anything that is modelled here.             *)
(***************************************************************************)
EXTENDS Scu, Sh2Exceptions, VideoTiming

CONSTANTS
    VBlankIn, VBlankOut, HBlankIn,  \* the SCU's bits for the events of the
    SpriteEnd, SystemManager,       \* clock, of the VDP1 and of the SMPC
    Trap,                           \* the vector of a TRAPA
    Masks,                          \* the masks a program loads
    Enables,                        \* the values a program writes to DxEN
    ImsValues, IstValues,           \* the values it writes to IMS and IST
    Program,                        \* the other things it does
    MaxTraps,                       \* bound on the frames when a program traps
    SleepCycles                     \* the cycles a CPU asleep lets pass, 64

ASSUME MachineAssumption ==
    /\ EventBits = {VBlankIn, VBlankOut, HBlankIn, SpriteEnd}
    /\ VBlankOut # VBlankIn
    /\ HBlankIn \notin {VBlankIn, VBlankOut}
    /\ SpriteEnd \notin {VBlankIn, VBlankOut, HBlankIn}
    /\ SystemManager \in Bits \ (EventBits \cup {EndBit[c] : c \in Channels})
    /\ Trap \notin Bits
    /\ Masks \subseteq 0 .. 15
    /\ Enables \subseteq SUBSET {"enable", "go"}
    /\ MaxTraps \in Nat
    /\ ImsValues \cup IstValues \subseteq SUBSET Bits
    /\ Program \subseteq {"trap", "sleep", "draw", "intback", "sound"}
    /\ SleepCycles \in BlockCycles
    /\ 0 \notin BlockCycles

\* No block is longer than an HBlank: 64 instructions of at most 3 cycles, and
\* the entry of an exception, against 320 cycles.
ASSUME ShortBlocks == \A n \in BlockCycles : n <= CyclesPerLine - HBlankStart

VARIABLES
    stage,     \* the call of step or advance that comes next
    spent,     \* the cycles of the block, for advance
    smpc,      \* irq_pending and sound_on of the SMPC
    vdp1,      \* draw_requested, and CEF of EDSR
    vdp2,      \* vblank, hblank and line
    sound,     \* SoundCpu.running
    happened,  \* history: the events raised in this step
    command,   \* history: the last power command written to the SMPC
    asleep,    \* history: the cycles since the CPU fell asleep, up to a frame
    shown      \* history: the frame the sink is owed next, or Mislabelled

devices == <<smpc, vdp1, command>>
machineVars == <<scu, cpu, timing, stage, spent, devices, vdp2, sound,
                 happened, asleep, shown>>

Init ==
    /\ ScuInit
    /\ CpuInit
    /\ TimingInit
    /\ stage = "cpu"
    /\ spent = 0
    /\ smpc = [irq |-> FALSE, power |-> "none"]
    /\ vdp1 = [draw |-> FALSE, cef |-> FALSE]
    /\ vdp2 = [vblank |-> FALSE, hblank |-> FALSE, line |-> 0]
    /\ sound = FALSE
    /\ happened = {}
    /\ command = "off"
    /\ asleep = 0
    /\ shown = 0

-----------------------------------------------------------------------------
(* What a store to a register of the VDP1 or the SMPC does.                *)

\* Mutant: CEF of the drawing before stays set.
RequestKeepingCef ==
    /\ "draw" \in Program
    /\ vdp1' = [vdp1 EXCEPT !.draw = TRUE]
    /\ UNCHANGED <<smpc, command>>

\* PTMR = 1.
RequestDrawing ==
    /\ "draw" \in Program
    /\ vdp1' = [draw |-> TRUE, cef |-> FALSE]
    /\ UNCHANGED <<smpc, command>>

\* INTBACK.
Intback ==
    /\ "intback" \in Program
    /\ smpc' = [smpc EXCEPT !.irq = TRUE]
    /\ UNCHANGED <<vdp1, command>>

\* Mutant: a command that waits is not replaced.
PowerOnce(onOff) ==
    /\ "sound" \in Program
    /\ smpc' = [smpc EXCEPT !.power = IF @ = "none" THEN onOff ELSE @]
    /\ command' = onOff
    /\ UNCHANGED vdp1

\* SNDON and SNDOFF.
Power(onOff) ==
    /\ "sound" \in Program
    /\ smpc' = [smpc EXCEPT !.power = onOff]
    /\ command' = onOff
    /\ UNCHANGED vdp1

WriteDevice == RequestDrawing \/ Intback \/ \E onOff \in {"on", "off"} : Power(onOff)

-----------------------------------------------------------------------------
(* step: one block. *)

FrameCycles == LinesPerFrame * CyclesPerLine

\* run_block returns 64 cycles at once.
RunAsleep ==
    /\ stage = "cpu" /\ sleeping
    /\ stage' = "timing"
    /\ spent' = SleepCycles
    /\ asleep' = IF asleep > FrameCycles THEN asleep ELSE asleep + SleepCycles
    /\ UNCHANGED <<scu, cpu, timing, devices, vdp2, sound, happened, shown>>

EnterBlock ==
    /\ stage = "cpu" /\ ~sleeping
    /\ stage' = "block"
    /\ UNCHANGED <<scu, cpu, timing, spent, devices, vdp2, sound, happened, asleep, shown>>

\* A store of the block to a register of the SCU.
WriteScu ==
    /\ stage = "block"
    /\ \/ \E s \in ImsValues : WriteIms(s)
       \/ \E s \in IstValues : WriteIst(s)
       \/ \E c \in Channels \ Started :
             (\E f \in Factors : WriteMode(c, f)) \/ (\E en \in Enables : WriteEnable(c, en))
    /\ UNCHANGED <<cpu, timing, stage, spent, devices, vdp2, sound, happened, asleep, shown>>

\* A store of the block to another device.
WriteOther ==
    /\ stage = "block"
    /\ WriteDevice
    /\ UNCHANGED <<scu, cpu, timing, stage, spent, vdp2, sound, happened, asleep, shown>>

KeepsMask(m) == \A b \in Entered \ {Trap} : Level[b] <= m

LeaveBlock ==
    /\ stage = "block"
    /\ \/ UNCHANGED cpu
       \/ "sleep" \in Program /\ Sleep
       \/ Rte
       \/ "trap" \in Program /\ Len(frames) < MaxTraps /\ Trapa(Trap)
       \/ \E m \in Masks : KeepsMask(m) /\ LoadMask(m)
    /\ spent' \in BlockCycles
    /\ stage' = "timing"
    /\ UNCHANGED <<scu, timing, devices, vdp2, sound, happened, asleep, shown>>

\* An illegal instruction: step returns the fault and the main loops stop.
Fault ==
    /\ stage = "block"
    /\ stage' = "fault"
    /\ UNCHANGED <<scu, cpu, timing, spent, devices, vdp2, sound, happened, asleep, shown>>

-----------------------------------------------------------------------------
(* advance. *)

AdvanceClock ==
    /\ stage = "timing"
    /\ \/ spent # 0 /\ Enter(spent) /\ spent' = 0 /\ UNCHANGED stage
       \/ LastPass /\ stage' = "events" /\ UNCHANGED spent
       \/ LinePass /\ UNCHANGED <<stage, spent>>
    /\ UNCHANGED <<scu, cpu, devices, vdp2, sound, happened, asleep, shown>>

\* Mutant: a new line leaves the HBlank flag set.
Vdp2FlagsSticky(ev) ==
    [vblank |-> ev.kind = "VBlankIn" \/ (vdp2.vblank /\ ev.kind # "VBlankOut"),
     hblank |-> ev.kind = "HBlankIn" \/ vdp2.hblank,
     line   |-> IF ev.kind = "LineStart" THEN ev.line ELSE vdp2.line]

\* The flags of the VDP2 after an event.
Vdp2Flags(ev) ==
    [vblank |-> ev.kind = "VBlankIn" \/ (vdp2.vblank /\ ev.kind # "VBlankOut"),
     hblank |-> ev.kind = "HBlankIn" \/ (vdp2.hblank /\ ev.kind # "LineStart"),
     line   |-> IF ev.kind = "LineStart" THEN ev.line ELSE vdp2.line]

\* The bit an event of the clock raises; a new line raises none.
Raised(ev) ==
    IF ev.kind = "HBlankIn" THEN {HBlankIn}
    ELSE IF ev.kind = "VBlankIn" THEN {VBlankIn}
    ELSE IF ev.kind = "VBlankOut" THEN {VBlankOut}
    ELSE {}

\* The sink was handed a frame under the number of another.
Mislabelled == -1

\* on_frame, with the frame the clock is in by now.
HandFrame == IF shown = frame THEN (shown + 1) % FrameWidth ELSE Mislabelled

\* on_video_event, for the first of the events.
OnVideoEvent ==
    /\ stage = "events"
    /\ out # <<>>
    /\ out' = Tail(out)
    /\ LET ev == Head(out)
       IN  /\ vdp2' = Vdp2Flags(ev)
           /\ IF Raised(ev) = {} THEN UNCHANGED scu ELSE \E b \in Raised(ev) : Happen(b)
           /\ happened' = happened \cup Raised(ev)
           /\ shown' = IF ev.kind = "VBlankIn" THEN HandFrame ELSE shown
    /\ UNCHANGED <<cpu, line, frame, inLine, hblankSent, looping, stage, spent,
                   devices, sound, asleep>>

EndOfEvents ==
    /\ stage = "events"
    /\ out = <<>>
    /\ stage' = "smpc"
    /\ UNCHANGED <<scu, cpu, timing, spent, devices, vdp2, sound, happened, asleep, shown>>

\* The two requests of the SMPC are taken together.
ServiceSmpc ==
    /\ stage = "smpc"
    /\ stage' = "vdp1"
    /\ smpc' = [irq |-> FALSE, power |-> "none"]
    /\ IF smpc.irq
       THEN Raise(SystemManager) /\ happened' = happened \cup {SystemManager}
       ELSE UNCHANGED <<scu, happened>>
    /\ sound' = IF smpc.power = "none" THEN sound ELSE smpc.power = "on"
    /\ UNCHANGED <<cpu, timing, spent, vdp1, command, vdp2, asleep, shown>>

\* Mutant: the end of the drawing raises nothing.
ServiceVdp1Silently ==
    /\ stage = "vdp1"
    /\ stage' = "take"
    /\ vdp1' = IF vdp1.draw THEN [draw |-> FALSE, cef |-> TRUE] ELSE vdp1
    /\ UNCHANGED <<scu, cpu, timing, spent, smpc, command, vdp2, sound,
                   happened, asleep, shown>>

ServiceVdp1 ==
    /\ stage = "vdp1"
    /\ stage' = "take"
    /\ IF vdp1.draw
       THEN /\ vdp1' = [draw |-> FALSE, cef |-> TRUE]
            /\ Happen(SpriteEnd)
            /\ happened' = happened \cup {SpriteEnd}
       ELSE UNCHANGED <<vdp1, scu, happened>>
    /\ UNCHANGED <<cpu, timing, spent, smpc, command, vdp2, sound, asleep, shown>>

\* run_dmas takes the queue.
TakeReady ==
    /\ stage = "take"
    /\ stage' = "dma"
    /\ UNCHANGED <<scu, cpu, timing, spent, devices, vdp2, sound, happened, asleep, shown>>

\* A transfer may store to the registers of other devices.
Transfer ==
    /\ stage = "dma"
    /\ RunDma
    /\ UNCHANGED devices \/ WriteDevice
    /\ UNCHANGED <<cpu, timing, stage, spent, vdp2, sound, happened, asleep, shown>>

\* Mutant: the loop over the queue ends early.
EndOfTransfersEarly ==
    /\ stage = "dma"
    /\ stage' = "deliver"
    /\ UNCHANGED devices \/ WriteDevice
    /\ UNCHANGED <<scu, cpu, timing, spent, vdp2, sound, happened, asleep, shown>>

\* The queue is done, and the SCU's DSP runs if it was started.
EndOfTransfers ==
    /\ stage = "dma"
    /\ ready = <<>>
    /\ stage' = "deliver"
    /\ UNCHANGED devices \/ WriteDevice
    /\ UNCHANGED <<scu, cpu, timing, spent, vdp2, sound, happened, asleep, shown>>

Deliver ==
    /\ stage = "deliver"
    /\ \/ \E b \in Bits : IsBest(b) /\ Interrupt(Level[b], b) /\ Acknowledge(b)
       \/ /\ \A b \in Bits : IsBest(b) => ~Accepts(Level[b])
          /\ UNCHANGED <<scu, cpu>>
    /\ asleep' = IF sleeping' THEN asleep ELSE 0
    /\ happened' = {}
    /\ stage' = "cpu"
    /\ UNCHANGED <<timing, spent, devices, vdp2, sound, shown>>

Next ==
    \/ RunAsleep
    \/ EnterBlock
    \/ WriteScu
    \/ WriteOther
    \/ LeaveBlock
    \/ Fault
    \/ AdvanceClock
    \/ OnVideoEvent
    \/ EndOfEvents
    \/ ServiceSmpc
    \/ ServiceVdp1
    \/ TakeReady
    \/ Transfer
    \/ EndOfTransfers
    \/ Deliver

\* The main loops call step until a fault; blocks and queues are finite.
Proceed ==
    \/ RunAsleep
    \/ EnterBlock
    \/ LeaveBlock
    \/ AdvanceClock
    \/ OnVideoEvent
    \/ EndOfEvents
    \/ ServiceSmpc
    \/ ServiceVdp1
    \/ TakeReady
    \/ Transfer
    \/ EndOfTransfers
    \/ Deliver

Spec == Init /\ [][Next]_machineVars /\ WF_machineVars(Proceed)

-----------------------------------------------------------------------------
(* Properties. *)

TypeOK ==
    /\ ScuType
    /\ CpuType(Bits \cup {Trap})
    /\ line \in 0 .. LinesPerFrame - 1
    /\ inLine \in Nat
    /\ \A i \in DOMAIN out : out[i] \in VideoEvents
    /\ spent \in BlockCycles \cup {0}
    /\ smpc \in [irq : BOOLEAN, power : {"none", "on", "off"}]
    /\ vdp1 \in [draw : BOOLEAN, cef : BOOLEAN]
    /\ vdp2 \in [vblank : BOOLEAN, hblank : BOOLEAN, line : 0 .. LinesPerFrame - 1]
    /\ sound \in BOOLEAN
    /\ happened \subseteq Bits

\* Once the events of a step are handled, the flags a program polls in TVSTAT
\* say where the clock is.
FlagsFollowClock ==
    stage \notin {"timing", "events"} =>
        /\ vdp2.line = line
        /\ vdp2.vblank <=> line >= ActiveLines
        /\ vdp2.hblank <=> hblankSent /\ line < ActiveLines

\* The sink is handed every frame once, at the VBlank-in of that frame and under
\* its number, although the clock has run on by then (machine.rs:362).
EachFrameShownOnce ==
    stage \notin {"timing", "events"} =>
        shown = IF line >= ActiveLines THEN NextFrame ELSE frame

\* A transfer started by a blanking event runs while the flag of that blanking
\* is set, so a program may count on it not to disturb the visible picture.
TransfersRunInTheirBlank ==
    stage = "dma" =>
        \A c \in Started :
            /\ ch[c].factor = HBlankIn => vdp2.hblank
            /\ ch[c].factor = VBlankIn => vdp2.vblank

\* A program that polls EDSR and one that waits for the sprite-end interrupt
\* agree: CEF rises only in a step that makes the interrupt pending, and never
\* stands while a drawing asked for since, by a block or a transfer, is due.
PollingAgrees ==
    [][vdp1'.cef => ~vdp1'.draw /\ (vdp1.cef \/ SpriteEnd \in ist')]_machineVars

\* The sound CPU follows the last power command, also when a block writes
\* several; one that a DMA writes after the SMPC was served waits for the next
\* step.
SoundFollowsCommand ==
    stage = "cpu" =>
        IF smpc.power = "none" THEN sound <=> command = "on" ELSE smpc.power = command

\* With VBlank-in enabled no sleep lasts longer than a frame.
SleepsAtMostAFrame ==
    stage = "cpu" /\ sleeping /\ VBlankIn \notin ims /\ Level[VBlankIn] > imask =>
        asleep <= FrameCycles

\* Every request for drawing is answered by the end-of-drawing interrupt, unless
\* the emulation stops at a fault.
DrawingEnds == vdp1.draw ~> (vdp1.cef /\ SpriteEnd \in ist) \/ stage = "fault"

\* The machine is one of those Interrupts describes: all that is proved there
\* of disciplined programs holds of it.
Phase ==
    IF stage \in {"timing", "events", "smpc", "vdp1", "take"} THEN "events" ELSE stage

Delivery == INSTANCE Interrupts WITH phase <- Phase, Disciplined <- TRUE

ImplementsInterrupts == Delivery!Spec

=============================================================================
