----------------------------- MODULE Interrupts -----------------------------
(***************************************************************************)
(* One step of the machine after another, as the interrupt controller, the *)
(* DMA starter and the CPU see it: a block runs and writes registers, then *)
(* events happen, then the transfers that became ready run, then the CPU   *)
(* is offered one interrupt (machine.rs, step and advance).  Which events  *)
(* happen is left open; Machine says where they come from.                 *)
(***************************************************************************)
EXTENDS Scu, Sh2Exceptions, FiniteSets

CONSTANTS
    Trap,        \* the vector of a TRAPA
    Masks,       \* the masks a program loads with LDC SR
    Enables,     \* the values a program writes to DxEN
    Disciplined, \* programs keep the two rules below
    MaxTraps     \* bound on the frames that are on the stack when one traps

ASSUME ProgramAssumption ==
    /\ Trap \notin Bits
    /\ Masks \subseteq 0 .. 15
    /\ Enables \subseteq SUBSET {"enable", "go"}
    /\ Disciplined \in BOOLEAN
    /\ MaxTraps \in Nat

VARIABLES
    phase,    \* the part of the step that comes next
    happened  \* the events of this step so far (history)

vars == <<scu, cpu, phase, happened>>

Init ==
    /\ ScuInit
    /\ CpuInit
    /\ phase = "cpu"
    /\ happened = {}

-----------------------------------------------------------------------------
(* What a disciplined program does not do. *)

\* A handler does not lower the mask below the level of its interrupt.
KeepsMask(m) == \A b \in Entered \ {Trap} : Level[b] <= m

\* A block does not touch the channel it has started.
LeavesAlone(c) == c \notin Started

-----------------------------------------------------------------------------
(* run_block. *)

\* A CPU asleep lets 64 cycles pass.
RunAsleep ==
    /\ phase = "cpu" /\ sleeping
    /\ phase' = "events"
    /\ UNCHANGED <<scu, cpu, happened>>

EnterBlock ==
    /\ phase = "cpu" /\ ~sleeping
    /\ phase' = "block"
    /\ UNCHANGED <<scu, cpu, happened>>

WriteRegister ==
    /\ phase = "block"
    /\ \/ \E s \in SUBSET Bits : WriteIms(s) \/ WriteIst(s)
       \/ \E c \in Channels :
             /\ Disciplined => LeavesAlone(c)
             /\ \/ \E f \in Factors : WriteMode(c, f)
                \/ \E en \in Enables : WriteEnable(c, en)
    /\ UNCHANGED <<cpu, phase, happened>>

\* The block ends; its last instruction may be one of those that change the
\* state of the CPU.
LeaveBlock ==
    /\ phase = "block"
    /\ \/ UNCHANGED cpu
       \/ Sleep
       \/ Rte
       \/ Len(frames) < MaxTraps /\ Trapa(Trap)
       \/ \E m \in Masks : (Disciplined => KeepsMask(m)) /\ LoadMask(m)
    /\ phase' = "events"
    /\ UNCHANGED <<scu, happened>>

\* EXIT_ILLEGAL: step returns the fault to its caller without advancing.
Fault ==
    /\ phase = "block"
    /\ phase' = "fault"
    /\ UNCHANGED <<scu, cpu, happened>>

-----------------------------------------------------------------------------
(* advance. *)

\* An event of the video clock, of the VDP1 or of the SMPC.  No step is long
\* enough for the same event to happen twice.
RaiseEvent ==
    /\ phase = "events"
    /\ \E b \in (Bits \ {EndBit[c] : c \in Channels}) \ happened :
          /\ IF b \in EventBits THEN Happen(b) ELSE Raise(b)
          /\ happened' = happened \cup {b}
    /\ UNCHANGED <<cpu, phase>>

EndOfEvents ==
    /\ phase = "events"
    /\ phase' = "dma"
    /\ UNCHANGED <<scu, cpu, happened>>

\* run_dmas: the queue was taken when the phase began, and a transfer cannot
\* reach the registers of the SCU, so the queue only shrinks.
Transfer ==
    /\ phase = "dma"
    /\ RunDma
    /\ UNCHANGED <<cpu, phase, happened>>

EndOfTransfers ==
    /\ phase = "dma"
    /\ ready = <<>>
    /\ phase' = "deliver"
    /\ UNCHANGED <<scu, cpu, happened>>

\* deliver_interrupt offers the best interrupt, and no other.
Deliver ==
    /\ phase = "deliver"
    /\ \/ \E b \in Bits : IsBest(b) /\ Interrupt(Level[b], b) /\ Acknowledge(b)
       \/ /\ \A b \in Bits : IsBest(b) => ~Accepts(Level[b])
          /\ UNCHANGED <<scu, cpu>>
    /\ phase' = "cpu"
    /\ happened' = {}

Next ==
    \/ RunAsleep
    \/ EnterBlock
    \/ WriteRegister
    \/ LeaveBlock
    \/ Fault
    \/ RaiseEvent
    \/ EndOfEvents
    \/ Transfer
    \/ EndOfTransfers
    \/ Deliver

Spec == Init /\ [][Next]_vars

\* The main loop calls step again and again; a block has finitely many
\* instructions and advance finitely many events.
Proceed == RunAsleep \/ EnterBlock \/ LeaveBlock \/ EndOfEvents \/ Transfer
              \/ EndOfTransfers \/ Deliver

FairSpec == Spec /\ WF_vars(Proceed)

-----------------------------------------------------------------------------
(* Properties. *)

TypeOK ==
    /\ ScuType
    /\ CpuType(Bits \cup {Trap})
    /\ phase \in {"cpu", "block", "events", "dma", "deliver", "fault"}
    /\ happened \subseteq Bits

\* armed, which starts transfers, and the enable bit of DxEN, which programs
\* read, say the same; three places write them.
ArmedIsEnabled == \A c \in Channels : ch[c].armed <=> "enable" \in ch[c].en

\* Although a step offers one interrupt only, no interrupt that the CPU would
\* take is left when the next block starts; so a CPU asleep misses none.
NothingDeliverable == phase = "cpu" => \A b \in ist \ ims : Level[b] <= imask

\* Handlers nest by rising level, under masks that shut out the outer ones, so
\* no interrupt comes in on top of its own handler or of a more urgent one.
NestingRises ==
    Disciplined =>
        \A i \in DOMAIN frames :
            frames[i].vector # Trap =>
                /\ frames[i].mask < Level[frames[i].vector]
                /\ Level[frames[i].vector] <= imask
                /\ \A j \in i + 1 .. Len(frames) :
                      Level[frames[i].vector] <= frames[j].mask

\* A transfer that is about to run belongs to a channel that is still armed,
\* and runs once for each time the channel was armed.
ReadyAreArmed ==
    Disciplined =>
        /\ \A i \in DOMAIN ready : ch[ready[i]].armed
        /\ \A i, j \in DOMAIN ready : ready[i] = ready[j] => i = j

\* A transfer that was started runs, disarms its channel and reports its end,
\* unless the emulation stops.
StartedTransfersReport ==
    \A c \in Channels :
        c \in Started ~> \/ ~ch[c].armed /\ EndBit[c] \in ist
                         \/ phase = "fault"

=============================================================================
