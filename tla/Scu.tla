--------------------------------- MODULE Scu ---------------------------------
(***************************************************************************)
(* devices/scu.rs: the interrupt controller and the DMA starter of the SCU.*)
(* This module is the device's state and its operations; Interrupts and    *)
(* Machine call them.  What a transfer copies is not part of it, only that *)
(* it runs, what it leaves in its channel and what it raises.              *)
(*                                                                         *)
(* A DMA factor that is also an interrupt source is named by that source's *)
(* bit: VBlank-in, VBlank-out, HBlank-in and the end of drawing.           *)
(***************************************************************************)
EXTENDS Integers, Sequences

CONSTANTS
    Bits,         \* the bits of IST anything in the machine raises
    Level,        \* LEVELS: the SH-2 level of each bit
    EventBits,    \* the bits that are also DMA factors
    Channels,     \* DMA channels, among 0, 1 and 2
    EndBit,       \* the bit that tells the end of a channel's transfer
    Software,     \* DMA_FACTOR_SOFTWARE
    ResetFactor   \* the factor of a cleared DxMD

ASSUME ScuAssumption ==
    /\ Bits \subseteq 0 .. 15
    /\ Level \in [Bits -> 0 .. 15]
    /\ EventBits \subseteq Bits
    /\ Channels \subseteq 0 .. 2
    /\ EndBit \in [Channels -> Bits]
    /\ \A c \in Channels : EndBit[c] \notin EventBits
    /\ Software \notin EventBits
    /\ ResetFactor \in EventBits \cup {Software}

VARIABLES
    ist,    \* Scu.ist, the interrupts that are pending
    ims,    \* Scu.ims, the interrupts that are masked
    ch,     \* Scu.ch, the DMA channels
    ready   \* Scu.ready, the transfers to run when the block is over

scu == <<ist, ims, ch, ready>>

Factors == EventBits \cup {Software}

\* The bits 0x101 of DxEN, the armed flag beside it, and DxMD bits 2-0.
Channel == [en : SUBSET {"enable", "go"}, armed : BOOLEAN, factor : Factors]

ScuType ==
    /\ ist \subseteq Bits
    /\ ims \subseteq Bits
    /\ ch \in [Channels -> Channel]
    /\ ready \in Seq(Channels)

ScuInit ==
    /\ ist = {}
    /\ ims = Bits
    /\ ch = [c \in Channels |-> [en |-> {}, armed |-> FALSE, factor |-> ResetFactor]]
    /\ ready = <<>>

-----------------------------------------------------------------------------
(* The registers.  A byte or word access reads the register first, so it   *)
(* amounts to a long access of some value.                                 *)

WriteIms(s) == ims' = s /\ UNCHANGED <<ist, ch, ready>>

\* A zero clears the bit.
WriteIst(s) == ist' = ist \cap s /\ UNCHANGED <<ims, ch, ready>>

WriteMode(c, f) ==
    /\ ch' = [ch EXCEPT ![c].factor = f]
    /\ UNCHANGED <<ist, ims, ready>>

WriteEnable(c, en) ==
    /\ ch' = [ch EXCEPT ![c].en = en, ![c].armed = "enable" \in en]
    /\ ready' = IF en = {"enable", "go"} /\ ch[c].factor = Software
                THEN Append(ready, c) ELSE ready
    /\ UNCHANGED <<ist, ims>>

\* The channels whose transfers wait for the end of the block.
Started == {ready[i] : i \in DOMAIN ready}

-----------------------------------------------------------------------------
(* Events. *)

\* raise, for a source that starts no DMA.
Raise(b) == ist' = ist \cup {b} /\ UNCHANGED <<ims, ch, ready>>

\* Mutants: a factor starts a channel that is not armed, or any channel that is.
IfFactor(c, f) == IF c \in Channels /\ ch[c].factor = f THEN <<c>> ELSE <<>>
IfArmed(c, f) == IF c \in Channels /\ ch[c].armed THEN <<c>> ELSE <<>>

IfWaiting(c, f) ==
    IF c \in Channels /\ ch[c].armed /\ ch[c].factor = f THEN <<c>> ELSE <<>>

\* trigger_factor: its loop over the three channels.
Triggered(f) == IfWaiting(0, f) \o IfWaiting(1, f) \o IfWaiting(2, f)

\* raise and trigger_factor together.
Happen(b) ==
    /\ ist' = ist \cup {b}
    /\ ready' = ready \o Triggered(b)
    /\ UNCHANGED <<ims, ch>>

\* Mutant: the end of the transfer raises nothing.
RunDmaSilently ==
    /\ ready # <<>>
    /\ LET c == Head(ready)
       IN  ch' = [ch EXCEPT ![c].armed = FALSE, ![c].en = @ \ {"enable"}]
    /\ ready' = Tail(ready)
    /\ UNCHANGED <<ims, ist>>

\* run_dma of the first channel taken from ready.
RunDma ==
    /\ ready # <<>>
    /\ LET c == Head(ready)
       IN  /\ ch' = [ch EXCEPT ![c].armed = FALSE, ![c].en = @ \ {"enable"}]
           /\ ist' = ist \cup {EndBit[c]}
    /\ ready' = Tail(ready)
    /\ UNCHANGED ims

-----------------------------------------------------------------------------
(* The interrupt the SCU offers to the CPU. *)

\* Mutant: the scan of the bits begins at 1.
ActiveFromOne == {b \in ist \ ims : Level[b] > 0 /\ b >= 1}

Active == {b \in ist \ ims : Level[b] > 0}

\* Mutant: the lowest level first.
IsWorst(b) ==
    /\ b \in Active
    /\ \A o \in Active : Level[o] > Level[b] \/ (Level[o] = Level[b] /\ b <= o)

\* pending_irq: the highest level, the lowest bit among equals.
IsBest(b) ==
    /\ b \in Active
    /\ \A o \in Active : Level[o] < Level[b] \/ (Level[o] = Level[b] /\ b <= o)

Acknowledge(b) == ist' = ist \ {b} /\ UNCHANGED <<ims, ch, ready>>

=============================================================================
