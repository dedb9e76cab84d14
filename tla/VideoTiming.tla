----------------------------- MODULE VideoTiming -----------------------------
(***************************************************************************)
(* timing.rs: the video clock.  It turns the cycles the CPU has executed   *)
(* into the events that move the VDP2 and the SCU.  The caller hands over  *)
(* the cycles of one block; advance loops until the current line is not    *)
(* over and appends the events of the lines it crossed.                    *)
(***************************************************************************)
EXTENDS Integers, Sequences

CONSTANTS
    CyclesPerLine,   \* CYCLES_PER_LINE, 1820
    LinesPerFrame,   \* LINES_PER_FRAME, 263
    ActiveLines,     \* ACTIVE_LINES, 224
    HBlankStart,     \* HBLANK_START, 1500
    BlockCycles,     \* what one call of advance may bring
    FrameWidth       \* the frame counter is an u32: 2^32 on the machine

ASSUME TimingAssumption ==
    /\ CyclesPerLine \in Nat \ {0}
    /\ LinesPerFrame \in Nat \ {0}
    /\ ActiveLines \in 1 .. LinesPerFrame - 1
    /\ HBlankStart \in 1 .. CyclesPerLine - 1
    /\ BlockCycles \subseteq Nat
    /\ FrameWidth \in Nat \ {0}

VARIABLES
    line,        \* VideoTiming.line
    frame,       \* VideoTiming.frame
    inLine,      \* VideoTiming.in_line
    hblankSent,  \* VideoTiming.hblank_sent
    out,         \* the events of the call in progress or of the last one
    looping      \* inside the loop of advance

timing == <<line, frame, inLine, hblankSent, out, looping>>

Event(kind, l) == [kind |-> kind, line |-> l]

\* The VideoEvent enumeration.
VideoEvents ==
    {Event(k, l) : k \in {"HBlankIn", "LineStart"}, l \in 0 .. LinesPerFrame - 1}
        \cup {Event(k, 0) : k \in {"VBlankIn", "VBlankOut"}}

TimingInit ==
    /\ line = 0
    /\ frame = 0
    /\ inLine = 0
    /\ hblankSent = FALSE
    /\ out = <<>>
    /\ looping = FALSE

\* Mutant: the rest of the line before is forgotten.
EnterAnew(cycles) ==
    /\ ~looping
    /\ inLine' = cycles
    /\ out' = <<>>
    /\ looping' = TRUE
    /\ UNCHANGED <<line, frame, hblankSent>>

\* Entry of advance; the caller has drained the events of the previous call.
Enter(cycles) ==
    /\ ~looping
    /\ inLine' = inLine + cycles
    /\ out' = <<>>
    /\ looping' = TRUE
    /\ UNCHANGED <<line, frame, hblankSent>>

\* The HBlank of this line starts in this pass of the loop.
HBlankNow == ~hblankSent /\ inLine >= HBlankStart

\* Mutant: an HBlank event for the lines of the VBlank too.
HBlankOfAnyLine == IF HBlankNow THEN <<Event("HBlankIn", line)>> ELSE <<>>

HBlankEvents ==
    IF HBlankNow /\ line < ActiveLines THEN <<Event("HBlankIn", line)>> ELSE <<>>

\* The pass that finds the line still running, and leaves the loop.
LastPass ==
    /\ looping
    /\ inLine < CyclesPerLine
    /\ hblankSent' = (hblankSent \/ HBlankNow)
    /\ out' = out \o HBlankEvents
    /\ looping' = FALSE
    /\ UNCHANGED <<line, frame, inLine>>

NextLine  == IF line + 1 = LinesPerFrame THEN 0 ELSE line + 1
NextFrame == IF frame + 1 = FrameWidth THEN 0 ELSE frame + 1

\* Mutant: VBlank-in at every line of the VBlank.
LineEventsRepeated ==
    (IF line + 1 >= ActiveLines THEN <<Event("VBlankIn", 0)>> ELSE <<>>)
    \o (IF line + 1 = LinesPerFrame THEN <<Event("VBlankOut", 0)>> ELSE <<>>)
    \o <<Event("LineStart", NextLine)>>

\* What finishing a line emits.
LineEvents ==
    (IF line + 1 = ActiveLines THEN <<Event("VBlankIn", 0)>> ELSE <<>>)
    \o (IF line + 1 = LinesPerFrame THEN <<Event("VBlankOut", 0)>> ELSE <<>>)
    \o <<Event("LineStart", NextLine)>>

\* Mutant: the excess over the line is dropped.
LinePassFromZero ==
    /\ looping
    /\ inLine >= CyclesPerLine
    /\ inLine' = 0
    /\ hblankSent' = FALSE
    /\ line' = NextLine
    /\ frame' = IF line + 1 = LinesPerFrame THEN NextFrame ELSE frame
    /\ out' = out \o HBlankEvents \o LineEvents
    /\ UNCHANGED looping

\* A pass that finishes a line.
LinePass ==
    /\ looping
    /\ inLine >= CyclesPerLine
    /\ inLine' = inLine - CyclesPerLine
    /\ hblankSent' = FALSE
    /\ line' = NextLine
    /\ frame' = IF line + 1 = LinesPerFrame THEN NextFrame ELSE frame
    /\ out' = out \o HBlankEvents \o LineEvents
    /\ UNCHANGED looping

=============================================================================
