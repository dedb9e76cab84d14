------------------------------ MODULE VideoClock ------------------------------
(***************************************************************************)
(* The video clock on its own, driven by blocks of arbitrary length, with  *)
(* the total number of cycles it was given as a history variable.  The     *)
(* reference is the timeline of a television: which event stands at which  *)
(* absolute cycle, whatever the batches in which the cycles arrive.        *)
(***************************************************************************)
EXTENDS VideoTiming, FiniteSets

CONSTANT MaxClock   \* bound on the cycles explored

ASSUME MaxClock \in Nat

VARIABLES
    clock,   \* cycles handed over so far
    start,   \* the clock before the call in progress or the last one
    laps     \* how often the frame counter has wrapped

clockVars == <<timing, clock, start, laps>>

Init ==
    /\ TimingInit
    /\ clock = 0
    /\ start = 0
    /\ laps = 0

Advance(cycles) ==
    /\ clock < MaxClock
    /\ Enter(cycles)
    /\ start' = clock
    /\ clock' = clock + cycles
    /\ UNCHANGED laps

\* The frame counter wraps with this pass.
Wraps == line + 1 = LinesPerFrame /\ frame + 1 = FrameWidth

Pass ==
    /\ \/ LastPass /\ UNCHANGED laps
       \/ LinePass /\ laps' = IF Wraps THEN laps + 1 ELSE laps
    /\ UNCHANGED <<clock, start>>

Next == Pass \/ \E cycles \in BlockCycles : Advance(cycles)

Spec == Init /\ [][Next]_clockVars

-----------------------------------------------------------------------------
(* The reference: events by absolute time. *)

LineAt(t)  == (t \div CyclesPerLine) % LinesPerFrame
FrameAt(t) == ((t \div CyclesPerLine) \div LinesPerFrame) % FrameWidth

EventsAt(t) ==
    IF t % CyclesPerLine = HBlankStart /\ LineAt(t) < ActiveLines
    THEN <<Event("HBlankIn", LineAt(t))>>
    ELSE IF t % CyclesPerLine = 0
    THEN (IF LineAt(t) = ActiveLines THEN <<Event("VBlankIn", 0)>> ELSE <<>>)
         \o (IF LineAt(t) = 0 THEN <<Event("VBlankOut", 0)>> ELSE <<>>)
         \o <<Event("LineStart", LineAt(t))>>
    ELSE <<>>

\* The events after cycle "from" up to cycle "to", as pairs of a cycle and a
\* place among the events of that cycle, of which there are three at most.
Marks(from, to) ==
    {m \in (from + 1 .. to) \X (1 .. 3) : m[2] <= Len(EventsAt(m[1]))}

Count(from, to) == Cardinality(Marks(from, to))

\* The sequence holds these events and no others, in their order.
IsTimeline(s, from, to) ==
    /\ Len(s) = Count(from, to)
    /\ \A t \in from + 1 .. to : \A j \in 1 .. Len(EventsAt(t)) :
          s[Count(from, t - 1) + j] = EventsAt(t)[j]

-----------------------------------------------------------------------------
(* Properties. *)

\* inLine exceeds a line only inside the loop, by what the block brought.
TypeOK ==
    /\ line \in 0 .. LinesPerFrame - 1
    /\ frame \in 0 .. FrameWidth - 1
    /\ inLine \in Nat
    /\ hblankSent \in BOOLEAN
    /\ looping \in BOOLEAN
    /\ clock \in Nat
    /\ start \in Nat
    /\ laps \in Nat

\* No cycle is lost or counted twice, not even while lines are being crossed.
CyclesAreConserved ==
    clock = ((laps * FrameWidth + frame) * LinesPerFrame + line) * CyclesPerLine + inLine

\* Between two calls the HBlank of the line was announced exactly when the line
\* is past its active part, so it is neither skipped nor repeated.
HBlankFlagIsExact ==
    /\ ~looping => inLine < CyclesPerLine /\ (hblankSent <=> inLine >= HBlankStart)
    /\ hblankSent => inLine >= HBlankStart

\* Every call emits the events of its stretch of the timeline, in their order,
\* however long the stretch is: batching the cycles changes nothing.
EmitsTheTimeline == ~looping => IsTimeline(out, start, clock)

\* Where the clock stands between two calls depends on the total alone.
PositionFollowsClock ==
    ~looping => /\ line = LineAt(clock)
                /\ frame = FrameAt(clock)
                /\ inLine = clock % CyclesPerLine

=============================================================================
