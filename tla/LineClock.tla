----------------------------- MODULE LineClock ------------------------------
(***************************************************************************)
(* How the first emulator turns the master SH-2's cycles into video lines, *)
(* the SCU's two timers and the delay of SMPC commands (archived sh2.rs,   *)
(* step, and scu.rs). The cycle counter is the program's own, and can be   *)
(* moved: after a wait for the bus it is set to the slowest core's, and a  *)
(* system reset zeroes it. step takes the difference as a u32.             *)
(***************************************************************************)
EXTENDS Integers, FiniteSets

CONSTANTS
    Wrap,          \* 2^32: the difference of the counter is taken modulo this
    TimerBatch,    \* SCU_TIMER_BATCH_CYCLES
    Rates,         \* cycles_per_line under the two clocks; the first is the greater
    LinesPerFrame, \* 263
    BlankLine,     \* 225
    CommandLine,   \* 207
    MatchLine,     \* T0C
    Costs,         \* cycles of an instruction
    CatchUps,      \* how far a wait for the bus moves the counter
    Uptimes,       \* what the counter holds when the system is reset
    Delays,        \* delays of SMPC commands, in cycles
    Presets,       \* values the program writes to T1S
    Modes,         \* values it writes to T1MD
    Capped         \* the histories stop counting here

VARIABLES
    pendingTimer,  \* pending_scu_timer_cycles
    pendingLine,   \* pending_line_cycles
    cyclesPerLine,
    timers,        \* ScuTimers: line (timer0), matched (timer0_set), counter, armed, preset
    mode,          \* T1MD: bit 0, and bit 7
    vblank,        \* vblank_active
    snapshots,     \* the lines of vdp2_lines captured since V-blank OUT
    wait,          \* smpc_target_cycles less cycles: one number, or none
    waitLine,      \* smpc_wait_for_line
    out,           \* history: what the last step raised
    spent,         \* history: the cycles its instruction took
    age            \* history: cycles since V-blank OUT, Timer 1's reload, the command

MaxOf(S) == CHOOSE x \in S : \A y \in S : y <= x

LineClockAssumption ==
    /\ Wrap \in Nat /\ TimerBatch \in 1 .. Wrap /\ Capped \in Nat
    /\ Rates \subseteq Nat \ {0} /\ IsFiniteSet(Rates) /\ Rates # {}
    /\ \A r \in Rates : TimerBatch + r <= Wrap /\ r + r <= Wrap
    /\ 0 < CommandLine /\ CommandLine < BlankLine /\ BlankLine < LinesPerFrame
    /\ {CommandLine, BlankLine, LinesPerFrame, MatchLine} \subseteq Nat
    /\ Costs \subseteq 1 .. MaxOf(Rates) /\ Costs # {} /\ CatchUps \subseteq Int
    /\ Uptimes \subseteq Nat /\ Delays \subseteq Nat /\ Presets \subseteq Nat
    /\ Modes \subseteq [enabled : BOOLEAN, onMatch : BOOLEAN]

state == <<pendingTimer, pendingLine, cyclesPerLine, timers, mode, vblank, snapshots, wait, waitLine>>

vars == <<state, out, spent, age>>

NoWait == {}

Init ==
    /\ pendingTimer = 0 /\ pendingLine = 0
    /\ cyclesPerLine = MaxOf(Rates)
    /\ timers = [line |-> 0, matched |-> FALSE, counter |-> 0, armed |-> FALSE, preset |-> 0]
    /\ mode = [enabled |-> FALSE, onMatch |-> FALSE]
    /\ vblank = FALSE
    /\ snapshots = {}
    /\ wait = NoWait /\ waitLine = FALSE
    /\ out = {} /\ spent = 0
    /\ age = [frame |-> 0, timer |-> 0, loaded |-> 0, command |-> 0, delay |-> 0]

-----------------------------------------------------------------------------
\* timer1_tick of n cycles: an expired counter stays, and is armed for a reload.
Counts == mode.enabled /\ timers.counter > 0

Ticked(n) ==
    IF ~Counts THEN timers
    ELSE LET c == timers.counter - n \div 4
         IN [timers EXCEPT !.counter = c, !.armed = @ \/ c <= 0]

Expires(n) == Counts /\ Ticked(n).counter <= 0 /\ (mode.onMatch => timers.matched)

\* tick_timer0_and_arm_timer1, with the registers of Timer 0 and T1MD.
AfterHBlank(t) ==
    LET next == [t EXCEPT !.line = @ + 1]
    IN IF ~mode.enabled THEN next
       ELSE [next EXCEPT !.matched = next.line = MatchLine,
                         !.counter = IF t.armed THEN t.preset ELSE @,
                         !.armed = FALSE]

\* reset_timer0_at_vblank_out.
AfterVBlankOut(t) ==
    [t EXCEPT !.line = 0, !.matched = IF mode.enabled THEN MatchLine = 0 ELSE @]

LineEvent(line) ==
    CASE line = BlankLine -> {"vblank_in"}
      [] line = LinesPerFrame -> {"vblank_out"}
      [] line = CommandLine -> {"line207"}
      [] OTHER -> {}

\* The line whose registers are captured: V-blank OUT captures line 0.
Captured(line) == {IF line = LinesPerFrame THEN 0 ELSE line}

TimerRest(p) == IF p < TimerBatch THEN p ELSE 0

LineRest(p) == p - cyclesPerLine

\* Mutant: the command is let go when its delay has begun.
DueEarly(w) == w # NoWait

Due(w) == \E left \in w : left <= 0

Counted(n, cycles) == IF n + cycles > Capped THEN Capped ELSE n + cycles

\* The end of a step that moved the counter by "moved": Timer 1, then the line, then
\* the command.
Account(moved, cost, timerBefore, lineBefore) ==
    LET delta == moved % Wrap
        forTimer == (timerBefore + delta) % Wrap
        forLine == (lineBefore + delta) % Wrap
        ticks == forTimer >= TimerBatch
        ticked == IF ticks THEN Ticked(forTimer) ELSE timers
        newLine == forLine >= cyclesPerLine
        blanked == AfterHBlank(ticked)
        event == IF newLine THEN LineEvent(blanked.line) ELSE {}
        left == {w - moved : w \in wait}
    IN /\ pendingTimer' = TimerRest(forTimer)
       /\ pendingLine' = IF newLine THEN LineRest(forLine) ELSE forLine
       /\ timers' = IF ~newLine THEN ticked
                    ELSE IF "vblank_out" \in event THEN AfterVBlankOut(blanked)
                    ELSE blanked
       /\ vblank' = IF "vblank_in" \in event THEN TRUE
                    ELSE IF "vblank_out" \in event THEN FALSE ELSE vblank
       /\ snapshots' = IF ~newLine THEN snapshots
                       ELSE (IF "vblank_out" \in event THEN {} ELSE snapshots)
                            \cup Captured(blanked.line)
       /\ waitLine' = IF "line207" \in event THEN FALSE ELSE waitLine
       /\ wait' = IF Due(left) THEN NoWait ELSE left
       /\ out' = event
              \cup (IF ticks /\ Expires(forTimer) THEN {"timer1"} ELSE {})
              \cup (IF Due(left) THEN {"command"} ELSE {})
       /\ spent' = cost
       /\ age' =
           [frame |-> IF "vblank_out" \in event THEN 0 ELSE Counted(age.frame, cost),
            timer |-> IF newLine /\ mode.enabled /\ ticked.armed THEN 0
                      ELSE Counted(age.timer, cost),
            loaded |-> IF newLine /\ mode.enabled /\ ticked.armed THEN ticked.preset
                       ELSE age.loaded,
            command |-> IF Due(left) \/ wait = NoWait THEN 0 ELSE Counted(age.command, cost),
            delay |-> IF Due(left) THEN 0 ELSE age.delay]
    /\ UNCHANGED <<cyclesPerLine, mode>>

Step(cost) == Account(cost, cost, pendingTimer, pendingLine)

\* The instruction waits for the bus while the DMA has it, and goes on with the
\* counter of the slowest core.
CaughtUp(cost, jump) == Account(cost + jump, cost, pendingTimer, pendingLine)

\* service_pending_interrupt resets the SH-2: the counter is 0 when the instruction
\* begins, and so are the batches.
SystemReset(cost, uptime) == Account(cost - uptime, cost, 0, 0)

ClockChange(rate) ==
    /\ cyclesPerLine' = rate
    /\ out' = {}
    /\ UNCHANGED <<pendingTimer, pendingLine, timers, mode, vblank, snapshots, wait, waitLine,
                   spent, age>>

\* The program writes T1MD and T1S, and COMREG (arm_smpc_wake).
WriteT1MD(m) ==
    /\ mode' = m
    /\ out' = {}
    /\ UNCHANGED <<pendingTimer, pendingLine, cyclesPerLine, timers, vblank, snapshots, wait,
                   waitLine, spent, age>>

WriteT1S(p) ==
    /\ timers' = [timers EXCEPT !.preset = p, !.armed = TRUE]
    /\ out' = {}
    /\ UNCHANGED <<pendingTimer, pendingLine, cyclesPerLine, mode, vblank, snapshots, wait,
                   waitLine, spent, age>>

ArmDelay(d) ==
    /\ wait' = {d} /\ waitLine' = FALSE
    /\ age' = [age EXCEPT !.command = 0, !.delay = d]
    /\ out' = {}
    /\ UNCHANGED <<pendingTimer, pendingLine, cyclesPerLine, timers, mode, vblank, snapshots, spent>>

ArmLine ==
    /\ wait' = NoWait /\ waitLine' = TRUE
    /\ age' = [age EXCEPT !.command = 0, !.delay = 0]
    /\ out' = {}
    /\ UNCHANGED <<pendingTimer, pendingLine, cyclesPerLine, timers, mode, vblank, snapshots, spent>>

Next ==
    \/ \E c \in Costs : Step(c)
    \/ \E c \in Costs, j \in CatchUps : CaughtUp(c, j)
    \/ \E c \in Costs, u \in Uptimes : SystemReset(c, u)
    \/ \E r \in Rates \ {cyclesPerLine} : ClockChange(r)
    \/ \E m \in Modes \ {mode} : WriteT1MD(m)
    \/ \E p \in Presets : WriteT1S(p)
    \/ \E d \in Delays : ArmDelay(d)
    \/ ArmLine

-----------------------------------------------------------------------------
\* However the counter jumps, when the display ends the renderer has the
\* registers of every line of this frame, line 0 captured as the blank ended
\* (advance_video_line; Core 3 is woken at V-blank IN).
EveryLineIsCaptured ==
    /\ "vblank_in" \in out => 1 .. BlankLine \subseteq snapshots
    /\ "vblank_out" \in out => snapshots = {0}

\* A frame takes its cycles, up to an instruction: the remainder of a line is
\* carried (archived sh2.rs:2418: "driven by real Master SH-2 cycles").
FrameTakesItsTime ==
    LET whole == LinesPerFrame * MaxOf(Rates)
        most == MaxOf(Costs) - 1
    IN "vblank_out" \in out' => age.frame + spent' \in whole - most .. whole + most

\* Timer 1 does not expire before its preset is over, less what was waiting in
\* the batch when it was loaded (timer1_tick, SCU_TIMER_BATCH_CYCLES).
TimerOneNotEarly ==
    ("timer1" \in out') => age.timer + spent' >= 4 * age.loaded - (TimerBatch - 1)

\* A command with a delay is let go as the delay is over: smpc_target_cycles
\* tells "exactly when the armed SMPC command delay expires" (archived sh2.rs:253).
CommandsWaitTheirDelay ==
    /\ ("command" \in out') => age.command + spent' \in age.delay .. age.delay + MaxOf(Costs)
    /\ wait' # NoWait => age'.command <= age'.delay

=============================================================================
