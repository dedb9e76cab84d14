------------------------------- MODULE Scsp ---------------------------------
(***************************************************************************)
(* The SCSP: its timers and the interrupts they raise to the sound 68000,  *)
(* and its slots. The two halves share no state: a sample ticks the timers *)
(* and moves every slot, and the driver writes the registers of either.    *)
(***************************************************************************)
EXTENDS Integers, Sequences, FiniteSetsExt

CONSTANTS
    Timers,        \* bits of SCIPD that are timers
    SampleBit,     \* bit of SCIPD that is set by every sample
    SharedBit,     \* bit 7, whose level the bits above it share
    Tick, Top,     \* a tick is Tick >> prescaler, the count wraps at Top * Tick
    Prescalers,
    LevelMaps,     \* levels that SCILV0-2 may be given
    EnableMasks,   \* values written to SCIEB
    BatchSamples,  \* samples that a batch may be worth
    Slots,
    One,        \* 1.0 of the read position's fixed point
    PitchSteps,  \* what a sample may add to the position
    LoopStarts,  \* values of LSA
    LoopEnds,    \* values of LEA
    LoopModes,   \* values of LPCTL
    Hold,        \* EG_HOLD_SAMPLES
    FullGain     \* steps of the envelope's decay

VARIABLES
    scipd, scieb,  \* pending and enabled sources
    level,         \* SCILV0-2, as a level for each bit up to SharedBit
    count,         \* timer_count
    prescaler,
    batch,         \* the 68000's batch: "none", "begun", or with something "run"
    line,          \* set_irq: the level the core was given
    imask,         \* interrupt mask of the 68000
    handlers,      \* masks saved on the 68000's stack
    owed,          \* samples of the last batch that are still to be generated
    loaded, since, \* history: the value last written to a timer, and the samples
                   \* since, modulo the period once that is over
    regs,   \* KYONB, LPCTL, LSA, LEA and the pitch of every slot
    slot    \* the playback state

-----------------------------------------------------------------------------
(***************************************************************************)
(* The timers. SoundCpu::advance gives the core the level of the interrupt *)
(* once, when a batch begins; during the batch the driver acknowledges and *)
(* reprograms the timers, and only when the batch is over does             *)
(* Scsp::generate tick them. The driver is the guest's program and the     *)
(* core a library, so both do whatever a 68000 may do.                     *)
(***************************************************************************)

TimersAssumption ==
    /\ SharedBit \in Timers
    /\ SampleBit > SharedBit /\ SampleBit \notin Timers
    /\ Top \in Nat \ {0} /\ Tick \in Nat
    \* A sample adds something, and ticks are whole samples.
    /\ Prescalers \subseteq Nat /\ 0 \in Prescalers
    /\ \A p \in Prescalers : 2 ^ p \in 1 .. Tick /\ Tick % 2 ^ p = 0
    /\ BatchSamples \subseteq Nat

Sources == Timers \cup {SampleBit}

countVars == <<count, prescaler, loaded, since>>

coreVars == <<batch, line, imask, handlers>>

timersVars == <<scipd, scieb, level, countVars, coreVars, owed>>

-----------------------------------------------------------------------------
\* A source above SharedBit is treated as if it were SharedBit.
LevelBit(s) == IF s > SharedBit THEN SharedBit ELSE s

Active == {LevelBit(s) : s \in scipd \cap scieb}

IrqLevel == Max({0} \cup {level[b] : b \in Active})

\* tick_timers, for n samples: a count that has reached Top * Tick wraps.
TickedCount(t) == count[t] + Tick \div (2 ^ prescaler[t])

Fires(t) == TickedCount(t) >= Top * Tick

Period(t) == Top * 2 ^ prescaler[t]

\* Mutant: a wrap starts from zero instead of from what is over.
TickTimersFromZero ==
    /\ count' = [t \in Timers |-> IF Fires(t) THEN 0 ELSE TickedCount(t)]
    /\ scipd' = scipd \cup {SampleBit} \cup {t \in Timers : Fires(t)}

TickTimers ==
    /\ count' = [t \in Timers |->
                    IF Fires(t) THEN TickedCount(t) - Top * Tick ELSE TickedCount(t)]
    /\ scipd' = scipd \cup {SampleBit} \cup {t \in Timers : Fires(t)}

-----------------------------------------------------------------------------
TimersInit ==
    /\ scipd = {} /\ scieb \in EnableMasks /\ level \in LevelMaps
    /\ count = [t \in Timers |-> 0]
    /\ prescaler = [t \in Timers |-> 0]
    /\ batch = "none" /\ line = 0 /\ imask = 0 /\ handlers = <<>>
    /\ loaded = [t \in Timers |-> 0]
    /\ since = [t \in Timers |-> 0]
    /\ owed = 0

\* advance: the core gets the level and runs.
StartBatch ==
    /\ batch = "none" /\ owed = 0
    /\ batch' = "begun"
    /\ line' = IrqLevel
    /\ UNCHANGED <<scipd, scieb, level, countVars, imask, handlers, owed>>

\* Between two instructions the core takes an interrupt above its mask, before
\* it runs anything else.
Deliverable == line > imask

Execute == batch # "none" /\ batch' = "run"

TakeInterrupt ==
    /\ Execute /\ Deliverable
    /\ handlers' = <<imask>> \o handlers
    /\ imask' = line
    /\ UNCHANGED <<scipd, scieb, level, countVars, line, owed>>

Return ==
    /\ Execute /\ ~Deliverable /\ handlers # <<>>
    /\ imask' = handlers[1]
    /\ handlers' = Tail(handlers)
    /\ UNCHANGED <<scipd, scieb, level, countVars, line, owed>>

\* A word written to SCIRE; the line of the core stays as it is.
Acknowledge(bits) ==
    /\ Execute /\ ~Deliverable
    /\ scipd' = scipd \ bits
    /\ UNCHANGED <<scieb, level, countVars, line, imask, handlers, owed>>

\* A word written to TIMA, TIMB or TIMC loads the count and the prescaler.
LoadTimer(t, v, p) ==
    /\ Execute /\ ~Deliverable
    /\ count' = [count EXCEPT ![t] = v * Tick]
    /\ prescaler' = [prescaler EXCEPT ![t] = p]
    /\ loaded' = [loaded EXCEPT ![t] = v]
    /\ since' = [since EXCEPT ![t] = 0]
    /\ UNCHANGED <<scipd, scieb, level, line, imask, handlers, owed>>

WriteEnable(mask) ==
    /\ Execute /\ ~Deliverable
    /\ scieb' = mask
    /\ UNCHANGED <<scipd, level, countVars, line, imask, handlers, owed>>

EndBatch ==
    /\ batch = "run" \/ (batch = "begun" /\ ~Deliverable)
    /\ batch' = "none"
    /\ \E n \in BatchSamples : owed' = n
    /\ UNCHANGED <<scipd, scieb, level, countVars, line, imask, handlers>>

SampleTimers ==
    /\ batch = "none" /\ owed > 0
    /\ TickTimers
    /\ since' = [t \in Timers |-> IF since[t] = Period(t) THEN 1 ELSE since[t] + 1]
    /\ owed' = owed - 1
    /\ UNCHANGED <<scieb, level, prescaler, loaded, coreVars>>

Driver ==
    \/ \E bits \in SUBSET Sources \ {{}} : Acknowledge(bits)
    \/ \E t \in Timers, v \in 0 .. Top, p \in Prescalers : LoadTimer(t, v, p)
    \/ \E mask \in EnableMasks : WriteEnable(mask)

TimersNext == StartBatch \/ TakeInterrupt \/ Return \/ Driver \/ EndBatch \/ SampleTimers

-----------------------------------------------------------------------------
TypeOK ==
    /\ scipd \subseteq Sources /\ scieb \subseteq Sources
    /\ count \in [Timers -> 0 .. Top * Tick]
    /\ prescaler \in [Timers -> Prescalers]
    /\ batch \in {"none", "begun", "run"}
    /\ owed \in Nat
    /\ line \in 0 .. 7 /\ imask \in 0 .. 7
    /\ handlers \in Seq(0 .. 7)

\* How often a timer has wrapped by n samples after a load.
Wraps(t, n) ==
    IF n = 0 THEN 0
    ELSE (loaded[t] * Tick + n * (Tick \div 2 ^ prescaler[t])) \div (Top * Tick)

\* A timer fires (Top - value) << prescaler samples after a load and then every
\* Top << prescaler samples (scsp.rs:88), without drift; one that is loaded with
\* Top is late by a sample, once.
TimersKeepTime ==
    owed' = owed - 1 =>
        \A t \in Timers :
            t \in scipd' <=> t \in scipd \/ Wraps(t, since[t] + 1) > Wraps(t, since[t])

Waits(s) == s \in scipd \cap scieb /\ level[LevelBit(s)] > 0

IsServed(s) == s \notin scipd \cap scieb \/ imask >= level[LevelBit(s)]

-----------------------------------------------------------------------------
(***************************************************************************)
(* The slots: keys, read position, loop, envelope. KYONB is only a         *)
(* register bit until KYONEX is written to any slot, and a slot takes its  *)
(* addresses when it starts; pitch is read at every sample. Amplitudes,    *)
(* pans and mixing are left out.                                           *)
(***************************************************************************)

SlotAssumption ==
    /\ One \in Nat \ {0} /\ PitchSteps \subseteq Nat
    /\ LoopStarts \subseteq Nat /\ LoopEnds \subseteq Nat /\ LoopModes \subseteq Nat
    /\ Hold \in Nat /\ FullGain \in Nat

Registers == [kyonb : BOOLEAN, loop : LoopModes, lsa : LoopStarts, lea : LoopEnds,
              pitch : PitchSteps]

Silent == [active |-> FALSE, pos |-> 0, loop |-> 0, lsa |-> 0, lea |-> 0,
           gain |-> 0, age |-> 0]

SlotsInit ==
    /\ regs \in [Slots -> {r \in Registers : ~r.kyonb}]
    /\ slot = [i \in Slots |-> Silent]

-----------------------------------------------------------------------------
StartSlot(r) ==
    [active |-> TRUE, pos |-> 0, loop |-> r.loop, lsa |-> r.lsa, lea |-> r.lea,
     gain |-> FullGain, age |-> 0]

ApplyKey(s, r) ==
    IF r.kyonb /\ ~s.active THEN StartSlot(r)
    ELSE IF r.kyonb THEN s
    ELSE [s EXCEPT !.active = FALSE]

ApplyKeys(r) == [i \in Slots |-> ApplyKey(slot[i], r[i])]

\* The control word of a slot, with KYONEX or without.
WriteControl(i, on, loop, execute) ==
    LET r == [regs EXCEPT ![i].kyonb = on, ![i].loop = loop]
    IN  /\ regs' = r
        /\ slot' = IF execute THEN ApplyKeys(r) ELSE slot

WriteAddresses(i, lsa, lea) ==
    /\ regs' = [regs EXCEPT ![i].lsa = lsa, ![i].lea = lea]
    /\ UNCHANGED slot

WritePitch(i, step) ==
    /\ regs' = [regs EXCEPT ![i].pitch = step]
    /\ UNCHANGED slot

-----------------------------------------------------------------------------
End(s) == IF s.lea < 1 THEN 1 ELSE s.lea

Over(s) == s.pos \div One >= End(s)

\* At the end a slot stops, or goes to the loop start and forgets the overshoot.
Wrapped(s) ==
    IF ~Over(s) THEN s
    ELSE IF s.loop = 0 THEN [s EXCEPT !.active = FALSE]
    ELSE [s EXCEPT !.pos = s.lsa * One]

\* The envelope holds, then falls to silence.  The age is of no account after that.
Decayed(s) ==
    IF s.age = Hold
    THEN [s EXCEPT !.gain = IF s.gain > 0 THEN s.gain - 1 ELSE 0]
    ELSE [s EXCEPT !.age = s.age + 1]

SampleSlots ==
    /\ slot' = [i \in Slots |->
                   IF slot[i].active
                   THEN Decayed(Wrapped([slot[i] EXCEPT !.pos = @ + regs[i].pitch]))
                   ELSE slot[i]]
    /\ UNCHANGED regs

SlotsNext ==
    \/ \E i \in Slots, on \in BOOLEAN, loop \in LoopModes, execute \in BOOLEAN :
           WriteControl(i, on, loop, execute)
    \/ \E i \in Slots, lsa \in LoopStarts, lea \in LoopEnds : WriteAddresses(i, lsa, lea)
    \/ \E i \in Slots, step \in PitchSteps : WritePitch(i, step)
    \/ SampleSlots

-----------------------------------------------------------------------------
\* A slot that plays reads inside the sample it was started with, or at its loop
\* start, however the driver rewrites addresses and pitch while it plays.
PlaysItsSample ==
    \A i \in Slots :
        slot[i].active =>
            \/ slot[i].pos \div One < End(slot[i])
            \/ slot[i].loop # 0 /\ slot[i].pos = slot[i].lsa * One

\* KYONEX makes every slot obey its own KYONB at once (scsp.rs:195), a note that
\* plays is not started again, and no note starts otherwise.
KeysActTogether ==
    \A i \in Slots :
     /\ slot[i].active /\ slot'[i].active => slot'[i].age >= slot[i].age
     /\ ~slot[i].active /\ slot'[i].active =>
            \A j \in Slots : slot'[j].active <=> regs'[j].kyonb

=============================================================================
