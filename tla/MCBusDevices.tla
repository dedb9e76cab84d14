--------------------------- MODULE MCBusDevices -----------------------------
(***************************************************************************)
(* Model checking of the devices of the live emulator that share no state  *)
(* with Interrupts or Machine: the sound CPU's clock, the SCSP, its        *)
(* effects DSP, the transfers of the SCU and the CD block. Each is a       *)
(* component of its own, so a behaviour is about one of them, named by     *)
(* part.                                                                   *)
(***************************************************************************)
EXTENDS SoundPacing, Sequences

CONSTANTS
    CdBatch, CdPeriod, CdSteps, CdMaxClock,   \* of CdBlock
    Timers, SampleBit, SharedBit, SoundTick, Top, Prescalers, LevelMaps, EnableMasks,
    BatchSamples,                             \* of Scsp, its timers
    Slots, One, PitchSteps, LoopStarts, LoopEnds, LoopModes, Hold,
    FullGain,                                 \* of Scsp, its slots
    Cells, Width, BBus, MaxCount, ListLimit, WriteAdds, Counts, Memories,
    Addresses                                 \* of ScuTransfers, its channels

VARIABLES
    part,  \* the component this behaviour is about
    scipd, scieb, level, count, prescaler, batch, line, imask, handlers,
    owed, loaded, since,
    regs, slot,
    program, rbp, rbl, ct, dsp, ram, heard, changes,
    float,
    mem, ch, stage, list, copying, src, dst, done, ended, found, before,
    prog, data, loadPc, dataAddr, dspRunning, startRequested, dspRam, asked,
    runs,
    cdCarry, acc, hirq, cmd, executed, cdClock, pulses

-----------------------------------------------------------------------------
\* Two timers against their reference, the prescaler included; two slots, whose
\* position moves by one sample or by two.  The levels are what the BIOS driver
\* sets, timer A polled and B at level 2, and both in use.
MCLevels == {[b \in {6, 7} |-> IF b = 7 THEN 2 ELSE 0], [b \in {6, 7} |-> IF b = 7 THEN 2 ELSE 1]}

Scsp == INSTANCE Scsp WITH Tick <- SoundTick

-----------------------------------------------------------------------------
Nop ==
    [tra |-> 0, twt |-> FALSE, twa |-> 0, xsel |-> FALSE, ysel |-> 0, ira |-> "hold",
     iwt |-> FALSE, table |-> FALSE, mwt |-> FALSE, mrd |-> FALSE, ewt |-> FALSE,
     adrl |-> FALSE, frcl |-> FALSE, shift0 |-> FALSE, shift1 |-> FALSE, yrl |-> FALSE,
     negb |-> FALSE, zero |-> TRUE, bsel |-> FALSE, nofl |-> FALSE, masa |-> 1,
     adreb |-> FALSE, nxadr |-> FALSE]

\* The multiplier takes the input bus and COEF, which is -1: two of them cancel.
Hear == [Nop EXCEPT !.ira = "mixs", !.xsel = TRUE, !.ysel = 1]
Recall == [Nop EXCEPT !.ira = "mems", !.xsel = TRUE, !.ysel = 1]
Play == [Nop EXCEPT !.ewt = TRUE]
Write(nofl) == [Nop EXCEPT !.mwt = TRUE, !.nofl = nofl]
Read(nofl) == [Nop EXCEPT !.mrd = TRUE, !.nofl = nofl, !.masa = 2]
Take == [Nop EXCEPT !.iwt = TRUE]

Program(steps, at, delay, moved, late) ==
    [steps |-> steps, coef |-> 2^12, madrs |-> <<0, at>>, delay |-> delay,
     moved |-> moved, late |-> late]

PlainEcho == Program(<<Hear, Write(TRUE), Read(TRUE), Nop, Take, Recall, Play>>, 1, 1, FALSE, 0)

\* A plain and a floating echo; one that writes at the end of the sample, after it
\* has read the same place; one through TEMP; one whose input moves the tap.
MCPrograms == {
    PlainEcho,
    Program(<<Hear, Write(FALSE), [Read(FALSE) EXCEPT !.nxadr = TRUE], Nop, Take, Recall, Play>>,
            0, 1, FALSE, 0),
    Program(<<Read(TRUE), Nop, Take, Recall, Play, Hear, Write(TRUE)>>, 1, 1, FALSE, 1),
    Program(<<Hear, [Nop EXCEPT !.twt = TRUE, !.twa = 1],
              [Nop EXCEPT !.tra = 2, !.ysel = 1], Play>>, 0, 1, FALSE, 0),
    Program(<<[Hear EXCEPT !.adrl = TRUE], Write(TRUE), [Read(TRUE) EXCEPT !.adreb = TRUE],
              Nop, Take, Recall, Play>>, 2, 2, TRUE, 0)
    }

MCInputs == {4656, -1376}

\* Rings of two and four words, a word apart.  One change, at any time.
Effects == INSTANCE ScspDsp WITH
    TempSize <- 2, RingUnit <- 2, Pages <- {0, 1}, Lengths <- {0, 1},
    Programs <- MCPrograms, Inputs <- MCInputs, MaxChanges <- 1

-----------------------------------------------------------------------------
Contents(f) == [a \in 0 .. 15 |-> IF a + 1 \in DOMAIN f THEN f[a + 1] ELSE 3]

NoList == Contents([a \in 1 .. 16 |-> IF a % 2 = 1 THEN 0 ELSE a % 8])

\* A list of two entries; one of three that is not marked and overwritten by its
\* own first entry; no list at all.
MCMemories ==
    {Contents(<<0, 4, 0, 1, 0, 10,  0, 6, 0, 12, 8, 8>>),
     Contents(<<0, 8, 0, 6, 0, 12,  0, 0, 1, 13, 9, 2>>),
     NoList}

\* The DSP has three words of data and four longs to copy in; "p0", "p1" is the
\* copy program.
Transfers == INSTANCE ScuTransfers WITH
    ProgSize <- 2, DataSize <- 3, Words <- {"nop", "p0", "p1"}, Nop <- "nop",
    CopyProgram <- <<"p0", "p1">>, Values <- {0, 2}, MemSize <- 4,
    RamContents <- {[a \in 0 .. 3 |-> a]}, running <- dspRunning, ram <- dspRam

Cd == INSTANCE CdBlock WITH
    Batch <- CdBatch, Period <- CdPeriod, BlockCycles <- CdSteps, MaxClock <- CdMaxClock,
    Commands <- {"c1", "c2"}, NoCommand <- "none", carry <- cdCarry, clock <- cdClock

ASSUME InstanceAssumptions ==
    /\ Scsp!TimersAssumption /\ Scsp!SlotAssumption
    /\ Effects!RingAssumption
    /\ Transfers!DmaAssumption /\ Transfers!DspAssumption
    /\ Cd!CdAssumption

-----------------------------------------------------------------------------
timersVars == <<scipd, scieb, level, count, prescaler, batch, line, imask, handlers,
                owed, loaded, since>>
slotsVars == <<regs, slot>>
effectsVars == <<program, rbp, rbl, ct, dsp, ram, heard, changes>>
floatVars == <<float>>
dmaVars == <<mem, ch, stage, list, copying, src, dst, done, ended, found, before>>
dspVars == <<prog, data, loadPc, dataAddr, dspRunning, startRequested, dspRam, asked,
             runs>>
cdVars == <<cdCarry, acc, hirq, cmd, executed, cdClock, pulses>>

\* The components a behaviour is not about stay in an initial state.
SuiteInit ==
    /\ part \in {"sound", "timers", "slots", "effects", "floats", "dma", "dsp", "cd"}
    /\ Init
    /\ \/ part = "timers" /\ Scsp!TimersInit
       \/ /\ part # "timers"
          /\ Scsp!TimersInit
          /\ level = CHOOSE l \in LevelMaps : TRUE
    /\ \/ part = "slots" /\ Scsp!SlotsInit
       \/ /\ part # "slots"
          /\ Scsp!SlotsInit
          /\ regs = [i \in Slots |-> CHOOSE r \in Scsp!Registers : ~r.kyonb]
    /\ \/ part = "effects" /\ Effects!Init
       \/ part # "effects" /\ Effects!Init /\ program = PlainEcho
    /\ \/ part = "floats" /\ float \in 0 .. 2^16 - 1
       \/ part # "floats" /\ float = 0
    /\ \/ part = "dma" /\ Transfers!DmaInit
       \/ part # "dma" /\ Transfers!DmaInit /\ mem = CHOOSE m \in Memories : TRUE
    /\ Transfers!DspInit
    /\ Cd!Init

ButForSound == <<part, timersVars, slotsVars, effectsVars, floatVars, dmaVars, dspVars,
                 cdVars>>
ButForTimers == <<part, vars, slotsVars, effectsVars, floatVars, dmaVars, dspVars, cdVars>>
ButForSlots == <<part, vars, timersVars, effectsVars, floatVars, dmaVars, dspVars, cdVars>>
ButForEffects == <<part, vars, timersVars, slotsVars, floatVars, dmaVars, dspVars, cdVars>>
ButForDma == <<part, vars, timersVars, slotsVars, effectsVars, floatVars, dspVars,
               cdVars>>
ButForDsp == <<part, vars, timersVars, slotsVars, effectsVars, floatVars, dmaVars,
               cdVars>>
ButForCd == <<part, vars, timersVars, slotsVars, effectsVars, floatVars, dmaVars,
              dspVars>>

SuiteNext ==
    \/ part = "sound" /\ Next /\ UNCHANGED ButForSound
    \/ part = "timers" /\ Scsp!TimersNext /\ UNCHANGED ButForTimers
    \/ part = "slots" /\ Scsp!SlotsNext /\ UNCHANGED ButForSlots
    \/ part = "effects" /\ Effects!Next /\ UNCHANGED ButForEffects
    \/ part = "dma" /\ Transfers!DmaNext /\ UNCHANGED ButForDma
    \/ part = "dsp" /\ Transfers!DspNext /\ UNCHANGED ButForDsp
    \/ part = "cd" /\ Cd!Next /\ UNCHANGED ButForCd

suiteVars == <<part, vars, timersVars, slotsVars, effectsVars, floatVars, dmaVars,
               dspVars, cdVars>>

SuiteSpec == SuiteInit /\ [][SuiteNext]_suiteVars

-----------------------------------------------------------------------------
\* The clocks of the sound CPU and of the CD drive lose no cycle and count none
\* twice, however the blocks of the SH-2 cut the time, however often the sound CPU
\* is turned off and on, and whatever a batch leaves (sound_cpu.rs, machine.rs);
\* what the 68000 spent is samples and a rest, and it lags less than a batch.
ClocksAreKept ==
    /\ part = "sound" => SamplesFollowTheCore /\ LagIsBelowABatch
    /\ part = "cd" => Cd!CyclesAreConserved /\ Cd!ScdqIsPunctual

\* Timers fire by their period without drift whenever they are loaded; a pulse of
\* the drive and an answer show in HIRQ until they are taken back; notes start and
\* stop together at KYONEX; the ring of the effects is all that its program writes;
\* memory changes by a recognised program of the DSP alone, and as it says.
DevicesStep ==
    CASE part = "timers" -> Scsp!TimersKeepTime
      [] part = "cd" -> Cd!FlagsShow
      [] part = "slots" -> Scsp!KeysActTogether
      [] part = "effects" -> Effects!WritesStayInTheRing
      [] part = "dsp" -> Transfers!RunCopiesTheBlock
      [] OTHER -> TRUE

DevicesKeepTheirRules == [][DevicesStep]_suiteVars

\* A slot plays inside the sample it was started with, an echo comes back after
\* its delay, through a ring buffer whose floating-point words are exact to their
\* last bit.
SoundIsAsSent ==
    /\ part = "slots" => Scsp!PlaysItsSample
    /\ part = "effects" => Effects!EchoIsDelayed
    /\ part = "floats" => Effects!FloatsRoundTrip(float) /\ Effects!CutsDown(float)

\* A transfer copies the block that its registers or its list described when it
\* began, leaves the registers where the next one continues, and the DSP's program
\* runs once for a step that starts it.
TransfersAreExact ==
    /\ part = "dma" =>
        /\ Transfers!CopiesTheBlock
        /\ Transfers!ListIsAsFound
        /\ Transfers!ContinuesWhereItEnded
    /\ part = "dsp" => Transfers!RunsOnce

=============================================================================
