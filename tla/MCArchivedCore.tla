-------------------------- MODULE MCArchivedCore ----------------------------
(***************************************************************************)
(* Model checking of the first emulator's threads, SCU, timers, SMPC and   *)
(* CD block (archived/saturn-core). Each is a component of its own, so a   *)
(* behaviour is about one of them, named by part.                          *)
(***************************************************************************)
EXTENDS CoreThreads, ScuQueue, FiniteSets, Sequences, TLC

CONSTANTS
    Levels, Lists, Direct, PassBudget, Burst, ChaseGuard,  \* of DmaEngine
    JumpLength, JumpConditions, JumpTargets, CallTargets,  \* of DspInterpreter, its jumps
    Wrap, TimerBatch, Rates, LinesPerFrame, BlankLine, CommandLine, MatchLine,
    Costs, CatchUps, Uptimes,                       \* of LineClock, the counter moved,
    LineCycles, Delays, FrameHistory,               \* frames and delays,
    Presets, TimerHistory,                          \* and Timer 1
    ReportedKinds, ReportedPresses, ReportedAngles, \* of PeripheralPorts, reported
    PolledKinds, PolledPresses, PolledAngles, Patterns, Methods,  \* and polled
    SmpcWriters, SmpcCommands,                      \* of SmpcCommand
    MAX_BLOCKS, Partitions, SectorSizes, MaxCount,  \* of CdBuffers
    VBlankPeriod, AudioPeriod, DataPeriod, IdlePeriod, PollPeriod,
    Disc, LeadOut, Files, MaxFree, MaxCommands, Root, Directories  \* of CdPlayback

VARIABLES
    part,  \* the component this behaviour is about
    dma, armed, at, budget, copy, disarms, flushing, started, found,
    mem, moving, fill, transfer, early,
    ac, p, flags,
    dsp, first,
    pendingTimer, pendingLine, cyclesPerLine, timers, mode, vblank,
    snapshots, wait, waitLine, out, spent, age,
    ireg0, wantsPorts, sr, sf, oreg, pending, ready, intback, firstPeri,
    snap, resd, wake, line, store, core7, over, idle,
    port, report, pdr, ddr, moved,
    used, blockfreespace, isbufferfull, partition, numblocks, sized,
    condtrue, sectsize, sectors, put_block_idx, delivered,
    disc, status, peri, fad, play_start, play_end, isaudio, connected, free,
    periodic_cycles, status_cycles, running, csct, pend, commands,
    curdirsect, fileinfo, infotranstype, trans_buffer, transfercount, cdwnum,
    host, cr, command_pending, vblank_pending, cmok, scdq, periBit,
    cdActive, core, executed

-----------------------------------------------------------------------------
\* The master raises the vertical blank, Core 6 the ends of two transfers of equal
\* level; writes of every width.
MCIrqRaises ==
    [x \in {"master", "core6"} |->
        IF x = "master" THEN {"vblank_in"} ELSE {"level2_dma_end", "level1_dma_end"}]
MCIrqMasks == {{}, {"vblank_in", "level1_dma_end"}}

-----------------------------------------------------------------------------
\* The engine: two levels, a direct transfer longer than a pass, a list with an empty
\* descriptor inside, and one with more of them than the guard passes over.  Its
\* units: copies in every direction between and on the buses, and fills, with counts
\* that are and are not whole units; the program stores over the source of a fill.
LowRam == 2097152
SoundRam == 94371840
HighRamBase == 100663296
Vdp1Ram == 96468992
Vdp2Ram == 98566144
ColourRam == 99614720

MCCopies ==
    [r : {LowRam, HighRamBase + 8, SoundRam + 2, Vdp2Ram + 4},
     w : {HighRamBase + 1048576 + 64, Vdp1Ram + 32, ColourRam + 4096 + 64, LowRam + 128},
     c : {6, 8, 12}, level : {0}, ad : {257, 258, 259}]
        \cup [r : {HighRamBase}, w : {Vdp1Ram}, c : {4096 + 10}, level : {1, 2}, ad : {257}]
MCFills ==
    [r : {LowRam, Vdp1Ram + 8, SoundRam}, w : {HighRamBase + 64, Vdp1Ram + 64, ColourRam},
     c : {8, 9}, level : {0}, ad : {0, 1, 2, 3}]

MCLists == {<<2>>, <<1, 0, 2>>, <<1, 0, 0, 0, 1>>}
MCDirect == {<<2>>}

Dma == INSTANCE DmaEngine WITH
    Transfers <- MCCopies \cup MCFills,
    Pokes <- {LowRam + 1, Vdp1Ram + 8, SoundRam + 3}

-----------------------------------------------------------------------------
\* The BIOS's copy program (src/devices/scu_dsp.rs:12-17), its banks and pieces of
\* four longs instead of 64; loops; and short programs of jumps.
Nop == [class |-> "op", alu |-> "nop", p |-> <<>>, x |-> <<>>, y |-> <<>>, a |-> <<>>,
        dest |-> <<>>, from |-> <<>>]
MoveTo(from, dest) == [Nop EXCEPT !.from = from, !.dest = dest]
SetTo(v, dest) == MoveTo(<<"imm", v>>, dest)
CountTo(n) == SetTo(n, <<"ct", 0>>)
Mvi(cond, v) == [class |-> "mvi", cond |-> cond, dest |-> <<"m", 0>>, val |-> v]
Jmp(cond, target) == [class |-> "jmp", cond |-> cond, target |-> target]
DspDma(dir, count, add) ==
    [class |-> "dma", dir |-> dir, sel |-> 3, add |-> add, hold |-> FALSE, count |-> count]
EndOp == [class |-> "end"]

CopyProgram ==
    << CountTo(0), MoveTo(<<"mc", 0>>, <<"ra0">>), MoveTo(<<"mc", 0>>, <<"wa0">>), CountTo(2),
       SetTo(0, <<"ct", 1>>), [SetTo(4, <<"p">>) EXCEPT !.a = <<"m", 0>>],
       [MoveTo(<<"all">>, <<"m", 1>>) EXCEPT !.alu = "sub"], MoveTo(<<"m", 0>>, <<"m", 1>>),
       SetTo(0, <<"ct", 1>>), MoveTo(<<"mc", 1>>, <<"m", 0>>), CountTo(3),
       MoveTo(<<"mc", 1>>, <<"m", 0>>), CountTo(2), Mvi("s", 0), CountTo(3), Mvi("ns", 4),
       CountTo(3), [Nop EXCEPT !.a = <<"clr">>, !.from = <<"m", 0>>, !.dest = <<"p">>],
       [Nop EXCEPT !.alu = "add"], Jmp("z", 31), Nop, Jmp("t0", 21), SetTo(0, <<"ct", 3>>),
       DspDma("in", <<"m", 0>>, 1), Jmp("t0", 24), SetTo(0, <<"ct", 3>>),
       DspDma("out", <<"m", 0>>, 1), Jmp("t0", 27), Nop, Jmp("always", 3), Nop, EndOp >>

\* Blocks of no longs to more than two pieces, from the RAM to the B-bus.
Blank == [b \in 0 .. 3 |-> [a \in 0 .. 3 |-> 0]]
Copies == INSTANCE DspInterpreter WITH
    Low <- 8, Acc <- 12, Full <- 16, Operands <- {}, ProgramSize <- 32, BankSize <- 4,
    HighRam <- 16, ABus <- {}, BBus <- 16 .. 31, Unmapped <- {},
    Programs <- {[n \in 0 .. 31 |-> CopyProgram[n + 1]]},
    Starts <- {[md |-> [Blank EXCEPT ![0] = (0 :> src) @@ (1 :> dst) @@ (2 :> n) @@ (3 :> 0)],
                lop |-> 0] : src \in {0, 3}, dst \in {16, 19}, n \in 0 .. 9},
    Memories <- {[a \in 0 .. 31 |-> a + 1]}, Uploads <- {}, Writes <- {}, Controls <- {}

\* A transfer, some instructions that touch nothing, and a loop of one copy; and one
\* whose top is set by a call on T0, which the call itself clears.
CopyOp == MoveTo(<<"mc", 0>>, <<"m", 1>>)
FillOp == [DspDma("in", <<"imm", 4>>, 1) EXCEPT !.sel = 0]
Padded(s) == [i \in 0 .. 11 |-> IF i < Len(s) THEN s[i + 1] ELSE EndOp]
Nops(n) == [i \in 1 .. n |-> Nop]
Loops == INSTANCE DspInterpreter WITH
    Low <- 8, Acc <- 12, Full <- 16, Operands <- {}, ProgramSize <- 12, BankSize <- 4,
    HighRam <- 16, ABus <- {}, BBus <- 16 .. 31, Unmapped <- {},
    Programs <-
        {Padded(<<FillOp>> \o Nops(n) \o <<[class |-> "lps"], CopyOp, EndOp>>) : n \in 0 .. 4}
        \cup {Padded(<<FillOp>> \o Nops(n)
                  \o <<SetTo(n + 2, <<"top">>), CopyOp, [class |-> "btm"], Nop, EndOp>>) :
                  n \in 0 .. 4}
        \cup {Padded(<<FillOp, [Mvi("t0", 3) EXCEPT !.dest = <<"call">>], CopyOp,
                       [class |-> "btm"], Nop, EndOp>>)},
    Starts <- {[md |-> Blank, lop |-> n] : n \in 0 .. 3},
    Memories <- {[a \in 0 .. 31 |-> a + 1]}, Uploads <- {}, Writes <- {}, Controls <- {}

\* Programs of jumps, loops and calls; no loop or call is right behind a jump.
JumpOps == {Jmp(cond, target) : cond \in JumpConditions, target \in JumpTargets}
LoopOps ==
    {[class |-> "lps"], [class |-> "btm"]}
    \cup {[class |-> "mvi", cond |-> "always", dest |-> <<"call">>, val |-> target] :
             target \in CallTargets}
Mixed ==
    {f \in [0 .. JumpLength - 1 -> JumpOps \cup LoopOps \cup {Nop, EndOp}] :
        \A i \in 0 .. JumpLength - 1 :
            f[i] \in JumpOps \cup LoopOps => f[(i + 1) % JumpLength] \notin LoopOps}
Jumps == INSTANCE DspInterpreter WITH
    Low <- 4, Acc <- 6, Full <- 8, Operands <- {-8, -1, 3, 7}, ProgramSize <- JumpLength,
    BankSize <- 1, HighRam <- 1, ABus <- {}, BBus <- {}, Unmapped <- {},
    Programs <- Mixed, Starts <- {[md |-> [b \in 0 .. 3 |-> [a \in 0 .. 0 |-> 0]], lop |-> 2]},
    Memories <- {[a \in {0} |-> 0]}, Uploads <- {Nop}, Writes <- {0},
    Controls <- [le : BOOLEAN, pc : {1}, ex : BOOLEAN]

ASSUME JumpsAssumption ==
    /\ JumpLength \in Nat /\ JumpLength > 1
    /\ JumpTargets \cup CallTargets \subseteq 0 .. JumpLength - 1

-----------------------------------------------------------------------------
\* Frames of five lines of seven cycles.  The counter only counts, and commands have
\* delays; Timer 1 runs in all its modes; the counter is moved and the clock changes.
T1Modes == [enabled : {TRUE}, onMatch : BOOLEAN] \cup {[enabled |-> FALSE, onMatch |-> FALSE]}
Frames == INSTANCE LineClock WITH
    CatchUps <- {}, Uptimes <- {}, Rates <- {LineCycles}, Presets <- {}, Modes <- {},
    Capped <- FrameHistory
Timer1 == INSTANCE LineClock WITH
    CatchUps <- {}, Uptimes <- {}, Rates <- {LineCycles}, Delays <- {}, Modes <- T1Modes,
    Capped <- TimerHistory
MCCatchUps == {-2, 2}
Moved == INSTANCE LineClock WITH
    Delays <- {}, Presets <- {}, Modes <- {}, Capped <- 1

\* The histories count a whole frame, and the whole of a delay or a preset.
ASSUME HistoriesAreLong ==
    /\ LinesPerFrame * LineCycles <= FrameHistory /\ \A d \in Delays : d <= FrameHistory
    /\ \A preset \in Presets : 4 * preset <= TimerHistory

-----------------------------------------------------------------------------
\* A guest that waits for SF between its commands, as the BIOS does, and one that
\* writes commands over each other.
Smpc == INSTANCE SmpcCommand WITH
    Writers <- SmpcWriters, Commands <- SmpcCommands, Patient <- TRUE
Hasty == INSTANCE SmpcCommand WITH
    Writers <- SmpcWriters, Commands <- SmpcCommands, Patient <- FALSE

\* The reports of all peripherals, and programs that poll the first port themselves,
\* with buttons that tell the bits apart and axes at their thresholds.
MCReportedPresses == {{}, {"start", "right", "trigger", "x sign"}}
MCPolledPresses ==
    {{}, {"b", "a", "up", "left", "l", "y", "r"}, {"c", "a", "down", "left", "z", "y"},
     {"start", "b", "right", "x", "r"}}

Reported == INSTANCE PeripheralPorts WITH
    Used <- {1, 2}, Kinds <- ReportedKinds, Presses <- ReportedPresses, Angles <- ReportedAngles,
    Patterns <- {}, Methods <- {}, oreg <- report
Polled == INSTANCE PeripheralPorts WITH
    Used <- {1}, Kinds <- PolledKinds, Presses <- PolledPresses, Angles <- PolledAngles,
    oreg <- report

-----------------------------------------------------------------------------
\* The host finishes its puts.
Buffers == INSTANCE CdBuffers WITH AbandonsPuts <- FALSE, transfer <- sectors

\* A disc of a data track, a gap and an audio track; a file and an empty one; a root
\* directory with a file and a directory that leads back.
MCDisc == <<[start |-> 1, end |-> 2, audio |-> FALSE], [start |-> 4, end |-> 5, audio |-> TRUE]>>
MCFiles == {[lba |-> 1, sectors |-> 2], [lba |-> 2, sectors |-> 0]}
RecordOf(l, d) == [lba |-> l, dir |-> d]
MCDirectories ==
    [s \in {18, 20} |->
        IF s = 18
        THEN <<RecordOf(18, TRUE), RecordOf(18, TRUE), RecordOf(30, FALSE), RecordOf(20, TRUE)>>
        ELSE <<RecordOf(20, TRUE), RecordOf(18, TRUE), RecordOf(40, FALSE)>>]

\* Core 7 does not run between two writes of one command.
Cd == INSTANCE CdPlayback WITH WorksWhileWriting <- FALSE, active <- cdActive

ASSUME InstanceAssumptions ==
    /\ Dma!DmaEngineAssumption
    /\ Copies!WidthAssumption /\ Copies!SizeAssumption /\ Copies!BusAssumption
    /\ Loops!BusAssumption
    /\ Jumps!WidthAssumption /\ Jumps!OperandAssumption /\ Jumps!BusAssumption
    /\ Frames!LineClockAssumption /\ Timer1!LineClockAssumption /\ Moved!LineClockAssumption
    /\ Smpc!CommandsAssumption /\ Smpc!WritersAssumption
    /\ Reported!KindsAssumption /\ Polled!KindsAssumption
    /\ Reported!UsedAssumption /\ Reported!AnglesAssumption /\ Reported!ButtonsAssumption
    /\ Polled!UsedAssumption /\ Polled!AnglesAssumption /\ Polled!ButtonsAssumption
    /\ Polled!BytesAssumption
    /\ Buffers!BuffersAssumption
    /\ Cd!PlaybackAssumption /\ Cd!FilesAssumption /\ Cd!CommandsAssumption

-----------------------------------------------------------------------------
engineVars == <<dma, armed, at, budget, copy, disarms, flushing, started, found>>
unitVars == <<mem, moving, fill, transfer, early>>
aluVars == <<ac, p, flags>>
dspVars == <<dsp, first>>
lineVars == <<pendingTimer, pendingLine, cyclesPerLine, timers, mode, vblank,
              snapshots, wait, waitLine, out, spent, age>>
smpcVars == <<ireg0, wantsPorts, sr, sf, oreg, pending, ready, intback, firstPeri,
              snap, resd, wake, line, store, core7, over, idle>>
portsVars == <<port, report, pdr, ddr, moved>>
buffersVars == <<used, blockfreespace, isbufferfull, partition, numblocks, sized,
                 condtrue, sectsize, sectors, put_block_idx, delivered>>
driveVars == <<disc, status, peri, fad, play_start, play_end, isaudio, connected, free,
               periodic_cycles, status_cycles, running, csct, pend, commands>>
cdPortVars == <<curdirsect, fileinfo, infotranstype, trans_buffer, transfercount, cdwnum>>
commandVars == <<host, cr, command_pending, vblank_pending, cmok, scdq, periBit,
                 cdActive, core, executed>>

\* The components a behaviour is not about stay in an initial state.
SuiteInit ==
    /\ part \in {"cores", "ram", "events", "irqs", "engine", "units",
                "alu", "copies", "loops", "jumps", "frames", "timer1",
                "moved", "smpc", "hasty", "reports", "polled", "buffers",
                "drive", "cdport", "cdcommand"}
    /\ Init
    /\ RamInit
    /\ EventsInit
    /\ IrqInit
    /\ Dma!EngineInit
    /\ \/ part = "units" /\ Dma!UnitsInit
       \/ /\ part # "units"
          /\ mem = <<>> /\ moving = <<>> /\ fill = <<>> /\ transfer = <<>> /\ early = <<>>
    /\ Jumps!AluInit
    /\ \/ part = "copies" /\ Copies!DspInit
       \/ part = "loops" /\ Loops!DspInit
       \/ part = "jumps" /\ Jumps!DspInit
       \/ /\ part \notin {"copies", "loops", "jumps"}
          /\ dsp = <<>> /\ first = <<>>
    /\ \/ part = "frames" /\ Frames!Init
       \/ part = "timer1" /\ Timer1!Init
       \/ part = "moved" /\ Moved!Init
       \/ part \notin {"frames", "timer1", "moved"} /\ Frames!Init
    /\ \/ part = "smpc" /\ Smpc!Init
       \/ part = "hasty" /\ Hasty!Init
       \/ part \notin {"smpc", "hasty"} /\ Smpc!Init
    /\ \/ part = "reports" /\ Reported!Init
       \/ part = "polled" /\ Polled!Init
       \/ part \notin {"reports", "polled"} /\ Polled!Init
    /\ Buffers!Init
    /\ \/ part = "drive" /\ Cd!DriveInit
       \/ part # "drive" /\ disc = TRUE /\ Cd!DriveInit
    /\ Cd!PortInit
    /\ Cd!CommandInit

ButForCores == <<part, ramVars, eventsVars, irqVars, engineVars, unitVars, aluVars,
                 dspVars, lineVars, smpcVars, portsVars, buffersVars, driveVars,
                 cdPortVars, commandVars>>
ButForRam == <<part, vars, eventsVars, irqVars, engineVars, unitVars, aluVars, dspVars,
               lineVars, smpcVars, portsVars, buffersVars, driveVars, cdPortVars,
               commandVars>>
ButForEvents == <<part, vars, ramVars, irqVars, engineVars, unitVars, aluVars, dspVars,
                  lineVars, smpcVars, portsVars, buffersVars, driveVars, cdPortVars,
                  commandVars>>
ButForIrqs == <<part, vars, ramVars, eventsVars, engineVars, unitVars, aluVars, dspVars,
                lineVars, smpcVars, portsVars, buffersVars, driveVars, cdPortVars,
                commandVars>>
ButForEngine == <<part, vars, ramVars, eventsVars, irqVars, unitVars, aluVars, dspVars,
                  lineVars, smpcVars, portsVars, buffersVars, driveVars, cdPortVars,
                  commandVars>>
ButForUnits == <<part, vars, ramVars, eventsVars, irqVars, engineVars, aluVars, dspVars,
                 lineVars, smpcVars, portsVars, buffersVars, driveVars, cdPortVars,
                 commandVars>>
ButForAlu == <<part, vars, ramVars, eventsVars, irqVars, engineVars, unitVars, dspVars,
               lineVars, smpcVars, portsVars, buffersVars, driveVars, cdPortVars,
               commandVars>>
ButForDsp == <<part, vars, ramVars, eventsVars, irqVars, engineVars, unitVars, aluVars,
               lineVars, smpcVars, portsVars, buffersVars, driveVars, cdPortVars,
               commandVars>>
ButForLine == <<part, vars, ramVars, eventsVars, irqVars, engineVars, unitVars, aluVars,
                dspVars, smpcVars, portsVars, buffersVars, driveVars, cdPortVars,
                commandVars>>
ButForSmpc == <<part, vars, ramVars, eventsVars, irqVars, engineVars, unitVars, aluVars,
                dspVars, lineVars, portsVars, buffersVars, driveVars, cdPortVars,
                commandVars>>
ButForPorts == <<part, vars, ramVars, eventsVars, irqVars, engineVars, unitVars, aluVars,
                 dspVars, lineVars, smpcVars, buffersVars, driveVars, cdPortVars,
                 commandVars>>
ButForBuffers == <<part, vars, ramVars, eventsVars, irqVars, engineVars, unitVars, aluVars,
                   dspVars, lineVars, smpcVars, portsVars, driveVars, cdPortVars,
                   commandVars>>
ButForDrive == <<part, vars, ramVars, eventsVars, irqVars, engineVars, unitVars, aluVars,
                 dspVars, lineVars, smpcVars, portsVars, buffersVars, cdPortVars,
                 commandVars>>
ButForCdPort == <<part, vars, ramVars, eventsVars, irqVars, engineVars, unitVars, aluVars,
                  dspVars, lineVars, smpcVars, portsVars, buffersVars, driveVars,
                  commandVars>>
ButForCommand == <<part, vars, ramVars, eventsVars, irqVars, engineVars, unitVars, aluVars,
                   dspVars, lineVars, smpcVars, portsVars, buffersVars, driveVars,
                   cdPortVars>>

SuiteNext ==
    \/ part = "cores" /\ Next /\ UNCHANGED ButForCores
    \/ part = "ram" /\ RamNext /\ UNCHANGED ButForRam
    \/ part = "events" /\ EventsNext /\ UNCHANGED ButForEvents
    \/ part = "irqs" /\ IrqNext /\ UNCHANGED ButForIrqs
    \/ part = "engine" /\ Dma!EngineNext /\ UNCHANGED ButForEngine
    \/ part = "units" /\ Dma!UnitsNext /\ UNCHANGED ButForUnits
    \/ part = "alu" /\ Jumps!AluNext /\ UNCHANGED ButForAlu
    \/ part = "copies" /\ Copies!DspNext /\ UNCHANGED ButForDsp
    \/ part = "loops" /\ Loops!DspNext /\ UNCHANGED ButForDsp
    \/ part = "jumps" /\ Jumps!DspNext /\ UNCHANGED ButForDsp
    \/ part = "frames" /\ Frames!Next /\ UNCHANGED ButForLine
    \/ part = "timer1" /\ Timer1!Next /\ UNCHANGED ButForLine
    \/ part = "moved" /\ Moved!Next /\ UNCHANGED ButForLine
    \/ part = "smpc" /\ Smpc!Next /\ UNCHANGED ButForSmpc
    \/ part = "hasty" /\ Hasty!Next /\ UNCHANGED ButForSmpc
    \/ part = "reports" /\ Reported!Next /\ UNCHANGED ButForPorts
    \/ part = "polled" /\ Polled!Next /\ UNCHANGED ButForPorts
    \/ part = "buffers" /\ Buffers!Next /\ UNCHANGED ButForBuffers
    \/ part = "drive" /\ Cd!DriveNext /\ UNCHANGED ButForDrive
    \/ part = "cdport" /\ Cd!PortNext /\ UNCHANGED ButForCdPort
    \/ part = "cdcommand" /\ Cd!CommandNext /\ UNCHANGED ButForCommand

suiteVars == <<part, vars, ramVars, eventsVars, irqVars, engineVars, unitVars, aluVars,
               dspVars, lineVars, smpcVars, portsVars, buffersVars, driveVars,
               cdPortVars, commandVars>>

SuiteSpec == SuiteInit /\ [][SuiteNext]_suiteVars

-----------------------------------------------------------------------------
\* However the threads interleave: an access to the high work RAM is whole and no two
\* wait for each other (shared_buffers.rs); a parked core is one that is to be parked
\* (sync.rs); an interrupt of the SCU that was raised is latched, and listed once in
\* the order of the levels, until it is delivered (archived scu.rs).
ThreadsShareSafely ==
    /\ AccessesAreWhole /\ WritesLandInOrder /\ NoCircularWait
    /\ NoLostUnpark
    /\ part = "irqs" => OwedIsKept /\ InOrder

\* A transfer raises one end, copies what was at its source, and fills with one long;
\* the operations of the DSP's ALU agree with one another, the BIOS's program copies
\* its block and a loop sees the transfer before it (archived scu.rs, scu_dsp.rs).
ScuIsExact ==
    /\ part = "engine" => Dma!OneEndEach
    /\ part = "units" => Dma!CopyIsTheSource /\ Dma!FillIsOneLong
    /\ part = "alu" => Jumps!OperationsAgree
    /\ part = "copies" => Copies!CopiesTheBlock
    /\ part = "loops" => Loops!LoopCopies

\* Every line of a frame is captured; who reads SF clear finds the results of the
\* SMPC's command complete; a mouse's motion is told once; what a program polls at a
\* port is what INTBACK reports (archived sh2.rs, smpc.rs, peripheral.rs).
PeripheralsAreExact ==
    /\ part = "moved" => Moved!EveryLineIsCaptured
    /\ part = "smpc" => Smpc!IdleMeansDone
    /\ part = "hasty" => Hasty!BusyWhilePending
    /\ part = "reports" => Reported!MotionToldOnce
    /\ part = "polled" => Polled!PollingAgrees

\* A block of the CD buffer has one owner and the counts the host reads are those of
\* the lists; a play stays in its range and no time is lost between two blanks; the
\* records are those of the directory; CMOK is of the command that waits for it
\* (archived cs2.rs).
CdBlockIsExact ==
    /\ part = "buffers" => Buffers!OneOwner /\ Buffers!CountsAgree
    /\ part = "drive" => Cd!RemaindersAreSmall /\ Cd!PlaysWithinRange
    /\ part = "cdport" => Cd!RecordsAreOfDirectory
    /\ part = "cdcommand" => Cd!CmokIsOfThisCommand

\* A core wakes others only for a reason; a write delivers the one highest interrupt;
\* the DSP's counter is a pipeline and an end tells where it is; a frame, Timer 1 and
\* a command's delay take their cycles; a command of the SMPC is executed on its own
\* time and a break is final; a report parses; a sector leaves the buffer when it was
\* read, only data is stored, and a record is delivered whole.
ArchivedStep ==
    CASE part = "cores" -> NoIdleBroadcast
      [] part = "irqs" -> OneHighestPerWrite
      [] part = "jumps" -> Jumps!CounterIsAPipeline /\ Jumps!EndTellsWhere
      [] part = "frames" -> Frames!FrameTakesItsTime /\ Frames!CommandsWaitTheirDelay
      [] part = "timer1" -> Timer1!TimerOneNotEarly
      [] part = "smpc" -> Smpc!BreakIsFinal
      [] part = "hasty" -> Hasty!WaitsItsTurn
      [] part = "reports" -> Reported!ReportParses
      [] part = "buffers" -> Buffers!DeletesWhatItDelivered
      [] part = "drive" -> Cd!StoresOnlyData
      [] part = "cdport" -> Cd!DeliversWholeRecords
      [] OTHER -> TRUE

ArchivedStepsKeepTheirRules == [][ArchivedStep]_suiteVars

=============================================================================
