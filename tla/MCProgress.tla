---------------------------- MODULE MCProgress ------------------------------
(***************************************************************************)
(* Model checking of what must happen in the end, live and in the first    *)
(* emulator: the requests that a program, a device or a thread leaves for  *)
(* another thread. A behaviour is about one component, named by part, and  *)
(* about one of its requests, named by goal; each component's own fairness *)
(* is that of its threads.                                                 *)
(***************************************************************************)
EXTENDS Integers, Sequences, TLC

VARIABLES
    part,  \* the component this behaviour is about
    goal,  \* the request it watches
    scipd, scieb, level, count, prescaler, batch, soundLine, imask,
    handlers, soundOwed, loaded, since,
    mem, ch, stage, dmaList, copying, dmaSrc, dmaDst, done, ended, dmaFound,
    before,
    engineDma, armed, at, budget, copy, disarms, flushing, engineStarted,
    engineFound,
    todo, workerActive, workerDma, workerDsp, cd, blank, smpc, swap, sound,
    workerStarted, workerPc,
    cycles, coreActive, waiting, wakeAt, shutdown, mine, corePc,
    flag, any, raising, eventMaster, eventOwed,
    ireg0, wantsPorts, sr, sf, oreg, smpcPending, ready, intback, firstPeri,
    snap, resd, wake, smpcLine, store, core7, smpcOver, idle,
    disc, status, peri, fad, play_start, play_end, isaudio, connected, free,
    periodic_cycles, status_cycles, driveRunning, csct, pend, commands,
    host, cr, command_pending, vblank_pending, cmok, scdq, periBit,
    cdActive, cdCore, executed,
    dsp, first,
    pendingTimer, pendingLine, cyclesPerLine, timers, mode, vblank,
    snapshots, wait, waitLine, out, spent, age,
    walkList, addr, copr, lopr, walkRunning, cef, ret, clip, fake, walking,
    runaway, told, begun, walkOver, want,
    s, bank, kind, vdpActive, vdpCore, vdpMaster, event, vdpPending

-----------------------------------------------------------------------------
\* Timers whose every sample may fire, under handlers of both levels.
MCLevels ==
    {[b \in {6, 7} |-> IF b = 7 THEN 2 ELSE 0], [b \in {6, 7} |-> IF b = 7 THEN 2 ELSE 1]}

Scsp == INSTANCE Scsp WITH
    Timers <- {6, 7}, SampleBit <- 10, SharedBit <- 7, Tick <- 1, Top <- 1,
    Prescalers <- {0}, LevelMaps <- MCLevels, EnableMasks <- {{6, 7}, {6, 10}},
    BatchSamples <- {1}, Slots <- {}, One <- 1, PitchSteps <- {1},
    LoopStarts <- {1}, LoopEnds <- {2}, LoopModes <- {0}, Hold <- 1, FullGain <- 1,
    line <- soundLine, owed <- soundOwed, regs <- 0, slot <- 0

-----------------------------------------------------------------------------
Contents(f) == [a \in 0 .. 15 |-> IF a + 1 \in DOMAIN f THEN f[a + 1] ELSE 3]

NoList == Contents([a \in 1 .. 16 |-> IF a % 2 = 1 THEN 0 ELSE a % 8])

\* A list of two entries; one of three that is not marked and overwritten by its
\* own first entry; no list at all.
MCMemories ==
    {Contents(<<0, 4, 0, 1, 0, 10,  0, 6, 0, 12, 8, 8>>),
     Contents(<<0, 8, 0, 6, 0, 12,  0, 0, 1, 13, 9, 2>>),
     NoList}

Scu == INSTANCE ScuTransfers WITH
    Cells <- 16, Width <- 16, BBus <- 12 .. 15, MaxCount <- 16, ListLimit <- 2,
    WriteAdds <- {0, 1, 2}, Counts <- {0, 6}, Memories <- MCMemories,
    Addresses <- {0, 13},
    ProgSize <- 2, DataSize <- 3, Words <- {"nop"}, Nop <- "nop",
    CopyProgram <- <<"nop", "nop">>, Values <- {0}, MemSize <- 4, RamContents <- {},
    list <- dmaList, src <- dmaSrc, dst <- dmaDst, found <- dmaFound, prog <- 0,
    data <- 0, loadPc <- 0, dataAddr <- 0, running <- 0, startRequested <- 0,
    ram <- 0, asked <- 0, runs <- 0

\* Lists longer than a pass, with an empty descriptor.
Engine == INSTANCE DmaEngine WITH
    Levels <- 2, Lists <- {<<1, 0, 1>>}, Direct <- {},
    PassBudget <- 1, Burst <- 1, ChaseGuard <- 1, Transfers <- {}, Pokes <- {},
    dma <- engineDma, started <- engineStarted, found <- engineFound, mem <- 0,
    moving <- 0, fill <- 0, transfer <- 0, early <- 0

-----------------------------------------------------------------------------
\* The renderer and the engine; the SMPC and the CD block.
Heavy == INSTANCE Workers WITH
    Work <- {"dma", "dsp", "video"},
    active <- workerActive, dma <- workerDma, dsp <- workerDsp,
    started <- workerStarted, pc <- workerPc
Light == INSTANCE Workers WITH
    Work <- {"cd", "smpc"},
    active <- workerActive, dma <- workerDma, dsp <- workerDsp,
    started <- workerStarted, pc <- workerPc

Threads == INSTANCE CoreThreads WITH
    Cores <- {"master", "slave", "sound"}, Slack <- 1, Controlled <- {"sound"}, MaxCycles <- 2,
    Threads <- {}, Stripes <- 2, StripeBytes <- 1, Offsets <- {}, Widths <- {},
    Producers <- {"smpc", "video"},
    active <- coreActive, pc <- corePc, master <- eventMaster, owed <- eventOwed,
    high_ram <- 0, readers <- 0, writer <- 0, op <- 0

\* A guest that waits for SF between its commands.
Smpc == INSTANCE SmpcCommand WITH
    Writers <- {"master"}, Commands <- {"INTBACK", "SETSMEM", "RESENAB", "MSHON"},
    Patient <- TRUE,
    pending <- smpcPending, line <- smpcLine, over <- smpcOver

-----------------------------------------------------------------------------
\* A disc of a data track and an audio track; commands while the drive plays.
Cd == INSTANCE CdPlayback WITH
    VBlankPeriod <- 5, AudioPeriod <- 4, DataPeriod <- 2, IdlePeriod <- 5, PollPeriod <- 12,
    Disc <- <<[start |-> 1, end |-> 2, audio |-> FALSE], [start |-> 4, end |-> 5, audio |-> TRUE]>>,
    LeadOut <- 6, Files <- {[lba |-> 1, sectors |-> 2], [lba |-> 2, sectors |-> 0]},
    MaxFree <- 1, MaxCommands <- 1, Root <- 18, Directories <- <<>>,
    WorksWhileWriting <- FALSE,
    running <- driveRunning, active <- cdActive, core <- cdCore, curdirsect <- 0,
    fileinfo <- 0, infotranstype <- 0, trans_buffer <- 0, transfercount <- 0,
    cdwnum <- 0

-----------------------------------------------------------------------------
\* A program that loops, starts a transfer and waits for its end.
Nop == [class |-> "op", alu |-> "nop", p |-> <<>>, x |-> <<>>, y |-> <<>>, a |-> <<>>,
        dest |-> <<>>, from |-> <<>>]
WaitsForT0 ==
    << [class |-> "lps"], Nop,
       [class |-> "dma", dir |-> "in", sel |-> 0, add |-> 1, hold |-> FALSE, count |-> <<"imm", 4>>],
       [class |-> "jmp", cond |-> "t0", target |-> 3], Nop, [class |-> "end"] >>

Program == INSTANCE DspInterpreter WITH
    Low <- 8, Acc <- 12, Full <- 16, Operands <- {}, ProgramSize <- 6, BankSize <- 4,
    HighRam <- 16, ABus <- {}, BBus <- 16 .. 31, Unmapped <- {},
    Programs <- {[n \in 0 .. 5 |-> WaitsForT0[n + 1]]},
    Starts <- {[md |-> [b \in 0 .. 3 |-> [a \in 0 .. 3 |-> 0]], lop |-> n] : n \in 0 .. 3},
    Memories <- {[a \in 0 .. 31 |-> a]}, Uploads <- {}, Writes <- {}, Controls <- {},
    ac <- 0, p <- 0, flags <- 0

-----------------------------------------------------------------------------
\* Frames of five lines of seven cycles.
Lines == INSTANCE LineClock WITH
    Wrap <- 64, TimerBatch <- 4, LinesPerFrame <- 5, BlankLine <- 3, CommandLine <- 2,
    MatchLine <- 2, Costs <- {1, 3}, CatchUps <- {}, Uptimes <- {}, Rates <- {7},
    Delays <- {5}, Presets <- {}, Modes <- {}, Capped <- 1

\* Every list in VRAM of two commands, or one between them; changes by hand.
Walks == INSTANCE Vdp1List WITH
    N <- 4, Limit <- 3, Ops <- {"skipped"}, Rewrites <- FALSE, Lists <- {"end"},
    FrameModes <- {2}, Plots <- {1},
    list <- walkList, running <- walkRunning, over <- walkOver, s <- 0, bank <- 0,
    kind <- 0, active <- 0, core <- 0, master <- 0, event <- 0, pending <- 0
Frames == INSTANCE Vdp1List WITH
    N <- 2, Limit <- 1, Ops <- {}, Rewrites <- FALSE, Lists <- {"end"},
    FrameModes <- {3}, Plots <- {1},
    active <- vdpActive, core <- vdpCore, master <- vdpMaster,
    pending <- vdpPending, list <- 0, addr <- 0, copr <- 0, lopr <- 0, running <- 0, cef <- 0,
    ret <- 0, clip <- 0, fake <- 0, walking <- 0, runaway <- 0, told <- 0,
    begun <- 0, over <- 0, want <- 0

ASSUME InstanceAssumptions ==
    /\ Scsp!TimersAssumption /\ Scu!DmaAssumption /\ Engine!DmaEngineAssumption
    /\ Heavy!WorkAssumption /\ Light!WorkAssumption
    /\ Threads!SlackAssumption /\ Threads!MaxCyclesAssumption /\ Threads!ControlledAssumption
    /\ Smpc!CommandsAssumption /\ Cd!PlaybackAssumption /\ Cd!CommandsAssumption
    /\ Program!WidthAssumption /\ Lines!LineClockAssumption
    /\ Walks!NAssumption /\ Walks!OpsAssumption /\ Frames!FrameModesAssumption

-----------------------------------------------------------------------------
\* Which of its requests a behaviour is about, where a component has several.
Goals ==
    CASE part = "served" -> Scsp!Sources
      [] part = "engine" -> {<<"pending", 1>>, <<"ends", 0>>}
      [] part = "heavy" -> {"dma", "swap"}
      [] part = "light" -> {"cd", "smpc"}
      [] part = "events" -> {"sysres", "draw end"}
      [] part = "drive" -> {"play", "empty"}
      [] OTHER -> {"the one"}

-----------------------------------------------------------------------------
timersVars == <<scipd, scieb, level, count, prescaler, batch, soundLine, imask,
                handlers, soundOwed, loaded, since>>
dmaVars == <<mem, ch, stage, dmaList, copying, dmaSrc, dmaDst, done, ended, dmaFound,
             before>>
engineVars == <<engineDma, armed, at, budget, copy, disarms, flushing, engineStarted,
                engineFound>>
workersVars == <<todo, workerActive, workerDma, workerDsp, cd, blank, smpc, swap, sound,
                 workerStarted, workerPc>>
coresVars == <<cycles, coreActive, waiting, wakeAt, shutdown, mine, corePc>>
eventsVars == <<flag, any, raising, eventMaster, eventOwed>>
smpcVars == <<ireg0, wantsPorts, sr, sf, oreg, smpcPending, ready, intback, firstPeri,
              snap, resd, wake, smpcLine, store, core7, smpcOver, idle>>
driveVars == <<disc, status, peri, fad, play_start, play_end, isaudio, connected, free,
               periodic_cycles, status_cycles, driveRunning, csct, pend, commands>>
commandVars == <<host, cr, command_pending, vblank_pending, cmok, scdq, periBit,
                 cdActive, cdCore, executed>>
dspVars == <<dsp, first>>
lineVars == <<pendingTimer, pendingLine, cyclesPerLine, timers, mode, vblank,
              snapshots, wait, waitLine, out, spent, age>>
walkVars == <<walkList, addr, copr, lopr, walkRunning, cef, ret, clip, fake, walking,
              runaway, told, begun, walkOver, want>>
frameVars == <<s, bank, kind, vdpActive, vdpCore, vdpMaster, event, vdpPending>>

\* The components a behaviour is not about stay in an initial state.
SuiteInit ==
    /\ part \in {"served", "dma", "engine", "heavy", "light", "cores",
                "events", "smpc", "drive", "command", "dsp", "line",
                "walk", "frame"}
    /\ goal \in Goals
    /\ \/ part = "served" /\ Scsp!TimersInit
       \/ /\ part # "served"
          /\ level = [b \in {6, 7} |-> IF b = 7 THEN 2 ELSE 0]
          /\ scieb = {6, 7}
          /\ Scsp!TimersInit
    /\ \/ part = "dma" /\ Scu!DmaInit
       \/ /\ part # "dma"
          /\ mem = NoList
          /\ Scu!DmaInit
    /\ Engine!EngineInit
    /\ \/ part = "heavy" /\ Heavy!Init
       \/ part = "light" /\ Light!Init
       \/ part \notin {"heavy", "light"} /\ Heavy!Init
    /\ Threads!Init
    /\ Threads!EventsInit
    /\ Smpc!Init
    /\ \/ part = "drive" /\ Cd!DriveInit
       \/ /\ part # "drive"
          /\ disc = TRUE
          /\ Cd!DriveInit
    /\ Cd!CommandInit
    /\ \/ part = "dsp" /\ Program!DspInit
       \/ /\ part # "dsp"
          /\ dsp = [ex |-> FALSE]
          /\ first = <<>>
    /\ Lines!Init
    /\ \/ part = "walk" /\ Walks!WalkInit
       \/ /\ part # "walk"
          /\ walkList = <<>> /\ addr = 0 /\ copr = 0 /\ lopr = 0
          /\ walkRunning = FALSE /\ cef = FALSE /\ ret = {} /\ clip = -1
          /\ fake = FALSE /\ walking = FALSE /\ runaway = 0 /\ told = FALSE
          /\ begun = FALSE /\ walkOver = FALSE /\ want = -1
    /\ \/ part = "frame" /\ Frames!FrameInit
       \/ /\ part # "frame"
          /\ kind = "end"
          /\ Frames!FrameInit

ButForTimers == <<part, goal, dmaVars, engineVars, workersVars, coresVars, eventsVars, smpcVars,
                  driveVars, commandVars, dspVars, lineVars, walkVars, frameVars>>
ButForDma == <<part, goal, timersVars, engineVars, workersVars, coresVars, eventsVars,
               smpcVars, driveVars, commandVars, dspVars, lineVars, walkVars, frameVars>>
ButForEngine == <<part, goal, timersVars, dmaVars, workersVars, coresVars, eventsVars, smpcVars,
                  driveVars, commandVars, dspVars, lineVars, walkVars, frameVars>>
ButForWorkers == <<part, goal, timersVars, dmaVars, engineVars, coresVars, eventsVars, smpcVars,
                   driveVars, commandVars, dspVars, lineVars, walkVars, frameVars>>
ButForCores == <<part, goal, timersVars, dmaVars, engineVars, workersVars, eventsVars,
                 smpcVars, driveVars, commandVars, dspVars, lineVars, walkVars, frameVars>>
ButForEvents == <<part, goal, timersVars, dmaVars, engineVars, workersVars, coresVars, smpcVars,
                  driveVars, commandVars, dspVars, lineVars, walkVars, frameVars>>
ButForSmpc == <<part, goal, timersVars, dmaVars, engineVars, workersVars, coresVars,
                eventsVars, driveVars, commandVars, dspVars, lineVars, walkVars,
                frameVars>>
ButForDrive == <<part, goal, timersVars, dmaVars, engineVars, workersVars, coresVars,
                 eventsVars, smpcVars, commandVars, dspVars, lineVars, walkVars,
                 frameVars>>
ButForCommand == <<part, goal, timersVars, dmaVars, engineVars, workersVars, coresVars,
                   eventsVars, smpcVars, driveVars, dspVars, lineVars, walkVars, frameVars>>
ButForDsp == <<part, goal, timersVars, dmaVars, engineVars, workersVars, coresVars,
               eventsVars, smpcVars, driveVars, commandVars, lineVars, walkVars,
               frameVars>>
ButForLine == <<part, goal, timersVars, dmaVars, engineVars, workersVars, coresVars,
                eventsVars, smpcVars, driveVars, commandVars, dspVars, walkVars,
                frameVars>>
ButForWalk == <<part, goal, timersVars, dmaVars, engineVars, workersVars, coresVars,
                eventsVars, smpcVars, driveVars, commandVars, dspVars, lineVars,
                frameVars>>
ButForFrame == <<part, goal, timersVars, dmaVars, engineVars, workersVars, coresVars,
                 eventsVars, smpcVars, driveVars, commandVars, dspVars, lineVars,
                 walkVars>>

SuiteNext ==
    \/ part = "served" /\ Scsp!TimersNext /\ UNCHANGED ButForTimers
    \/ part = "dma" /\ Scu!DmaNext /\ UNCHANGED ButForDma
    \/ part = "engine" /\ Engine!EngineNext /\ UNCHANGED ButForEngine
    \/ part = "heavy" /\ Heavy!Next /\ UNCHANGED ButForWorkers
    \/ part = "light" /\ Light!Next /\ UNCHANGED ButForWorkers
    \/ part = "cores" /\ Threads!Next /\ UNCHANGED ButForCores
    \/ part = "events" /\ Threads!EventsNext /\ UNCHANGED ButForEvents
    \/ part = "smpc" /\ Smpc!Next /\ UNCHANGED ButForSmpc
    \/ part = "drive" /\ Cd!DriveNext /\ UNCHANGED ButForDrive
    \/ part = "command" /\ Cd!CommandNext /\ UNCHANGED ButForCommand
    \/ part = "dsp" /\ Program!DspNext /\ UNCHANGED ButForDsp
    \/ part = "line" /\ Lines!Next /\ UNCHANGED ButForLine
    \/ part = "walk" /\ Walks!WalkNext /\ UNCHANGED ButForWalk
    \/ part = "frame" /\ Frames!FrameNext /\ UNCHANGED ButForFrame

suiteVars == <<part, goal, timersVars, dmaVars, engineVars, workersVars, coresVars,
               eventsVars, smpcVars, driveVars, commandVars, dspVars, lineVars,
               walkVars, frameVars>>

\* A step that is taken if it can be taken again and again: the end of a
\* batch, which has a budget, and of a transfer; the return of a handler; the next
\* blank; the end of a command's delay; a store that its reader sees at last.
FirstRecurring ==
    \/ part = "served" /\ Scsp!EndBatch /\ UNCHANGED ButForTimers
    \/ part = "heavy" /\ Heavy!MasterBlank /\ UNCHANGED ButForWorkers
    \/ part = "light" /\ Light!MasterBlank /\ UNCHANGED ButForWorkers
    \/ part = "events" /\ Threads!Look(TRUE) /\ UNCHANGED ButForEvents
    \/ part = "frame" /\ Frames!VBlankIn /\ UNCHANGED ButForFrame

SecondRecurring ==
    \/ part = "served" /\ Scsp!Return /\ UNCHANGED ButForTimers
    \/ /\ part = "heavy" /\ workerDma
       /\ Heavy!Engine /\ ~workerDma'
       /\ UNCHANGED ButForWorkers
    \/ part = "light" /\ Light!MasterStarts /\ Light!SmpcDelayOver /\ UNCHANGED ButForWorkers

\* Every thread runs and the master's clock goes on, so a step that a thread can
\* take is taken; what is asked for the program and what a core is told to do are
\* owed by nobody.
SuiteFairness ==
    /\ SF_suiteVars(FirstRecurring)
    /\ SF_suiteVars(SecondRecurring)
    /\ WF_timersVars(part = "served" /\ Scsp!StartBatch)
    /\ WF_timersVars(part = "served" /\ Scsp!SampleTimers)
    /\ WF_timersVars(part = "served" /\ Scsp!TakeInterrupt)
    /\ WF_dmaVars(part = "dma" /\ Scu!DmaStep)
    /\ WF_engineVars(part = "engine" /\ Engine!Core6)
    /\ WF_workersVars(part = "heavy" /\ Heavy!MasterStep)
    /\ WF_workersVars(part = "light" /\ Light!MasterStep)
    /\ \A w \in Heavy!Workers :
          /\ WF_workersVars(part = "heavy" /\ Heavy!WorkerStep(w))
          /\ WF_workersVars(part = "light" /\ Light!WorkerStep(w))
    /\ \A c \in {"master", "slave", "sound"} :
          /\ WF_coresVars(part = "cores" /\ Threads!Recheck(c))
          /\ WF_coresVars(part = "cores" /\ Threads!Unpark(c))
          /\ WF_coresVars(part = "cores" /\ Threads!End(c))
    /\ \A p \in {"smpc", "video"} : WF_eventsVars(part = "events" /\ Threads!Publish(p))
    /\ WF_eventsVars(part = "events" /\ Threads!Take)
    /\ WF_smpcVars(part = "smpc" /\ Smpc!Handles("master"))
    /\ WF_smpcVars(part = "smpc" /\ Smpc!DelayOver)
    /\ WF_smpcVars(part = "smpc" /\ (Smpc!Line207 \/ Smpc!BlankIn \/ Smpc!BlankOut))
    /\ WF_smpcVars(part = "smpc" /\ (Smpc!Begin \/ Smpc!Finish))
    /\ WF_driveVars(part = "drive" /\ Cd!Engine)
    /\ WF_commandVars(part = "command" /\ Cd!Host)
    /\ WF_commandVars(part = "command" /\ Cd!VBlankIn)
    /\ WF_commandVars(part = "command" /\ Cd!Core7)
    /\ WF_dspVars(part = "dsp" /\ Program!Step)
    /\ WF_lineVars(part = "line" /\ \E c \in {1, 3} : Lines!Step(c))
    /\ WF_walkVars(part = "walk" /\ Walks!Loop)
    /\ WF_frameVars(part = "frame" /\ Frames!Compositor)
    /\ WF_frameVars(part = "frame" /\ Frames!Wake)
    /\ WF_frameVars(part = "frame" /\ Frames!PortStore)

SuiteSpec == SuiteInit /\ [][SuiteNext]_suiteVars /\ SuiteFairness

-----------------------------------------------------------------------------
\* What is asked for: a pending source of the 68000; a transfer; a level of the engine,
\* pending or busy; a worker's work; the end of the threads; an event; a command of
\* the SMPC; a play, and a look for a disc; a command of the CD block; a program of
\* the DSP; line 207; a walk; a frame change.
Outstanding ==
    CASE part = "served" -> Scsp!Waits(goal)
      [] part = "dma" -> ch.go
      [] part = "engine" -> IF goal[1] = "pending" THEN engineDma[goal[2]].pending
                            ELSE engineDma[goal[2]].left # 0
      [] part = "heavy" -> IF goal = "dma" THEN workerDma ELSE swap
      [] part = "light" -> IF goal = "cd" THEN cd ELSE smpc # <<>>
      [] part = "cores" -> shutdown
      [] part = "events" -> eventOwed[goal]
      [] part = "smpc" -> smpcPending # <<>>
      [] part = "drive" -> IF goal = "play" THEN status = "PLAY"
                           ELSE ~disc /\ status \notin {"NODISC", "OPEN"}
      [] part = "command" -> host = "wait"
      [] part = "dsp" -> dsp.ex
      [] part = "line" -> waitLine
      [] part = "walk" -> walking
      [] part = "frame" -> s.swap

\* What counts as an answer where it is more than the request's being gone.
Served ==
    CASE part = "served" -> Scsp!IsServed(goal)
      [] part = "dma" -> ~ch.go \/ \E k \in 1 .. Len(dmaList) : ~Scu!Countable(dmaList[k])
      [] part = "engine" /\ goal[1] = "ends" -> engineStarted[goal[2]] = 0
      [] part = "cores" -> \A c \in {"master", "slave", "sound"} : corePc[c] = "ended"
      [] part = "command" -> host = "clear"
      [] OTHER -> ~Outstanding

\* Nothing that is asked of a thread is forgotten: a source the 68000 may be
\* interrupted by makes it run at that level (scsp.rs); a transfer ends, unless an
\* entry of its list counts past 32 bits (scu.rs); and in the first emulator a level
\* of the engine starts and ends, work left as a worker goes to sleep is found again
\* (lib.rs), a shutdown ends every thread (sync.rs), an event is taken (sh2.rs), a
\* command of the SMPC and of the CD block is executed and answered (smpc.rs, cs2.rs),
\* a play ends and an empty drive is found out (cs2.rs), the DSP's program ends
\* (scu_dsp.rs), a line comes (sh2.rs), and VDP1's walk ends and its frame buffers
\* change (vdp.rs).
EveryRequestIsServed == Outstanding ~> Served

=============================================================================
