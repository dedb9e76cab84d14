------------------------------ MODULE Workers -------------------------------
(***************************************************************************)
(* The threads of the first emulator that work only when woken (archived   *)
(* lib.rs): the renderer (core 3), the sound processor (4), the DMA and    *)
(* DSP engine (6) and the SMPC and CD block (7). The master SH-2 leaves    *)
(* work in shared state and makes the worker active; the worker looks for  *)
(* work, does it and makes itself inactive. Looking and going to sleep are *)
(* two steps, so work may arrive in between. How long a core waits in      *)
(* sync_core is LockStep's matter.                                         *)
(***************************************************************************)
EXTENDS Sequences, FiniteSets

CONSTANTS
    Work   \* the kinds of work an instance has; the blank brings all it has

VARIABLES
    todo,      \* what the master is in the middle of doing
    active,    \* LockStepSync: the workers that are active
    dma,       \* Scu::dma_active: a level is pending or busy
    dsp,       \* ScuDsp::is_executing
    cd,        \* Cs2::command_pending
    blank,     \* Cs2::vblank_pending
    smpc,      \* the command register: free, or the command and its state
    swap,      \* Vdp1State::swap_frame_buffer
    sound,     \* core 4's processor: stopped, or running since its reset
    started,   \* SNDON was executed and the processor was not reset since
    pc         \* where each worker is

WorkAssumption == Work \subseteq {"dma", "dsp", "cd", "smpc", "video"}

vars == <<todo, active, dma, dsp, cd, blank, smpc, swap, sound, started, pc>>

Workers == {"video", "sound", "dma", "smpc"}

Commands == {"SNDON", "SNDOFF", "INTBACK"}

\* Every worker deactivates itself when it starts.
Init ==
    /\ todo = <<>>
    /\ active = {}
    /\ dma = FALSE /\ dsp = FALSE /\ cd = FALSE /\ blank = FALSE
    /\ smpc = <<>>
    /\ swap = FALSE
    /\ sound = FALSE
    /\ started = FALSE
    /\ pc = [w \in Workers |-> "parked"]

-----------------------------------------------------------------------------
\* The master SH-2.

\* A write to DnEN, to the DSP's control port, to the CD block's last command
\* register: the state first, then the wake.
WriteDnEN == "dma" \in Work /\ todo' = <<"arm dma", "wake dma">>

StartDsp == "dsp" \in Work /\ todo' = <<"start dsp", "wake dma">>

WriteCommand == "cd" \in Work /\ todo' = <<"cd command", "wake smpc">>

\* The delay of an SMPC command has passed.
SmpcDelayOver ==
    /\ smpc # <<>> /\ smpc[2] = "counting"
    /\ todo' = <<"ready", "wake smpc">>

\* The end of a line: DMA that a factor armed, or that lost its wake, gets one.
LineEnd == "dma" \in Work /\ todo' = <<"wake dma if armed">>

Has(kinds, operations) == IF Work \cap kinds # {} THEN operations ELSE <<>>

\* Mutant: a blank does not look after the DMA engine.
BlankInForgetsDma ==
    todo' = Has({"video"}, <<"swap", "wake video">>)
            \o Has({"cd", "smpc"}, <<"cd blank", "wake smpc">>)

BlankIn ==
    todo' = Has({"video"}, <<"swap", "wake video">>)
            \o Has({"cd", "smpc"}, <<"cd blank", "wake smpc">>)
            \o Has({"dma"}, <<"wake dma if armed">>)

\* A COMREG write; SmpcDelayOver follows the delay it arms.
WriteComreg(c) ==
    /\ "smpc" \in Work /\ smpc = <<>>
    /\ smpc' = <<c, "counting">>

MasterStarts ==
    /\ todo = <<>>
    /\ \/ /\ WriteDnEN \/ StartDsp \/ WriteCommand \/ SmpcDelayOver \/ LineEnd
          /\ UNCHANGED smpc
       \/ \E c \in Commands : WriteComreg(c) /\ UNCHANGED todo
    /\ UNCHANGED <<active, dma, dsp, cd, blank, swap, sound, started, pc>>

MasterBlank ==
    /\ todo = <<>>
    /\ BlankIn
    /\ UNCHANGED <<active, dma, dsp, cd, blank, smpc, swap, sound, started, pc>>

\* set_thread_active(w, true) by the master.
Wakes(op, w) ==
    \/ op = "wake video" /\ w = "video"
    \/ op = "wake dma" /\ w = "dma"
    \/ op = "wake smpc" /\ w = "smpc"
    \/ op = "wake dma if armed" /\ w = "dma" /\ dma

MasterStep ==
    /\ todo # <<>>
    /\ todo' = Tail(todo)
    /\ LET op == Head(todo)
       IN  /\ dma' = (dma \/ op = "arm dma")
           /\ dsp' = (dsp \/ op = "start dsp")
           /\ cd' = (cd \/ op = "cd command")
           /\ blank' = (blank \/ op = "cd blank")
           /\ swap' = (swap \/ op = "swap")
           /\ smpc' = IF op = "ready" /\ smpc # <<>>
                      THEN <<smpc[1], "ready">> ELSE smpc
           /\ active' = active \cup {w \in Workers : Wakes(op, w)}
    /\ UNCHANGED <<sound, started, pc>>

-----------------------------------------------------------------------------
\* The workers.

Goes(w, from, to) == pc[w] = from /\ pc' = [pc EXCEPT ![w] = to]

\* park_while_inactive returns.
Unpark(w) ==
    /\ w \in active
    /\ Goes(w, "parked", "check")
    /\ UNCHANGED <<todo, active, dma, dsp, cd, blank, smpc, swap, sound, started>>

\* set_thread_active(w, false) and the next park_while_inactive.
Leave(w) ==
    /\ Goes(w, "leave", "parked")
    /\ active' = active \ {w}
    /\ UNCHANGED <<todo, dma, dsp, cd, blank, smpc, swap, sound, started>>

\* Core 3: swap and draw under the VDP1's lock, then render the frame.
Render ==
    \/ /\ Goes("video", "check", "work")
       /\ swap' = FALSE
       /\ UNCHANGED <<todo, active, dma, dsp, cd, blank, smpc, sound, started>>
    \/ /\ Goes("video", "work", "leave")
       /\ UNCHANGED <<todo, active, dma, dsp, cd, blank, smpc, swap, sound, started>>

\* Core 6: the loop over the DSP and the DMA levels.  A pass may or may not
\* finish either.
Engine ==
    \/ /\ dsp \/ dma
       /\ Goes("dma", "check", "work")
       /\ UNCHANGED <<todo, active, dma, dsp, cd, blank, smpc, swap, sound, started>>
    \/ /\ ~dsp /\ ~dma
       /\ Goes("dma", "check", "leave")
       /\ UNCHANGED <<todo, active, dma, dsp, cd, blank, smpc, swap, sound, started>>
    \/ /\ Goes("dma", "work", "check")
       /\ dma' \in {dma, FALSE}
       /\ dsp' \in {dsp, FALSE}
       /\ UNCHANGED <<todo, active, cd, blank, smpc, swap, sound, started>>

\* Core 4 runs from its reset until sync_core finds it inactive.
SoundCore ==
    \/ /\ Goes("sound", "check", "work")
       /\ sound' = TRUE /\ started' = FALSE
       /\ UNCHANGED <<todo, active, dma, dsp, cd, blank, smpc, swap>>
    \/ /\ "sound" \notin active
       /\ Goes("sound", "work", "parked")
       /\ sound' = FALSE
       /\ UNCHANGED <<todo, active, dma, dsp, cd, blank, smpc, swap, started>>

\* Core 7, under the SMPC's lock: the command that is due.
SmpcCommand ==
    /\ Goes("smpc", "check", "cd")
    /\ IF smpc # <<>> /\ smpc[2] = "ready"
       THEN /\ smpc' = <<>>
            /\ active' = CASE smpc[1] = "SNDON" -> active \cup {"sound"}
                           [] smpc[1] = "SNDOFF" -> active \ {"sound"}
                           [] OTHER -> active
            /\ started' = CASE smpc[1] = "SNDON" -> started \/ "sound" \notin active
                            [] smpc[1] = "SNDOFF" -> FALSE
                            [] OTHER -> started
       ELSE UNCHANGED <<smpc, active, started>>
    /\ UNCHANGED <<todo, dma, dsp, cd, blank, swap, sound>>

\* Core 7, under the CD block's lock: the command and the blank.
CdCommand ==
    /\ Goes("smpc", "cd", "leave")
    /\ cd' = FALSE
    /\ blank' = FALSE
    /\ UNCHANGED <<todo, active, dma, dsp, smpc, swap, sound, started>>

\* A core sets itself inactive; core 4 is made so by core 7.
WorkerStep(w) ==
    \/ Unpark(w)
    \/ Leave(w)
    \/ w = "video" /\ Render
    \/ w = "dma" /\ Engine
    \/ w = "sound" /\ SoundCore
    \/ w = "smpc" /\ (SmpcCommand \/ CdCommand)

Next ==
    \/ MasterStarts
    \/ MasterBlank
    \/ MasterStep
    \/ \E w \in Workers : WorkerStep(w)

=============================================================================
