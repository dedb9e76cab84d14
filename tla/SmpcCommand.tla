---------------------------- MODULE SmpcCommand -----------------------------
(***************************************************************************)
(* How a command of the SMPC is armed, waits and is executed in the first  *)
(* emulator (archived smpc.rs, sh2.rs, lib.rs). An SH-2 thread stores a    *)
(* register without the SMPC's lock and handles the store under it; the    *)
(* master counts the command's delay or waits for line 207 and wakes core  *)
(* 7, which also wakes for the CD block; core 7 executes under the lock.   *)
(* INTBACK is followed: status, the first chunk of the ports, the chunks a *)
(* write of IREG0 asks for, the break, and the blank that ends it all.     *)
(***************************************************************************)
EXTENDS Naturals, Sequences

CONSTANTS
    Commands,    \* the commands written to COMREG
    Writers,     \* the SH-2 threads that use the SMPC
    Patient      \* whether they wait for SF to be clear, as the BIOS does

VARIABLES
    ireg0,      \* "0", "status" (bit 0), "break" (bit 6), "continue" (bit 7)
    wantsPorts, \* IREG1 bit 3
    sr,         \* the status register: "reset", "status", "first", "next", "cut"
    sf,         \* the busy flag
    oreg,       \* what the output registers hold
    pending,    \* Smpc::pending_command: <<>> or the command and what it waits for
    ready,      \* Smpc::dispatch_ready
    intback,    \* Smpc::intback
    firstPeri,  \* Smpc::first_peri
    snap,       \* Smpc::snap1, snap2: "none", "whole" (just read), "used up"
    resd,       \* Smpc::resd
    wake,       \* Sh2::smpc_target_cycles, smpc_wait_for_line of the master
    line,       \* where the picture is: before line 207, after it, in the blank
    store,      \* the store each SH-2 has made and not yet handled
    core7,      \* parked, awake, or the command it executes under the lock
    over,       \* whether the pending command's own wait is over
    idle        \* the SH-2s that read SF clear and armed nothing since

CommandsAssumption ==
    Commands \subseteq {"INTBACK", "SETSMEM", "RESENAB", "RESDISA", "CKCHG352", "MSHON"}

WritersAssumption == Writers \subseteq {"master", "slave"}

regs == <<ireg0, wantsPorts, sr, sf, oreg>>

smpc == <<pending, ready, intback, firstPeri, snap, resd>>

vars == <<regs, smpc, wake, line, store, core7, over, idle>>

Nothing == <<>>

Values == {"0", "status", "break", "continue"}

Locked == core7 \notin {"parked", "awake"}

Init ==
    /\ ireg0 = "0" /\ wantsPorts = FALSE /\ sr = "reset" /\ sf = 0 /\ oreg = "nothing"
    /\ pending = Nothing /\ ready = FALSE
    /\ intback = FALSE /\ firstPeri = FALSE /\ snap = "none"
    /\ resd = TRUE
    /\ wake = "none"
    /\ line = "picture"
    /\ store = [w \in Writers |-> Nothing]
    /\ core7 = "parked"
    /\ over = FALSE
    /\ idle = Writers

-----------------------------------------------------------------------------
\* The SH-2 threads.

May(w) == store[w] = Nothing /\ (Patient => w \in idle)

\* A program goes on with an INTBACK or breaks it once a first chunk came, and
\* asks anew with IREG0 rewritten.
Sensible(v) == v \in {"break", "continue"} => sr \in {"first", "next", "cut"}

\* The store itself; a change of IREG1 needs no handling.
StoreIreg1(w, ports) ==
    /\ May(w)
    /\ wantsPorts' = ports
    /\ UNCHANGED <<ireg0, sr, sf, oreg, smpc, wake, line, store, core7, over, idle>>

StoreIreg0(w, v) ==
    /\ May(w) /\ Sensible(v)
    /\ ireg0' = v
    /\ store' = [store EXCEPT ![w] = <<"IREG0", v>>]
    /\ UNCHANGED <<wantsPorts, sr, sf, oreg, smpc, wake, line, core7, over, idle>>

StoreComreg(w, c) ==
    /\ May(w)
    /\ c = "INTBACK" => ireg0 \in {"0", "status"}
    /\ store' = [store EXCEPT ![w] = <<"COMREG", c>>]
    /\ UNCHANGED <<regs, smpc, wake, line, core7, over, idle>>

\* arm_command: an INTBACK that fetches the ports waits for line 207.
WaitOf(c) ==
    IF c = "INTBACK" /\ (intback \/ (ireg0 = "0" /\ wantsPorts)) THEN "line" ELSE "delay"

\* Arming, and what arm_smpc_wake does: the slave counts nothing.
Arm(w, c) ==
    /\ sf' = 1
    /\ pending' = <<c, WaitOf(c)>>
    /\ ready' = FALSE
    /\ wake' = IF w = "master" THEN WaitOf(c) ELSE wake
    /\ over' = FALSE
    /\ idle' = {}

\* on_register_write for IREG0 while an INTBACK goes on: break or continue.
HandleIreg0(w) ==
    /\ store[w] # Nothing /\ store[w][1] = "IREG0"
    /\ ~Locked
    /\ CASE intback /\ store[w][2] = "break" ->
              /\ intback' = FALSE /\ sr' = "cut" /\ snap' = "none"
              /\ UNCHANGED <<sf, pending, ready, wake, over, idle>>
         [] intback /\ store[w][2] = "continue" ->
              Arm(w, "INTBACK") /\ UNCHANGED <<sr, intback, snap>>
         [] OTHER -> UNCHANGED <<sr, sf, pending, ready, intback, snap, wake, over, idle>>
    /\ store' = [store EXCEPT ![w] = Nothing]
    /\ UNCHANGED <<ireg0, wantsPorts, oreg, firstPeri, resd, line, core7>>

HandleComreg(w) ==
    /\ store[w] # Nothing /\ store[w][1] = "COMREG"
    /\ ~Locked
    /\ Arm(w, store[w][2])
    /\ store' = [store EXCEPT ![w] = Nothing]
    /\ UNCHANGED <<ireg0, wantsPorts, sr, oreg, intback, firstPeri, snap, resd, line, core7>>

\* Mutant: SF is read like any other register, without the lock.
ReadSfUnlocked(w) ==
    /\ store[w] = Nothing /\ w \notin idle
    /\ sf = 0
    /\ idle' = idle \cup {w}
    /\ UNCHANGED <<regs, smpc, wake, line, store, core7, over>>

\* An SH-2 reads SF clear; read_sf takes the lock.
ReadSf(w) ==
    /\ store[w] = Nothing /\ w \notin idle
    /\ ~Locked /\ sf = 0
    /\ idle' = idle \cup {w}
    /\ UNCHANGED <<regs, smpc, wake, line, store, core7, over>>

\* What the master waited for has come: mark_dispatch_ready and the wake.
Dispatch(kind) ==
    IF wake = kind
    THEN /\ wake' = "none"
         /\ ready' = TRUE
         /\ over' = (over \/ (pending # Nothing /\ pending[2] = kind))
         /\ core7' = IF core7 = "parked" THEN "awake" ELSE core7
    ELSE UNCHANGED <<wake, ready, over, core7>>

\* Delays are short against the time between two lines the model tells apart.
DelayOver ==
    /\ wake = "delay" /\ ~Locked
    /\ Dispatch("delay")
    /\ UNCHANGED <<regs, pending, intback, firstPeri, snap, resd, line, store, idle>>

Line207 ==
    /\ line = "picture" /\ ~Locked
    /\ line' = "bottom"
    /\ Dispatch("line")
    /\ UNCHANGED <<regs, pending, intback, firstPeri, snap, resd, store, idle>>

\* The blank ends an INTBACK; core 7 is woken for the CD block.
BlankIn ==
    /\ line = "bottom" /\ ~Locked
    /\ line' = "blank"
    /\ intback' = FALSE /\ snap' = "none"
    /\ core7' = "awake"
    /\ UNCHANGED <<regs, pending, ready, firstPeri, resd, wake, store, over, idle>>

BlankOut ==
    /\ line = "blank"
    /\ line' = "picture"
    /\ UNCHANGED <<regs, smpc, wake, store, core7, over, idle>>

-----------------------------------------------------------------------------
\* Core 7.

\* execute_expired_command begins: SF is cleared before the work is done.
Begin ==
    /\ core7 = "awake"
    /\ IF ready /\ pending # Nothing
       THEN /\ core7' = pending[1]
            /\ pending' = Nothing
            /\ ready' = FALSE
            /\ sf' = 0
       ELSE core7' = "parked" /\ UNCHANGED <<pending, ready, sf>>
    /\ UNCHANGED <<ireg0, wantsPorts, sr, oreg, intback, firstPeri, snap, resd, wake,
                   line, store, over, idle>>

\* INTBACK's status block.
Status ==
    /\ oreg' = "clock" /\ sr' = "status"
    /\ UNCHANGED <<intback, firstPeri, snap>>

\* A chunk of the ports: a first one reads them, a later one goes on with what
\* was read, or with ports that are not connected when there is nothing.
Chunk ==
    LET first == ireg0 = "0" \/ firstPeri
    IN  /\ intback' = (intback \/ ireg0 = "0")
        /\ snap' = "used up"
        /\ oreg' = CASE first -> "ports"
                     [] ~first /\ snap = "none" -> "no ports"
                     [] OTHER -> oreg
        /\ sr' = IF first THEN "first" ELSE "next"
        /\ firstPeri' = FALSE

\* execute_command; the end parks core 7, the CD block having no work.
Finish ==
    /\ Locked
    /\ CASE core7 = "INTBACK" /\ ireg0 = "status" -> Status
         [] core7 = "INTBACK" /\ ireg0 # "status" /\ wantsPorts /\ ireg0 = "break" ->
              /\ intback' = FALSE /\ sr' = "cut"
              /\ UNCHANGED <<oreg, firstPeri, snap>>
         [] core7 = "INTBACK" /\ ireg0 \in {"0", "continue"} /\ wantsPorts -> Chunk
         [] core7 \in {"SETSMEM", "RESENAB", "RESDISA"} ->
              oreg' = "echo" /\ UNCHANGED <<sr, intback, firstPeri, snap>>
         [] OTHER -> UNCHANGED <<oreg, sr, intback, firstPeri, snap>>
    /\ resd' = CASE core7 = "RESENAB" -> FALSE [] core7 = "RESDISA" -> TRUE [] OTHER -> resd
    /\ core7' = "parked"
    /\ sf' = 0
    /\ UNCHANGED <<ireg0, wantsPorts, pending, ready, wake, line, store, over, idle>>

Handles(w) == HandleIreg0(w) \/ HandleComreg(w)

Next ==
    \/ \E w \in Writers :
         \/ \E ports \in BOOLEAN : StoreIreg1(w, ports)
         \/ \E v \in Values : StoreIreg0(w, v)
         \/ \E c \in Commands : StoreComreg(w, c)
         \/ Handles(w)
         \/ ReadSf(w)
    \/ DelayOver \/ Line207 \/ BlankIn \/ BlankOut
    \/ Begin \/ Finish

-----------------------------------------------------------------------------
\* SF is set while a command waits (smpc.rs:559, 581, 784).
BusyWhilePending == pending # Nothing => sf = 1

\* Whoever has read SF clear finds the results complete: nothing is pending and
\* nothing half done, though SF is cleared before the results are written
\* (smpc.rs:573-585, sh2.rs:957-960).
IdleMeansDone == idle # {} => ~Locked /\ pending = Nothing

\* A command is executed only when its own delay is over or its own line has
\* come, whatever else woke core 7 (lib.rs:603-608).
WaitsItsTurn ==
    (~Locked /\ Locked') => over

\* What a break has cut is never gone on with: the next thing in the status
\* register is that of a new request (smpc.rs:376-388, 696-700).
BreakIsFinal ==
    sr = "cut" => sr' # "next"

=============================================================================
