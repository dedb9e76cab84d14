---------------------------- MODULE Sh2Exceptions ----------------------------
(***************************************************************************)
(* cpu/mod.rs: how a block of the SH-2 ends and how exceptions are entered *)
(* and left.  Only a block's last instruction changes the interrupt mask   *)
(* (decode.rs ends the block at LDC SR, TRAPA and SLEEP, and RTE is a      *)
(* branch), so the mask is constant while a block runs.                    *)
(*                                                                         *)
(* frames is the program's stack, reduced to the frames that               *)
(* enter_exception pushed and RTE has not popped: the mask saved in SR and *)
(* the vector of the entry.                                                *)
(***************************************************************************)
EXTENDS Integers, Sequences

VARIABLES
    imask,     \* bits 7-4 of SR
    sleeping,  \* Sh2Cpu.sleeping
    frames     \* the exception frames on the stack

cpu == <<imask, sleeping, frames>>

CpuType(vectors) ==
    /\ imask \in 0 .. 15
    /\ sleeping \in BOOLEAN
    /\ frames \in Seq([mask : 0 .. 15, vector : vectors])

\* power_on: SR is 0xF0.
CpuInit ==
    /\ imask = 15
    /\ sleeping = FALSE
    /\ frames = <<>>

\* The vectors of the handlers that have not returned.
Entered == {frames[i].vector : i \in DOMAIN frames}

\* What enter_exception pushes.
Saved(vector) == Append(frames, [mask |-> imask, vector |-> vector])

\* EXIT_TRAPA: enter_exception with no new mask.
Trapa(vector) == frames' = Saved(vector) /\ UNCHANGED <<imask, sleeping>>

\* RTE, as the last branch of the handler's last block.
Rte ==
    /\ frames # <<>>
    /\ imask' = frames[Len(frames)].mask
    /\ frames' = SubSeq(frames, 1, Len(frames) - 1)
    /\ UNCHANGED sleeping

\* LDC SR.
LoadMask(m) == imask' = m /\ UNCHANGED <<sleeping, frames>>

\* EXIT_SLEEP.
Sleep == sleeping' = TRUE /\ UNCHANGED <<imask, frames>>

\* Mutant: an interrupt of the mask's own level is accepted.
AcceptsEqual(level) == level >= imask

\* try_interrupt accepts what exceeds the mask.
Accepts(level) == level > imask

\* The accepting path of try_interrupt: enter_exception with a new mask.
Interrupt(level, vector) ==
    /\ Accepts(level)
    /\ sleeping' = FALSE
    /\ frames' = Saved(vector)
    /\ imask' = level

=============================================================================
