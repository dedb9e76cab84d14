------------------------------ MODULE FreshFetch ------------------------------
(***************************************************************************)
(* What the block cache of the JIT promises: the CPU behaves as if every   *)
(* block were translated at the moment it is entered, from the memory as   *)
(* it stands then and in the trace mode that is on then.  There is no      *)
(* cache, no tracking and no invalidation in this specification.           *)
(*                                                                         *)
(* The snapshot is per block and not per instruction: a block that writes  *)
(* over its own instructions goes on with the ones it started with.  Which *)
(* stores are made is not part of the promise: the memory may change in    *)
(* any way at any instruction and between any two blocks.                  *)
(***************************************************************************)
EXTENDS GuestMemory

CONSTANT CodeAddrs    \* the addresses at which blocks are entered

VARIABLES
    mem,     \* what the memories hold
    trace,   \* whether blocks call the tracer
    run      \* the block being executed, Idle between two blocks

vars == <<mem, trace, run>>

Idle == [pc |-> 0, words |-> <<>>, traced |-> FALSE, done |-> 0]

Init ==
    /\ mem \in PowerOn
    /\ trace = FALSE
    /\ run = Idle

Enter(pc) ==
    /\ run = Idle
    /\ \E n \in 1 .. MaxBlock + 1 :
          /\ IsBlock(WordsFrom(mem, pc, n))
          /\ run' = [pc |-> pc, words |-> WordsFrom(mem, pc, n),
                     traced |-> trace, done |-> 0]
    /\ UNCHANGED <<mem, trace>>

Execute ==
    /\ run # Idle
    /\ run.done < Len(run.words)
    /\ run' = [run EXCEPT !.done = @ + 1]
    /\ mem' \in [Cells -> Words]
    /\ UNCHANGED trace

Leave ==
    /\ run # Idle
    /\ run.done = Len(run.words)
    /\ run' = Idle
    /\ UNCHANGED <<mem, trace>>

StoreBetweenBlocks ==
    /\ run = Idle
    /\ mem' \in [Cells -> Words]
    /\ UNCHANGED <<trace, run>>

SetTrace ==
    /\ run = Idle
    /\ trace' = ~trace
    /\ UNCHANGED <<mem, run>>

Next ==
    \/ \E pc \in CodeAddrs : Enter(pc)
    \/ Execute
    \/ Leave
    \/ StoreBetweenBlocks
    \/ SetTrace

Spec == Init /\ [][Next]_vars

=============================================================================
