------------------------------ MODULE CdBlock -------------------------------
(***************************************************************************)
(* The stub of the CD block: HIRQ, the command registers, and the clock of *)
(* the drive, which Saturn::advance feeds in batches so that a step does   *)
(* not pay for it. No disc is read: a command is answered at once with the *)
(* status of a paused drive.                                               *)
(***************************************************************************)
EXTENDS Integers

CONSTANTS
    Batch,        \* CD_TICK_BATCH_CYCLES
    Period,       \* SCDQ_PERIOD
    BlockCycles,  \* cycles that a step may take
    MaxClock,     \* bound on the cycles of a run
    Commands, NoCommand  \* words written to the command registers; what they hold before

VARIABLES
    carry,    \* cd_cycle_carry of the machine
    acc,      \* scdq_acc
    hirq,     \* bits of HIRQ that are set
    cmd,      \* CR1-CR4 as written
    executed, \* the last command, commands.last()
    clock,    \* history: cycles of the machine
    pulses    \* history: how often SCDQ was raised

CdAssumption ==
    /\ Batch \in Nat \ {0} /\ Period \in Nat \ {0}
    /\ BlockCycles \subseteq Nat
    \* A step and what may be left of a batch are less than a period.
    /\ \A c \in BlockCycles : c + Batch <= Period
    /\ MaxClock \in Nat

clockVars == <<carry, acc, clock, pulses>>

Flags == {"CMOK", "SCDQ"}

Init ==
    /\ carry = 0 /\ acc = 0 /\ clock = 0 /\ pulses = 0
    /\ hirq = {"CMOK"}
    /\ cmd = [i \in 1 .. 4 |-> NoCommand]
    /\ executed = NoCommand

-----------------------------------------------------------------------------
\* HIRQ keeps the bits that are written as one.
WriteHirq(mask) ==
    /\ hirq' = hirq \cap mask
    /\ UNCHANGED <<clockVars, cmd, executed>>

Execute(c) ==
    /\ executed' = c[1]
    /\ hirq' = hirq \cup {"CMOK"}

\* A word to CRi; the fourth starts the command.
WriteCr(i, v) ==
    /\ cmd' = [cmd EXCEPT ![i] = v]
    /\ IF i = 4 THEN Execute(cmd') ELSE UNCHANGED <<executed, hirq>>
    /\ UNCHANGED clockVars

\* A long is two words: the word after CR1-CR3 counts as the same register, the
\* one after CR4 as none.
WriteCrLong(i, hi, lo) == WriteCr(i, IF i = 4 THEN hi ELSE lo)

-----------------------------------------------------------------------------
Full(c) == carry + c >= Batch

\* Mutant: what is over a period is lost.
TickFromZero(cycles) ==
    /\ acc' = IF acc + cycles >= Period THEN 0 ELSE acc + cycles
    /\ pulses' = pulses + (acc + cycles) \div Period
    /\ hirq' = hirq \cup (IF acc + cycles >= Period THEN {"SCDQ"} ELSE {})

\* tick: one pulse for every period that is full.
Tick(cycles) ==
    /\ acc' = (acc + cycles) % Period
    /\ pulses' = pulses + (acc + cycles) \div Period
    /\ hirq' = hirq \cup (IF acc + cycles >= Period THEN {"SCDQ"} ELSE {})

Advance(c) ==
    /\ clock + c <= MaxClock
    /\ clock' = clock + c
    /\ IF Full(c)
       THEN carry' = 0 /\ Tick(carry + c)
       ELSE carry' = carry + c /\ UNCHANGED <<acc, pulses, hirq>>
    /\ UNCHANGED <<cmd, executed>>

Next ==
    \/ \E mask \in SUBSET Flags : WriteHirq(mask)
    \/ \E i \in 1 .. 4, v \in Commands : WriteCr(i, v)
    \/ \E i \in 1 .. 4, hi, lo \in Commands : WriteCrLong(i, hi, lo)
    \/ \E c \in BlockCycles : Advance(c)

-----------------------------------------------------------------------------
\* No cycle of the drive's clock is lost or counted twice by the batches.
CyclesAreConserved == clock = Period * pulses + acc + carry

\* SCDQ comes a batch late at most and never early.
ScdqIsPunctual ==
    /\ pulses * Period <= clock
    /\ (pulses + 1) * Period > clock - Batch + 1

\* A pulse and the answer to a command show in HIRQ, and only a store to HIRQ takes
\* them back, and only with their bit zero; two pulses never fall into one step,
\* where they would look like one.
FlagsShow ==
    /\ pulses' <= pulses + 1
    /\ pulses' > pulses => "SCDQ" \in hirq'
    /\ cmd'[4] # cmd[4] => "CMOK" \in hirq'
    /\ hirq \ hirq' # {} => UNCHANGED <<clockVars, cmd, executed>>

=============================================================================
