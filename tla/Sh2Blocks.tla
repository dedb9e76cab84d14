----------------------------- MODULE Sh2Blocks ------------------------------
(***************************************************************************)
(* How the JIT turns a run of SH-2 instructions into one block: where the  *)
(* block ends, what a branch computes before its delay slot and what       *)
(* after, and what leaves the block by an exceptional exit. Beside it, as  *)
(* the specification, a machine that executes one instruction at a time    *)
(* and takes a branch after the instruction behind it, and the archived    *)
(* interpreter, which runs the slot inside the branch.                     *)
(***************************************************************************)
EXTENDS Integers, Sequences

CONSTANTS
    Words,       \* number of instruction words; an address counts words
    MaxBlock,    \* MAX_BLOCK_INSNS
    Codes,       \* programs: functions from addresses to instructions
    Stack        \* what an RTE finds at the top of the stack: pc and T

VARIABLES
    code,
    cpu,       \* registers between two blocks
    block      \* history: registers before the last block, and what it charged and ran

BlockAssumption ==
    /\ \E n \in 1 .. Words : Words = 2 * n
    /\ MaxBlock \in Nat \ {0}
    /\ Stack \in [pc : 0 .. Words - 1, t : {0, 1}]

vars == <<code, cpu, block>>

At(a) == code[a % Words]

Immediate == {"BRA", "BSR", "BT", "BF", "BT/S", "BF/S"}

ByRegister == {"BRAF", "BSRF", "JMP", "JSR"}

IsBranch(i) == i.op \in Immediate \cup ByRegister \cup {"RTS", "RTE"}

HasDelaySlot(i) == IsBranch(i) /\ i.op \notin {"BT", "BF"}

EndsBlock(i) == i.op \in {"LDC SR", "TRAPA", "SLEEP", "UNKNOWN"}

Linear(i) == ~IsBranch(i) /\ (~EndsBlock(i) \/ i.op = "LDC SR")

Cost(i) ==
    CASE i.op = "MAC" -> 3
      [] i.op \in {"BRA", "BSR", "BRAF", "BSRF", "JMP", "JSR", "RTS"} -> 2
      [] i.op = "RTE" -> 4
      [] OTHER -> 1

Running == [reason |-> "none", arg |-> 0]

\* The instructions that read pc: MOV.W @(disp, PC), and MOVA with MOV.L @(disp, PC),
\* which go by longs.  A word that is loaded is named by its address.
PcRelative == {"MOV.W PC", "MOVA"}

\* The address such an instruction makes if it takes itself to be at a.
Literal(i, a) ==
    (IF i.op = "MOVA" THEN (a - (a % 2)) + 2 + 2 * i.imm ELSE a + 2 + i.imm) % Words

\* What a linear instruction at a does, as far as branches can see it: a register, PR
\* or T is written.
Insn(s, i, a) ==
    CASE i.op = "MOV" -> [s EXCEPT !.r = (@ + i.imm) % Words]
      [] i.op \in PcRelative -> [s EXCEPT !.r = Literal(i, a)]
      [] i.op = "LDS PR" -> [s EXCEPT !.pr = s.r]
      [] i.op \in {"CMP", "LDC SR"} -> [s EXCEPT !.t = i.imm % 2]
      [] i.op = "MOVT" -> [s EXCEPT !.r = s.t]
      [] OTHER -> s

\* emit_exit.
Exit(s, reason, arg, next) ==
    [s EXCEPT !.exit = [reason |-> reason, arg |-> arg], !.pc = next % Words]

-----------------------------------------------------------------------------
\* The delay slot at a: a linear instruction, or an illegal exit that ends the block.
Slot(s, a) ==
    IF Linear(At(a)) THEN Insn(s, At(a), a) ELSE Exit(s, "illegal", a % Words, a)

Calls == {"BSR", "BSRF", "JSR"}

\* What a branch changes before its slot runs.
BeforeSlot(s, i, a) ==
    CASE i.op \in Calls -> [s EXCEPT !.pr = (a + 2) % Words]
      [] i.op = "RTE" -> [s EXCEPT !.sp = @ + 1]
      [] OTHER -> s

Taken(i, t) == ~(i.op \in {"BT", "BT/S"} /\ t = 0) /\ ~(i.op \in {"BF", "BF/S"} /\ t = 1)

\* Where a branch at a leads, from the registers s.
Target(s, i, a) ==
    (CASE i.op \in Immediate -> IF Taken(i, s.t) THEN a + 2 + i.disp
                                ELSE IF HasDelaySlot(i) THEN a + 2 ELSE a + 1
       [] i.op \in {"BRAF", "BSRF"} -> a + 2 + s.r
       [] i.op \in {"JMP", "JSR"} -> s.r
       [] i.op = "RTS" -> s.pr
       [] OTHER -> Stack.pc) % Words

\* Mutant: the target is read after the slot has run.
BranchLate(s, i, a) ==
    LET t == Slot(BeforeSlot(s, i, a), a + 1)
    IN  IF ~HasDelaySlot(i) THEN [s EXCEPT !.pc = Target(s, i, a)]
        ELSE IF t.exit # Running THEN t
        ELSE [t EXCEPT !.pc = Target(t, i, a), !.t = IF i.op = "RTE" THEN Stack.t ELSE @]

\* emit_branch: the target from the registers before the slot, then the slot, then
\* the jump; SR comes back from the stack at the very end.
Branch(s, i, a) ==
    LET t == Slot(BeforeSlot(s, i, a), a + 1)
    IN  IF ~HasDelaySlot(i) THEN [s EXCEPT !.pc = Target(s, i, a)]
        ELSE IF t.exit # Running THEN t
        ELSE [t EXCEPT !.pc = Target(s, i, a), !.t = IF i.op = "RTE" THEN Stack.t ELSE @]

\* An instruction that leaves the block by itself.
Leave(s, i, a) ==
    CASE i.op = "UNKNOWN" -> Exit(s, "illegal", a % Words, a)
      [] i.op = "TRAPA" -> Exit(s, "trapa", i.imm, a + 1)
      [] i.op = "SLEEP" -> Exit(s, "sleep", 0, a + 1)

EndsHere(i, count) == EndsBlock(i) \/ count >= MaxBlock

\* A branch brings its slot.
WordsOf(i) == IF HasDelaySlot(i) THEN 2 ELSE 1

\* The block from s.pc, instruction by instruction: [s, a, count, cycles, done].
Compiled(s0) ==
    LET after[n \in 0 .. MaxBlock] ==
            IF n = 0 THEN [s |-> s0, a |-> s0.pc, count |-> 0, cycles |-> 0, done |-> FALSE]
            ELSE LET b == after[n - 1]
                     i == At(b.a)
                     c == [b EXCEPT !.count = @ + 1, !.cycles = @ + Cost(i)]
                 IN  IF b.done THEN b
                     ELSE IF IsBranch(i)
                     THEN [c EXCEPT !.s = Branch(b.s, i, b.a), !.done = TRUE,
                                    !.a = @ + WordsOf(i),
                                    !.count = @ + (IF HasDelaySlot(i) THEN 1 ELSE 0),
                                    !.cycles = @ + (IF HasDelaySlot(i) THEN Cost(At(b.a + 1)) ELSE 0)]
                     ELSE IF EndsBlock(i) /\ i.op # "LDC SR"
                     THEN [c EXCEPT !.s = Leave(b.s, i, b.a), !.done = TRUE, !.a = @ + 1]
                     ELSE LET t == Insn(b.s, i, b.a)
                          IN  [c EXCEPT !.s = [t EXCEPT !.pc = (b.a + 1) % Words],
                                        !.a = @ + 1, !.done = EndsHere(i, c.count)]
    IN  after[MaxBlock]

-----------------------------------------------------------------------------
Init ==
    /\ code \in Codes
    /\ cpu = [pc |-> 0, r |-> 0, pr |-> 0, t |-> 0, sp |-> 0, exit |-> Running]
    /\ block = [from |-> cpu, count |-> 0, cycles |-> 0, end |-> 0]

\* The dispatcher runs the block at pc; an exceptional exit is handled before the
\* next one, and all that matters here is that it is cleared.
RunBlock ==
    LET c == Compiled([cpu EXCEPT !.exit = Running, !.sp = 0])
    IN  /\ cpu' = c.s
        /\ block' = [from |-> [cpu EXCEPT !.exit = Running, !.sp = 0],
                     count |-> c.count, cycles |-> c.cycles, end |-> c.a]
        /\ UNCHANGED code

Next == RunBlock

Spec == Init /\ [][Next]_vars

-----------------------------------------------------------------------------
\* The specification: one instruction, at pc.  A branch is remembered and taken
\* when the next instruction is done.
OneInsn(z) ==
    LET s == z.s
        i == At(s.pc)
        goes == z.branch # <<>>
        stepped == [s EXCEPT !.pc = (@ + 1) % Words]
    IN  IF s.exit # Running THEN z
        ELSE IF goes /\ ~Linear(i)
        THEN [z EXCEPT !.s = Exit(s, "illegal", s.pc, s.pc), !.cycles = @ + Cost(i), !.ran = @ + 1]
        ELSE IF IsBranch(i)
        THEN IF HasDelaySlot(i)
             THEN [s |-> [stepped EXCEPT !.pr = IF i.op \in Calls THEN (s.pc + 2) % Words ELSE @,
                                         !.sp = IF i.op = "RTE" THEN @ + 1 ELSE @],
                   branch |-> <<Target(s, i, s.pc), i.op = "RTE">>,
                   cycles |-> z.cycles + Cost(i), ran |-> z.ran + 1]
             ELSE [z EXCEPT !.s.pc = Target(s, i, s.pc), !.cycles = @ + Cost(i), !.ran = @ + 1]
        ELSE IF EndsBlock(i) /\ i.op # "LDC SR"
        THEN [z EXCEPT !.s = Leave(s, i, s.pc), !.cycles = @ + Cost(i), !.ran = @ + 1]
        ELSE LET t == Insn(stepped, i, s.pc)
             IN  [s |-> IF goes THEN [t EXCEPT !.pc = z.branch[1],
                                               !.t = IF z.branch[2] THEN Stack.t ELSE @]
                        ELSE t,
                  branch |-> <<>>, cycles |-> z.cycles + Cost(i), ran |-> z.ran + 1]

OneByOne(s, n) ==
    LET z[k \in 0 .. n] ==
            IF k = 0 THEN [s |-> s, branch |-> <<>>, cycles |-> 0, ran |-> 0]
            ELSE OneInsn(z[k - 1])
    IN  z[n]

\* A block does exactly what its instructions do one by one, each of them once, with
\* the branch taken after its slot unless the slot is illegal: same registers, same
\* next pc, same exit, and the cycles of all of them.
BlockIsItsInstructions ==
    LET z == OneByOne(block.from, block.count)
    IN  block.count > 0 =>
            /\ cpu = z.s
            /\ z.branch = <<>> \/ cpu.exit.reason = "illegal"
            /\ block.cycles = z.cycles /\ z.ran = block.count

\* A block never runs past an instruction that may let an interrupt in: whoever
\* writes SR or leaves the block is its last, or its branch's slot.
EndsAtSr ==
    \A k \in 0 .. block.count - 1 :
        EndsBlock(At(block.from.pc + k)) =>
            \/ k = block.count - 1
            \/ block.from.pc + k + 1 = block.end

\* The words that the cache files the block under are those it was made from.
RangeIsWhatRan == block.count > 0 => block.end = block.from.pc + block.count

-----------------------------------------------------------------------------
(***************************************************************************)
(* The branches of the archived interpreter: pc is already at the word     *)
(* before the target when the slot runs, and an instruction that reads pc  *)
(* takes itself to be at the word before pc.                               *)
(***************************************************************************)

\* delay_slot_and_jump: the word at pc, a linear instruction here.
DelaySlotAndJump(s, target) ==
    LET before == [s EXCEPT !.pc = (target - 1) % Words]
    IN  [Insn(before, At(s.pc), before.pc - 1) EXCEPT !.pc = (@ + 1) % Words]

\* Relative to pc, which is one word past the branch.
Relative(s, disp) == s.pc + 1 + disp

\* execute() of a branch; s.pc has been advanced past it.
ExecuteBranch(s, i) ==
    LET called == [s EXCEPT !.pr = (s.pc + 1) % Words]
    IN  CASE i.op \in {"BT", "BF"} ->
               IF Taken(i, s.t) THEN [s EXCEPT !.pc = Relative(s, i.disp) % Words] ELSE s
          [] i.op \in {"BT/S", "BF/S"} ->
               IF Taken(i, s.t) THEN DelaySlotAndJump(s, Relative(s, i.disp)) ELSE s
          [] i.op = "BRA" -> DelaySlotAndJump(s, Relative(s, i.disp))
          [] i.op = "BSR" -> DelaySlotAndJump(called, Relative(s, i.disp))
          [] i.op = "BRAF" -> DelaySlotAndJump(s, Relative(s, s.r))
          [] i.op = "BSRF" -> DelaySlotAndJump(called, Relative(s, s.r))
          [] i.op = "JMP" -> DelaySlotAndJump(s, s.r)
          [] i.op = "JSR" -> DelaySlotAndJump(called, s.r)
          [] i.op = "RTS" -> DelaySlotAndJump(s, s.pr)
          [] i.op = "RTE" ->
               DelaySlotAndJump([s EXCEPT !.sp = @ + 1, !.t = Stack.t], Stack.pc)

\* step(), for branches and linear instructions.
Stepped(s) ==
    LET i == At(s.pc)
        fetched == [s EXCEPT !.pc = (@ + 1) % Words]
    IN  IF IsBranch(i) THEN ExecuteBranch(fetched, i) ELSE Insn(fetched, i, fetched.pc - 1)

Steps(s, n) ==
    LET z[k \in 0 .. n] == IF k = 0 THEN s ELSE Stepped(z[k - 1])
    IN  z[n]

-----------------------------------------------------------------------------
\* The last word that is not a slot of the block before.
LastBranch == At(block.end - (IF HasDelaySlot(At(block.end - 2)) /\ block.count > 1 THEN 2 ELSE 1))

SlotTaken ==
    HasDelaySlot(LastBranch) /\ Taken(LastBranch, OneByOne(block.from, block.count - 2).s.t)

\* The interpreter runs a slot whose branch was not taken as the next instruction; it
\* is one step less for a branch that was.
StepsOf == IF SlotTaken THEN block.count - 1 ELSE block.count

\* In the slot of a branch that is taken the two read another pc: the block that of the
\* slot, the interpreter that of the word two before the target.
ReadAtTarget(s) ==
    IF SlotTaken /\ At(block.end - 1).op \in PcRelative
    THEN [s EXCEPT !.r = Literal(At(block.end - 1), s.pc - 2)] ELSE s

\* The interpreter and the translated block, two implementations with a different idea
\* of when pc changes, end with the same registers at the same address, but for the
\* register that a slot loads relative to pc, where each has what its own pc gives.
\* Left out are blocks that end by an exceptional exit, and an RTE whose slot reads or
\* writes T: the interpreter, as its hardware reference says, restores SR before the
\* slot.
InterpreterAgrees ==
    \/ block.count = 0 \/ cpu.exit # Running
    \/ LastBranch.op = "RTE" /\ At(block.end - 1).op \in {"CMP", "LDC SR", "MOVT"}
    \/ Steps(block.from, StepsOf) = ReadAtTarget(cpu)

=============================================================================
