---------------------------- MODULE MCInterrupts ----------------------------
(***************************************************************************)
(* Interrupts for TLC: VBlank-in and the ends of two transfers of one level, *)
(* with their bits and levels on the machine.                              *)
(***************************************************************************)
EXTENDS Interrupts

MCBits == {0, 9, 10}
MCLevel == [b \in MCBits |-> IF b = 0 THEN 15 ELSE 6]
MCEndBit == [c \in Channels |-> IF c = 1 THEN 10 ELSE 9]
MCEnables == {{}, {"enable"}, {"enable", "go"}}

=============================================================================
