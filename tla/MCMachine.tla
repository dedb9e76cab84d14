------------------------------ MODULE MCMachine ------------------------------
(***************************************************************************)
(* Machine for TLC: three lines of five cycles, two of them visible, with  *)
(* the SCU's own numbers and levels for the interrupts.                    *)
(***************************************************************************)
EXTENDS Machine

MCBits == {0, 1, 2, 7, 11, 13}
MCLevel ==
    [b \in MCBits |-> CASE b = 0 -> 15 [] b = 1 -> 14 [] b = 2 -> 13
                        [] b = 7 -> 8 [] b = 11 -> 5 [] b = 13 -> 2]
MCEndBit == [c \in Channels |-> 11]

\* Only VBlank-in enabled, and everything enabled; everything is masked at first.
MCImsValues == {MCBits \ {0}, {}}
MCIstValues == {{}}
ArmOnly == {{"enable"}}

\* A run about the devices: the program leaves the SCU alone, except that it
\* starts a transfer.
NoValues == {}
StartOnly == {{"enable", "go"}}

=============================================================================
