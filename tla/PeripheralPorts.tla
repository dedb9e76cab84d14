-------------------------- MODULE PeripheralPorts ---------------------------
(***************************************************************************)
(* What the two controller ports of the first emulator tell a program, in  *)
(* archived peripheral.rs and smpc.rs: INTBACK's report in the output      *)
(* registers, and the nibbles a program polls itself through PDR and DDR.  *)
(***************************************************************************)
EXTENDS Integers, Sequences, FiniteSets

CONSTANTS
    Used,       \* the ports a program and its user do something with
    Kinds,      \* the peripherals plugged in
    Presses,    \* the sets of buttons held
    Angles,     \* the positions of an axis
    Patterns,   \* the bytes written to PDR
    Methods     \* the bytes written to DDR

VARIABLES
    port,     \* Smpc::port1, port2
    oreg,     \* the output registers the last report wrote
    pdr,      \* PDR1, PDR2
    ddr,      \* DDR1, DDR2
    moved     \* whether each port's mouse was moved since the last report

UsedAssumption == Used \subseteq 1 .. 2

KindsAssumption ==
    Kinds \subseteq {"none", "pad", "wheel", "mission", "3d", "twin", "keyboard", "mouse", "gun"}

AnglesAssumption == Angles \subseteq 0 .. 255

BytesAssumption == Patterns \cup Methods \subseteq 0 .. 255

vars == <<port, oreg, pdr, ddr, moved>>

Ports == 1 .. 2

\* The bit of each button, lowest first; serialize_buttons clears it while the
\* button is held.
Byte0 == <<"b", "c", "a", "start", "up", "down", "left", "right">>

Byte1 == <<"", "", "", "l", "z", "y", "x", "r">>

GunByte == <<"", "", "", "", "trigger", "start">>

MouseByte == <<"left", "right", "middle", "start",
               "x sign", "y sign", "x overflow", "y overflow">>

Motion == {"x sign", "y sign", "x overflow", "y overflow"}

Buttons ==
    {"a", "b", "c", "x", "y", "z", "l", "r", "start", "up", "down", "left", "right",
     "trigger", "middle"} \cup Motion

ButtonsAssumption == Presses \subseteq SUBSET Buttons

Bits(held, order) ==
    LET bit(i, weight) == IF i \in DOMAIN order /\ order[i] \in held THEN weight ELSE 0
    IN  bit(1, 1) + bit(2, 2) + bit(3, 4) + bit(4, 8)
            + bit(5, 16) + bit(6, 32) + bit(7, 64) + bit(8, 128)

Serialized(held) == <<255 - Bits(held, Byte0), 255 - Bits(held, Byte1)>>

\* The axes each peripheral has; at rest an axis is in the middle and a mouse
\* has not moved.
Axes(kind) ==
    CASE kind = "wheel" -> 1 [] kind = "mission" -> 3 [] kind = "3d" -> 4
      [] kind = "twin" -> 7 [] kind = "mouse" -> 2 [] OTHER -> 0

Rest(kind) ==
    [kind |-> kind, held |-> {},
     axis |-> [i \in 1 .. Axes(kind) |-> IF kind = "mouse" THEN 0 ELSE 127]]

\* The directions an axis beyond a threshold presses as well.
Synthesized(s) ==
    LET beyond(i, low, high, less, more) ==
            (IF s.axis[i] <= low THEN {less} ELSE {})
            \cup (IF s.axis[i] >= high THEN {more} ELSE {})
    IN  CASE s.kind = "wheel" -> beyond(1, 103, 151, "left", "right")
          [] s.kind \in {"mission", "twin"} ->
               beyond(1, 86, 171, "left", "right") \cup beyond(2, 101, 169, "up", "down")
          [] OTHER -> {}

Report(status, id, size, data) ==
    [status |-> status, id |-> id, size |-> size, data |-> data]

\* to_port_data.  A gun's data are there and not counted.
ToPortData(s) ==
    LET bytes == Serialized(s.held \cup Synthesized(s))
    IN  CASE s.kind = "none" -> Report(240, 0, 0, <<0, 0>>)
          [] s.kind = "pad" -> Report(241, 2, 2, bytes)
          [] s.kind = "wheel" -> Report(241, 19, 3, bytes \o s.axis)
          [] s.kind = "mission" -> Report(241, 21, 5, bytes \o s.axis)
          [] s.kind = "3d" -> Report(241, 22, 6, bytes \o s.axis)
          [] s.kind = "twin" -> Report(241, 25, 9, bytes \o s.axis)
          [] s.kind = "keyboard" -> Report(241, 52, 4, <<255, 248, 6, 0>>)
          [] s.kind = "mouse" -> Report(241, 227, 3, <<Bits(s.held, MouseByte)>> \o s.axis)
          [] s.kind = "gun" -> Report(160, 37, 0, <<124, 255, 255 - Bits(s.held, GunByte)>>)

Flushed(s) ==
    IF s.kind = "mouse" THEN [s EXCEPT !.held = @ \ Motion, !.axis = <<0, 0>>] ELSE s

\* chunk_port_data for ports not yet read: status, then the ID of a peripheral
\* that has one, then the data, as far as the 32 registers go.
PortBytes(r) ==
    <<r.status>> \o (IF r.status \in {240, 160} THEN <<>> ELSE <<r.id>>)
    \o SubSeq(r.data, 1, r.size)

Chunk(first, second) ==
    LET all == PortBytes(first) \o PortBytes(second)
    IN  SubSeq(all, 1, IF Len(all) < 32 THEN Len(all) ELSE 32)

\* ddr_id_nibble, or -1 where PDR is left alone.
DdrId(kind) ==
    CASE kind = "none" -> 127 [] kind \in {"gun", "pad"} -> 124
      [] kind \in {"3d", "keyboard"} -> 113 [] kind = "mouse" -> 112
      [] kind \in {"wheel", "mission", "twin"} -> -1

Bit(n, weight) == (n \div weight) % 2

\* write_pdr: what PDR reads after a program wrote val to it.
Response(p, val) ==
    LET r == ToPortData(port[p])
        method == ddr[p] % 128
        high == (val \div 128) * 128
        pattern == (val \div 32) % 4
    IN  CASE method = 0 /\ port[p].kind = "gun" /\ val % 128 = 127 -> r.data[3]
          [] method = 64 /\ p = 1 /\ Bit(val, 64) = 1 -> 112 + (4 * ((r.data[2] \div 4) % 4))
          [] method = 64 /\ p = 1 /\ Bit(val, 64) = 0 -> 48 + (r.data[1] \div 16)
          [] method = 96 /\ pattern = 3 -> high + 20 + (8 * Bit(r.data[2], 8))
          [] method = 96 /\ pattern = 2 -> high + 16 + (r.data[1] % 16)
          [] method = 96 /\ pattern = 1 -> high + 16 + (r.data[1] \div 16)
          [] method = 96 /\ pattern = 0 -> high + 16 + (r.data[2] \div 16)
          [] OTHER -> pdr[p]

-----------------------------------------------------------------------------
Init ==
    /\ port = <<Rest("pad"), Rest("none")>>
    /\ oreg = <<>>
    /\ pdr = <<0, 0>> /\ ddr = <<0, 0>>
    /\ moved = [p \in Ports |-> FALSE]

\* set_port_peripheral.
Plug(p, kind) ==
    /\ port' = [port EXCEPT ![p] = Rest(kind)]
    /\ moved' = [moved EXCEPT ![p] = FALSE]
    /\ UNCHANGED <<oreg, pdr, ddr>>

\* set_peripheral_state: every other axis mirrors its neighbours.
Move(p, held, angle) ==
    /\ port' = [port EXCEPT ![p] =
           [kind |-> @.kind, held |-> held,
            axis |-> [i \in DOMAIN @.axis |-> IF i % 2 = 1 THEN angle ELSE 255 - angle]]]
    /\ moved' = [moved EXCEPT ![p] = TRUE]
    /\ UNCHANGED <<oreg, pdr, ddr>>

\* The first chunk of an INTBACK.
Intback ==
    /\ oreg' = Chunk(ToPortData(port[1]), ToPortData(port[2]))
    /\ port' = [p \in Ports |-> Flushed(port[p])]
    /\ moved' = [p \in Ports |-> FALSE]
    /\ UNCHANGED <<pdr, ddr>>

WritePdr(p, val) ==
    /\ pdr' = [pdr EXCEPT ![p] = Response(p, val)]
    /\ UNCHANGED <<port, oreg, ddr, moved>>

WriteDdr(p, val) ==
    /\ ddr' = [ddr EXCEPT ![p] = val]
    /\ pdr' = IF DdrId(port[p].kind) = -1 THEN pdr ELSE [pdr EXCEPT ![p] = DdrId(port[p].kind)]
    /\ UNCHANGED <<port, oreg, moved>>

Next ==
    \/ \E p \in Used :
         \/ \E kind \in Kinds : Plug(p, kind)
         \/ \E held \in Presses : \E angle \in Angles : Move(p, held, angle)
         \/ \E val \in Patterns : WritePdr(p, val)
         \/ \E val \in Methods : WriteDdr(p, val)
    \/ Intback

-----------------------------------------------------------------------------
\* How a program reads a report: a status byte, after 241 an ID whose low four
\* bits count the data that follow.
Read1(bytes) ==
    IF bytes = <<>> THEN [data |-> <<>>, rest |-> <<>>]
    ELSE IF bytes[1] # 241 THEN [data |-> <<bytes[1]>>, rest |-> Tail(bytes)]
    ELSE LET n == bytes[2] % 16
         IN  [data |-> SubSeq(bytes, 1, 2 + n), rest |-> SubSeq(bytes, 3 + n, Len(bytes))]

\* A program that reads the report so finds the bytes of each port as it was
\* and nothing else (smpc.rs:788-843, peripheral.rs:343-602).
ReportParses ==
    Intback =>
      LET first == Read1(oreg')
          second == Read1(first.rest)
          expected(s) ==
              LET r == ToPortData(s)
              IN  IF r.status = 241 THEN <<241, r.id>> \o r.data ELSE <<r.status>>
      IN  /\ first.data = expected(port[1]) /\ second.data = expected(port[2])
          /\ second.rest = <<>>

\* The four nibbles a program polls are the two bytes INTBACK reports
\* (smpc.rs:482-493, 729).
PollingAgrees ==
    \A p \in Ports :
        ddr[p] % 128 = 96 /\ port[p].kind \in {"pad", "3d", "wheel", "mission", "twin"} =>
            LET nibble(val) == Response(p, val) % 16
            IN  SubSeq(ToPortData(port[p]).data, 1, 2)
                    = <<(16 * nibble(32)) + nibble(64), (16 * nibble(0)) + nibble(96) + 3>>

\* The motion of a mouse is told once: none is left of what the last report
\* told (peripheral.rs:325-341, smpc.rs:714-721).
MotionToldOnce ==
    \A p \in Ports :
        port[p].kind = "mouse" /\ ~moved[p] =>
            port[p].axis = <<0, 0>> /\ port[p].held \cap Motion = {}

=============================================================================
