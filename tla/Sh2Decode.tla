----------------------------- MODULE Sh2Decode ------------------------------
(***************************************************************************)
(* The two SH-2 decoders of the repository: decode(), whose instructions   *)
(* the JIT compiles, and the chain of matches of the archived              *)
(* interpreter's execute(), in which the first that knows the word ends    *)
(* it. A pattern is a mask, a form that says where the operands stand, and *)
(* the words, by what is left under the mask.                              *)
(***************************************************************************)
EXTENDS Integers, Sequences, FiniteSetsExt

-----------------------------------------------------------------------------
(***************************************************************************)
(* decode().                                                               *)
(***************************************************************************)

Words == 0 .. 65535

N(w) == (w \div 256) % 16

M(w) == (w \div 16) % 16

D4(w) == w % 16

D8(w) == w % 256

Sext8(w) == IF D8(w) >= 128 THEN D8(w) - 256 ELSE D8(w)

Sext12(w) == IF w % 4096 >= 2048 THEN (w % 4096) - 4096 ELSE w % 4096

\* The operands of a word: registers first, then the displacement in bytes.
Operands(form, w) ==
    CASE form = "none" -> <<>>
      [] form = "n" -> <<N(w)>>
      [] form = "mn" -> <<M(w), N(w)>>
      [] form = "nm" -> <<N(w), M(w)>>
      [] form = "m4" -> <<M(w), D4(w)>>
      [] form = "m4x2" -> <<M(w), 2 * D4(w)>>
      [] form = "mn4x4" -> <<M(w), N(w), 4 * D4(w)>>
      [] form = "nm4x4" -> <<N(w), M(w), 4 * D4(w)>>
      [] form = "8" -> <<D8(w)>>
      [] form = "8x2" -> <<2 * D8(w)>>
      [] form = "8x4" -> <<4 * D8(w)>>
      [] form = "n8x2" -> <<N(w), 2 * D8(w)>>
      [] form = "n8x4" -> <<N(w), 4 * D8(w)>>
      [] form = "s8" -> <<Sext8(w)>>
      [] form = "ns8" -> <<N(w), Sext8(w)>>
      [] form = "s8x2" -> <<2 * Sext8(w)>>
      [] form = "s12x2" -> <<2 * Sext12(w)>>

\* w & mask.
Under(mask, w) ==
    CASE mask = \hFFFF -> w
      [] mask = \hFF00 -> w - D8(w)
      [] mask = \hF0FF -> w - 256 * N(w)
      [] mask = \hF00F -> w - 256 * N(w) - 16 * M(w)
      [] mask = \hF000 -> w - (w % 4096)

Pattern(mask, form, words) == [mask |-> mask, form |-> form, words |-> words]

Matches(p, w) == \E x \in p.words : x[1] = Under(p.mask, w)

NameIn(p, w) == (CHOOSE x \in p.words : x[1] = Under(p.mask, w))[2]

Meaning(p, w) == <<NameIn(p, w)>> \o Operands(p.form, w)

Unknown == <<"UNKNOWN">>

-----------------------------------------------------------------------------
\* decode(): a word with the upper nibble 0.
Decode0 == {
    Pattern(\hF0FF, "n", {<<\h0002, "STS SR">>, <<\h0012, "STS GBR">>, <<\h0022, "STS VBR">>,
        <<\h0003, "BSRF">>, <<\h0023, "BRAF">>, <<\h0029, "MOVT">>,
        <<\h000A, "STS MACH">>, <<\h001A, "STS MACL">>, <<\h002A, "STS PR">>}),
    Pattern(\hF00F, "nm", {<<\h0004, "STORE.B R0">>, <<\h0005, "STORE.W R0">>, <<\h0006, "STORE.L R0">>}),
    Pattern(\hF00F, "mn", {<<\h0007, "MUL.L">>, <<\h000C, "LOAD.B R0">>, <<\h000D, "LOAD.W R0">>,
        <<\h000E, "LOAD.L R0">>, <<\h000F, "MAC.L">>}),
    Pattern(\hF0FF, "none", {<<\h0009, "NOP">>, <<\h0019, "DIV0U">>}),
    Pattern(\hFFFF, "none", {<<\h0008, "CLRT">>, <<\h0018, "SETT">>, <<\h0028, "CLRMAC">>,
        <<\h000B, "RTS">>, <<\h001B, "SLEEP">>, <<\h002B, "RTE">>})}

\* Register to register, and by a register: nibbles 2, 3 and 6.
DecodeRegisters == {
    Pattern(\hF00F, "nm", {<<\h2000, "STORE.B">>, <<\h2001, "STORE.W">>, <<\h2002, "STORE.L">>,
        <<\h2004, "STORE.B -">>, <<\h2005, "STORE.W -">>, <<\h2006, "STORE.L -">>}),
    Pattern(\hF00F, "mn", {<<\h2007, "DIV0S">>, <<\h2008, "TST">>, <<\h2009, "AND">>, <<\h200A, "XOR">>,
        <<\h200B, "OR">>, <<\h200C, "CMP/STR">>, <<\h200D, "XTRCT">>, <<\h200E, "MULU.W">>,
        <<\h200F, "MULS.W">>}),
    Pattern(\hF00F, "mn", {<<\h3000, "CMP/EQ">>, <<\h3002, "CMP/HS">>, <<\h3003, "CMP/GE">>,
        <<\h3004, "DIV1">>, <<\h3005, "DMULU">>, <<\h3006, "CMP/HI">>, <<\h3007, "CMP/GT">>,
        <<\h3008, "SUB">>, <<\h300A, "SUBC">>, <<\h300B, "SUBV">>, <<\h300C, "ADD">>,
        <<\h300D, "DMULS">>, <<\h300E, "ADDC">>, <<\h300F, "ADDV">>}),
    Pattern(\hF00F, "mn", {<<\h6000, "LOAD.B">>, <<\h6001, "LOAD.W">>, <<\h6002, "LOAD.L">>,
        <<\h6003, "MOV">>, <<\h6004, "LOAD.B +">>, <<\h6005, "LOAD.W +">>, <<\h6006, "LOAD.L +">>,
        <<\h6007, "NOT">>, <<\h6008, "SWAP.B">>, <<\h6009, "SWAP.W">>, <<\h600A, "NEGC">>,
        <<\h600B, "NEG">>, <<\h600C, "EXTU.B">>, <<\h600D, "EXTU.W">>, <<\h600E, "EXTS.B">>,
        <<\h600F, "EXTS.W">>})}

\* One register: nibble 4.
Decode4 == {
    Pattern(\hF0FF, "n", {<<\h4000, "SHLL">>, <<\h4001, "SHLR">>, <<\h4002, "PUSH MACH">>,
        <<\h4003, "PUSH SR">>, <<\h4004, "ROTL">>, <<\h4005, "ROTR">>, <<\h4006, "POP MACH">>,
        <<\h4007, "POP SR">>, <<\h4008, "SHLL2">>, <<\h4009, "SHLR2">>, <<\h400A, "LDS MACH">>,
        <<\h400B, "JSR">>, <<\h400E, "LDS SR">>,
        <<\h4010, "DT">>, <<\h4011, "CMP/PZ">>, <<\h4012, "PUSH MACL">>, <<\h4013, "PUSH GBR">>,
        <<\h4015, "CMP/PL">>, <<\h4016, "POP MACL">>, <<\h4017, "POP GBR">>, <<\h4018, "SHLL8">>,
        <<\h4019, "SHLR8">>, <<\h401A, "LDS MACL">>, <<\h401B, "TAS">>, <<\h401E, "LDS GBR">>,
        <<\h4020, "SHLL">>, <<\h4021, "SHAR">>, <<\h4022, "PUSH PR">>, <<\h4023, "PUSH VBR">>,
        <<\h4024, "ROTCL">>, <<\h4025, "ROTCR">>, <<\h4026, "POP PR">>, <<\h4027, "POP VBR">>,
        <<\h4028, "SHLL16">>, <<\h4029, "SHLR16">>, <<\h402A, "LDS PR">>, <<\h402B, "JMP">>,
        <<\h402E, "LDS VBR">>}),
    Pattern(\hF00F, "mn", {<<\h400F, "MAC.W">>})}

\* Displacements and immediate values: nibbles 1, 5 and 7 to E.
DecodeImmediate == {
    Pattern(\hF000, "nm4x4", {<<\h1000, "STORE.L D">>}),
    Pattern(\hF000, "mn4x4", {<<\h5000, "LOAD.L D">>}),
    Pattern(\hF000, "ns8", {<<\h7000, "ADDI">>, <<\hE000, "MOVI">>}),
    Pattern(\hFF00, "m4", {<<\h8000, "STORE.B D">>, <<\h8400, "LOAD.B D">>}),
    Pattern(\hFF00, "m4x2", {<<\h8100, "STORE.W D">>, <<\h8500, "LOAD.W D">>}),
    Pattern(\hFF00, "s8", {<<\h8800, "CMP/EQI">>}),
    Pattern(\hFF00, "s8x2", {<<\h8900, "BT">>, <<\h8B00, "BF">>, <<\h8D00, "BT/S">>, <<\h8F00, "BF/S">>}),
    Pattern(\hF000, "n8x2", {<<\h9000, "LOAD.W PC">>}),
    Pattern(\hF000, "s12x2", {<<\hA000, "BRA">>, <<\hB000, "BSR">>}),
    Pattern(\hFF00, "8", {<<\hC000, "STORE.B GBR">>, <<\hC300, "TRAPA">>, <<\hC400, "LOAD.B GBR">>,
        <<\hC800, "TSTI">>, <<\hC900, "ANDI">>, <<\hCA00, "XORI">>, <<\hCB00, "ORI">>,
        <<\hCC00, "TST.B">>, <<\hCD00, "AND.B">>, <<\hCE00, "XOR.B">>, <<\hCF00, "OR.B">>}),
    Pattern(\hFF00, "8x2", {<<\hC100, "STORE.W GBR">>, <<\hC500, "LOAD.W GBR">>}),
    Pattern(\hFF00, "8x4", {<<\hC200, "STORE.L GBR">>, <<\hC600, "LOAD.L GBR">>, <<\hC700, "MOVA">>}),
    Pattern(\hF000, "n8x4", {<<\hD000, "LOAD.L PC">>})}

Patterns == Decode0 \cup DecodeRegisters \cup Decode4 \cup DecodeImmediate

Meanings(w) == {Meaning(p, w) : p \in {q \in Patterns : Matches(q, w)}}

Decode(w) == IF Meanings(w) = {} THEN Unknown ELSE CHOOSE x \in Meanings(w) : TRUE

-----------------------------------------------------------------------------
(***************************************************************************)
(* execute(), and what the interpreter charges, get_base_cycles(), which   *)
(* asks the same questions once more.                                      *)
(***************************************************************************)

\* Up to the first match of nibble 0.
Execute0 == <<
    Pattern(\hFF00, "8", {<<\hC300, "TRAPA">>}),
    Pattern(\hF0FF, "none", {<<\h0009, "NOP">>, <<\h000B, "RTS">>, <<\h0018, "SETT">>, <<\h0008, "CLRT">>,
        <<\h0019, "DIV0U">>, <<\h0028, "CLRMAC">>, <<\h001B, "SLEEP">>, <<\h002B, "RTE">>}),
    Pattern(\hF0FF, "n", {<<\h0023, "BRAF">>, <<\h0003, "BSRF">>, <<\h0002, "STS SR">>,
        <<\h0012, "STS GBR">>, <<\h0022, "STS VBR">>, <<\h000A, "STS MACH">>, <<\h001A, "STS MACL">>,
        <<\h002A, "STS PR">>, <<\h0029, "MOVT">>}),
    Pattern(\hF00F, "nm", {<<4, "STORE.B R0">>, <<5, "STORE.W R0">>, <<6, "STORE.L R0">>}),
    Pattern(\hF00F, "mn", {<<7, "MUL.L">>, <<12, "LOAD.B R0">>, <<13, "LOAD.W R0">>, <<14, "LOAD.L R0">>,
        <<15, "MAC.L">>})>>

\* Words known by their upper nibble or their upper byte.
ExecuteUpper == <<
    Pattern(\hF000, "nm4x4", {<<\h1000, "STORE.L D">>}),
    Pattern(\hF000, "mn4x4", {<<\h5000, "LOAD.L D">>}),
    Pattern(\hF000, "ns8", {<<\h7000, "ADDI">>, <<\hE000, "MOVI">>}),
    Pattern(\hF000, "n8x2", {<<\h9000, "LOAD.W PC">>}),
    Pattern(\hF000, "s12x2", {<<\hA000, "BRA">>, <<\hB000, "BSR">>}),
    Pattern(\hF000, "n8x4", {<<\hD000, "LOAD.L PC">>}),
    Pattern(\hFF00, "s8", {<<\h8800, "CMP/EQI">>}),
    Pattern(\hFF00, "s8x2", {<<\h8900, "BT">>, <<\h8B00, "BF">>, <<\h8D00, "BT/S">>, <<\h8F00, "BF/S">>}),
    Pattern(\hFF00, "8", {<<\hC800, "TSTI">>, <<\hC900, "ANDI">>, <<\hCA00, "XORI">>, <<\hCB00, "ORI">>,
        <<\hC000, "STORE.B GBR">>, <<\hC400, "LOAD.B GBR">>,
        <<\hCC00, "TST.B">>, <<\hCD00, "AND.B">>, <<\hCE00, "XOR.B">>, <<\hCF00, "OR.B">>}),
    Pattern(\hFF00, "8x2", {<<\hC100, "STORE.W GBR">>, <<\hC500, "LOAD.W GBR">>}),
    Pattern(\hFF00, "8x4", {<<\hC700, "MOVA">>, <<\hC200, "STORE.L GBR">>, <<\hC600, "LOAD.L GBR">>})>>

\* One register.  SHAL does what SHLL does.
Execute4 == <<
    Pattern(\hF0FF, "n", {
        <<\h4000, "SHLL">>, <<\h4001, "SHLR">>, <<\h4004, "ROTL">>, <<\h4005, "ROTR">>,
        <<\h4008, "SHLL2">>, <<\h4009, "SHLR2">>, <<\h400B, "JSR">>, <<\h4010, "DT">>,
        <<\h4011, "CMP/PZ">>, <<\h4015, "CMP/PL">>, <<\h4018, "SHLL8">>, <<\h4019, "SHLR8">>,
        <<\h401B, "TAS">>, <<\h4020, "SHLL">>, <<\h4021, "SHAR">>, <<\h4024, "ROTCL">>,
        <<\h4025, "ROTCR">>, <<\h4028, "SHLL16">>, <<\h4029, "SHLR16">>, <<\h402B, "JMP">>})>>

System == <<"MACH", "MACL", "PR">>

Control == <<"SR", "GBR", "VBR">>

ExecuteSystem == <<
    Pattern(\hF0FF, "n", UNION {
        {<<\h400A + 16 * (k - 1), "LDS " \o System[k]>>, <<\h4006 + 16 * (k - 1), "POP " \o System[k]>>,
         <<\h4002 + 16 * (k - 1), "PUSH " \o System[k]>>, <<\h400E + 16 * (k - 1), "LDS " \o Control[k]>>,
         <<\h4007 + 16 * (k - 1), "POP " \o Control[k]>>, <<\h4003 + 16 * (k - 1), "PUSH " \o Control[k]>>}
        : k \in 1 .. 3})>>

\* Two registers, and what is left of the words that begin with 8.
Sizes == <<"B", "W", "L">>

ExecuteRegisters == <<
    Pattern(\hF00F, "nm", UNION {
        {<<\h2000 + k - 1, "STORE." \o Sizes[k]>>, <<\h2004 + k - 1, "STORE." \o Sizes[k] \o " -">>}
        : k \in 1 .. 3}),
    Pattern(\hF00F, "mn", UNION {
        {<<\h6000 + k - 1, "LOAD." \o Sizes[k]>>, <<\h6004 + k - 1, "LOAD." \o Sizes[k] \o " +">>}
        : k \in 1 .. 3}),
    Pattern(\hF00F, "mn", {<<\h2007, "DIV0S">>, <<\h2008, "TST">>, <<\h2009, "AND">>, <<\h200A, "XOR">>,
        <<\h200B, "OR">>, <<\h200C, "CMP/STR">>, <<\h200D, "XTRCT">>, <<\h200E, "MULU.W">>,
        <<\h200F, "MULS.W">>, <<\h3000, "CMP/EQ">>, <<\h3002, "CMP/HS">>, <<\h3003, "CMP/GE">>,
        <<\h3004, "DIV1">>, <<\h3006, "CMP/HI">>, <<\h3007, "CMP/GT">>, <<\h3008, "SUB">>,
        <<\h300A, "SUBC">>, <<\h300B, "SUBV">>, <<\h300C, "ADD">>, <<\h300D, "DMULS">>,
        <<\h300E, "ADDC">>, <<\h300F, "ADDV">>, <<\h3005, "DMULU">>, <<\h400F, "MAC.W">>,
        <<\h6003, "MOV">>, <<\h6007, "NOT">>, <<\h6008, "SWAP.B">>, <<\h6009, "SWAP.W">>,
        <<\h600A, "NEGC">>, <<\h600B, "NEG">>, <<\h600C, "EXTU.B">>, <<\h600D, "EXTU.W">>,
        <<\h600E, "EXTS.B">>, <<\h600F, "EXTS.W">>}),
    Pattern(\hFF00, "m4", {<<\h8000, "STORE.B D">>, <<\h8400, "LOAD.B D">>}),
    Pattern(\hFF00, "m4x2", {<<\h8100, "STORE.W D">>, <<\h8500, "LOAD.W D">>})>>

\* Mutant: the words of one register are asked for under the mask of those of two.
ChainLoose ==
    Execute0 \o ExecuteUpper \o <<[Execute4[1] EXCEPT !.mask = \hF00F]>> \o ExecuteSystem
        \o ExecuteRegisters

Chain == Execute0 \o ExecuteUpper \o Execute4 \o ExecuteSystem \o ExecuteRegisters

Execute(w) ==
    LET hits == {k \in DOMAIN Chain : Matches(Chain[k], w)}
    IN  IF hits = {} THEN Unknown ELSE Meaning(Chain[Min(hits)], w)

-----------------------------------------------------------------------------
Is(mask, words, w) == Under(mask, w) \in words

\* get_base_cycles, without the branches that depend on T.
Charged(w, t) ==
    IF Is(\hFF00, {\hC300}, w) THEN 8
    ELSE IF Is(\hF0FF, {\h401B, \h002B}, w) THEN 4
    ELSE IF \/ Is(\hF0FF, {\h4007, \h4017, \h4027, \h001B}, w)
            \/ Is(\hFF00, {\hCC00, \hCD00, \hCE00, \hCF00}, w)
            \/ Is(\hF00F, {\h000F, \h400F}, w) THEN 3
    ELSE IF \/ Is(\hF0FF, {\h4003, \h4013, \h4023, \h402B, \h400B, \h000B, \h0023, \h0003}, w)
            \/ Is(\hF000, {\hA000, \hB000}, w)
            \/ Is(\hF00F, {\h0007, \h300D, \h3005}, w) THEN 2
    ELSE 1

BaseCycles(w, t) ==
    CASE Is(\hFF00, {\h8900}, w) -> IF t = 1 THEN 3 ELSE 1
      [] Is(\hFF00, {\h8B00}, w) -> IF t = 0 THEN 3 ELSE 1
      [] Is(\hFF00, {\h8D00}, w) -> IF t = 1 THEN 2 ELSE 1
      [] Is(\hFF00, {\h8F00}, w) -> IF t = 0 THEN 2 ELSE 1
      [] OTHER -> Charged(w, t)

=============================================================================
