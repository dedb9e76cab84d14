------------------------------- MODULE Vdp2 ---------------------------------
(***************************************************************************)
(* The scroll screens of the first emulator's VDP2 (archived vdp2.rs,      *)
(* vdp2_regs.rs and vdp.rs's render_frame): settings, cells, dots,         *)
(* blending and the buffers.                                               *)
(***************************************************************************)
EXTENDS Integers, FiniteSets

CONSTANTS
    Values,     \* the words written
    MaxWrites,  \* the writes followed
    Before,     \* what the program has in BGON before them
    Scrolls,    \* the scroll values, for either direction
    Across,     \* the pixels drawn of a line
    Down,       \* the lines drawn
    Offsets,    \* the map offset, already in place: multiples of 64
    Bytes,      \* the plane numbers in the map registers
    Kinds,      \* among "small", "large" and "bitmap"
    Flips,      \* the flip bits: 1 for left and right, 2 for up and down
    Strides,    \* the widths of the bitmap
    Reach,      \* the pixels walked
    Levels,     \* the channel values of the pixels, 0 .. 31
    Alphas,     \* the six-bit ratios
    Samples,    \* the places of the buffer looked at
    Priorities  \* the priorities the screen may be given

VARIABLES
    regs,                               \* the words that are not 0, by offset
    writes,
    big,                                \* cells of 16 by 16 pixels, not 8 by 8
    words,                              \* patterndatasize
    planew, planeh,
    offset,                             \* mpofn
    map,                                \* the bytes of planes A to D
    scx, scy,
    cellX, cellY,                       \* the next pixel of the window
    check,                              \* oldcellcheck: a set of at most one cell
    pipe,                               \* the address kept for that cell
    kind, flip, stride,
    size,                               \* the bits of a dot
    dotX, dotY,                         \* the pixel
    read,                               \* where the last dot began, in bits from the character: at most one
    top, topAlpha, flag,                \* the upper pixel; flag is bit 31
    lower, lowerAlpha, isBack,          \* the lower one, or the back screen's colour
    add, bottom, enabled,               \* CCCTL bits 8 and 9 and the upper layer's own
    special,                            \* SFCCMD
    out, outAlpha, done,
    hreso, vreso, lsmd, disp, priority, \* the registers of line 0
    on,                                 \* the screen is shown: enabled and not suppressed
    stored,                             \* the priority in the buffer, by place
    fresh,                              \* the places drawn in this frame
    height                              \* of the frame last drawn, 0 before the first

-----------------------------------------------------------------------------
(***************************************************************************)
(* Where the four screens read their settings: a table of register, lowest *)
(* bit and width for each setting and screen, over a register file the     *)
(* program writes word by word.                                            *)
(***************************************************************************)

ValuesAssumption == Values \subseteq 0 .. 65535

MaxWritesAssumption == MaxWrites \in Nat

BeforeAssumption == Before \subseteq 0 .. 65535

Screens == 0 .. 3

F(at, low, width) == [at |-> at, low |-> low, width |-> width]

\* BGON, PLSZ and the four-bit groups: a place per screen in one register.
On(s) == F(32, s, 1)

OpaqueBit(s) == F(32, 8 + s, 1)

PlaneSize(s) == F(58, 2 * s, 2)

MapOffset(s) == F(60, 4 * s, 3)

ColourOffset(s) == F(228, 4 * s, 3)

\* CHCTLA serves screens 0 and 1, CHCTLB screens 2 and 3.
CellSize(s) == CASE s = 0 -> F(40, 0, 1) [] s = 1 -> F(40, 8, 1)
                 [] s = 2 -> F(42, 0, 1) [] s = 3 -> F(42, 4, 1)

Bitmap(s) == CASE s = 0 -> F(40, 1, 1) [] s = 1 -> F(40, 9, 1) [] s > 1 -> F(40, 0, 0)

BitmapSize(s) == CASE s = 0 -> F(40, 2, 2) [] s = 1 -> F(40, 10, 2) [] s > 1 -> F(40, 0, 0)

ColourCount(s) == CASE s = 0 -> F(40, 4, 3) [] s = 1 -> F(40, 12, 2)
                [] s = 2 -> F(42, 1, 1) [] s = 3 -> F(42, 5, 1)

\* A register per screen: the pattern names' control word and the planes.
Supplement(s) == F(48 + 2 * s, 0, 5)

AuxMode(s) == F(48 + 2 * s, 14, 1)

OneWord(s) == F(48 + 2 * s, 15, 1)

PlanesAB(s) == F(64 + 4 * s, 0, 16)

PlanesCD(s) == F(66 + 4 * s, 0, 16)

\* Screens 0 and 1 have fractions and zoom between their scroll words.
ScrollX(s) == F(CASE s = 0 -> 112 [] s = 1 -> 128 [] s = 2 -> 144 [] s = 3 -> 148, 0, 11)

ScrollY(s) == F(CASE s = 0 -> 114 [] s = 1 -> 130 [] s = 2 -> 146 [] s = 3 -> 150, 0, 11)

\* PRINA and PRINB, CCRNA and CCRNB: the odd screen in the high half. For the
\* ratios CCRNA serves screens 2 and 3, the even one in the high half.
Priority(s) == F(248 + 2 * (s \div 2), 8 * (s % 2), 3)

RatioField(s) == F(IF s < 2 THEN 266 ELSE 264, IF s % 2 = 0 THEN 8 ELSE 0, 5)

Settings(s) ==
    {On(s), OpaqueBit(s), PlaneSize(s), MapOffset(s), ColourOffset(s), CellSize(s), Bitmap(s),
     BitmapSize(s), ColourCount(s), Supplement(s), AuxMode(s), OneWord(s), PlanesAB(s), PlanesCD(s),
     ScrollX(s), ScrollY(s), Priority(s), RatioField(s)}

\* The sprite screen's: CRAOFB and SPCTL.
SpriteOffset == F(202, 4, 3)

SpriteRgb == F(240, 5, 1)

\* The registers written: those read above, and the ones the manual names.
Registers ==
    {f.at : f \in UNION {Settings(s) : s \in Screens} \cup {SpriteOffset, SpriteRgb}}
        \cup {116, 132, 224, 230}

WordAt(at) == IF at \in DOMAIN regs THEN regs[at] ELSE 0

Read(f) == (WordAt(f.at) \div 2 ^ f.low) % 2 ^ f.width

\* What a screen sees of a register.
View(s, at) == {<<f, Read(f)>> : f \in {g \in Settings(s) : g.at = at}}

Enabled(s) == Read(On(s)) = 1

Colours(s) == Read(ColourCount(s))

\* Mutant: screen 1 puts 3 out even when it is not there itself.
SuppressedByHidden(s) ==
    \/ s > 0 /\ Enabled(0) /\ Colours(0) = 4
    \/ s = 2 /\ Enabled(0) /\ Colours(0) >= 2
    \/ s = 3 /\ Colours(1) >= 2

\* Many colours of screen 0 or 1 take the place of later screens: 2048 or more on 0
\* that of 2, and on 1 that of 3; the 16 million of screen 0 that of all.
Suppressed(s) ==
    \/ s > 0 /\ Enabled(0) /\ Colours(0) = 4
    \/ s = 2 /\ Enabled(0) /\ Colours(0) >= 2
    \/ s = 3 /\ Enabled(1) /\ Colours(1) >= 2

\* The screens render_frame draws.
Shown(s) == Enabled(s) /\ ~Suppressed(s)

RegistersInit ==
    /\ \E b \in Before : regs = [at \in {On(0).at} |-> b]
    /\ writes = 0

\* A write of a word by the program.
Write ==
    /\ writes < MaxWrites
    /\ writes' = writes + 1
    /\ \E at \in Registers, v \in Values :
        regs' = [a \in DOMAIN regs \cup {at} |-> IF a = at THEN v ELSE regs[a]]

RegistersNext == Write

-----------------------------------------------------------------------------
\* No bit sets two screens: a write that differs in one bit is seen by one screen's
\* settings at most, though many registers are shared by all four. Another screen can
\* only come or go with it, and then it comes after screen 0 or 1, which the write set.
EachBitOneScreen ==
    \A at \in DOMAIN regs' : LET d == WordAt(at)' - WordAt(at)
    IN  (\E n \in 0 .. 15 : d = 2 ^ n /\ (WordAt(at) \div 2 ^ n) % 2 = 0) =>
            LET set == {s \in Screens : View(s, at)' # View(s, at)}
            IN  /\ Cardinality(set) <= 1
                /\ \A s \in Screens \ set : Shown(s)' # Shown(s) => \E t \in set : t < 2 /\ t < s

\* No screen is put out for one that is not there: although screen 1 takes the place
\* of 3 even when screen 0 has put it out itself.
SuppressedByTheShown ==
    \A s \in Screens : Suppressed(s) => \E t \in {0, 1} : t < s /\ Shown(t) /\ Colours(t) >= 2

-----------------------------------------------------------------------------
(***************************************************************************)
(* How a screen finds the pattern name of each pixel (map_calc_xy with     *)
(* calc_plane_addr, under render_nbg_layer's loops): four planes of one,   *)
(* two or four pages of 512 pixels, and an address worked out once per     *)
(* cell and kept.                                                          *)
(***************************************************************************)

ScrollsAssumption == Scrolls \subseteq 0 .. 2047

SizesAssumption == Across \in Nat \ {0} /\ Down \in Nat \ {0}

OffsetsAssumption == Offsets \subseteq {64 * n : n \in 0 .. 7}

BytesAssumption == Bytes \subseteq 0 .. 255

setup == <<big, words, planew, planeh, offset, map, scx, scy>>

CellsInit ==
    /\ big \in BOOLEAN /\ words \in {1, 2}
    /\ planew \in {1, 2} /\ planeh \in {1, 2} /\ planeh <= planew
    /\ offset \in Offsets
    /\ \E a, d \in Bytes : map = <<a, (a + 1) % 256, (a + 2) % 256, d>>
    /\ scx \in Scrolls /\ scy \in Scrolls
    /\ cellX = 0 /\ cellY = 0 /\ check = {} /\ pipe = 0

PageSide == 512

Vram == 524288

CellPixels == IF big THEN 16 ELSE 8

PageCells == PageSide \div CellPixels

PageBytes == PageCells * PageCells * 2 * words

\* The number, cut to the pages the memory has, counts planes of this size.
PlaneNumber(n) == (n % (Vram \div PageBytes)) \div (planew * planeh)

\* map_offset | plane_byte, which overlap in bits 6 and 7.
Common(m, n, bit) == IF (m \div bit) % 2 = 1 /\ (n \div bit) % 2 = 1 THEN bit ELSE 0

Joined(m, n) == (m + n) - (Common(m, n, 64) + Common(m, n, 128))

PlaneAddress(n) == PlaneNumber(Joined(offset, map[n + 1])) * planew * planeh * PageBytes

\* The coordinates of a pixel on the screen of two by two planes.
SX == (cellX + scx) % (2 * planew * PageSide)

SY == (cellY + scy) % (2 * planeh * PageSide)

Plane(px, py) == 2 * (py \div (planeh * PageSide)) + px \div (planew * PageSide)

\* The cells of a plane: page by page, and row by row in a page.
CellIndex(px, py) ==
    LET page == planew * ((py % (planeh * PageSide)) \div PageSide) + (px % (planew * PageSide)) \div PageSide
    IN  page * PageCells * PageCells + PageCells * ((py % PageSide) \div CellPixels) + (px % PageSide) \div CellPixels

NameAddress(px, py) == PlaneAddress(Plane(px, py)) + 2 * words * CellIndex(px, py)

Cell(px, py) == <<py \div CellPixels, px \div CellPixels>>

\* map_calc_xy for the next pixel: a new cell's address is worked out and kept.
Lookup ==
    IF check = {Cell(SX, SY)} THEN UNCHANGED <<check, pipe>>
    ELSE check' = {Cell(SX, SY)} /\ pipe' = NameAddress(SX, SY)

Pixel ==
    /\ cellY < Down /\ cellX < Across
    /\ Lookup
    /\ cellX' = cellX + 1
    /\ UNCHANGED <<setup, cellY>>

NextCellLine ==
    /\ cellY < Down /\ cellX = Across
    /\ cellX' = 0 /\ cellY' = cellY + 1
    /\ UNCHANGED <<setup, check, pipe>>

CellsNext == Pixel \/ NextCellLine

-----------------------------------------------------------------------------
\* The pixel last looked up.
LX == (cellX + scx - 1) % (2 * planew * PageSide)

LY == (cellY + scy) % (2 * planeh * PageSide)

Looked == cellX > 0 /\ cellY < Down

\* The address kept is that of the pixel's own cell, whatever pixels came
\* before: at the ends of lines, pages, planes and of the screen.
CacheIsFresh == Looked => pipe = NameAddress(LX, LY)

\* From the address alone the cell can be told: page, row and column, inside
\* the plane the pixel is on.  So no two cells of a plane share a name.
AddressNamesCell ==
    Looked =>
        LET index == (pipe - PlaneAddress(Plane(LX, LY))) \div (2 * words)
            page == index \div (PageCells * PageCells)
            row == (index \div PageCells) % PageCells
            column == index % PageCells
        IN  /\ index >= 0 /\ page < planew * planeh
            /\ (LX % (planew * PageSide)) \div CellPixels = (page % planew) * PageCells + column
            /\ (LY % (planeh * PageSide)) \div CellPixels = (page \div planew) * PageCells + row

\* The four planes are all there are, and with the memory of 4 Mbit every name
\* lies in it: nothing is looked up behind the table or the memory.
InTheTable == Looked => Plane(LX, LY) \in 0 .. 3 /\ pipe + 2 * words <= Vram

-----------------------------------------------------------------------------
(***************************************************************************)
(* Which dot of a character or a bitmap a pixel shows (fetch_pixel):       *)
(* pixels walked line by line over one character, turned over or not.      *)
(***************************************************************************)

KindsAssumption == Kinds \subseteq {"small", "large", "bitmap"}

FlipsAssumption == Flips \subseteq 0 .. 3

StridesAssumption == Strides \subseteq {8, 512, 1024}

ReachAssumption == Reach \in Nat \ {0}

DotsInit ==
    /\ kind \in Kinds
    /\ flip \in (IF kind = "bitmap" THEN {0} ELSE Flips)
    /\ stride \in (IF kind = "bitmap" THEN Strides ELSE {8})
    /\ size \in {4, 8, 16, 32}
    /\ dotX = 0 /\ dotY = 0 /\ read = {}

\* The row of an upper or a lower cell, turned over or not: the lower cells
\* are the third and the fourth.
LargeRow(py) ==
    IF flip \div 2 = 1 THEN (IF py % 16 >= 8 THEN 15 - (py % 16) ELSE 23 - (py % 16))
    ELSE IF py % 16 >= 8 THEN (py % 16) + 8 ELSE py % 16

\* The right-hand cells are the second and the fourth.
LargeRight(px) == ((px % 16) \div 8 = 1) # (flip % 2 = 1)

Column(px) == IF flip % 2 = 1 THEN 7 - (px % 8) ELSE px % 8

Row(py, px) ==
    IF kind = "large" THEN LargeRow(py) + (IF LargeRight(px) THEN 8 ELSE 0)
    ELSE IF flip \div 2 = 1 THEN 7 - (py % 8) ELSE py % 8

\* A bitmap's pixels go the same way as a small cell's.
Address(px, py) == (Row(py, px) * stride + Column(px)) * size

Dot ==
    /\ dotX < Reach
    /\ read' = {Address(dotX, dotY)}
    /\ dotX' = dotX + 1
    /\ UNCHANGED <<kind, flip, stride, size, dotY>>

NextDotLine ==
    /\ dotX = Reach /\ dotY + 1 < Reach
    /\ dotX' = 0 /\ dotY' = dotY + 1 /\ read' = {}
    /\ UNCHANGED <<kind, flip, stride, size>>

DotsNext == Dot \/ NextDotLine

-----------------------------------------------------------------------------
CharacterSide == IF kind = "large" THEN 16 ELSE 8

\* Turning over is what it says: a pixel of the turned character shows the dot
\* its mirror image shows in the one that is not turned.
TurnedIsMirrored ==
    kind # "bitmap" /\ dotX > 0 =>
        LET mx == IF flip % 2 = 1 THEN (CharacterSide - 1) - ((dotX - 1) % CharacterSide) ELSE (dotX - 1) % CharacterSide
            my == IF flip \div 2 = 1 THEN (CharacterSide - 1) - (dotY % CharacterSide) ELSE dotY % CharacterSide
            cell == (IF mx >= 8 THEN 1 ELSE 0) + (IF my >= 8 THEN 2 ELSE 0)
        IN  read = {size * (64 * cell + 8 * (my % 8) + (mx % 8))}

-----------------------------------------------------------------------------
(***************************************************************************)
(* How two pixels are put together (the second half of dig_pixel and       *)
(* blend_pixels, with the back screen render_frame hands over): by the     *)
(* upper pixel's ratio, by the lower one's, or by adding.                  *)
(***************************************************************************)

LevelsAssumption == Levels \subseteq 0 .. 31

AlphasAssumption == Alphas \subseteq 0 .. 63

OpaqueAlpha == 63

ColourTriples == [r : Levels, g : Levels, b : Levels]

blendVars == <<top, topAlpha, flag, lower, lowerAlpha, isBack, add, bottom, enabled, special, out, outAlpha, done>>

given == <<top, topAlpha, flag, lower, lowerAlpha, isBack, add, bottom, enabled, special>>

BlendInit ==
    /\ top \in ColourTriples /\ lower \in ColourTriples
    /\ topAlpha \in Alphas /\ lowerAlpha \in Alphas
    /\ flag \in BOOLEAN /\ isBack \in BOOLEAN
    /\ add \in BOOLEAN /\ bottom \in BOOLEAN /\ enabled \in BOOLEAN
    /\ special \in {0, 3}
    /\ out = top /\ outAlpha = topAlpha /\ done = FALSE

\* rgb555_to_xrgb8888: a channel's high bits are repeated below.
Eight(c) == 8 * c + c \div 4

Word24(c) == 65536 * Eight(c.r) + 256 * Eight(c.g) + Eight(c.b)

\* What blend_pixels takes the lower pixel's channels for: three fields of
\* five bits, although the back screen is already a word of three bytes.
Taken == IF isBack THEN [r |-> Word24(lower) % 32, g |-> (Word24(lower) \div 32) % 32, b |-> (Word24(lower) \div 1024) % 32]
         ELSE lower

Ratio255(a) == 4 * a + 3

\* A channel mixed by a ratio out of 255.
Mixed(t, l, a) == (t * Ratio255(a) + l * (255 - Ratio255(a))) \div 255

Mix(a) == [k \in {"r", "g", "b"} |-> Mixed(top[k], Taken[k], a)]

Sums == [k \in {"r", "g", "b"} |-> IF top[k] + Taken[k] > 31 THEN 31 ELSE top[k] + Taken[k]]

\* dig_pixel's choice of the mode; adding goes before the lower ratio.
Adds == add /\ enabled /\ flag

ByBottom == ~Adds /\ bottom /\ enabled /\ flag

ByTop == ~Adds /\ ~ByBottom /\ topAlpha < OpaqueAlpha

Blends == special = 0 \/ flag

Add ==
    /\ ~done /\ Blends /\ Adds
    /\ out' = Sums /\ outAlpha' = OpaqueAlpha
    /\ done' = TRUE /\ UNCHANGED given

Bottom ==
    /\ ~done /\ Blends /\ ByBottom
    /\ out' = Mix(lowerAlpha) /\ outAlpha' = topAlpha
    /\ done' = TRUE /\ UNCHANGED given

Top ==
    /\ ~done /\ Blends /\ ByTop
    /\ out' = Mix(topAlpha) /\ outAlpha' = OpaqueAlpha
    /\ done' = TRUE /\ UNCHANGED given

Keep ==
    /\ ~done /\ (~Blends \/ ~(Adds \/ ByBottom \/ ByTop))
    /\ done' = TRUE /\ UNCHANGED <<given, out, outAlpha>>

BlendNext == Add \/ Bottom \/ Top \/ Keep

-----------------------------------------------------------------------------
Over == done /\ ~isBack

Lesser(m, n) == IF m < n THEN m ELSE n

Greater(m, n) == IF m < n THEN n ELSE m

\* A mixed channel lies between the two it is mixed from, and a sum is not
\* darker than either; none leaves its five bits.
ChannelsBounded ==
    Over => \A k \in {"r", "g", "b"} :
        /\ out[k] <= 31
        /\ out[k] >= Lesser(top[k], lower[k])
        /\ ~Adds => out[k] <= Greater(top[k], lower[k])
        /\ Blends /\ Adds => out[k] >= Greater(top[k], lower[k])

-----------------------------------------------------------------------------
(***************************************************************************)
(* A screen's buffer from frame to frame (render_frame and                 *)
(* resolution_from_tvmd; LayerBuffers): the buffers outlive the frame, and *)
(* how much of them it uses depends on its resolution. A pixel of priority *)
(* 0 is not there.                                                         *)
(***************************************************************************)

SamplesAssumption == Samples \subseteq Nat

PrioritiesAssumption == Priorities \subseteq 0 .. 7

BufferLength == 704 * 512

bufferVars == <<hreso, vreso, lsmd, disp, on, priority, stored, fresh, height>>

registers == <<hreso, vreso, lsmd, disp, on, priority>>

BufferInit ==
    /\ hreso = 0 /\ vreso = 0 /\ lsmd = 0
    /\ disp = FALSE /\ on = FALSE /\ priority = 0
    /\ stored = [i \in Samples |-> 0]
    /\ fresh = {} /\ height = 0

\* A word written to TVMD: the fourth code of the height keeps the code before.
WordHeight(code) == IF code = 3 THEN vreso ELSE code

\* TVMD is written, as a word or in a long or by bytes, which store what they are given.
WriteMode ==
    /\ hreso' \in 0 .. 3 /\ lsmd' \in {0, 3} /\ disp' \in BOOLEAN
    /\ \E code \in 0 .. 3 : vreso' \in {WordHeight(code), code}
    /\ UNCHANGED <<on, priority, stored, fresh, height>>

\* The screen comes or goes, by its own bit or by another's colours, or is given a
\* priority.
WriteScreen ==
    /\ \/ on' \in BOOLEAN /\ UNCHANGED priority
       \/ priority' \in Priorities /\ UNCHANGED on
    /\ UNCHANGED <<hreso, vreso, lsmd, disp, stored, fresh, height>>

Width == CASE hreso = 0 -> 320 [] hreso = 1 -> 352 [] hreso = 2 -> 640 [] hreso = 3 -> 704

Lines == CASE vreso = 0 -> 224 [] vreso = 1 -> 240 [] vreso > 1 -> 256

Height == IF lsmd = 3 THEN 2 * Lines ELSE Lines

Size == Width * Height

\* clear_frame: every buffer, as far as this frame goes.
Cleared(i) == IF i < Size THEN 0 ELSE stored[i]

\* render_frame: cleared, then drawn where the screen, if it is shown, is not
\* transparent.
Render ==
    /\ \E opaque \in SUBSET {i \in Samples : i < Size} :
        LET drawn == IF disp /\ on THEN opaque ELSE {}
        IN  /\ stored' = [i \in Samples |-> IF i \in drawn THEN priority ELSE Cleared(i)]
            /\ fresh' = drawn
    /\ height' = Height
    /\ UNCHANGED registers

BufferNext == WriteMode \/ WriteScreen \/ Render

-----------------------------------------------------------------------------
\* What a frame shows of the screen was drawn in that frame, even after frames
\* of another size had left pixels behind it in the buffer.
NothingStale ==
    Render => \A i \in Samples : i < Size /\ stored'[i] > 0 => i \in fresh'

\* The largest frame just fits into the buffers.
FrameFits == Size <= BufferLength

=============================================================================
