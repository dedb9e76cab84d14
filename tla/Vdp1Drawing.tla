---------------------------- MODULE Vdp1Drawing -----------------------------
(***************************************************************************)
(* What VDP1's commands leave in the frame buffer (archived vdp.rs): the   *)
(* pixels of a line, the corners and texels of a sprite or polygon, which  *)
(* pixels of a span are written, and what colour.                          *)
(***************************************************************************)
EXTENDS Integers, FiniteSets

CONSTANTS
    Reach,           \* the farthest corner, along either axis
    MaxSpan,         \* the longest line drawn at all (999)
    CornerShades,    \* the shades at a corner, out of 0 .. 31
    Commands,        \* records of the fields of a command that place it
    LocalX, LocalY,  \* the local coordinates in force
    ClipX, ClipY,    \* the system clipping in force
    Fields,          \* which lines are drawn: "both" fields, or "even" or "odd" ones alone
    Width,           \* the pixels of the span
    Zooms,           \* how many pixels a texel may be stretched over
    Meshes,          \* whether the mesh is on: a subset of BOOLEAN
    Clips,           \* the user clipping: records of on, invert, and the columns x1, x2
    Words,           \* the words found in the frame buffer and in the commands
    Shades           \* the Gouraud words

VARIABLES
    field,       \* FBCR's DIE and DIL
    to,          \* the line goes from the origin to here
    lineShades,  \* the shades of its ends
    pos,         \* current_x, current_y
    err,         \* a
    red,         \* the shade's accumulator, in steps of 1 (16 more bits are always 0)
    left,        \* the pixels before the last one
    plotted,     \* the pixels, in order of drawing: a set of <<index, x, y>>
    lineDone,
    cmd,
    quad,        \* the corners: tl, tr, bl, br, each <<x, y>>
    quadRow,     \* i
    landed,      \* the rows of the frame buffer drawn so far: a set of <<row, line>>
    side,        \* left_x and right_x, as 16.16
    acc,         \* the pixel of the row, counted from lx, and tex_x_acc
    phase,       \* "issued", "row", "pixel", "done"
    texel,       \* the texels of the row, by column
    zoom, code, spd, ecd, mesh, clip,
    odd,         \* the parity of x + y at the span's first pixel
    pixel,       \* the next pixel, counted from lx
    ends,        \* end_codes_in_span
    last,        \* last_tex_x: a set of at most one column
    written,     \* the pixels written
    spanDone,
    bpp8,        \* the frame buffer is one of bytes (TVMR bit 0)
    under,       \* the frame buffer's word or byte before
    over,        \* and now
    colour, shade,
    shape, calc, msb,
    drawn

-----------------------------------------------------------------------------
(***************************************************************************)
(* The lines that are drawn, for lines and quadrangles alike. In double    *)
(* interlace the picture has twice the lines, a frame buffer holds every   *)
(* other one, and the system clipping is twice as high.                    *)
(***************************************************************************)

FieldsAssumption == Fields \subseteq {"both", "even", "odd"}

Interlace == IF field = "both" THEN 1 ELSE 2

\* sys_y2.
SysY == ClipY * Interlace

\* DIL set draws the odd lines, DIL clear the even ones.
InField(y) ==
    CASE field = "both" -> TRUE
      [] field = "even" -> y % 2 = 0
      [] field = "odd" -> y % 2 = 1

\* Inside the system clipping, and of the field.
Visible(x, y) == x \in 0 .. ClipX /\ y \in 0 .. SysY /\ InField(y)

\* y_actual: the row of the frame buffer, in which the user clipping counts too.
BufferRow(y) == y \div Interlace

-----------------------------------------------------------------------------
(***************************************************************************)
(* A line (draw_line_impl): a step per pixel along the longer axis, an     *)
(* error term for the other, and one channel of the Gouraud shade. Pixels  *)
(* are counted. A polyline is four lines that share their corners.         *)
(***************************************************************************)

ReachAssumption == Reach \in Nat

MaxSpanAssumption == MaxSpan \in Nat

CornerShadesAssumption == CornerShades \subseteq 0 .. 31

lineVars == <<field, to, lineShades, pos, err, red, left, plotted, lineDone>>

Abs(n) == IF n < 0 THEN -n ELSE n

Sign(n) == IF n > 0 THEN 1 ELSE IF n < 0 THEN -1 ELSE 0

Larger(m, n) == IF m > n THEN m ELSE n

\* Division as the code's: towards zero.
Quotient(m, n) == Sign(m) * Sign(n) * (Abs(m) \div Abs(n))

\* interpolate: the step of n equal ones, and 1 for none.
Interpolate(from, till, n) == IF n = 0 THEN 1 ELSE Quotient(till - from, n)

Adx == Abs(to[1])

Ady == Abs(to[2])

Len == Larger(Adx, Ady)

RStep == Interpolate(lineShades[1], lineShades[2], Len)

Ends == (-Reach .. Reach) \X (-Reach .. Reach)

LineInit ==
    /\ field \in Fields
    /\ to \in Ends /\ lineShades \in CornerShades \X CornerShades
    /\ pos = <<0, 0>>
    /\ err = Larger(Adx, Ady) \div 2
    /\ red = lineShades[1]
    /\ left = Len
    /\ plotted = {}
    /\ lineDone = (Adx > MaxSpan \/ Ady > MaxSpan)

\* putpixel, after the shade has moved on.
Plot(p) ==
    /\ red' = red + RStep
    /\ plotted' = plotted \cup {<<Cardinality(plotted), p[1], p[2]>>}
    /\ UNCHANGED <<field, to, lineShades>>

\* The other axis moves when the error term has reached the length.
Steps(along, across) == err + across >= along

PixelX ==
    /\ ~lineDone /\ left > 0 /\ Adx > Ady
    /\ Plot(pos)
    /\ pos' = <<pos[1] + Sign(to[1]), pos[2] + (IF Steps(Adx, Ady) THEN Sign(to[2]) ELSE 0)>>
    /\ err' = (err + Ady) - (IF Steps(Adx, Ady) THEN Adx ELSE 0)
    /\ left' = left - 1
    /\ UNCHANGED lineDone

PixelY ==
    /\ ~lineDone /\ left > 0 /\ Adx <= Ady
    /\ Plot(pos)
    /\ pos' = <<pos[1] + (IF Steps(Ady, Adx) THEN Sign(to[1]) ELSE 0), pos[2] + Sign(to[2])>>
    /\ err' = (err + Adx) - (IF Steps(Ady, Adx) THEN Ady ELSE 0)
    /\ left' = left - 1
    /\ UNCHANGED lineDone

\* The end of the line is drawn wherever the steps have led.
Last ==
    /\ ~lineDone /\ left = 0
    /\ Plot(to)
    /\ lineDone' = TRUE
    /\ UNCHANGED <<pos, err, left>>

LineNext == PixelX \/ PixelY \/ Last

-----------------------------------------------------------------------------
\* The error term is exact: the steps lead to the end, so that the last pixel
\* continues the line and is no second pixel of its place.
StepsReachTheEnd == left = 0 => pos = to

\* No pixel is more than half a pixel off the true line.
NearTheLine == \A p \in plotted : 2 * Abs(p[3] * to[1] - p[2] * to[2]) <= Len

\* A drawn line has a pixel for each step of its longer axis and the end, and
\* none of them twice.
EachPixelOnce ==
    lineDone /\ Len <= MaxSpan =>
        /\ Cardinality(plotted) = Len + 1
        /\ Cardinality({<<p[2], p[3]>> : p \in plotted}) = Len + 1

\* The pixels of a line that are visible get a place each in the frame buffer, the two
\* fields between them a place for every line: none is drawn over another.
PlacesAreApart ==
    \A p, q \in {p \in plotted : Visible(p[2], p[3])} :
        p[2] = q[2] /\ BufferRow(p[3]) = BufferRow(q[3]) => p = q

\* On a line no longer than the shades differ by, the truncated step keeps the
\* shade on the way: it never goes past the end by more than a step.
ShadeStaysBetween ==
    lineDone /\ Len \in 1 .. MaxSpan =>
        IF lineShades[1] <= lineShades[2] THEN red <= lineShades[2] + RStep ELSE red >= lineShades[2] + RStep

-----------------------------------------------------------------------------
(***************************************************************************)
(* A sprite or polygon: the corners that a command means, and draw_quad's  *)
(* walk over rows and pixels with the texel each pixel shows, in the 16.16 *)
(* arithmetic of the code.                                                 *)
(***************************************************************************)

quadVars == <<field, cmd, quad, quadRow, landed, side, acc, phase>>

One == 65536

\* wrapping_add of two i16.
Wrapped(n) == ((n + 32768) % 65536) - 32768

Local(x, y) == <<Wrapped(x + LocalX), Wrapped(y + LocalY)>>

Rectangle(o, w, h) ==
    [tl |-> o, tr |-> <<o[1] + w - 1, o[2]>>,
     bl |-> <<o[1], o[2] + h - 1>>, br |-> <<o[1] + w - 1, o[2] + h - 1>>]

-----------------------------------------------------------------------------
\* A normal sprite is as large as its character.
Normal(c) == Rectangle(Local(c.xa, c.ya), c.cw, c.ch)

\* The zoom point's column and row: 5, 6, 7 / 9, A, B / D, E, F.
Anchored(zp) == zp \in {5, 6, 7, 9, 10, 11, 13, 14, 15}

ZoomColumn(zp) == zp % 4

\* How far the origin is from the anchor, along one axis.
Back(place, size) == IF place = 1 THEN 0 ELSE IF place = 2 THEN Quotient(size, 2) ELSE size

\* A scaled sprite hangs on its zoom point, or runs from A to C.
Scaled(c) ==
    LET o == Local(c.xa, c.ya) IN
    IF Anchored(c.zp)
    THEN Rectangle(<<o[1] - Back(ZoomColumn(c.zp), c.xb), o[2] - Back(c.zp \div 4, c.yb)>>,
                   c.xb + 1, c.yb + 1)
    ELSE Rectangle(o, (c.xc - o[1]) + LocalX + 1, (c.yc - o[2]) + LocalY + 1)

\* A distorted sprite or a polygon has its four corners given.
Distorted(c) ==
    [tl |-> Local(c.xa, c.ya), tr |-> Local(c.xb, c.yb),
     br |-> Local(c.xc, c.yc), bl |-> Local(c.xd, c.yd)]

Corners(c) == CASE c.shape = "normal" -> Normal(c)
                [] c.shape = "scaled" -> Scaled(c)
                [] c.shape = "quad" -> Distorted(c)

\* The trivial reject: all corners on one side of the system clipping.
Outside(q) ==
    \/ \A k \in DOMAIN q : q[k][1] < 0
    \/ \A k \in DOMAIN q : q[k][1] > ClipX
    \/ \A k \in DOMAIN q : q[k][2] < 0
    \/ \A k \in DOMAIN q : q[k][2] > SysY

-----------------------------------------------------------------------------
LenLeft == quad.bl[2] - quad.tl[2]

LenRight == quad.br[2] - quad.tr[2]

Total == Larger(Larger(LenLeft, LenRight), 0)

\* The row of the character that row i shows; bit 1 of dir flips it.
YTexStep == (cmd.ch * One) \div (Total + 1)

TexY == LET y == (quadRow * YTexStep) \div One
        IN  IF cmd.dir \in {2, 3} THEN Larger(cmd.ch - 1 - y, 0) ELSE y

Lx == side[1] \div One

Rx == side[2] \div One

\* The step along a span is divided by the steps between its pixels.
XTexStep == (cmd.cw * One) \div Larger(Rx - Lx, 1)

TexX == LET x == acc[2] \div One
        IN  IF cmd.dir \in {1, 3} THEN Larger(cmd.cw - 1 - x, 0) ELSE x

QuadInit ==
    /\ field \in Fields /\ cmd \in Commands
    /\ quad = Corners(cmd)
    /\ quadRow = 0 /\ landed = {} /\ side = <<0, 0>> /\ acc = <<0, 0>>
    /\ phase = "issued"

Reject == phase = "issued" /\ Outside(quad) /\ phase' = "done"
          /\ UNCHANGED <<field, cmd, quad, quadRow, landed, side, acc>>

Accept ==
    /\ phase = "issued" /\ ~Outside(quad)
    /\ side' = <<quad.tl[1] * One, quad.tr[1] * One>>
    /\ phase' = "row"
    /\ UNCHANGED <<field, cmd, quad, quadRow, landed, acc>>

\* A row begins: its line is outside, of the other field, or has a row of the buffer.
StartRow ==
    /\ phase = "row" /\ quadRow <= Total
    /\ LET y == quad.tl[2] + quadRow
       IN  landed' = landed \cup IF y \in 0 .. SysY /\ InField(y) THEN {<<BufferRow(y), y>>} ELSE {}
    /\ phase' = "pixel" /\ acc' = <<0, 0>>
    /\ UNCHANGED <<field, cmd, quad, quadRow, side>>

Pixel ==
    /\ phase = "pixel" /\ Lx + acc[1] <= Rx
    /\ acc' = <<acc[1] + 1, acc[2] + XTexStep>>
    /\ UNCHANGED <<field, cmd, quad, quadRow, landed, side, phase>>

\* The sides move by whole pixels: interpolate divides, and then is shifted.
NextRow ==
    /\ phase = "pixel" /\ Lx + acc[1] > Rx
    /\ side' = <<side[1] + Interpolate(quad.tl[1], quad.bl[1], LenLeft) * One,
                 side[2] + Interpolate(quad.tr[1], quad.br[1], LenRight) * One>>
    /\ quadRow' = quadRow + 1
    /\ phase' = "row"
    /\ UNCHANGED <<field, cmd, quad, landed, acc>>

End == phase = "row" /\ quadRow > Total /\ phase' = "done"
       /\ UNCHANGED <<field, cmd, quad, quadRow, landed, side, acc>>

QuadNext == Reject \/ Accept \/ StartRow \/ Pixel \/ NextRow \/ End

-----------------------------------------------------------------------------
\* The pixel about to be drawn, if there is one.
Drawing == phase = "pixel" /\ Lx + acc[1] <= Rx

\* A normal sprite shows each texel of its character at its own pixel, turned
\* round for the flips: the truncated 16.16 steps neither repeat nor skip one.
NormalOneToOne ==
    Drawing /\ cmd.shape = "normal" =>
        /\ TexX = (IF cmd.dir \in {1, 3} THEN cmd.cw - 1 - acc[1] ELSE acc[1])
        /\ TexY = (IF cmd.dir \in {2, 3} THEN cmd.ch - 1 - quadRow ELSE quadRow)

\* No pixel shows a texel from outside the character, at any zoom and turned any way,
\* but the last of a span that divides the character evenly: not turned round it
\* shows the column behind the last one.
TexelsInTheCharacter ==
    Drawing =>
        /\ TexY \in 0 .. cmd.ch - 1
        /\ \/ TexX \in 0 .. cmd.cw - 1
           \/ TexX = cmd.cw /\ Lx + acc[1] = Rx /\ (cmd.cw * One) % (Rx - Lx) = 0

\* The lines of the picture that row k of the frame buffer stands for.
LineOf(k) == k * Interlace + (IF field = "odd" THEN 1 ELSE 0)

\* A quadrangle fills the rows of the frame buffer whose lines it covers, each with its
\* own line and none twice: of the other field, of what is above the screen or below,
\* nothing lands.
RowsOfTheField ==
    phase = "done" /\ ~Outside(quad) =>
        landed = {<<k, LineOf(k)>> :
                    k \in {j \in 0 .. ClipY : LineOf(j) \in quad.tl[2] .. quad.tl[2] + Total
                                              /\ LineOf(j) <= 2 * ClipY}}

\* A scaled sprite's anchor is where the command has it, and its other side as
\* far away as the command says.
AnchorHeld ==
    cmd.shape = "scaled" /\ Anchored(cmd.zp) =>
        LET o == Local(cmd.xa, cmd.ya)
            Held(place, low, high, at) ==
                CASE place = 1 -> low = at
                  [] place = 2 -> Abs(2 * at - (low + high)) <= 1
                  [] place = 3 -> high = at
        IN  /\ quad.br = <<quad.tl[1] + cmd.xb, quad.tl[2] + cmd.yb>>
            /\ Held(ZoomColumn(cmd.zp), quad.tl[1], quad.tr[1], o[1])
            /\ Held(cmd.zp \div 4, quad.tl[2], quad.bl[2], o[2])

\* A two-point sprite runs from A to C, both moved by the local coordinates.
TwoPointHeld ==
    cmd.shape = "scaled" /\ ~Anchored(cmd.zp) =>
        quad.tl = Local(cmd.xa, cmd.ya) /\ quad.br = <<cmd.xc + LocalX, cmd.yc + LocalY>>

\* The last row of the longer side runs between the lower corners.
SidesReachCorners ==
    Drawing /\ quadRow = Total /\ LenLeft = LenRight /\ Total > 0 => Lx = quad.bl[1] /\ Rx = quad.br[1]

-----------------------------------------------------------------------------
(***************************************************************************)
(* Which pixels of a span are written (draw_quad's inner loop): the        *)
(* clippings and the mesh, which come before the texel is read, then       *)
(* transparency and the end codes, the second of which ends the span. The  *)
(* row itself is visible, and within the user clipping's rows.             *)
(***************************************************************************)

WidthAssumption == Width \in Nat /\ Width > 0

ZoomsAssumption == Zooms \subseteq Nat \ {0}

\* What a texel can be: index 0, all ones, or another colour.
Texels == {"zero", "ones", "ink"}

\* How all ones is taken: as an end code (4, 8 and 16 bits a texel), as
\* transparent (64 colours), or as a colour (128).
Codes == {"end", "clear", "ink"}

spanVars == <<texel, zoom, code, spd, ecd, mesh, clip, odd, pixel, ends, last, written, spanDone>>

spanRow == <<texel, zoom, code, spd, ecd, mesh, clip, odd>>

Pixels == 0 .. Width - 1

SpanInit ==
    /\ texel \in [Pixels -> Texels]
    /\ zoom \in Zooms /\ code \in Codes
    /\ spd \in BOOLEAN /\ ecd \in BOOLEAN /\ mesh \in Meshes
    /\ clip \in Clips /\ odd \in {0, 1}
    /\ pixel = 0 /\ ends = 0 /\ last = {} /\ written = {} /\ spanDone = FALSE

TexelOf(p) == p \div zoom

\* The mesh keeps every other pixel, as on a chessboard.
Meshed(p) == mesh /\ (p + odd) % 2 = 1

\* The user clipping keeps what is inside it, or outside.
Kept(p) == ~clip.on \/ ((p \in clip.x1 .. clip.x2) # clip.invert)

\* What the texel of a pixel is worth: an end code, nothing, or a colour.
Worth(t) ==
    CASE t = "ones" /\ code = "end" /\ ~ecd -> "end"
      [] t = "ones" /\ code = "clear" -> "nothing"
      [] t = "zero" /\ ~spd -> "nothing"
      [] OTHER -> "colour"

Here == Worth(texel[TexelOf(pixel)])

More == ~spanDone /\ pixel < Width

On == pixel' = pixel + 1 /\ UNCHANGED spanRow

\* Clipped and meshed pixels are passed over before the texel is read.
Pass ==
    /\ More /\ (Meshed(pixel) \/ ~Kept(pixel))
    /\ On /\ UNCHANGED <<ends, last, written, spanDone>>

Seen == More /\ ~Meshed(pixel) /\ Kept(pixel)

Nothing ==
    /\ Seen /\ Here = "nothing"
    /\ On /\ UNCHANGED <<ends, last, written, spanDone>>

\* An end code counts once, however many pixels show it.
EndCode ==
    /\ Seen /\ Here = "end"
    /\ ends' = IF TexelOf(pixel) \in last THEN ends ELSE ends + 1
    /\ last' = {TexelOf(pixel)}
    /\ spanDone' = (ends' >= 2)
    /\ On /\ UNCHANGED written

Colour ==
    /\ Seen /\ Here = "colour"
    /\ written' = written \cup {pixel}
    /\ On /\ UNCHANGED <<ends, last, spanDone>>

Finish == ~spanDone /\ pixel = Width /\ spanDone' = TRUE /\ UNCHANGED <<spanRow, pixel, ends, last, written>>

SpanNext == Pass \/ Nothing \/ EndCode \/ Colour \/ Finish

-----------------------------------------------------------------------------
\* The columns up to that of a pixel whose texel is an end code.
EndsUpTo(p) == {c \in 0 .. TexelOf(p) : Worth(texel[c]) = "end"}

\* The pixels a span means: kept by the clippings, of a colour, and before the
\* second end code of the row of the character.
Meant ==
    {p \in Pixels : /\ clip.on => (p >= clip.x1 /\ p <= clip.x2) = ~clip.invert
                    /\ mesh => (p + odd) % 2 = 0
                    /\ Worth(texel[TexelOf(p)]) = "colour"
                    /\ Cardinality(EndsUpTo(p)) < 2}

\* Of a row with no end codes exactly the pixels kept are written, whatever
\* the clipping, the mesh and the transparency take away between them.
ClippingHolds == spanDone /\ (\A c \in Pixels : Worth(texel[c]) # "end") => written = Meant

\* Two end codes in a row of the character end the span, stretched or not, and
\* nothing else keeps a pixel of a colour from being written.
SpanAsMeant == spanDone => written = Meant

-----------------------------------------------------------------------------
(***************************************************************************)
(* What is written for a pixel that is drawn (the ends of draw_quad's      *)
(* inner loop and of the line's putpixel): the eight colour calculations,  *)
(* the Gouraud shade and the MSB switch. A word is three channels of five  *)
(* bits, red lowest, and bit 15; a frame buffer of bytes takes the low byte *)
(* of what is drawn, which is an index.                                    *)
(***************************************************************************)

WordsAssumption == Words \subseteq 0 .. 65535

ShadesAssumption == Shades \subseteq 0 .. 32767

\* Who draws: a quadrangle of palette indices or of RGB texels, or a line.
Shapes == {"indexed", "rgb", "line"}

Modes == 0 .. 7

Mark == 32768

Channels == 0 .. 2

colourVars == <<bpp8, under, over, colour, shade, shape, calc, msb, drawn>>

ColourInit ==
    /\ bpp8 \in BOOLEAN
    /\ under \in (IF bpp8 THEN {w % 256 : w \in Words} ELSE Words) /\ over = under
    /\ colour \in Words /\ shade \in Shades
    /\ shape \in Shapes /\ calc \in Modes /\ msb \in BOOLEAN
    /\ drawn = FALSE

Channel(w, k) == (w \div 32 ^ k) % 32

Marked(w) == w >= Mark

SetMark(w) == (w % Mark) + Mark

Pack(Of(_)) == Of(0) + 32 * Of(1) + 1024 * Of(2)

\* alphablend16 at level 128; bit 15 is left clear.
Blend(d, s) == LET Of(k) == (128 * Channel(s, k) + 128 * Channel(d, k)) \div 256 IN Pack(Of)

\* (w & !0x8421) >> 1: every field loses its lowest bit before the shift.
Half(w) ==
    LET Low(k) == Channel(w, k) % 2
    IN  SetMark(((w % Mark) - Pack(Low)) \div 2)

\* gouraud_adjust: sixteen is neutral, and a channel stops at its ends.
Adjust(c, t) ==
    LET Of(k) == LET sum == Channel(c, k) + Channel(t, k) - 16
                 IN  IF sum < 0 THEN 0 ELSE IF sum > 31 THEN 31 ELSE sum
    IN  Pack(Of)

\* A grey-neutral green and blue leave red to move the palette index.
IndexShade(t) == Channel(t, 1) = 16 /\ Channel(t, 2) = 16

\* The sum of sixteen bits wraps in a release build; a debug build stops there.
Moved(c, t) == (c + (IF Channel(t, 0) > 16 THEN Channel(t, 0) - 16 ELSE 0)) % (2 * Mark)

Shaded(c, t) == IF shape # "rgb" /\ IndexShade(t) THEN Moved(c, t) ELSE Adjust(c, t)

\* A quadrangle's pixel over the word d: no calculation is made on bytes.
QuadPixel(d, c, t) ==
    CASE bpp8 -> c % 256
      [] ~bpp8 /\ msb -> SetMark(d)
      [] ~bpp8 /\ ~msb /\ calc = 0 -> c
      [] ~bpp8 /\ ~msb /\ calc = 1 -> IF Marked(d) THEN SetMark(Blend(d, 0)) ELSE d
      [] ~bpp8 /\ ~msb /\ calc = 2 -> Half(c)
      [] ~bpp8 /\ ~msb /\ calc = 3 -> IF Marked(d) THEN SetMark(Blend(d, c)) ELSE c
      [] ~bpp8 /\ ~msb /\ calc = 4 -> Shaded(c, t)
      [] ~bpp8 /\ ~msb /\ calc > 4 -> SetMark(Blend(t, c))

\* What a line's shade makes of its colour.
LineShaded(c, t) ==
    CASE calc = 4 -> Shaded(c, t)
      [] calc > 4 -> SetMark(Blend(t, c))
      [] OTHER -> c

\* A line's pixel: a byte of the shaded colour; or a word, where the MSB switch marks
\* the line's own colour, and the calculations of modes 1 to 3 then begin again from
\* the command's.
LinePixel(d, c, t) ==
    CASE bpp8 -> LineShaded(c, t) % 256
      [] ~bpp8 /\ calc \in {1, 3} /\ Marked(d) -> SetMark(Blend(d, c))
      [] ~bpp8 /\ calc = 2 -> Half(c)
      [] OTHER -> IF msb THEN SetMark(LineShaded(c, t)) ELSE LineShaded(c, t)

Draw ==
    /\ ~drawn /\ drawn' = TRUE
    /\ over' = (IF shape = "line" THEN LinePixel(under, colour, shade)
                ELSE QuadPixel(under, colour, shade))
    /\ UNCHANGED <<bpp8, under, colour, shade, shape, calc, msb>>

ColourNext == Draw

-----------------------------------------------------------------------------
Quad == drawn /\ ~bpp8 /\ shape # "line" /\ ~msb

\* The arithmetic on whole words keeps the channels apart: each channel of a
\* halved or blended pixel is the mean of its own, with nothing from the
\* neighbour's lowest bit nor a carry into it.
ChannelsApart ==
    Quad => \A k \in Channels :
        LET D == Channel(under, k)  C == Channel(colour, k)  O == Channel(over, k)
        IN  /\ calc = 2 => O = C \div 2
            /\ calc = 3 /\ Marked(under) => O = (C + D) \div 2
            /\ calc > 4 => O = (C + Channel(shade, k)) \div 2

\* A Gouraud shade on RGB texels moves every channel the way its own shade
\* says and no other: a bright one never darkens by passing 31, a dark one
\* never brightens by passing 0, and a neutral one leaves the channel alone.
ShadeNeverWraps ==
    Quad /\ shape = "rgb" /\ calc = 4 => \A k \in Channels :
        LET C == Channel(colour, k)  T == Channel(shade, k)  O == Channel(over, k)
        IN  /\ T >= 16 => O >= C
            /\ T <= 16 => O <= C
            /\ T = 16 => O = C

\* Shadow and half transparency only change pixels that are marked: an unmarked one is
\* a palette index, of which no mean can be taken. Bytes are indices all of them, and
\* of a byte drawn nothing comes from what was there; a shaded line's is the exception,
\* for its shade has been put to the colour before.
IndicesAreNotBlended ==
    /\ Quad /\ ~Marked(under) => /\ calc = 1 => over = under
                                 /\ calc = 3 => over = colour
    /\ drawn /\ bpp8 => /\ over \in 0 .. 255
                        /\ shape # "line" \/ calc < 4 => over = colour % 256

=============================================================================
