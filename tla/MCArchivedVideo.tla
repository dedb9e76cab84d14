-------------------------- MODULE MCArchivedVideo ---------------------------
(***************************************************************************)
(* Model checking of the first emulator's video: VDP1's lists and drawing, *)
(* VDP2's screens (archived vdp.rs, vdp2.rs, vdp2_regs.rs). Each is a      *)
(* component of its own, so a behaviour is about one of them, named by     *)
(* part.                                                                   *)
(***************************************************************************)
EXTENDS Integers, FiniteSets, TLC

VARIABLES
    part,  \* the component this behaviour is about
    list, addr, copr, lopr, running, cef, ret, clip, fake, walking, runaway,
    told, begun, over, want,
    s, bank, kind, active, core, master, event, pending,
    field, to, lineShades, pos, err, red, left, plotted, lineDone,
    cmd, quad, quadRow, landed, side, acc, phase,
    texel, zoom, code, spd, ecd, mesh, userClip, odd, pixel, ends, last,
    written, spanDone,
    bpp8, under, word, colour, shade, shape, calc, msb, drawn,
    regs, writes,
    big, words, planew, planeh, offset, map, scx, scy, cellX, cellY, check,
    pipe,
    cells, flip, stride, size, dotX, dotY, read,
    top, topAlpha, flag, lower, lowerAlpha, isBack, add, bottom, enabled,
    special, out, outAlpha, done,
    hreso, vreso, lsmd, disp, on, priority, stored, fresh, height

-----------------------------------------------------------------------------
\* VRAM of two commands, or one between them, with lists that stay; a command and a half,
\* with lists that are rewritten between walks.
\* Frames: lists that end and lists that do not under automatic changes; every kind
\* of list, drawn at once and erased by hand; changes by hand alone.
Walks == INSTANCE Vdp1List WITH
    N <- 4, Limit <- 4, Ops <- {"draw", "clip"}, Rewrites <- FALSE,
    Lists <- {"end", "runaway"}, FrameModes <- {0, 3}, Plots <- {0, 1}
Rewritten == INSTANCE Vdp1List WITH
    N <- 3, Limit <- 2, Ops <- {"skipped"}, Rewrites <- TRUE,
    Lists <- {"end", "empty", "runaway", "bad", "off"}, FrameModes <- {2}, Plots <- {1}
Manual == INSTANCE Vdp1List WITH
    N <- 2, Limit <- 1, Ops <- {}, Rewrites <- FALSE,
    Lists <- {"runaway"}, FrameModes <- {2, 3}, Plots <- {1}

-----------------------------------------------------------------------------
\* Lines of up to five pixels a side, some longer than is drawn; normal sprites of
\* every width and of many heights, flipped, far away, and over the edges of the screen
\* and of twice its height; scaled sprites on every zoom point; quadrangles with
\* diagonal sides; both fields, or one of them.
Blank == [shape |-> "normal", xa |-> 0, ya |-> 0, xb |-> 0, yb |-> 0, xc |-> 0, yc |-> 0,
          xd |-> 0, yd |-> 0, zp |-> 0, cw |-> 8, ch |-> 1, dir |-> 0]
Normals ==
    {[Blank EXCEPT !.cw = 8 * k, !.dir = d] : k \in 1 .. 63, d \in {0, 1}}
    \cup {[Blank EXCEPT !.ch = h, !.dir = d] : h \in {1, 2, 3, 100, 240, 254, 255}, d \in {0, 2}}
    \cup {[Blank EXCEPT !.xa = x, !.ya = y, !.dir = 3] : x \in {-5, 7, 600, 32767}, y \in {-2, 3, 32767}}
    \cup {[Blank EXCEPT !.ya = y, !.ch = 255] : y \in {-40, 200, 299, 300}}
Scaled ==
    {[Blank EXCEPT !.shape = "scaled", !.xa = 20, !.ya = 20, !.xb = w, !.yb = h, !.xc = 20 + w,
                   !.yc = 20 + h, !.zp = z, !.ch = 8] :
       w \in {1, 6, 9, 15}, h \in {0, 3, 7}, z \in 0 .. 15}
Diagonal ==
    {[Blank EXCEPT !.shape = "quad", !.xb = 9, !.xc = 9 + k, !.yc = 7, !.xd = k, !.yd = 7] :
       k \in {-7, 0, 7}}

\* User clippings that keep the whole span and ones that cut it.
Clippings == {[on |-> FALSE, invert |-> FALSE, x1 |-> 0, x2 |-> 0],
              [on |-> TRUE, invert |-> TRUE, x1 |-> 9, x2 |-> 9]}
Cuts == {[on |-> TRUE, invert |-> i, x1 |-> 1, x2 |-> 2] : i \in BOOLEAN}

\* Words whose channels are at their ends, odd, and apart.
Mark == 32768
MCWords == {r + 32 * g + m : r \in {0, 18, 31}, g \in {1, 31}, m \in {0, Mark}}
               \cup {1024 * b + m : b \in {1, 31}, m \in {0, Mark}}
MCShades == {r + 32 * g + 1024 * b : r \in {0, 16, 31}, g \in {5, 16}, b \in {16, 31}}

Draws == INSTANCE Vdp1Drawing WITH
    Reach <- 6, MaxSpan <- 5, CornerShades <- {0, 3, 31},
    Commands <- Normals \cup Scaled \cup Diagonal,
    LocalX <- 2, LocalY <- 1, ClipX <- 511, ClipY <- 255, Fields <- {"both", "even", "odd"},
    Width <- 4, Zooms <- {1, 2}, Meshes <- {FALSE}, Clips <- Clippings,
    Words <- MCWords, Shades <- MCShades, clip <- userClip, over <- word
Cut == INSTANCE Vdp1Drawing WITH
    Reach <- 6, MaxSpan <- 5, CornerShades <- {0}, Commands <- {Blank},
    LocalX <- 2, LocalY <- 1, ClipX <- 511, ClipY <- 255, Fields <- {"both"},
    Width <- 4, Zooms <- {1, 2}, Meshes <- BOOLEAN, Clips <- Cuts,
    Words <- {0}, Shades <- {0}, clip <- userClip, over <- word

-----------------------------------------------------------------------------
\* Two writes that set or clear a bit in every pair of registers, all screens but the
\* first switched on before or none, and colours that put others out; windows over the
\* edges of cells, pages, planes and the screen; characters of both sizes, turned
\* every way; every mode over pairs of colours and ratios; frames of every size in
\* every order.
Screen == INSTANCE Vdp2 WITH
    Values <- {0, 1, 15, 16, 32, 64, 512, 8192}, MaxWrites <- 2, Before <- {0, 14},
    Scrolls <- {0, 508, 2044}, Across <- 9, Down <- 5,
    Offsets <- {0, 192, 448}, Bytes <- {0, 85, 255},
    Kinds <- {"small", "large"}, Flips <- 0 .. 3, Strides <- {8}, Reach <- 16,
    Levels <- {5, 31}, Alphas <- {0, 31, 63},
    Samples <- {100000}, Priorities <- {0, 3}, kind <- cells

ASSUME InstanceAssumptions ==
    /\ Walks!NAssumption /\ Walks!LimitAssumption /\ Walks!OpsAssumption
    /\ Walks!RewritesAssumption /\ Walks!ListsAssumption /\ Walks!FrameModesAssumption
    /\ Walks!PlotsAssumption
    /\ Rewritten!OpsAssumption /\ Rewritten!ListsAssumption /\ Manual!FrameModesAssumption
    /\ Draws!ReachAssumption /\ Draws!MaxSpanAssumption /\ Draws!CornerShadesAssumption
    /\ Draws!FieldsAssumption /\ Draws!WidthAssumption /\ Draws!ZoomsAssumption /\ Draws!WordsAssumption
    /\ Draws!ShadesAssumption
    /\ Screen!ValuesAssumption /\ Screen!MaxWritesAssumption /\ Screen!BeforeAssumption
    /\ Screen!ScrollsAssumption /\ Screen!SizesAssumption /\ Screen!OffsetsAssumption /\ Screen!BytesAssumption
    /\ Screen!KindsAssumption /\ Screen!FlipsAssumption /\ Screen!StridesAssumption
    /\ Screen!ReachAssumption /\ Screen!LevelsAssumption /\ Screen!AlphasAssumption
    /\ Screen!SamplesAssumption /\ Screen!PrioritiesAssumption

-----------------------------------------------------------------------------
walkVars == <<list, addr, copr, lopr, running, cef, ret, clip, fake, walking, runaway,
              told, begun, over, want>>
frameVars == <<s, bank, kind, active, core, master, event, pending>>
lineVars == <<to, lineShades, pos, err, red, left, plotted, lineDone>>
quadVars == <<field, cmd, quad, quadRow, landed, side, acc, phase>>
spanVars == <<texel, zoom, code, spd, ecd, mesh, userClip, odd, pixel, ends, last,
              written, spanDone>>
colourVars == <<bpp8, under, word, colour, shade, shape, calc, msb, drawn>>
registerVars == <<regs, writes>>
cellVars == <<big, words, planew, planeh, offset, map, scx, scy, cellX, cellY, check,
              pipe>>
dotVars == <<cells, flip, stride, size, dotX, dotY, read>>
blendVars == <<top, topAlpha, flag, lower, lowerAlpha, isBack, add, bottom, enabled,
               special, out, outAlpha, done>>
bufferVars == <<hreso, vreso, lsmd, disp, on, priority, stored, fresh, height>>

\* The components a behaviour is not about stay in an initial state.
SuiteInit ==
    /\ part \in {"walks", "rewritten", "frames", "lists", "manual",
                "lines", "quads", "spans", "cuts", "colours", "registers",
                "cells", "dots", "blends", "buffers"}
    /\ \/ part = "walks" /\ Walks!WalkInit
       \/ part = "rewritten" /\ Rewritten!WalkInit
       \/ /\ part \notin {"walks", "rewritten"}
          /\ list = <<>> /\ addr = 0 /\ copr = 0 /\ lopr = 0 /\ running = FALSE /\ cef = FALSE
          /\ ret = {} /\ clip = -1 /\ fake = FALSE /\ walking = FALSE /\ runaway = 0
          /\ told = FALSE /\ begun = FALSE /\ over = FALSE /\ want = -1
    /\ \/ part = "frames" /\ Walks!FrameInit
       \/ part = "lists" /\ Rewritten!FrameInit
       \/ part = "manual" /\ Manual!FrameInit
       \/ part \notin {"frames", "lists", "manual"} /\ Manual!FrameInit
    /\ \/ part \in {"lines", "quads"}
       \/ part \notin {"lines", "quads"} /\ field = "both"
    /\ \/ part = "lines" /\ Draws!LineInit
       \/ /\ part # "lines"
          /\ to = <<0, 0>> /\ lineShades = <<0, 0>> /\ Draws!LineInit
    /\ \/ part = "quads" /\ Draws!QuadInit
       \/ part # "quads" /\ cmd = Blank /\ Draws!QuadInit
    /\ \/ part = "spans" /\ Draws!SpanInit
       \/ part = "cuts" /\ Cut!SpanInit
       \/ /\ part \notin {"spans", "cuts"}
          /\ texel = <<>> /\ zoom = 1 /\ code = "ink" /\ spd = FALSE /\ ecd = FALSE /\ mesh = FALSE
          /\ userClip = {} /\ odd = 0 /\ pixel = 0 /\ ends = 0 /\ last = {} /\ written = {}
          /\ spanDone = FALSE
    /\ \/ part = "colours" /\ Draws!ColourInit
       \/ /\ part # "colours"
          /\ bpp8 = FALSE /\ shape = "rgb" /\ calc = 0 /\ msb = FALSE /\ Cut!ColourInit
    /\ \/ part = "registers" /\ Screen!RegistersInit
       \/ part # "registers" /\ regs = [at \in {} |-> 0] /\ writes = 0
    /\ \/ part = "cells" /\ Screen!CellsInit
       \/ /\ part # "cells"
          /\ big = FALSE /\ words = 1 /\ planew = 1 /\ planeh = 1 /\ offset = 0 /\ map = <<>>
          /\ scx = 0 /\ scy = 0 /\ cellX = 0 /\ cellY = 0 /\ check = {} /\ pipe = 0
    /\ \/ part = "dots" /\ Screen!DotsInit
       \/ /\ part # "dots"
          /\ cells = "small" /\ flip = 0 /\ stride = 8 /\ size = 4 /\ dotX = 0 /\ dotY = 0 /\ read = {}
    /\ \/ part = "blends" /\ Screen!BlendInit
       \/ /\ part # "blends"
          /\ top = <<>> /\ topAlpha = 0 /\ flag = FALSE /\ lower = <<>> /\ lowerAlpha = 0
          /\ isBack = FALSE /\ add = FALSE /\ bottom = FALSE /\ enabled = FALSE
          /\ special = 0 /\ out = <<>> /\ outAlpha = 0 /\ done = FALSE
    /\ Screen!BufferInit

ButForWalk == <<part, frameVars, lineVars, quadVars, spanVars, colourVars, registerVars,
                cellVars, dotVars, blendVars, bufferVars>>
ButForFrame == <<part, walkVars, lineVars, quadVars, spanVars, colourVars, registerVars,
                 cellVars, dotVars, blendVars, bufferVars>>
ButForLine == <<part, walkVars, frameVars, quadVars, spanVars, colourVars, registerVars,
                cellVars, dotVars, blendVars, bufferVars>>
ButForQuad == <<part, walkVars, frameVars, lineVars, spanVars, colourVars, registerVars,
                cellVars, dotVars, blendVars, bufferVars>>
ButForSpan == <<part, walkVars, frameVars, lineVars, quadVars, colourVars, registerVars,
                cellVars, dotVars, blendVars, bufferVars>>
ButForColour == <<part, walkVars, frameVars, lineVars, quadVars, spanVars, registerVars,
                  cellVars, dotVars, blendVars, bufferVars>>
ButForRegisters == <<part, walkVars, frameVars, lineVars, quadVars, spanVars, colourVars,
                     cellVars, dotVars, blendVars, bufferVars>>
ButForCells == <<part, walkVars, frameVars, lineVars, quadVars, spanVars, colourVars,
                 registerVars, dotVars, blendVars, bufferVars>>
ButForDots == <<part, walkVars, frameVars, lineVars, quadVars, spanVars, colourVars,
                registerVars, cellVars, blendVars, bufferVars>>
ButForBlend == <<part, walkVars, frameVars, lineVars, quadVars, spanVars, colourVars,
                 registerVars, cellVars, dotVars, bufferVars>>
ButForBuffers == <<part, walkVars, frameVars, lineVars, quadVars, spanVars, colourVars,
                   registerVars, cellVars, dotVars, blendVars>>

SuiteNext ==
    \/ part = "walks" /\ Walks!WalkNext /\ UNCHANGED ButForWalk
    \/ part = "rewritten" /\ Rewritten!WalkNext /\ UNCHANGED ButForWalk
    \/ part = "frames" /\ Walks!FrameNext /\ UNCHANGED ButForFrame
    \/ part = "lists" /\ Rewritten!FrameNext /\ UNCHANGED ButForFrame
    \/ part = "manual" /\ Manual!FrameNext /\ UNCHANGED ButForFrame
    \/ part = "lines" /\ Draws!LineNext /\ UNCHANGED ButForLine
    \/ part = "quads" /\ Draws!QuadNext /\ UNCHANGED ButForQuad
    \/ part = "spans" /\ Draws!SpanNext /\ UNCHANGED ButForSpan
    \/ part = "cuts" /\ Cut!SpanNext /\ UNCHANGED ButForSpan
    \/ part = "colours" /\ Draws!ColourNext /\ UNCHANGED ButForColour
    \/ part = "registers" /\ Screen!RegistersNext /\ UNCHANGED ButForRegisters
    \/ part = "cells" /\ Screen!CellsNext /\ UNCHANGED ButForCells
    \/ part = "dots" /\ Screen!DotsNext /\ UNCHANGED ButForDots
    \/ part = "blends" /\ Screen!BlendNext /\ UNCHANGED ButForBlend
    \/ part = "buffers" /\ Screen!BufferNext /\ UNCHANGED ButForBuffers

suiteVars == <<part, walkVars, frameVars, lineVars, quadVars, spanVars, colourVars,
               registerVars, cellVars, dotVars, blendVars, bufferVars>>

SuiteSpec == SuiteInit /\ [][SuiteNext]_suiteVars

-----------------------------------------------------------------------------
\* VDP1 (archived vdp.rs).  The clipping in force is that of the list's last clipping
\* command.  The steps of a line lead to its end, none of its pixels is off by more
\* than a half or drawn twice, in the picture and in a field's frame buffer, and its
\* shade stays between the corners'.  A sprite shows each texel at its own pixel, of its
\* own character at every zoom, and hangs on its zoom point; the sides of a quadrangle
\* reach the lower corners, and its lines the rows of their field.  The pixels of a span
\* are those meant, the channels of a blended or shaded pixel stay apart, and a frame
\* buffer of bytes holds indices.
DrawingIsExact ==
    /\ part \in {"walks", "rewritten"} => Walks!ClipsAreKept
    /\ part = "lines" =>
         Draws!StepsReachTheEnd /\ Draws!NearTheLine /\ Draws!EachPixelOnce
         /\ Draws!PlacesAreApart /\ Draws!ShadeStaysBetween
    /\ part = "quads" =>
         /\ Draws!NormalOneToOne /\ Draws!TexelsInTheCharacter /\ Draws!RowsOfTheField
         /\ Draws!AnchorHeld /\ Draws!TwoPointHeld /\ Draws!SidesReachCorners
    /\ part = "spans" => Draws!SpanAsMeant
    /\ part = "cuts" => Cut!ClippingHolds
    /\ part = "colours" =>
         Draws!ChannelsApart /\ Draws!ShadeNeverWraps /\ Draws!IndicesAreNotBlended

\* A step of VDP1: Draw End is of a list that was executed, the first call's return
\* address stays, a walk that stops without a flag says why; a frame change shows what
\* was drawn, uses its request up, and is made once by hand; Draw End comes with CEF.
DrawingStep ==
    CASE part = "walks" -> Walks!DrawEndIsEarned /\ Walks!FirstCallReturns /\ Walks!StopsAreTold
      [] part = "rewritten" -> Rewritten!DrawEndIsEarned /\ Rewritten!FirstCallReturns
      [] part = "frames" -> Walks!ChangeShowsTheDrawing /\ Walks!SwapUsesTheRequest
      [] part = "lists" -> Rewritten!DrawEndHasAnEnd
      [] part = "manual" -> Manual!ManualChangeOnce
      [] OTHER -> TRUE

DrawingKeepsItsRules == []DrawingIsExact /\ [][DrawingStep]_suiteVars

\* VDP2 (archived vdp2.rs, vdp2_regs.rs, vdp.rs).  The address kept for a cell is
\* that of the pixel's own cell, from which the cell can be told, and lies in the
\* memory; a turned character is its mirror image; a mixed channel lies between the two; the
\* largest frame fits its buffer.
ScreensAreExact ==
    /\ part = "cells" => Screen!CacheIsFresh /\ Screen!AddressNamesCell /\ Screen!InTheTable
    /\ part = "dots" => Screen!TurnedIsMirrored
    /\ part = "blends" => Screen!ChannelsBounded
    /\ part = "buffers" => Screen!FrameFits

\* A step of VDP2: no bit written sets two screens, and another one comes or goes only
\* after screen 0 or 1; none is put out but for the colours of one that is shown; what a
\* frame shows was drawn in it.
ScreensStep ==
    CASE part = "registers" -> Screen!EachBitOneScreen /\ Screen!SuppressedByTheShown'
      [] part = "buffers" -> Screen!NothingStale
      [] OTHER -> TRUE

ScreensKeepTheirRules == []ScreensAreExact /\ [][ScreensStep]_suiteVars

=============================================================================
