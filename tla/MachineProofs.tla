---------------------------- MODULE MachineProofs ----------------------------
(***************************************************************************)
(* Proofs about the machine's step, for every geometry of the picture,     *)
(* every assignment of levels and every program: what happens in a step    *)
(* and in which order the events are handled, that the machine implements  *)
(* Interrupts, and what follows for the flags, the transfers and the sleep.*)
(***************************************************************************)
EXTENDS Machine, TLAPS

-----------------------------------------------------------------------------
(* The clock and its events within a step. *)

\* The HBlank flag as it stands when the events are handled.
InHBlank == hblankSent /\ line < ActiveLines

\* The events about this line.
LineBegins   == Event("LineStart", line)
HBlankBegins == Event("HBlankIn", line)

BlankShown == vdp2.vblank <=> line >= ActiveLines
FrameShown == shown = IF line >= ActiveLines THEN NextFrame ELSE frame

\* The seven ways the events stand that wait to be handled.
NoneWait ==
    /\ out = <<>>
    /\ vdp2.line = line /\ (vdp2.hblank <=> InHBlank) /\ BlankShown /\ FrameShown

HBlankWaits ==
    /\ out = <<HBlankBegins>> /\ InHBlank
    /\ vdp2.line = line /\ BlankShown /\ FrameShown

LineWaits ==
    /\ \/ out = <<LineBegins>> /\ ~InHBlank
       \/ out = <<LineBegins, HBlankBegins>> /\ InHBlank
    /\ BlankShown /\ FrameShown

VBlankInWaits ==
    /\ out = <<Event("VBlankIn", 0), LineBegins>>
    /\ line = ActiveLines /\ shown = frame /\ VBlankIn \notin happened

VBlankOutWaits ==
    /\ \/ out = <<Event("VBlankOut", 0), LineBegins>> /\ ~InHBlank
       \/ out = <<Event("VBlankOut", 0), LineBegins, HBlankBegins>> /\ InHBlank
    /\ line = 0 /\ shown = frame /\ VBlankOut \notin happened

Waiting == NoneWait \/ HBlankWaits \/ LineWaits \/ VBlankInWaits \/ VBlankOutWaits

\* The clock within a step: a block crosses one line at most.
ClockInv ==
    /\ line \in 0 .. LinesPerFrame - 1 /\ frame \in 0 .. FrameWidth - 1
    /\ inLine \in Nat /\ hblankSent \in BOOLEAN /\ looping \in BOOLEAN
    /\ spent \in BlockCycles \cup {0}
    /\ spent # 0 => stage = "timing"
    /\ looping <=> stage = "timing" /\ spent = 0
    /\ stage # "events" /\ ~looping => out = <<>>
    /\ hblankSent => inLine >= HBlankStart
    /\ ~looping => inLine < CyclesPerLine /\ (hblankSent <=> inLine >= HBlankStart)
    /\ looping /\ inLine >= CyclesPerLine =>
          out = <<>> /\ hblankSent /\ inLine - CyclesPerLine < CyclesPerLine - HBlankStart
    /\ looping /\ out # <<>> => ~hblankSent

\* What has been raised in this step.
HappenedInv ==
    /\ stage \in {"cpu", "block", "timing", "fault"} => happened = {}
    /\ stage \in {"events", "smpc"} => happened \subseteq {VBlankIn, VBlankOut, HBlankIn}
    /\ stage = "vdp1" => SpriteEnd \notin happened
    /\ HBlankIn \in happened => out = <<>> /\ InHBlank
    /\ VBlankIn \in happened => line >= ActiveLines

StepInv == ClockInv /\ HappenedInv /\ Waiting
             /\ vdp2 \in [vblank : BOOLEAN, hblank : BOOLEAN, line : 0 .. LinesPerFrame - 1]

\* What no event of the clock has to do with.
StepVars == <<timing, stage, spent, vdp2, happened, shown>>

\* A step that leaves all of it alone keeps it.
LEMMA SameStep == StepInv /\ UNCHANGED StepVars => StepInv'
BY DEF StepVars, timing, StepInv, ClockInv, HappenedInv, Waiting, NoneWait, HBlankWaits,
       LineWaits, VBlankInWaits, VBlankOutWaits, InHBlank, LineBegins, HBlankBegins,
       BlankShown, FrameShown, NextFrame, Event

\* Steps that only move to the next stage, with nothing under way.
LEMMA NextStage ==
    ASSUME StepInv, stage \notin {"timing", "events"}, stage' # "timing", stage' # "events",
           happened' = {} \/ happened' = happened, UNCHANGED <<timing, spent, vdp2, shown>>,
           stage' \in {"cpu", "block", "fault"} => happened' = {},
           stage' \notin {"smpc", "vdp1"}
    PROVE  StepInv'
BY DEF timing, StepInv, ClockInv, HappenedInv, Waiting, NoneWait, HBlankWaits,
       LineWaits, VBlankInWaits, VBlankOutWaits, InHBlank, LineBegins, HBlankBegins,
       BlankShown, FrameShown, NextFrame, Event

\* The block is over.
LEMMA BlockStep ==
    ASSUME StepInv, stage \in {"cpu", "block"}, stage' = "timing", spent' \in BlockCycles,
           UNCHANGED <<timing, vdp2, happened, shown>>
    PROVE  StepInv'
<1>1. ClockInv' /\ HappenedInv'
  BY MachineAssumption DEF timing, StepInv, ClockInv, HappenedInv, InHBlank
<1>2. Waiting'
  BY DEF timing, StepInv, Waiting, NoneWait, HBlankWaits,
         LineWaits, VBlankInWaits, VBlankOutWaits, InHBlank, LineBegins, HBlankBegins,
         BlankShown, FrameShown, NextFrame, Event
<1> QED BY <1>1, <1>2 DEF StepInv

\* The events are all handled, then the requests of the SMPC and of the VDP1.
LEMMA ServiceStep ==
    ASSUME StepInv, EndOfEvents \/ ServiceSmpc \/ ServiceVdp1
    PROVE  StepInv'
<1> USE MachineAssumption
<1>1. /\ UNCHANGED <<timing, spent, vdp2, shown>>
      /\ \/ stage = "events" /\ stage' = "smpc" /\ happened' = happened
         \/ stage = "smpc" /\ stage' = "vdp1"
              /\ happened' \in {happened, happened \cup {SystemManager}}
         \/ stage = "vdp1" /\ stage' = "take"
              /\ happened' \in {happened, happened \cup {SpriteEnd}}
      /\ out = <<>>
  BY DEF EndOfEvents, ServiceSmpc, ServiceVdp1, StepInv, ClockInv
<1>2. NoneWait
  BY <1>1 DEF StepInv, Waiting, HBlankWaits, LineWaits, VBlankInWaits, VBlankOutWaits
<1>3. NoneWait'
  BY <1>1, <1>2 DEF timing, NoneWait, InHBlank, BlankShown, FrameShown, NextFrame
<1>4. ClockInv'
  BY <1>1 DEF timing, StepInv, ClockInv
<1>5. SystemManager \notin {VBlankIn, HBlankIn, SpriteEnd}
  OBVIOUS
<1>6. HappenedInv'
  BY <1>1, <1>5 DEF timing, StepInv, HappenedInv, InHBlank
<1> QED BY <1>1, <1>3, <1>4, <1>6 DEF StepInv, Waiting

\* Sequences of the same elements are the same.
LEMMA SameSequence ==
    ASSUME NEW S, NEW s \in Seq(S), NEW t \in Seq(S), Len(s) = Len(t),
           \A i \in 1 .. Len(s) : s[i] = t[i]
    PROVE  s = t
OBVIOUS

\* The short sequences the events form.
LEMMA Joined ==
    \A a, b, c : <<a>> \o <<b>> = <<a, b>> /\ <<a, b>> \o <<c>> = <<a, b, c>>
<1> TAKE a, b, c
<1> DEFINE S == {a, b, c}
<1>1. <<a>> \o <<b>> = <<a, b>>
  <2> DEFINE s == <<a>> \o <<b>>
             t == <<a, b>>
  <2>1. <<a>> \in Seq(S) /\ <<b>> \in Seq(S) /\ t \in Seq(S)
    OBVIOUS
  <2>2. s \in Seq(S) /\ Len(s) = 2 /\ s[1] = a /\ s[2] = b
    BY <2>1
  <2>3. Len(t) = 2 /\ t[1] = a /\ t[2] = b
    OBVIOUS
  <2> HIDE DEF s, t, S
  <2>4. \A i \in 1 .. Len(s) : s[i] = t[i]
    BY <2>2, <2>3
  <2>5. s = t
    BY <2>1, <2>2, <2>3, <2>4, SameSequence
  <2> QED BY <2>5 DEF s, t
<1>2. <<a, b>> \o <<c>> = <<a, b, c>>
  <2> DEFINE s == <<a, b>> \o <<c>>
             t == <<a, b, c>>
  <2>1. <<a, b>> \in Seq(S) /\ <<c>> \in Seq(S) /\ t \in Seq(S)
    OBVIOUS
  <2>2. s \in Seq(S) /\ Len(s) = 3 /\ s[1] = a /\ s[2] = b /\ s[3] = c
    BY <2>1
  <2>3. Len(t) = 3 /\ t[1] = a /\ t[2] = b /\ t[3] = c
    OBVIOUS
  <2> HIDE DEF s, t, S
  <2>4. \A i \in 1 .. Len(s) : s[i] = t[i]
    BY <2>2, <2>3
  <2>5. s = t
    BY <2>1, <2>2, <2>3, <2>4, SameSequence
  <2> QED BY <2>5 DEF s, t
<1> QED BY <1>1, <1>2

\* What lies before and behind the first of a few events.
LEMMA Shortened ==
    /\ \A a : <<>> \o <<a>> = <<a>> /\ Head(<<a>>) = a /\ Tail(<<a>>) = <<>>
    /\ \A a, b : <<>> \o <<a, b>> = <<a, b>> /\ Head(<<a, b>>) = a /\ Tail(<<a, b>>) = <<b>>
    /\ \A a, b, c : Head(<<a, b, c>>) = a /\ Tail(<<a, b, c>>) = <<b, c>>
    /\ <<>> \o <<>> = <<>>
OBVIOUS

\* The clock takes the cycles of the block.
LEMMA EnterStep ==
    ASSUME StepInv, stage = "timing", spent # 0, Enter(spent), spent' = 0,
           UNCHANGED <<stage, vdp2, happened, shown>>
    PROVE  StepInv'
<1> USE TimingAssumption
<1>1. ~looping /\ out = <<>> /\ happened = {} /\ inLine < CyclesPerLine
        /\ (hblankSent <=> inLine >= HBlankStart)
  BY DEF StepInv, ClockInv, HappenedInv
<1>2. spent \in Nat /\ spent <= CyclesPerLine - HBlankStart
  BY ShortBlocks DEF StepInv, ClockInv
<1>3. /\ line' = line /\ frame' = frame /\ hblankSent' = hblankSent /\ out' = <<>>
      /\ looping' = TRUE /\ inLine' = inLine + spent
  BY DEF Enter
<1>4. ClockInv'
  BY <1>1, <1>2, <1>3 DEF StepInv, ClockInv
<1>5. HappenedInv'
  BY <1>1, <1>3 DEF HappenedInv
<1>6. Waiting'
  <2>1. NoneWait
    BY <1>1 DEF StepInv, Waiting, HBlankWaits, LineWaits, VBlankInWaits, VBlankOutWaits
  <2>2. NoneWait'
    BY <1>1, <1>3, <2>1 DEF NoneWait, InHBlank, BlankShown, FrameShown, NextFrame
  <2> QED BY <2>2 DEF Waiting
<1> QED BY <1>4, <1>5, <1>6 DEF StepInv

\* The clock finishes a line.
LEMMA LineStep ==
    ASSUME StepInv, stage = "timing", LinePass, UNCHANGED <<stage, spent, vdp2, happened, shown>>
    PROVE  StepInv'
<1> USE TimingAssumption
<1>1. /\ looping /\ inLine >= CyclesPerLine /\ out = <<>> /\ hblankSent /\ happened = {}
      /\ inLine - CyclesPerLine < CyclesPerLine - HBlankStart
  BY DEF LinePass, StepInv, ClockInv, HappenedInv
<1>2. HBlankEvents = <<>>
  BY <1>1 DEF HBlankEvents, HBlankNow
<1>3. /\ line' = NextLine /\ hblankSent' = FALSE /\ looping' = looping
      /\ frame' = (IF line + 1 = LinesPerFrame THEN NextFrame ELSE frame)
      /\ inLine' = inLine - CyclesPerLine
  BY DEF LinePass
<1>4. line \in 0 .. LinesPerFrame - 1 /\ frame \in 0 .. FrameWidth - 1 /\ inLine \in Nat
  BY DEF StepInv, ClockInv
<1>5. line' \in 0 .. LinesPerFrame - 1 /\ frame' \in 0 .. FrameWidth - 1
  BY <1>3, <1>4 DEF NextLine, NextFrame
<1>6. out' = (<<>> \o <<>>) \o LineEvents
  BY <1>1, <1>2 DEF LinePass
<1>7. /\ line + 1 = ActiveLines => out' = <<Event("VBlankIn", 0), Event("LineStart", NextLine)>>
      /\ line + 1 = LinesPerFrame => out' = <<Event("VBlankOut", 0), Event("LineStart", NextLine)>>
      /\ line + 1 \notin {ActiveLines, LinesPerFrame} => out' = <<Event("LineStart", NextLine)>>
  <2> DEFINE s == Event("LineStart", NextLine)
             v == Event("VBlankIn", 0)
             w == Event("VBlankOut", 0)
  <2>1. out' = (<<>> \o <<>>) \o (((IF line + 1 = ActiveLines THEN <<v>> ELSE <<>>)
                 \o (IF line + 1 = LinesPerFrame THEN <<w>> ELSE <<>>)) \o <<s>>)
    BY <1>6 DEF LineEvents
  <2> HIDE DEF s, v, w
  <2>2. line + 1 = ActiveLines => line + 1 # LinesPerFrame
    BY <1>4
  <2>3. \A x : <<>> \o <<x>> = <<x>>
    BY Shortened
  <2>4. <<v>> \o <<>> = <<v>>
    OBVIOUS
  <2>5. ASSUME line + 1 = ActiveLines PROVE out' = <<v, s>>
    <3>1. out' = (<<>> \o <<>>) \o ((<<v>> \o <<>>) \o <<s>>)
      BY <2>1, <2>2, <2>5, Zenon
    <3>2. (<<v>> \o <<>>) \o <<s>> = <<v, s>>
      BY <2>4, Joined, Zenon
    <3> QED BY <3>1, <3>2, Shortened, Zenon
  <2>6. ASSUME line + 1 = LinesPerFrame PROVE out' = <<w, s>>
    <3>1. out' = (<<>> \o <<>>) \o ((<<>> \o <<w>>) \o <<s>>)
      BY <2>1, <2>2, <2>6, Zenon
    <3>2. (<<>> \o <<w>>) \o <<s>> = <<w, s>>
      BY <2>3, Joined, Zenon
    <3> QED BY <3>1, <3>2, Shortened, Zenon
  <2>7. line + 1 \notin {ActiveLines, LinesPerFrame} => out' = <<s>>
    <3>1. line + 1 \notin {ActiveLines, LinesPerFrame} =>
             line + 1 # ActiveLines /\ line + 1 # LinesPerFrame
      OBVIOUS
    <3> QED BY <2>1, <3>1, Shortened, Zenon
  <2> QED BY <2>5, <2>6, <2>7 DEF s, v, w
<1>8. out' # <<>>
  BY <1>7
<1>9. ClockInv'
  <2>1. inLine' \in Nat /\ inLine' < CyclesPerLine
    BY <1>1, <1>3, <1>4
  <2>2. looping' = TRUE
    BY <1>1, <1>3 DEF StepInv, ClockInv
  <2>3. /\ spent' = spent /\ stage' = stage /\ stage = "timing" /\ spent = 0
    BY <1>1 DEF StepInv, ClockInv
  <2>4. hblankSent' \in BOOLEAN /\ looping' \in BOOLEAN
    BY <1>3, <2>2
  <2>5. ~(inLine' >= CyclesPerLine)
    BY <2>1
  <2>6. ~hblankSent' /\ looping' /\ spent' = 0 /\ stage' = "timing"
    BY <1>3, <2>2, <2>3
  <2> QED BY <1>5, <2>1, <2>4, <2>5, <2>6 DEF ClockInv
<1>10. HappenedInv'
  BY <1>1 DEF HappenedInv
<1>11. Waiting'
  <2>1. NoneWait
    BY <1>1 DEF StepInv, Waiting, HBlankWaits, LineWaits, VBlankInWaits, VBlankOutWaits
  <2>2. CASE line + 1 = ActiveLines
    <3>1. line' = ActiveLines /\ frame' = frame /\ shown = frame /\ line + 1 # LinesPerFrame
      BY <1>3, <1>4, <2>1, <2>2 DEF NextLine, NoneWait, FrameShown
    <3>2. VBlankInWaits'
      BY <1>1, <1>3, <1>7, <2>2, <3>1 DEF VBlankInWaits, LineBegins, Event
    <3> QED BY <3>2 DEF Waiting
  <2>3. CASE line + 1 = LinesPerFrame
    <3>1. line' = 0 /\ frame' = NextFrame /\ shown = NextFrame
      BY <1>3, <1>4, <2>1, <2>3 DEF NextLine, NoneWait, FrameShown
    <3>2. VBlankOutWaits'
      BY <1>1, <1>3, <1>7, <2>3, <3>1 DEF VBlankOutWaits, LineBegins, InHBlank, Event
    <3> QED BY <3>2 DEF Waiting
  <2>4. CASE line + 1 \notin {ActiveLines, LinesPerFrame}
    <3>1. line' = line + 1 /\ frame' = frame /\ (line' >= ActiveLines <=> line >= ActiveLines)
      BY <1>3, <1>4, <2>4 DEF NextLine
    <3>2. LineWaits'
      BY <1>1, <1>3, <1>7, <2>1, <2>4, <3>1
         DEF LineWaits, NoneWait, LineBegins, InHBlank, Event, BlankShown, FrameShown, NextFrame
    <3> QED BY <3>2 DEF Waiting
  <2> QED BY <2>2, <2>3, <2>4
<1> QED BY <1>9, <1>10, <1>11 DEF StepInv

\* The clock finds the line still running.
LEMMA LastStep ==
    ASSUME StepInv, stage = "timing", LastPass, stage' = "events",
           UNCHANGED <<spent, vdp2, happened, shown>>
    PROVE  StepInv'
<1> USE TimingAssumption
<1>1. looping /\ inLine < CyclesPerLine /\ happened = {} /\ spent = 0
  BY DEF LastPass, StepInv, ClockInv, HappenedInv
<1>2. /\ line' = line /\ frame' = frame /\ inLine' = inLine /\ looping' = FALSE
      /\ out' = out \o HBlankEvents /\ hblankSent' = (hblankSent \/ HBlankNow)
  BY DEF LastPass
<1>3. /\ line \in 0 .. LinesPerFrame - 1 /\ inLine \in Nat /\ hblankSent \in BOOLEAN
      /\ hblankSent => inLine >= HBlankStart
      /\ out # <<>> => ~hblankSent
  BY <1>1 DEF StepInv, ClockInv
<1>4. hblankSent' <=> inLine >= HBlankStart
  BY <1>2, <1>3 DEF HBlankNow
<1>5. hblankSent' \in BOOLEAN
  BY <1>2, <1>3 DEF HBlankNow
<1>6. ClockInv'
  BY <1>1, <1>2, <1>3, <1>4, <1>5 DEF StepInv, ClockInv
<1>7. HappenedInv'
  BY <1>1 DEF HappenedInv
<1>8. CASE HBlankNow /\ line < ActiveLines
  <2>1. HBlankEvents = <<HBlankBegins>> /\ InHBlank' /\ ~InHBlank
    BY <1>2, <1>8 DEF HBlankEvents, HBlankBegins, InHBlank, HBlankNow
  <2> DEFINE s == LineBegins
             w == Event("VBlankOut", 0)
             h == HBlankBegins
  <2>6. /\ out = <<s>> => out' = <<s, h>>
        /\ out = <<w, s>> => out' = <<w, s, h>>
    <3>1. out' = out \o <<h>>
      BY <1>2, <2>1
    <3> HIDE DEF s, w, h
    <3> QED BY <3>1, Joined, Zenon
  <2>7. LineBegins' = LineBegins /\ HBlankBegins' = HBlankBegins
    BY <1>2 DEF LineBegins, HBlankBegins, Event
  <2>2. NoneWait => HBlankWaits'
    BY <1>2, <2>1 DEF NoneWait, HBlankWaits, HBlankBegins, BlankShown, FrameShown, NextFrame, Event
  <2>3. LineWaits => LineWaits'
    BY <1>2, <2>1, <2>6, <2>7 DEF LineWaits, BlankShown, FrameShown, NextFrame
  <2>4. ~HBlankWaits /\ ~VBlankInWaits
    BY <1>3, <1>8, <2>1 DEF HBlankWaits, VBlankInWaits
  <2>5. VBlankOutWaits => VBlankOutWaits'
    BY <1>1, <1>2, <2>1, <2>6, <2>7 DEF VBlankOutWaits
  <2> QED BY <1>6, <1>7, <2>2, <2>3, <2>4, <2>5 DEF StepInv, Waiting
<1>9. CASE ~(HBlankNow /\ line < ActiveLines)
  <2>1. HBlankEvents = <<>> /\ (InHBlank' <=> InHBlank)
    BY <1>2, <1>9 DEF HBlankEvents, InHBlank, HBlankNow
  <2>2. out' = out
    BY <1>2, <2>1 DEF StepInv, Waiting, NoneWait, HBlankWaits, LineWaits, VBlankInWaits,
                      VBlankOutWaits
  <2>3. Waiting'
    BY <1>2, <2>1, <2>2
       DEF StepInv, Waiting, NoneWait, HBlankWaits, LineWaits, VBlankInWaits, VBlankOutWaits,
           LineBegins, HBlankBegins, BlankShown, FrameShown, NextFrame, Event
  <2> QED BY <1>6, <1>7, <2>3 DEF StepInv
<1> QED BY <1>8, <1>9

\* An event of the clock is handled.
LEMMA EventStep ==
    ASSUME StepInv, OnVideoEvent
    PROVE  StepInv'
<1> USE TimingAssumption, MachineAssumption
<1> DEFINE ev == Head(out)
<1>1. /\ stage = "events" /\ out # <<>> /\ out' = Tail(out) /\ vdp2' = Vdp2Flags(ev)
      /\ happened' = happened \cup Raised(ev)
      /\ shown' = (IF ev.kind = "VBlankIn" THEN HandFrame ELSE shown)
      /\ UNCHANGED <<line, frame, inLine, hblankSent, looping, stage, spent>>
  BY DEF OnVideoEvent
<1>2. /\ line \in 0 .. LinesPerFrame - 1 /\ frame \in 0 .. FrameWidth - 1
      /\ happened \subseteq {VBlankIn, VBlankOut, HBlankIn} /\ HBlankIn \notin happened
      /\ VBlankIn \in happened => line >= ActiveLines
      /\ vdp2 \in [vblank : BOOLEAN, hblank : BOOLEAN, line : 0 .. LinesPerFrame - 1]
  BY <1>1 DEF StepInv, ClockInv, HappenedInv
<1>3. ClockInv'
  BY <1>1 DEF StepInv, ClockInv
<1>4. InHBlank' = InHBlank /\ LineBegins' = LineBegins /\ HBlankBegins' = HBlankBegins
        /\ NextFrame' = NextFrame
  BY <1>1 DEF InHBlank, LineBegins, HBlankBegins, NextFrame, Event
<1>11. vdp2' \in [vblank : BOOLEAN, hblank : BOOLEAN, line : 0 .. LinesPerFrame - 1]
  <2> DEFINE vb == ev.kind = "VBlankIn" \/ (vdp2.vblank /\ ev.kind # "VBlankOut")
             hb == ev.kind = "HBlankIn" \/ (vdp2.hblank /\ ev.kind # "LineStart")
             li == IF ev.kind = "LineStart" THEN ev.line ELSE vdp2.line
  <2>1. vb \in BOOLEAN /\ hb \in BOOLEAN
    OBVIOUS
  <2>2. ev.kind = "LineStart" => ev.line = line
    BY <1>1, Shortened DEF StepInv, Waiting, NoneWait, HBlankWaits, LineWaits, VBlankInWaits,
          VBlankOutWaits, HBlankBegins, LineBegins, Event
  <2>3. li \in 0 .. LinesPerFrame - 1
    BY <1>2, <2>2
  <2>4. vdp2' = [vblank |-> vb, hblank |-> hb, line |-> li]
    BY <1>1 DEF Vdp2Flags
  <2> HIDE DEF vb, hb, li
  <2> QED BY <2>1, <2>3, <2>4
<1>12. /\ vdp2'.vblank <=> ev.kind = "VBlankIn" \/ (vdp2.vblank /\ ev.kind # "VBlankOut")
       /\ vdp2'.hblank <=> ev.kind = "HBlankIn" \/ (vdp2.hblank /\ ev.kind # "LineStart")
       /\ vdp2'.line = IF ev.kind = "LineStart" THEN ev.line ELSE vdp2.line
  BY <1>1, Zenon DEF Vdp2Flags
<1>5. CASE HBlankWaits
  <2>1. ev = HBlankBegins /\ out' = <<>> /\ InHBlank
    BY <1>1, <1>5 DEF HBlankWaits
  <2>2. /\ vdp2'.vblank <=> vdp2.vblank
        /\ vdp2'.hblank
        /\ vdp2'.line = vdp2.line
        /\ Raised(ev) = {HBlankIn} /\ shown' = shown
    BY <1>1, <1>12, <2>1 DEF HBlankBegins, Event, Raised
  <2>3. NoneWait'
    BY <1>1, <1>2, <1>4, <1>5, <2>1, <2>2 DEF NoneWait, HBlankWaits, BlankShown, FrameShown
  <2>4. HappenedInv'
    BY <1>1, <1>2, <1>4, <2>1, <2>2 DEF HappenedInv
  <2> QED BY <1>3, <1>11, <2>3, <2>4 DEF StepInv, Waiting
<1>6. CASE LineWaits
  <2>1. ev = LineBegins
    BY <1>6 DEF LineWaits
  <2>2. /\ vdp2'.vblank <=> vdp2.vblank
        /\ ~vdp2'.hblank
        /\ vdp2'.line = line
        /\ Raised(ev) = {} /\ shown' = shown
    BY <1>1, <1>12, <2>1 DEF LineBegins, Event, Raised
  <2>3. happened' = happened
    BY <1>1, <2>2
  <2>4. HappenedInv'
    BY <1>1, <1>2, <2>3 DEF HappenedInv
  <2>5. CASE out = <<LineBegins>> /\ ~InHBlank
    <3>1. out' = <<>>
      BY <1>1, <2>5
    <3>2. NoneWait'
      BY <1>1, <1>2, <1>4, <1>6, <2>2, <2>5, <3>1 DEF NoneWait, LineWaits, BlankShown, FrameShown
    <3> QED BY <1>3, <1>11, <2>4, <3>2 DEF StepInv, Waiting
  <2>6. CASE out = <<LineBegins, HBlankBegins>> /\ InHBlank
    <3>1. out' = <<HBlankBegins>>
      BY <1>1, <2>6
    <3>2. HBlankWaits'
      BY <1>1, <1>2, <1>4, <1>6, <2>2, <2>6, <3>1 DEF HBlankWaits, LineWaits, BlankShown, FrameShown
    <3> QED BY <1>3, <1>11, <2>4, <3>2 DEF StepInv, Waiting
  <2> QED BY <1>6, <2>5, <2>6 DEF LineWaits
<1>7. CASE VBlankInWaits
  <2>1. ev = Event("VBlankIn", 0) /\ out' = <<LineBegins>> /\ line = ActiveLines /\ shown = frame
    BY <1>1, <1>7 DEF VBlankInWaits
  <2>2. vdp2'.vblank /\ Raised(ev) = {VBlankIn}
    BY <1>1, <1>12, <2>1 DEF Event, Raised
  <2>3. shown' = NextFrame
    <3>1. shown' = (frame + 1) % FrameWidth
      BY <1>1, <2>1 DEF Event, HandFrame
    <3>2. CASE frame + 1 = FrameWidth
      BY <1>2, <3>1, <3>2 DEF NextFrame
    <3>3. CASE frame + 1 # FrameWidth
      BY <1>2, <3>1, <3>3 DEF NextFrame
    <3> QED BY <3>2, <3>3
  <2>4. LineWaits'
    <3>0. ~InHBlank /\ line >= ActiveLines
      BY <1>2, <2>1 DEF InHBlank
    <3>1. ~InHBlank' /\ out' = <<LineBegins>>' /\ line' >= ActiveLines
      BY <1>1, <1>4, <2>1, <3>0
    <3>2. BlankShown' /\ FrameShown'
      BY <1>1, <1>4, <2>2, <2>3, <3>1 DEF BlankShown, FrameShown
    <3> QED BY <3>1, <3>2 DEF LineWaits
  <2>5. HappenedInv'
    BY <1>1, <1>2, <2>1, <2>2 DEF HappenedInv
  <2> QED BY <1>3, <1>11, <2>4, <2>5 DEF StepInv, Waiting
<1>8. CASE VBlankOutWaits
  <2>1. ev = Event("VBlankOut", 0) /\ line = 0 /\ shown = frame
    BY <1>8 DEF VBlankOutWaits
  <2>2. ~vdp2'.vblank /\ Raised(ev) = {VBlankOut} /\ shown' = shown
    BY <1>1, <1>12, <2>1 DEF Event, Raised
  <2>3. \/ out' = <<LineBegins>> /\ ~InHBlank
        \/ out' = <<LineBegins, HBlankBegins>> /\ InHBlank
    <3> DEFINE w == Event("VBlankOut", 0)
               s == LineBegins
               h == HBlankBegins
    <3>1. \/ out = <<w, s>> /\ ~InHBlank
          \/ out = <<w, s, h>> /\ InHBlank
      BY <1>8 DEF VBlankOutWaits
    <3> HIDE DEF w, s, h
    <3>2. out' = Tail(out)
      BY <1>1
    <3>3. \/ out' = <<s>> /\ ~InHBlank
          \/ out' = <<s, h>> /\ InHBlank
      <4>1. Tail(<<w, s>>) = <<s>> /\ Tail(<<w, s, h>>) = <<s, h>>
        OBVIOUS
      <4> QED BY <3>1, <3>2, <4>1
    <3> QED BY <3>3 DEF s, h
  <2>4. LineWaits'
    <3>1. ~(line' >= ActiveLines) /\ frame' = frame
      BY <1>1, <2>1
    <3>2. BlankShown' /\ FrameShown'
      BY <2>1, <2>2, <3>1 DEF BlankShown, FrameShown
    <3>3. \/ out' = <<LineBegins>>' /\ ~InHBlank'
          \/ out' = <<LineBegins, HBlankBegins>>' /\ InHBlank'
      BY <1>4, <2>3
    <3> QED BY <3>2, <3>3 DEF LineWaits
  <2>5. HappenedInv'
    BY <1>1, <1>2, <2>1, <2>2 DEF HappenedInv
  <2> QED BY <1>3, <1>11, <2>4, <2>5 DEF StepInv, Waiting
<1>9. ~NoneWait
  BY <1>1 DEF NoneWait
<1> QED BY <1>5, <1>6, <1>7, <1>8, <1>9 DEF StepInv, Waiting

\* What a step does with the clock and its events, in all its stages.
THEOREM StepsAreOrderly == Spec => []StepInv
<1> USE TimingAssumption, MachineAssumption
<1>1. Init => StepInv
  <2> SUFFICES ASSUME Init PROVE StepInv
    OBVIOUS
  <2>1. /\ line = 0 /\ frame = 0 /\ inLine = 0 /\ hblankSent = FALSE /\ looping = FALSE
        /\ out = <<>> /\ stage = "cpu" /\ spent = 0 /\ happened = {} /\ shown = 0
        /\ vdp2 = [vblank |-> FALSE, hblank |-> FALSE, line |-> 0]
    BY DEF Init, TimingInit
  <2>2. 0 \in 0 .. LinesPerFrame - 1 /\ 0 \in 0 .. FrameWidth - 1
    OBVIOUS
  <2>3. ~(0 >= ActiveLines) /\ 0 < CyclesPerLine /\ ~(0 >= HBlankStart)
    OBVIOUS
  <2>4. ClockInv
    BY <2>1, <2>2, <2>3 DEF ClockInv
  <2>5. HappenedInv
    BY <2>1 DEF HappenedInv
  <2>6. ~vdp2.vblank /\ ~vdp2.hblank /\ vdp2.line = 0
    BY <2>1
  <2>7. NoneWait
    BY <2>1, <2>3, <2>6 DEF NoneWait, InHBlank, BlankShown, FrameShown
  <2>8. vdp2 \in [vblank : BOOLEAN, hblank : BOOLEAN, line : 0 .. LinesPerFrame - 1]
    BY <2>1, <2>2
  <2> QED BY <2>4, <2>5, <2>7, <2>8 DEF StepInv, Waiting
<1>2. StepInv /\ [Next]_machineVars => StepInv'
  <2> SUFFICES ASSUME StepInv, [Next]_machineVars PROVE StepInv'
    OBVIOUS
  <2>1. CASE RunAsleep \/ LeaveBlock
    <3>1. /\ stage \in {"cpu", "block"} /\ stage' = "timing"
          /\ spent' \in BlockCycles /\ UNCHANGED <<timing, vdp2, happened, shown>>
      BY <2>1 DEF RunAsleep, LeaveBlock
    <3> QED BY <3>1, BlockStep
  <2>2. CASE EnterBlock \/ Fault \/ TakeReady \/ EndOfTransfers \/ Deliver
    <3>1. /\ stage \notin {"timing", "events"} /\ stage' \notin {"timing", "events", "smpc", "vdp1"}
          /\ UNCHANGED <<timing, spent, vdp2, shown>>
          /\ happened' = {} \/ happened' = happened
      BY <2>2 DEF EnterBlock, Fault, TakeReady, EndOfTransfers, Deliver
    <3>2. stage' \in {"cpu", "block", "fault"} => happened' = {}
      <4>1. stage \in {"cpu", "block"} => happened = {}
        BY DEF StepInv, HappenedInv
      <4> QED BY <2>2, <4>1 DEF EnterBlock, Fault, TakeReady, EndOfTransfers, Deliver
    <3> QED BY <3>1, <3>2, NextStage
  <2>3. CASE WriteScu \/ WriteOther \/ Transfer \/ UNCHANGED machineVars
    BY <2>3, SameStep DEF WriteScu, WriteOther, Transfer, machineVars, StepVars
  <2>4. CASE AdvanceClock
    <3>1. CASE spent # 0 /\ Enter(spent) /\ spent' = 0 /\ UNCHANGED stage
      BY <2>4, <3>1, EnterStep DEF AdvanceClock
    <3>2. CASE LastPass /\ stage' = "events" /\ UNCHANGED spent
      BY <2>4, <3>2, LastStep DEF AdvanceClock
    <3>3. CASE LinePass /\ UNCHANGED <<stage, spent>>
      BY <2>4, <3>3, LineStep DEF AdvanceClock
    <3> QED BY <2>4, <3>1, <3>2, <3>3 DEF AdvanceClock
  <2>5. CASE OnVideoEvent
    BY <2>5, EventStep
  <2>6. CASE EndOfEvents \/ ServiceSmpc \/ ServiceVdp1
    BY <2>6, ServiceStep
  <2> QED BY <2>1, <2>2, <2>3, <2>4, <2>5, <2>6 DEF Next
<1> QED BY <1>1, <1>2, PTL DEF Spec

-----------------------------------------------------------------------------
(* The machine implements Interrupts, and inherits what is proved of it. *)

IP == INSTANCE InterruptsProofs WITH phase <- Phase, Disciplined <- TRUE

\* What Interrupts assumes of the constants holds of the machine's.
LEMMA Assumed == IP!ScuAssumption /\ IP!ProgramAssumption
BY ScuAssumption, MachineAssumption DEF IP!ScuAssumption, IP!ProgramAssumption

\* An event of a step has not happened in it before.
LEMMA FreshEvents ==
    ASSUME StepInv, OnVideoEvent, NEW b \in Raised(Head(out))
    PROVE  Raised(Head(out)) = {b} /\ b \in {HBlankIn, VBlankIn, VBlankOut} /\ b \notin happened
<1> USE MachineAssumption
<1> DEFINE ev == Head(out)
<1>1. stage = "events" /\ out # <<>>
  BY DEF OnVideoEvent
<1>2. HBlankIn \notin happened /\ (VBlankIn \in happened => line >= ActiveLines)
  BY <1>1 DEF StepInv, HappenedInv
<1>3. CASE HBlankWaits
  BY <1>2, <1>3 DEF HBlankWaits, HBlankBegins, Event, Raised
<1>4. CASE LineWaits
  BY <1>2, <1>4 DEF LineWaits, LineBegins, Event, Raised
<1>5. CASE VBlankInWaits
  BY <1>2, <1>5 DEF VBlankInWaits, Event, Raised
<1>6. CASE VBlankOutWaits
  BY <1>2, <1>6 DEF VBlankOutWaits, Event, Raised
<1> QED BY <1>1, <1>3, <1>4, <1>5, <1>6 DEF StepInv, Waiting, NoneWait

\* Raising one of the events of the machine is a step of Interrupts.
LEMMA EventRefines ==
    ASSUME NEW b \in (Bits \ {EndBit[c] : c \in Channels}) \ happened,
           IF b \in EventBits THEN Happen(b) ELSE Raise(b),
           happened' = happened \cup {b}, Phase = "events", Phase' = "events", UNCHANGED cpu
    PROVE  IP!RaiseEvent
BY DEF IP!RaiseEvent, IP!Happen, Happen, IP!Raise, Raise, IP!Triggered, Triggered,
       IP!IfWaiting, IfWaiting, IP!cpu, cpu

\* Every step of the machine is one of Interrupts or leaves its state alone.
LEMMA StepRefines == StepInv /\ [Next]_machineVars => [IP!Next]_(IP!vars)
<1> SUFFICES ASSUME StepInv, [Next]_machineVars PROVE [IP!Next]_(IP!vars)
  OBVIOUS
<1> USE DEF scu, cpu, IP!scu, IP!cpu
<1>1. CASE RunAsleep
  <2>1. IP!RunAsleep
    BY <1>1 DEF RunAsleep, IP!RunAsleep, Phase
  <2> QED BY <2>1 DEF IP!Next
<1>2. CASE EnterBlock
  <2>1. IP!EnterBlock
    BY <1>2 DEF EnterBlock, IP!EnterBlock, Phase
  <2> QED BY <2>1 DEF IP!Next
<1>3. CASE WriteScu
  <2>1. IP!WriteRegister
    <3>1. ImsValues \subseteq SUBSET Bits /\ IstValues \subseteq SUBSET Bits
      BY MachineAssumption
    <3>2. Phase = "block" /\ Phase' = "block" /\ UNCHANGED <<cpu, happened>>
      BY <1>3 DEF WriteScu, Phase
    <3>3. CASE \E s \in ImsValues : WriteIms(s)
      BY <3>1, <3>2, <3>3 DEF IP!WriteRegister, WriteIms, IP!WriteIms
    <3>4. CASE \E s \in IstValues : WriteIst(s)
      BY <3>1, <3>2, <3>4 DEF IP!WriteRegister, WriteIst, IP!WriteIst
    <3>5. ASSUME NEW c \in Channels \ Started,
                 (\E f \in Factors : WriteMode(c, f))
                    \/ (\E en \in Enables : WriteEnable(c, en))
          PROVE  IP!WriteRegister
      <4>1. IP!LeavesAlone(c)
        BY DEF IP!LeavesAlone, IP!Started, Started
      <4>2. CASE \E f \in Factors : WriteMode(c, f)
        BY <3>2, <4>1, <4>2 DEF IP!WriteRegister, WriteMode, IP!WriteMode, Factors, IP!Factors
      <4>3. CASE \E en \in Enables : WriteEnable(c, en)
        BY <3>2, <4>1, <4>3 DEF IP!WriteRegister, WriteEnable, IP!WriteEnable
      <4> QED BY <3>5, <4>2, <4>3
    <3> QED BY <1>3, <3>3, <3>4, <3>5 DEF WriteScu
  <2> QED BY <2>1 DEF IP!Next
<1>4. CASE LeaveBlock
  <2>1. IP!LeaveBlock
    BY <1>4 DEF LeaveBlock, IP!LeaveBlock, Phase, Sleep, IP!Sleep, Rte, IP!Rte, Trapa, IP!Trapa,
                Saved, IP!Saved, LoadMask, IP!LoadMask, KeepsMask, IP!KeepsMask, Entered, IP!Entered
  <2> QED BY <2>1 DEF IP!Next
<1>5. CASE Fault
  <2>1. IP!Fault
    BY <1>5 DEF Fault, IP!Fault, Phase
  <2> QED BY <2>1 DEF IP!Next
<1>6. CASE OnVideoEvent
  <2>1. Phase = "events" /\ Phase' = "events" /\ UNCHANGED cpu
          /\ happened' = happened \cup Raised(Head(out))
    BY <1>6 DEF OnVideoEvent, Phase
  <2>2. CASE Raised(Head(out)) = {}
    BY <1>6, <2>1, <2>2 DEF OnVideoEvent, IP!vars
  <2>3. CASE Raised(Head(out)) # {}
    <3>1. PICK b \in Raised(Head(out)) : Happen(b)
      BY <1>6, <2>3 DEF OnVideoEvent
    <3>2. Raised(Head(out)) = {b} /\ b \in EventBits /\ b \notin happened
      BY <1>6, <3>1, FreshEvents, MachineAssumption
    <3>3. b \in (Bits \ {EndBit[c] : c \in Channels}) \ happened
      BY <3>2, ScuAssumption
    <3>4. IP!RaiseEvent
      BY <2>1, <3>1, <3>2, <3>3, EventRefines
    <3> QED BY <3>4 DEF IP!Next
  <2> QED BY <2>2, <2>3
<1>7. CASE ServiceSmpc
  <2>1. Phase = "events" /\ Phase' = "events" /\ UNCHANGED cpu
    BY <1>7 DEF ServiceSmpc, Phase
  <2>2. CASE smpc.irq
    <3>1. Raise(SystemManager) /\ happened' = happened \cup {SystemManager}
      BY <1>7, <2>2 DEF ServiceSmpc
    <3>2. SystemManager \notin EventBits /\ SystemManager \notin happened
      BY <1>7, MachineAssumption DEF ServiceSmpc, StepInv, HappenedInv
    <3>3. SystemManager \in (Bits \ {EndBit[c] : c \in Channels}) \ happened
      BY <3>2, MachineAssumption
    <3>4. IP!RaiseEvent
      BY <2>1, <3>1, <3>2, <3>3, EventRefines
    <3> QED BY <3>4 DEF IP!Next
  <2>3. CASE ~smpc.irq
    BY <1>7, <2>1, <2>3 DEF ServiceSmpc, IP!vars
  <2> QED BY <2>2, <2>3
<1>8. CASE ServiceVdp1
  <2>1. Phase = "events" /\ Phase' = "events" /\ UNCHANGED cpu
    BY <1>8 DEF ServiceVdp1, Phase
  <2>2. CASE vdp1.draw
    <3>1. Happen(SpriteEnd) /\ happened' = happened \cup {SpriteEnd}
      BY <1>8, <2>2 DEF ServiceVdp1
    <3>2. SpriteEnd \in EventBits /\ SpriteEnd \notin happened
      BY <1>8, MachineAssumption DEF ServiceVdp1, StepInv, HappenedInv
    <3>3. SpriteEnd \in (Bits \ {EndBit[c] : c \in Channels}) \ happened
      BY <3>2, ScuAssumption
    <3>4. IP!RaiseEvent
      BY <2>1, <3>1, <3>2, <3>3, EventRefines
    <3> QED BY <3>4 DEF IP!Next
  <2>3. CASE ~vdp1.draw
    BY <1>8, <2>1, <2>3 DEF ServiceVdp1, IP!vars
  <2> QED BY <2>2, <2>3
<1>9. CASE TakeReady
  <2>1. IP!EndOfEvents
    BY <1>9 DEF TakeReady, IP!EndOfEvents, Phase
  <2> QED BY <2>1 DEF IP!Next
<1>10. CASE Transfer
  <2>1. IP!Transfer
    BY <1>10 DEF Transfer, IP!Transfer, Phase, RunDma, IP!RunDma
  <2> QED BY <2>1 DEF IP!Next
<1>11. CASE EndOfTransfers
  <2>1. IP!EndOfTransfers
    BY <1>11 DEF EndOfTransfers, IP!EndOfTransfers, Phase
  <2> QED BY <2>1 DEF IP!Next
<1>12. CASE Deliver
  <2>1. IP!Deliver
    BY <1>12 DEF Deliver, IP!Deliver, Phase, IsBest, IP!IsBest, Active, IP!Active,
                 Interrupt, IP!Interrupt, Accepts, IP!Accepts, Saved, IP!Saved,
                 Acknowledge, IP!Acknowledge
  <2> QED BY <2>1 DEF IP!Next
<1>13. CASE WriteOther \/ AdvanceClock \/ EndOfEvents \/ UNCHANGED machineVars
  BY <1>13 DEF WriteOther, AdvanceClock, EndOfEvents, machineVars, IP!vars, Phase
<1> QED
  BY <1>1, <1>2, <1>3, <1>4, <1>5, <1>6, <1>7, <1>8, <1>9, <1>10, <1>11, <1>12, <1>13 DEF Next

\* Interrupts is the same specification, whether its proofs come with it or not.
LEMMA SameSteps == [IP!Next]_(IP!vars) => [Delivery!Next]_(Delivery!vars)
<1>1. IP!RunAsleep => Delivery!RunAsleep
  BY Zenon
     DEF IP!RunAsleep, Delivery!RunAsleep, IP!scu, Delivery!scu, IP!cpu,
         Delivery!cpu
<1>2. IP!EnterBlock => Delivery!EnterBlock
  BY Zenon
     DEF IP!EnterBlock, Delivery!EnterBlock, IP!scu, Delivery!scu, IP!cpu,
         Delivery!cpu
<1>3. IP!WriteRegister => Delivery!WriteRegister
  BY Zenon
     DEF IP!WriteRegister, Delivery!WriteRegister, IP!WriteIms, Delivery!WriteIms,
         IP!WriteIst, Delivery!WriteIst, IP!WriteMode, Delivery!WriteMode,
         IP!WriteEnable, Delivery!WriteEnable, IP!Factors, Delivery!Factors,
         IP!Started, Delivery!Started, IP!LeavesAlone, Delivery!LeavesAlone,
         IP!cpu, Delivery!cpu
<1>4. IP!LeaveBlock => Delivery!LeaveBlock
  BY Zenon
     DEF IP!LeaveBlock, Delivery!LeaveBlock, IP!Sleep, Delivery!Sleep, IP!Rte,
         Delivery!Rte, IP!Trapa, Delivery!Trapa, IP!Saved, Delivery!Saved,
         IP!LoadMask, Delivery!LoadMask, IP!KeepsMask, Delivery!KeepsMask,
         IP!Entered, Delivery!Entered, IP!scu, Delivery!scu, IP!cpu, Delivery!cpu
<1>5. IP!Fault => Delivery!Fault
  BY Zenon
     DEF IP!Fault, Delivery!Fault, IP!scu, Delivery!scu, IP!cpu, Delivery!cpu
<1>6. IP!RaiseEvent => Delivery!RaiseEvent
  BY Zenon
     DEF IP!RaiseEvent, Delivery!RaiseEvent, IP!Happen, Delivery!Happen, IP!Raise,
         Delivery!Raise, IP!Triggered, Delivery!Triggered, IP!IfWaiting,
         Delivery!IfWaiting, IP!cpu, Delivery!cpu
<1>7. IP!EndOfEvents => Delivery!EndOfEvents
  BY Zenon
     DEF IP!EndOfEvents, Delivery!EndOfEvents, IP!scu, Delivery!scu, IP!cpu,
         Delivery!cpu
<1>8. IP!Transfer => Delivery!Transfer
  BY Zenon
     DEF IP!Transfer, Delivery!Transfer, IP!RunDma, Delivery!RunDma, IP!cpu,
         Delivery!cpu
<1>9. IP!EndOfTransfers => Delivery!EndOfTransfers
  BY Zenon
     DEF IP!EndOfTransfers, Delivery!EndOfTransfers, IP!scu, Delivery!scu, IP!cpu,
         Delivery!cpu
<1>10. IP!Deliver => Delivery!Deliver
  BY Zenon
     DEF IP!Deliver, Delivery!Deliver, IP!IsBest, Delivery!IsBest, IP!Active,
         Delivery!Active, IP!Interrupt, Delivery!Interrupt, IP!Accepts,
         Delivery!Accepts, IP!Saved, Delivery!Saved, IP!Acknowledge,
         Delivery!Acknowledge, IP!scu, Delivery!scu, IP!cpu, Delivery!cpu
<1>11. UNCHANGED IP!vars => UNCHANGED Delivery!vars
  BY DEF IP!vars, Delivery!vars, IP!scu, Delivery!scu, IP!cpu, Delivery!cpu
<1> QED BY <1>1, <1>2, <1>3, <1>4, <1>5, <1>6, <1>7, <1>8, <1>9, <1>10, <1>11
        DEF IP!Next, Delivery!Next

\* The machine's initial state is one of Interrupts.
LEMMA InitRefines == Init => IP!Init /\ Delivery!Init
BY DEF Init, IP!Init, Delivery!Init, ScuInit, IP!ScuInit, Delivery!ScuInit, CpuInit, IP!CpuInit,
       Delivery!CpuInit, Phase

\* The machine, with the video clock, the VDP1 and the SMPC as the sources of its
\* events, is one of the machines Interrupts describes.
THEOREM MachineImplements == Spec => ImplementsInterrupts
<1>1. StepInv /\ [Next]_machineVars => [Delivery!Next]_(Delivery!vars)
  BY StepRefines, SameSteps
<1> QED BY <1>1, InitRefines, StepsAreOrderly, PTL DEF Spec, ImplementsInterrupts, Delivery!Spec

\* So every interrupt the CPU would take is taken before the next block, handlers
\* nest by rising level, and no channel is queued twice.
THEOREM InterruptsHold ==
    Spec => [](/\ IP!TypeOK /\ IP!NothingDeliverable /\ IP!NestingRises
               /\ IP!ReadyAreArmed /\ IP!QueueIsFresh)
<1>1. Spec => IP!Spec
  BY StepRefines, InitRefines, StepsAreOrderly, PTL DEF Spec, IP!Spec
<1>2. /\ IP!Spec => []IP!TypeOK
      /\ IP!Spec => []IP!NothingDeliverable
      /\ IP!Spec => []IP!NestingRises
      /\ IP!Spec => [](IP!ReadyAreArmed /\ IP!QueueIsFresh)
  BY Assumed, IP!TypeCorrect, IP!NoneDeliverable, IP!NestingAlwaysRises, IP!QueueStaysFresh, PTL
<1> QED BY <1>1, <1>2, PTL

-----------------------------------------------------------------------------
(* The flags a program polls, the frames that are shown, the transfers.    *)

\* When the events are handled, none waits.
LEMMA NothingWaits ==
    ASSUME StepInv, stage \notin {"timing", "events"}
    PROVE  NoneWait
<1>1. out = <<>>
  BY DEF StepInv, ClockInv
<1> QED BY <1>1 DEF StepInv, Waiting, HBlankWaits, LineWaits, VBlankInWaits, VBlankOutWaits

\* TVSTAT says where the clock is whenever a program can read it.
THEOREM FlagsAlwaysFollow == Spec => []FlagsFollowClock
<1>1. StepInv => FlagsFollowClock
  BY NothingWaits DEF FlagsFollowClock, NoneWait, BlankShown, InHBlank
<1> QED BY <1>1, StepsAreOrderly, PTL

\* The sink gets every frame once, also when the frame counter wraps.
THEOREM FramesAreShownOnce == Spec => []EachFrameShownOnce
<1>1. StepInv => EachFrameShownOnce
  BY NothingWaits DEF EachFrameShownOnce, NoneWait, FrameShown
<1> QED BY <1>1, StepsAreOrderly, PTL

\* A transfer that a blanking starts runs before that blanking is over.
THEOREM TransfersKeepToTheirBlank == Spec => []TransfersRunInTheirBlank
<1>1. StepInv /\ IP!QueueIsFresh => TransfersRunInTheirBlank
  <2> SUFFICES ASSUME StepInv, IP!QueueIsFresh, stage = "dma", NEW c \in Started
               PROVE  /\ ch[c].factor = HBlankIn => vdp2.hblank
                      /\ ch[c].factor = VBlankIn => vdp2.vblank
    BY DEF TransfersRunInTheirBlank
  <2>1. ch[c].factor \in happened \cup {Software}
    BY DEF IP!QueueIsFresh, Started
  <2>2. Software \notin {HBlankIn, VBlankIn}
    BY ScuAssumption, MachineAssumption
  <2>3. NoneWait
    BY NothingWaits
  <2>4. /\ HBlankIn \in happened => InHBlank
        /\ VBlankIn \in happened => line >= ActiveLines
    BY DEF StepInv, HappenedInv
  <2> QED BY <2>1, <2>2, <2>3, <2>4 DEF NoneWait, BlankShown
<1> QED BY <1>1, StepsAreOrderly, InterruptsHold, PTL

-----------------------------------------------------------------------------
(* The devices that are polled. *)

\* The registers of the VDP1 and the SMPC; the sound CPU obeys the last command
\* it was given, or has it before it.
DeviceInv ==
    /\ smpc \in [irq : BOOLEAN, power : {"none", "on", "off"}]
    /\ vdp1 \in [draw : BOOLEAN, cef : BOOLEAN]
    /\ sound \in BOOLEAN
    /\ vdp1.cef => ~vdp1.draw
    /\ IF smpc.power = "none" THEN sound <=> command = "on" ELSE smpc.power = command

\* A store to a device keeps it.
LEMMA WriteKeepsDevices ==
    ASSUME DeviceInv, WriteDevice, UNCHANGED sound
    PROVE  DeviceInv' /\ (vdp1'.cef => vdp1.cef /\ vdp1' = vdp1)
<1>1. CASE RequestDrawing
  <2>1. vdp1' = [draw |-> TRUE, cef |-> FALSE] /\ UNCHANGED <<smpc, command>>
    BY <1>1 DEF RequestDrawing
  <2>2. vdp1' \in [draw : BOOLEAN, cef : BOOLEAN] /\ vdp1'.cef = FALSE
    BY <2>1
  <2> QED BY <2>1, <2>2 DEF DeviceInv
<1>2. CASE Intback
  <2>1. smpc' = [smpc EXCEPT !.irq = TRUE] /\ UNCHANGED <<vdp1, command>>
    BY <1>2 DEF Intback
  <2>2. smpc' \in [irq : BOOLEAN, power : {"none", "on", "off"}] /\ smpc'.power = smpc.power
    BY <2>1 DEF DeviceInv
  <2> QED BY <2>1, <2>2 DEF DeviceInv
<1>3. ASSUME NEW onOff \in {"on", "off"}, Power(onOff)
      PROVE  DeviceInv' /\ (vdp1'.cef => vdp1.cef /\ vdp1' = vdp1)
  <2>1. smpc' = [smpc EXCEPT !.power = onOff] /\ command' = onOff /\ vdp1' = vdp1
    BY <1>3 DEF Power
  <2>2. smpc' \in [irq : BOOLEAN, power : {"none", "on", "off"}] /\ smpc'.power = onOff
    BY <2>1 DEF DeviceInv
  <2> QED BY <2>1, <2>2 DEF DeviceInv
<1> QED BY <1>1, <1>2, <1>3 DEF WriteDevice

\* Every step keeps it, and CEF rises with the interrupt only.
LEMMA DeviceStep ==
    DeviceInv /\ [Next]_machineVars => DeviceInv' /\ (vdp1'.cef => vdp1.cef \/ SpriteEnd \in ist')
<1> SUFFICES ASSUME DeviceInv, [Next]_machineVars
             PROVE  DeviceInv' /\ (vdp1'.cef => vdp1.cef \/ SpriteEnd \in ist')
  OBVIOUS
<1>1. CASE UNCHANGED <<devices, sound>>
  BY <1>1 DEF devices, DeviceInv
<1>2. CASE WriteOther \/ Transfer \/ EndOfTransfers
  BY <1>1, <1>2, WriteKeepsDevices DEF WriteOther, Transfer, EndOfTransfers
<1>3. CASE ServiceSmpc
  <2>1. /\ smpc' = [irq |-> FALSE, power |-> "none"] /\ UNCHANGED <<vdp1, command>>
        /\ sound' = IF smpc.power = "none" THEN sound ELSE smpc.power = "on"
    BY <1>3 DEF ServiceSmpc
  <2>2. smpc' \in [irq : BOOLEAN, power : {"none", "on", "off"}] /\ smpc'.power = "none"
    BY <2>1
  <2>3. CASE smpc.power = "none"
    BY <2>1, <2>2, <2>3 DEF DeviceInv
  <2>4. CASE smpc.power # "none"
    <3>1. sound' \in BOOLEAN /\ (sound' <=> smpc.power = "on")
      BY <2>1, <2>4
    <3> QED BY <2>1, <2>2, <2>4, <3>1 DEF DeviceInv
  <2> QED BY <2>3, <2>4
<1>4. CASE ServiceVdp1
  <2>1. UNCHANGED <<smpc, command, sound>>
    BY <1>4 DEF ServiceVdp1
  <2>2. CASE vdp1.draw
    <3>1. vdp1' = [draw |-> FALSE, cef |-> TRUE] /\ ist' = ist \cup {SpriteEnd}
      BY <1>4, <2>2 DEF ServiceVdp1, Happen
    <3>2. vdp1' \in [draw : BOOLEAN, cef : BOOLEAN] /\ vdp1'.draw = FALSE
      BY <3>1
    <3> QED BY <2>1, <3>1, <3>2 DEF DeviceInv
  <2>3. CASE ~vdp1.draw
    BY <1>4, <2>1, <2>3 DEF ServiceVdp1, DeviceInv
  <2> QED BY <2>2, <2>3
<1> QED
  BY <1>1, <1>2, <1>3, <1>4 DEF Next, RunAsleep, EnterBlock, WriteScu, LeaveBlock, Fault,
     AdvanceClock, OnVideoEvent, EndOfEvents, TakeReady, Deliver, machineVars

\* The registers of the devices keep to each other.
THEOREM DevicesAreConsistent == Spec => []DeviceInv
<1>1. Init => DeviceInv
  <2> SUFFICES ASSUME Init PROVE DeviceInv
    OBVIOUS
  <2>1. /\ smpc = [irq |-> FALSE, power |-> "none"] /\ vdp1 = [draw |-> FALSE, cef |-> FALSE]
        /\ sound = FALSE /\ command = "off"
    BY DEF Init
  <2>2. vdp1.cef = FALSE /\ smpc.power = "none"
    BY <2>1
  <2>3. smpc \in [irq : BOOLEAN, power : {"none", "on", "off"}]
          /\ vdp1 \in [draw : BOOLEAN, cef : BOOLEAN]
    BY <2>1
  <2> QED BY <2>1, <2>2, <2>3 DEF DeviceInv
<1> QED BY <1>1, DeviceStep, PTL DEF Spec

\* The sound CPU runs when the last command said so, however many a block wrote.
THEOREM SoundAlwaysFollows == Spec => []SoundFollowsCommand
<1>1. DeviceInv => SoundFollowsCommand
  BY DEF DeviceInv, SoundFollowsCommand
<1> QED BY <1>1, DevicesAreConsistent, PTL

\* CEF rises only with the interrupt, and falls before a drawing that is asked for.
THEOREM PollingAlwaysAgrees == Spec => PollingAgrees
<1>1. DeviceInv /\ DeviceInv' /\ [Next]_machineVars =>
         [vdp1'.cef => ~vdp1'.draw /\ (vdp1.cef \/ SpriteEnd \in ist')]_machineVars
  BY DeviceStep DEF DeviceInv
<1> QED BY <1>1, DevicesAreConsistent, PTL DEF Spec, PollingAgrees

\* The machine's state has the right types.
THEOREM MachineTypes == Spec => []TypeOK
<1>1. StepInv /\ DeviceInv /\ IP!TypeOK => TypeOK
  <2> SUFFICES ASSUME StepInv, DeviceInv, IP!TypeOK PROVE TypeOK
    OBVIOUS
  <2>1. ScuType /\ CpuType(Bits \cup {Trap}) /\ happened \subseteq Bits
    BY DEF IP!TypeOK, IP!ScuType, ScuType, IP!Channel, Channel, IP!Factors, Factors,
           IP!CpuType, CpuType
  <2>2. \A i \in DOMAIN out : out[i] \in VideoEvents
    <3>1. \A l \in 0 .. LinesPerFrame - 1 :
             Event("HBlankIn", l) \in VideoEvents /\ Event("LineStart", l) \in VideoEvents
      BY DEF VideoEvents
    <3>2. Event("VBlankIn", 0) \in VideoEvents /\ Event("VBlankOut", 0) \in VideoEvents
      BY DEF VideoEvents
    <3>3. HBlankBegins \in VideoEvents /\ LineBegins \in VideoEvents
      BY <3>1 DEF StepInv, ClockInv, HBlankBegins, LineBegins
    <3> DEFINE v == Event("VBlankIn", 0)
               w == Event("VBlankOut", 0)
    <3>4. out \in {<<>>, <<HBlankBegins>>, <<LineBegins>>, <<LineBegins, HBlankBegins>>,
                    <<v, LineBegins>>, <<w, LineBegins>>, <<w, LineBegins, HBlankBegins>>}
      BY DEF StepInv, Waiting, NoneWait, HBlankWaits, LineWaits, VBlankInWaits, VBlankOutWaits
    <3>5. v \in VideoEvents /\ w \in VideoEvents
      BY <3>2
    <3> HIDE DEF v, w
    <3> QED BY <3>3, <3>4, <3>5
  <2> QED BY <2>1, <2>2 DEF StepInv, ClockInv, DeviceInv, TypeOK
<1> QED BY <1>1, StepsAreOrderly, DevicesAreConsistent, InterruptsHold, PTL

-----------------------------------------------------------------------------
(* How long a CPU sleeps. *)

\* The lines and the cycles since the clock last came to a VBlank-in.
LinesSince ==
    IF line >= ActiveLines THEN line - ActiveLines ELSE line + LinesPerFrame - ActiveLines

SinceVBlank == LinesSince * CyclesPerLine + inLine

\* A VBlank-in waits to be handled.
VBlankInComes == out = <<Event("VBlankIn", 0), LineBegins>>

\* Since the CPU fell asleep, no VBlank-in has come, or it is still to be taken.
SleepInv ==
    /\ asleep \in Nat
    /\ ~sleeping => asleep = 0
    /\ stage = "block" => ~sleeping
    /\ sleeping => asleep <= SinceVBlank + spent \/ VBlankIn \in ist \/ VBlankInComes

\* A clock within the frame has counted less than a frame of cycles.
LEMMA WithinFrame ==
    ASSUME NEW l \in 0 .. LinesPerFrame - 1, NEW i \in Nat
    PROVE  /\ l * CyclesPerLine \in Nat /\ l * CyclesPerLine + i \in Nat
           /\ i < CyclesPerLine => l * CyclesPerLine + i < LinesPerFrame * CyclesPerLine
<1> USE TimingAssumption
<1>1. \A n, c \in Nat : (n + 1) * c = n * c + c /\ n * c \in Nat
  OBVIOUS
<1>2. \A n, k, c \in Nat : n <= k => n * c <= k * c
  OBVIOUS
<1>3. l \in Nat /\ l + 1 \in Nat /\ l + 1 <= LinesPerFrame
  OBVIOUS
<1>4. /\ (l + 1) * CyclesPerLine <= LinesPerFrame * CyclesPerLine
      /\ (l + 1) * CyclesPerLine = l * CyclesPerLine + CyclesPerLine
      /\ l * CyclesPerLine \in Nat /\ LinesPerFrame * CyclesPerLine \in Nat
  BY <1>1, <1>2, <1>3
<1> DEFINE n == l * CyclesPerLine
           k == LinesPerFrame * CyclesPerLine
<1>5. n \in Nat /\ k \in Nat /\ n + CyclesPerLine <= k
  BY <1>4
<1> HIDE DEF n, k
<1>6. n + i \in Nat /\ (i < CyclesPerLine => n + i < k)
  BY <1>5
<1> QED BY <1>4, <1>6, Zenon DEF n, k

\* So is what the model's clock has counted.
LEMMA SinceInFrame ==
    ASSUME StepInv
    PROVE  /\ LinesSince \in 0 .. LinesPerFrame - 1 /\ LinesSince * CyclesPerLine \in Nat
           /\ SinceVBlank \in Nat
           /\ inLine < CyclesPerLine => SinceVBlank < FrameCycles
<1>1. LinesSince \in 0 .. LinesPerFrame - 1 /\ inLine \in Nat
  BY TimingAssumption DEF LinesSince, StepInv, ClockInv
<1> QED BY <1>1, WithinFrame DEF SinceVBlank, FrameCycles

\* A line that ends either begins the VBlank or leaves the count where it was.
LEMMA LineCounts ==
    ASSUME StepInv, StepInv', LinePass, stage = "timing", UNCHANGED vdp2
    PROVE  VBlankInComes' \/ SinceVBlank' = SinceVBlank
<1> USE TimingAssumption
<1>1. /\ looping /\ inLine >= CyclesPerLine /\ out = <<>> /\ inLine \in Nat
      /\ line \in 0 .. LinesPerFrame - 1 /\ line' = NextLine /\ inLine' = inLine - CyclesPerLine
      /\ hblankSent' = FALSE
  BY DEF LinePass, StepInv, ClockInv
<1>2. NoneWait
  BY <1>1 DEF StepInv, Waiting, HBlankWaits, LineWaits, VBlankInWaits, VBlankOutWaits
<1>3. CASE line + 1 = ActiveLines
  <2>1. line' = ActiveLines /\ line' # line /\ line' # 0
    BY <1>1, <1>3 DEF NextLine
  <2>2. ~vdp2'.vblank /\ vdp2'.line # line'
    <3>1. ~(line >= ActiveLines) /\ vdp2' = vdp2
      BY <1>1, <1>3
    <3>2. ~vdp2.vblank /\ vdp2.line = line
      BY <1>2, <3>1, Zenon DEF NoneWait, BlankShown
    <3> QED BY <2>1, <3>1, <3>2, Zenon
  <2>3. ~NoneWait' /\ ~HBlankWaits' /\ ~LineWaits' /\ ~VBlankOutWaits'
    BY <2>1, <2>2 DEF NoneWait, HBlankWaits, LineWaits, VBlankOutWaits, BlankShown
  <2> QED BY <2>3 DEF StepInv, Waiting, VBlankInWaits, VBlankInComes
<1>4. CASE line + 1 # ActiveLines
  <2>1. LinesSince' = LinesSince + 1
    BY <1>1, <1>4 DEF LinesSince, NextLine
  <2>2. LinesSince \in Nat /\ LinesSince * CyclesPerLine \in Nat
    BY SinceInFrame
  <2>3. \A l, c \in Nat : (l + 1) * c = l * c + c
    OBVIOUS
  <2>4. (LinesSince + 1) * CyclesPerLine = LinesSince * CyclesPerLine + CyclesPerLine
    BY <2>2, <2>3
  <2>5. SinceVBlank' = (LinesSince + 1) * CyclesPerLine + (inLine - CyclesPerLine)
    BY <1>1, <2>1 DEF SinceVBlank
  <2> QED BY <1>1, <2>2, <2>4, <2>5 DEF SinceVBlank
<1> QED BY <1>3, <1>4

\* A step that moves no clock and takes no interrupt off.
LEMMA StillSleeping ==
    ASSUME SleepInv, UNCHANGED <<sleeping, asleep, line, inLine, spent, out>>,
           ist \subseteq ist', stage' # "block" \/ ~sleeping
    PROVE  SleepInv'
<1>1. LinesSince' = LinesSince
  BY DEF LinesSince
<1>2. SinceVBlank' = SinceVBlank /\ (VBlankInComes' <=> VBlankInComes)
  BY <1>1 DEF SinceVBlank, VBlankInComes, LineBegins
<1>3. CASE sleeping
  BY <1>2, <1>3 DEF SleepInv
<1>4. CASE ~sleeping
  BY <1>4 DEF SleepInv
<1> QED BY <1>3, <1>4

\* While the CPU is awake the count of its sleep is 0.
LEMMA StillAwake ==
    ASSUME SleepInv, ~sleeping, UNCHANGED <<sleeping, asleep>>
    PROVE  SleepInv'
BY DEF SleepInv

\* Every step keeps it: only a delivery takes a VBlank-in off, and that wakes the CPU.
LEMMA SleepStep == StepInv /\ StepInv' /\ SleepInv /\ [Next]_machineVars => SleepInv'
<1> SUFFICES ASSUME StepInv, StepInv', SleepInv, [Next]_machineVars
             PROVE  SleepInv'
  OBVIOUS
<1>1. /\ SinceVBlank \in Nat /\ SinceVBlank' \in Nat /\ spent \in Nat /\ spent' \in Nat
      /\ SleepCycles \in Nat
  <2>1. LinesSince' \in 0 .. LinesPerFrame - 1 /\ inLine' \in Nat
    <3>1. line' \in 0 .. LinesPerFrame - 1 /\ inLine' \in Nat
      BY DEF StepInv, ClockInv
    <3>2. LinesSince' =
            IF line' >= ActiveLines THEN line' - ActiveLines ELSE line' + LinesPerFrame - ActiveLines
      BY Zenon DEF LinesSince
    <3>3. \A l \in 0 .. LinesPerFrame - 1 :
            (IF l >= ActiveLines THEN l - ActiveLines ELSE l + LinesPerFrame - ActiveLines)
              \in 0 .. LinesPerFrame - 1
      BY TimingAssumption
    <3> QED BY <3>1, <3>2, <3>3, Zenon
  <2>2. SinceVBlank' \in Nat
    <3> DEFINE n == LinesSince' * CyclesPerLine
    <3>1. SinceVBlank' = n + inLine'
      BY Zenon DEF SinceVBlank
    <3>2. n + inLine' \in Nat
      BY <2>1, WithinFrame
    <3> HIDE DEF n
    <3> QED BY <3>1, <3>2
  <2> QED BY <2>2, SinceInFrame, TimingAssumption, MachineAssumption DEF StepInv, ClockInv
<1> USE TimingAssumption, MachineAssumption
<1>2. CASE RunAsleep
  <2>1. /\ UNCHANGED <<sleeping, line, inLine, out, ist>> /\ stage' = "timing" /\ sleeping
        /\ asleep' = asleep \/ asleep' = asleep + SleepCycles
        /\ spent' = SleepCycles /\ spent = 0
    BY <1>2 DEF RunAsleep, timing, scu, cpu, StepInv, ClockInv
  <2>2. SinceVBlank' = SinceVBlank /\ (VBlankInComes' <=> VBlankInComes)
    BY <2>1 DEF SinceVBlank, LinesSince, VBlankInComes, LineBegins, Event
  <2> QED BY <1>1, <2>1, <2>2 DEF SleepInv
<1>3. CASE EnterBlock \/ WriteScu \/ WriteOther \/ Fault
  <2>1. ~sleeping /\ UNCHANGED <<sleeping, asleep>>
    BY <1>3 DEF EnterBlock, WriteScu, WriteOther, Fault, cpu, SleepInv
  <2> QED BY <2>1, StillAwake
<1>4. CASE LeaveBlock
  <2>1. ~sleeping /\ asleep = 0 /\ asleep' = asleep /\ stage' = "timing"
    BY <1>4 DEF LeaveBlock, SleepInv
  <2>2. asleep' <= SinceVBlank' + spent'
    <3>1. \A a, b \in Nat : 0 <= a + b
      OBVIOUS
    <3>2. 0 <= SinceVBlank' + spent'
      BY <1>1, <3>1, Zenon
    <3>3. asleep' = 0
      BY <2>1
    <3> QED BY <3>2, <3>3, Zenon
  <2>3. asleep' = 0 /\ asleep' \in Nat /\ stage' # "block"
    BY <2>1
  <2> QED BY <2>2, <2>3, Zenon DEF SleepInv
<1>5. CASE AdvanceClock
  <2>1. stage = "timing" /\ stage' # "block" /\ UNCHANGED <<ist, sleeping, asleep, vdp2>>
    BY <1>5 DEF AdvanceClock, scu, cpu
  <2>2. CASE spent # 0 /\ Enter(spent) /\ spent' = 0
    <3>1. line' = line /\ inLine' = inLine + spent /\ inLine \in Nat /\ out = <<>>
      BY <2>2 DEF Enter, StepInv, ClockInv
    <3>2. LinesSince' = LinesSince /\ LinesSince * CyclesPerLine \in Nat
      BY <3>1, SinceInFrame DEF LinesSince
    <3>3. SinceVBlank' = SinceVBlank + spent
      <4> DEFINE n == LinesSince * CyclesPerLine
      <4>1. SinceVBlank = n + inLine /\ SinceVBlank' = n + (inLine + spent) /\ n \in Nat
        BY <3>1, <3>2 DEF SinceVBlank
      <4> HIDE DEF n
      <4> QED BY <1>1, <3>1, <4>1
    <3>4. ~VBlankInComes
      BY <3>1 DEF VBlankInComes
    <3> QED BY <1>1, <2>1, <2>2, <3>3, <3>4 DEF SleepInv
  <2>3. CASE LastPass /\ spent' = spent
    <3>1. line' = line /\ inLine' = inLine /\ out' = out \o HBlankEvents
      BY <2>3 DEF LastPass
    <3>2. SinceVBlank' = SinceVBlank
      BY <3>1 DEF SinceVBlank, LinesSince
    <3>3. ASSUME VBlankInComes PROVE VBlankInComes'
      <4>1. VBlankInWaits
        BY <3>3 DEF VBlankInComes, StepInv, Waiting, NoneWait, HBlankWaits, LineWaits,
                    VBlankOutWaits, HBlankBegins, LineBegins, Event
      <4>2. HBlankEvents = <<>>
        BY <4>1 DEF VBlankInWaits, HBlankEvents
      <4>3. out' = out
        <5> DEFINE v == Event("VBlankIn", 0)
                   s == LineBegins
        <5>1. out = <<v, s>>
          BY <3>3 DEF VBlankInComes
        <5> HIDE DEF v, s
        <5>2. <<v, s>> \o <<>> = <<v, s>>
          OBVIOUS
        <5> QED BY <3>1, <4>2, <5>1, <5>2
      <4> QED BY <3>1, <3>3, <4>3 DEF VBlankInComes, LineBegins, Event
    <3> QED BY <2>1, <2>3, <3>2, <3>3 DEF SleepInv
  <2>4. CASE LinePass /\ spent' = spent
    <3>1. ~VBlankInComes
      BY <2>1, <2>4 DEF LinePass, VBlankInComes, StepInv, ClockInv
    <3> QED BY <2>1, <2>4, <3>1, LineCounts DEF SleepInv
  <2> QED BY <1>5, <2>2, <2>3, <2>4 DEF AdvanceClock
<1>6. CASE OnVideoEvent
  <2>1. /\ UNCHANGED <<sleeping, asleep, line, inLine, spent, stage>> /\ stage = "events"
        /\ out' = Tail(out)
        /\ IF Raised(Head(out)) = {} THEN ist' = ist
           ELSE \E b \in Raised(Head(out)) : ist' = ist \cup {b}
    BY <1>6 DEF OnVideoEvent, cpu, scu, Happen
  <2>2. ist \subseteq ist'
    BY <2>1
  <2>3. SinceVBlank' = SinceVBlank
    BY <2>1 DEF SinceVBlank, LinesSince
  <2>4. ASSUME VBlankInComes PROVE VBlankIn \in ist'
    <3>1. Head(out).kind = "VBlankIn"
      BY <2>4 DEF VBlankInComes, Event
    <3>2. Raised(Head(out)) = {VBlankIn}
      BY <3>1 DEF Raised
    <3> QED BY <2>1, <3>2
  <2> QED BY <2>1, <2>2, <2>3, <2>4 DEF SleepInv
<1>7. CASE EndOfEvents \/ ServiceSmpc \/ ServiceVdp1 \/ TakeReady \/ Transfer \/ EndOfTransfers
  <2>1. /\ UNCHANGED <<sleeping, asleep, line, inLine, spent, out>> /\ ist \subseteq ist'
        /\ stage' # "block"
    BY <1>7 DEF EndOfEvents, ServiceSmpc, ServiceVdp1, TakeReady, Transfer, EndOfTransfers,
                timing, scu, cpu, Raise, Happen, RunDma
  <2> QED BY <2>1, StillSleeping
<1>8. CASE Deliver
  <2>1. /\ UNCHANGED <<line, inLine, spent, out>> /\ stage' = "cpu"
        /\ asleep' = IF sleeping' THEN asleep ELSE 0
        /\ ~sleeping' \/ UNCHANGED <<ist, sleeping>>
    BY <1>8 DEF Deliver, timing, scu, cpu, Interrupt
  <2> QED BY <1>1, <2>1 DEF SleepInv, SinceVBlank, LinesSince, VBlankInComes, LineBegins, Event
<1>9. CASE UNCHANGED machineVars
  <2>1. UNCHANGED <<stage, sleeping, asleep, line, inLine, spent, out, ist>>
    BY <1>9 DEF machineVars, timing, scu, cpu
  <2> QED BY <2>1, StillSleeping DEF SleepInv
<1> QED BY <1>2, <1>3, <1>4, <1>5, <1>6, <1>7, <1>8, <1>9 DEF Next

\* A program that leaves VBlank-in enabled wakes within a frame.
THEOREM SleepsAreShort == Spec => []SleepsAtMostAFrame
<1>1. Init => SleepInv
  BY DEF Init, CpuInit, SleepInv
<1>2. StepInv /\ SleepInv /\ IP!TypeOK /\ IP!NothingDeliverable => SleepsAtMostAFrame
  <2> SUFFICES ASSUME StepInv, SleepInv, IP!TypeOK, IP!NothingDeliverable,
                      stage = "cpu", sleeping, VBlankIn \notin ims, Level[VBlankIn] > imask
               PROVE  asleep <= FrameCycles
    BY DEF SleepsAtMostAFrame
  <2>1. out = <<>> /\ spent = 0 /\ inLine < CyclesPerLine
    BY DEF StepInv, ClockInv
  <2>2. VBlankIn \notin ist
    <3>1. Phase = "cpu"
      BY DEF Phase
    <3>2. \A b \in ist \ ims : Level[b] <= imask
      BY <3>1 DEF IP!NothingDeliverable
    <3>3. ASSUME VBlankIn \in ist PROVE FALSE
      <4>1. Level[VBlankIn] <= imask
        BY <3>2, <3>3
      <4>2. Level[VBlankIn] \in Nat /\ imask \in Nat
        BY ScuAssumption, MachineAssumption DEF IP!TypeOK, IP!CpuType
      <4> QED BY <4>1, <4>2
    <3> QED BY <3>3
  <2>3. ~VBlankInComes
    BY <2>1 DEF VBlankInComes
  <2>4. asleep \in Nat /\ asleep <= SinceVBlank + 0
    BY <2>1, <2>2, <2>3 DEF SleepInv
  <2>5. SinceVBlank \in Nat /\ SinceVBlank < FrameCycles
    BY <2>1, SinceInFrame
  <2>6. FrameCycles \in Nat
    BY TimingAssumption DEF FrameCycles
  <2> QED BY <2>4, <2>5, <2>6
<1> QED BY <1>1, <1>2, SleepStep, StepsAreOrderly, InterruptsHold, PTL DEF Spec

=============================================================================
