----------------------------- MODULE Vdp1List -------------------------------
(***************************************************************************)
(* When and what the first emulator's VDP1 draws (archived vdp.rs, lib.rs, *)
(* sh2.rs): the walk over the command list, and the frame changes between  *)
(* the walks.                                                              *)
(***************************************************************************)
EXTENDS Integers, FiniteSets

CONSTANTS
    N,           \* the size of VRAM, in halves of a command
    Limit,       \* the runaway guard (4000)
    Ops,         \* what the program's commands do
    Rewrites,    \* whether the program rewrites commands between walks
    Lists,       \* the kinds of command list the program leaves in VRAM
    FrameModes,  \* the values of FBCR's FCM and FCT bits the program writes
    Plots        \* the values of PTMR it writes

VARIABLES
    list,      \* VRAM
    addr, copr, lopr,
    running,   \* status is RUNNING
    cef,       \* EDSR bit 1
    ret,       \* return_addr: a set of at most one place
    clip,      \* the place of the clipping command in force, or -1
    fake,      \* PTMR is 0 or TVMR bit 3 is clear: nothing is drawn
    walking,   \* execute_vdp1 is in its loop
    runaway,
    told,      \* the last walk returned true
    begun,     \* a command of this list has been executed
    over,      \* the list has come to its END
    want,      \* the last clipping command of the list that was executed, or -1
    s,         \* Vdp1State: the registers and the requests
    bank,      \* what the two frame buffers hold
    kind,      \* the kind of list in VRAM
    active,    \* the compositor's thread is to run
    core,      \* where the compositor is in its loop
    master,    \* where the master is: running, waking the compositor, in the port
    event,     \* vdp1_draw_end_pending
    pending    \* the Draw End bit of the SCU

-----------------------------------------------------------------------------
(***************************************************************************)
(* The walk over the command list (execute_vdp1): the jumps with their one *)
(* return address, the commands that draw nothing, the END, and the ways a *)
(* walk stops short. A walk is one call; between two of them the program   *)
(* rewrites VRAM and a frame change may begin the list anew. A command is  *)
(* two halves long, and only the first says what it does and where the     *)
(* list goes on; a link may lead between the commands of another list. The *)
(* last half, Tail, is too near the end of VRAM for a command.             *)
(***************************************************************************)

NAssumption == N \in Nat /\ N > 1

LimitAssumption == Limit \in Nat

OpsAssumption == Ops \subseteq {"draw", "clip", "skipped"}

RewritesAssumption == Rewrites \in BOOLEAN

Tail == N - 1

Past == N

Places == 0 .. N - 2

NextTo(a) == a + 2

\* A command that is not END: what it does, how the list goes on, and CMDLINK.
\* A skipped command is one that does nothing; only a jump looks at its link.
Jumps == {[jp |-> j, link |-> l] : j \in {"assign", "call"}, l \in 0 .. Tail}
             \cup {[jp |-> j, link |-> 0] : j \in {"next", "return"}}

Command == [op : {"end", "bad"}, go : {[jp |-> "next", link |-> 0]}]
               \cup [op : Ops, go : Jumps]

walkVars == <<list, addr, copr, lopr, running, cef, ret, clip, fake, walking, runaway, told,
          begun, over, want>>

program == <<list, fake>>

ghosts == <<begun, over, want>>

WalkInit ==
    /\ list \in [Places -> Command]
    /\ addr = 0 /\ copr = 0 /\ lopr = 0
    /\ running = FALSE /\ cef = FALSE /\ ret = {} /\ clip = -1
    /\ fake \in BOOLEAN
    /\ walking = FALSE /\ runaway = 0 /\ told = FALSE
    /\ begun = FALSE /\ over = FALSE /\ want = -1

-----------------------------------------------------------------------------
\* The loop is entered by an engine at work, and by an idle one at rest at 0.
Begin ==
    /\ ~walking
    /\ running \/ (addr = 0 /\ copr = 0)
    /\ running' = TRUE /\ walking' = TRUE /\ runaway' = 0 /\ told' = FALSE
    /\ UNCHANGED <<addr, copr, lopr, cef, ret, clip, program, ghosts>>

\* The loop is left.
Leave(r) == walking' = FALSE /\ told' = r

\* The guard stops the walk and leaves the engine at work.
Runaway ==
    /\ walking /\ runaway > Limit
    /\ Leave(FALSE)
    /\ UNCHANGED <<addr, copr, lopr, running, cef, ret, clip, runaway, program, ghosts>>

\* One turn of the loop, as far as the guards before the command is read.
Turn == walking /\ runaway <= Limit /\ runaway' = runaway + 1

\* A list that fills VRAM to its end ran past it: idle, and no flag.
OffTheEnd ==
    /\ Turn /\ addr = Past
    /\ running' = FALSE /\ Leave(FALSE)
    /\ UNCHANGED <<addr, copr, lopr, cef, ret, clip, program, ghosts>>

\* CEF already set: LOPR is written and the engine is idle.
Escape ==
    /\ Turn /\ addr < Past /\ cef
    /\ copr' = addr /\ lopr' = addr
    /\ running' = FALSE /\ Leave(FALSE)
    /\ UNCHANGED <<addr, cef, ret, clip, program, ghosts>>

\* A command that does not fit VRAM: the loop is left, the engine at work.
NoRoom ==
    /\ Turn /\ addr = Tail /\ ~cef
    /\ copr' = addr
    /\ Leave(FALSE)
    /\ UNCHANGED <<addr, lopr, running, cef, ret, clip, program, ghosts>>

Reads(op) == Turn /\ addr \in Places /\ ~cef /\ list[addr].op = op /\ copr' = addr

\* END: told of unless it is the first command of the walk.
End ==
    /\ Reads("end")
    /\ running' = FALSE
    /\ cef' = (runaway > 0)
    /\ Leave(runaway > 0)
    /\ over' = TRUE
    /\ UNCHANGED <<addr, lopr, ret, clip, program, begun, want>>

\* COMM 12 to 15.
Bad ==
    /\ Reads("bad")
    /\ cef' = TRUE /\ lopr' = addr /\ running' = FALSE
    /\ Leave(FALSE)
    /\ UNCHANGED <<addr, ret, clip, program, ghosts>>

-----------------------------------------------------------------------------
\* Mutant: a nested call replaces the return address.
CalledAgain(j, r) == IF j.jp = "call" THEN {NextTo(addr)} ELSE IF j.jp = "return" THEN {} ELSE r

\* The return address after a jump: the first call's, until a return.
Called(j, r) ==
    IF j.jp = "call" /\ r = {} THEN {NextTo(addr)} ELSE IF j.jp = "return" THEN {} ELSE r

\* The place a jump leads to.
Target(j, r) ==
    IF j.jp \in {"assign", "call"} THEN j.link
    ELSE IF j.jp = "return" /\ r # {} THEN CHOOSE a \in r : TRUE
    ELSE NextTo(addr)

\* COMM 8 to 11 are executed whether the list is drawn or not.
Clipped(c) == IF c.op = "clip" THEN addr ELSE clip

\* A command and its jump; a jump to 0 idles the engine.
Execute ==
    addr \in Places /\ \E c \in {list[addr]} :
        /\ \E op \in Ops : Reads(op)
        /\ clip' = Clipped(c)
        /\ want' = IF c.op = "clip" THEN addr ELSE want
        /\ ret' = Called(c.go, ret)
        /\ addr' = Target(c.go, ret)
        /\ begun' = TRUE
        /\ IF addr' = 0
           THEN running' = FALSE /\ Leave(FALSE)
           ELSE UNCHANGED <<running, walking, told>>
        /\ UNCHANGED <<lopr, cef, program, over>>

-----------------------------------------------------------------------------
(* Between two walks.                                                      *)

\* The frame change: EDSR is shifted, and an engine at work goes back to 0.
Change ==
    /\ ~walking
    /\ cef' = FALSE
    /\ IF running THEN addr' = 0 /\ copr' = 0 /\ begun' = FALSE /\ over' = FALSE
                  ELSE UNCHANGED <<addr, copr, begun, over>>
    /\ UNCHANGED <<lopr, running, ret, clip, walking, runaway, told, want, program>>

ForceEnd ==
    /\ ~walking
    /\ running' = FALSE
    /\ UNCHANGED <<addr, copr, lopr, cef, ret, clip, walking, runaway, told, program, ghosts>>

\* The program writes a command, or the registers that make the walk a fake.
Rewrite ==
    /\ Rewrites /\ ~walking
    /\ \E a \in Places, c \in Command : list' = [list EXCEPT ![a] = c]
    /\ UNCHANGED <<addr, copr, lopr, running, cef, ret, clip, walking, runaway, told, fake, ghosts>>

Switch ==
    /\ Rewrites /\ ~walking
    /\ fake' = ~fake
    /\ UNCHANGED <<list, addr, copr, lopr, running, cef, ret, clip, walking, runaway, told, ghosts>>

Loop == Runaway \/ OffTheEnd \/ Escape \/ NoRoom \/ End \/ Bad \/ Execute

WalkNext == Begin \/ Loop \/ Change \/ ForceEnd \/ Rewrite \/ Switch

-----------------------------------------------------------------------------
\* Draw End comes with CEF, and only from a list some command of which was
\* executed.
DrawEndIsEarned ==
    told' /\ ~told => begun /\ over' /\ cef'

\* A pending return leads to the command after a call: one that is in VRAM,
\* or the place past it, and a nested call does not move it.
FirstCallReturns ==
    ret # {} /\ ret' # {} => ret' = ret

\* Where the command at a may lead.
LeadsTo(a) ==
    CASE list[a].go.jp \in {"assign", "call"} -> {list[a].go.link}
      [] list[a].go.jp = "next" -> {NextTo(a)}
      [] OTHER -> {NextTo(a)} \cup {NextTo(b) : b \in {c \in Places : list[c].go.jp = "call"}}

\* An engine that goes idle in its walk without CEF can be found out about: COPR is at
\* the END that was the walk's first command, or at a command that leads to the start
\* or past the end of VRAM, and the walk would go on there.
StopsAreTold ==
    walking /\ ~walking' /\ ~running' /\ ~cef' =>
        /\ copr' \in Places
        /\ \/ list[copr'].op = "end" /\ addr' = copr'
           \/ addr' \in {0, Past} \cap LeadsTo(copr')

\* The clipping in force is that of the last clipping command, of a list that
\* is drawn or not.
ClipsAreKept == clip = want

-----------------------------------------------------------------------------
(***************************************************************************)
(* The frame change of the first emulator's VDP1 (archived vdp.rs, lib.rs  *)
(* Core 3, sh2.rs register writes and V-blank in). The master SH-2 writes  *)
(* registers and, at V-blank in, leaves requests under the lock of the     *)
(* VDP1's state; the compositor's thread, when it is awake, takes that     *)
(* lock, swaps the two frame buffers, erases the one to draw into, walks   *)
(* the command list, and shows the other one. Of the walk above it has one *)
(* of the outcomes the list can give it.                                   *)
(***************************************************************************)

Outcomes == {"end", "empty", "runaway", "bad", "off"}

Bits(f) == f \in 0 .. 3  \* FCM * 2 + FCT

ListsAssumption == Lists # {} /\ Lists \subseteq Outcomes

FrameModesAssumption == FrameModes # {} /\ \A f \in FrameModes : Bits(f)

PlotsAssumption == Plots \subseteq 0 .. 2

frameVars == <<s, bank, kind, active, core, master, event, pending>>

\* The engine's position: at the start of VRAM, inside the list, past VRAM.
Start == 0

Inside == 1

Beyond == 2

FrameInit ==
    /\ s = [ptmr |-> 0, fb |-> 0, vbe |-> TRUE, running |-> FALSE, addr |-> Start,
            copr |-> Start, edsr |-> 0, back |-> 0, swap |-> FALSE, change |-> FALSE,
            vblankErase |-> FALSE, manualErase |-> FALSE]
    /\ bank = [b \in {0, 1} |-> "clear"]
    /\ kind \in Lists
    /\ active = FALSE /\ core = "parked" /\ master = "run"
    /\ event = FALSE /\ pending = FALSE

-----------------------------------------------------------------------------
(* The master: the program's writes, V-blank in, and the interrupt.        *)

ToVram == UNCHANGED <<s, bank, active, core, master, event, pending>>

ToState == UNCHANGED <<bank, kind, core, event, pending>>

WriteList(l) == master = "run" /\ kind' = l /\ ToVram

WriteTVMR(v) ==
    /\ master = "run"
    /\ s' = [s EXCEPT !.vbe = v]
    /\ UNCHANGED <<active, master>> /\ ToState

WriteFBCR(f) ==
    /\ master = "run"
    /\ s' = [s EXCEPT !.fb = f, !.change = @ \/ f = 3, !.manualErase = @ \/ f = 2]
    /\ UNCHANGED <<active, master>> /\ ToState

\* PTMR = 1 also wakes the compositor, which draws when it gets round to it.
WritePTMR(p) ==
    /\ master = "run"
    /\ s' = [s EXCEPT !.ptmr = p]
    /\ active' = (active \/ p = 1)
    /\ UNCHANGED master /\ ToState

WriteENDR ==
    /\ master = "run"
    /\ s' = [s EXCEPT !.running = FALSE]
    /\ UNCHANGED <<active, master>> /\ ToState

\* What V-blank in asks of the VDP1, under its lock ...
Asked(t) ==
    [t EXCEPT !.swap = @ \/ t.change \/ t.fb < 2,
              !.change = FALSE,
              !.vblankErase = @ \/ t.vbe \/ t.fb < 2]

VBlankIn ==
    /\ master = "run"
    /\ s' = Asked(s)
    /\ master' = "wake"
    /\ UNCHANGED <<active>> /\ ToState

\* ... and then the compositor is woken, a call with no effect on one awake.
Wake ==
    /\ master = "wake"
    /\ active' = TRUE
    /\ master' = "run"
    /\ UNCHANGED <<s>> /\ ToState

\* A write through the frame buffer's port reads the index of the drawing
\* bank and then takes the lock of that bank.
PortLoad ==
    /\ master = "run"
    /\ master' = IF s.back = 0 THEN "port 0" ELSE "port 1"
    /\ UNCHANGED <<s, active>> /\ ToState

PortStore ==
    /\ master \in {"port 0", "port 1"}
    /\ master' = "run"
    /\ bank' = [bank EXCEPT ![IF master = "port 0" THEN 0 ELSE 1] = "part"]
    /\ UNCHANGED <<s, kind, active, core, event, pending>>

\* service_pending_interrupt: first the event of the executor, then the SCU.
TakeEvent ==
    /\ master = "run" /\ event
    /\ event' = FALSE
    /\ pending' = TRUE
    /\ UNCHANGED <<s, bank, kind, active, core, master>>

Accept ==
    /\ master = "run" /\ ~event /\ pending
    /\ pending' = FALSE
    /\ UNCHANGED <<s, bank, kind, active, core, master, event>>

-----------------------------------------------------------------------------
(* The compositor.                                                         *)

Half(e) == e \div 2

CEF(e) == e \in {2, 3}

\* vdp1_swap_frame_buffers: an engine still at work begins again.
Swapped(t) ==
    IF ~t.swap THEN t
    ELSE [t EXCEPT !.back = 1 - @, !.swap = FALSE, !.edsr = Half(@),
                   !.addr = IF t.running THEN Start ELSE @,
                   !.copr = IF t.running THEN Start ELSE @]

\* vdp1_erase_framebuffer: the bank about to be drawn into.
Erased(t, b) == IF t.vblankErase \/ t.manualErase THEN [b EXCEPT ![t.back] = "clear"] ELSE b

\* PTMR = 1 shifts EDSR, in this pass and in every later one.
Shifted(t) == [t EXCEPT !.vblankErase = FALSE, !.manualErase = FALSE,
                        !.edsr = IF t.ptmr = 1 THEN Half(@) ELSE @]

\* An idle engine starts only where and when it has never worked.
Starts(t) == t.running \/ (t.addr = Start /\ t.copr = Start)

\* Nothing is drawn while PTMR is 0 or TVMR's bit 3 is clear.
Drawn(t, b, w) == IF t.ptmr = 0 \/ ~t.vbe THEN b ELSE [b EXCEPT ![t.back] = w]

\* The walk: <<state, banks, true is returned>>.
Walked(t, b) ==
    LET idle(a) == [t EXCEPT !.running = FALSE, !.addr = a,
                             !.copr = IF a = Beyond THEN Inside ELSE a]
    IN  CASE t.addr = Beyond -> <<[t EXCEPT !.running = FALSE], b, FALSE>>
          [] t.addr # Beyond /\ (CEF(t.edsr) \/ kind = "empty") -> <<idle(t.addr), b, FALSE>>
          [] t.addr # Beyond /\ ~CEF(t.edsr) /\ kind = "end" ->
               <<[idle(Inside) EXCEPT !.edsr = @ + 2], Drawn(t, b, "whole"), TRUE>>
          [] t.addr # Beyond /\ ~CEF(t.edsr) /\ kind = "bad" ->
               <<[idle(Inside) EXCEPT !.edsr = @ + 2], Drawn(t, b, "part"), FALSE>>
          [] t.addr # Beyond /\ ~CEF(t.edsr) /\ kind = "off" ->
               <<idle(Beyond), Drawn(t, b, "part"), FALSE>>
          [] t.addr # Beyond /\ ~CEF(t.edsr) /\ kind = "runaway" ->
               <<[t EXCEPT !.running = TRUE, !.addr = Inside, !.copr = Inside],
                 Drawn(t, b, "part"), FALSE>>

\* park_while_inactive returns.
Unpark == core = "parked" /\ active /\ core' = "pass"
         /\ UNCHANGED <<s, bank, kind, active, master, event, pending>>

\* One hold of the lock: swap, erase, shift, and the walk if the engine starts.
Pass ==
    /\ core = "pass"
    /\ \E t \in {Swapped(s)} : \E b \in {Erased(t, bank)} : \E u \in {Shifted(t)} :
          /\ \E w \in {IF Starts(u) THEN Walked(u, b) ELSE <<u, b, FALSE>>} :
                /\ s' = w[1]
                /\ bank' = w[2]
                /\ event' = (event \/ w[3])
                /\ core' = IF w[3] THEN "tell" ELSE "render"
    /\ UNCHANGED <<kind, active, master, pending>>

\* The compositor sends the Draw End the executor has already left as event.
Tell ==
    /\ core = "tell"
    /\ pending' = TRUE
    /\ core' = "render"
    /\ UNCHANGED <<s, bank, kind, active, master, event>>

\* render_frame and the store of the picture ...
Render ==
    /\ core = "render"
    /\ core' = "rest"
    /\ UNCHANGED <<s, bank, kind, active, master, event, pending>>

\* ... after which the thread goes back to sleep, whatever has come in.
Rest ==
    /\ core = "rest"
    /\ active' = FALSE
    /\ core' = "parked"
    /\ UNCHANGED <<s, bank, kind, master, event, pending>>

Compositor == Unpark \/ Pass \/ Tell \/ Render \/ Rest

Writes ==
    \/ \E l \in Lists : WriteList(l)
    \/ \E v \in BOOLEAN : WriteTVMR(v)
    \/ \E f \in FrameModes : WriteFBCR(f)
    \/ \E p \in Plots : WritePTMR(p)
    \/ WriteENDR
    \/ PortLoad

FrameNext == Compositor \/ Writes \/ VBlankIn \/ Wake \/ PortStore \/ TakeEvent \/ Accept

-----------------------------------------------------------------------------
Swaps == s'.back # s.back

\* A frame change shows what was drawn: what the pass erases and draws is the
\* other bank.
ChangeShowsTheDrawing ==
    Swaps => bank'[s.back] = bank[s.back]

\* Every swap is one V-blank's: the request is used up, so the next pass
\* without a V-blank between keeps the bank.
SwapUsesTheRequest ==
    Swaps => ~s'.swap

\* With the manual mode asked for throughout, one write of FCM = FCT = 1 is
\* one change: after the V-blank that takes it nothing more is owed.
ManualChangeOnce ==
    master = "run" /\ master' = "wake" => ~s'.change

\* The executor leaves Draw End only with CEF set, and only from a list with
\* an END: the handler that finds CEF clear has missed a shift, not an end.
DrawEndHasAnEnd ==
    event' /\ ~event => kind = "end" /\ CEF(s'.edsr)

=============================================================================
