---------------------------- MODULE CoreThreads -----------------------------
(***************************************************************************)
(* What keeps the threads of the first emulator together: the clock they   *)
(* report to and sleep on (archived sync.rs), the high work RAM they       *)
(* share, in stripes with a reader-writer lock each (shared_buffers.rs),   *)
(* and the events that other threads hand to the master SH-2 without a     *)
(* lock (shared_buffers.rs, sh2.rs).  The three share no state.            *)
(***************************************************************************)
EXTENDS Integers, FiniteSets, Sequences

CONSTANTS
    Cores,        \* the threads
    Slack,        \* slack_limit
    Controlled,   \* the cores other threads make inactive (SNDOFF, SSHOFF)
    MaxCycles,    \* bound on the cycles a core reports
    Threads,      \* the threads that access the work RAM
    Stripes,      \* the number of stripes (32 in the code)
    StripeBytes,  \* the size of one (0x8000 in the code)
    Offsets,      \* the offsets accessed
    Widths,       \* the widths of accesses, in bytes
    Producers     \* the threads that raise events

VARIABLES
    cycles,    \* SyncState::cycles
    active,    \* SyncState::active
    waiting,   \* SyncState::waiting
    wakeAt,    \* SyncState::wake_at; nobody reads it of a core that is not
               \* waiting, and here it is zero then
    shutdown,  \* SyncState::shutdown
    mine,      \* the count a core passed to the sync_core call it is in, or 0
    pc,        \* where each core is
    high_ram,  \* the bytes, by stripe and index: who wrote them last
    readers,   \* who holds each stripe's lock for reading
    writer,    \* who holds it for writing, or Nobody
    op,        \* the access each thread is in
    flag,      \* smpc_sysres_pending .. vdp1_draw_end_pending
    any,       \* hardware_events_any
    raising,   \* the event whose flag a producer has set and not yet published
    master,    \* 0: between instructions; i: about to take the i-th flag
    owed       \* the events raised since the master last took them

-----------------------------------------------------------------------------
(***************************************************************************)
(* The clock that keeps the threads within a slack of each other. A core   *)
(* reports the cycles it has run and sleeps on a condition variable while  *)
(* it is more than Slack ahead of another active core; a core that has     *)
(* nothing to do is made inactive, parks on a second condition variable    *)
(* and is caught up when it returns. Each section under the mutex is one   *)
(* step; Condvar::wait releases the mutex and falls asleep in the same     *)
(* step.                                                                   *)
(***************************************************************************)

ASSUME SlackAssumption == Slack \in Nat

ASSUME MaxCyclesAssumption == MaxCycles \in Nat

ASSUME ControlledAssumption == Controlled \subseteq Cores

vars == <<cycles, active, waiting, wakeAt, shutdown, mine, pc>>

\* running: outside the clock; asleep, woken: in the drift wait of sync_core;
\* parked, unparked: in park_while_inactive; ended: the thread has returned.
Places == {"running", "asleep", "woken", "parked", "unparked", "ended"}

TypeOK ==
    /\ cycles \in [Cores -> Nat]
    /\ active \in [Cores -> BOOLEAN]
    /\ waiting \in [Cores -> BOOLEAN]
    /\ wakeAt \in [Cores -> Nat]
    /\ shutdown \in BOOLEAN
    /\ mine \in [Cores -> Nat]
    /\ pc \in [Cores -> Places]

Init ==
    /\ cycles = [c \in Cores |-> 0]
    /\ active = [c \in Cores |-> TRUE]
    /\ waiting = [c \in Cores |-> FALSE]
    /\ wakeAt = [c \in Cores |-> 0]
    /\ shutdown = FALSE
    /\ mine = [c \in Cores |-> 0]
    /\ pc = [c \in Cores |-> "running"]

\* Core c, which has run m cycles, is too far ahead of an active core.
MustWait(c, m, count) ==
    \E d \in Cores \ {c} : active[d] /\ m - count[d] > Slack

Floor(n) == IF n >= 0 THEN n ELSE 0

\* condvar.notify_all and, with park, park_condvar.notify_all.
Notified(places, drift, park) ==
    [c \in Cores |->
        CASE drift /\ places[c] = "asleep" -> "woken"
          [] park /\ places[c] = "parked" -> "unparked"
          [] OTHER -> places[c]]

\* Mutant: whoever leaves notifies nobody.
SettleSilently(c, m, count) ==
    IF ~shutdown /\ MustWait(c, m, count)
    THEN /\ waiting' = [waiting EXCEPT ![c] = TRUE]
         /\ wakeAt' = [wakeAt EXCEPT ![c] = Floor(m - Slack)]
         /\ mine' = [mine EXCEPT ![c] = m]
         /\ pc' = [pc EXCEPT ![c] = "asleep"]
    ELSE /\ waiting' = [waiting EXCEPT ![c] = FALSE]
         /\ pc' = [pc EXCEPT ![c] = "running"]
         /\ wakeAt' = [wakeAt EXCEPT ![c] = 0]
         /\ mine' = [mine EXCEPT ![c] = 0]

\* The minimum of the active cores has reached what a waiter waits for.
ShouldNotify(c, count) ==
    /\ \E d \in Cores : active[d]
    /\ \E i \in Cores \ {c} :
         /\ waiting[i]
         /\ \A d \in Cores : active[d] => wakeAt[i] <= count[d]

\* The loop of sync_core: sleep, or leave and wake those the report frees.
Settle(c, m, count) ==
    IF ~shutdown /\ MustWait(c, m, count)
    THEN /\ waiting' = [waiting EXCEPT ![c] = TRUE]
         /\ wakeAt' = [wakeAt EXCEPT ![c] = Floor(m - Slack)]
         /\ mine' = [mine EXCEPT ![c] = m]
         /\ pc' = [pc EXCEPT ![c] = "asleep"]
    ELSE /\ waiting' = [waiting EXCEPT ![c] = FALSE]
         /\ pc' = Notified([pc EXCEPT ![c] = "running"], ShouldNotify(c, count), FALSE)
         /\ wakeAt' = [wakeAt EXCEPT ![c] = 0]
         /\ mine' = [mine EXCEPT ![c] = 0]

\* Every caller adds at most the slack to what it reported last; a core whose
\* own count is older than the one it was caught up to reports less.
Reports(c) == {m \in 0 .. cycles[c] + Slack : m <= MaxCycles}

\* A running active core calls sync_core.
SyncCore(c, m) ==
    /\ pc[c] = "running" /\ active[c] /\ ~shutdown
    /\ m \in Reports(c)
    /\ cycles' = [cycles EXCEPT ![c] = m]
    /\ Settle(c, m, cycles')
    /\ UNCHANGED <<active, shutdown>>

\* A core woken in its drift wait looks again.
Recheck(c) ==
    /\ pc[c] = "woken"
    /\ Settle(c, mine[c], cycles)
    /\ UNCHANGED <<cycles, active, shutdown>>

\* set_thread_active(c, false): a core does it to itself, between two calls,
\* unless it is one that other threads switch off.
Deactivate(c) ==
    /\ active[c] /\ pc[c] # "ended"
    /\ c \in Controlled \/ pc[c] = "running"
    /\ active' = [active EXCEPT ![c] = FALSE]
    /\ pc' = Notified(pc, TRUE, FALSE)
    /\ UNCHANGED <<cycles, waiting, wakeAt, shutdown, mine>>

\* The counts a reactivated core may be caught up to.
CaughtUp(c) ==
    IF \E d \in Cores : active[d]
    THEN {cycles[d] : d \in {e \in Cores : active[e]}}
             \cap {n \in Nat : \A d \in Cores : active[d] => n <= cycles[d]}
    ELSE {cycles[c]}

\* set_thread_active(c, true).
Reactivate(c) ==
    /\ ~active[c]
    /\ active' = [active EXCEPT ![c] = TRUE]
    /\ cycles' \in {[cycles EXCEPT ![c] = n] : n \in CaughtUp(c)}
    /\ pc' = Notified(pc, TRUE, TRUE)
    /\ UNCHANGED <<waiting, wakeAt, shutdown, mine>>

\* park_while_inactive: on entry, and when notified.
Park(c) ==
    /\ pc[c] = "running" \/ pc[c] = "unparked"
    /\ ~active[c] /\ ~shutdown
    /\ pc' = [pc EXCEPT ![c] = "parked"]
    /\ UNCHANGED <<cycles, active, waiting, wakeAt, shutdown, mine>>

Unpark(c) ==
    /\ pc[c] = "unparked" /\ active[c] /\ ~shutdown
    /\ pc' = [pc EXCEPT ![c] = "running"]
    /\ UNCHANGED <<cycles, active, waiting, wakeAt, shutdown, mine>>

RequestShutdown ==
    /\ ~shutdown
    /\ shutdown' = TRUE
    /\ pc' = Notified(pc, TRUE, TRUE)
    /\ UNCHANGED <<cycles, active, waiting, wakeAt, mine>>

\* A thread returns once it sees the shutdown.
End(c) ==
    /\ shutdown
    /\ pc[c] = "running" \/ pc[c] = "unparked"
    /\ pc' = [pc EXCEPT ![c] = "ended"]
    /\ UNCHANGED <<cycles, active, waiting, wakeAt, shutdown, mine>>

CoreStep(c) ==
    \/ \E m \in Reports(c) : SyncCore(c, m)
    \/ Recheck(c)
    \/ Deactivate(c)
    \/ Reactivate(c)
    \/ Park(c)
    \/ Unpark(c)
    \/ End(c)

Next == RequestShutdown \/ \E c \in Cores : CoreStep(c)

\* The host schedules every thread, so a step a thread can take on its own is
\* taken; nobody owes a core its reactivation, and nobody owes the shutdown.
Fairness ==
    \A c \in Cores : /\ WF_vars(Recheck(c))
                     /\ WF_vars(Unpark(c))
                     /\ WF_vars(End(c))

Spec == Init /\ [][Next]_vars /\ Fairness

-----------------------------------------------------------------------------
\* No core sleeps on in the drift wait once nobody is too far behind it: the
\* one that ended its wait has told it (sync.rs:118-154).
NoLostWakeup ==
    \A c \in Cores :
        pc[c] = "asleep" => ~shutdown /\ MustWait(c, mine[c], cycles)

\* A core asleep in park_while_inactive is inactive and the system runs
\* (sync.rs:211-220).
NoLostUnpark ==
    \A c \in Cores : pc[c] = "parked" => ~active[c] /\ ~shutdown

\* A report wakes the sleepers only when one of the cores in the drift wait can
\* go on (sync.rs:118-137).
NoIdleBroadcast ==
    (\E c \in Cores : pc[c] = "asleep" /\ pc'[c] = "woken")
        /\ active' = active /\ shutdown' = shutdown
      => \E c \in Cores : /\ pc[c] \in {"asleep", "woken"}
                           /\ ~MustWait(c, mine[c], cycles')

-----------------------------------------------------------------------------
(***************************************************************************)
(* The high work RAM. An access that straddles two stripes takes both      *)
(* locks, the stripe of lower number first, also when it wraps from the    *)
(* last stripe to the first. Bytes are moved one at a time, so that an     *)
(* access under the wrong lock would show.                                 *)
(***************************************************************************)

ASSUME SizeAssumption ==
    /\ Stripes \in Nat \ {0, 1} /\ StripeBytes \in Nat \ {0}
    /\ Offsets \subseteq Nat /\ Widths \subseteq 1 .. StripeBytes

ramVars == <<high_ram, readers, writer, op>>

Nobody == "nobody"

ASSUME ThreadsAssumption == Nobody \notin Threads

Idle == [kind |-> "idle"]

RamSize == Stripes * StripeBytes

StripeOf(off) == (off \div StripeBytes) % Stripes

IndexOf(off) == off % StripeBytes

\* The straddling path takes two locks.
Straddles(off, width) == IndexOf(off) + width > StripeBytes

LockOrder(off, width) ==
    IF ~Straddles(off, width) THEN <<StripeOf(off)>>
    ELSE IF StripeOf(off) = Stripes - 1 THEN <<0, StripeOf(off)>>
    ELSE <<StripeOf(off), StripeOf(off) + 1>>

Kinds == {"read", "write", "tas"}

Accesses ==
    [kind : Kinds, off : 0 .. RamSize - 1, width : Widths,
     step : {"lock1", "lock2", "move"}, at : 0 .. StripeBytes]

RamTypeOK ==
    /\ high_ram \in [0 .. Stripes - 1 -> [0 .. StripeBytes - 1 -> Threads \cup {Nobody}]]
    /\ readers \in [0 .. Stripes - 1 -> SUBSET Threads]
    /\ writer \in [0 .. Stripes - 1 -> Threads \cup {Nobody}]
    /\ op \in [Threads -> Accesses \cup {Idle}]

RamInit ==
    /\ high_ram = [s \in 0 .. Stripes - 1 |-> [i \in 0 .. StripeBytes - 1 |-> Nobody]]
    /\ readers = [s \in 0 .. Stripes - 1 |-> {}]
    /\ writer = [s \in 0 .. Stripes - 1 |-> Nobody]
    /\ op = [t \in Threads |-> Idle]

\* read_high_ram_*, write_high_ram_* and tas_byte are called.
Begin(t, kind, off, width) ==
    /\ op[t] = Idle
    /\ kind = "tas" => width = 1
    /\ op' = [op EXCEPT ![t] =
                [kind |-> kind, off |-> off % RamSize, width |-> width,
                 step |-> "lock1", at |-> 0]]
    /\ UNCHANGED <<high_ram, readers, writer>>

\* RwLock::read, RwLock::write.
Takes(t, s) ==
    IF op[t].kind = "read"
    THEN /\ writer[s] = Nobody
         /\ readers' = [readers EXCEPT ![s] = @ \cup {t}]
         /\ UNCHANGED writer
    ELSE /\ writer[s] = Nobody /\ readers[s] = {}
         /\ writer' = [writer EXCEPT ![s] = t]
         /\ UNCHANGED readers

\* Mutant: the lock of the first stripe only.
LockOne(t) ==
    /\ op[t] # Idle /\ op[t].step = "lock1"
    /\ Takes(t, LockOrder(op[t].off, op[t].width)[1])
    /\ op' = [op EXCEPT ![t].step = "move"]
    /\ UNCHANGED high_ram

Lock(t) ==
    /\ op[t] # Idle /\ op[t].step \in {"lock1", "lock2"}
    /\ LET order == LockOrder(op[t].off, op[t].width)
       IN  IF op[t].step = "lock1"
           THEN /\ Takes(t, order[1])
                /\ op' = [op EXCEPT ![t].step = IF Len(order) = 1 THEN "move" ELSE "lock2"]
           ELSE /\ Takes(t, order[2])
                /\ op' = [op EXCEPT ![t].step = "move"]
    /\ UNCHANGED high_ram

\* Where the byte the access is at lies.
Place(o) == <<StripeOf(o.off + o.at), IndexOf(o.off + o.at)>>

Move(t) ==
    /\ op[t] # Idle /\ op[t].step = "move" /\ op[t].at < op[t].width
    /\ LET s == Place(op[t])[1]
           i == Place(op[t])[2]
       IN  /\ op' = [op EXCEPT ![t].at = @ + 1]
           /\ high_ram' = IF op[t].kind = "read" THEN high_ram
                          ELSE [high_ram EXCEPT ![s][i] = t]
    /\ UNCHANGED <<readers, writer>>

\* The guards go out of scope and the value is returned.
Finish(t) ==
    /\ op[t] # Idle /\ op[t].step = "move" /\ op[t].at = op[t].width
    /\ op' = [op EXCEPT ![t] = Idle]
    /\ readers' = [s \in DOMAIN readers |-> readers[s] \ {t}]
    /\ writer' = [s \in DOMAIN writer |-> IF writer[s] = t THEN Nobody ELSE writer[s]]
    /\ UNCHANGED high_ram

RamNext ==
    \E t \in Threads :
        \/ \E kind \in Kinds : \E off \in Offsets : \E width \in Widths :
               Begin(t, kind, off, width)
        \/ Lock(t)
        \/ Move(t)
        \/ Finish(t)

RamSpec == RamInit /\ [][RamNext]_ramVars

-----------------------------------------------------------------------------
Bytes(o) == {<<StripeOf(o.off + k), IndexOf(o.off + k)>> : k \in 0 .. o.width - 1}

Done(o) == {<<StripeOf(o.off + k), IndexOf(o.off + k)>> : k \in 0 .. o.at - 1}

\* While one access moves bytes, no other writes a byte of it: what was written
\* so far is still there when it ends, so reads and writes are whole and a
\* test-and-set is not interrupted (shared_buffers.rs:191-351).
AccessesAreWhole ==
    \A t, u \in Threads :
        (t # u /\ op[t] # Idle /\ op[u] # Idle
           /\ op[t].step = "move" /\ op[u].step = "move"
           /\ ~(op[t].kind = "read" /\ op[u].kind = "read"))
        => Bytes(op[t]) \cap Bytes(op[u]) = {}

\* What a write has put, it finds at the consecutive bytes of the memory.
WritesLandInOrder ==
    \A t \in Threads :
        (op[t] # Idle /\ op[t].kind = "write") =>
            \A place \in Done(op[t]) : high_ram[place[1]][place[2]] = t

\* No two threads wait for each other's stripes (shared_buffers.rs:204-211).
WaitsFor(t, u) ==
    /\ op[t] # Idle /\ op[t].step \in {"lock1", "lock2"}
    /\ LET s == LockOrder(op[t].off, op[t].width)[IF op[t].step = "lock1" THEN 1 ELSE 2]
       IN  writer[s] = u \/ (op[t].kind # "read" /\ u \in readers[s])

NoCircularWait == \A t, u \in Threads : t # u => ~(WaitsFor(t, u) /\ WaitsFor(u, t))

-----------------------------------------------------------------------------
(***************************************************************************)
(* Events. A producer sets the flag of the event and then a summary flag;  *)
(* the master reads only the summary before every instruction and, when it *)
(* is set, takes it and then the flags one after the other.                *)
(***************************************************************************)

\* The flags in the order service_pending_interrupt takes them.
Order == <<"sysres", "nmi", "clock", "irq", "draw end">>

Events == {Order[i] : i \in 1 .. 5}

eventsVars == <<flag, any, raising, master, owed>>

Nothing == "nothing"

EventsTypeOK ==
    /\ flag \in [Events -> BOOLEAN]
    /\ any \in BOOLEAN
    /\ raising \in [Producers -> Events \cup {Nothing}]
    /\ master \in 0 .. 5
    /\ owed \in [Events -> BOOLEAN]

EventsInit ==
    /\ flag = [e \in Events |-> FALSE]
    /\ any = FALSE
    /\ raising = [p \in Producers |-> Nothing]
    /\ master = 0
    /\ owed = [e \in Events |-> FALSE]

\* raise_smpc_irq and its sisters: the flag, then publish_hardware_event.
Raise(p, e) ==
    /\ raising[p] = Nothing
    /\ flag' = [flag EXCEPT ![e] = TRUE]
    /\ owed' = [owed EXCEPT ![e] = TRUE]
    /\ raising' = [raising EXCEPT ![p] = e]
    /\ UNCHANGED <<any, master>>

Publish(p) ==
    /\ raising[p] # Nothing
    /\ any' = TRUE
    /\ raising' = [raising EXCEPT ![p] = Nothing]
    /\ UNCHANGED <<flag, master, owed>>

\* The relaxed load may still see the summary unset; if it sees it set, the
\* swap takes it.
Look(seen) ==
    /\ master = 0
    /\ seen => any
    /\ IF seen THEN any' = FALSE /\ master' = 1 ELSE UNCHANGED <<any, master>>
    /\ UNCHANGED <<flag, raising, owed>>

\* Mutant: the flags are looked at and cleared at the end of the round.
TakeWithoutSwap ==
    /\ master > 0
    /\ flag' = IF master = 5 THEN [e \in Events |-> FALSE] ELSE flag
    /\ owed' = IF flag[Order[master]] THEN [owed EXCEPT ![Order[master]] = FALSE] ELSE owed
    /\ master' = (master + 1) % 6
    /\ UNCHANGED <<any, raising>>

\* One swap of service_pending_interrupt.
Take ==
    /\ master > 0
    /\ flag' = [flag EXCEPT ![Order[master]] = FALSE]
    /\ owed' = IF flag[Order[master]] THEN [owed EXCEPT ![Order[master]] = FALSE] ELSE owed
    /\ master' = (master + 1) % 6
    /\ UNCHANGED <<any, raising>>

EventsNext ==
    \/ \E p \in Producers : \E e \in Events : Raise(p, e)
    \/ \E p \in Producers : Publish(p)
    \/ \E seen \in BOOLEAN : Look(seen)
    \/ Take

\* A producer publishes what it raised; the master goes on, and a store is not
\* hidden from its loads for ever.
EventsFairness ==
    /\ \A p \in Producers : WF_eventsVars(Publish(p))
    /\ SF_eventsVars(Look(TRUE))
    /\ WF_eventsVars(Take)

EventsSpec == EventsInit /\ [][EventsNext]_eventsVars /\ EventsFairness

-----------------------------------------------------------------------------
\* A raised event is on its way: its flag is set, and either the summary is, or
\* the producer of some event is about to set it, or the master's round has not
\* reached its flag (shared_buffers.rs:108-123).
NothingIsLost ==
    \A e \in Events :
        owed[e] =>
            /\ flag[e]
            /\ \/ any
               \/ \E p \in Producers : raising[p] = e
               \/ \E i \in 1 .. 5 : Order[i] = e /\ master > 0 /\ master <= i

=============================================================================
