----------------------------- MODULE ScuQueue -------------------------------
(***************************************************************************)
(* The interrupt controller of the first emulator's SCU (archived scu.rs): *)
(* what raises an interrupt is on any core; a masked one is latched in IST *)
(* and listed until the program writes IMS, IST or AIACK. A source reads   *)
(* the mask under one lock and acts on it under another, so that writes of *)
(* the master come between. The external sources of the A-bus have no      *)
(* producer and are left out.                                              *)
(***************************************************************************)
EXTENDS Integers, Sequences, FiniteSets

CONSTANTS
    IrqProducers,  \* threads that raise interrupts, "master" among them
    IrqRaises,     \* the interrupts of each
    IrqMasks,      \* values the program writes to IMS: sets of masked interrupts
    ByBytes        \* whether the program also writes IMS and IST by bytes

VARIABLES
    ims,       \* masked interrupts
    ist,       \* latched interrupts
    queue,     \* ScuIrq.queue: masked interrupts, by ascending level
    sent,      \* what the master SH-2's own queue holds
    slave,     \* what the slave's queue holds, by vector
    sending,   \* per producer: the interrupt it has decided about, and what
    draining,  \* the master has written a register and not run the drain yet
    owedIrqs   \* history: raised, not delivered and not cleared by the program

\* The interrupts and their levels, in the order of their vectors.
Level ==
    [vblank_in |-> 15, vblank_out |-> 14, hblank_in |-> 13, timer0 |-> 12, timer1 |-> 11,
     dsp_end |-> 10, sound_request |-> 9, system_manager |-> 8, pad |-> 8,
     level2_dma_end |-> 6, level1_dma_end |-> 6, level0_dma_end |-> 5, draw_end |-> 2]

\* Those in the low bytes of IMS and IST; IST's is the only byte with clearing
\* writes and a drain.
LowByte == {"vblank_in", "vblank_out", "hblank_in", "timer0", "timer1", "dsp_end",
            "sound_request", "system_manager"}

Sources == UNION {IrqRaises[p] : p \in IrqProducers}

ASSUME ScuQueueAssumption ==
    /\ "master" \in IrqProducers
    /\ IrqRaises \in [IrqProducers -> SUBSET DOMAIN Level]
    /\ IrqMasks \subseteq SUBSET DOMAIN Level
    /\ ByBytes \in BOOLEAN

irqVars == <<ims, ist, queue, sent, slave, sending, draining, owedIrqs>>

NoIrq == [what |-> "nothing"]

IrqInit ==
    /\ ims = DOMAIN Level
    /\ ist = {} /\ queue = <<>> /\ sent = {} /\ slave = {}
    /\ sending = [p \in IrqProducers |-> NoIrq]
    /\ draining = FALSE
    /\ owedIrqs = {}

Listed == {queue[i] : i \in DOMAIN queue}

\* queue_interrupt: once per vector, sorted by level, the newest last of its level.
With(q, s) ==
    LET below == {i \in DOMAIN q : Level[q[i]] <= Level[s]}
    IN IF \E i \in DOMAIN q : q[i] = s THEN q
       ELSE SubSeq(q, 1, Cardinality(below)) \o <<s>> \o SubSeq(q, Cardinality(below) + 1, Len(q))

\* The two blanks are mirrored to the slave under other vectors.
Mirrored(s) ==
    CASE s = "hblank_in" -> {65} [] s = "vblank_in" -> {67} [] OTHER -> {}

\* The first half of send: what is done is decided by the mask, and a masked
\* interrupt is latched.
RaiseIrq(p, s) ==
    /\ sending[p] = NoIrq
    /\ p = "master" => ~draining
    /\ sending' = [sending EXCEPT ![p] =
           [what |-> IF s \in ims THEN "list" ELSE "deliver", irq |-> s]]
    /\ ist' = IF s \in ims THEN ist \cup {s} ELSE ist
    /\ owedIrqs' = owedIrqs \cup {s}
    /\ UNCHANGED <<ims, queue, sent, slave, draining>>

\* The second half: it is delivered or listed, whatever the mask is by now, and
\* mirrored.
Send(p) ==
    /\ sending[p] # NoIrq
    /\ LET s == sending[p].irq
       IN /\ IF sending[p].what = "deliver"
             THEN sent' = sent \cup {s} /\ owedIrqs' = owedIrqs \ {s} /\ UNCHANGED queue
             ELSE queue' = With(queue, s) /\ UNCHANGED <<sent, owedIrqs>>
          /\ slave' = slave \cup Mirrored(s)
    /\ sending' = [sending EXCEPT ![p] = NoIrq]
    /\ UNCHANGED <<ims, ist, draining>>

-----------------------------------------------------------------------------
Writing == ~draining /\ sending["master"] = NoIrq

\* Long writes: the register first, then the drain under its own locks.
WriteIms(m) ==
    /\ Writing
    /\ ims' = m
    /\ draining' = TRUE
    /\ UNCHANGED <<ist, queue, sent, slave, sending, owedIrqs>>

\* IST is cleared by zeros; the same through its low byte, which leaves the others.
WriteIst(keep) ==
    /\ Writing
    /\ ist' = ist \cap keep
    /\ owedIrqs' = owedIrqs \ (ist \ keep)
    /\ draining' = TRUE
    /\ UNCHANGED <<ims, queue, sent, slave, sending>>

WriteAiack ==
    /\ Writing
    /\ draining' = TRUE
    /\ UNCHANGED <<ims, ist, queue, sent, slave, sending, owedIrqs>>

\* An entry whose latch the program has cleared is dropped.
Kept ==
    LET kept[n \in 0 .. Len(queue)] ==
            IF n = 0 THEN <<>>
            ELSE IF queue[n] \in ist THEN Append(kept[n - 1], queue[n]) ELSE kept[n - 1]
    IN kept[Len(queue)]

Open(q) == {i \in DOMAIN q : q[i] \notin ims}

\* The scan goes from the highest level down.
Chosen(q) == CHOOSE i \in Open(q) : \A j \in Open(q) : i >= j

Without(q, i) == SubSeq(q, 1, i - 1) \o SubSeq(q, i + 1, Len(q))

\* test_interrupt_mask delivers one entry that is no longer masked.
Drain ==
    /\ draining
    /\ LET q == Kept
       IN IF Open(q) = {}
          THEN queue' = q /\ UNCHANGED <<ist, sent, owedIrqs>>
          ELSE LET i == Chosen(q)
               IN /\ queue' = Without(q, i)
                  /\ ist' = ist \ {q[i]}
                  /\ sent' = sent \cup {q[i]}
                  /\ owedIrqs' = owedIrqs \ {q[i]}
    /\ draining' = FALSE
    /\ UNCHANGED <<ims, slave, sending>>

\* A byte of IMS is stored over and nothing else happens; a word is two bytes.
WriteImsByte(half, m) ==
    /\ ByBytes /\ Writing
    /\ ims' = (ims \ half) \cup (m \cap half)
    /\ UNCHANGED <<ist, queue, sent, slave, sending, draining, owedIrqs>>

\* A byte of IST other than the low one likewise: it can latch what nothing raised.
WriteIstByte(high) ==
    /\ ByBytes /\ Writing
    /\ ist' = (ist \cap LowByte) \cup high
    /\ owedIrqs' = owedIrqs \ ((ist \ LowByte) \ high)
    /\ UNCHANGED <<ims, queue, sent, slave, sending, draining>>

\* The master SH-2 takes the highest of what it was sent; the slave likewise.
Accept(s) ==
    /\ Writing
    /\ s \in sent /\ \A r \in sent : Level[r] <= Level[s]
    /\ sent' = sent \ {s}
    /\ UNCHANGED <<ims, ist, queue, slave, sending, draining, owedIrqs>>

AcceptSlave ==
    /\ slave # {}
    /\ slave' = IF 67 \in slave THEN slave \ {67} ELSE slave \ {65}
    /\ UNCHANGED <<ims, ist, queue, sent, sending, draining, owedIrqs>>

IrqNext ==
    \/ \E p \in IrqProducers : \E s \in IrqRaises[p] : RaiseIrq(p, s)
    \/ \E p \in IrqProducers : Send(p)
    \/ \E m \in IrqMasks : WriteIms(m)
    \/ \E m \in IrqMasks, half \in {LowByte, DOMAIN Level \ LowByte} : WriteImsByte(half, m)
    \/ \E k \in SUBSET Sources : WriteIst(k)
    \/ \E h \in SUBSET (Sources \ LowByte) : WriteIstByte(h)
    \/ WriteAiack
    \/ Drain
    \/ \E s \in Sources : Accept(s)
    \/ AcceptSlave

-----------------------------------------------------------------------------
\* Whatever the program writes meanwhile, an interrupt that was raised and not
\* delivered is latched and listed, or its producer is about to list or deliver
\* it (Scu::send with its two locks, test_interrupt_mask, queue_interrupt).
OwedIsKept ==
    \A s \in owedIrqs :
        \/ \E p \in IrqProducers : sending[p] = [what |-> "deliver", irq |-> s]
        \/ /\ s \in ist
           /\ s \in Listed \/ \E p \in IrqProducers : sending[p] = [what |-> "list", irq |-> s]

\* The list has every interrupt once and is in the order of the levels, which is
\* what lets the drain scan it from the end (ScuIrq::queue_interrupt).
InOrder ==
    \A i, j \in DOMAIN queue :
        i < j => queue[i] # queue[j] /\ Level[queue[i]] <= Level[queue[j]]

\* A write delivers at most one interrupt, a latched one that is not masked, and
\* none of a higher level is left behind (Scu::test_interrupt_mask).
OneHighestPerWrite ==
    draining /\ ~draining' =>
     LET gone == {s \in Listed \cap ist : ~\E i \in DOMAIN queue' : queue'[i] = s}
     IN /\ Cardinality(gone) <= 1
        /\ gone = {} => (Listed \cap ist) \subseteq ims
        /\ \A s \in gone :
               /\ s \notin ims /\ s \in sent'
               /\ \A r \in (Listed \cap ist) \ ims : Level[r] <= Level[s]

=============================================================================
