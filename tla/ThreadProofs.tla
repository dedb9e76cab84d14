---------------------------- MODULE ThreadProofs ----------------------------
(***************************************************************************)
(* What the threads of the first emulator rely on when they meet: the      *)
(* lock-step clock loses no wake-up, the events handed to the master none  *)
(* of them, accesses to the striped work RAM are whole and do not wait for *)
(* each other in a circle, and no interrupt of the SCU is lost between its *)
(* source, the list and the program's writes.                              *)
(***************************************************************************)
EXTENDS CoreThreads, ScuQueue, WellFoundedInduction, FiniteSetTheorems, SequenceTheorems, TLAPS

-----------------------------------------------------------------------------
(***************************************************************************)
(* The clock, for any number of cores and any slack, as long as nobody     *)
(* switches off a core that is inside sync_core and nobody reports more    *)
(* than the slack at once.                                                 *)
(***************************************************************************)

\* Where a core is in its drift wait, the shared record says so.
DriftRecord ==
    \A c \in Cores :
        pc[c] \in {"asleep", "woken"} =>
            /\ active[c]
            /\ cycles[c] = mine[c]
            /\ waiting[c]
            /\ wakeAt[c] = Floor(mine[c] - Slack)

\* The inductive invariant.
ClockInv == TypeOK /\ DriftRecord /\ NoLostWakeup /\ NoLostUnpark

-----------------------------------------------------------------------------
\* Waking cores changes places only from asleep to woken and parked to unparked.
LEMMA NotifiedType ==
    ASSUME NEW places \in [Cores -> Places], NEW drift \in BOOLEAN, NEW park \in BOOLEAN
    PROVE  /\ Notified(places, drift, park) \in [Cores -> Places]
           /\ \A c \in Cores :
                /\ Notified(places, drift, park)[c] = "asleep" =>
                     places[c] = "asleep" /\ ~drift
                /\ Notified(places, drift, park)[c] = "parked" =>
                     places[c] = "parked" /\ ~park
                /\ Notified(places, drift, park)[c] = "woken" =>
                     places[c] \in {"asleep", "woken"}
  BY DEF Notified, Places

\* The type invariant holds whoever is switched off from outside: what every
\* step writes into the shared record is a count or a flag (sync.rs:25-38).
LEMMA ClockTypeInit == Init => TypeOK
  <1> SUFFICES ASSUME Init PROVE TypeOK
    OBVIOUS
  <1>1. cycles \in [Cores -> Nat] /\ wakeAt \in [Cores -> Nat] /\ mine \in [Cores -> Nat]
    BY DEF Init
  <1>2. active \in [Cores -> BOOLEAN] /\ waiting \in [Cores -> BOOLEAN] /\ shutdown \in BOOLEAN
    BY Zenon DEF Init
  <1>3. pc \in [Cores -> Places]
    BY DEF Init, Places
  <1> QED
    BY <1>1, <1>2, <1>3 DEF TypeOK

LEMMA FloorNat == ASSUME NEW n \in Int PROVE Floor(n) \in Nat
  BY DEF Floor

\* The loop of sync_core keeps the types.
LEMMA SettleType ==
    ASSUME NEW c \in Cores, NEW m \in Nat, NEW count \in [Cores -> Nat],
           TypeOK, Settle(c, m, count)
    PROVE  /\ waiting' \in [Cores -> BOOLEAN]
           /\ wakeAt' \in [Cores -> Nat]
           /\ mine' \in [Cores -> Nat]
           /\ pc' \in [Cores -> Places]
  <1>1. CASE ~shutdown /\ MustWait(c, m, count)
    <2>1. m - Slack \in Int
      BY SlackAssumption
    <2>2. Floor(m - Slack) \in Nat
      BY <2>1, FloorNat
    <2> QED
      BY <1>1, <2>2 DEF Settle, TypeOK, Places
  <1>2. CASE ~(~shutdown /\ MustWait(c, m, count))
    <2>1. [pc EXCEPT ![c] = "running"] \in [Cores -> Places]
      BY DEF TypeOK, Places
    <2>2. ShouldNotify(c, count) \in BOOLEAN /\ FALSE \in BOOLEAN
      BY DEF ShouldNotify
    <2>3. Notified([pc EXCEPT ![c] = "running"], ShouldNotify(c, count), FALSE)
              \in [Cores -> Places]
      BY <2>1, <2>2, NotifiedType
    <2>4. /\ waiting' = [waiting EXCEPT ![c] = FALSE]
          /\ wakeAt' = [wakeAt EXCEPT ![c] = 0]
          /\ mine' = [mine EXCEPT ![c] = 0]
          /\ pc' = Notified([pc EXCEPT ![c] = "running"], ShouldNotify(c, count), FALSE)
      BY <1>2 DEF Settle
    <2>5. wakeAt' \in [Cores -> Nat] /\ mine' \in [Cores -> Nat]
      BY <2>4 DEF TypeOK
    <2>6. waiting' \in [Cores -> BOOLEAN]
      BY <2>4 DEF TypeOK
    <2> QED
      BY <2>3, <2>4, <2>5, <2>6
  <1> QED
    BY <1>1, <1>2

LEMMA ClockTypeStep == TypeOK /\ [Next]_vars => TypeOK'
  <1> SUFFICES ASSUME TypeOK, [Next]_vars
               PROVE  TypeOK'
    OBVIOUS
  <1>1. CASE RequestShutdown
    BY <1>1, NotifiedType DEF RequestShutdown, TypeOK
  <1>2. ASSUME NEW c \in Cores, CoreStep(c)
        PROVE  TypeOK'
    <2>1. ASSUME NEW m \in Reports(c), SyncCore(c, m)
          PROVE  TypeOK'
      <3>1. m \in Nat
        BY SlackAssumption DEF Reports, TypeOK
      <3>2. cycles' \in [Cores -> Nat]
        BY <2>1, <3>1 DEF SyncCore, TypeOK
      <3>3. Settle(c, m, cycles')
        BY <2>1 DEF SyncCore
      <3> QED
        BY <2>1, <3>1, <3>2, <3>3, SettleType DEF SyncCore, TypeOK
    <2>2. CASE Recheck(c)
      <3>1. mine[c] \in Nat /\ cycles \in [Cores -> Nat]
        BY DEF TypeOK
      <3>2. Settle(c, mine[c], cycles)
        BY <2>2 DEF Recheck
      <3> QED
        BY <2>2, <3>1, <3>2, SettleType DEF Recheck, TypeOK
    <2>3. CASE Deactivate(c)
      BY <2>3, NotifiedType DEF Deactivate, TypeOK
    <2>4. CASE Reactivate(c)
      <3>1. CaughtUp(c) \subseteq Nat
        BY DEF CaughtUp, TypeOK
      <3>2. cycles' \in [Cores -> Nat]
        BY <2>4, <3>1 DEF Reactivate, TypeOK
      <3> QED
        BY <2>4, <3>2, NotifiedType DEF Reactivate, TypeOK
    <2>5. CASE Park(c)
      BY <2>5 DEF Park, TypeOK, Places
    <2>6. CASE Unpark(c)
      BY <2>6 DEF Unpark, TypeOK, Places
    <2>7. CASE End(c)
      BY <2>7 DEF End, TypeOK, Places
    <2> QED
      BY <1>2, <2>1, <2>2, <2>3, <2>4, <2>5, <2>6, <2>7 DEF CoreStep
  <1>3. CASE UNCHANGED vars
    BY <1>3 DEF vars, TypeOK
  <1> QED
    BY <1>1, <1>2, <1>3 DEF Next

\* Every state of the clock is well typed, for any slack and any cores
\* (sync.rs:25-38).
THEOREM ClockTypeCorrect == Spec => []TypeOK
  BY ClockTypeInit, ClockTypeStep, PTL DEF Spec

-----------------------------------------------------------------------------
\* What the loop of sync_core does to the places and the records.
LEMMA SettleEffect ==
    ASSUME NEW c \in Cores, NEW m \in Nat, NEW count \in [Cores -> Nat],
           TypeOK, Settle(c, m, count)
    PROVE  /\ \A a \in Cores \ {c} :
                /\ waiting'[a] = waiting[a]
                /\ wakeAt'[a] = wakeAt[a]
                /\ mine'[a] = mine[a]
                /\ pc'[a] = "parked" => pc[a] = "parked"
                /\ pc'[a] \in {"asleep", "woken"} => pc[a] \in {"asleep", "woken"}
                /\ pc'[a] = "asleep" =>
                     /\ pc[a] = "asleep"
                     /\ MustWait(c, m, count) \/ ~ShouldNotify(c, count) \/ shutdown
           /\ pc'[c] \in {"asleep", "running"}
           /\ pc'[c] = "asleep" =>
                /\ ~shutdown
                /\ MustWait(c, m, count)
                /\ mine'[c] = m
                /\ waiting'[c]
                /\ wakeAt'[c] = Floor(m - Slack)
  <1>1. CASE ~shutdown /\ MustWait(c, m, count)
    <2>1. /\ waiting' = [waiting EXCEPT ![c] = TRUE]
          /\ wakeAt' = [wakeAt EXCEPT ![c] = Floor(m - Slack)]
          /\ mine' = [mine EXCEPT ![c] = m]
          /\ pc' = [pc EXCEPT ![c] = "asleep"]
      BY <1>1 DEF Settle
    <2> QED
      BY <1>1, <2>1 DEF TypeOK
  <1>2. CASE ~(~shutdown /\ MustWait(c, m, count))
    <2> DEFINE places == [pc EXCEPT ![c] = "running"]
    <2>1. /\ waiting' = [waiting EXCEPT ![c] = FALSE]
          /\ wakeAt' = [wakeAt EXCEPT ![c] = 0]
          /\ mine' = [mine EXCEPT ![c] = 0]
          /\ pc' = Notified(places, ShouldNotify(c, count), FALSE)
      BY <1>2 DEF Settle
    <2>2. places \in [Cores -> Places] /\ places[c] = "running"
      BY DEF TypeOK, Places
    <2>3. \A a \in Cores \ {c} : places[a] = pc[a]
      BY DEF TypeOK
    <2>4. ShouldNotify(c, count) \in BOOLEAN /\ FALSE \in BOOLEAN
      BY DEF ShouldNotify
    <2> HIDE DEF places
    <2>5. \A a \in Cores :
            /\ pc'[a] = "asleep" => places[a] = "asleep" /\ ~ShouldNotify(c, count)
            /\ pc'[a] = "parked" => places[a] = "parked"
            /\ pc'[a] = "woken" => places[a] \in {"asleep", "woken"}
      BY <2>1, <2>2, <2>4, NotifiedType
    <2>6. pc'[c] = "running"
      BY <2>1, <2>2 DEF Notified
    <2> QED
      BY <2>1, <2>3, <2>5, <2>6 DEF TypeOK
  <1> QED
    BY <1>1, <1>2

\* A count no active core has passed is a count some active core is behind.
LEMMA WaitsForSomebody ==
    ASSUME TypeOK, DriftRecord, NEW a \in Cores, NEW c \in Cores \ {a},
           NEW count \in [Cores -> Nat], count[a] = mine[a],
           pc[a] = "asleep", ~ShouldNotify(c, count)
    PROVE  MustWait(a, mine[a], count)
  <1>1. /\ active[a] /\ waiting[a] /\ wakeAt[a] = Floor(mine[a] - Slack)
        /\ mine[a] \in Nat
    BY DEF DriftRecord, TypeOK
  <1>2. PICK d \in Cores : active[d] /\ ~(wakeAt[a] <= count[d])
    BY <1>1 DEF ShouldNotify
  <1>3. count[d] < mine[a] - Slack
    BY <1>1, <1>2, SlackAssumption DEF Floor
  <1>4. d # a
    BY <1>1, <1>3, SlackAssumption
  <1> QED
    BY <1>1, <1>2, <1>3, <1>4, SlackAssumption DEF MustWait

LEMMA ClockInvInit == Init => ClockInv
  <1> SUFFICES ASSUME Init PROVE ClockInv
    OBVIOUS
  <1>1. \A c \in Cores : pc[c] = "running"
    BY DEF Init
  <1> QED
    BY <1>1, ClockTypeInit DEF ClockInv, DriftRecord, NoLostWakeup, NoLostUnpark

\* A report of at most the slack more than the last cannot jump over a sleeper
\* and fall asleep itself: whom it then waits for is behind the sleeper too.
LEMMA SyncCoreKeeps ==
    ASSUME ClockInv, NEW c \in Cores, NEW m \in Reports(c), SyncCore(c, m)
    PROVE  (DriftRecord /\ NoLostWakeup /\ NoLostUnpark)'
  <1>1. /\ TypeOK /\ DriftRecord /\ NoLostWakeup /\ NoLostUnpark
    BY DEF ClockInv
  <1>2. /\ m \in Nat /\ m <= cycles[c] + Slack
        /\ cycles' \in [Cores -> Nat]
        /\ cycles'[c] = m
        /\ \A a \in Cores \ {c} : cycles'[a] = cycles[a]
        /\ active' = active /\ shutdown' = shutdown /\ ~shutdown /\ active[c]
        /\ Settle(c, m, cycles')
    BY <1>1, SlackAssumption DEF SyncCore, Reports, TypeOK
  <1>3. /\ \A a \in Cores \ {c} :
                /\ waiting'[a] = waiting[a]
                /\ wakeAt'[a] = wakeAt[a]
                /\ mine'[a] = mine[a]
                /\ pc'[a] = "parked" => pc[a] = "parked"
                /\ pc'[a] \in {"asleep", "woken"} => pc[a] \in {"asleep", "woken"}
                /\ pc'[a] = "asleep" =>
                     /\ pc[a] = "asleep"
                     /\ MustWait(c, m, cycles') \/ ~ShouldNotify(c, cycles') \/ shutdown
        /\ pc'[c] \in {"asleep", "running"}
        /\ pc'[c] = "asleep" =>
                /\ ~shutdown
                /\ MustWait(c, m, cycles')
                /\ mine'[c] = m
                /\ waiting'[c]
                /\ wakeAt'[c] = Floor(m - Slack)
    BY <1>1, <1>2, SettleEffect
  <1>4. DriftRecord'
    BY <1>1, <1>2, <1>3 DEF DriftRecord
  <1>5. NoLostUnpark'
    BY <1>1, <1>2, <1>3 DEF NoLostUnpark
  <1>6. ASSUME NEW a \in Cores, pc'[a] = "asleep"
        PROVE  ~shutdown' /\ MustWait(a, mine[a], cycles)'
    <2>1. CASE a = c
      BY <1>2, <1>3, <1>6, <2>1 DEF MustWait
    <2>2. CASE a # c
      <3>1. /\ pc[a] = "asleep" /\ mine'[a] = mine[a] /\ cycles'[a] = mine[a]
            /\ mine[a] \in Nat
        BY <1>1, <1>2, <1>3, <1>6, <2>2 DEF DriftRecord, TypeOK
      <3>2. CASE MustWait(c, m, cycles')
        <4>1. PICK b \in Cores \ {a} : active[b] /\ mine[a] - cycles[b] > Slack
          BY <1>1, <3>1 DEF NoLostWakeup, MustWait
        <4>2. CASE b # c
          BY <1>2, <3>1, <4>1, <4>2 DEF MustWait
        <4>3. CASE b = c
          <5>1. PICK d \in Cores \ {c} : active[d] /\ m - cycles'[d] > Slack
            BY <1>2, <3>2 DEF MustWait
          <5>2. cycles'[d] \in Nat /\ cycles[c] \in Nat
            BY <1>1, <1>2 DEF TypeOK
          <5>3. cycles'[d] < cycles[c] /\ cycles[c] < mine[a] - Slack
            BY <1>2, <3>1, <4>1, <4>3, <5>1, <5>2, SlackAssumption
          <5>4. mine[a] - cycles'[d] > Slack /\ d # a
            BY <3>1, <5>2, <5>3, SlackAssumption
          <5> QED
            BY <1>2, <3>1, <5>1, <5>4 DEF MustWait
        <4> QED
          BY <4>2, <4>3
      <3>3. CASE ~ShouldNotify(c, cycles')
        <4>1. MustWait(a, mine[a], cycles')
          BY <1>1, <1>2, <2>2, <3>1, <3>3, WaitsForSomebody
        <4> QED
          BY <1>2, <3>1, <4>1 DEF MustWait
      <3> QED
        BY <1>2, <1>3, <1>6, <2>2, <3>1, <3>2, <3>3
    <2> QED
      BY <2>1, <2>2
  <1>7. NoLostWakeup'
    BY <1>6 DEF NoLostWakeup
  <1> QED
    BY <1>4, <1>5, <1>7

\* A woken core that looks again changes no count and no activity.
LEMMA RecheckKeeps ==
    ASSUME ClockInv, NEW c \in Cores, Recheck(c)
    PROVE  (DriftRecord /\ NoLostWakeup /\ NoLostUnpark)'
  <1>1. /\ TypeOK /\ DriftRecord /\ NoLostWakeup /\ NoLostUnpark
    BY DEF ClockInv
  <1>2. /\ mine[c] \in Nat /\ cycles \in [Cores -> Nat]
        /\ cycles' = cycles /\ active' = active /\ shutdown' = shutdown
        /\ pc[c] = "woken" /\ Settle(c, mine[c], cycles)
    BY <1>1 DEF Recheck, TypeOK
  <1>3. /\ \A a \in Cores \ {c} :
                /\ waiting'[a] = waiting[a]
                /\ wakeAt'[a] = wakeAt[a]
                /\ mine'[a] = mine[a]
                /\ pc'[a] = "parked" => pc[a] = "parked"
                /\ pc'[a] \in {"asleep", "woken"} => pc[a] \in {"asleep", "woken"}
                /\ pc'[a] = "asleep" => pc[a] = "asleep"
        /\ pc'[c] \in {"asleep", "running"}
        /\ pc'[c] = "asleep" =>
                /\ ~shutdown
                /\ MustWait(c, mine[c], cycles)
                /\ mine'[c] = mine[c]
                /\ waiting'[c]
                /\ wakeAt'[c] = Floor(mine[c] - Slack)
    BY <1>1, <1>2, SettleEffect
  <1>4. DriftRecord'
    BY <1>1, <1>2, <1>3 DEF DriftRecord
  <1>5. NoLostUnpark'
    BY <1>1, <1>2, <1>3 DEF NoLostUnpark
  <1>6. NoLostWakeup'
    BY <1>1, <1>2, <1>3 DEF NoLostWakeup, MustWait
  <1> QED
    BY <1>4, <1>5, <1>6

LEMMA ClockInvStep ==
    ASSUME Controlled = {}
    PROVE  ClockInv /\ [Next]_vars => ClockInv'
  <1> SUFFICES ASSUME ClockInv, [Next]_vars
               PROVE  ClockInv'
    OBVIOUS
  <1>0. /\ TypeOK /\ DriftRecord /\ NoLostWakeup /\ NoLostUnpark
        /\ pc \in [Cores -> Places]
        /\ TRUE \in BOOLEAN /\ FALSE \in BOOLEAN
    BY DEF ClockInv, TypeOK
  <1>1. TypeOK'
    BY <1>0, ClockTypeStep
  <1>2. CASE RequestShutdown
    <2>1. \A a \in Cores : pc'[a] \notin {"asleep", "parked"}
            /\ (pc'[a] = "woken" => pc[a] \in {"asleep", "woken"})
      BY <1>0, <1>2, NotifiedType DEF RequestShutdown
    <2> QED
      BY <1>0, <1>1, <1>2, <2>1
      DEF ClockInv, DriftRecord, NoLostWakeup, NoLostUnpark, RequestShutdown
  <1>3. ASSUME NEW c \in Cores, CoreStep(c)
        PROVE  (DriftRecord /\ NoLostWakeup /\ NoLostUnpark)'
    <2>1. CASE \E m \in Reports(c) : SyncCore(c, m)
      BY <2>1, SyncCoreKeeps
    <2>2. CASE Recheck(c)
      BY <2>2, RecheckKeeps
    <2>3. CASE Deactivate(c)
      <3>1. pc[c] = "running" /\ pc' = Notified(pc, TRUE, FALSE)
        BY <2>3 DEF Deactivate
      <3>2. \A a \in Cores :
              /\ pc'[a] # "asleep"
              /\ pc'[a] = "parked" => pc[a] = "parked"
              /\ pc'[a] = "woken" => pc[a] \in {"asleep", "woken"} /\ a # c
        BY <1>0, <3>1, NotifiedType
      <3>3. \A a \in Cores : a # c => active'[a] = active[a]
        BY <1>0, <2>3 DEF Deactivate, TypeOK
      <3>4. ~active'[c]
        BY <1>0, <2>3 DEF Deactivate, TypeOK
      <3> QED
        BY <1>0, <2>3, <3>2, <3>3, <3>4
        DEF DriftRecord, NoLostWakeup, NoLostUnpark, Deactivate
    <2>4. CASE Reactivate(c)
      <3>1. pc' = Notified(pc, TRUE, TRUE)
        BY <2>4 DEF Reactivate
      <3>2. \A a \in Cores :
              /\ pc'[a] \notin {"asleep", "parked"}
              /\ pc'[a] = "woken" => pc[a] \in {"asleep", "woken"}
        BY <1>0, <3>1, NotifiedType
      <3>3. \A a \in Cores : a # c => active'[a] = active[a] /\ cycles'[a] = cycles[a]
        BY <1>0, <2>4 DEF Reactivate, TypeOK
      <3>4. pc[c] \notin {"asleep", "woken"}
        BY <1>0, <2>4 DEF Reactivate, DriftRecord
      <3> QED
        BY <1>0, <2>4, <3>2, <3>3, <3>4
        DEF DriftRecord, NoLostWakeup, NoLostUnpark, Reactivate
    <2>5. CASE Park(c)
      BY <1>0, <2>5
      DEF Park, DriftRecord, NoLostWakeup, NoLostUnpark, MustWait, Places
    <2>6. CASE Unpark(c)
      BY <1>0, <2>6
      DEF Unpark, DriftRecord, NoLostWakeup, NoLostUnpark, MustWait, Places
    <2>7. CASE End(c)
      BY <1>0, <2>7
      DEF End, DriftRecord, NoLostWakeup, NoLostUnpark, MustWait, Places
    <2> QED
      BY <1>3, <2>1, <2>2, <2>3, <2>4, <2>5, <2>6, <2>7 DEF CoreStep
  <1>4. CASE UNCHANGED vars
    BY <1>0, <1>1, <1>4
    DEF vars, ClockInv, DriftRecord, NoLostWakeup, NoLostUnpark, MustWait
  <1> QED
    BY <1>1, <1>2, <1>3, <1>4 DEF Next, ClockInv

\* If only a core itself makes itself inactive, then no core sleeps in the drift
\* wait without being too far ahead of another (sync.rs:81-137).
THEOREM NoWakeupIsLost ==
    ASSUME Controlled = {}
    PROVE  Spec => []NoLostWakeup
  <1>1. ClockInv => NoLostWakeup
    BY DEF ClockInv
  <1> QED
    BY <1>1, ClockInvInit, ClockInvStep, PTL DEF Spec

-----------------------------------------------------------------------------
(***************************************************************************)
(* Parking and broadcasts, whoever switches whom off and on.               *)
(***************************************************************************)

\* Who is marked as waiting is in its drift wait and waits for what it reported.
WaitRecord ==
    \A c \in Cores :
        waiting[c] => pc[c] \in {"asleep", "woken"} /\ wakeAt[c] = Floor(mine[c] - Slack)

\* What a park and a broadcast rely on, whoever is switched off meanwhile.
SleepInv == TypeOK /\ WaitRecord /\ NoLostUnpark

\* Notifying keeps those that are not asleep or parked where they are.
LEMMA NotifiedPlaces ==
    ASSUME NEW places \in [Cores -> Places], NEW drift \in BOOLEAN, NEW park \in BOOLEAN
    PROVE  \A c \in Cores :
             /\ places[c] \in {"asleep", "woken"} =>
                   Notified(places, drift, park)[c] \in {"asleep", "woken"}
             /\ Notified(places, drift, park)[c] = "parked" => places[c] = "parked" /\ ~park
             /\ ~drift => (Notified(places, drift, park)[c] = "woken" => places[c] = "woken")
  <1> TAKE c \in Cores
  <1> QED
    BY DEF Notified

LEMMA SleepStart == Init => SleepInv
  BY ClockTypeInit DEF Init, SleepInv, WaitRecord, NoLostUnpark

\* What the loop of sync_core leaves.
LEMMA SettleKeepsSleep ==
    ASSUME SleepInv, NEW c \in Cores, NEW m \in Nat, NEW count,
           pc[c] \in {"running", "woken"}, Settle(c, m, count), UNCHANGED <<active, shutdown>>,
           TypeOK'
    PROVE  WaitRecord' /\ NoLostUnpark'
  <1>0. TypeOK /\ WaitRecord /\ NoLostUnpark
    BY DEF SleepInv
  <1>1. CASE ~shutdown /\ MustWait(c, m, count)
    <2>1. /\ waiting' = [waiting EXCEPT ![c] = TRUE]
          /\ wakeAt' = [wakeAt EXCEPT ![c] = Floor(m - Slack)]
          /\ mine' = [mine EXCEPT ![c] = m]
          /\ pc' = [pc EXCEPT ![c] = "asleep"]
      BY <1>1 DEF Settle
    <2> QED
      BY <1>0, <2>1 DEF TypeOK, WaitRecord, NoLostUnpark
  <1>2. CASE ~(~shutdown /\ MustWait(c, m, count))
    <2> DEFINE places == [pc EXCEPT ![c] = "running"]
    <2>1. /\ waiting' = [waiting EXCEPT ![c] = FALSE]
          /\ pc' = Notified(places, ShouldNotify(c, count), FALSE)
          /\ wakeAt' = [wakeAt EXCEPT ![c] = 0]
          /\ mine' = [mine EXCEPT ![c] = 0]
      BY <1>2 DEF Settle
    <2>2. places \in [Cores -> Places] /\ ShouldNotify(c, count) \in BOOLEAN /\ FALSE \in BOOLEAN
      BY <1>0 DEF TypeOK, Places, ShouldNotify
    <2>3. \A d \in Cores : d # c => places[d] = pc[d]
      BY <1>0 DEF TypeOK
    <2>4. places[c] = "running"
      BY <1>0 DEF TypeOK
    <2> HIDE DEF places
    <2>5. /\ \A d \in Cores : places[d] \in {"asleep", "woken"} => pc'[d] \in {"asleep", "woken"}
          /\ \A d \in Cores : pc'[d] = "parked" => places[d] = "parked"
      <3>1. \A d \in Cores :
              /\ places[d] \in {"asleep", "woken"} =>
                 Notified(places, ShouldNotify(c, count), FALSE)[d] \in {"asleep", "woken"}
              /\ Notified(places, ShouldNotify(c, count), FALSE)[d] = "parked" => places[d] = "parked"
        BY <2>2 DEF Notified
      <3> QED
        BY <2>1, <3>1
    <2>6. WaitRecord'
      <3> SUFFICES ASSUME NEW d \in Cores, waiting'[d]
                   PROVE  pc'[d] \in {"asleep", "woken"} /\ wakeAt'[d] = Floor(mine'[d] - Slack)
        BY DEF WaitRecord
      <3>1. d # c /\ waiting[d] /\ wakeAt'[d] = wakeAt[d] /\ mine'[d] = mine[d]
        BY <1>0, <2>1 DEF TypeOK
      <3> QED
        BY <1>0, <2>3, <2>5, <3>1 DEF WaitRecord
    <2>7. NoLostUnpark'
      BY <1>0, <2>3, <2>4, <2>5 DEF NoLostUnpark
    <2> QED
      BY <2>6, <2>7
  <1> QED
    BY <1>1, <1>2

LEMMA SleepStep == SleepInv /\ [Next]_vars => SleepInv'
  <1> SUFFICES ASSUME SleepInv, [Next]_vars PROVE SleepInv'
    OBVIOUS
  <1>0. TypeOK /\ WaitRecord /\ NoLostUnpark
    BY DEF SleepInv
  <1>1. TypeOK'
    BY <1>0, ClockTypeStep
  <1>2. CASE RequestShutdown
    <2>1. UNCHANGED <<waiting, wakeAt, mine, active>> /\ pc' = Notified(pc, TRUE, TRUE)
      BY <1>2 DEF RequestShutdown
    <2>2. /\ \A d \in Cores : pc[d] \in {"asleep", "woken"} => pc'[d] \in {"asleep", "woken"}
          /\ \A d \in Cores : pc'[d] # "parked"
      BY <1>0, <2>1, NotifiedPlaces DEF TypeOK
    <2> QED
      BY <1>0, <1>1, <2>1, <2>2 DEF SleepInv, WaitRecord, NoLostUnpark
  <1>3. ASSUME NEW c \in Cores, CoreStep(c) PROVE SleepInv'
    <2>1. CASE \E m \in Reports(c) : SyncCore(c, m)
      <3>1. PICK m \in Reports(c) : SyncCore(c, m)
        BY <2>1
      <3>2. m \in Nat
        BY <1>0, SlackAssumption DEF Reports, TypeOK
      <3>3. /\ pc[c] = "running" /\ Settle(c, m, cycles') /\ UNCHANGED <<active, shutdown>>
        BY <3>1 DEF SyncCore
      <3> QED
        BY <1>1, <3>2, <3>3, SettleKeepsSleep DEF SleepInv
    <2>2. CASE Recheck(c)
      <3>1. /\ pc[c] = "woken" /\ Settle(c, mine[c], cycles) /\ UNCHANGED <<active, shutdown>>
        BY <2>2 DEF Recheck
      <3>2. mine[c] \in Nat
        BY <1>0 DEF TypeOK
      <3> QED
        BY <1>1, <3>1, <3>2, SettleKeepsSleep DEF SleepInv
    <2>3. CASE Deactivate(c)
      <3>1. /\ UNCHANGED <<waiting, wakeAt, mine, shutdown>> /\ pc' = Notified(pc, TRUE, FALSE)
            /\ active' = [active EXCEPT ![c] = FALSE]
        BY <2>3 DEF Deactivate
      <3>2. /\ \A d \in Cores : pc[d] \in {"asleep", "woken"} => pc'[d] \in {"asleep", "woken"}
            /\ \A d \in Cores : pc'[d] = "parked" => pc[d] = "parked"
        BY <1>0, <3>1, NotifiedPlaces DEF TypeOK
      <3>3. \A d \in Cores : active'[d] => active[d]
        BY <1>0, <3>1 DEF TypeOK
      <3> QED
        BY <1>0, <1>1, <3>1, <3>2, <3>3 DEF SleepInv, WaitRecord, NoLostUnpark
    <2>4. CASE Reactivate(c)
      <3>1. UNCHANGED <<waiting, wakeAt, mine, shutdown>> /\ pc' = Notified(pc, TRUE, TRUE)
        BY <2>4 DEF Reactivate
      <3>2. /\ \A d \in Cores : pc[d] \in {"asleep", "woken"} => pc'[d] \in {"asleep", "woken"}
            /\ \A d \in Cores : pc'[d] # "parked"
        BY <1>0, <3>1, NotifiedPlaces DEF TypeOK
      <3> QED
        BY <1>0, <1>1, <3>1, <3>2 DEF SleepInv, WaitRecord, NoLostUnpark
    <2>5. CASE Park(c)
      BY <1>0, <1>1, <2>5 DEF Park, SleepInv, WaitRecord, NoLostUnpark, TypeOK
    <2>6. CASE Unpark(c)
      BY <1>0, <1>1, <2>6 DEF Unpark, SleepInv, WaitRecord, NoLostUnpark, TypeOK
    <2>7. CASE End(c)
      BY <1>0, <1>1, <2>7 DEF End, SleepInv, WaitRecord, NoLostUnpark, TypeOK
    <2> QED
      BY <1>3, <2>1, <2>2, <2>3, <2>4, <2>5, <2>6, <2>7 DEF CoreStep
  <1>4. CASE UNCHANGED vars
    BY <1>0, <1>1, <1>4 DEF vars, SleepInv, WaitRecord, NoLostUnpark
  <1> QED
    BY <1>2, <1>3, <1>4 DEF Next

\* Who leaves the loop of sync_core wakes the sleepers for one that may go on.
LEMMA SettleWakesForSomebody ==
    ASSUME SleepInv, NEW c \in Cores, NEW m, NEW count \in [Cores -> Nat],
           pc[c] \in {"running", "woken"}, Settle(c, m, count),
           NEW b \in Cores, pc[b] = "asleep", pc'[b] = "woken"
    PROVE  \E i \in Cores : pc[i] \in {"asleep", "woken"} /\ ~MustWait(i, mine[i], count)
  <1>0. TypeOK /\ WaitRecord
    BY DEF SleepInv
  <1> DEFINE places == [pc EXCEPT ![c] = "running"]
  <1>1. ~(~shutdown /\ MustWait(c, m, count))
    BY <1>0 DEF Settle, TypeOK
  <1>2. pc' = Notified(places, ShouldNotify(c, count), FALSE)
    BY <1>1 DEF Settle
  <1>3. places \in [Cores -> Places] /\ ShouldNotify(c, count) \in BOOLEAN /\ FALSE \in BOOLEAN /\ places[b] = "asleep"
    BY <1>0 DEF TypeOK, Places, ShouldNotify
  <1> HIDE DEF places
  <1>4. ShouldNotify(c, count)
    BY <1>2, <1>3, NotifiedPlaces
  <1>5. PICK i \in Cores : waiting[i] /\ \A d \in Cores : active[d] => wakeAt[i] <= count[d]
    BY <1>4 DEF ShouldNotify
  <1>6. pc[i] \in {"asleep", "woken"} /\ wakeAt[i] = Floor(mine[i] - Slack) /\ mine[i] \in Nat
    BY <1>0, <1>5 DEF WaitRecord, TypeOK
  <1>7. mine[i] - Slack <= wakeAt[i] /\ wakeAt[i] \in Nat
    BY <1>0, <1>6, SlackAssumption DEF Floor, TypeOK
  <1>8. ~MustWait(i, mine[i], count)
    BY <1>5, <1>6, <1>7, SlackAssumption DEF MustWait
  <1> QED
    BY <1>6, <1>8

LEMMA BroadcastHasReason == SleepInv /\ [Next]_vars => NoIdleBroadcast
  <1> SUFFICES ASSUME SleepInv, [Next]_vars,
                      NEW b \in Cores, pc[b] = "asleep", pc'[b] = "woken",
                      active' = active, shutdown' = shutdown
               PROVE  \E i \in Cores : /\ pc[i] \in {"asleep", "woken"}
                                       /\ ~MustWait(i, mine[i], cycles')
    BY DEF NoIdleBroadcast
  <1>0. TypeOK /\ TypeOK'
    BY ClockTypeStep DEF SleepInv
  <1>1. PICK c \in Cores : CoreStep(c)
    BY DEF Next, RequestShutdown, vars
  <1>2. CASE \E m \in Reports(c) : SyncCore(c, m)
    <2>1. PICK m \in Reports(c) : SyncCore(c, m)
      BY <1>2
    <2>2. pc[c] = "running" /\ Settle(c, m, cycles') /\ cycles' \in [Cores -> Nat]
      BY <1>0, <2>1 DEF SyncCore, TypeOK
    <2> QED
      BY <2>2, SettleWakesForSomebody
  <1>3. CASE Recheck(c)
    <2>1. pc[c] = "woken" /\ Settle(c, mine[c], cycles) /\ cycles' = cycles /\ cycles \in [Cores -> Nat]
      BY <1>0, <1>3 DEF Recheck, TypeOK
    <2> QED
      BY <2>1, SettleWakesForSomebody
  <1>4. CASE Deactivate(c) \/ Reactivate(c)
    BY <1>0, <1>4 DEF Deactivate, Reactivate, TypeOK
  <1>5. CASE Park(c) \/ Unpark(c) \/ End(c)
    BY <1>0, <1>5 DEF Park, Unpark, End, TypeOK
  <1> QED
    BY <1>1, <1>2, <1>3, <1>4, <1>5 DEF CoreStep

\* A core that is parked is one that is to be parked (sync.rs:211-220).
THEOREM NoUnparkIsLost == Spec => []NoLostUnpark
  <1>1. SleepInv => NoLostUnpark
    BY DEF SleepInv
  <1> QED
    BY <1>1, SleepStart, SleepStep, PTL DEF Spec

\* A core wakes sleepers only when one that waits may go on, unless a core was switched
\* off or on or all end (sync.rs:81-137).
THEOREM NoBroadcastIsIdle == Spec => [][NoIdleBroadcast]_vars
  <1> QED
    BY SleepStart, SleepStep, BroadcastHasReason, PTL DEF Spec

-----------------------------------------------------------------------------
(***************************************************************************)
(* The events, for any number of producers.                                *)
(***************************************************************************)

\* The flags in order, one by one.
LEMMA FiveEvents ==
    /\ Events = {"sysres", "nmi", "clock", "irq", "draw end"}
    /\ Order[1] = "sysres" /\ Order[2] = "nmi" /\ Order[3] = "clock"
    /\ Order[4] = "irq" /\ Order[5] = "draw end"
  <1>1. /\ Order[1] = "sysres" /\ Order[2] = "nmi" /\ Order[3] = "clock"
        /\ Order[4] = "irq" /\ Order[5] = "draw end"
    BY DEF Order
  <1>2. \A i \in 1 .. 5 : i = 1 \/ i = 2 \/ i = 3 \/ i = 4 \/ i = 5
    OBVIOUS
  <1>3. 1 \in 1 .. 5 /\ 2 \in 1 .. 5 /\ 3 \in 1 .. 5 /\ 4 \in 1 .. 5 /\ 5 \in 1 .. 5
    OBVIOUS
  <1> QED
    BY <1>1, <1>2, <1>3 DEF Events

\* No two flags share a place, so a swap takes one event only.
LEMMA OrderIsOneToOne ==
    /\ \A i \in 1 .. 5 : Order[i] \in Events
    /\ \A i, j \in 1 .. 5 : Order[i] = Order[j] => i = j
  <1>1. \A i \in 1 .. 5 : i = 1 \/ i = 2 \/ i = 3 \/ i = 4 \/ i = 5
    OBVIOUS
  <1> QED
    BY <1>1, FiveEvents

\* The inductive invariant is the conjunction of the two.
EventsInv == EventsTypeOK /\ NothingIsLost

LEMMA EventsInvInit == EventsInit => EventsInv
  <1> SUFFICES ASSUME EventsInit PROVE EventsInv
    OBVIOUS
  <1>1. flag \in [Events -> BOOLEAN] /\ owed \in [Events -> BOOLEAN] /\ any \in BOOLEAN
    BY Zenon DEF EventsInit
  <1>2. raising \in [Producers -> Events \cup {Nothing}] /\ master \in 0 .. 5
    BY DEF EventsInit
  <1>3. \A e \in Events : ~owed[e]
    BY DEF EventsInit
  <1> QED
    BY <1>1, <1>2, <1>3 DEF EventsInv, EventsTypeOK, NothingIsLost

\* Where the master or a producer stands when event e is on its way.
OnItsWay(e) ==
    \/ any
    \/ \E who \in Producers : raising[who] = e
    \/ \E i \in 1 .. 5 : Order[i] = e /\ master > 0 /\ master <= i

LEMMA EventsInvStep == EventsInv /\ [EventsNext]_eventsVars => EventsInv'
  <1> SUFFICES ASSUME EventsInv, [EventsNext]_eventsVars
               PROVE  EventsInv'
    OBVIOUS
  <1>0. EventsTypeOK /\ \A e \in Events : owed[e] => flag[e] /\ OnItsWay(e)
    BY DEF EventsInv, NothingIsLost, OnItsWay
  <1>1. ASSUME NEW who \in Producers, NEW e \in Events, Raise(who, e)
        PROVE  EventsInv'
    <2>1. EventsTypeOK'
      BY <1>0, <1>1 DEF Raise, EventsTypeOK
    <2>2. ASSUME NEW f \in Events, owed'[f]
          PROVE  flag'[f] /\ OnItsWay(f)'
      <3>1. CASE f = e
        <4>1. flag'[f] /\ raising'[who] = f
          BY <1>0, <1>1, <3>1 DEF Raise, EventsTypeOK
        <4> QED
          BY <4>1 DEF OnItsWay
      <3>2. CASE f # e
        <4>1. owed[f] /\ flag[f] /\ flag'[f] = flag[f]
          BY <1>0, <1>1, <2>2, <3>2 DEF Raise, EventsTypeOK
        <4>2. \A q \in Producers : raising[q] = f => raising'[q] = f
          <5>1. raising[who] # f
            BY <1>1, FiveEvents DEF Raise, Nothing
          <5> QED
            BY <1>0, <1>1, <5>1 DEF Raise, EventsTypeOK
        <4> QED
          BY <1>0, <1>1, <4>1, <4>2 DEF Raise, OnItsWay
      <3> QED
        BY <3>1, <3>2
    <2> QED
      BY <2>1, <2>2 DEF EventsInv, NothingIsLost, OnItsWay
  <1>2. ASSUME NEW who \in Producers, Publish(who)
        PROVE  EventsInv'
    <2>1. EventsTypeOK'
      BY <1>0, <1>2 DEF Publish, EventsTypeOK
    <2>2. any' /\ flag' = flag /\ owed' = owed
      BY <1>2 DEF Publish
    <2> QED
      BY <1>0, <2>1, <2>2 DEF EventsInv, NothingIsLost
  <1>3. ASSUME NEW seen \in BOOLEAN, Look(seen)
        PROVE  EventsInv'
    <2>1. CASE seen
      <3>1. master = 0 /\ master' = 1 /\ flag' = flag /\ owed' = owed /\ any' = FALSE
            /\ raising' = raising
        BY <1>3, <2>1 DEF Look
      <3>2. EventsTypeOK'
        <4>1. any' \in BOOLEAN
          BY <3>1, Zenon
        <4>2. master' \in 0 .. 5
          BY <3>1
        <4> QED
          BY <1>0, <3>1, <4>1, <4>2 DEF EventsTypeOK
      <3>3. \A e \in Events : \E i \in 1 .. 5 : Order[i] = e
        BY DEF Events
      <3> QED
        BY <1>0, <3>1, <3>2, <3>3 DEF EventsInv, NothingIsLost
    <2>2. CASE ~seen
      <3>1. master' = master /\ flag' = flag /\ owed' = owed /\ any' = any
            /\ raising' = raising
        BY <1>3, <2>2 DEF Look
      <3> QED
        BY <3>1 DEF EventsInv, EventsTypeOK, NothingIsLost
    <2> QED
      BY <2>1, <2>2
  <1>4. CASE Take
    <2>1. /\ master \in 1 .. 5 /\ Order[master] \in Events
          /\ master' = (master + 1) % 6
          /\ any' = any /\ raising' = raising
          /\ flag' = [flag EXCEPT ![Order[master]] = FALSE]
          /\ owed' = IF flag[Order[master]]
                     THEN [owed EXCEPT ![Order[master]] = FALSE] ELSE owed
      BY <1>0, <1>4, OrderIsOneToOne DEF Take, EventsTypeOK
    <2>2. master' \in 0 .. 5 /\ (master < 5 => master' = master + 1)
      BY <2>1
    <2>3. flag' \in [Events -> BOOLEAN]
      BY <1>0, <2>1 DEF EventsTypeOK
    <2>4. owed' \in [Events -> BOOLEAN]
      BY <1>0, <2>1 DEF EventsTypeOK
    <2>5. EventsTypeOK'
      BY <1>0, <2>1, <2>2, <2>3, <2>4 DEF EventsTypeOK
    <2>6. ASSUME NEW f \in Events, owed'[f]
          PROVE  flag'[f] /\ OnItsWay(f)'
      <3>1. owed[f] /\ f # Order[master]
        BY <1>0, <2>1, <2>6 DEF EventsTypeOK
      <3>2. flag[f] /\ flag'[f] = flag[f] /\ OnItsWay(f)
        BY <1>0, <2>1, <3>1 DEF EventsTypeOK
      <3>3. CASE \E i \in 1 .. 5 : Order[i] = f /\ master > 0 /\ master <= i
        <4>1. PICK i \in 1 .. 5 : Order[i] = f /\ master <= i
          BY <3>3
        <4>2. master < i
          BY <2>1, <3>1, <4>1
        <4>3. master' > 0 /\ master' <= i
          BY <2>1, <2>2, <4>2
        <4> QED
          BY <3>2, <4>1, <4>3 DEF OnItsWay
      <3> QED
        BY <2>1, <3>2, <3>3 DEF OnItsWay
    <2> QED
      BY <2>5, <2>6 DEF EventsInv, NothingIsLost, OnItsWay
  <1>5. CASE UNCHANGED eventsVars
    BY <1>5 DEF eventsVars, EventsInv, EventsTypeOK, NothingIsLost
  <1> QED
    BY <1>1, <1>2, <1>3, <1>4, <1>5 DEF EventsNext

\* Whatever the producers and the master do, and in whatever order, an event
\* that was raised is still on its way or was taken (shared_buffers.rs:108-123).
THEOREM NoEventIsLost == EventsSpec => []NothingIsLost
  <1>1. EventsInv => NothingIsLost
    BY DEF EventsInv
  <1> QED
    BY <1>1, EventsInvInit, EventsInvStep, PTL DEF EventsSpec

\* The flags and places keep their types (sh2.rs:2752-2825).
THEOREM EventsTypeCorrect == EventsSpec => []EventsTypeOK
  <1>1. EventsInv => EventsTypeOK
    BY DEF EventsInv
  <1> QED
    BY <1>1, EventsInvInit, EventsInvStep, PTL DEF EventsSpec

-----------------------------------------------------------------------------
(***************************************************************************)
(* The striped work RAM, for any number of threads and of stripes of any   *)
(* size, as long as an access is no wider than a stripe. An access is      *)
(* followed by the locks it has taken so far.                              *)
(***************************************************************************)

LEMMA Quotient ==
    ASSUME NEW n \in Nat \ {0}, NEW q \in Nat, NEW r \in 0 .. n - 1
    PROVE  (q * n + r) \div n = q /\ (q * n + r) % n = r
  OBVIOUS

LEMMA SplitOffset ==
    ASSUME NEW n \in Nat \ {0}, NEW x \in Nat
    PROVE  /\ x \div n \in Nat /\ x % n \in 0 .. n - 1
           /\ x = (x \div n) * n + (x % n)
  OBVIOUS

LEMMA OffsetInside ==
    ASSUME NEW n \in Nat \ {0}, NEW m \in Nat, NEW x \in 0 .. m * n - 1
    PROVE  x \div n \in 0 .. m - 1
  OBVIOUS

LEMMA RamSizeIsPositive == RamSize \in Nat \ {0} /\ Stripes \in Nat \ {0} /\ StripeBytes \in Nat \ {0}
  BY SizeAssumption DEF RamSize

\* Every byte, also one past the end, has its stripe and its index.
LEMMA StripesExist ==
    ASSUME NEW a \in Nat
    PROVE  StripeOf(a) \in 0 .. Stripes - 1 /\ IndexOf(a) \in 0 .. StripeBytes - 1
  BY RamSizeIsPositive, SplitOffset DEF StripeOf, IndexOf

LEMMA StripesOfAccess ==
    ASSUME NEW off \in 0 .. RamSize - 1, NEW width \in 1 .. StripeBytes, NEW k \in 0 .. width - 1
    PROVE  /\ StripeOf(off) \in 0 .. Stripes - 1
           /\ StripeOf(off + k) \in
                 IF Straddles(off, width) THEN {StripeOf(off), (StripeOf(off) + 1) % Stripes}
                 ELSE {StripeOf(off)}
  <1> DEFINE q == off \div StripeBytes
             r == off % StripeBytes
  <1>1. /\ off \in Nat /\ StripeBytes \in Nat \ {0} /\ Stripes \in Nat \ {0, 1}
        /\ off \in 0 .. Stripes * StripeBytes - 1
    BY SizeAssumption DEF RamSize
  <1>2. q \in 0 .. Stripes - 1
    BY <1>1, OffsetInside
  <1>3. r \in 0 .. StripeBytes - 1 /\ off = q * StripeBytes + r
    BY <1>1, SplitOffset
  <1>4. StripeOf(off) = q /\ IndexOf(off) = r
    BY <1>1, <1>2 DEF StripeOf, IndexOf
  <1>5. q * StripeBytes \in Nat /\ (q + 1) * StripeBytes = q * StripeBytes + StripeBytes
    BY <1>1, <1>2
  <1> HIDE DEF q, r
  <1>6. CASE r + k < StripeBytes
    <2>1. off + k = q * StripeBytes + (r + k) /\ r + k \in 0 .. StripeBytes - 1
      BY <1>1, <1>3, <1>5, <1>6
    <2>2. (off + k) \div StripeBytes = q
      <3> DEFINE i == r + k
      <3>1. i \in 0 .. StripeBytes - 1 /\ off + k = q * StripeBytes + i
        BY <2>1
      <3> HIDE DEF i
      <3>2. (q * StripeBytes + i) \div StripeBytes = q
        BY <1>1, <1>2, <3>1, Quotient
      <3> QED
        BY <3>1, <3>2
    <2>3. StripeOf(off + k) = q
      BY <1>1, <1>2, <2>2 DEF StripeOf
    <2>4. StripeOf(off + k) = StripeOf(off)
      BY <1>4, <2>3
    <2> QED
      BY <1>2, <1>4, <2>4
  <1>7. CASE r + k >= StripeBytes
    <2>1. /\ off + k = (q + 1) * StripeBytes + (r + k - StripeBytes)
          /\ r + k - StripeBytes \in 0 .. StripeBytes - 1
      BY <1>1, <1>3, <1>5, <1>7
    <2>2. (off + k) \div StripeBytes = q + 1
      <3> DEFINE i == r + k - StripeBytes
                 next == q + 1
      <3>1. i \in 0 .. StripeBytes - 1 /\ off + k = next * StripeBytes + i /\ next \in Nat
        BY <1>2, <2>1
      <3> HIDE DEF i, next
      <3>2. (next * StripeBytes + i) \div StripeBytes = next
        BY <1>1, <3>1, Quotient
      <3>3. (off + k) \div StripeBytes = next
        BY <3>1, <3>2
      <3> QED
        BY <3>3 DEF next
    <2>3. StripeOf(off + k) = (q + 1) % Stripes
      BY <1>1, <1>2, <2>2 DEF StripeOf
    <2>4. Straddles(off, width)
      BY <1>1, <1>3, <1>4, <1>7 DEF Straddles
    <2>5. StripeOf(off + k) = (StripeOf(off) + 1) % Stripes
      BY <1>4, <2>3
    <2> QED
      BY <1>2, <1>4, <2>4, <2>5
  <1> QED
    BY <1>1, <1>3, <1>6, <1>7

\* The stripes whose locks an access takes, in order: one or two, in rising order, and
\* every byte of the access lies in one of them.
LEMMA OrderOfLocks ==
    ASSUME NEW off \in 0 .. RamSize - 1, NEW width \in 1 .. StripeBytes
    PROVE  /\ Len(LockOrder(off, width)) \in {1, 2}
           /\ LockOrder(off, width)[1] \in 0 .. Stripes - 1
           /\ Len(LockOrder(off, width)) = 2 =>
                 /\ LockOrder(off, width)[2] \in 0 .. Stripes - 1
                 /\ LockOrder(off, width)[1] < LockOrder(off, width)[2]
           /\ \A k \in 0 .. width - 1 :
                 \/ StripeOf(off + k) = LockOrder(off, width)[1]
                 \/ /\ Len(LockOrder(off, width)) = 2
                    /\ StripeOf(off + k) = LockOrder(off, width)[2]
  <1> DEFINE s == StripeOf(off)
  <1>1. s \in 0 .. Stripes - 1
    <2>1. 0 \in 0 .. width - 1
      OBVIOUS
    <2> QED
      BY <2>1, StripesOfAccess
  <1>2. \A k \in 0 .. width - 1 :
            StripeOf(off + k) \in IF Straddles(off, width) THEN {s, (s + 1) % Stripes} ELSE {s}
    BY StripesOfAccess
  <1>3. Stripes \in Nat \ {0, 1}
    BY SizeAssumption
  <1>4. CASE ~Straddles(off, width)
    <2>1. LockOrder(off, width) = <<s>>
      BY <1>4 DEF LockOrder
    <2> HIDE DEF s
    <2> QED
      BY <1>1, <1>2, <1>4, <2>1
  <1>5. CASE Straddles(off, width) /\ s = Stripes - 1
    <2>1. LockOrder(off, width) = <<0, s>>
      BY <1>5 DEF LockOrder
    <2>2. (s + 1) % Stripes = 0
      BY <1>3, <1>5
    <2> HIDE DEF s
    <2> QED
      BY <1>1, <1>2, <1>3, <1>5, <2>1, <2>2
  <1>6. CASE Straddles(off, width) /\ s # Stripes - 1
    <2>1. LockOrder(off, width) = <<s, s + 1>>
      BY <1>6 DEF LockOrder
    <2>2. (s + 1) % Stripes = s + 1
      BY <1>1, <1>3, <1>6
    <2> HIDE DEF s
    <2> QED
      BY <1>1, <1>2, <1>3, <1>6, <2>1, <2>2
  <1> QED
    BY <1>4, <1>5, <1>6
LocksOf(o) == LockOrder(o.off, o.width)

\* The stripes an access has locked.
Held(o) ==
    IF o = Idle THEN {}
    ELSE IF o.step = "lock1" THEN {}
    ELSE IF o.step = "lock2" THEN {LocksOf(o)[1]}
    ELSE {LocksOf(o)[j] : j \in 1 .. Len(LocksOf(o))}

\* Each lock is held by those whose accesses have taken it, in their way; a writer
\* is alone.
LocksMatch ==
    /\ \A t \in Threads : \A s \in 0 .. Stripes - 1 :
          /\ writer[s] = t <=> (s \in Held(op[t]) /\ op[t].kind # "read")
          /\ t \in readers[s] <=> (s \in Held(op[t]) /\ op[t].kind = "read")
    /\ \A s \in 0 .. Stripes - 1 : writer[s] # Nobody => readers[s] = {}

\* Bytes are moved under the locks only, and a second lock is taken where there is one.
StepsAgree ==
    \A t \in Threads :
        op[t] # Idle =>
            /\ op[t].at <= op[t].width
            /\ op[t].step # "move" => op[t].at = 0
            /\ op[t].step = "lock2" => Len(LocksOf(op[t])) = 2

RamInv == RamTypeOK /\ LocksMatch /\ StepsAgree /\ WritesLandInOrder

LEMMA AccessFields ==
    ASSUME NEW o \in Accesses
    PROVE  /\ o # Idle
           /\ o.kind \in Kinds /\ o.off \in 0 .. RamSize - 1
           /\ o.width \in Widths /\ o.width \in 1 .. StripeBytes
           /\ o.step \in {"lock1", "lock2", "move"} /\ o.at \in 0 .. StripeBytes
  <1>1. /\ o.kind \in Kinds /\ o.off \in 0 .. RamSize - 1 /\ o.width \in Widths
        /\ o.step \in {"lock1", "lock2", "move"} /\ o.at \in 0 .. StripeBytes
    BY DEF Accesses
  <1>2. o # Idle
    BY <1>1 DEF Idle, Kinds
  <1> QED
    BY <1>1, <1>2, SizeAssumption

\* The bytes that an access moves lie in the stripes it has locked.
LEMMA MovesInHeld ==
    ASSUME NEW o \in Accesses, o.step = "move", NEW k \in 0 .. o.width - 1
    PROVE  StripeOf(o.off + k) \in Held(o)
  <1>1. /\ o # Idle /\ o.off \in 0 .. RamSize - 1 /\ o.width \in 1 .. StripeBytes
    BY AccessFields
  <1>2. Held(o) = {LocksOf(o)[j] : j \in 1 .. Len(LocksOf(o))}
    BY <1>1 DEF Held
  <1>3. /\ Len(LocksOf(o)) \in {1, 2}
        /\ \/ StripeOf(o.off + k) = LocksOf(o)[1]
           \/ Len(LocksOf(o)) = 2 /\ StripeOf(o.off + k) = LocksOf(o)[2]
    BY <1>1, OrderOfLocks DEF LocksOf
  <1> QED
    BY <1>2, <1>3

\* Who holds the locks for moving bytes keeps the others out.
LEMMA LocksExclude ==
    ASSUME RamTypeOK, LocksMatch
    PROVE  AccessesAreWhole
  <1> SUFFICES ASSUME NEW t \in Threads, NEW u \in Threads, t # u,
                      op[t] # Idle, op[u] # Idle,
                      op[t].step = "move", op[u].step = "move",
                      ~(op[t].kind = "read" /\ op[u].kind = "read"),
                      NEW place \in Bytes(op[t]) \cap Bytes(op[u])
               PROVE  FALSE
    BY DEF AccessesAreWhole
  <1>1. op[t] \in Accesses /\ op[u] \in Accesses
    BY DEF RamTypeOK
  <1>2. place[1] \in Held(op[t]) /\ place[1] \in Held(op[u])
    BY <1>1, MovesInHeld DEF Bytes
  <1>3. place[1] \in 0 .. Stripes - 1
    <2>1. PICK k \in 0 .. op[t].width - 1 : place = <<StripeOf(op[t].off + k), IndexOf(op[t].off + k)>>
      BY DEF Bytes
    <2> QED
      BY <2>1, <1>1, AccessFields, StripesExist
  <1> QED
    BY <1>1, <1>2, <1>3, ThreadsAssumption DEF LocksMatch

LEMMA TakesKeepsLocks ==
    ASSUME RamTypeOK, LocksMatch, NEW t \in Threads, NEW s \in 0 .. Stripes - 1,
           Takes(t, s), op[t] # Idle,
           Held(op'[t]) = Held(op[t]) \cup {s}, op'[t].kind = op[t].kind,
           \A u \in Threads \ {t} : op'[u] = op[u]
    PROVE  /\ readers' \in [0 .. Stripes - 1 -> SUBSET Threads]
           /\ writer' \in [0 .. Stripes - 1 -> Threads \cup {Nobody}]
           /\ LocksMatch'
  <1>1. Nobody \notin Threads
    BY ThreadsAssumption
  <1>2. CASE op[t].kind = "read"
    <2>1. /\ writer[s] = Nobody /\ writer' = writer
          /\ readers' = [readers EXCEPT ![s] = @ \cup {t}]
      BY <1>2 DEF Takes
    <2>2. readers' \in [0 .. Stripes - 1 -> SUBSET Threads] /\ writer' = writer
      BY <2>1 DEF RamTypeOK
    <2>3. ASSUME NEW u \in Threads, NEW x \in 0 .. Stripes - 1
          PROVE  /\ writer'[x] = u <=> (x \in Held(op'[u]) /\ op'[u].kind # "read")
                 /\ u \in readers'[x] <=> (x \in Held(op'[u]) /\ op'[u].kind = "read")
      <3>1. CASE u = t
        BY <1>2, <2>1, <3>1 DEF RamTypeOK, LocksMatch
      <3>2. CASE u # t
        BY <2>1, <3>2 DEF RamTypeOK, LocksMatch
      <3> QED
        BY <3>1, <3>2
    <2>4. \A x \in 0 .. Stripes - 1 : writer'[x] # Nobody => readers'[x] = {}
      BY <2>1 DEF RamTypeOK, LocksMatch
    <2> QED
      BY <2>2, <2>3, <2>4 DEF RamTypeOK, LocksMatch
  <1>3. CASE op[t].kind # "read"
    <2>1. /\ writer[s] = Nobody /\ readers[s] = {} /\ readers' = readers
          /\ writer' = [writer EXCEPT ![s] = t]
      BY <1>3 DEF Takes
    <2>2. writer' \in [0 .. Stripes - 1 -> Threads \cup {Nobody}]
      BY <2>1 DEF RamTypeOK
    <2>3. ASSUME NEW u \in Threads, NEW x \in 0 .. Stripes - 1
          PROVE  /\ writer'[x] = u <=> (x \in Held(op'[u]) /\ op'[u].kind # "read")
                 /\ u \in readers'[x] <=> (x \in Held(op'[u]) /\ op'[u].kind = "read")
      <3>1. CASE u = t
        BY <1>3, <2>1, <3>1 DEF RamTypeOK, LocksMatch
      <3>2. CASE u # t
        BY <1>1, <2>1, <3>2 DEF RamTypeOK, LocksMatch
      <3> QED
        BY <3>1, <3>2
    <2>4. \A x \in 0 .. Stripes - 1 : writer'[x] # Nobody => readers'[x] = {}
      BY <2>1 DEF RamTypeOK, LocksMatch
    <2> QED
      BY <2>1, <2>2, <2>3, <2>4 DEF RamTypeOK, LocksMatch
  <1> QED
    BY <1>2, <1>3

LEMMA RamStart == RamInit => RamInv
  <1> SUFFICES ASSUME RamInit PROVE RamInv
    OBVIOUS
  <1>1. RamTypeOK
    BY DEF RamInit, RamTypeOK
  <1>2. \A t \in Threads : op[t] = Idle
    BY DEF RamInit
  <1>3. LocksMatch
    BY <1>2, ThreadsAssumption DEF RamInit, LocksMatch, Held
  <1> QED
    BY <1>1, <1>2, <1>3 DEF RamInv, StepsAgree, WritesLandInOrder

LEMMA BeginKeeps ==
    ASSUME RamInv, NEW t \in Threads, NEW kind \in Kinds, NEW off \in Offsets,
           NEW width \in Widths, Begin(t, kind, off, width)
    PROVE  RamInv'
  <1> DEFINE o == [kind |-> kind, off |-> off % RamSize, width |-> width,
                   step |-> "lock1", at |-> 0]
  <1>1. op[t] = Idle /\ op' = [op EXCEPT ![t] = o] /\ UNCHANGED <<high_ram, readers, writer>>
    BY DEF Begin
  <1>2. o \in Accesses
    <2>1. off % RamSize \in 0 .. RamSize - 1
      BY RamSizeIsPositive, SizeAssumption, SplitOffset
    <2>2. 0 \in 0 .. StripeBytes
      BY SizeAssumption
    <2> QED
      BY <2>1, <2>2 DEF Accesses
  <1>3. o.step = "lock1" /\ o.at = 0 /\ o.width = width
    OBVIOUS
  <1>4. Held(o) = {} /\ Held(Idle) = {} /\ o # Idle
    BY <1>2, <1>3, AccessFields DEF Held
  <1> HIDE DEF o
  <1>5. RamTypeOK'
    BY <1>1, <1>2 DEF RamInv, RamTypeOK
  <1>6. /\ op'[t] = o
        /\ \A u \in Threads \ {t} : op'[u] = op[u]
    BY <1>1 DEF RamInv, RamTypeOK
  <1>7. LocksMatch'
    BY <1>1, <1>4, <1>6 DEF RamInv, LocksMatch
  <1>8. StepsAgree'
    BY <1>2, <1>3, <1>6, AccessFields DEF RamInv, StepsAgree
  <1>9. WritesLandInOrder'
    BY <1>1, <1>3, <1>6 DEF RamInv, WritesLandInOrder, Done
  <1> QED
    BY <1>5, <1>7, <1>8, <1>9 DEF RamInv

LEMMA LockKeeps ==
    ASSUME RamInv, NEW t \in Threads, Lock(t)
    PROVE  RamInv'
  <1> DEFINE order == LocksOf(op[t])
             next == IF op[t].step = "lock1" THEN order[1] ELSE order[2]
             last == op[t].step = "lock2" \/ Len(order) = 1
  <1>1. op[t] # Idle /\ op[t].step \in {"lock1", "lock2"} /\ high_ram' = high_ram
    BY DEF Lock
  <1>2. op[t] \in Accesses
    BY <1>1 DEF RamInv, RamTypeOK
  <1>3. /\ Len(order) \in {1, 2} /\ order[1] \in 0 .. Stripes - 1
        /\ Len(order) = 2 => order[2] \in 0 .. Stripes - 1
    BY <1>2, AccessFields, OrderOfLocks DEF LocksOf
  <1>4. op[t].at = 0 /\ (op[t].step = "lock2" => Len(order) = 2)
    BY <1>1 DEF RamInv, StepsAgree
  <1>5. /\ Takes(t, next)
        /\ op' = [op EXCEPT ![t].step = IF last THEN "move" ELSE "lock2"]
    BY <1>1 DEF Lock, LocksOf
  <1>6. next \in 0 .. Stripes - 1
    BY <1>1, <1>3, <1>4
  <1>7. /\ op'[t] = [op[t] EXCEPT !.step = IF last THEN "move" ELSE "lock2"]
        /\ \A u \in Threads \ {t} : op'[u] = op[u]
    BY <1>5 DEF RamInv, RamTypeOK
  <1>8. /\ op'[t] \in Accesses
        /\ op'[t].kind = op[t].kind /\ op'[t].at = 0 /\ op'[t].width = op[t].width
        /\ op'[t].off = op[t].off /\ op'[t].step = IF last THEN "move" ELSE "lock2"
    BY <1>2, <1>4, <1>7 DEF Accesses
  <1>9. LocksOf(op'[t]) = order
    BY <1>8 DEF LocksOf
  <1>10. Held(op'[t]) = Held(op[t]) \cup {next}
    <2>1. op'[t] # Idle
      BY <1>8, AccessFields
    <2> HIDE DEF order
    <2>2. CASE op[t].step = "lock1" /\ Len(order) = 1
      <3>1. Held(op'[t]) = {order[j] : j \in 1 .. 1} /\ Held(op[t]) = {}
        BY <1>1, <1>8, <1>9, <2>1, <2>2 DEF Held
      <3> QED
        BY <2>2, <3>1
    <2>3. CASE op[t].step = "lock1" /\ Len(order) = 2
      BY <1>1, <1>8, <1>9, <2>1, <2>3 DEF Held
    <2>4. CASE op[t].step = "lock2"
      <3>1. Held(op'[t]) = {order[j] : j \in 1 .. 2}
        BY <1>4, <1>8, <1>9, <2>1, <2>4 DEF Held
      <3>2. Held(op[t]) = {order[1]}
        BY <1>1, <2>4 DEF Held, order
      <3> QED
        BY <2>4, <3>1, <3>2
    <2> QED
      BY <1>1, <1>3, <2>2, <2>3, <2>4
  <1> HIDE DEF order, next
  <1>11. /\ readers' \in [0 .. Stripes - 1 -> SUBSET Threads]
         /\ writer' \in [0 .. Stripes - 1 -> Threads \cup {Nobody}]
         /\ LocksMatch'
    BY <1>1, <1>5, <1>6, <1>7, <1>8, <1>10, TakesKeepsLocks DEF RamInv
  <1>12. RamTypeOK'
    <2>1. op' \in [Threads -> Accesses \cup {Idle}]
      BY <1>5, <1>7, <1>8 DEF RamInv, RamTypeOK
    <2> QED
      BY <1>1, <1>11, <2>1 DEF RamInv, RamTypeOK
  <1>13. StepsAgree'
    <2>1. 0 <= op'[t].width
      BY <1>2, <1>8, AccessFields, RamSizeIsPositive
    <2>2. op'[t].step = "lock2" => Len(LocksOf(op'[t])) = 2
      BY <1>3, <1>8, <1>9
    <2>3. ASSUME NEW u \in Threads, op'[u] # Idle
          PROVE  /\ op'[u].at <= op'[u].width
                 /\ op'[u].step # "move" => op'[u].at = 0
                 /\ op'[u].step = "lock2" => Len(LocksOf(op'[u])) = 2
      <3>1. CASE u = t
        BY <1>8, <2>1, <2>2, <3>1
      <3>2. CASE u # t
        BY <1>7, <2>3, <3>2 DEF RamInv, StepsAgree
      <3> QED
        BY <3>1, <3>2
    <2> QED
      BY <2>3 DEF StepsAgree, LocksOf
  <1>14. WritesLandInOrder'
    <2> SUFFICES ASSUME NEW u \in Threads, op'[u] # Idle, op'[u].kind = "write",
                        NEW place \in Done(op'[u])
                 PROVE  high_ram'[place[1]][place[2]] = u
      BY DEF WritesLandInOrder
    <2>1. u # t
      BY <1>8 DEF Done
    <2> QED
      BY <1>1, <1>7, <2>1 DEF RamInv, WritesLandInOrder
  <1> QED
    BY <1>11, <1>12, <1>13, <1>14 DEF RamInv

LEMMA MoveKeeps ==
    ASSUME RamInv, NEW t \in Threads, Move(t)
    PROVE  RamInv'
  <1> DEFINE s == Place(op[t])[1]
             i == Place(op[t])[2]
  <1>1. /\ op[t] # Idle /\ op[t].step = "move" /\ op[t].at < op[t].width
        /\ op' = [op EXCEPT ![t].at = @ + 1]
        /\ high_ram' = IF op[t].kind = "read" THEN high_ram ELSE [high_ram EXCEPT ![s][i] = t]
        /\ UNCHANGED <<readers, writer>>
    BY DEF Move
  <1>2. op[t] \in Accesses
    BY <1>1 DEF RamInv, RamTypeOK
  <1>3. /\ op[t].width \in 1 .. StripeBytes /\ op[t].at \in 0 .. op[t].width - 1
        /\ op[t].off \in Nat /\ StripeBytes \in Nat
    BY <1>1, <1>2, AccessFields, RamSizeIsPositive, SizeAssumption
  <1>4. s \in 0 .. Stripes - 1 /\ i \in 0 .. StripeBytes - 1
    BY <1>3, StripesExist DEF Place
  <1>5. /\ op'[t] = [op[t] EXCEPT !.at = @ + 1]
        /\ \A u \in Threads \ {t} : op'[u] = op[u]
    BY <1>1 DEF RamInv, RamTypeOK
  <1>6. /\ op'[t] \in Accesses
        /\ op'[t].kind = op[t].kind /\ op'[t].at = op[t].at + 1
        /\ op'[t].width = op[t].width /\ op'[t].off = op[t].off /\ op'[t].step = "move"
    BY <1>1, <1>2, <1>3, <1>5 DEF Accesses
  <1> HIDE DEF s, i
  <1>7. Held(op'[t]) = Held(op[t])
    BY <1>1, <1>2, <1>6, AccessFields DEF Held, LocksOf
  <1>8. high_ram' \in [0 .. Stripes - 1 -> [0 .. StripeBytes - 1 -> Threads \cup {Nobody}]]
    BY <1>1, <1>4 DEF RamInv, RamTypeOK
  <1>9. RamTypeOK'
    <2>1. op' \in [Threads -> Accesses \cup {Idle}]
      BY <1>1, <1>5, <1>6 DEF RamInv, RamTypeOK
    <2> QED
      BY <1>1, <1>8, <2>1 DEF RamInv, RamTypeOK
  <1>10. LocksMatch'
    BY <1>1, <1>5, <1>6, <1>7 DEF RamInv, LocksMatch
  <1>11. StepsAgree'
    <2>1. op'[t].at <= op'[t].width /\ op'[t].step = "move"
      BY <1>3, <1>6, RamSizeIsPositive
    <2>2. ASSUME NEW u \in Threads, op'[u] # Idle
          PROVE  /\ op'[u].at <= op'[u].width
                 /\ op'[u].step # "move" => op'[u].at = 0
                 /\ op'[u].step = "lock2" => Len(LocksOf(op'[u])) = 2
      <3>1. CASE u = t
        BY <2>1, <3>1
      <3>2. CASE u # t
        BY <1>5, <2>2, <3>2 DEF RamInv, StepsAgree
      <3> QED
        BY <3>1, <3>2
    <2> QED
      BY <2>2 DEF StepsAgree, LocksOf
  <1>12. WritesLandInOrder'
    <2> SUFFICES ASSUME NEW u \in Threads, op'[u] # Idle, op'[u].kind = "write",
                        NEW place \in Done(op'[u])
                 PROVE  high_ram'[place[1]][place[2]] = u
      BY DEF WritesLandInOrder
    <2>1. CASE op[t].kind = "read"
      <3>1. u # t /\ op'[u] = op[u]
        BY <1>5, <1>6, <2>1
      <3> QED
        BY <1>1, <2>1, <3>1 DEF RamInv, WritesLandInOrder
    <2>2. CASE op[t].kind # "read"
      <3>1. high_ram' = [high_ram EXCEPT ![s][i] = t]
        BY <1>1, <2>2
      <3>2. CASE u = t
        <4>1. PICK k \in 0 .. op[t].at :
                 place = <<StripeOf(op[t].off + k), IndexOf(op[t].off + k)>>
          BY <1>3, <1>6, <3>2 DEF Done
        <4>2. place[1] \in 0 .. Stripes - 1 /\ place[2] \in 0 .. StripeBytes - 1
          BY <1>3, <4>1, StripesExist
        <4>3. CASE place[1] = s /\ place[2] = i
          BY <1>4, <3>1, <3>2, <4>3 DEF RamInv, RamTypeOK
        <4>4. CASE ~(place[1] = s /\ place[2] = i)
          <5>1. k # op[t].at
            BY <4>1, <4>4 DEF s, i, Place
          <5>2. place \in Done(op[t])
            BY <1>3, <4>1, <5>1 DEF Done
          <5>3. high_ram[place[1]][place[2]] = t
            BY <1>1, <1>6, <3>2, <5>2 DEF RamInv, WritesLandInOrder
          <5> QED
            BY <1>4, <3>1, <3>2, <4>2, <4>4, <5>3 DEF RamInv, RamTypeOK
        <4> QED
          BY <4>3, <4>4
      <3>3. CASE u # t
        <4>1. op'[u] = op[u] /\ op[u] \in Accesses
          BY <1>5, <3>3 DEF RamInv, RamTypeOK
        <4>2. PICK k \in 0 .. op[u].at - 1 :
                 place = <<StripeOf(op[u].off + k), IndexOf(op[u].off + k)>>
          BY <4>1 DEF Done
        <4>3. /\ op[u].off \in Nat /\ op[u].at \in Nat /\ op[u].width \in Nat
              /\ op[u].at <= op[u].width /\ op[u].step \in {"lock1", "lock2", "move"}
              /\ op[u].step # "move" => op[u].at = 0
          BY <4>1, AccessFields, RamSizeIsPositive DEF RamInv, StepsAgree
        <4>4. op[u].step = "move"
          BY <4>2, <4>3
        <4>5. place \in Bytes(op[u])
          BY <4>2, <4>3 DEF Bytes
        <4>6. <<s, i>> \in Bytes(op[t])
          BY <1>3 DEF Bytes, Place, s, i
        <4>7. AccessesAreWhole
          BY LocksExclude DEF RamInv
        <4>8. place # <<s, i>>
          BY <1>1, <2>2, <3>3, <4>1, <4>4, <4>5, <4>6, <4>7 DEF AccessesAreWhole
        <4>9. place[1] \in 0 .. Stripes - 1 /\ place[2] \in 0 .. StripeBytes - 1
          BY <4>2, <4>3, StripesExist
        <4>10. high_ram[place[1]][place[2]] = u
          BY <4>1 DEF RamInv, WritesLandInOrder
        <4>11. ~(place[1] = s /\ place[2] = i)
          BY <4>2, <4>8
        <4> QED
          BY <1>4, <3>1, <4>9, <4>10, <4>11 DEF RamInv, RamTypeOK
      <3> QED
        BY <3>2, <3>3
    <2> QED
      BY <2>1, <2>2
  <1> QED
    BY <1>9, <1>10, <1>11, <1>12 DEF RamInv

LEMMA FinishKeeps ==
    ASSUME RamInv, NEW t \in Threads, Finish(t)
    PROVE  RamInv'
  <1>1. /\ op[t] # Idle /\ op' = [op EXCEPT ![t] = Idle] /\ high_ram' = high_ram
        /\ readers' = [s \in DOMAIN readers |-> readers[s] \ {t}]
        /\ writer' = [s \in DOMAIN writer |-> IF writer[s] = t THEN Nobody ELSE writer[s]]
    BY DEF Finish
  <1>2. RamTypeOK'
    BY <1>1 DEF RamInv, RamTypeOK
  <1>3. /\ op'[t] = Idle
        /\ \A u \in Threads \ {t} : op'[u] = op[u]
    BY <1>1 DEF RamInv, RamTypeOK
  <1>4. Held(Idle) = {}
    BY DEF Held
  <1>5. /\ DOMAIN readers = 0 .. Stripes - 1 /\ DOMAIN writer = 0 .. Stripes - 1
    BY DEF RamInv, RamTypeOK
  <1>6. LocksMatch'
    <2>1. ASSUME NEW u \in Threads, NEW x \in 0 .. Stripes - 1
          PROVE  /\ writer'[x] = u <=> (x \in Held(op'[u]) /\ op'[u].kind # "read")
                 /\ u \in readers'[x] <=> (x \in Held(op'[u]) /\ op'[u].kind = "read")
      <3>1. CASE u = t
        BY <1>1, <1>3, <1>4, <1>5, <3>1, ThreadsAssumption
      <3>2. CASE u # t
        BY <1>1, <1>3, <1>5, <3>2, ThreadsAssumption DEF RamInv, LocksMatch
      <3> QED
        BY <3>1, <3>2
    <2>2. \A x \in 0 .. Stripes - 1 : writer'[x] # Nobody => readers'[x] = {}
      BY <1>1, <1>5 DEF RamInv, LocksMatch
    <2> QED
      BY <2>1, <2>2 DEF LocksMatch
  <1>7. StepsAgree' /\ WritesLandInOrder'
    BY <1>1, <1>3 DEF RamInv, StepsAgree, WritesLandInOrder
  <1> QED
    BY <1>2, <1>6, <1>7 DEF RamInv

LEMMA RamStep == RamInv /\ [RamNext]_ramVars => RamInv'
  <1> SUFFICES ASSUME RamInv, [RamNext]_ramVars PROVE RamInv'
    OBVIOUS
  <1>1. CASE RamNext
    BY <1>1, BeginKeeps, LockKeeps, MoveKeeps, FinishKeeps DEF RamNext
  <1>2. CASE UNCHANGED ramVars
    BY <1>2 DEF ramVars, RamInv, RamTypeOK, LocksMatch, StepsAgree, WritesLandInOrder
  <1> QED
    BY <1>1, <1>2

\* The inductive invariant of the striped memory.
THEOREM RamIsConsistent == RamSpec => []RamInv
  BY RamStart, RamStep, PTL DEF RamSpec

\* While one access moves bytes no other writes one of them, whatever the stripes and the
\* threads (shared_buffers.rs:191-351).
THEOREM RamAccessesAreWhole == RamSpec => []AccessesAreWhole
  <1>1. RamInv => AccessesAreWhole
    BY LocksExclude DEF RamInv
  <1> QED
    BY <1>1, RamIsConsistent, PTL

\* What a write has put so far is there until it ends.
THEOREM RamWritesLandInOrder == RamSpec => []WritesLandInOrder
  <1>1. RamInv => WritesLandInOrder
    BY DEF RamInv
  <1> QED
    BY <1>1, RamIsConsistent, PTL

\* Two accesses that waited for each other would each have locked the second stripe of
\* the other first.
LEMMA RisingLocks == RamInv => NoCircularWait
  <1> SUFFICES ASSUME RamInv, NEW t \in Threads, NEW u \in Threads, t # u,
                      WaitsFor(t, u), WaitsFor(u, t)
               PROVE  FALSE
    BY DEF NoCircularWait
  <1>1. ASSUME NEW a \in Threads, NEW b \in Threads, WaitsFor(a, b),
               op[b] # Idle, op[b].step \in {"lock1", "lock2"}
        PROVE  /\ op[b].step = "lock2"
               /\ LocksOf(op[b])[1] =
                     LocksOf(op[a])[IF op[a].step = "lock1" THEN 1 ELSE 2]
    <2> DEFINE s == LocksOf(op[a])[IF op[a].step = "lock1" THEN 1 ELSE 2]
    <2>1. /\ op[a] # Idle /\ op[a].step \in {"lock1", "lock2"}
          /\ writer[s] = b \/ b \in readers[s]
      BY <1>1 DEF WaitsFor, LocksOf
    <2>2. op[a] \in Accesses /\ op[b] \in Accesses
      BY <1>1, <2>1 DEF RamInv, RamTypeOK
    <2>3. s \in 0 .. Stripes - 1
      BY <2>1, <2>2, AccessFields, OrderOfLocks DEF LocksOf, RamInv, StepsAgree
    <2> HIDE DEF s
    <2>4. s \in Held(op[b])
      BY <2>1, <2>3 DEF RamInv, LocksMatch
    <2>5. op[b].step = "lock2" /\ s = LocksOf(op[b])[1]
      BY <1>1, <2>4 DEF Held
    <2> QED
      BY <2>5 DEF s
  <1>2. /\ op[t] # Idle /\ op[t].step \in {"lock1", "lock2"}
        /\ op[u] # Idle /\ op[u].step \in {"lock1", "lock2"}
    BY DEF WaitsFor
  <1>3. /\ op[t].step = "lock2" /\ op[u].step = "lock2"
        /\ LocksOf(op[u])[1] = LocksOf(op[t])[2]
        /\ LocksOf(op[t])[1] = LocksOf(op[u])[2]
    BY <1>1, <1>2
  <1>4. ASSUME NEW a \in Threads, op[a] # Idle, op[a].step = "lock2"
        PROVE  /\ LocksOf(op[a])[1] \in Int /\ LocksOf(op[a])[2] \in Int
               /\ LocksOf(op[a])[1] < LocksOf(op[a])[2]
    <2>1. op[a] \in Accesses /\ Len(LocksOf(op[a])) = 2
      BY <1>4 DEF RamInv, RamTypeOK, StepsAgree
    <2> QED
      BY <2>1, AccessFields, OrderOfLocks DEF LocksOf
  <1> QED
    BY <1>2, <1>3, <1>4

\* Stripes are locked in rising order, so no two threads wait for each other
\* (shared_buffers.rs:204-211).
THEOREM RamNeverWaitsInACircle == RamSpec => []NoCircularWait
  BY RisingLocks, RamIsConsistent, PTL

-----------------------------------------------------------------------------
(***************************************************************************)
(* The SCU's interrupts, for any producers and whatever they raise.        *)
(***************************************************************************)

\* A set of numbers with a bound has a greatest.
LEMMA GreatestNatural ==
    ASSUME NEW bound \in Nat, NEW S \in SUBSET (0 .. bound), S # {}
    PROVE  \E n \in S : \A m \in S : m <= n
<1> DEFINE T == {bound - m : m \in S}
<1>1. T \subseteq Nat /\ T # {}
  <2>1. ASSUME NEW m \in S PROVE bound - m \in Nat
    OBVIOUS
  <2>2. T \subseteq Nat
    BY <2>1
  <2> QED BY <2>2
<1> HIDE DEF T
<1>2. PICK k \in T : \A m \in T : k <= m
  <2>1. PICK k \in T : \A m \in T : ~(<<m, k>> \in OpToRel(<, Nat))
    BY <1>1, NatLessThanWellFounded, WFMin
  <2>2. \A m \in T : ~(m < k)
    BY <1>1, <2>1 DEF OpToRel
  <2> QED BY <1>1, <2>2
<1>3. PICK n \in S : k = bound - n
  BY DEF T
<1>4. \A m \in S : bound - m \in T
  BY DEF T
<1>5. ASSUME NEW m \in S PROVE m <= n
  BY <1>2, <1>3, <1>4
<1> QED BY <1>5

\* A list of interrupts without repetition and in the order of the levels.
Ordered(q) ==
    \A i, j \in DOMAIN q : i < j => q[i] # q[j] /\ Level[q[i]] <= Level[q[j]]

Entries(q) == {q[i] : i \in DOMAIN q}

LEMMA LevelsAreNumbers == \A s \in DOMAIN Level : Level[s] \in Nat
  BY DEF Level

\* Listing an interrupt.
LEMMA WithKeepsOrder ==
    ASSUME NEW q \in Seq(DOMAIN Level), Ordered(q), NEW s \in DOMAIN Level
    PROVE  /\ With(q, s) \in Seq(DOMAIN Level) /\ Ordered(With(q, s))
           /\ Entries(With(q, s)) = Entries(q) \cup {s}
  <1> DEFINE n == Len(q)
             below == {i \in DOMAIN q : Level[q[i]] <= Level[s]}
             k == Cardinality(below)
             r == With(q, s)
             D == DOMAIN Level
  <1>0. D = DOMAIN Level
    OBVIOUS
  <1> HIDE DEF D
  <1>1. n \in Nat /\ DOMAIN q = 1 .. n /\ \A i \in 1 .. n : q[i] \in D
    BY <1>0
  <1>2. CASE \E i \in DOMAIN q : q[i] = s
    <2>1. r = q
      BY <1>2 DEF With
    <2> QED
      BY <1>2, <2>1 DEF Entries
  <1>3. CASE ~\E i \in DOMAIN q : q[i] = s
    <2>1. below \in SUBSET (0 .. n) /\ \A i, j \in 1 .. n : i < j /\ j \in below => i \in below
      <3> SUFFICES ASSUME NEW i \in 1 .. n, NEW j \in 1 .. n, i < j, j \in below PROVE i \in below
        BY <1>1
      <3>1. Level[q[i]] <= Level[q[j]] /\ Level[q[j]] <= Level[s]
        BY <1>1 DEF Ordered
      <3>2. Level[q[i]] \in Nat /\ Level[q[j]] \in Nat /\ Level[s] \in Nat
        BY <1>0, <1>1, LevelsAreNumbers
      <3> QED
        BY <1>1, <3>1, <3>2
    <2>2. PICK m \in 0 .. n : below = 1 .. m
      <3>1. CASE below = {}
        BY <1>1, <3>1
      <3>2. CASE below # {}
        <4> HIDE DEF below, n
        <4>1. PICK m \in below : \A i \in below : i <= m
          BY <1>1, <2>1, <3>2, GreatestNatural
        <4>2. below \subseteq 1 .. n
          BY <1>1 DEF below
        <4>3. m \in 1 .. n
          BY <4>2
        <4>4. ASSUME NEW i \in below PROVE i \in 1 .. m
          BY <1>1, <4>1, <4>2, <4>3, <4>4
        <4>5. ASSUME NEW i \in 1 .. m PROVE i \in below
          <5>1. i \in 1 .. n /\ (i < m \/ i = m)
            BY <1>1, <4>3
          <5> QED
            BY <2>1, <4>3, <5>1
        <4>6. below = 1 .. m
          BY <4>4, <4>5
        <4>7. m \in 0 .. n
          BY <1>1, <4>3
        <4> QED
          BY <4>6, <4>7
      <3> QED
        BY <3>1, <3>2
    <2>3. k = m
      <3>1. m \in Nat /\ 1 \in Int /\ m \in Int
        BY <1>1, <2>2
      <3>2. Cardinality(1 .. m) = IF 1 > m THEN 0 ELSE m - 1 + 1
        BY <3>1, FS_Interval, Zenon
      <3>3. Cardinality(1 .. m) = m
        BY <3>1, <3>2
      <3> HIDE DEF below
      <3> QED
        BY <2>2, <3>3
    <2>4. r = (SubSeq(q, 1, m) \o <<s>>) \o SubSeq(q, m + 1, n)
      <3>1. r = (SubSeq(q, 1, k) \o <<s>>) \o SubSeq(q, k + 1, n)
        BY <1>3 DEF With
      <3> QED
        BY <2>3, <3>1
    <2> HIDE DEF r, k, n
    <2>5. /\ SubSeq(q, 1, m) \in Seq(D) /\ Len(SubSeq(q, 1, m)) = m
          /\ \A i \in 1 .. m : SubSeq(q, 1, m)[i] = q[i]
      BY <1>1, <2>2, SubSeqProperties
    <2>6. /\ SubSeq(q, m + 1, n) \in Seq(D) /\ Len(SubSeq(q, m + 1, n)) = n - m
          /\ \A i \in 1 .. n - m : SubSeq(q, m + 1, n)[i] = q[m + i]
      <3>1. m + 1 \in Int /\ n \in Int /\ \A i \in m + 1 .. n : q[i] \in D
        BY <1>1, <2>2
      <3>2. /\ SubSeq(q, m + 1, n) \in Seq(D)
            /\ Len(SubSeq(q, m + 1, n)) = IF m + 1 <= n THEN n - (m + 1) + 1 ELSE 0
            /\ \A i \in 1 .. n - (m + 1) + 1 : SubSeq(q, m + 1, n)[i] = q[m + 1 + i - 1]
        BY <3>1, SubSeqProperties
      <3>3. n - (m + 1) + 1 = n - m /\ \A i \in Nat : m + 1 + i - 1 = m + i
        BY <1>1, <2>2
      <3> QED
        BY <1>1, <2>2, <3>2, <3>3
    <2>7. /\ r \in Seq(D) /\ Len(r) = n + 1 /\ DOMAIN r = 1 .. n + 1
          /\ \A i \in 1 .. n + 1 :
                r[i] = IF i <= m THEN q[i] ELSE IF i = m + 1 THEN s ELSE q[i - 1]
      <3> DEFINE a == SubSeq(q, 1, m)
                 b == SubSeq(q, m + 1, n)
                 c == a \o <<s>>
      <3>1. <<s>> \in Seq(D) /\ Len(<<s>>) = 1 /\ <<s>>[1] = s
        BY <1>0
      <3> HIDE DEF a, b
      <3>2. c \in Seq(D) /\ Len(c) = m + 1 /\ \A i \in 1 .. m + 1 : c[i] = IF i <= m THEN a[i] ELSE s
        <4>1. /\ c \in Seq(D) /\ Len(c) = m + 1
              /\ \A i \in 1 .. m + 1 : c[i] = IF i <= m THEN a[i] ELSE <<s>>[i - m]
          BY <2>5, <3>1, ConcatProperties DEF a
        <4> QED
          BY <2>2, <3>1, <4>1
      <3> HIDE DEF c
      <3>3. r = c \o b
        BY <2>4 DEF a, b, c
      <3>4. /\ r \in Seq(D) /\ Len(r) = (m + 1) + (n - m)
            /\ \A i \in 1 .. (m + 1) + (n - m) : r[i] = IF i <= m + 1 THEN c[i] ELSE b[i - (m + 1)]
        <4>1. b \in Seq(D) /\ Len(b) = n - m
          BY <2>6 DEF b
        <4>2. /\ c \o b \in Seq(D) /\ Len(c \o b) = Len(c) + Len(b)
              /\ \A i \in 1 .. Len(c) + Len(b) :
                    (c \o b)[i] = IF i <= Len(c) THEN c[i] ELSE b[i - Len(c)]
          BY <3>2, <4>1, ConcatProperties
        <4>3. Len(c) = m + 1 /\ Len(b) = n - m
          BY <3>2, <4>1
        <4> QED
          BY <3>3, <4>2, <4>3, Zenon
      <3>5. Len(r) = n + 1 /\ DOMAIN r = 1 .. n + 1
        BY <1>1, <2>2, <3>4
      <3>6. ASSUME NEW i \in 1 .. n + 1
            PROVE  r[i] = IF i <= m THEN q[i] ELSE IF i = m + 1 THEN s ELSE q[i - 1]
        <4>1. CASE i <= m
          BY <1>1, <2>2, <2>5, <3>2, <3>4, <4>1 DEF a
        <4>2. CASE i = m + 1
          BY <1>1, <2>2, <3>2, <3>4, <4>2
        <4>3. CASE i > m + 1
          <5>1. r[i] = b[i - (m + 1)] /\ i - (m + 1) \in 1 .. n - m /\ m + (i - (m + 1)) = i - 1
            BY <1>1, <2>2, <3>4, <4>3
          <5> QED
            BY <1>1, <2>2, <2>6, <4>3, <5>1 DEF b
        <4> QED
          BY <1>1, <2>2, <4>1, <4>2, <4>3
      <3> QED
        BY <3>4, <3>5, <3>6
    <2>8. \A i \in 1 .. n : (Level[q[i]] <= Level[s]) <=> i <= m
      BY <1>1, <2>2 DEF below
    <2>9. ASSUME NEW i \in 1 .. n + 1, NEW j \in 1 .. n + 1, i < j
          PROVE  r[i] # r[j] /\ Level[r[i]] <= Level[r[j]]
      <3>1. \A l \in 1 .. n : Level[q[l]] \in Nat /\ q[l] # s
        BY <1>0, <1>1, <1>3, LevelsAreNumbers
      <3>2. Level[s] \in Nat
        BY LevelsAreNumbers
      <3>3. \A x, y \in 1 .. n : x < y => q[x] # q[y] /\ Level[q[x]] <= Level[q[y]]
        BY <1>1 DEF Ordered
      <3>4. CASE j <= m
        BY <1>1, <2>2, <2>7, <2>9, <3>3, <3>4
      <3>5. CASE i <= m /\ j = m + 1
        <4>1. r[i] = q[i] /\ r[j] = s /\ i \in 1 .. n
          BY <1>1, <2>2, <2>7, <3>5
        <4> QED
          BY <2>8, <3>1, <3>5, <4>1
      <3>6. CASE i <= m /\ j > m + 1
        <4>1. r[i] = q[i] /\ r[j] = q[j - 1] /\ i \in 1 .. n /\ j - 1 \in 1 .. n /\ i < j - 1
          BY <1>1, <2>2, <2>7, <3>6
        <4> QED
          BY <3>3, <4>1
      <3>7. CASE i = m + 1 /\ j > m + 1
        <4>1. r[i] = s /\ r[j] = q[j - 1] /\ j - 1 \in 1 .. n /\ ~(j - 1 <= m)
          BY <1>1, <2>2, <2>7, <3>7
        <4> QED
          BY <2>8, <3>1, <3>2, <4>1
      <3>8. CASE i > m + 1
        <4>1. r[i] = q[i - 1] /\ r[j] = q[j - 1] /\ i - 1 \in 1 .. n /\ j - 1 \in 1 .. n /\ i - 1 < j - 1
          BY <1>1, <2>2, <2>7, <2>9, <3>8
        <4> QED
          BY <3>3, <4>1
      <3> QED
        BY <1>1, <2>2, <2>9, <3>4, <3>5, <3>6, <3>7, <3>8
    <2>10. Entries(r) = Entries(q) \cup {s}
      <3>1. ASSUME NEW i \in 1 .. n + 1 PROVE r[i] \in Entries(q) \cup {s}
        <4>1. CASE i <= m
          BY <1>1, <2>2, <2>7, <4>1 DEF Entries
        <4>2. CASE i = m + 1
          BY <2>7, <4>2
        <4>3. CASE i > m + 1
          <5>1. r[i] = q[i - 1] /\ i - 1 \in 1 .. n
            BY <1>1, <2>2, <2>7, <4>3
          <5> QED
            BY <1>1, <5>1 DEF Entries
        <4> QED
          BY <1>1, <2>2, <4>1, <4>2, <4>3
      <3>2. ASSUME NEW i \in 1 .. n PROVE q[i] \in Entries(r)
        <4>1. CASE i <= m
          <5>1. r[i] = q[i] /\ i \in 1 .. n + 1
            BY <1>1, <2>2, <2>7, <4>1
          <5> QED
            BY <2>7, <5>1 DEF Entries
        <4>2. CASE i > m
          <5>1. r[i + 1] = q[i] /\ i + 1 \in 1 .. n + 1
            BY <1>1, <2>2, <2>7, <4>2
          <5> QED
            BY <2>7, <5>1 DEF Entries
        <4> QED
          BY <1>1, <2>2, <4>1, <4>2
      <3>3. s \in Entries(r)
        <4>1. m + 1 \in 1 .. n + 1 /\ r[m + 1] = s
          BY <1>1, <2>2, <2>7
        <4> QED
          BY <2>7, <4>1 DEF Entries
      <3> QED
        BY <1>1, <2>7, <3>1, <3>2, <3>3 DEF Entries
    <2> QED
      BY <1>0, <2>7, <2>9, <2>10 DEF r, Ordered
  <1> QED
    BY <1>2, <1>3

\* A drain keeps the latched interrupts of the list, in their order.
LEMMA KeptIsLatched ==
    ASSUME queue \in Seq(DOMAIN Level), Ordered(queue)
    PROVE  /\ Kept \in Seq(DOMAIN Level) /\ Ordered(Kept)
           /\ Entries(Kept) = Entries(queue) \cap ist
  <1> DEFINE n == Len(queue)
             D == DOMAIN Level
             Step(F, m) == IF m = 0 THEN <<>>
                           ELSE IF queue[m] \in ist THEN Append(F[m - 1], queue[m]) ELSE F[m - 1]
             \* Right(F, m): F is the function up to m.
             IsKept(F, m) == F = [i \in 0 .. m |-> Step(F, i)]
             F0 == CHOOSE F : IsKept(F, n)
  <1>0. Kept = F0[n]
    BY DEF Kept
  <1>1. n \in Nat /\ DOMAIN queue = 1 .. n /\ \A i \in 1 .. n : queue[i] \in D
    OBVIOUS
  <1> HIDE DEF D, n
  <1>2. \A m \in 0 .. n : \E F : IsKept(F, m)
    <2> DEFINE Bad == {m \in 0 .. n : ~\E F : IsKept(F, m)}
    <2>1. SUFFICES ASSUME Bad # {} PROVE FALSE
      OBVIOUS
    <2> HIDE DEF Bad
    <2>2. PICK m \in Bad : \A k \in Bad : m <= k
      <3>1. Bad \subseteq Nat
        BY <1>1 DEF Bad
      <3>2. PICK m \in Bad : \A k \in Bad : ~(<<k, m>> \in OpToRel(<, Nat))
        BY <2>1, <3>1, NatLessThanWellFounded, WFMin
      <3>3. \A k \in Bad : ~(k < m)
        BY <3>1, <3>2 DEF OpToRel
      <3> QED
        BY <3>1, <3>3
    <2>3. m \in 0 .. n /\ ~\E F : IsKept(F, m)
      BY <2>2 DEF Bad
    <2>4. CASE m = 0
      <3> DEFINE G == [i \in 0 .. 0 |-> <<>>]
      <3>1. G = [i \in 0 .. 0 |-> Step(G, i)]
        OBVIOUS
      <3> QED
        BY <2>3, <2>4, <3>1
    <2>5. CASE m # 0
      <3>1. m - 1 \in 0 .. n /\ m - 1 \notin Bad
        BY <1>1, <2>2, <2>3, <2>5
      <3>2. PICK F : IsKept(F, m - 1)
        BY <3>1 DEF Bad
      <3> DEFINE last == IF queue[m] \in ist THEN Append(F[m - 1], queue[m]) ELSE F[m - 1]
                 G == [i \in 0 .. m |-> IF i = m THEN last ELSE F[i]]
      <3>3. \A i \in 0 .. m - 1 : F[i] = Step(F, i)
        BY <3>2
      <3>4. ASSUME NEW i \in 0 .. m PROVE G[i] = Step(G, i)
        <4>1. CASE i = m
          <5>1. G[i] = last /\ G[m - 1] = F[m - 1] /\ i # 0
            BY <1>1, <2>3, <2>5, <4>1
          <5> QED
            BY <4>1, <5>1
        <4>2. CASE i # m
          <5>1. i \in 0 .. m - 1 /\ G[i] = F[i] /\ (i # 0 => G[i - 1] = F[i - 1])
            BY <1>1, <2>3, <4>2
          <5> QED
            BY <3>3, <5>1
        <4> QED
          BY <4>1, <4>2
      <3>5. G = [i \in 0 .. m |-> Step(G, i)]
        <4> HIDE DEF Step
        <4> QED
          BY <3>4
      <3> QED
        BY <2>3, <3>5
    <2> QED
      BY <2>4, <2>5
  <1>3. F0 = [i \in 0 .. n |-> Step(F0, i)]
    <2>1. n \in 0 .. n
      BY <1>1
    <2>2. \E F : IsKept(F, n)
      <3> HIDE DEF IsKept
      <3> QED
        BY <1>2, <2>1
    <2> QED
      BY <2>2
  <1> HIDE DEF F0
  <1>4. F0[0] = <<>> /\ \A m \in 1 .. n : F0[m] = IF queue[m] \in ist THEN Append(F0[m - 1], queue[m]) ELSE F0[m - 1]
    <2>1. \A m \in 0 .. n : F0[m] = Step(F0, m)
      <3> HIDE DEF Step
      <3> QED
        BY <1>3
    <2> QED
      BY <1>1, <2>1
  <1> DEFINE Right(m) == /\ F0[m] \in Seq(D) /\ Ordered(F0[m])
                         /\ Entries(F0[m]) = {queue[i] : i \in 1 .. m} \cap ist
  <1>5. Right(0)
    BY <1>4 DEF Ordered, Entries
  <1>6. ASSUME NEW m \in 1 .. n, Right(m - 1) PROVE Right(m)
    <2> DEFINE e == queue[m]
               old == F0[m - 1]
               new == F0[m]
    <2>0. {queue[i] : i \in 1 .. m} = {queue[i] : i \in 1 .. m - 1} \cup {e}
      <3>1. \A i : i \in 1 .. m <=> i \in 1 .. m - 1 \/ i = m
        BY <1>1
      <3> QED
        BY <3>1
    <2>1. CASE e \notin ist
      <3>1. new = old
        BY <1>4, <2>1
      <3> QED
        BY <1>6, <2>0, <2>1, <3>1
    <2>2. CASE e \in ist
      <3>1. new = Append(old, e)
        BY <1>4, <2>2
      <3>2. old \in Seq(D) /\ Ordered(old) /\ Entries(old) = {queue[i] : i \in 1 .. m - 1} \cap ist
        BY <1>6
      <3>3. e \in D
        BY <1>1
      <3> HIDE DEF e, old, new
      <3>4. /\ new \in Seq(D) /\ Len(new) = Len(old) + 1 /\ Len(old) \in Nat
            /\ \A i \in 1 .. Len(old) : new[i] = old[i]
            /\ new[Len(old) + 1] = e
            /\ DOMAIN old = 1 .. Len(old) /\ DOMAIN new = 1 .. Len(old) + 1
        BY <3>1, <3>2, <3>3
      <3>5. Entries(new) = Entries(old) \cup {e}
        <4>1. \A i : i \in 1 .. Len(old) + 1 <=> i \in 1 .. Len(old) \/ i = Len(old) + 1
          BY <3>4
        <4> QED
          BY <3>4, <4>1 DEF Entries
      <3>6. Entries(new) = {queue[i] : i \in 1 .. m} \cap ist
        BY <2>0, <2>2, <3>2, <3>5 DEF e
      <3>7. ASSUME NEW x \in Entries(old) PROVE x # e /\ Level[x] <= Level[e]
        <4>1. PICK i \in 1 .. m - 1 : x = queue[i]
          BY <3>2, <3>7
        <4>2. i \in DOMAIN queue /\ m \in DOMAIN queue /\ i < m
          BY <1>1
        <4> QED
          BY <4>1, <4>2 DEF Ordered, e
      <3>8. Ordered(new)
        <4> SUFFICES ASSUME NEW i \in 1 .. Len(old) + 1, NEW j \in 1 .. Len(old) + 1, i < j
                     PROVE  new[i] # new[j] /\ Level[new[i]] <= Level[new[j]]
          BY <3>4 DEF Ordered
        <4>1. i \in 1 .. Len(old) /\ new[i] = old[i] /\ old[i] \in Entries(old)
          BY <3>4 DEF Entries
        <4>2. CASE j = Len(old) + 1
          BY <3>4, <3>7, <4>1, <4>2
        <4>3. CASE j # Len(old) + 1
          <5>1. j \in 1 .. Len(old) /\ new[j] = old[j]
            BY <3>4, <4>3
          <5> QED
            BY <3>2, <3>4, <4>1, <5>1 DEF Ordered
        <4> QED
          BY <4>2, <4>3
      <3> QED
        BY <3>4, <3>6, <3>8 DEF new
    <2> QED
      BY <2>1, <2>2
  <1> HIDE DEF Right
  <1>7. \A m \in 0 .. n : Right(m)
    <2> DEFINE Bad == {m \in 0 .. n : ~Right(m)}
    <2>1. SUFFICES ASSUME Bad # {} PROVE FALSE
      OBVIOUS
    <2> HIDE DEF Bad
    <2>2. PICK m \in Bad : \A k \in Bad : m <= k
      <3>1. Bad \subseteq Nat
        BY <1>1 DEF Bad
      <3>2. PICK m \in Bad : \A k \in Bad : ~(<<k, m>> \in OpToRel(<, Nat))
        BY <2>1, <3>1, NatLessThanWellFounded, WFMin
      <3>3. \A k \in Bad : ~(k < m)
        BY <3>1, <3>2 DEF OpToRel
      <3> QED
        BY <3>1, <3>3
    <2>3. m \in 0 .. n /\ ~Right(m)
      BY <2>2 DEF Bad
    <2>4. m # 0
      BY <1>5, <2>3
    <2>5. m \in 1 .. n /\ m - 1 \in 0 .. n /\ m - 1 \notin Bad
      BY <1>1, <2>2, <2>3, <2>4
    <2>6. Right(m - 1)
      BY <2>5 DEF Bad
    <2> QED
      BY <1>6, <2>3, <2>5, <2>6
  <1>8. Right(n)
    BY <1>1, <1>7
  <1>9. {queue[i] : i \in 1 .. n} = Entries(queue)
    BY <1>1 DEF Entries
  <1> QED
    BY <1>0, <1>8, <1>9 DEF Right, D

\* Taking one of them off the list.
LEMMA RemoveKeepsOrder ==
    ASSUME NEW q \in Seq(DOMAIN Level), Ordered(q), NEW pr \in DOMAIN q
    PROVE  /\ Without(q, pr) \in Seq(DOMAIN Level) /\ Ordered(Without(q, pr))
           /\ Entries(Without(q, pr)) = Entries(q) \ {q[pr]}
  <1> DEFINE n == Len(q)
             r == Without(q, pr)
             D == DOMAIN Level
             a == SubSeq(q, 1, pr - 1)
             b == SubSeq(q, pr + 1, n)
  <1>1. n \in Nat /\ DOMAIN q = 1 .. n /\ pr \in 1 .. n /\ \A i \in 1 .. n : q[i] \in D
    OBVIOUS
  <1>2. r = a \o b
    BY DEF Without
  <1>3. q \in Seq(D)
    OBVIOUS
  <1> HIDE DEF n, r, D
  <1>4. a \in Seq(D) /\ Len(a) = pr - 1 /\ \A i \in 1 .. pr - 1 : a[i] = q[i]
    <2>1. 1 \in Int /\ pr - 1 \in Int /\ \A i \in 1 .. pr - 1 : q[i] \in D
      BY <1>1
    <2>2. /\ a \in Seq(D) /\ Len(a) = IF 1 <= pr - 1 THEN pr - 1 - 1 + 1 ELSE 0
          /\ \A i \in 1 .. pr - 1 - 1 + 1 : a[i] = q[1 + i - 1]
      BY <2>1, SubSeqProperties
    <2>3. pr - 1 - 1 + 1 = pr - 1 /\ \A i \in Nat : 1 + i - 1 = i
      BY <1>1
    <2> QED
      BY <1>1, <2>2, <2>3
  <1>5. b \in Seq(D) /\ Len(b) = n - pr /\ \A i \in 1 .. n - pr : b[i] = q[pr + i]
    <2>1. pr + 1 \in Int /\ n \in Int /\ \A i \in pr + 1 .. n : q[i] \in D
      BY <1>1
    <2>2. /\ b \in Seq(D) /\ Len(b) = IF pr + 1 <= n THEN n - (pr + 1) + 1 ELSE 0
          /\ \A i \in 1 .. n - (pr + 1) + 1 : b[i] = q[pr + 1 + i - 1]
      BY <2>1, SubSeqProperties
    <2>3. n - (pr + 1) + 1 = n - pr /\ \A i \in Nat : pr + 1 + i - 1 = pr + i
      BY <1>1
    <2>4. Len(b) = n - pr
      BY <1>1, <2>2
    <2>5. ASSUME NEW i \in 1 .. n - pr PROVE b[i] = q[pr + i]
      <3>1. i \in 1 .. n - (pr + 1) + 1 /\ pr + 1 + i - 1 = pr + i
        BY <1>1
      <3>2. b[i] = q[pr + 1 + i - 1]
        BY <2>2, <3>1
      <3> QED
        BY <3>1, <3>2, Zenon
    <2> QED
      BY <2>2, <2>4, <2>5
  <1> HIDE DEF a, b
  <1>6. /\ r \in Seq(D) /\ Len(r) = n - 1 /\ DOMAIN r = 1 .. n - 1
        /\ \A i \in 1 .. n - 1 : r[i] = IF i < pr THEN q[i] ELSE q[i + 1]
    <2>1. /\ a \o b \in Seq(D) /\ Len(a \o b) = Len(a) + Len(b)
          /\ \A i \in 1 .. Len(a) + Len(b) : (a \o b)[i] = IF i <= Len(a) THEN a[i] ELSE b[i - Len(a)]
      BY <1>4, <1>5, ConcatProperties
    <2>2. Len(a) + Len(b) = n - 1
      BY <1>1, <1>4, <1>5
    <2>3. r \in Seq(D) /\ Len(r) = n - 1 /\ DOMAIN r = 1 .. n - 1
      BY <1>2, <2>1, <2>2
    <2>4. ASSUME NEW i \in 1 .. n - 1 PROVE r[i] = IF i < pr THEN q[i] ELSE q[i + 1]
      <3>1. r[i] = IF i <= Len(a) THEN a[i] ELSE b[i - Len(a)]
        BY <1>2, <2>1, <2>2
      <3>2. CASE i < pr
        BY <1>1, <1>4, <3>1, <3>2
      <3>3. CASE ~(i < pr)
        <4>1. i - (pr - 1) \in 1 .. n - pr /\ pr + (i - (pr - 1)) = i + 1 /\ ~(i <= pr - 1)
          BY <1>1, <3>3
        <4> QED
          BY <1>4, <1>5, <3>1, <3>3, <4>1
      <3> QED
        BY <3>2, <3>3
    <2> QED
      BY <2>3, <2>4
  <1>7. ASSUME NEW i \in 1 .. n - 1, NEW j \in 1 .. n - 1, i < j
        PROVE  r[i] # r[j] /\ Level[r[i]] <= Level[r[j]]
    <2>1. PICK x \in 1 .. n, y \in 1 .. n : r[i] = q[x] /\ r[j] = q[y] /\ x < y
      <3> DEFINE At(k) == IF k < pr THEN k ELSE k + 1
      <3>1. At(i) \in 1 .. n /\ At(j) \in 1 .. n /\ At(i) < At(j)
        BY <1>1, <1>7
      <3>2. r[i] = q[At(i)] /\ r[j] = q[At(j)]
        BY <1>6
      <3> QED
        BY <3>1, <3>2
    <2> QED
      BY <1>1, <2>1 DEF Ordered
  <1>8. Entries(r) = Entries(q) \ {q[pr]}
    <2>1. ASSUME NEW i \in 1 .. n - 1 PROVE r[i] \in Entries(q) \ {q[pr]}
      <3>1. PICK x \in 1 .. n : r[i] = q[x] /\ x # pr
        BY <1>1, <1>6
      <3>2. q[x] # q[pr]
        BY <1>1, <3>1 DEF Ordered
      <3> QED
        BY <1>1, <3>1, <3>2 DEF Entries
    <2>2. ASSUME NEW x \in 1 .. n, q[x] # q[pr] PROVE q[x] \in Entries(r)
      <3>1. x # pr
        BY <2>2
      <3>2. PICK i \in 1 .. n - 1 : r[i] = q[x]
        <4>1. CASE x < pr
          BY <1>1, <1>6, <4>1
        <4>2. CASE x > pr
          <5>1. x - 1 \in 1 .. n - 1 /\ ~(x - 1 < pr) /\ (x - 1) + 1 = x
            BY <1>1, <4>2
          <5> QED
            BY <1>6, <5>1
        <4> QED
          BY <1>1, <3>1, <4>1, <4>2
      <3> QED
        BY <1>6, <3>2 DEF Entries
    <2> QED
      BY <1>1, <1>6, <2>1, <2>2 DEF Entries
  <1> QED
    BY <1>6, <1>7, <1>8 DEF r, Ordered, D

\* What a producer has decided to do.
Decisions == {NoIrq} \cup [what : {"list", "deliver"}, irq : DOMAIN Level]

IrqsTyped ==
    /\ ist \subseteq DOMAIN Level
    /\ queue \in Seq(DOMAIN Level)
    /\ sending \in [IrqProducers -> Decisions]

IrqsInv == IrqsTyped /\ OwedIsKept /\ InOrder

LEMMA ListIsOrdered == (InOrder <=> Ordered(queue)) /\ Listed = Entries(queue)
  BY DEF InOrder, Ordered, Listed, Entries

LEMMA IrqsStart == IrqInit => IrqsInv
  <1> SUFFICES ASSUME IrqInit PROVE IrqsInv
    OBVIOUS
  <1>1. IrqsTyped
    BY DEF IrqInit, IrqsTyped, Decisions
  <1>2. OwedIsKept
    BY DEF IrqInit, OwedIsKept
  <1>3. InOrder
    BY DEF IrqInit, InOrder
  <1> QED
    BY <1>1, <1>2, <1>3 DEF IrqsInv

\* What a drain leaves on the list, and what it takes from it.
LEMMA DrainTakesOne ==
    ASSUME IrqsTyped, InOrder, Drain
    PROVE  /\ queue' \in Seq(DOMAIN Level) /\ Ordered(queue')
           /\ \/ /\ Entries(queue') = Listed \cap ist /\ Listed \cap ist \subseteq ims
                 /\ UNCHANGED <<ist, sent, owedIrqs>>
              \/ \E s \in (Listed \cap ist) \ ims :
                    /\ \A r \in (Listed \cap ist) \ ims : Level[r] <= Level[s]
                    /\ Entries(queue') = (Listed \cap ist) \ {s}
                    /\ ist' = ist \ {s} /\ sent' = sent \cup {s} /\ owedIrqs' = owedIrqs \ {s}
  <1> DEFINE q == Kept
  <1>1. q \in Seq(DOMAIN Level) /\ Ordered(q) /\ Entries(q) = Listed \cap ist
    BY KeptIsLatched, ListIsOrdered DEF IrqsTyped
  <1>2. CASE Open(q) = {}
    <2>1. queue' = q /\ UNCHANGED <<ist, sent, owedIrqs>>
      BY <1>2 DEF Drain
    <2>2. Entries(q) \subseteq ims
      BY <1>2 DEF Open, Entries
    <2> QED
      BY <1>1, <2>1, <2>2
  <1>3. CASE Open(q) # {}
    <2> DEFINE i == Chosen(q)
               s == q[i]
    <2>1. i \in Open(q) /\ \A j \in Open(q) : i >= j
      <3>1. Len(q) \in Nat /\ Open(q) \in SUBSET (0 .. Len(q))
        BY <1>1 DEF Open
      <3>2. \E n \in Open(q) : \A m \in Open(q) : m <= n
        BY <1>3, <3>1, GreatestNatural
      <3>3. \E n \in Open(q) : \A m \in Open(q) : n >= m
        BY <3>1, <3>2
      <3> QED
        BY <3>3 DEF Chosen
    <2>2. /\ queue' = Without(q, i) /\ ist' = ist \ {s} /\ sent' = sent \cup {s}
          /\ owedIrqs' = owedIrqs \ {s}
      BY <1>3 DEF Drain
    <2> HIDE DEF q, i
    <2>3. i \in DOMAIN q /\ s \notin ims /\ s \in Entries(q)
      BY <2>1 DEF Open, Entries
    <2>4. /\ queue' \in Seq(DOMAIN Level) /\ Ordered(queue')
          /\ Entries(queue') = Entries(q) \ {s}
      BY <1>1, <2>2, <2>3, RemoveKeepsOrder
    <2>5. ASSUME NEW r \in Entries(q), r \notin ims PROVE Level[r] <= Level[s]
      <3>1. PICK j \in DOMAIN q : r = q[j]
        BY <2>5 DEF Entries
      <3>2. j \in Open(q) /\ i >= j
        BY <2>1, <2>5, <3>1 DEF Open
      <3>3. i \in Nat /\ j \in Nat /\ Level[s] \in Nat
        BY <1>1, <2>3, <3>1, LevelsAreNumbers
      <3>4. CASE i = j
        BY <3>1, <3>3, <3>4
      <3>5. CASE j < i
        BY <1>1, <2>3, <3>1, <3>5 DEF Ordered
      <3> QED
        BY <3>2, <3>3, <3>4, <3>5
    <2> QED
      BY <1>1, <2>2, <2>3, <2>4, <2>5
  <1> QED
    BY <1>2, <1>3

\* Two producers never hold each other's decision, and what one decides is undone by
\* nobody else.
LEMMA IrqsStep == IrqsInv /\ [IrqNext]_irqVars => IrqsInv'
  <1> SUFFICES ASSUME IrqsInv, [IrqNext]_irqVars PROVE IrqsInv'
    OBVIOUS
  <1>0. IrqsTyped /\ OwedIsKept /\ InOrder
    BY DEF IrqsInv
  <1>1. CASE \E pr \in IrqProducers : \E s \in IrqRaises[pr] : RaiseIrq(pr, s)
    <2> PICK pr \in IrqProducers : \E s \in IrqRaises[pr] : RaiseIrq(pr, s)
      BY <1>1
    <2> PICK s \in IrqRaises[pr] : RaiseIrq(pr, s)
      OBVIOUS
    <2> DEFINE new == [what |-> IF s \in ims THEN "list" ELSE "deliver", irq |-> s]
    <2>1. s \in DOMAIN Level
      BY ScuQueueAssumption
    <2>2. /\ sending[pr] = NoIrq /\ sending' = [sending EXCEPT ![pr] = new]
          /\ ist' = (IF s \in ims THEN ist \cup {s} ELSE ist)
          /\ owedIrqs' = owedIrqs \cup {s} /\ queue' = queue
      BY DEF RaiseIrq
    <2>3. new \in Decisions
      BY <2>1 DEF Decisions
    <2>4. sending'[pr] = new /\ \A o \in IrqProducers : o # pr => sending'[o] = sending[o]
      BY <1>0, <2>2 DEF IrqsTyped
    <2>5. IrqsTyped'
      BY <1>0, <2>1, <2>2, <2>3 DEF IrqsTyped
    <2>6. OwedIsKept'
      <3> SUFFICES ASSUME NEW e \in owedIrqs'
                   PROVE  \/ \E o \in IrqProducers : sending'[o] = [what |-> "deliver", irq |-> e]
                          \/ /\ e \in ist'
                             /\ \/ e \in Listed'
                                \/ \E o \in IrqProducers : sending'[o] = [what |-> "list", irq |-> e]
        BY DEF OwedIsKept
      <3>1. CASE e = s
        BY <2>2, <2>4, <3>1
      <3>2. CASE e # s
        <4>1. e \in owedIrqs
          BY <2>2, <3>2
        <4>2. Listed' = Listed /\ ist \subseteq ist'
          BY <2>2 DEF Listed
        <4>3. \A o \in IrqProducers, w \in {"list", "deliver"} :
                 sending[o] = [what |-> w, irq |-> e] => o # pr
          BY <2>2 DEF NoIrq
        <4> QED
          BY <1>0, <2>4, <4>1, <4>2, <4>3 DEF OwedIsKept
      <3> QED
        BY <3>1, <3>2
    <2>7. InOrder'
      BY <1>0, <2>2 DEF InOrder
    <2> QED
      BY <2>5, <2>6, <2>7 DEF IrqsInv
  <1>2. CASE \E pr \in IrqProducers : Send(pr)
    <2> PICK pr \in IrqProducers : Send(pr)
      BY <1>2
    <2> DEFINE s == sending[pr].irq
    <2>1. /\ sending[pr] # NoIrq /\ sending' = [sending EXCEPT ![pr] = NoIrq]
          /\ ist' = ist
          /\ IF sending[pr].what = "deliver"
             THEN sent' = sent \cup {s} /\ owedIrqs' = owedIrqs \ {s} /\ UNCHANGED queue
             ELSE queue' = With(queue, s) /\ UNCHANGED <<sent, owedIrqs>>
      BY DEF Send
    <2>2. s \in DOMAIN Level /\ sending[pr].what \in {"list", "deliver"}
          /\ sending[pr] = [what |-> sending[pr].what, irq |-> s]
      BY <1>0, <2>1 DEF IrqsTyped, Decisions
    <2>3. \A o \in IrqProducers : o # pr => sending'[o] = sending[o]
      BY <1>0, <2>1 DEF IrqsTyped
    <2>4. /\ queue' \in Seq(DOMAIN Level) /\ Ordered(queue') /\ Entries(queue) \subseteq Entries(queue')
          /\ sending[pr].what = "list" => s \in Entries(queue')
      <3>1. queue \in Seq(DOMAIN Level) /\ Ordered(queue)
        BY <1>0, ListIsOrdered DEF IrqsTyped
      <3> HIDE DEF s
      <3>2. /\ With(queue, s) \in Seq(DOMAIN Level) /\ Ordered(With(queue, s))
            /\ Entries(With(queue, s)) = Entries(queue) \cup {s}
        BY <2>2, <3>1, WithKeepsOrder
      <3>3. CASE sending[pr].what = "deliver"
        BY <2>1, <3>1, <3>3
      <3>4. CASE sending[pr].what # "deliver"
        BY <2>1, <3>2, <3>4
      <3> QED
        BY <3>3, <3>4
    <2>5. IrqsTyped'
      BY <1>0, <2>1, <2>4 DEF IrqsTyped, Decisions
    <2>6. OwedIsKept'
      <3> SUFFICES ASSUME NEW e \in owedIrqs'
                   PROVE  \/ \E o \in IrqProducers : sending'[o] = [what |-> "deliver", irq |-> e]
                          \/ /\ e \in ist'
                             /\ \/ e \in Listed'
                                \/ \E o \in IrqProducers : sending'[o] = [what |-> "list", irq |-> e]
        BY DEF OwedIsKept
      <3>1. Listed \subseteq Listed' /\ (sending[pr].what = "list" => s \in Listed')
        BY <2>4 DEF Listed, Entries
      <3>2. e \in owedIrqs /\ ist' = ist
        BY <2>1
      <3>3. CASE \E o \in IrqProducers : sending[o] = [what |-> "deliver", irq |-> e]
        <4> PICK o \in IrqProducers : sending[o] = [what |-> "deliver", irq |-> e]
          BY <3>3
        <4>1. o # pr
          <5>1. CASE o = pr
            <6>1. sending[pr].what = "deliver" /\ s = e
              BY <5>1
            <6>2. e \notin owedIrqs'
              BY <2>1, <6>1
            <6> QED
              BY <6>2
          <5> QED
            BY <5>1
        <4> QED
          BY <2>3, <4>1
      <3>4. CASE e \in ist /\ (e \in Listed \/ \E o \in IrqProducers : sending[o] = [what |-> "list", irq |-> e])
        <4>1. ASSUME NEW o \in IrqProducers, sending[o] = [what |-> "list", irq |-> e]
              PROVE  e \in Listed' \/ sending'[o] = [what |-> "list", irq |-> e]
          <5>1. CASE o = pr
            <6>1. sending[pr].what = "list" /\ s = e
              BY <4>1, <5>1
            <6> QED
              BY <3>1, <6>1
          <5>2. CASE o # pr
            BY <2>3, <4>1, <5>2
          <5> QED
            BY <5>1, <5>2
        <4> QED
          BY <3>1, <3>2, <3>4, <4>1
      <3> QED
        BY <1>0, <3>2, <3>3, <3>4 DEF OwedIsKept
    <2>7. InOrder'
      BY <2>4 DEF InOrder, Ordered
    <2> QED
      BY <2>5, <2>6, <2>7 DEF IrqsInv
  <1>3. CASE Drain
    <2>1. sending' = sending
      BY <1>3 DEF Drain
    <2>2. /\ queue' \in Seq(DOMAIN Level) /\ Ordered(queue')
          /\ \/ Entries(queue') = Listed \cap ist /\ UNCHANGED <<ist, owedIrqs>>
             \/ \E s \in DOMAIN Level : /\ Entries(queue') = (Listed \cap ist) \ {s}
                                        /\ ist' = ist \ {s} /\ owedIrqs' = owedIrqs \ {s}
      <3>1. ist \subseteq DOMAIN Level
        BY <1>0 DEF IrqsTyped
      <3> QED
        BY <1>0, <1>3, <3>1, DrainTakesOne
    <2>3. IrqsTyped'
      BY <1>0, <2>1, <2>2 DEF IrqsTyped
    <2>4. OwedIsKept'
      <3>1. Listed' = Entries(queue')
        BY DEF Listed, Entries
      <3> QED
        BY <1>0, <2>1, <2>2, <3>1 DEF OwedIsKept
    <2>5. InOrder'
      BY <2>2 DEF InOrder, Ordered
    <2> QED
      BY <2>3, <2>4, <2>5 DEF IrqsInv
  <1>4. CASE \/ \E m \in IrqMasks : WriteIms(m)
             \/ \E m \in IrqMasks, half \in {LowByte, DOMAIN Level \ LowByte} : WriteImsByte(half, m)
             \/ WriteAiack
             \/ \E s \in Sources : Accept(s)
             \/ AcceptSlave
             \/ UNCHANGED irqVars
    <2>1. UNCHANGED <<ist, queue, sending, owedIrqs>>
      BY <1>4
      DEF WriteIms, WriteImsByte, WriteAiack, Accept, AcceptSlave,
          irqVars
    <2> QED
      BY <1>0, <2>1 DEF IrqsInv, IrqsTyped, OwedIsKept, InOrder, Listed
  <1>5. CASE \/ \E k \in SUBSET Sources : WriteIst(k)
             \/ \E h \in SUBSET (Sources \ LowByte) : WriteIstByte(h)
    <2>1. UNCHANGED <<queue, sending>>
      BY <1>5 DEF WriteIst, WriteIstByte
    <2>2. ist' \subseteq DOMAIN Level /\ owedIrqs' \subseteq owedIrqs /\ \A s \in owedIrqs' : s \in ist => s \in ist'
      <3>1. CASE \E k \in SUBSET Sources : WriteIst(k)
        BY <1>0, <3>1 DEF WriteIst, IrqsTyped
      <3>2. CASE \E h \in SUBSET (Sources \ LowByte) : WriteIstByte(h)
        <4>1. Sources \subseteq DOMAIN Level
          BY ScuQueueAssumption DEF Sources
        <4>2. PICK h \in SUBSET (Sources \ LowByte) : WriteIstByte(h)
          BY <3>2
        <4>3. ist' = (ist \cap LowByte) \cup h /\ owedIrqs' = owedIrqs \ ((ist \ LowByte) \ h)
          BY <4>2 DEF WriteIstByte
        <4> QED
          BY <1>0, <4>1, <4>3 DEF IrqsTyped
      <3> QED
        BY <1>5, <3>1, <3>2
    <2>3. IrqsTyped' /\ InOrder'
      BY <1>0, <2>1, <2>2 DEF IrqsTyped, InOrder
    <2>4. OwedIsKept'
      BY <1>0, <2>1, <2>2 DEF OwedIsKept, Listed
    <2> QED
      BY <2>3, <2>4 DEF IrqsInv
  <1> QED
    BY <1>1, <1>2, <1>3, <1>4, <1>5 DEF IrqNext

\* What a write delivers.
LEMMA DrainDelivers == IrqsInv /\ [IrqNext]_irqVars => OneHighestPerWrite
  <1> SUFFICES ASSUME IrqsInv, [IrqNext]_irqVars, draining, ~draining' PROVE OneHighestPerWrite
    BY DEF OneHighestPerWrite
  <1> DEFINE q == Listed \cap ist
             gone == {s \in q : ~\E i \in DOMAIN queue' : queue'[i] = s}
  <1>1. Drain
    BY DEF IrqNext, RaiseIrq, Send, WriteIms, WriteIst, WriteAiack,
       WriteImsByte, WriteIstByte,
           Accept, AcceptSlave, Writing, irqVars
  <1>2. gone = q \ Entries(queue')
    BY DEF Entries
  <1>3. \/ Entries(queue') = q /\ q \subseteq ims
        \/ \E s \in q \ ims : /\ \A r \in q \ ims : Level[r] <= Level[s]
                              /\ Entries(queue') = q \ {s} /\ sent' = sent \cup {s}
    BY <1>1, DrainTakesOne DEF IrqsInv
  <1> HIDE DEF q, gone
  <1>4. CASE Entries(queue') = q /\ q \subseteq ims
    <2>1. gone = {}
      BY <1>2, <1>4
    <2>2. Cardinality(gone) = 0
      BY <2>1, FS_EmptySet
    <2> QED
      BY <1>4, <2>1, <2>2 DEF OneHighestPerWrite, q, gone
  <1>5. CASE \E s \in q \ ims : /\ \A r \in q \ ims : Level[r] <= Level[s]
                                /\ Entries(queue') = q \ {s} /\ sent' = sent \cup {s}
    <2> PICK s \in q \ ims : /\ \A r \in q \ ims : Level[r] <= Level[s]
                             /\ Entries(queue') = q \ {s} /\ sent' = sent \cup {s}
      BY <1>5
    <2>1. gone = {s}
      BY <1>2
    <2>2. Cardinality(gone) = 1
      BY <2>1, FS_Singleton
    <2>3. s \in sent' /\ gone # {}
      BY <2>1
    <2> QED
      BY <2>1, <2>2, <2>3 DEF OneHighestPerWrite, q, gone
  <1> QED
    BY <1>3, <1>4, <1>5

=============================================================================
