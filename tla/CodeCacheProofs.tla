--------------------------- MODULE CodeCacheProofs ---------------------------
(***************************************************************************)
(* Proofs about the block cache: its type invariant, the coherence of the  *)
(* cached blocks with the memory for every layout of memories, every chunk *)
(* size and every block length, and that it implements FreshFetch.         *)
(***************************************************************************)
EXTENDS CodeCache, TLAPS

(***************************************************************************)
(* Arithmetic of chunks, segments and mirrors.                             *)
(***************************************************************************)

\* A number lies between two consecutive multiples.
LEMMA Division ==
    ASSUME NEW d \in Nat \ {0}, NEW x \in Nat
    PROVE  /\ x \div d \in Nat /\ x % d \in 0 .. d - 1
           /\ d * (x \div d) <= x /\ x < d * (x \div d) + d
           /\ x = d * (x \div d) + (x % d)
BY SMT

\* The quotient is the only multiple that fits.
LEMMA Quotient ==
    ASSUME NEW d \in Nat \ {0}, NEW q \in Nat, NEW x \in Nat,
           d * q <= x, x < d * q + d
    PROVE  x \div d = q
BY SMT

\* Quotient and remainder are determined by their equation.
LEMMA Remainder ==
    ASSUME NEW d \in Nat \ {0}, NEW q \in Nat, NEW x \in Nat, NEW r \in Nat,
           r < d, x = d * q + r
    PROVE  x % d = r /\ x \div d = q
<1>1. x \div d = q
  BY Quotient
<1>2. x = d * (x \div d) + (x % d) /\ x % d \in Nat
  BY Division
<1> DEFINE k == d * q
           z == x % d
<1>3. k \in Nat /\ z \in Nat /\ x = k + r /\ x = k + z
  BY <1>1, <1>2
<1> HIDE DEF k, z
<1>4. z = r
  BY <1>3
<1> QED BY <1>1, <1>4 DEF z

\* Division keeps the order of numbers.
LEMMA Monotone ==
    ASSUME NEW d \in Nat \ {0}, NEW x \in Nat, NEW y \in Nat, x <= y
    PROVE  x \div d <= y \div d
BY SMT

\* What lies within one chunk length of a start is in the first or last chunk.
LEMMA TwoChunks ==
    ASSUME NEW d \in Nat \ {0}, NEW x \in Nat, NEW y \in Nat, NEW z \in Nat,
           x <= z, z <= y, y <= x + d
    PROVE  z \div d = x \div d \/ z \div d = y \div d
BY SMT

\* A remainder that has room moves with its number.
LEMMA RemainderMoves ==
    ASSUME NEW d \in Nat \ {0}, NEW x \in Nat, NEW i \in Nat, (x % d) + i < d
    PROVE  (x + i) % d = (x % d) + i /\ (x + i) \div d = x \div d
<1>1. /\ x \div d \in Nat /\ x % d \in Nat
      /\ x = d * (x \div d) + (x % d)
  BY Division
<1> DEFINE q == x \div d
           r == x % d
<1>2. x + i = d * q + (r + i) /\ x + i \in Nat
  BY <1>1
<1>3. r + i \in Nat /\ r + i < d /\ q \in Nat
  BY <1>1
<1> HIDE DEF q, r
<1>4. (x + i) % d = r + i /\ (x + i) \div d = q
  BY <1>2, <1>3, Remainder
<1> QED BY <1>4 DEF q, r

-----------------------------------------------------------------------------
(***************************************************************************)
(* Slots and cells.                                                        *)
(***************************************************************************)

\* An address is its segment and its physical part.
LEMMA AddressSplit ==
    ASSUME NEW a \in Nat
    PROVE  /\ Segment(a) \in Nat /\ Physical(a) \in Nat /\ Physical(a) < Phys
           /\ a = Phys * Segment(a) + Physical(a)
<1>1. Phys \in Nat \ {0}
  BY SizesAssumption
<1>2. /\ a \div Phys \in Nat /\ a % Phys \in 0 .. Phys - 1
      /\ a = Phys * (a \div Phys) + (a % Phys)
  BY <1>1, Division
<1> QED BY <1>1, <1>2 DEF Segment, Physical

\* Addresses of one segment are as far apart as their physical parts.
LEMMA SameSegment ==
    ASSUME NEW a \in Nat, NEW k \in Nat, Segment(a + k) = Segment(a), NEW i \in 0 .. k
    PROVE  Segment(a + i) = Segment(a) /\ Physical(a + i) = Physical(a) + i
<1> DEFINE top == Phys * Segment(a)
<1>0. Phys \in Nat /\ Segment(a) \in Nat
  BY AddressSplit, SizesAssumption
<1>1. /\ top \in Nat
      /\ a = top + Physical(a) /\ Physical(a) \in Nat
  <2>1. a = top + Physical(a) /\ Physical(a) \in Nat
    BY AddressSplit
  <2>2. \A x, y \in Nat : x * y \in Nat
    BY SMT
  <2> QED BY <1>0, <2>1, <2>2
<1>2. a + k = top + Physical(a + k) /\ Physical(a + k) \in Nat /\ Physical(a + k) < Phys
  BY AddressSplit
<1>3. Phys \in Nat \ {0} /\ i \in Nat
  BY SizesAssumption
<1> HIDE DEF top
<1>4. Physical(a) + i < Phys
  BY <1>1, <1>2, <1>3
<1> QED BY <1>3, <1>4, RemainderMoves DEF Physical, Segment

\* The slot an address falls in is the one SlotAt finds.
LEMMA SlotAtInside ==
    ASSUME NEW s \in Slots, NEW p \in Nat, Inside(s, p)
    PROVE  Mapped(p) /\ SlotAt(p) = s
<1>1. Mapped(p)
  BY DEF Mapped
<1>2. \A t \in Slots : Inside(t, p) => t = s
  BY SlotsAssumption DEF Inside, SlotType
<1> QED BY <1>1, <1>2 DEF SlotAt, Mapped

\* The slot SlotAt finds holds the address.
LEMMA SlotAtMapped ==
    ASSUME NEW p \in Nat, Mapped(p)
    PROVE  SlotAt(p) \in Slots /\ Inside(SlotAt(p), p)
BY DEF SlotAt, Mapped

\* A cell of a slot is a cell of its first image.
LEMMA SlotCellType ==
    ASSUME NEW s \in Slots, NEW p \in Nat, Inside(s, p), NEW n \in Nat
    PROVE  /\ SlotCell(s, p, n) \in Nat
           /\ SlotCell(s, p, n) \in s.base .. s.base + s.mirror - 1
           /\ Inside(s, SlotCell(s, p, n))
<1>1. /\ s.base \in Nat /\ s.mirror \in Nat \ {0} /\ s.len \in Nat /\ s.mirror <= s.len
  BY SlotsAssumption DEF SlotType
<1>2. p - s.base + n \in Nat
  BY <1>1 DEF Inside
<1>3. (p - s.base + n) % s.mirror \in 0 .. s.mirror - 1
  BY <1>1, <1>2, Division
<1> QED BY <1>1, <1>3 DEF SlotCell, Inside

\* Every access reaches a cell of some memory, or none.
LEMMA CellFromType ==
    ASSUME NEW a \in Nat, NEW n \in Nat
    PROVE  CellFrom(a, n) \in Cells \cup {NoCell}
<1>1. Physical(a) \in Nat /\ Segment(a) \in Nat
  BY SizesAssumption, Division DEF Physical, Segment
<1>2. CASE OnBus(a)
  <2>1. SlotAt(Physical(a)) \in Slots /\ Inside(SlotAt(Physical(a)), Physical(a))
    BY <1>1, <1>2, SlotAtMapped DEF OnBus
  <2>2. SlotCell(SlotAt(Physical(a)), Physical(a), n)
            \in SlotAt(Physical(a)).base .. SlotAt(Physical(a)).base + SlotAt(Physical(a)).mirror - 1
    BY <1>1, <2>1, SlotCellType
  <2>3. CellFrom(a, n) = <<"bus", SlotCell(SlotAt(Physical(a)), Physical(a), n)>>
    BY <1>2 DEF CellFrom
  <2> QED BY <2>1, <2>2, <2>3 DEF Cells, BusCells
<1>3. CASE ~OnBus(a) /\ Segment(a) = 3
  <2>1. (Physical(a) + n) % TagCells \in 0 .. TagCells - 1
    BY <1>1, SizesAssumption, Division
  <2>2. CellFrom(a, n) = <<"tag", (Physical(a) + n) % TagCells>>
    BY <1>3 DEF CellFrom
  <2> QED BY <2>1, <2>2 DEF Cells, TagArray
<1>4. CASE ~OnBus(a) /\ Segment(a) = 6
  <2>1. (Physical(a) + n) % DataCells \in 0 .. DataCells - 1
    BY <1>1, SizesAssumption, Division
  <2>2. CellFrom(a, n) = <<"data", (Physical(a) + n) % DataCells>>
    BY <1>4 DEF CellFrom
  <2> QED BY <2>1, <2>2 DEF Cells, DataArray
<1>5. CASE ~OnBus(a) /\ Segment(a) # 3 /\ Segment(a) # 6
  BY <1>5 DEF CellFrom
<1> QED BY <1>2, <1>3, <1>4, <1>5

\* The instructions of a guarded block stand in consecutive cells of one memory.
LEMMA GuardedCells ==
    ASSUME NEW pc \in Nat, NEW n \in Nat \ {0}, Guarded(pc, n)
    PROVE  \E s \in Slots :
              /\ s.tracked \/ ~s.writable
              /\ Inside(s, Physical(pc)) /\ Inside(s, Canonical(Physical(pc)))
              /\ Canonical(Physical(pc)) \in Nat
              /\ Canonical(Physical(pc)) + n <= s.base + s.mirror
              /\ \A i \in 0 .. n - 1 :
                    /\ OnBus(pc + i) /\ SlotAt(Physical(pc + i)) = s
                    /\ CellFrom(pc + i, 0) = <<"bus", Canonical(Physical(pc)) + i>>
<1>1. PICK s \in Slots :
          /\ s.tracked \/ ~s.writable
          /\ Inside(s, Physical(pc))
          /\ Inside(s, Physical(pc + n - 1))
          /\ ((Physical(pc) - s.base) % s.mirror) + n <= s.mirror
  BY DEF Guarded
<1>2. /\ s.base \in Nat /\ s.mirror \in Nat \ {0} /\ s.len \in Nat /\ s.mirror <= s.len
  BY SlotsAssumption DEF SlotType
<1> DEFINE p == Physical(pc)
           c == Canonical(p)
<1>3. p \in Nat
  BY AddressSplit
<1>4. SlotAt(p) = s /\ Mapped(p)
  BY <1>1, <1>3, SlotAtInside
<1>5. c = s.base + ((p - s.base) % s.mirror)
  BY <1>1, <1>2, <1>3, <1>4 DEF Canonical, SlotCell, Inside
<1>6. c \in Nat /\ Inside(s, c) /\ c + n <= s.base + s.mirror
  <2>1. p - s.base \in Nat
    BY <1>1, <1>2, <1>3 DEF Inside
  <2>2. (p - s.base) % s.mirror \in 0 .. s.mirror - 1
    BY <1>2, <2>1, Division
  <2> QED BY <1>1, <1>2, <1>5, <2>2 DEF Inside
<1>7. ASSUME NEW i \in 0 .. n - 1
      PROVE  /\ OnBus(pc + i) /\ SlotAt(Physical(pc + i)) = s
             /\ CellFrom(pc + i, 0) = <<"bus", c + i>>
  <2>1. Segment(pc + i) = Segment(pc) /\ Physical(pc + i) = p + i
    <3>1. n - 1 \in Nat /\ pc + n - 1 = pc + (n - 1)
      OBVIOUS
    <3>2. Segment(pc + (n - 1)) = Segment(pc)
      BY <3>1 DEF Guarded
    <3> QED BY <3>1, <3>2, SameSegment
  <2>2. Inside(s, p + i)
    <3>1. Physical(pc + n - 1) = p + (n - 1)
      BY SameSegment DEF Guarded
    <3> QED BY <1>1, <1>2, <1>3, <3>1 DEF Inside
  <2>3. Mapped(p + i) /\ SlotAt(p + i) = s
    BY <1>3, <2>2, SlotAtInside
  <2>4. SlotCell(s, p + i, 0) = c + i
    <3> DEFINE o == p - s.base
    <3>1. o \in Nat /\ i \in Nat /\ p + i - s.base + 0 = o + i
      BY <1>1, <1>2, <1>3 DEF Inside
    <3>3. SlotCell(s, p + i, 0) = s.base + ((o + i) % s.mirror)
      BY <1>2, <1>3, <3>1 DEF SlotCell
    <3>5. (o % s.mirror) + i < s.mirror
      BY <1>1, <1>2, <3>1, Division
    <3> HIDE DEF o
    <3>4. o % s.mirror \in Nat
      <4>1. o % s.mirror \in 0 .. s.mirror - 1
        BY <1>2, <3>1, Division
      <4> QED BY <1>2, <4>1
    <3>2. (o + i) % s.mirror = (o % s.mirror) + i
      BY <1>2, <3>1, <3>5, RemainderMoves
    <3>6. c = s.base + (o % s.mirror)
      BY <1>5 DEF o
    <3> QED BY <1>2, <3>1, <3>2, <3>3, <3>4, <3>6
  <2>5. OnBus(pc + i)
    BY <2>1, <2>3 DEF OnBus, Guarded
  <2> QED BY <2>1, <2>3, <2>4, <2>5 DEF CellFrom
<1> QED BY <1>1, <1>6, <1>7

-----------------------------------------------------------------------------
(***************************************************************************)
(* What marking a block and noting a store guarantee.                      *)
(***************************************************************************)

\* Every instruction of a guarded block in a tracked memory is in a marked chunk.
LEMMA MarkCovers ==
    ASSUME NEW c \in Nat, NEW n \in Nat \ {0}, NEW s \in Slots, s.tracked,
           Inside(s, c), c + n <= s.base + s.mirror, NEW i \in 0 .. n - 1
    PROVE  ChunkOf(c + i) \in MarkCode(c, n)
<1>1. Mapped(c) /\ SlotAt(c) = s
  BY SlotAtInside
<1>2. /\ s.base \in Nat /\ s.mirror \in Nat \ {0} /\ ChunkCells \in Nat \ {0}
      /\ c + i \in Nat /\ c + n - 1 \in Nat /\ c <= c + i /\ c + i <= c + n - 1
  BY SlotsAssumption, SizesAssumption DEF SlotType
<1>3. MarkCode(c, n) = ChunkOf(c) .. ChunkOf(c + n - 1)
  BY <1>1, <1>2 DEF MarkCode
<1>4. ChunkOf(c) <= ChunkOf(c + i) /\ ChunkOf(c + i) <= ChunkOf(c + n - 1)
  BY <1>2, Monotone DEF ChunkOf
<1>5. ChunkOf(c) \in Nat /\ ChunkOf(c + i) \in Nat /\ ChunkOf(c + n - 1) \in Nat
  BY <1>2, Division DEF ChunkOf
<1> QED BY <1>3, <1>4, <1>5

\* A chunk marked for a block overlaps it.
LEMMA MarkOverlaps ==
    ASSUME NEW c \in Nat, NEW n \in Nat \ {0}, NEW k \in MarkCode(c, n),
           Mapped(c)
    PROVE  k \in Nat /\ c < (k + 1) * ChunkCells /\ k * ChunkCells < c + n
<1> DEFINE s == SlotAt(c)
           end == s.base + s.mirror - 1
           last == IF c + n - 1 <= end THEN c + n - 1 ELSE end
<1>1. s \in Slots /\ Inside(s, c)
  BY SlotAtMapped
<1>2. s.base \in Nat /\ s.mirror \in Nat \ {0}
  BY <1>1, SlotsAssumption DEF SlotType
<1>3. k \in ChunkOf(c) .. ChunkOf(last)
  BY DEF MarkCode
<1>4. end \in Nat /\ last \in Nat /\ last <= c + n - 1
  BY <1>2
<1> HIDE DEF last, end, s
<1>5. ChunkCells \in Nat \ {0}
  BY SizesAssumption
<1>6. /\ ChunkOf(c) \in Nat /\ ChunkOf(last) \in Nat
      /\ c < ChunkCells * ChunkOf(c) + ChunkCells
      /\ ChunkCells * ChunkOf(last) <= last
  BY <1>4, <1>5, Division DEF ChunkOf
<1>7. /\ k \in Nat /\ ChunkOf(c) <= k /\ k <= ChunkOf(last)
  BY <1>3, <1>6
<1>8. \A x, y, d \in Nat : x <= y => d * x <= d * y /\ d * x \in Nat /\ d * y \in Nat
  BY SMT
<1>9. \A x, d \in Nat : (x + 1) * d = d * x + d /\ x * d = d * x
  BY SMT
<1>10. ChunkCells * ChunkOf(c) <= ChunkCells * k /\ ChunkCells * k <= ChunkCells * ChunkOf(last)
  BY <1>5, <1>6, <1>7, <1>8
<1>11. /\ ChunkCells * ChunkOf(c) \in Nat /\ ChunkCells * k \in Nat
       /\ ChunkCells * ChunkOf(last) \in Nat
  BY <1>5, <1>6, <1>7, <1>8
<1>12. (k + 1) * ChunkCells = ChunkCells * k + ChunkCells /\ k * ChunkCells = ChunkCells * k
  BY <1>5, <1>7, <1>9
<1> HIDE DEF ChunkOf
<1> QED BY <1>4, <1>5, <1>6, <1>7, <1>10, <1>11, <1>12

\* A store changes only cells it reaches, in memories that can be written.
LEMMA StoreChanges ==
    ASSUME NEW a, NEW n, NEW v, NEW m \in [Cells -> Words], NEW c \in Cells,
           StoreAt(m, a, n, v)[c] # m[c]
    PROVE  Takes(a) /\ \E k \in 0 .. n - 1 : CellFrom(a, k) = c
BY DEF StoreAt

\* A store leaves words in every cell.
LEMMA StoreType ==
    ASSUME NEW a, NEW n, NEW v \in Stores(n), NEW m \in [Cells -> Words]
    PROVE  StoreAt(m, a, n, v) \in [Cells -> Words]
<1>1. ASSUME NEW c \in Cells, \E k \in 0 .. n - 1 : CellFrom(a, k) = c
      PROVE  v[CHOOSE k \in 0 .. n - 1 : CellFrom(a, k) = c] \in Words
  BY <1>1 DEF Stores
<1> QED BY <1>1 DEF StoreAt

\* The chunk of every cell a store reaches in a tracked memory is noted.
LEMMA NoteCovers ==
    ASSUME NEW a \in Nat, NEW n \in 1 .. ChunkCells, InBounds(a, n), OnBus(a),
           SlotAt(Physical(a)).tracked, NEW k \in 0 .. n - 1
    PROVE  ChunkOf(SlotCell(SlotAt(Physical(a)), Physical(a), k)) \in NoteWrite(a, n)
<1> DEFINE s == SlotAt(Physical(a))
           o == Physical(a) - s.base
           x == s.base + (o % s.mirror)
<1>1. s \in Slots /\ Inside(s, Physical(a)) /\ Physical(a) \in Nat
  BY SlotAtMapped, AddressSplit DEF OnBus
<1>2. s.base \in Nat /\ s.mirror \in Nat \ {0} /\ ChunkCells \in Nat \ {0}
  BY <1>1, SlotsAssumption, SizesAssumption DEF SlotType
<1>3. o \in Nat /\ (o % s.mirror) + n <= s.mirror
  BY <1>1, <1>2 DEF InBounds, Inside
<1>4. o % s.mirror \in 0 .. s.mirror - 1
  BY <1>2, <1>3, Division
<1>5. ASSUME NEW j \in 0 .. n - 1
      PROVE  SlotCell(s, Physical(a), j) = x + j
  <2>1. j \in Nat /\ (o % s.mirror) + j < s.mirror /\ SlotCell(s, Physical(a), j) = s.base + ((o + j) % s.mirror)
    BY <1>2, <1>3, <1>4 DEF SlotCell
  <2> HIDE DEF o, s
  <2>2. (o + j) % s.mirror = (o % s.mirror) + j
    BY <1>2, <1>3, <2>1, RemainderMoves
  <2> QED BY <1>2, <1>4, <2>1, <2>2
<1>6. /\ x \in Nat /\ x + (n - 1) \in x .. x + ChunkCells /\ x + k \in x .. x + (n - 1)
  BY <1>2, <1>4
<1>7. SlotCell(s, Physical(a), 0) = x /\ SlotCell(s, Physical(a), n - 1) = x + (n - 1)
  <2>1. 0 \in 0 .. n - 1 /\ n - 1 \in 0 .. n - 1 /\ x + 0 = x
    BY <1>6
  <2> HIDE DEF x, s
  <2> QED BY <1>5, <2>1
<1>8. SlotCell(s, Physical(a), k) = x + k
  BY <1>5
<1> HIDE DEF x, o
<1>9. ChunkOf(x + k) = ChunkOf(x) \/ ChunkOf(x + k) = ChunkOf(x + (n - 1))
  <2> DEFINE y == x + (n - 1)
             z == x + k
  <2>1. y \in Nat /\ z \in Nat /\ x <= z /\ z <= y /\ y <= x + ChunkCells
    BY <1>2, <1>6
  <2> HIDE DEF y, z
  <2>2. z \div ChunkCells = x \div ChunkCells \/ z \div ChunkCells = y \div ChunkCells
    BY <1>2, <1>6, <2>1, TwoChunks
  <2> QED BY <2>2 DEF ChunkOf, y, z
<1> QED BY <1>7, <1>8, <1>9 DEF NoteWrite

-----------------------------------------------------------------------------
(***************************************************************************)
(* The type invariant.                                                     *)
(***************************************************************************)

\* A block has at least one instruction and at most one more than MaxBlock.
LEMMA BlockLength ==
    ASSUME NEW ws \in Seq(Words), IsBlock(ws)
    PROVE  Len(ws) \in 1 .. MaxBlock + 1
BY SizesAssumption DEF IsBlock

\* Compiling fetches words.
LEMMA WordsFromType ==
    ASSUME NEW m \in [Cells -> Words], NEW pc \in Nat, NEW n \in Nat
    PROVE  WordsFrom(m, pc, n) \in Seq(Words) /\ Len(WordsFrom(m, pc, n)) = n
<1>1. ASSUME NEW i \in 1 .. n
      PROVE  Fetch(m, pc + i - 1) \in Words
  <2>1. pc + i - 1 \in Nat
    OBVIOUS
  <2>2. CellFrom(pc + i - 1, 0) \in Cells \cup {NoCell}
    BY <2>1, CellFromType
  <2> QED BY <2>2, WordsAssumption DEF Fetch, Words
<1> QED BY <1>1 DEF WordsFrom

\* Canonical addresses are addresses.
LEMMA CanonicalType ==
    ASSUME NEW p \in Nat
    PROVE  Canonical(p) \in Nat
BY SlotAtMapped, SlotCellType DEF Canonical

\* A store keeps the types of what it writes.
LEMMA StoreKeepsTypes ==
    ASSUME NEW a \in StoreAddrs, NEW n \in StoreLens, Store(a, n),
           mem \in [Cells -> Words], marked \subseteq Nat, dirty \subseteq Nat
    PROVE  mem' \in [Cells -> Words] /\ marked' \subseteq Nat /\ dirty' \subseteq Nat
<1>1. PICK v \in Stores(n) : mem' = StoreAt(mem, a, n, v)
  BY DEF Store
<1>2. mem' \in [Cells -> Words]
  BY <1>1, StoreType
<1>3. /\ marked' = marked \ (NoteWrite(a, n) \cap marked)
      /\ dirty' = dirty \cup (NoteWrite(a, n) \cap marked)
  BY DEF Store
<1> QED BY <1>2, <1>3

\* Whatever block is started is a run of its words.
LEMMA RunningType ==
    ASSUME NEW pc \in Nat, NEW b, b.words \in Seq(Words), b.traced \in BOOLEAN
    PROVE  /\ Running(pc, b) \in [pc : Nat, words : Seq(Words), traced : BOOLEAN, done : Nat]
           /\ Running(pc, b).done <= Len(Running(pc, b).words)
<1>1. Len(b.words) \in Nat
  OBVIOUS
<1> QED BY <1>1 DEF Running

\* Power on satisfies the type invariant: no block, no mark, an idle CPU.
LEMMA InitType == Init => TypeOK
<1> SUFFICES ASSUME Init PROVE TypeOK
  OBVIOUS
<1>1. mem \in [Cells -> Words]
  <2>1. PICK rom \in [RomCells -> Words] :
            mem = [c \in Cells |-> IF c \in RomCells THEN rom[c] ELSE OpenWord]
    BY DEF Init, PowerOn
  <2> QED BY <2>1, WordsAssumption DEF Words
<1>2. run \in [pc : Nat, words : Seq(Words), traced : BOOLEAN, done : Nat]
      /\ run.done <= Len(run.words)
  BY DEF Init, Idle
<1> QED BY <1>1, <1>2 DEF Init, TypeOK

\* Every action keeps the type invariant; only a miss files a new block.
LEMMA NextType == TypeOK /\ [Next]_vars => TypeOK'
<1> SUFFICES ASSUME TypeOK, [Next]_vars PROVE TypeOK'
  OBVIOUS
<1>1. ASSUME NEW pc \in CodeAddrs, DispatchHit(pc) PROVE TypeOK'
  <2>1. /\ Survivors \subseteq DOMAIN blocks
        /\ pc \in DOMAIN blocks /\ pc \in Nat
        /\ DOMAIN blocks' = Survivors /\ \A x \in Survivors : blocks'[x] = blocks[x]
    BY <1>1, AccessAssumption DEF DispatchHit, Survivors
  <2>2. run' \in [pc : Nat, words : Seq(Words), traced : BOOLEAN, done : Nat]
        /\ run'.done <= Len(run'.words)
    BY <1>1, <2>1, RunningType DEF DispatchHit, TypeOK
  <2> QED BY <1>1, <2>1, <2>2 DEF DispatchHit, TypeOK
<1>2. ASSUME NEW pc \in CodeAddrs, DispatchMiss(pc) PROVE TypeOK'
  <2>1. PICK n \in 1 .. MaxBlock + 1 :
            LET b == Translation(pc, WordsFrom(mem, pc, n))
            IN  /\ IsBlock(b.words)
                /\ marked' = marked \cup MarkCode(b.canon, n)
                /\ blocks' = [x \in Survivors \cup {pc} |-> IF x = pc THEN b ELSE blocks[x]]
                /\ run' = Running(pc, b)
    BY <1>2 DEF DispatchMiss
  <2> DEFINE b == Translation(pc, WordsFrom(mem, pc, n))
  <2>2. pc \in Nat /\ n \in Nat \ {0}
    BY SizesAssumption, AccessAssumption
  <2>3. /\ b.words \in Seq(Words) /\ b.traced \in BOOLEAN
        /\ b.canon = Canonical(Physical(pc)) /\ b.canon \in Nat
        /\ b \in [words : Seq(Words), canon : Nat, traced : BOOLEAN]
    BY <2>2, WordsFromType, CanonicalType, AddressSplit DEF Translation, TypeOK
  <2>4. run' \in [pc : Nat, words : Seq(Words), traced : BOOLEAN, done : Nat]
        /\ run'.done <= Len(run'.words)
    BY <2>1, <2>2, <2>3, RunningType
  <2>5. MarkCode(b.canon, n) \subseteq Nat
    BY <2>2, <2>3, MarkOverlaps DEF MarkCode
  <2>6. /\ Survivors \subseteq DOMAIN blocks
        /\ DOMAIN blocks' = Survivors \cup {pc}
        /\ \A x \in DOMAIN blocks' : blocks'[x] = IF x = pc THEN b ELSE blocks[x]
    BY <2>1 DEF Survivors
  <2>7. mem' = mem /\ dirty' = {} /\ trace' = trace /\ marked' \subseteq Nat
    BY <1>2, <2>1, <2>5 DEF DispatchMiss, TypeOK
  <2>8. IsBlock(b.words)
    BY <2>1
  <2> HIDE DEF b
  <2> QED BY <2>3, <2>4, <2>6, <2>7, <2>8 DEF TypeOK
<1>3. CASE Execute
  <2>1. mem' \in [Cells -> Words] /\ marked' \subseteq Nat /\ dirty' \subseteq Nat
    BY <1>3, StoreKeepsTypes DEF Execute, TypeOK
  <2>2. run' \in [pc : Nat, words : Seq(Words), traced : BOOLEAN, done : Nat]
        /\ run'.done <= Len(run'.words)
    BY <1>3 DEF Execute, TypeOK
  <2> QED BY <1>3, <2>1, <2>2 DEF Execute, TypeOK
<1>4. CASE Leave
  BY <1>4 DEF Leave, TypeOK, Idle
<1>5. CASE StoreBetweenBlocks
  <2>1. mem' \in [Cells -> Words] /\ marked' \subseteq Nat /\ dirty' \subseteq Nat
    BY <1>5, StoreKeepsTypes DEF StoreBetweenBlocks, TypeOK
  <2> QED BY <1>5, <2>1 DEF StoreBetweenBlocks, TypeOK
<1>6. CASE SetTrace
  BY <1>6 DEF SetTrace, TypeOK
<1>7. CASE UNCHANGED vars
  BY <1>7 DEF vars, TypeOK
<1> QED BY <1>1, <1>2, <1>3, <1>4, <1>5, <1>6, <1>7 DEF Next

\* The cache holds well-formed blocks filed under their own addresses, for every
\* layout of memories and every program of stores.
THEOREM TypeCorrect == Spec => []TypeOK
BY InitType, NextType, PTL DEF Spec

-----------------------------------------------------------------------------
(***************************************************************************)
(* Coherence.  Neither StaleIsQueued nor ChunksWatched is inductive alone: *)
(* a store makes a block stale, and only a watched chunk gets queued.      *)
(***************************************************************************)

\* What a store must not break for a block b of pc.
Coherent(pc, b) ==
    /\ Current(mem, pc, b.words) \/ Overlaps(b, dirty)
    /\ MarkCode(b.canon, Len(b.words)) \subseteq marked \cup dirty

Coherence == StaleIsQueued /\ ChunksWatched

\* The two invariants say that every guarded entry is coherent.
LEMMA CoherenceIsPerEntry ==
    Coherence <=> \A pc \in DOMAIN blocks :
                     Guarded(pc, Len(blocks[pc].words)) => Coherent(pc, blocks[pc])
BY DEF Coherence, Coherent, StaleIsQueued, ChunksWatched

\* A store keeps every guarded block coherent: if it changes an instruction of
\* the block, it notes the chunk of that instruction, which the block watches.
LEMMA StoreKeepsCoherent ==
    ASSUME NEW pc \in Nat, NEW b, b.words \in Seq(Words), IsBlock(b.words),
           b.canon = Canonical(Physical(pc)), Guarded(pc, Len(b.words)),
           mem \in [Cells -> Words], dirty \subseteq Nat, marked \subseteq Nat,
           Coherent(pc, b),
           NEW a \in StoreAddrs, NEW n \in StoreLens, Store(a, n)
    PROVE  /\ Current(mem', pc, b.words) \/ Overlaps(b, dirty')
           /\ MarkCode(b.canon, Len(b.words)) \subseteq marked' \cup dirty'
<1> DEFINE c == Canonical(Physical(pc))
           len == Len(b.words)
<1>1. PICK v \in Stores(n) : mem' = StoreAt(mem, a, n, v)
  BY DEF Store
<1>2. /\ marked' = marked \ (NoteWrite(a, n) \cap marked)
      /\ dirty' = dirty \cup (NoteWrite(a, n) \cap marked)
      /\ InBounds(a, n)
  BY DEF Store
<1>3. MarkCode(c, len) \subseteq marked' \cup dirty'
  BY <1>2 DEF Coherent
<1>4. len \in Nat \ {0} /\ a \in Nat /\ n \in 1 .. ChunkCells /\ c \in Nat
  <2>1. len \in 1 .. MaxBlock + 1 /\ len \in Nat
    BY BlockLength
  <2>2. len \in Nat \ {0}
    BY <2>1
  <2>3. a \in Nat /\ n \in 1 .. ChunkCells
    BY AccessAssumption
  <2>4. c \in Nat
    BY CanonicalType, AddressSplit
  <2> QED BY <2>2, <2>3, <2>4
<1>5. PICK s \in Slots :
              /\ s.tracked \/ ~s.writable
              /\ Inside(s, c)
              /\ c + len <= s.base + s.mirror
              /\ \A i \in 0 .. len - 1 :
                    /\ OnBus(pc + i) /\ SlotAt(Physical(pc + i)) = s
                    /\ CellFrom(pc + i, 0) = <<"bus", c + i>>
  BY <1>4, GuardedCells
<1>6. s.base \in Nat /\ s.len \in Nat /\ s.mirror \in Nat \ {0} /\ s.mirror <= s.len
  BY SlotsAssumption DEF SlotType
<1>7. CASE Overlaps(b, dirty)
  BY <1>2, <1>3, <1>7 DEF Overlaps
<1>8. CASE Current(mem, pc, b.words) /\ \E i \in 1 .. len : b.words[i] # Fetch(mem', pc + i - 1)
  <2>1. PICK j \in 1 .. len : b.words[j] # Fetch(mem', pc + j - 1)
    BY <1>8
  <2> DEFINE i == j - 1
             x == c + i
  <2>2. i \in 0 .. len - 1 /\ x \in Nat /\ pc + j - 1 = pc + i
    BY <1>4
  <2>3. CellFrom(pc + i, 0) = <<"bus", x>>
    BY <1>5, <2>2
  <2>4. Inside(s, x) /\ x \in s.base .. s.base + s.mirror - 1
    <3>1. s.base <= c /\ c + len <= s.base + s.mirror
      BY <1>5 DEF Inside
    <3>2. i \in Nat /\ i < len
      BY <1>4, <2>2
    <3> HIDE DEF len, c, i
    <3>3. s.base <= c + i /\ c + i < s.base + s.mirror /\ c + i \in Int
      BY <1>4, <1>6, <3>1, <3>2
    <3> QED BY <1>6, <3>3 DEF Inside
  <2>5. <<"bus", x>> \in Cells
    BY <2>4 DEF Cells, BusCells
  <2>6. <<"bus", x>> # NoCell
    BY DEF NoCell
  <2>7. StoreAt(mem, a, n, v)[<<"bus", x>>] # mem[<<"bus", x>>]
    BY <1>1, <1>8, <2>1, <2>2, <2>3, <2>6 DEF Current, Fetch
  <2>8. Takes(a) /\ \E k \in 0 .. n - 1 : CellFrom(a, k) = <<"bus", x>>
    BY <2>5, <2>7, StoreChanges
  <2>9. PICK k \in 0 .. n - 1 : CellFrom(a, k) = <<"bus", x>>
    BY <2>8
  <2> DEFINE t == SlotAt(Physical(a))
  <2>10. OnBus(a) /\ x = SlotCell(t, Physical(a), k)
    BY <2>9 DEF CellFrom, NoCell
  <2>11. t \in Slots /\ Inside(t, Physical(a)) /\ Physical(a) \in Nat
    BY <1>4, <2>10, SlotAtMapped, AddressSplit DEF OnBus
  <2>12. Inside(t, x)
    BY <1>4, <2>10, <2>11, SlotCellType
  <2>13. t = s
    BY <2>2, <2>4, <2>11, <2>12, SlotAtInside
  <2>14. t.tracked
    BY <1>5, <2>8, <2>10, <2>13 DEF Takes
  <2>15. ChunkOf(x) \in NoteWrite(a, n)
    BY <1>2, <1>4, <2>10, <2>14, NoteCovers
  <2>16. ChunkOf(x) \in MarkCode(c, len)
    BY <1>4, <1>5, <2>2, <2>13, <2>14, MarkCovers
  <2>17. ChunkOf(x) \in dirty'
    BY <1>2, <1>3, <2>15, <2>16
  <2>18. Mapped(c)
    BY <1>4, <1>5, SlotAtInside
  <2>19. Overlaps(b, dirty')
    BY <1>4, <2>16, <2>17, <2>18, MarkOverlaps DEF Overlaps
  <2> QED BY <1>3, <2>19
<1>9. CASE \A i \in 1 .. len : b.words[i] = Fetch(mem', pc + i - 1)
  BY <1>3, <1>9 DEF Current
<1> QED BY <1>7, <1>8, <1>9 DEF Coherent, Current

\* A block that survives the invalidation is current and fully watched by marks.
LEMMA SurvivorIsCurrent ==
    ASSUME TypeOK, Coherence, NEW pc \in Survivors,
           Guarded(pc, Len(blocks[pc].words))
    PROVE  /\ Current(mem, pc, blocks[pc].words)
           /\ MarkCode(blocks[pc].canon, Len(blocks[pc].words)) \subseteq marked
<1> DEFINE b == blocks[pc]
<1>1. pc \in DOMAIN blocks /\ ~Overlaps(b, dirty) /\ Coherent(pc, b)
  BY CoherenceIsPerEntry DEF Survivors
<1>2. /\ pc \in Nat /\ b.words \in Seq(Words) /\ IsBlock(b.words)
      /\ b.canon = Canonical(Physical(pc)) /\ b.canon \in Nat
  BY <1>1, AccessAssumption DEF TypeOK
<1>3. Len(b.words) \in Nat \ {0}
  <2>1. Len(b.words) \in 1 .. MaxBlock + 1 /\ Len(b.words) \in Nat
    BY <1>2, BlockLength
  <2> QED BY <2>1
<1>4. Mapped(b.canon)
  BY <1>2, <1>3, GuardedCells, SlotAtInside
<1> HIDE DEF b
<1>5. ASSUME NEW k \in MarkCode(b.canon, Len(b.words)), k \in dirty
      PROVE  FALSE
  BY <1>1, <1>2, <1>3, <1>4, <1>5, MarkOverlaps DEF Overlaps
<1> QED BY <1>1, <1>5 DEF Coherent, b

\* A block that was just translated is current and fully watched by marks.
LEMMA TranslationIsCurrent ==
    ASSUME mem \in [Cells -> Words], NEW pc \in Nat, NEW n \in Nat
    PROVE  Current(mem, pc, WordsFrom(mem, pc, n))
<1>1. Len(WordsFrom(mem, pc, n)) = n
  BY WordsFromType
<1> QED BY <1>1 DEF Current, WordsFrom

\* An empty cache is coherent.
LEMMA InitCoherence == Init => Coherence
BY DEF Init, Coherence, StaleIsQueued, ChunksWatched

\* Every action keeps the coherence of the cache: a store queues what it makes
\* stale, a dispatch drops it, and a translation marks what it read.
LEMMA NextCoherence == TypeOK /\ Coherence /\ [Next]_vars => Coherence'
<1> SUFFICES ASSUME TypeOK, Coherence, [Next]_vars,
                    NEW x \in DOMAIN blocks', Guarded(x, Len(blocks'[x].words))
             PROVE  /\ Current(mem', x, blocks'[x].words) \/ Overlaps(blocks'[x], dirty')
                    /\ MarkCode(blocks'[x].canon, Len(blocks'[x].words))
                           \subseteq marked' \cup dirty'
  BY DEF Coherence, StaleIsQueued, ChunksWatched, Current
<1>1. ASSUME NEW pc \in CodeAddrs, DispatchHit(pc)
      PROVE  Current(mem', x, blocks'[x].words)
             /\ MarkCode(blocks'[x].canon, Len(blocks'[x].words)) \subseteq marked'
  <2>1. x \in Survivors /\ blocks'[x] = blocks[x] /\ mem' = mem /\ marked' = marked
    BY <1>1 DEF DispatchHit
  <2>2. Current(mem, x, blocks[x].words)
        /\ MarkCode(blocks[x].canon, Len(blocks[x].words)) \subseteq marked
    BY <2>1, SurvivorIsCurrent
  <2> QED BY <2>1, <2>2 DEF Current
<1>2. ASSUME NEW pc \in CodeAddrs, DispatchMiss(pc)
      PROVE  Current(mem', x, blocks'[x].words)
             /\ MarkCode(blocks'[x].canon, Len(blocks'[x].words)) \subseteq marked'
  <2>1. PICK n \in 1 .. MaxBlock + 1 :
            LET b == Translation(pc, WordsFrom(mem, pc, n))
            IN  /\ IsBlock(b.words)
                /\ marked' = marked \cup MarkCode(b.canon, n)
                /\ blocks' = [y \in Survivors \cup {pc} |-> IF y = pc THEN b ELSE blocks[y]]
                /\ run' = Running(pc, b)
    BY <1>2 DEF DispatchMiss
  <2>2. mem' = mem /\ pc \in Nat /\ n \in Nat
    BY <1>2, AccessAssumption, SizesAssumption DEF DispatchMiss
  <2>3. CASE x = pc
    <3>1. /\ blocks'[x].words = WordsFrom(mem, pc, n)
          /\ MarkCode(blocks'[x].canon, n) \subseteq marked'
      BY <2>1, <2>3 DEF Translation
    <3>2. Len(WordsFrom(mem, pc, n)) = n /\ Current(mem, pc, WordsFrom(mem, pc, n))
      BY <2>2, WordsFromType, TranslationIsCurrent DEF TypeOK
    <3> QED BY <2>2, <2>3, <3>1, <3>2 DEF Current
  <2>4. CASE x # pc
    <3>1. x \in Survivors /\ blocks'[x] = blocks[x] /\ marked \subseteq marked'
      BY <2>1, <2>4
    <3>2. Current(mem, x, blocks[x].words)
          /\ MarkCode(blocks[x].canon, Len(blocks[x].words)) \subseteq marked
      BY <3>1, SurvivorIsCurrent
    <3> QED BY <2>2, <3>1, <3>2 DEF Current
  <2> QED BY <2>3, <2>4
<1>3. ASSUME NEW a \in StoreAddrs, NEW n \in StoreLens, Store(a, n), blocks' = blocks
      PROVE  /\ Current(mem', x, blocks[x].words) \/ Overlaps(blocks[x], dirty')
             /\ MarkCode(blocks[x].canon, Len(blocks[x].words)) \subseteq marked' \cup dirty'
  <2>1. Coherent(x, blocks[x])
    BY <1>3, CoherenceIsPerEntry
  <2>2. /\ x \in Nat /\ blocks[x].words \in Seq(Words) /\ IsBlock(blocks[x].words)
        /\ blocks[x].canon = Canonical(Physical(x))
        /\ mem \in [Cells -> Words] /\ dirty \subseteq Nat /\ marked \subseteq Nat
        /\ Guarded(x, Len(blocks[x].words))
    BY <1>3, AccessAssumption DEF TypeOK
  <2>3. /\ Current(mem', x, blocks[x].words) \/ Overlaps(blocks[x], dirty')
        /\ MarkCode(blocks[x].canon, Len(blocks[x].words)) \subseteq marked' \cup dirty'
    <3> DEFINE b == blocks[x]
    <3>1. Coherent(x, b) /\ b.words \in Seq(Words) /\ IsBlock(b.words)
          /\ b.canon = Canonical(Physical(x)) /\ Guarded(x, Len(b.words))
      BY <2>1, <2>2
    <3>2. b' = b
      BY <1>3
    <3> QED BY <1>3, <2>2, <3>1, <3>2, StoreKeepsCoherent DEF Current
  <2> QED BY <2>3
<1>4. ASSUME UNCHANGED <<mem, marked, dirty, blocks>>
      PROVE  Current(mem', x, blocks[x].words) \/ Overlaps(blocks[x], dirty')
  BY <1>4, CoherenceIsPerEntry DEF Coherent, Current
<1>5. ASSUME UNCHANGED <<mem, marked, dirty, blocks>>
      PROVE  MarkCode(blocks[x].canon, Len(blocks[x].words)) \subseteq marked' \cup dirty'
  BY <1>5, CoherenceIsPerEntry DEF Coherent
<1>6. CASE Execute
  BY <1>3, <1>4, <1>5, <1>6 DEF Execute, Current
<1>7. CASE Leave
  BY <1>4, <1>5, <1>7 DEF Leave, Current
<1>8. CASE StoreBetweenBlocks
  BY <1>3, <1>8 DEF StoreBetweenBlocks, Current
<1>9. CASE SetTrace
  BY <1>9 DEF SetTrace
<1>10. CASE UNCHANGED vars
  BY <1>4, <1>5, <1>10 DEF vars, Current
<1> QED BY <1>1, <1>2, <1>6, <1>7, <1>8, <1>9, <1>10 DEF Next

\* No stale block of a guarded place is ever outside the queue of dirty chunks.
THEOREM StaleBlocksAreQueued == Spec => []StaleIsQueued
<1>1. Spec => []Coherence
  BY InitCoherence, NextCoherence, TypeCorrect, PTL DEF Spec
<1>2. Coherence => StaleIsQueued
  BY DEF Coherence
<1> QED BY <1>1, <1>2, PTL

\* Every chunk of a cached block of a guarded place keeps its bit or is queued.
THEOREM BlocksAreWatched == Spec => []ChunksWatched
<1>1. Spec => []Coherence
  BY InitCoherence, NextCoherence, TypeCorrect, PTL DEF Spec
<1>2. Coherence => ChunksWatched
  BY DEF Coherence
<1> QED BY <1>1, <1>2, PTL

\* Changing the trace mode leaves no block of the other mode behind.
THEOREM TraceUniform == Spec => []TraceModeIsUniform
<1>1. Init => TraceModeIsUniform
  BY DEF Init, TraceModeIsUniform
<1>2. TypeOK /\ TraceModeIsUniform /\ [Next]_vars => TraceModeIsUniform'
  <2> SUFFICES ASSUME TraceModeIsUniform, [Next]_vars PROVE TraceModeIsUniform'
    OBVIOUS
  <2>1. ASSUME NEW pc \in CodeAddrs, DispatchHit(pc) PROVE TraceModeIsUniform'
    BY <2>1 DEF DispatchHit, Survivors, TraceModeIsUniform
  <2>2. ASSUME NEW pc \in CodeAddrs, DispatchMiss(pc) PROVE TraceModeIsUniform'
    BY <2>2 DEF DispatchMiss, Survivors, Translation, TraceModeIsUniform
  <2>3. ASSUME UNCHANGED <<blocks, trace>> PROVE TraceModeIsUniform'
    BY <2>3 DEF TraceModeIsUniform
  <2>4. CASE SetTrace
    BY <2>4 DEF SetTrace, TraceModeIsUniform
  <2>5. Execute \/ Leave \/ StoreBetweenBlocks \/ UNCHANGED vars => UNCHANGED <<blocks, trace>>
    BY DEF Execute, Leave, StoreBetweenBlocks, vars
  <2> QED BY <2>1, <2>2, <2>3, <2>4, <2>5 DEF Next
<1> QED BY <1>1, <1>2, TypeCorrect, PTL DEF Spec

-----------------------------------------------------------------------------
(***************************************************************************)
(* The dispatch runs current code, and so the cache is invisible.          *)
(***************************************************************************)

\* Whichever way a block is entered, it is a well-formed block, of the mode in
\* force, and current when its place is guarded.
LEMMA DispatchIsFresh ==
    ASSUME TypeOK, Coherence, TraceModeIsUniform,
           NEW pc \in CodeAddrs, DispatchHit(pc) \/ DispatchMiss(pc)
    PROVE  \E ws \in Seq(Words) :
              /\ IsBlock(ws)
              /\ run' = [pc |-> pc, words |-> ws, traced |-> trace, done |-> 0]
              /\ Guarded(pc, Len(ws)) => Current(mem, pc, ws)
<1>1. CASE DispatchHit(pc)
  <2>1. pc \in Survivors /\ pc \in DOMAIN blocks /\ run' = Running(pc, blocks[pc])
    BY <1>1 DEF DispatchHit, Survivors
  <2>2. blocks[pc].words \in Seq(Words) /\ IsBlock(blocks[pc].words)
        /\ blocks[pc].traced = trace
    BY <2>1 DEF TypeOK, TraceModeIsUniform
  <2> QED BY <2>1, <2>2, SurvivorIsCurrent DEF Running
<1>2. CASE DispatchMiss(pc)
  <2>1. PICK n \in 1 .. MaxBlock + 1 :
            LET b == Translation(pc, WordsFrom(mem, pc, n))
            IN  IsBlock(b.words) /\ run' = Running(pc, b)
    BY <1>2 DEF DispatchMiss
  <2>2. pc \in Nat /\ n \in Nat
    BY AccessAssumption, SizesAssumption
  <2>3. WordsFrom(mem, pc, n) \in Seq(Words) /\ Current(mem, pc, WordsFrom(mem, pc, n))
    BY <2>2, WordsFromType, TranslationIsCurrent DEF TypeOK
  <2> QED BY <2>1, <2>3 DEF Running, Translation
<1> QED BY <1>1, <1>2

\* Entering a block of a guarded place runs what the memory holds, always.
THEOREM EntersCurrent == Spec => EntersCurrentCode
<1>1. TypeOK /\ Coherence /\ TraceModeIsUniform /\ [Next]_vars
        => [run = Idle /\ run' # Idle /\ Guarded(run'.pc, Len(run'.words))
              => Current(mem, run'.pc, run'.words)]_vars
  <2> SUFFICES ASSUME TypeOK, Coherence, TraceModeIsUniform, Next,
                      run = Idle, run' # Idle, Guarded(run'.pc, Len(run'.words))
               PROVE  Current(mem, run'.pc, run'.words)
    OBVIOUS
  <2>1. PICK pc \in CodeAddrs : DispatchHit(pc) \/ DispatchMiss(pc)
    BY DEF Next, Execute, Leave, StoreBetweenBlocks, SetTrace
  <2> QED BY <2>1, DispatchIsFresh
<1>2. Spec => []Coherence
  BY InitCoherence, NextCoherence, TypeCorrect, PTL DEF Spec
<1> QED BY <1>1, <1>2, TypeCorrect, TraceUniform, PTL DEF Spec, EntersCurrentCode

\* FreshFetch speaks of the same memory and the same blocks.
LEMMA SameMemory ==
    /\ Fresh!Cells = Cells
    /\ Fresh!Words = Words
    /\ Fresh!PowerOn = PowerOn
    /\ Fresh!Idle = Idle
    /\ \A ws : Fresh!IsBlock(ws) = IsBlock(ws)
    /\ \A m, pc, n : Fresh!WordsFrom(m, pc, n) = WordsFrom(m, pc, n)
<1>1. Fresh!Cells = Cells
  BY DEF Fresh!Cells, Cells, Fresh!BusCells, BusCells, Fresh!TagArray, TagArray,
         Fresh!DataArray, DataArray
<1>2. Fresh!Words = Words
  BY DEF Fresh!Words, Words
<1>3. Fresh!PowerOn = PowerOn
  BY <1>1, <1>2 DEF Fresh!PowerOn, PowerOn, Fresh!RomCells, RomCells
<1>4. Fresh!Idle = Idle
  BY DEF Fresh!Idle, Idle
<1>5. \A ws : Fresh!IsBlock(ws) = IsBlock(ws)
  BY DEF Fresh!IsBlock, IsBlock
<1>6. \A m, a : Fresh!Fetch(m, a) = Fetch(m, a)
  BY DEF Fresh!Fetch, Fetch, Fresh!CellFrom, CellFrom, Fresh!OnBus, OnBus,
         Fresh!Segment, Segment, Fresh!Physical, Physical, Fresh!BusSegments, BusSegments,
         Fresh!Mapped, Mapped, Fresh!SlotAt, SlotAt, Fresh!Inside, Inside,
         Fresh!SlotCell, SlotCell, Fresh!NoCell, NoCell
<1>7. \A m, pc, n : Fresh!WordsFrom(m, pc, n) = WordsFrom(m, pc, n)
  BY <1>6 DEF Fresh!WordsFrom, WordsFrom
<1> QED BY <1>1, <1>2, <1>3, <1>4, <1>5, <1>7

\* When all code is guarded, the machine with the block cache is a machine that
\* translates every block anew: the cache is invisible.
THEOREM CacheIsInvisible == ASSUME GuardedCode PROVE Spec => ImplementsFreshFetch
<1>1. Init => Fresh!Init
  BY SameMemory DEF Init, Fresh!Init
<1>2. TypeOK /\ Coherence /\ TraceModeIsUniform /\ [Next]_vars => [Fresh!Next]_(Fresh!vars)
  <2> SUFFICES ASSUME TypeOK, Coherence, TraceModeIsUniform, [Next]_vars
               PROVE  [Fresh!Next]_(Fresh!vars)
    OBVIOUS
  <2>1. ASSUME NEW pc \in CodeAddrs, DispatchHit(pc) \/ DispatchMiss(pc)
        PROVE  Fresh!Enter(pc)
    <3>1. PICK ws \in Seq(Words) :
              /\ IsBlock(ws)
              /\ run' = [pc |-> pc, words |-> ws, traced |-> trace, done |-> 0]
              /\ Guarded(pc, Len(ws)) => Current(mem, pc, ws)
      BY <2>1, DispatchIsFresh
    <3>2. Len(ws) \in 1 .. MaxBlock + 1 /\ Len(ws) \in Nat
      BY <3>1, BlockLength
    <3>3. Current(mem, pc, ws)
      BY <3>1, <3>2 DEF GuardedCode
    <3>4. ws = WordsFrom(mem, pc, Len(ws))
      BY <3>2, <3>3 DEF WordsFrom, Current
    <3>5. run = Idle /\ UNCHANGED <<mem, trace>>
      BY <2>1 DEF DispatchHit, DispatchMiss
    <3> QED BY <3>1, <3>2, <3>4, <3>5, SameMemory DEF Fresh!Enter
  <2>2. ASSUME Execute PROVE Fresh!Execute
    <3>1. mem' \in [Cells -> Words]
      BY <2>2, StoreKeepsTypes DEF Execute, TypeOK
    <3> QED BY <2>2, <3>1, SameMemory DEF Execute, Fresh!Execute
  <2>3. ASSUME Leave PROVE Fresh!Leave
    BY <2>3, SameMemory DEF Leave, Fresh!Leave
  <2>4. ASSUME StoreBetweenBlocks PROVE Fresh!StoreBetweenBlocks
    <3>1. mem' \in [Cells -> Words]
      BY <2>4, StoreKeepsTypes DEF StoreBetweenBlocks, TypeOK
    <3> QED BY <2>4, <3>1, SameMemory DEF StoreBetweenBlocks, Fresh!StoreBetweenBlocks
  <2>5. ASSUME SetTrace PROVE Fresh!SetTrace
    BY <2>5, SameMemory DEF SetTrace, Fresh!SetTrace
  <2>6. ASSUME UNCHANGED vars PROVE UNCHANGED Fresh!vars
    BY <2>6 DEF vars, Fresh!vars
  <2> QED BY <2>1, <2>2, <2>3, <2>4, <2>5, <2>6 DEF Next, Fresh!Next
<1>3. Spec => []Coherence
  BY InitCoherence, NextCoherence, TypeCorrect, PTL DEF Spec
<1> QED BY <1>1, <1>2, <1>3, TypeCorrect, TraceUniform, PTL
       DEF Spec, ImplementsFreshFetch, Fresh!Spec

=============================================================================
