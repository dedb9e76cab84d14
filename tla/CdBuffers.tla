----------------------------- MODULE CdBuffers ------------------------------
(***************************************************************************)
(* The sector buffers of the CD block of the first emulator (archived      *)
(* cs2.rs): a pool of blocks, the partitions that hold them in order, and  *)
(* the transfer port through which the host reads sectors out or puts      *)
(* sectors in, one longword at a time. Two actors change the pool.         *)
(* The drive stores the sector it just read, on Core 7 (step_playback); the*)
(* host issues commands and uses the port. Every one of these runs under   *)
(* the lock of the CD block, so each is one action here; what interleaves  *)
(* is the drive between two commands or two longwords of the host. Sectors *)
(* are 2048, 2336 or 2352 bytes in the code; a size here is the number of  *)
(* longwords, from the small set SectorSizes. A partition's `size`, a sum  *)
(* of bytes, is kept as "is it not zero". Contents of sectors, and a read  *)
(* of the port during a put, are left out.                                 *)
(***************************************************************************)
EXTENDS Integers, WellFoundedInduction, FiniteSetTheorems, SequenceTheorems, TLAPS

CONSTANTS
    MAX_BLOCKS,       \* blocks of the pool (200 in the code)
    Partitions,       \* partitions (24 in the code)
    SectorSizes,      \* sector lengths, in longwords
    MaxCount,         \* largest sector count a command asks for
    AbandonsPuts      \* TRUE: the host may drop a put before its last longword

VARIABLES
    used,             \* the blocks whose `used` is set
    blockfreespace,   \* the count the host is told
    isbufferfull,
    partition,        \* each partition's `blocks`
    numblocks,        \* each partition's `numblocks`
    sized,            \* whether each partition's `size` is not zero
    condtrue,         \* partition of the filter the drive is connected to
    sectsize,         \* the get and put lengths of SET SECTOR LENGTH
    transfer,         \* the transfer in progress
    put_block_idx,    \* the block a put is filling
    delivered         \* history: longwords read of the sector under the port

BuffersAssumption ==
    /\ MAX_BLOCKS \in Nat \ {0}
    /\ SectorSizes \subseteq (Nat \ {0}) /\ SectorSizes # {}
    /\ MaxCount \in Nat
    /\ AbandonsPuts \in BOOLEAN

Blocks == 0 .. MAX_BLOCKS - 1

NoBlock == MAX_BLOCKS

Members(list) == {list[i] : i \in DOMAIN list}

Lesser(m, n) == IF m <= n THEN m ELSE n

NoPartition == "none"

vars == <<used, blockfreespace, isbufferfull, partition, numblocks, sized,
          condtrue, sectsize, transfer, put_block_idx, delivered>>

pool == <<used, blockfreespace, isbufferfull>>

lists == <<partition, numblocks, sized>>

Idle == [type |-> "Idle"]

Getting == transfer.type \in {"GetSector", "GetDeleteSector"}

Putting == transfer.type = "PutSector"

\* The host waits for its put to end, or finds the port without a block.
MayDropPut == AbandonsPuts \/ ~Putting \/ put_block_idx = NoBlock

\* The host leaves the partition it is reading from alone.
MayRemoveFrom(p) == Getting => transfer.part # p

-----------------------------------------------------------------------------
(* allocate_block and free_block, on a record of the three fields *)

Pool == [used |-> used, free |-> blockfreespace, full |-> isbufferfull]

PoolIs(s) ==
    /\ used' = s.used
    /\ blockfreespace' = s.free
    /\ isbufferfull' = s.full

\* The block allocate_block returns: none when the count says none is left.
Allocated(s) ==
    IF s.free = 0 \/ s.used = Blocks THEN NoBlock
    ELSE CHOOSE b \in Blocks \ s.used : \A c \in Blocks \ s.used : b <= c

AfterAllocate(s) ==
    IF s.free = 0 THEN [s EXCEPT !.full = TRUE]
    ELSE IF s.used = Blocks THEN s
    ELSE [s EXCEPT !.used = @ \union {Allocated(s)}, !.free = @ - 1]

\* Mutant: the block is released and the count is not.
FreeForgetsCount(s, blocks) == [s EXCEPT !.used = @ \ Members(blocks)]

\* free_block of every block of a sequence.
AfterFree(s, blocks) ==
    LET freed == Members(blocks) \intersect s.used IN
    [s EXCEPT !.used = @ \ freed, !.free = Lesser(@ + Cardinality(freed), MAX_BLOCKS)]

SetPartition(p, blocks) ==
    /\ partition' = [partition EXCEPT ![p] = blocks]
    /\ numblocks' = [numblocks EXCEPT ![p] = Len(blocks)]

Init ==
    /\ used = {}
    /\ blockfreespace = MAX_BLOCKS
    /\ isbufferfull = FALSE
    /\ partition = [p \in Partitions |-> <<>>]
    /\ numblocks = [p \in Partitions |-> 0]
    /\ sized = [p \in Partitions |-> FALSE]
    /\ condtrue = NoPartition
    /\ \E n \in SectorSizes : sectsize = [get |-> n, put |-> n]
    /\ transfer = Idle
    /\ put_block_idx = NoBlock
    /\ delivered = 0

-----------------------------------------------------------------------------
(* The drive *)

\* process_filtered_sector: the sector goes to the partition of the filter's
\* true branch, if there is a block for it.
StoreSector ==
    /\ condtrue # NoPartition
    /\ PoolIs(AfterAllocate(Pool))
    /\ IF Allocated(Pool) = NoBlock
       THEN UNCHANGED lists
       ELSE /\ SetPartition(condtrue, Append(partition[condtrue], Allocated(Pool)))
            /\ sized' = [sized EXCEPT ![condtrue] = TRUE]
    /\ UNCHANGED <<condtrue, sectsize, transfer, put_block_idx, delivered>>

-----------------------------------------------------------------------------
(* Commands of the host *)

\* Initialize CD System with the flag that clears the buffers.
InitializeSystem ==
    /\ MayDropPut
    /\ ~Getting
    /\ used' = {}
    /\ blockfreespace' = MAX_BLOCKS
    /\ partition' = [p \in Partitions |-> <<>>]
    /\ numblocks' = [p \in Partitions |-> 0]
    /\ sized' = [p \in Partitions |-> FALSE]
    /\ UNCHANGED <<isbufferfull, condtrue, sectsize, transfer, put_block_idx, delivered>>

EndDataTransfer ==
    /\ MayDropPut
    /\ transfer # Idle
    /\ transfer' = Idle
    /\ delivered' = 0
    /\ UNCHANGED <<pool, lists, condtrue, sectsize, put_block_idx>>

SetFilterConnection ==
    /\ \E p \in Partitions \union {NoPartition} : condtrue' = p
    /\ UNCHANGED <<pool, lists, sectsize, transfer, put_block_idx, delivered>>

\* Reset Selector: the filters, the blocks of one partition, or both.
ResetSelector ==
    \E filters, buffers \in BOOLEAN, p \in Partitions :
        /\ condtrue' = IF filters THEN NoPartition ELSE condtrue
        /\ IF buffers
           THEN /\ MayRemoveFrom(p)
                /\ PoolIs(AfterFree(Pool, partition[p]))
                /\ SetPartition(p, <<>>)
                /\ sized' = [sized EXCEPT ![p] = FALSE]
           ELSE UNCHANGED <<pool, lists>>
        /\ UNCHANGED <<sectsize, transfer, put_block_idx, delivered>>

SetSectorLength ==
    /\ \E g, n \in SectorSizes : sectsize' = [get |-> g, put |-> n]
    /\ UNCHANGED <<pool, lists, condtrue, transfer, put_block_idx, delivered>>

CalculateActualSize ==
    /\ \E p \in Partitions : sized' = [sized EXCEPT ![p] = partition[p] # <<>>]
    /\ UNCHANGED <<pool, partition, numblocks, condtrue, sectsize, transfer, put_block_idx, delivered>>

\* Delete Sector Data takes sectors from the front, whatever the offset says.
DeleteSectorData ==
    \E p \in Partitions, count \in 0 .. MaxCount :
        LET n == Lesser(count, Len(partition[p])) IN
        /\ MayRemoveFrom(p)
        /\ SetPartition(p, SubSeq(partition[p], n + 1, Len(partition[p])))
        /\ PoolIs(AfterFree(Pool, SubSeq(partition[p], 1, n)))
        /\ UNCHANGED <<sized, condtrue, sectsize, transfer, put_block_idx, delivered>>

\* Get, and get then delete: setup_get_sector_data.
GetSectorData ==
    \E p \in Partitions, kind \in {"GetSector", "GetDeleteSector"},
       offset \in 0 .. MaxCount, count \in 0 .. MaxCount :
        /\ MayDropPut
        /\ partition[p] # <<>>
        /\ transfer' = [type |-> kind, part |-> p, sectoffset |-> 0,
                        sectsize |-> sectsize.get,
                        block |-> Lesser(offset, Len(partition[p])),
                        left |-> count * sectsize.get]
        /\ delivered' = 0
        /\ UNCHANGED <<pool, lists, condtrue, sectsize, put_block_idx>>

PutSectorData ==
    \E p \in Partitions, count \in 0 .. MaxCount :
        /\ MayDropPut
        /\ transfer' = [type |-> "PutSector", part |-> p, written |-> 0,
                        sectsize |-> sectsize.put, left |-> count * sectsize.put]
        /\ put_block_idx' = Allocated(Pool)
        /\ PoolIs(AfterAllocate(Pool))
        /\ delivered' = 0
        /\ UNCHANGED <<lists, condtrue, sectsize>>

\* Copy Sector Data: one new block for each sector, until none is left.
Copies[n \in 0 .. MaxCount] ==
    IF n = 0 THEN [pool |-> Pool, new |-> <<>>]
    ELSE LET before == Copies[n - 1] IN
         [pool |-> AfterAllocate(before.pool),
          new |-> IF Allocated(before.pool) = NoBlock THEN before.new
                  ELSE Append(before.new, Allocated(before.pool))]

CopySectorData ==
    \E src, dst \in Partitions, count \in 0 .. MaxCount :
        LET n == Lesser(count, Len(partition[src])) IN
        /\ PoolIs(Copies[n].pool)
        /\ SetPartition(dst, partition[dst] \o Copies[n].new)
        /\ UNCHANGED <<sized, condtrue, sectsize, transfer, put_block_idx, delivered>>

\* Move Sector Data: the sectors at the front of one list go to the end of
\* the other, which may be the same list.
MoveSectorData ==
    \E src, dst \in Partitions, count \in 0 .. MaxCount :
        LET n == Lesser(count, Len(partition[src]))
            moved == SubSeq(partition[src], 1, n)
            rest == SubSeq(partition[src], n + 1, Len(partition[src])) IN
        /\ MayRemoveFrom(src)
        /\ partition' =
              IF src = dst THEN [partition EXCEPT ![src] = rest \o moved]
              ELSE [partition EXCEPT ![src] = rest, ![dst] = @ \o moved]
        /\ numblocks' = [p \in Partitions |->
              IF p \in {src, dst} THEN Len(partition'[p]) ELSE numblocks[p]]
        /\ UNCHANGED <<pool, sized, condtrue, sectsize, transfer, put_block_idx, delivered>>

-----------------------------------------------------------------------------
(* The transfer port *)

\* A read with the index past the end only ends the transfer.
ReadPastEnd ==
    /\ Getting
    /\ transfer.block >= Len(partition[transfer.part])
    /\ transfer' = Idle
    /\ delivered' = 0
    /\ UNCHANGED <<pool, lists, condtrue, sectsize, put_block_idx>>

\* The list after the longword: the sector just finished leaves it when the
\* transfer deletes.
ListAfterRead(list, finished) ==
    IF finished /\ transfer.type = "GetDeleteSector"
    THEN SubSeq(list, 1, transfer.block) \o SubSeq(list, transfer.block + 2, Len(list))
    ELSE list

ReadLong ==
    /\ Getting
    /\ transfer.block < Len(partition[transfer.part])
    /\ LET p == transfer.part
           finished == transfer.sectoffset + 1 >= transfer.sectsize
           list == ListAfterRead(partition[p], finished)
           next == IF finished /\ transfer.type = "GetSector"
                   THEN transfer.block + 1 ELSE transfer.block
           left == IF transfer.left = 0 THEN 0 ELSE transfer.left - 1
       IN
       /\ SetPartition(p, list)
       /\ PoolIs(IF finished /\ transfer.type = "GetDeleteSector"
                 THEN AfterFree(Pool, <<partition[p][transfer.block + 1]>>)
                 ELSE Pool)
       /\ transfer' = IF left = 0 \/ next >= Len(list) THEN Idle
                      ELSE [transfer EXCEPT
                               !.sectoffset = IF finished THEN 0 ELSE @ + 1,
                               !.block = next, !.left = left]
       /\ delivered' = IF finished \/ transfer' = Idle THEN 0 ELSE delivered + 1
    /\ UNCHANGED <<sized, condtrue, sectsize, put_block_idx>>

\* One longword of a put; the last of a sector files the block and takes the
\* next, the last of the transfer ends it.
WriteLong ==
    /\ Putting
    /\ put_block_idx # NoBlock
    /\ LET p == transfer.part
           left == IF transfer.left = 0 THEN 0 ELSE transfer.left - 1
       IN
       IF transfer.written + 1 < transfer.sectsize
       THEN /\ transfer' = [transfer EXCEPT !.written = @ + 1, !.left = left]
            /\ UNCHANGED <<pool, lists, put_block_idx>>
       ELSE /\ SetPartition(p, Append(partition[p], put_block_idx))
            /\ sized' = [sized EXCEPT ![p] = TRUE]
            /\ IF left > 0
               THEN /\ put_block_idx' = Allocated(Pool)
                    /\ PoolIs(AfterAllocate(Pool))
                    /\ transfer' = [transfer EXCEPT !.written = 0, !.left = left]
               ELSE /\ put_block_idx' = NoBlock
                    /\ transfer' = Idle
                    /\ UNCHANGED pool
    /\ UNCHANGED <<condtrue, sectsize, delivered>>

Next ==
    \/ StoreSector
    \/ InitializeSystem
    \/ EndDataTransfer
    \/ SetFilterConnection
    \/ ResetSelector
    \/ SetSectorLength
    \/ CalculateActualSize
    \/ DeleteSectorData
    \/ GetSectorData
    \/ PutSectorData
    \/ CopySectorData
    \/ MoveSectorData
    \/ ReadPastEnd
    \/ ReadLong
    \/ WriteLong

-----------------------------------------------------------------------------
(* Properties *)

\* Where a block may be: a place of a partition's list, or under the put.
Places == UNION {{p} \X DOMAIN partition[p] : p \in Partitions}

HeldAt(b) ==
    Cardinality({at \in Places : partition[at[1]][at[2]] = b})
    + (IF put_block_idx = b THEN 1 ELSE 0)

\* As long as the host finishes its puts, a block in use is in exactly one
\* place and a block not in use in none: allocate_block never hands out a
\* block some list still holds, and no path loses one.
OneOwner == \A b \in Blocks : HeldAt(b) = IF b \in used THEN 1 ELSE 0

\* The counts the host reads (GET BUFFER SIZE, GET SECTOR NUMBER) are those
\* of the lists, in every state between two commands, whatever moved sectors.
CountsAgree ==
    /\ blockfreespace = MAX_BLOCKS - Cardinality(used)
    /\ \A p \in Partitions : numblocks[p] = Len(partition[p])

\* The transfer port removes a sector only when the host has read every
\* longword of it (read_data_fifo_long), though the drive appends to the same
\* list between two reads.
DeletesWhatItDelivered ==
    ReadLong =>
      \A b \in Members(partition[transfer.part]) \ Members(partition'[transfer.part]) :
         /\ delivered + 1 = transfer.sectsize
         /\ b = partition[transfer.part][transfer.block + 1]

-----------------------------------------------------------------------------
(* Proofs that every block has one owner and the counts are those of the   *)
(* lists, for any number of blocks and partitions, if the host finishes    *)
(* its puts: facts about lists of blocks, the free blocks, and the actions. *)

HostFinishes == BuffersAssumption /\ AbandonsPuts = FALSE

\* A list that holds every block once.
Injective(list) == \A i, j \in DOMAIN list : list[i] = list[j] => i = j

\* Every block is in one place of one list or under the put.
Apart(held, put) ==
    /\ held \in [Partitions -> Seq(Blocks)]
    /\ \A p, q \in Partitions : \A i \in DOMAIN held[p], j \in DOMAIN held[q] :
           held[p][i] = held[q][j] => p = q /\ i = j
    /\ \A p \in Partitions : put \notin Members(held[p])

HeldBy(held, put) == (UNION {Members(held[p]) : p \in Partitions}) \cup ({put} \cap Blocks)

Pools == {s \in [used : SUBSET Blocks, free : Int, full : BOOLEAN] :
            s.free = MAX_BLOCKS - Cardinality(s.used)}

Gets == [type : {"GetSector", "GetDeleteSector"}, part : Partitions, sectoffset : Nat,
         sectsize : Nat \ {0}, block : Nat, left : Int]
Puts == [type : {"PutSector"}, part : Partitions, written : Nat, sectsize : Nat \ {0}, left : Int]

BuffersTyped ==
    /\ Pool \in Pools
    /\ numblocks = [p \in Partitions |-> Len(partition[p])]
    /\ sized \in [Partitions -> BOOLEAN]
    /\ condtrue \in Partitions \cup {NoPartition}
    /\ sectsize \in [get : SectorSizes, put : SectorSizes]
    /\ transfer \in {Idle} \cup Gets \cup Puts
    /\ put_block_idx \in Blocks \cup {NoBlock}

\* A put has its block until it ends, and the history counts as the port does.
PortFollows ==
    /\ put_block_idx # NoBlock => Putting
    /\ Getting => delivered = transfer.sectoffset /\ transfer.sectoffset < transfer.sectsize

BuffersInv ==
    /\ BuffersTyped /\ PortFollows
    /\ Apart(partition, put_block_idx) /\ used = HeldBy(partition, put_block_idx)

LEMMA BlocksAreNumbers ==
    ASSUME HostFinishes
    PROVE  /\ MAX_BLOCKS \in Nat \ {0} /\ NoBlock \notin Blocks /\ Blocks \subseteq Nat
           /\ IsFiniteSet(Blocks) /\ Cardinality(Blocks) = MAX_BLOCKS
  <1>1. MAX_BLOCKS \in Nat \ {0}
    BY HostFinishes DEF HostFinishes, BuffersAssumption
  <1>2. IsFiniteSet(0 .. MAX_BLOCKS - 1) /\ Cardinality(0 .. MAX_BLOCKS - 1) = MAX_BLOCKS
    BY <1>1, FS_Interval
  <1> QED
    BY <1>1, <1>2 DEF Blocks, NoBlock

LEMMA AppendOne ==
    ASSUME NEW s \in Seq(Blocks), Injective(s), NEW b \in Blocks, b \notin Members(s)
    PROVE  /\ Append(s, b) \in Seq(Blocks) /\ Injective(Append(s, b))
           /\ Members(Append(s, b)) = Members(s) \cup {b} /\ Len(Append(s, b)) = Len(s) + 1
  <1> DEFINE n == Len(s)
             r == Append(s, b)
  <1>1. /\ n \in Nat /\ DOMAIN s = 1 .. n /\ r \in Seq(Blocks) /\ DOMAIN r = 1 .. n + 1
        /\ Len(r) = n + 1 /\ r[n + 1] = b /\ \A i \in 1 .. n : r[i] = s[i]
    OBVIOUS
  <1> HIDE DEF n, r
  <1>2. Members(r) = Members(s) \cup {b}
    <2>1. ASSUME NEW x \in Members(r) PROVE x \in Members(s) \cup {b}
      <3>1. PICK i \in 1 .. n + 1 : x = r[i]
        BY <1>1 DEF Members
      <3>2. i = n + 1 \/ i \in 1 .. n
        BY <1>1
      <3> QED
        BY <1>1, <3>1, <3>2 DEF Members
    <2>2. ASSUME NEW x \in Members(s) PROVE x \in Members(r)
      <3>1. PICK i \in 1 .. n : x = s[i]
        BY <1>1 DEF Members
      <3>2. i \in 1 .. n + 1 /\ r[i] = s[i]
        BY <1>1
      <3> QED
        BY <1>1, <3>1, <3>2 DEF Members
    <2>3. b \in Members(r)
      <3>1. n + 1 \in 1 .. n + 1
        BY <1>1
      <3> QED
        BY <1>1, <3>1 DEF Members
    <2> QED
      BY <2>1, <2>2, <2>3
  <1>3. Injective(r)
    <2> SUFFICES ASSUME NEW i \in 1 .. n + 1, NEW j \in 1 .. n + 1, r[i] = r[j] PROVE i = j
      BY <1>1 DEF Injective
    <2>1. \A k \in 1 .. n : r[k] # b
      BY <1>1 DEF Members
    <2>2. CASE i = n + 1 \/ j = n + 1
      <3>1. \A k \in 1 .. n + 1 : k = n + 1 \/ k \in 1 .. n
        BY <1>1
      <3> QED
        BY <1>1, <2>1, <2>2, <3>1
    <2>3. CASE i # n + 1 /\ j # n + 1
      <3>1. i \in 1 .. n /\ j \in 1 .. n
        BY <1>1, <2>3
      <3> QED
        BY <1>1, <3>1 DEF Injective
    <2> QED
      BY <2>2, <2>3
  <1> QED
    BY <1>1, <1>2, <1>3 DEF r, n

\* The part of a list from one place to another.
LEMMA PartOfList ==
    ASSUME NEW s \in Seq(Blocks), Injective(s), NEW m \in 1 .. Len(s) + 1, NEW n \in 0 .. Len(s)
    PROVE  LET r == SubSeq(s, m, n)
           IN /\ r \in Seq(Blocks) /\ Injective(r)
              /\ Members(r) = {s[i] : i \in m .. n}
  <1> DEFINE r == SubSeq(s, m, n)
             k == IF m <= n THEN n - m + 1 ELSE 0
  <1>0. m \in Nat /\ n \in Nat /\ Len(s) \in Nat /\ m - 1 \in Nat /\ DOMAIN s = 1 .. Len(s)
    OBVIOUS
  <1>1. /\ r \in Seq(Blocks) /\ DOMAIN r = 1 .. k /\ k \in Nat
        /\ \A i \in 1 .. k : r[i] = s[m + i - 1]
    <2>1. \A i \in m .. n : s[i] \in Blocks
      <3>1. \A i \in m .. n : i \in DOMAIN s
        BY <1>0
      <3> QED
        BY <3>1
    <2>2. /\ r \in Seq(Blocks)
          /\ Len(r) = IF m <= n THEN n - m + 1 ELSE 0
          /\ \A i \in 1 .. n - m + 1 : r[i] = s[m + i - 1]
      BY <1>0, <2>1, SubSeqProperties
    <2>3. k \in Nat /\ (k = n - m + 1 \/ k = 0) /\ Len(r) = k
      BY <1>0, <2>2
    <2>4. DOMAIN r = 1 .. k
      BY <2>2, <2>3
    <2> QED
      BY <2>2, <2>3, <2>4
  <1> HIDE DEF r
  <1>2. \A i \in 1 .. k : m + i - 1 \in m .. n
    BY <1>0
  <1>3. \A i \in m .. n : i - m + 1 \in 1 .. k /\ m + (i - m + 1) - 1 = i
    BY <1>0
  <1> HIDE DEF k
  <1>4. Injective(r)
    <2> SUFFICES ASSUME NEW i \in 1 .. k, NEW j \in 1 .. k, r[i] = r[j] PROVE i = j
      BY <1>1 DEF Injective
    <2>1. m + i - 1 \in DOMAIN s /\ m + j - 1 \in DOMAIN s
      BY <1>0, <1>2
    <2>2. m + i - 1 = m + j - 1
      BY <1>1, <2>1 DEF Injective
    <2> QED
      BY <1>0, <2>2
  <1>5. Members(r) = {s[i] : i \in m .. n}
    <2>1. ASSUME NEW x \in Members(r) PROVE x \in {s[i] : i \in m .. n}
      <3>1. PICK i \in 1 .. k : x = r[i]
        BY <1>1 DEF Members
      <3> QED
        BY <1>1, <1>2, <3>1
    <2>2. ASSUME NEW i \in m .. n PROVE s[i] \in Members(r)
      <3>1. r[i - m + 1] = s[i]
        BY <1>1, <1>3
      <3> QED
        BY <1>1, <1>3, <3>1 DEF Members
    <2> QED
      BY <2>1, <2>2
  <1> QED
    BY <1>1, <1>4, <1>5 DEF r

\* Two lists one after the other.
LEMMA ListsJoined ==
    ASSUME NEW s \in Seq(Blocks), NEW t \in Seq(Blocks), Injective(s), Injective(t),
           Members(s) \cap Members(t) = {}
    PROVE  /\ s \o t \in Seq(Blocks) /\ Injective(s \o t)
           /\ Members(s \o t) = Members(s) \cup Members(t)
  <1> DEFINE m == Len(s)
             n == Len(t)
             r == s \o t
  <1>1. /\ m \in Nat /\ n \in Nat /\ DOMAIN s = 1 .. m /\ DOMAIN t = 1 .. n
        /\ r \in Seq(Blocks) /\ DOMAIN r = 1 .. m + n
        /\ \A i \in 1 .. m + n : r[i] = IF i <= m THEN s[i] ELSE t[i - m]
    <2>1. r \in Seq(Blocks) /\ Len(r) = m + n /\ \A i \in 1 .. m + n : r[i] = IF i <= m THEN s[i] ELSE t[i - m]
      BY ConcatProperties
    <2> QED
      BY <2>1
  <1> HIDE DEF m, n, r
  <1>2. \A i \in 1 .. m : i \in 1 .. m + n /\ i <= m
    BY <1>1
  <1>3. \A i \in 1 .. n : i + m \in 1 .. m + n /\ ~(i + m <= m) /\ i + m - m = i
    BY <1>1
  <1>4. \A i \in 1 .. m + n : (i <= m /\ i \in 1 .. m) \/ (~(i <= m) /\ i - m \in 1 .. n)
    BY <1>1
  <1>5. Members(r) = Members(s) \cup Members(t)
    <2>1. ASSUME NEW x \in Members(r) PROVE x \in Members(s) \cup Members(t)
      <3>1. PICK i \in 1 .. m + n : x = r[i]
        BY <1>1 DEF Members
      <3> QED
        BY <1>1, <1>4, <3>1 DEF Members
    <2>2. ASSUME NEW i \in 1 .. m PROVE s[i] \in Members(r)
      BY <1>1, <1>2 DEF Members
    <2>3. ASSUME NEW i \in 1 .. n PROVE t[i] \in Members(r)
      <3>1. i + m \in 1 .. m + n /\ ~(i + m <= m) /\ i + m - m = i
        BY <1>3
      <3>2. r[i + m] = t[i + m - m]
        BY <1>1, <3>1
      <3>3. r[i + m] = t[i]
        BY <3>1, <3>2
      <3> QED
        BY <1>1, <3>1, <3>3 DEF Members
    <2>4. Members(s) \subseteq Members(r)
      BY <1>1, <2>2 DEF Members
    <2>5. Members(t) \subseteq Members(r)
      BY <1>1, <2>3 DEF Members
    <2> QED
      BY <2>1, <2>4, <2>5
  <1>6. Injective(r)
    <2> SUFFICES ASSUME NEW i \in 1 .. m + n, NEW j \in 1 .. m + n, r[i] = r[j] PROVE i = j
      BY <1>1 DEF Injective
    <2>1. CASE i <= m /\ j <= m
      BY <1>1, <1>4, <2>1 DEF Injective
    <2>2. CASE ~(i <= m) /\ ~(j <= m)
      <3>1. i - m = j - m
        BY <1>1, <1>4, <2>2 DEF Injective
      <3> QED
        BY <1>1, <3>1
    <2>3. CASE i <= m /\ ~(j <= m)
      BY <1>1, <1>4, <2>3 DEF Members
    <2>4. CASE ~(i <= m) /\ j <= m
      BY <1>1, <1>4, <2>4 DEF Members
    <2> QED
      BY <2>1, <2>2, <2>3, <2>4
  <1> QED
    BY <1>1, <1>5, <1>6 DEF r
\* M is L with another list at p.
Replaces(M, L, p, s) ==
    M \in [Partitions -> Seq(Blocks)] /\ \A q \in Partitions : M[q] = IF q = p THEN s ELSE L[q]

\* One list replaced by one whose blocks no other list and no put holds.
LEMMA ListReplaced ==
    ASSUME NEW L, NEW put, Apart(L, put), NEW p \in Partitions,
           NEW s \in Seq(Blocks), Injective(s), put \notin Members(s),
           \A q \in Partitions \ {p} : Members(L[q]) \cap Members(s) = {},
           NEW M, Replaces(M, L, p, s)
    PROVE  /\ Apart(M, put)
           /\ HeldBy(M, put) = (HeldBy(L, put) \ Members(L[p])) \cup Members(s)
  <1>1. L \in [Partitions -> Seq(Blocks)] /\ M \in [Partitions -> Seq(Blocks)]
    BY DEF Apart, Replaces
  <1>2. M[p] = s /\ \A q \in Partitions \ {p} : M[q] = L[q]
    BY DEF Replaces
  <1>3. \A q \in Partitions \ {p} : Members(L[q]) \cap Members(L[p]) = {}
    BY DEF Apart, Members
  <1>4. Apart(M, put)
    <2>1. ASSUME NEW q \in Partitions, NEW r \in Partitions,
                 NEW i \in DOMAIN M[q], NEW j \in DOMAIN M[r], M[q][i] = M[r][j]
          PROVE  q = r /\ i = j
      <3>1. CASE q # p /\ r # p
        BY <1>2, <2>1, <3>1 DEF Apart
      <3>2. CASE q = p /\ r = p
        BY <1>2, <2>1, <3>2 DEF Injective
      <3>3. M[q][i] \in Members(M[q]) /\ M[r][j] \in Members(M[r])
        BY DEF Members
      <3>4. CASE q = p /\ r # p
        BY <1>2, <2>1, <3>3, <3>4
      <3>5. CASE q # p /\ r = p
        BY <1>2, <2>1, <3>3, <3>5
      <3> QED
        BY <3>1, <3>2, <3>4, <3>5
    <2>2. \A q \in Partitions : put \notin Members(M[q])
      BY <1>2 DEF Apart
    <2> QED
      BY <1>1, <2>1, <2>2 DEF Apart
  <1>5. HeldBy(M, put) = (HeldBy(L, put) \ Members(L[p])) \cup Members(s)
    <2>1. put \notin Members(L[p])
      BY DEF Apart
    <2>2. ASSUME NEW x PROVE x \in UNION {Members(M[q]) : q \in Partitions}
                         <=> x \in Members(s) \/ \E q \in Partitions \ {p} : x \in Members(L[q])
      BY <1>2
    <2>3. ASSUME NEW x PROVE x \in (UNION {Members(L[q]) : q \in Partitions}) \ Members(L[p])
                         <=> \E q \in Partitions \ {p} : x \in Members(L[q])
      BY <1>3
    <2> QED
      BY <2>1, <2>2, <2>3 DEF HeldBy
  <1> QED
    BY <1>4, <1>5

LEMMA ListsAreInjective ==
    ASSUME NEW L, NEW put, Apart(L, put), NEW p \in Partitions
    PROVE  L[p] \in Seq(Blocks) /\ Injective(L[p]) /\ Members(L[p]) \subseteq HeldBy(L, put)
           /\ put \notin Members(L[p])
           /\ \A q \in Partitions \ {p} : Members(L[q]) \cap Members(L[p]) = {}
  BY DEF Apart, Injective, Members, HeldBy

\* A list without some of its blocks.
LEMMA ListCut ==
    ASSUME NEW L, NEW put, Apart(L, put), NEW p \in Partitions, NEW s \in Seq(Blocks),
           Injective(s), Members(s) \subseteq Members(L[p]), NEW M, Replaces(M, L, p, s)
    PROVE  /\ Apart(M, put)
           /\ HeldBy(M, put) = HeldBy(L, put) \ (Members(L[p]) \ Members(s))
  <1>1. put \notin Members(s)
    BY DEF Apart
  <1>2. \A q \in Partitions \ {p} : Members(L[q]) \cap Members(s) = {}
    BY ListsAreInjective
  <1>3. Members(L[p]) \subseteq HeldBy(L, put)
    BY ListsAreInjective
  <1>4. /\ Apart(M, put)
        /\ HeldBy(M, put) = (HeldBy(L, put) \ Members(L[p])) \cup Members(s)
    BY <1>1, <1>2, ListReplaced
  <1> QED
    BY <1>3, <1>4

\* Blocks nobody holds at the end of a list.
LEMMA ListExtended ==
    ASSUME NEW L, NEW put, Apart(L, put), NEW p \in Partitions, NEW s \in Seq(Blocks),
           Injective(s), Members(s) \cap HeldBy(L, put) = {}, NEW M, Replaces(M, L, p, L[p] \o s)
    PROVE  /\ Apart(M, put)
           /\ HeldBy(M, put) = HeldBy(L, put) \cup Members(s)
  <1> DEFINE t == L[p] \o s
  <1>1. /\ L[p] \in Seq(Blocks) /\ Injective(L[p]) /\ Members(L[p]) \subseteq HeldBy(L, put)
        /\ \A q \in Partitions \ {p} : Members(L[q]) \cap Members(L[p]) = {}
    BY ListsAreInjective
  <1>2. t \in Seq(Blocks) /\ Injective(t) /\ Members(t) = Members(L[p]) \cup Members(s)
    BY <1>1, ListsJoined
  <1>3. Replaces(M, L, p, t)
    OBVIOUS
  <1> HIDE DEF t
  <1>4. put \notin Members(t)
    <2>1. put \notin Members(L[p])
      BY DEF Apart
    <2>2. put \notin Members(s)
      <3>1. Members(s) \subseteq Blocks
        BY DEF Members
      <3> QED
        BY <3>1 DEF HeldBy
    <2> QED
      BY <1>2, <2>1, <2>2
  <1>5. \A q \in Partitions \ {p} : Members(L[q]) \cap Members(t) = {}
    <2> TAKE q \in Partitions \ {p}
    <2>1. Members(L[q]) \subseteq HeldBy(L, put)
      BY ListsAreInjective
    <2> QED
      BY <1>1, <1>2, <2>1
  <1>6. /\ Apart(M, put)
        /\ HeldBy(M, put) = (HeldBy(L, put) \ Members(L[p])) \cup Members(t)
    BY <1>2, <1>3, <1>4, <1>5, ListReplaced
  <1> QED
    BY <1>1, <1>2, <1>6

\* A block nobody holds at the end of a list.
LEMMA ListAppended ==
    ASSUME NEW L, NEW put, Apart(L, put), NEW p \in Partitions, NEW b \in Blocks,
           b \notin HeldBy(L, put), NEW M, Replaces(M, L, p, Append(L[p], b))
    PROVE  /\ Apart(M, put)
           /\ HeldBy(M, put) = HeldBy(L, put) \cup {b}
  <1> DEFINE t == Append(L[p], b)
  <1>1. /\ L[p] \in Seq(Blocks) /\ Injective(L[p]) /\ Members(L[p]) \subseteq HeldBy(L, put)
        /\ \A q \in Partitions \ {p} : Members(L[q]) \cap Members(L[p]) = {}
    BY ListsAreInjective
  <1>2. b \notin Members(L[p])
    BY <1>1
  <1>3. t \in Seq(Blocks) /\ Injective(t) /\ Members(t) = Members(L[p]) \cup {b}
    BY <1>1, <1>2, AppendOne
  <1>4. Replaces(M, L, p, t)
    OBVIOUS
  <1> HIDE DEF t
  <1>5. put \notin Members(t)
    <2>1. put \notin Members(L[p])
      BY DEF Apart
    <2>2. put # b
      BY DEF HeldBy
    <2> QED
      BY <1>3, <2>1, <2>2
  <1>6. \A q \in Partitions \ {p} : Members(L[q]) \cap Members(t) = {}
    <2> TAKE q \in Partitions \ {p}
    <2>1. Members(L[q]) \subseteq HeldBy(L, put)
      BY ListsAreInjective
    <2> QED
      BY <1>1, <1>3, <2>1
  <1>7. /\ Apart(M, put)
        /\ HeldBy(M, put) = (HeldBy(L, put) \ Members(L[p])) \cup Members(t)
    BY <1>3, <1>4, <1>5, <1>6, ListReplaced
  <1> QED
    BY <1>1, <1>3, <1>7

\* allocate_block: a block that was free, or none.
LEMMA AllocateTakesAFree ==
    ASSUME HostFinishes, NEW s \in Pools
    PROVE  /\ AfterAllocate(s) \in Pools
           /\ \/ Allocated(s) = NoBlock /\ AfterAllocate(s).used = s.used
              \/ /\ Allocated(s) \in Blocks \ s.used
                 /\ AfterAllocate(s).used = s.used \cup {Allocated(s)}
  <1> DEFINE F == Blocks \ s.used
  <1>0. s \in [used : SUBSET Blocks, free : Int, full : BOOLEAN] /\ s.free = MAX_BLOCKS - Cardinality(s.used)
    BY DEF Pools
  <1>1. CASE s.free = 0 \/ s.used = Blocks
    <2>1. Allocated(s) = NoBlock /\ AfterAllocate(s) \in {s, [s EXCEPT !.full = TRUE]}
      BY <1>1 DEF Allocated, AfterAllocate
    <2> QED
      BY <1>0, <2>1 DEF Pools
  <1>2. CASE ~(s.free = 0 \/ s.used = Blocks)
    <2>1. F # {} /\ F \subseteq Nat
      BY <1>0, <1>2, BlocksAreNumbers
    <2>2. \E b \in F : \A c \in F : b <= c
      <3>1. PICK b \in F : \A c \in F : ~(<<c, b>> \in OpToRel(<, Nat))
        BY <2>1, NatLessThanWellFounded, WFMin
      <3>2. \A c \in F : ~(c < b)
        BY <2>1, <3>1 DEF OpToRel
      <3> QED
        BY <2>1, <3>2
    <2>3. Allocated(s) \in F
      <3>1. Allocated(s) = CHOOSE b \in F : \A c \in F : b <= c
        BY <1>2 DEF Allocated
      <3> QED
        BY <2>2, <3>1
    <2> DEFINE b == Allocated(s)
    <2>4. AfterAllocate(s) = [s EXCEPT !.used = @ \cup {b}, !.free = @ - 1]
      BY <1>2 DEF AfterAllocate
    <2> HIDE DEF b
    <2>5. IsFiniteSet(s.used)
      BY <1>0, BlocksAreNumbers, FS_Subset
    <2>6. Cardinality(s.used \cup {b}) = Cardinality(s.used) + 1 /\ Cardinality(s.used) \in Nat
      BY <2>3, <2>5, FS_AddElement, FS_CardinalityType DEF b
    <2>7. b \in Blocks /\ s.used \cup {b} \in SUBSET Blocks /\ s.free - 1 \in Int
      BY <1>0, <2>3 DEF b
    <2>8. /\ AfterAllocate(s).used = s.used \cup {b}
          /\ AfterAllocate(s).free = s.free - 1
          /\ AfterAllocate(s) \in [used : SUBSET Blocks, free : Int, full : BOOLEAN]
      BY <1>0, <2>4, <2>7
    <2>9. s.free - 1 = MAX_BLOCKS - Cardinality(s.used \cup {b})
      BY <1>0, <2>6, BlocksAreNumbers
    <2>10. AfterAllocate(s) \in Pools
      BY <2>8, <2>9 DEF Pools
    <2> QED
      BY <2>3, <2>8, <2>10 DEF b
  <1> QED
    BY <1>1, <1>2

\* free_block of every block of a list.
LEMMA FreeReleases ==
    ASSUME HostFinishes, NEW s \in Pools, NEW t
    PROVE  AfterFree(s, t) \in Pools /\ AfterFree(s, t).used = s.used \ Members(t)
  <1> DEFINE G == Members(t) \cap s.used
             U == s.used \ G
  <1>0. s \in [used : SUBSET Blocks, free : Int, full : BOOLEAN] /\ s.free = MAX_BLOCKS - Cardinality(s.used)
    BY DEF Pools
  <1>1. AfterFree(s, t) = [s EXCEPT !.used = @ \ G, !.free = Lesser(@ + Cardinality(G), MAX_BLOCKS)]
    BY DEF AfterFree
  <1>2. U = s.used \ Members(t) /\ U \subseteq Blocks
    BY <1>0
  <1>3. IsFiniteSet(s.used) /\ IsFiniteSet(U)
    BY <1>0, <1>2, BlocksAreNumbers, FS_Subset
  <1>4. Cardinality(U) = Cardinality(s.used) - Cardinality(G)
    <2>1. Cardinality(U) = Cardinality(s.used) - Cardinality(s.used \cap G)
      BY <1>3, FS_Difference
    <2>2. s.used \cap G = G
      OBVIOUS
    <2> QED
      BY <2>1, <2>2, Zenon
  <1>5. Cardinality(U) \in Nat /\ Cardinality(s.used) \in Nat /\ Cardinality(G) \in Nat
    <2>1. IsFiniteSet(G)
      BY <1>3, FS_Subset
    <2> QED
      BY <1>3, <2>1, FS_CardinalityType
  <1> HIDE DEF G, U
  <1>6. Lesser(s.free + Cardinality(G), MAX_BLOCKS) = MAX_BLOCKS - Cardinality(U)
    <2>1. s.free + Cardinality(G) = MAX_BLOCKS - Cardinality(U) /\ MAX_BLOCKS \in Nat
      BY <1>0, <1>4, <1>5, BlocksAreNumbers
    <2>2. MAX_BLOCKS - Cardinality(U) <= MAX_BLOCKS
      BY <1>5, <2>1
    <2> QED
      BY <2>1, <2>2 DEF Lesser
  <1>7. s.used \ G = U
    BY DEF U
  <1> DEFINE rest == Lesser(s.free + Cardinality(G), MAX_BLOCKS)
  <1>8. rest \in Int /\ rest = MAX_BLOCKS - Cardinality(U)
    BY <1>5, <1>6, BlocksAreNumbers
  <1>9. AfterFree(s, t) = [s EXCEPT !.used = U, !.free = rest]
    BY <1>0, <1>1, <1>7
  <1> HIDE DEF rest
  <1>10. /\ AfterFree(s, t).used = U /\ AfterFree(s, t).free = rest
         /\ AfterFree(s, t) \in [used : SUBSET Blocks, free : Int, full : BOOLEAN]
    BY <1>0, <1>2, <1>8, <1>9
  <1> QED
    BY <1>2, <1>8, <1>10 DEF Pools

\* Induction up to a bound.
LEMMA AllUpTo ==
    ASSUME NEW n \in Nat, NEW G, 0 \in G, \A m \in 1 .. n : m - 1 \in G => m \in G
    PROVE  \A m \in 0 .. n : m \in G
  <1> DEFINE Bad == (0 .. n) \ G
  <1>1. SUFFICES ASSUME Bad # {} PROVE FALSE
    OBVIOUS
  <1>2. PICK m \in Bad : \A k \in Bad : ~(<<k, m>> \in OpToRel(<, Nat))
    <2>1. Bad \subseteq Nat
      OBVIOUS
    <2> HIDE DEF Bad
    <2> QED
      BY <1>1, <2>1, NatLessThanWellFounded, WFMin
  <1>3. m \in 1 .. n /\ m - 1 \in 0 .. n
    OBVIOUS
  <1>4. m - 1 \in G
    <2>1. Bad \subseteq Nat
      OBVIOUS
    <2>2. \A k \in Bad : ~(k < m)
      <3> HIDE DEF Bad
      <3> QED
        BY <1>2, <2>1 DEF OpToRel
    <2>3. m - 1 \notin Bad
      <3> HIDE DEF Bad
      <3> QED
        BY <1>3, <2>2
    <2> QED
      BY <1>3, <2>3
  <1> QED
    BY <1>3, <1>4

\* Copy Sector Data takes blocks that were free, each once.
LEMMA CopiesTakeFree ==
    ASSUME HostFinishes, Pool \in Pools, NEW n \in 0 .. MaxCount
    PROVE  /\ Copies[n].pool \in Pools
           /\ Copies[n].new \in Seq(Blocks) /\ Injective(Copies[n].new)
           /\ Members(Copies[n].new) \cap used = {}
           /\ Copies[n].pool.used = used \cup Members(Copies[n].new)
  <1> DEFINE After(x) == [pool |-> AfterAllocate(x.pool),
                          new |-> IF Allocated(x.pool) = NoBlock THEN x.new
                                  ELSE Append(x.new, Allocated(x.pool))]
             Step(F, m) == IF m = 0 THEN [pool |-> Pool, new |-> <<>>] ELSE After(F[m - 1])
             IsCopies(F, m) == F = [i \in 0 .. m |-> Step(F, i)]
  <1>0. MaxCount \in Nat
    BY HostFinishes DEF HostFinishes, BuffersAssumption
  <1>1. Copies = CHOOSE F : IsCopies(F, MaxCount)
    BY DEF Copies
  <1> HIDE DEF After
  <1>2. \E F : IsCopies(F, MaxCount)
    <2> DEFINE G == {m \in 0 .. MaxCount : \E F : IsCopies(F, m)}
    <2>1. 0 \in G
      <3> DEFINE F == [i \in 0 .. 0 |-> [pool |-> Pool, new |-> <<>>]]
      <3>1. IsCopies(F, 0)
        OBVIOUS
      <3> HIDE DEF F, IsCopies
      <3> QED
        BY <1>0, <3>1
    <2>2. ASSUME NEW m \in 1 .. MaxCount, m - 1 \in G PROVE m \in G
      <3>1. PICK F : IsCopies(F, m - 1)
        BY <2>2
      <3> DEFINE H == [i \in 0 .. m |-> IF i = m THEN After(F[m - 1]) ELSE F[i]]
      <3>2. m \in Nat /\ m # 0 /\ m - 1 \in 0 .. m - 1 /\ m \in 0 .. MaxCount
        BY <1>0
      <3>3. \A i \in 0 .. m - 1 : F[i] = Step(F, i)
        BY <3>1
      <3>4. ASSUME NEW i \in 0 .. m PROVE H[i] = Step(H, i)
        <4>1. CASE i = m
          <5>1. H[i] = After(F[m - 1]) /\ H[m - 1] = F[m - 1]
            BY <3>2, <4>1
          <5> QED
            BY <3>2, <4>1, <5>1
        <4>2. CASE i # m
          <5>1. i \in 0 .. m - 1 /\ H[i] = F[i] /\ (i # 0 => H[i - 1] = F[i - 1])
            BY <3>2, <4>2
          <5> QED
            BY <3>3, <5>1
        <4> QED
          BY <4>1, <4>2
      <3>5. H = [i \in 0 .. m |-> Step(H, i)]
        <4> HIDE DEF Step
        <4> QED
          BY <3>4
      <3> QED
        BY <3>2, <3>5
    <2> HIDE DEF G
    <2>3. \A m \in 0 .. MaxCount : m \in G
      BY <1>0, <2>1, <2>2, AllUpTo
    <2>4. MaxCount \in G
      BY <1>0, <2>3
    <2> QED
      BY <2>4 DEF G
  <1>3. IsCopies(Copies, MaxCount)
    <2> HIDE DEF IsCopies
    <2> QED
      BY <1>1, <1>2
  <1>4. \A m \in 0 .. MaxCount : Copies[m] = Step(Copies, m)
    <2> HIDE DEF Step
    <2> QED
      BY <1>3
  <1> DEFINE Free(x) == /\ x.pool \in Pools
                        /\ x.new \in Seq(Blocks) /\ Injective(x.new)
                        /\ Members(x.new) \cap used = {}
                        /\ x.pool.used = used \cup Members(x.new)
             G == {m \in 0 .. MaxCount : Free(Copies[m])}
  <1>5. 0 \in G
    <2>1. Copies[0] = [pool |-> Pool, new |-> <<>>]
      BY <1>0, <1>4
    <2>2. Pool.used = used
      BY DEF Pool
    <2>3. <<>> \in Seq(Blocks) /\ Injective(<<>>) /\ Members(<<>>) = {}
      BY DEF Injective, Members
    <2>4. Copies[0].pool = Pool /\ Copies[0].new = <<>>
      BY <2>1
    <2>5. Free(Copies[0])
      BY <2>2, <2>3, <2>4
    <2> HIDE DEF Free
    <2> QED
      BY <1>0, <2>5
  <1>6. ASSUME NEW m \in 1 .. MaxCount, m - 1 \in G PROVE m \in G
    <2> DEFINE x == Copies[m - 1]
               b == Allocated(x.pool)
    <2>1. m \in 0 .. MaxCount /\ m # 0
      BY <1>0
    <2>2. /\ Copies[m].pool = AfterAllocate(x.pool)
          /\ Copies[m].new = IF b = NoBlock THEN x.new ELSE Append(x.new, b)
      <3>1. Copies[m] = After(x)
        BY <1>4, <2>1
      <3> HIDE DEF x
      <3> QED
        BY <3>1 DEF After
    <2>3. Free(x)
      BY <1>6
    <2> HIDE DEF x
    <2>4. /\ AfterAllocate(x.pool) \in Pools
          /\ \/ b = NoBlock /\ AfterAllocate(x.pool).used = x.pool.used
             \/ b \in Blocks \ x.pool.used /\ AfterAllocate(x.pool).used = x.pool.used \cup {b}
      BY <2>3, AllocateTakesAFree
    <2> HIDE DEF b
    <2>5. CASE b = NoBlock /\ AfterAllocate(x.pool).used = x.pool.used
      BY <2>1, <2>2, <2>3, <2>4, <2>5
    <2>6. CASE b \in Blocks \ x.pool.used /\ AfterAllocate(x.pool).used = x.pool.used \cup {b}
      <3>1. b # NoBlock /\ b \in Blocks /\ b \notin Members(x.new) /\ b \notin used
        BY <2>3, <2>6, BlocksAreNumbers
      <3>2. /\ Append(x.new, b) \in Seq(Blocks) /\ Injective(Append(x.new, b))
            /\ Members(Append(x.new, b)) = Members(x.new) \cup {b}
        BY <2>3, <3>1, AppendOne
      <3>3. Copies[m].new = Append(x.new, b)
        BY <2>2, <3>1
      <3> QED
        BY <2>1, <2>2, <2>3, <2>4, <2>6, <3>1, <3>2, <3>3
    <2> QED
      BY <2>4, <2>5, <2>6
  <1> HIDE DEF G
  <1>7. \A m \in 0 .. MaxCount : m \in G
    BY <1>0, <1>5, <1>6, AllUpTo
  <1> QED
    BY <1>7 DEF G

LEMMA BuffersStart ==
    ASSUME HostFinishes
    PROVE  Init => BuffersInv
  <1> SUFFICES ASSUME Init PROVE BuffersInv
    OBVIOUS
  <1>1. /\ used = {} /\ blockfreespace = MAX_BLOCKS /\ isbufferfull = FALSE
        /\ partition = [p \in Partitions |-> <<>>] /\ numblocks = [p \in Partitions |-> 0]
        /\ sized = [p \in Partitions |-> FALSE] /\ condtrue = NoPartition
        /\ sectsize \in [get : SectorSizes, put : SectorSizes]
        /\ transfer = Idle /\ put_block_idx = NoBlock
    BY DEF Init
  <1>2. Pool \in Pools
    <2>1. MAX_BLOCKS = MAX_BLOCKS - Cardinality({}) /\ MAX_BLOCKS \in Int
      BY FS_EmptySet, BlocksAreNumbers
    <2> QED
      BY <1>1, <2>1 DEF Pool, Pools
  <1>3. \A p \in Partitions : Members(partition[p]) = {} /\ partition[p] = <<>>
    BY <1>1 DEF Members
  <1>4. Apart(partition, put_block_idx)
    BY <1>1, <1>3 DEF Apart
  <1>5. HeldBy(partition, put_block_idx) = {}
    BY <1>1, <1>3, BlocksAreNumbers DEF HeldBy
  <1>6. BuffersTyped
    BY <1>1, <1>2 DEF BuffersTyped
  <1>7. PortFollows
    BY <1>1 DEF PortFollows, Getting, Idle
  <1> QED
    BY <1>1, <1>4, <1>5, <1>6, <1>7 DEF BuffersInv

LEMMA PoolBecomes ==
    ASSUME NEW s \in Pools, PoolIs(s)
    PROVE  Pool' \in Pools /\ used' = s.used
  <1>1. used' = s.used /\ blockfreespace' = s.free /\ isbufferfull' = s.full
    BY DEF PoolIs
  <1>2. Pool' = [used |-> s.used, free |-> s.free, full |-> s.full]
    BY <1>1 DEF Pool
  <1> QED
    BY <1>1, <1>2 DEF Pools

LEMMA OneListSet ==
    ASSUME BuffersInv, NEW p \in Partitions, NEW s \in Seq(Blocks), SetPartition(p, s)
    PROVE  /\ Replaces(partition', partition, p, s)
           /\ numblocks' = [q \in Partitions |-> Len(partition'[q])]
           /\ partition'[p] = s
  <1>1. partition \in [Partitions -> Seq(Blocks)] /\ numblocks = [q \in Partitions |-> Len(partition[q])]
    BY DEF BuffersInv, BuffersTyped, Apart
  <1>2. partition' = [partition EXCEPT ![p] = s] /\ numblocks' = [numblocks EXCEPT ![p] = Len(s)]
    BY DEF SetPartition
  <1> QED
    BY <1>1, <1>2 DEF Replaces

LEMMA BuffersParts ==
    ASSUME BuffersInv
    PROVE  /\ Pool \in Pools /\ Pool.used = used
           /\ numblocks = [p \in Partitions |-> Len(partition[p])]
           /\ Apart(partition, put_block_idx) /\ used = HeldBy(partition, put_block_idx)
           /\ \A p \in Partitions :
                /\ partition[p] \in Seq(Blocks) /\ Injective(partition[p])
                /\ Members(partition[p]) \subseteq used /\ put_block_idx \notin Members(partition[p])
                /\ \A q \in Partitions \ {p} : Members(partition[q]) \cap Members(partition[p]) = {}
  <1>1. Pool.used = used
    BY DEF Pool
  <1> QED
    BY <1>1, ListsAreInjective DEF BuffersInv, BuffersTyped

\* The first sectors of a list and the others.
LEMMA ListSplit ==
    ASSUME NEW s \in Seq(Blocks), Injective(s), NEW n \in 0 .. Len(s)
    PROVE  LET front == SubSeq(s, 1, n)
               rest == SubSeq(s, n + 1, Len(s))
           IN /\ front \in Seq(Blocks) /\ Injective(front) /\ rest \in Seq(Blocks) /\ Injective(rest)
              /\ Members(front) \cap Members(rest) = {}
              /\ Members(front) \cup Members(rest) = Members(s)
  <1> DEFINE front == SubSeq(s, 1, n)
             rest == SubSeq(s, n + 1, Len(s))
  <1>0. Len(s) \in Nat /\ DOMAIN s = 1 .. Len(s) /\ n \in Nat
    OBVIOUS
  <1>1. 1 \in 1 .. Len(s) + 1 /\ n + 1 \in 1 .. Len(s) + 1 /\ Len(s) \in 0 .. Len(s)
    BY <1>0
  <1>2. front \in Seq(Blocks) /\ Injective(front) /\ Members(front) = {s[i] : i \in 1 .. n}
    BY <1>1, PartOfList
  <1>3. rest \in Seq(Blocks) /\ Injective(rest) /\ Members(rest) = {s[i] : i \in n + 1 .. Len(s)}
    BY <1>1, PartOfList
  <1> HIDE DEF front, rest
  <1>4. \A i : i \in 1 .. Len(s) <=> i \in 1 .. n \/ i \in n + 1 .. Len(s)
    BY <1>0
  <1>5. \A i \in 1 .. n, j \in n + 1 .. Len(s) : i # j /\ i \in DOMAIN s /\ j \in DOMAIN s
    BY <1>0
  <1>6. Members(front) \cap Members(rest) = {}
    BY <1>2, <1>3, <1>5 DEF Injective
  <1>7. Members(front) \cup Members(rest) = Members(s)
    BY <1>0, <1>2, <1>3, <1>4 DEF Members
  <1> QED
    BY <1>2, <1>3, <1>6, <1>7 DEF front, rest

\* A list without one of its sectors.
LEMMA ListWithout ==
    ASSUME NEW s \in Seq(Blocks), Injective(s), NEW k \in Nat, k < Len(s)
    PROVE  LET r == SubSeq(s, 1, k) \o SubSeq(s, k + 2, Len(s))
           IN r \in Seq(Blocks) /\ Injective(r) /\ Members(r) = Members(s) \ {s[k + 1]}
  <1> DEFINE front == SubSeq(s, 1, k)
             rest == SubSeq(s, k + 2, Len(s))
             r == front \o rest
  <1>0. Len(s) \in Nat /\ DOMAIN s = 1 .. Len(s) /\ k + 1 \in DOMAIN s
    OBVIOUS
  <1>1. 1 \in 1 .. Len(s) + 1 /\ k \in 0 .. Len(s) /\ k + 2 \in 1 .. Len(s) + 1 /\ Len(s) \in 0 .. Len(s)
    BY <1>0
  <1>2. front \in Seq(Blocks) /\ Injective(front) /\ Members(front) = {s[i] : i \in 1 .. k}
    BY <1>1, PartOfList
  <1>3. rest \in Seq(Blocks) /\ Injective(rest) /\ Members(rest) = {s[i] : i \in k + 2 .. Len(s)}
    BY <1>1, PartOfList
  <1> HIDE DEF front, rest
  <1>4. \A i : i \in 1 .. Len(s) <=> i \in 1 .. k \/ i = k + 1 \/ i \in k + 2 .. Len(s)
    BY <1>0
  <1>5. \A i \in 1 .. k : i \in DOMAIN s /\ i # k + 1 /\ i \notin k + 2 .. Len(s)
    BY <1>0
  <1>6. \A i \in k + 2 .. Len(s) : i \in DOMAIN s /\ i # k + 1
    BY <1>0
  <1>7. Members(front) \cap Members(rest) = {}
    BY <1>2, <1>3, <1>5, <1>6 DEF Injective
  <1>8. r \in Seq(Blocks) /\ Injective(r) /\ Members(r) = Members(front) \cup Members(rest)
    BY <1>2, <1>3, <1>7, ListsJoined
  <1> HIDE DEF r
  <1>9. Members(r) = Members(s) \ {s[k + 1]}
    <2>1. Members(s) = {s[i] : i \in 1 .. Len(s)}
      BY <1>0 DEF Members
    <2>2. \A i \in 1 .. Len(s) : s[i] = s[k + 1] => i = k + 1
      BY <1>0 DEF Injective
    <2>3. k + 1 \notin 1 .. k /\ k + 1 \notin k + 2 .. Len(s)
      BY <1>0
    <2>4. ASSUME NEW x \in Members(r) PROVE x \in Members(s) /\ x # s[k + 1]
      <3>1. \E i \in DOMAIN s : i # k + 1 /\ x = s[i]
        BY <1>2, <1>3, <1>5, <1>6, <1>8
      <3> QED
        BY <1>0, <2>1, <2>2, <3>1
    <2>5. ASSUME NEW x \in Members(s), x # s[k + 1] PROVE x \in Members(r)
      <3>1. PICK i \in 1 .. Len(s) : x = s[i]
        BY <2>1
      <3>2. i \in 1 .. k \/ i \in k + 2 .. Len(s)
        BY <1>4, <2>5, <3>1
      <3> QED
        BY <1>2, <1>3, <1>8, <3>1, <3>2
    <2> QED
      BY <2>4, <2>5
  <1> QED
    BY <1>8, <1>9 DEF r, front, rest

\* What an action of the pool and the lists leaves when the port stays as it is.
LEMMA ListsChange ==
    ASSUME BuffersInv, Pool' \in Pools,
           numblocks' = [p \in Partitions |-> Len(partition'[p])],
           sized' \in [Partitions -> BOOLEAN], condtrue' \in Partitions \cup {NoPartition},
           UNCHANGED <<sectsize, transfer, put_block_idx, delivered>>,
           Apart(partition', put_block_idx), used' = HeldBy(partition', put_block_idx)
    PROVE  BuffersInv'
  BY DEF BuffersInv, BuffersTyped, PortFollows, Getting, Putting

LEMMA StoreSectorKeeps ==
    ASSUME HostFinishes, BuffersInv, StoreSector PROVE BuffersInv'
  <1>0. /\ condtrue \in Partitions /\ condtrue' = condtrue /\ PoolIs(AfterAllocate(Pool))
        /\ UNCHANGED <<sectsize, transfer, put_block_idx, delivered>>
        /\ sized \in [Partitions -> BOOLEAN]
    BY DEF StoreSector, BuffersInv, BuffersTyped
  <1> DEFINE b == Allocated(Pool)
  <1>1. /\ AfterAllocate(Pool) \in Pools
        /\ \/ b = NoBlock /\ AfterAllocate(Pool).used = used
           \/ b \in Blocks \ used /\ AfterAllocate(Pool).used = used \cup {b}
    BY BuffersParts, AllocateTakesAFree
  <1>2. Pool' \in Pools /\ used' = AfterAllocate(Pool).used
    BY <1>0, <1>1, PoolBecomes
  <1>3. CASE b = NoBlock
    <2>1. UNCHANGED lists /\ used' = used
      BY <1>1, <1>2, <1>3, BlocksAreNumbers DEF StoreSector
    <2> QED
      BY <1>0, <1>2, <2>1, BuffersParts, ListsChange DEF lists
  <1>4. CASE b # NoBlock
    <2>1. /\ SetPartition(condtrue, Append(partition[condtrue], b))
          /\ sized' = [sized EXCEPT ![condtrue] = TRUE]
      BY <1>4 DEF StoreSector
    <2>2. b \in Blocks \ used /\ used' = used \cup {b}
      BY <1>1, <1>2, <1>4
    <2> HIDE DEF b
    <2>3. Append(partition[condtrue], b) \in Seq(Blocks)
      <3>1. partition[condtrue] \in Seq(Blocks)
        BY <1>0, BuffersParts
      <3> QED
        BY <2>2, <3>1
    <2>4. /\ Replaces(partition', partition, condtrue, Append(partition[condtrue], b))
          /\ numblocks' = [q \in Partitions |-> Len(partition'[q])]
      BY <1>0, <2>1, <2>3, OneListSet
    <2>5. Apart(partition, put_block_idx) /\ used = HeldBy(partition, put_block_idx)
      BY BuffersParts
    <2>6. /\ Apart(partition', put_block_idx)
          /\ HeldBy(partition', put_block_idx) = HeldBy(partition, put_block_idx) \cup {b}
      BY <1>0, <2>2, <2>4, <2>5, ListAppended
    <2>7. sized' \in [Partitions -> BOOLEAN]
      BY <1>0, <2>1
    <2> QED
      BY <1>0, <1>2, <2>2, <2>4, <2>5, <2>6, <2>7, ListsChange
  <1> QED
    BY <1>3, <1>4

\* The blocks of a part of one list are released and the rest of it stays.
LEMMA ReleasedPart ==
    ASSUME HostFinishes, BuffersInv, NEW p \in Partitions, NEW s \in Seq(Blocks), NEW t \in Seq(Blocks), Injective(s),
           Members(s) \cap Members(t) = {}, Members(s) \cup Members(t) = Members(partition[p]),
           SetPartition(p, s), PoolIs(AfterFree(Pool, t))
    PROVE  /\ Pool' \in Pools /\ numblocks' = [q \in Partitions |-> Len(partition'[q])]
           /\ Apart(partition', put_block_idx) /\ used' = HeldBy(partition', put_block_idx)
           /\ partition'[p] = s
  <1>1. AfterFree(Pool, t) \in Pools /\ AfterFree(Pool, t).used = used \ Members(t)
    BY BuffersParts, FreeReleases
  <1>2. Pool' \in Pools /\ used' = used \ Members(t)
    BY <1>1, PoolBecomes
  <1>3. /\ Replaces(partition', partition, p, s) /\ partition'[p] = s
        /\ numblocks' = [q \in Partitions |-> Len(partition'[q])]
    BY OneListSet
  <1>4. Members(s) \subseteq Members(partition[p])
    OBVIOUS
  <1>5. /\ Apart(partition', put_block_idx)
        /\ HeldBy(partition', put_block_idx)
             = HeldBy(partition, put_block_idx) \ (Members(partition[p]) \ Members(s))
    BY <1>3, <1>4, BuffersParts, ListCut
  <1>6. Members(partition[p]) \ Members(s) = Members(t)
    OBVIOUS
  <1> QED
    BY <1>2, <1>3, <1>5, <1>6, BuffersParts

LEMMA EmptyList == <<>> \in Seq(Blocks) /\ Injective(<<>>) /\ Members(<<>>) = {}
  BY DEF Injective, Members

LEMMA InitializeKeeps ==
    ASSUME HostFinishes, BuffersInv, InitializeSystem PROVE BuffersInv'
  <1>1. put_block_idx = NoBlock
    BY HostFinishes DEF HostFinishes, InitializeSystem, MayDropPut, BuffersInv, PortFollows
  <1>2. /\ used' = {} /\ blockfreespace' = MAX_BLOCKS /\ isbufferfull' = isbufferfull
        /\ partition' = [p \in Partitions |-> <<>>] /\ numblocks' = [p \in Partitions |-> 0]
        /\ sized' = [p \in Partitions |-> FALSE]
        /\ UNCHANGED <<condtrue, sectsize, transfer, put_block_idx, delivered>>
    BY DEF InitializeSystem
  <1>3. Pool' \in Pools
    <2>1. MAX_BLOCKS = MAX_BLOCKS - Cardinality({}) /\ MAX_BLOCKS \in Int
      BY FS_EmptySet, BlocksAreNumbers
    <2>2. isbufferfull \in BOOLEAN
      BY DEF BuffersInv, BuffersTyped, Pools, Pool
    <2>3. Pool' = [used |-> {}, free |-> MAX_BLOCKS, full |-> isbufferfull]
      BY <1>2 DEF Pool
    <2> QED
      BY <2>1, <2>2, <2>3 DEF Pools
  <1>4. \A p \in Partitions : Members(partition'[p]) = {} /\ partition'[p] = <<>>
    BY <1>2, EmptyList
  <1>5. Apart(partition', put_block_idx) /\ HeldBy(partition', put_block_idx) = {}
    BY <1>1, <1>2, <1>4, BlocksAreNumbers DEF Apart, HeldBy
  <1>6. numblocks' = [p \in Partitions |-> Len(partition'[p])]
    BY <1>2, <1>4
  <1>7. sized' \in [Partitions -> BOOLEAN] /\ condtrue' \in Partitions \cup {NoPartition}
    BY <1>2 DEF BuffersInv, BuffersTyped
  <1> QED
    BY <1>2, <1>3, <1>5, <1>6, <1>7, ListsChange

LEMMA ResetKeeps ==
    ASSUME HostFinishes, BuffersInv, ResetSelector PROVE BuffersInv'
  <1>1. PICK filters \in BOOLEAN, buffers \in BOOLEAN, p \in Partitions :
          /\ condtrue' = IF filters THEN NoPartition ELSE condtrue
          /\ IF buffers
             THEN /\ MayRemoveFrom(p)
                  /\ PoolIs(AfterFree(Pool, partition[p]))
                  /\ SetPartition(p, <<>>)
                  /\ sized' = [sized EXCEPT ![p] = FALSE]
             ELSE UNCHANGED <<pool, lists>>
          /\ UNCHANGED <<sectsize, transfer, put_block_idx, delivered>>
    BY DEF ResetSelector
  <1>2. condtrue' \in Partitions \cup {NoPartition} /\ sized \in [Partitions -> BOOLEAN]
    BY <1>1 DEF BuffersInv, BuffersTyped
  <1>3. CASE buffers
    <2>1. /\ partition[p] \in Seq(Blocks)
          /\ Members(<<>>) \cap Members(partition[p]) = {}
          /\ Members(<<>>) \cup Members(partition[p]) = Members(partition[p])
      BY BuffersParts, EmptyList
    <2>2. /\ Pool' \in Pools /\ numblocks' = [q \in Partitions |-> Len(partition'[q])]
          /\ Apart(partition', put_block_idx) /\ used' = HeldBy(partition', put_block_idx)
      BY <1>1, <1>3, <2>1, EmptyList, ReleasedPart
    <2>3. sized' \in [Partitions -> BOOLEAN]
      BY <1>1, <1>2, <1>3
    <2> QED
      BY <1>1, <1>2, <2>2, <2>3, ListsChange
  <1>4. CASE ~buffers
    <2>1. UNCHANGED <<pool, lists>>
      BY <1>1, <1>4
    <2>2. UNCHANGED <<used, blockfreespace, isbufferfull, partition, numblocks, sized>> /\ Pool' = Pool
      BY <2>1 DEF pool, lists, Pool
    <2> QED
      BY <1>1, <1>2, <2>2, BuffersParts, ListsChange
  <1> QED
    BY <1>3, <1>4

LEMMA DeleteKeeps ==
    ASSUME HostFinishes, BuffersInv, DeleteSectorData PROVE BuffersInv'
  <1>1. PICK p \in Partitions, count \in 0 .. MaxCount :
          LET n == Lesser(count, Len(partition[p])) IN
          /\ SetPartition(p, SubSeq(partition[p], n + 1, Len(partition[p])))
          /\ PoolIs(AfterFree(Pool, SubSeq(partition[p], 1, n)))
          /\ UNCHANGED <<sized, condtrue, sectsize, transfer, put_block_idx, delivered>>
    BY DEF DeleteSectorData
  <1> DEFINE n == Lesser(count, Len(partition[p]))
             front == SubSeq(partition[p], 1, n)
             rest == SubSeq(partition[p], n + 1, Len(partition[p]))
  <1>2. partition[p] \in Seq(Blocks) /\ Injective(partition[p]) /\ Len(partition[p]) \in Nat
    BY BuffersParts
  <1>3. n \in 0 .. Len(partition[p])
    BY <1>2 DEF Lesser
  <1>4. SetPartition(p, rest) /\ PoolIs(AfterFree(Pool, front))
    BY <1>1
  <1> HIDE DEF n
  <1>5. /\ front \in Seq(Blocks) /\ rest \in Seq(Blocks) /\ Injective(rest)
        /\ Members(front) \cap Members(rest) = {}
        /\ Members(front) \cup Members(rest) = Members(partition[p])
    BY <1>2, <1>3, ListSplit
  <1> HIDE DEF front, rest
  <1>6. /\ Pool' \in Pools /\ numblocks' = [q \in Partitions |-> Len(partition'[q])]
        /\ Apart(partition', put_block_idx) /\ used' = HeldBy(partition', put_block_idx)
    BY <1>4, <1>5, ReleasedPart
  <1> QED
    BY <1>1, <1>6, ListsChange DEF BuffersInv, BuffersTyped

LEMMA CopyKeeps ==
    ASSUME HostFinishes, BuffersInv, CopySectorData PROVE BuffersInv'
  <1>1. PICK src \in Partitions, dst \in Partitions, count \in 0 .. MaxCount :
          LET n == Lesser(count, Len(partition[src])) IN
          /\ PoolIs(Copies[n].pool)
          /\ SetPartition(dst, partition[dst] \o Copies[n].new)
          /\ UNCHANGED <<sized, condtrue, sectsize, transfer, put_block_idx, delivered>>
    BY DEF CopySectorData
  <1> DEFINE n == Lesser(count, Len(partition[src]))
             new == Copies[n].new
             s == partition[dst] \o new
  <1>2. Len(partition[src]) \in Nat /\ partition[dst] \in Seq(Blocks) /\ Injective(partition[dst])
        /\ Members(partition[dst]) \subseteq used
    BY BuffersParts
  <1>3. n \in 0 .. MaxCount
    BY <1>2, HostFinishes DEF HostFinishes, Lesser, BuffersAssumption
  <1>4. SetPartition(dst, s) /\ PoolIs(Copies[n].pool)
    BY <1>1
  <1> HIDE DEF n
  <1>5. /\ Copies[n].pool \in Pools /\ new \in Seq(Blocks) /\ Injective(new)
        /\ Members(new) \cap used = {} /\ Copies[n].pool.used = used \cup Members(new)
    BY <1>3, BuffersParts, CopiesTakeFree
  <1>6. Pool' \in Pools /\ used' = used \cup Members(new)
    BY <1>4, <1>5, PoolBecomes
  <1> HIDE DEF new
  <1>7. s \in Seq(Blocks)
    BY <1>2, <1>5
  <1>8. /\ Replaces(partition', partition, dst, partition[dst] \o new)
        /\ numblocks' = [q \in Partitions |-> Len(partition'[q])]
    <2> HIDE DEF s
    <2>1. Replaces(partition', partition, dst, s) /\ numblocks' = [q \in Partitions |-> Len(partition'[q])]
      BY <1>4, <1>7, OneListSet
    <2> QED
      BY <2>1 DEF s
  <1>9. Members(new) \cap HeldBy(partition, put_block_idx) = {}
    BY <1>5, BuffersParts
  <1>10. /\ Apart(partition', put_block_idx)
         /\ HeldBy(partition', put_block_idx) = HeldBy(partition, put_block_idx) \cup Members(new)
    BY <1>5, <1>8, <1>9, BuffersParts, ListExtended
  <1>11. used' = HeldBy(partition', put_block_idx)
    BY <1>6, <1>10, BuffersParts
  <1> QED
    BY <1>1, <1>6, <1>8, <1>10, <1>11, ListsChange DEF BuffersInv, BuffersTyped

LEMMA MoveSectorsKeeps ==
    ASSUME BuffersInv, MoveSectorData PROVE BuffersInv'
  <1>1. PICK src \in Partitions, dst \in Partitions, count \in 0 .. MaxCount :
          LET n == Lesser(count, Len(partition[src]))
              moved == SubSeq(partition[src], 1, n)
              rest == SubSeq(partition[src], n + 1, Len(partition[src])) IN
          /\ partition' =
                IF src = dst THEN [partition EXCEPT ![src] = rest \o moved]
                ELSE [partition EXCEPT ![src] = rest, ![dst] = @ \o moved]
          /\ numblocks' = [p \in Partitions |->
                IF p \in {src, dst} THEN Len(partition'[p]) ELSE numblocks[p]]
          /\ UNCHANGED <<pool, sized, condtrue, sectsize, transfer, put_block_idx, delivered>>
    BY DEF MoveSectorData
  <1> DEFINE n == Lesser(count, Len(partition[src]))
             front == SubSeq(partition[src], 1, n)
             rest == SubSeq(partition[src], n + 1, Len(partition[src]))
             both == rest \o front
             longer == partition[dst] \o front
  <1>2. /\ partition[src] \in Seq(Blocks) /\ Injective(partition[src]) /\ Len(partition[src]) \in Nat
        /\ partition[dst] \in Seq(Blocks) /\ partition \in [Partitions -> Seq(Blocks)]
        /\ numblocks = [p \in Partitions |-> Len(partition[p])]
        /\ Apart(partition, put_block_idx) /\ used = HeldBy(partition, put_block_idx)
    BY BuffersParts DEF Apart
  <1>3. n \in 0 .. Len(partition[src])
    BY <1>2 DEF Lesser
  <1>4. /\ partition' = IF src = dst THEN [partition EXCEPT ![src] = both]
                        ELSE [partition EXCEPT ![src] = rest, ![dst] = @ \o front]
        /\ numblocks' = [p \in Partitions |->
              IF p \in {src, dst} THEN Len(partition'[p]) ELSE numblocks[p]]
        /\ UNCHANGED <<used, blockfreespace, isbufferfull, sized, condtrue, sectsize,
                       transfer, put_block_idx, delivered>>
    BY <1>1 DEF pool
  <1> HIDE DEF n
  <1>5. /\ front \in Seq(Blocks) /\ Injective(front) /\ rest \in Seq(Blocks) /\ Injective(rest)
        /\ Members(front) \cap Members(rest) = {}
        /\ Members(front) \cup Members(rest) = Members(partition[src])
    BY <1>2, <1>3, ListSplit
  <1> HIDE DEF front, rest
  <1>6. Pool' = Pool
    BY <1>4 DEF Pool
  <1>7. CASE src = dst
    <2>1. both \in Seq(Blocks) /\ Injective(both) /\ Members(both) = Members(partition[src])
      BY <1>5, ListsJoined
    <2> HIDE DEF both
    <2>2. Replaces(partition', partition, src, both)
      BY <1>2, <1>4, <1>7, <2>1 DEF Replaces
    <2>3. /\ Apart(partition', put_block_idx)
          /\ HeldBy(partition', put_block_idx)
               = HeldBy(partition, put_block_idx) \ (Members(partition[src]) \ Members(both))
      BY <1>2, <2>1, <2>2, ListCut
    <2>4. numblocks' = [q \in Partitions |-> Len(partition'[q])]
      BY <1>2, <1>4, <1>7, <2>2 DEF Replaces
    <2> QED
      BY <1>2, <1>4, <1>6, <2>1, <2>3, <2>4, ListsChange, BuffersParts DEF BuffersInv, BuffersTyped
  <1>8. CASE src # dst
    <2> DEFINE L == [partition EXCEPT ![src] = rest]
    <2>1. longer \in Seq(Blocks)
      BY <1>2, <1>5
    <2>2. Replaces(L, partition, src, rest)
      BY <1>2, <1>5 DEF Replaces
    <2>3. partition' = [L EXCEPT ![dst] = longer] /\ L[dst] = partition[dst]
      BY <1>2, <1>4, <1>8
    <2> HIDE DEF L
    <2>4. Members(rest) \subseteq Members(partition[src])
      BY <1>5
    <2>5. /\ Apart(L, put_block_idx)
          /\ HeldBy(L, put_block_idx)
               = HeldBy(partition, put_block_idx) \ (Members(partition[src]) \ Members(rest))
      BY <1>2, <1>5, <2>2, <2>4, ListCut
    <2>6. Members(partition[src]) \ Members(rest) = Members(front)
      BY <1>5
    <2>7. HeldBy(L, put_block_idx) = used \ Members(front) /\ Members(front) \subseteq used
      BY <1>2, <1>5, <2>5, <2>6, BuffersParts
    <2>8. Replaces(partition', L, dst, L[dst] \o front)
      <3> HIDE DEF longer
      <3>1. L \in [Partitions -> Seq(Blocks)]
        BY <2>2 DEF Replaces
      <3>2. Replaces(partition', L, dst, longer)
        BY <2>1, <2>3, <3>1 DEF Replaces
      <3> QED
        BY <2>3, <3>2 DEF longer
    <2>9. Members(front) \cap HeldBy(L, put_block_idx) = {}
      BY <2>7
    <2>10. /\ Apart(partition', put_block_idx)
           /\ HeldBy(partition', put_block_idx) = HeldBy(L, put_block_idx) \cup Members(front)
      BY <1>5, <2>5, <2>8, <2>9, ListExtended
    <2>11. used' = HeldBy(partition', put_block_idx)
      BY <1>4, <2>7, <2>10
    <2>12. numblocks' = [q \in Partitions |-> Len(partition'[q])]
      <3>1. \A q \in Partitions \ {src, dst} : partition'[q] = partition[q]
        BY <2>2, <2>8 DEF Replaces
      <3> QED
        BY <1>2, <1>4, <3>1
    <2> QED
      BY <1>4, <1>6, <2>10, <2>11, <2>12, ListsChange, BuffersParts DEF BuffersInv, BuffersTyped
  <1> QED
    BY <1>7, <1>8

\* What an action of the port leaves when the pool and the lists stay as they are.
LEMMA PortChanges ==
    ASSUME BuffersInv, UNCHANGED <<pool, lists, put_block_idx>>,
           condtrue' \in Partitions \cup {NoPartition}, sectsize' \in [get : SectorSizes, put : SectorSizes],
           transfer' \in {Idle} \cup Gets \cup Puts, PortFollows'
    PROVE  BuffersInv'
  <1>1. UNCHANGED <<used, partition, numblocks, sized, put_block_idx>> /\ Pool' = Pool
    BY DEF pool, lists, Pool
  <1> QED
    BY <1>1 DEF BuffersInv, BuffersTyped

LEMMA SizesArePositive ==
    ASSUME HostFinishes
    PROVE  SectorSizes \subseteq Nat \ {0} /\ MaxCount \in Nat
  BY HostFinishes DEF HostFinishes, BuffersAssumption

LEMMA PortKeeps ==
    ASSUME HostFinishes, BuffersInv,
           \/ EndDataTransfer \/ SetFilterConnection \/ SetSectorLength \/ CalculateActualSize
           \/ GetSectorData \/ ReadPastEnd
    PROVE  BuffersInv'
  <1>0. BuffersTyped /\ PortFollows
    BY DEF BuffersInv
  <1>1. CASE EndDataTransfer
    <2>1. put_block_idx = NoBlock
      BY <1>0, <1>1, HostFinishes DEF HostFinishes, EndDataTransfer, MayDropPut, PortFollows
    <2> QED
      BY <1>0, <1>1, <2>1, PortChanges
      DEF EndDataTransfer, BuffersTyped, PortFollows, Getting, Idle
  <1>2. CASE SetFilterConnection
    BY <1>0, <1>2, PortChanges
    DEF SetFilterConnection, BuffersTyped, PortFollows, Getting, Putting
  <1>3. CASE SetSectorLength
    BY <1>0, <1>3, PortChanges DEF SetSectorLength, BuffersTyped, PortFollows, Getting, Putting
  <1>4. CASE CalculateActualSize
    <2>1. UNCHANGED <<used, blockfreespace, isbufferfull, partition, numblocks, condtrue, sectsize,
                      transfer, put_block_idx, delivered>>
      BY <1>4 DEF CalculateActualSize, pool
    <2>2. sized' \in [Partitions -> BOOLEAN]
      BY <1>0, <1>4 DEF CalculateActualSize, BuffersTyped
    <2>3. Pool' = Pool
      BY <2>1 DEF Pool
    <2> QED
      BY <1>0, <2>1, <2>2, <2>3, BuffersParts, ListsChange DEF BuffersTyped
  <1>5. CASE GetSectorData
    <2>1. PICK p \in Partitions, kind \in {"GetSector", "GetDeleteSector"},
               offset \in 0 .. MaxCount, count \in 0 .. MaxCount :
            /\ MayDropPut
            /\ transfer' = [type |-> kind, part |-> p, sectoffset |-> 0, sectsize |-> sectsize.get,
                            block |-> Lesser(offset, Len(partition[p])),
                            left |-> count * sectsize.get]
            /\ delivered' = 0
            /\ UNCHANGED <<pool, lists, condtrue, sectsize, put_block_idx>>
      BY <1>5 DEF GetSectorData
    <2>2. put_block_idx = NoBlock
      BY <1>0, <2>1, HostFinishes DEF HostFinishes, MayDropPut, PortFollows
    <2>3. sectsize.get \in Nat \ {0} /\ count \in Nat /\ offset \in Nat /\ Len(partition[p]) \in Nat
      <3>1. sectsize.get \in SectorSizes /\ Len(partition[p]) \in Nat
        BY <1>0, BuffersParts DEF BuffersTyped
      <3>2. sectsize.get \in Nat \ {0}
        BY <3>1, SizesArePositive
      <3>3. count \in Nat /\ offset \in Nat
        BY SizesArePositive
      <3> QED
        BY <3>1, <3>2, <3>3
    <2>4. Lesser(offset, Len(partition[p])) \in Nat /\ count * sectsize.get \in Int
      BY <2>3 DEF Lesser
    <2>5. transfer' \in Gets
      BY <2>1, <2>3, <2>4 DEF Gets
    <2>6. PortFollows'
      BY <2>1, <2>2, <2>3 DEF PortFollows, Getting
    <2> QED
      BY <1>0, <2>1, <2>5, <2>6, PortChanges DEF BuffersTyped
  <1>6. CASE ReadPastEnd
    <2>1. put_block_idx = NoBlock
      BY <1>0, <1>6 DEF ReadPastEnd, PortFollows, Getting, Putting
    <2> QED
      BY <1>0, <1>6, <2>1, PortChanges DEF ReadPastEnd, BuffersTyped, PortFollows, Getting, Idle
  <1> QED
    BY <1>1, <1>2, <1>3, <1>4, <1>5, <1>6

\* A block allocated for a put that has none.
LEMMA PutTakesABlock ==
    ASSUME HostFinishes, BuffersInv, NEW L \in [Partitions -> Seq(Blocks)], Apart(L, NoBlock), used = HeldBy(L, NoBlock),
           PoolIs(AfterAllocate(Pool)), put_block_idx' = Allocated(Pool)
    PROVE  /\ Pool' \in Pools /\ put_block_idx' \in Blocks \cup {NoBlock}
           /\ Apart(L, put_block_idx') /\ used' = HeldBy(L, put_block_idx')
  <1> DEFINE b == Allocated(Pool)
  <1>1. /\ AfterAllocate(Pool) \in Pools
        /\ \/ b = NoBlock /\ AfterAllocate(Pool).used = used
           \/ b \in Blocks \ used /\ AfterAllocate(Pool).used = used \cup {b}
    BY BuffersParts, AllocateTakesAFree
  <1>2. Pool' \in Pools /\ used' = AfterAllocate(Pool).used
    BY <1>1, PoolBecomes
  <1> HIDE DEF b
  <1>3. put_block_idx' = b
    BY DEF b
  <1>4. CASE b = NoBlock
    BY <1>1, <1>2, <1>3, <1>4, BlocksAreNumbers
  <1>5. CASE b \in Blocks \ used /\ AfterAllocate(Pool).used = used \cup {b}
    <2>1. HeldBy(L, NoBlock) = UNION {Members(L[p]) : p \in Partitions}
      BY BlocksAreNumbers DEF HeldBy
    <2>2. Apart(L, b)
      BY <1>5, <2>1 DEF Apart
    <2>3. HeldBy(L, b) = HeldBy(L, NoBlock) \cup {b}
      BY <1>5, <2>1 DEF HeldBy
    <2> QED
      BY <1>2, <1>3, <1>5, <2>2, <2>3
  <1> QED
    BY <1>1, <1>4, <1>5

LEMMA PutKeeps ==
    ASSUME HostFinishes, BuffersInv, PutSectorData PROVE BuffersInv'
  <1>0. BuffersTyped /\ PortFollows
    BY DEF BuffersInv
  <1>1. PICK p \in Partitions, count \in 0 .. MaxCount :
          /\ MayDropPut
          /\ transfer' = [type |-> "PutSector", part |-> p, written |-> 0,
                          sectsize |-> sectsize.put, left |-> count * sectsize.put]
          /\ put_block_idx' = Allocated(Pool)
          /\ PoolIs(AfterAllocate(Pool))
          /\ delivered' = 0
          /\ UNCHANGED <<lists, condtrue, sectsize>>
    BY DEF PutSectorData
  <1>2. put_block_idx = NoBlock
    BY <1>0, <1>1, HostFinishes DEF HostFinishes, MayDropPut, PortFollows
  <1>3. /\ Apart(partition, NoBlock) /\ used = HeldBy(partition, NoBlock)
        /\ partition \in [Partitions -> Seq(Blocks)]
    BY <1>2 DEF BuffersInv, Apart
  <1>4. /\ Pool' \in Pools /\ put_block_idx' \in Blocks \cup {NoBlock}
        /\ Apart(partition, put_block_idx') /\ used' = HeldBy(partition, put_block_idx')
    BY <1>1, <1>3, PutTakesABlock
  <1>5. sectsize.put \in Nat \ {0} /\ count \in Nat /\ count * sectsize.put \in Int
    <2>1. sectsize.put \in SectorSizes
      BY <1>0 DEF BuffersTyped
    <2>2. sectsize.put \in Nat \ {0}
      BY <2>1, SizesArePositive
    <2>3. count \in Nat
      BY SizesArePositive
    <2> QED
      BY <2>2, <2>3
  <1>6. transfer' \in Puts /\ transfer'.type = "PutSector"
    BY <1>1, <1>5 DEF Puts
  <1>7. PortFollows'
    BY <1>6 DEF PortFollows, Putting, Getting
  <1>8. UNCHANGED <<partition, numblocks, sized, condtrue, sectsize>>
    BY <1>1 DEF lists
  <1> QED
    BY <1>0, <1>4, <1>6, <1>7, <1>8 DEF BuffersInv, BuffersTyped

LEMMA ReadKeeps ==
    ASSUME HostFinishes, BuffersInv, ReadLong
    PROVE  BuffersInv' /\ DeletesWhatItDelivered
  <1>0. BuffersTyped /\ PortFollows /\ transfer \in Gets
    BY DEF BuffersInv, BuffersTyped, ReadLong, Getting, Idle, Puts
  <1> DEFINE p == transfer.part
             k == transfer.block
             finished == transfer.sectoffset + 1 >= transfer.sectsize
             list == ListAfterRead(partition[p], finished)
             next == IF finished /\ transfer.type = "GetSector" THEN k + 1 ELSE k
             left == IF transfer.left = 0 THEN 0 ELSE transfer.left - 1
             offset == IF finished THEN 0 ELSE transfer.sectoffset + 1
             more == [transfer EXCEPT !.sectoffset = offset, !.block = next, !.left = left]
  <1>1. /\ Getting /\ k < Len(partition[p])
        /\ SetPartition(p, list)
        /\ PoolIs(IF finished /\ transfer.type = "GetDeleteSector"
                  THEN AfterFree(Pool, <<partition[p][k + 1]>>) ELSE Pool)
        /\ transfer' = IF left = 0 \/ next >= Len(list) THEN Idle ELSE more
        /\ delivered' = IF finished \/ transfer' = Idle THEN 0 ELSE delivered + 1
        /\ UNCHANGED <<sized, condtrue, sectsize, put_block_idx>>
    BY DEF ReadLong
  <1>2. /\ p \in Partitions /\ k \in Nat /\ transfer.sectoffset \in Nat /\ transfer.sectsize \in Nat \ {0}
        /\ delivered = transfer.sectoffset /\ transfer.sectoffset < transfer.sectsize
        /\ transfer.left \in Int
    BY <1>0, <1>1 DEF Gets, PortFollows
  <1>3. /\ partition[p] \in Seq(Blocks) /\ Injective(partition[p]) /\ Members(partition[p]) \subseteq used
        /\ Len(partition[p]) \in Nat
    BY <1>2, BuffersParts
  <1>4. put_block_idx = NoBlock
    BY <1>1, <1>0 DEF PortFollows, Getting, Putting
  <1>5. transfer' \in {Idle} \cup Gets /\ PortFollows'
    <2>1. next \in Nat /\ left \in Int /\ offset \in Nat /\ offset < transfer.sectsize
      BY <1>2
    <2>2. CASE transfer' = Idle
      <3>1. put_block_idx' = NoBlock
        BY <1>1, <1>4
      <3>2. ~Getting'
        BY <2>2 DEF Getting, Idle
      <3> QED
        BY <2>2, <3>1, <3>2 DEF PortFollows
    <2>3. CASE transfer' # Idle
      <3>1. transfer' = more /\ delivered' = offset
        BY <1>1, <1>2, <2>3
      <3> HIDE DEF next, left, offset
      <3>2. more \in Gets /\ more.sectsize = transfer.sectsize /\ more.sectoffset = offset
        BY <1>0, <2>1 DEF Gets
      <3> HIDE DEF more
      <3> QED
        BY <1>1, <1>4, <2>1, <3>1, <3>2 DEF PortFollows
    <2> QED
      BY <2>2, <2>3
  <1>6. /\ condtrue' \in Partitions \cup {NoPartition} /\ sized' \in [Partitions -> BOOLEAN]
        /\ sectsize' \in [get : SectorSizes, put : SectorSizes]
        /\ put_block_idx' = put_block_idx /\ put_block_idx' \in Blocks \cup {NoBlock}
    BY <1>0, <1>1 DEF BuffersTyped
  <1>7. CASE finished /\ transfer.type = "GetDeleteSector"
    <2> DEFINE b == partition[p][k + 1]
    <2>1. list = SubSeq(partition[p], 1, k) \o SubSeq(partition[p], k + 2, Len(partition[p]))
      BY <1>7 DEF ListAfterRead
    <2>2. list \in Seq(Blocks) /\ Injective(list) /\ Members(list) = Members(partition[p]) \ {b}
      BY <1>1, <1>2, <1>3, <2>1, ListWithout
    <2>3. b \in Blocks /\ b \in Members(partition[p])
      <3>1. k + 1 \in DOMAIN partition[p]
        BY <1>1, <1>2, <1>3
      <3> QED
        BY <1>3, <3>1 DEF Members
    <2>4. <<b>> \in Seq(Blocks) /\ Members(<<b>>) = {b}
      BY <2>3 DEF Members
    <2>5. SetPartition(p, list) /\ PoolIs(AfterFree(Pool, <<b>>))
      BY <1>1, <1>7
    <2> HIDE DEF b, list
    <2>6. Members(list) \cap Members(<<b>>) = {} /\ Members(list) \cup Members(<<b>>) = Members(partition[p])
      BY <2>2, <2>3, <2>4
    <2>7. /\ Pool' \in Pools /\ numblocks' = [q \in Partitions |-> Len(partition'[q])]
          /\ Apart(partition', put_block_idx) /\ used' = HeldBy(partition', put_block_idx)
          /\ partition'[p] = list
      BY <1>2, <2>2, <2>4, <2>5, <2>6, ReleasedPart
    <2>8. BuffersInv'
      BY <1>5, <1>6, <2>7 DEF BuffersInv, BuffersTyped
    <2>9. DeletesWhatItDelivered
      <3>1. Members(partition[p]) \ Members(partition'[p]) = {b}
        BY <2>2, <2>3, <2>7
      <3>2. delivered + 1 = transfer.sectsize
        BY <1>2, <1>7
      <3> QED
        BY <3>1, <3>2 DEF DeletesWhatItDelivered, b
    <2> QED
      BY <2>8, <2>9
  <1>8. CASE ~(finished /\ transfer.type = "GetDeleteSector")
    <2>1. list = partition[p]
      BY <1>8 DEF ListAfterRead
    <2>2. PoolIs(Pool) /\ SetPartition(p, partition[p])
      BY <1>1, <1>8, <2>1
    <2>3. Pool' \in Pools /\ used' = used
      BY <2>2, BuffersParts, PoolBecomes
    <2>4. /\ Replaces(partition', partition, p, partition[p])
          /\ numblocks' = [q \in Partitions |-> Len(partition'[q])]
          /\ partition'[p] = partition[p]
      BY <1>2, <1>3, <2>2, OneListSet
    <2>5. partition' = partition
      BY <2>4, BuffersParts DEF Replaces, Apart
    <2>6. Apart(partition', put_block_idx) /\ used' = HeldBy(partition', put_block_idx)
      BY <2>3, <2>5, BuffersParts
    <2>7. BuffersInv'
      BY <1>5, <1>6, <2>3, <2>4, <2>6 DEF BuffersInv, BuffersTyped
    <2>8. DeletesWhatItDelivered
      BY <2>5 DEF DeletesWhatItDelivered
    <2> QED
      BY <2>7, <2>8
  <1> QED
    BY <1>7, <1>8

LEMMA WriteKeeps ==
    ASSUME HostFinishes, BuffersInv, WriteLong PROVE BuffersInv'
  <1>0. BuffersTyped /\ PortFollows /\ transfer \in Puts
    BY DEF BuffersInv, BuffersTyped, WriteLong, Putting, Idle, Gets
  <1> DEFINE p == transfer.part
             left == IF transfer.left = 0 THEN 0 ELSE transfer.left - 1
             b == put_block_idx
  <1>1. /\ p \in Partitions /\ left \in Int /\ b \in Blocks /\ transfer.type = "PutSector"
        /\ transfer.written \in Nat
    BY <1>0 DEF Puts, WriteLong, BuffersTyped
  <1>2. condtrue' = condtrue /\ sectsize' = sectsize /\ delivered' = delivered
    BY DEF WriteLong
  <1>3. CASE transfer.written + 1 < transfer.sectsize
    <2>1. /\ transfer' = [transfer EXCEPT !.written = @ + 1, !.left = left]
          /\ UNCHANGED <<pool, lists, put_block_idx>>
      BY <1>3 DEF WriteLong
    <2>2. transfer' \in Puts /\ transfer'.type = "PutSector"
      <3> HIDE DEF left
      <3>1. left \in Int /\ transfer.written + 1 \in Nat
        BY <1>1
      <3> QED
        BY <1>0, <2>1, <3>1 DEF Puts
    <2>3. PortFollows'
      BY <2>2 DEF PortFollows, Putting, Getting
    <2> QED
      BY <1>0, <1>2, <2>1, <2>2, <2>3, PortChanges DEF BuffersTyped
  <1>4. CASE ~(transfer.written + 1 < transfer.sectsize)
    <2>1. /\ SetPartition(p, Append(partition[p], b))
          /\ sized' = [sized EXCEPT ![p] = TRUE]
          /\ IF left > 0
             THEN /\ put_block_idx' = Allocated(Pool)
                  /\ PoolIs(AfterAllocate(Pool))
                  /\ transfer' = [transfer EXCEPT !.written = 0, !.left = left]
             ELSE /\ put_block_idx' = NoBlock
                  /\ transfer' = Idle
                  /\ UNCHANGED pool
      BY <1>4 DEF WriteLong
    <2>2. sized' \in [Partitions -> BOOLEAN]
      BY <1>0, <2>1 DEF BuffersTyped
    <2> HIDE DEF left, b
    <2>3. partition[p] \in Seq(Blocks) /\ Append(partition[p], b) \in Seq(Blocks)
      <3>1. partition[p] \in Seq(Blocks)
        BY <1>1, BuffersParts
      <3> QED
        BY <1>1, <3>1
    <2>4. /\ Replaces(partition', partition, p, Append(partition[p], b))
          /\ numblocks' = [q \in Partitions |-> Len(partition'[q])]
      BY <1>1, <2>1, <2>3, OneListSet
    <2>5. /\ Apart(partition, NoBlock) /\ b \notin HeldBy(partition, NoBlock)
          /\ used = HeldBy(partition, NoBlock) \cup {b}
      <3>1. Apart(partition, b) /\ used = HeldBy(partition, b)
        BY BuffersParts DEF b
      <3>2. \A q \in Partitions : NoBlock \notin Members(partition[q])
        <4>1. \A q \in Partitions : Members(partition[q]) \subseteq Blocks
          <5>1. \A q \in Partitions : partition[q] \in Seq(Blocks)
            BY BuffersParts
          <5> QED
            BY <5>1 DEF Members
        <4> QED
          BY <4>1, BlocksAreNumbers
      <3>3. Apart(partition, NoBlock)
        BY <3>1, <3>2 DEF Apart
      <3>4. HeldBy(partition, NoBlock) = UNION {Members(partition[q]) : q \in Partitions}
        BY BlocksAreNumbers DEF HeldBy
      <3>5. b \notin HeldBy(partition, NoBlock)
        BY <3>1, <3>4 DEF Apart
      <3>6. used = HeldBy(partition, NoBlock) \cup {b}
        BY <1>1, <3>1, <3>4 DEF HeldBy
      <3> QED
        BY <3>3, <3>5, <3>6
    <2>6. Apart(partition', NoBlock) /\ HeldBy(partition', NoBlock) = HeldBy(partition, NoBlock) \cup {b}
      BY <1>1, <2>4, <2>5, ListAppended
    <2>7. used = HeldBy(partition', NoBlock) /\ partition' \in [Partitions -> Seq(Blocks)]
      BY <2>5, <2>6 DEF Apart
    <2>8. CASE left > 0
      <3>1. /\ Pool' \in Pools /\ put_block_idx' \in Blocks \cup {NoBlock}
            /\ Apart(partition', put_block_idx') /\ used' = HeldBy(partition', put_block_idx')
        BY <2>1, <2>6, <2>7, <2>8, PutTakesABlock
      <3>2. transfer' \in Puts /\ transfer'.type = "PutSector"
        <4>1. transfer' = [transfer EXCEPT !.written = 0, !.left = left] /\ left \in Int
          BY <1>1, <2>1, <2>8
        <4> QED
          BY <1>0, <4>1 DEF Puts
      <3>3. PortFollows'
        BY <3>2 DEF PortFollows, Putting, Getting
      <3> QED
        BY <1>0, <1>2, <2>2, <2>4, <3>1, <3>2, <3>3 DEF BuffersInv, BuffersTyped
    <2>9. CASE ~(left > 0)
      <3>1. put_block_idx' = NoBlock /\ transfer' = Idle /\ UNCHANGED <<used, blockfreespace, isbufferfull>>
        BY <2>1, <2>9 DEF pool
      <3>2. Pool' = Pool /\ used' = used
        BY <3>1 DEF Pool
      <3>3. PortFollows'
        BY <3>1 DEF PortFollows, Getting, Idle
      <3> QED
        BY <1>0, <1>2, <2>2, <2>4, <2>6, <2>7, <3>1, <3>2, <3>3 DEF BuffersInv, BuffersTyped
    <2> QED
      BY <2>8, <2>9
  <1> QED
    BY <1>3, <1>4

LEMMA BuffersStep ==
    ASSUME HostFinishes
    PROVE  BuffersInv /\ [Next]_vars => BuffersInv' /\ (ReadLong => DeletesWhatItDelivered)
  <1> SUFFICES ASSUME BuffersInv, [Next]_vars PROVE BuffersInv'
    BY ReadKeeps
  <1>1. CASE UNCHANGED vars
    <2>1. /\ UNCHANGED <<used, blockfreespace, isbufferfull, partition, numblocks, sized,
                         condtrue, sectsize, transfer, put_block_idx, delivered>>
      BY <1>1 DEF vars
    <2>2. Pool' = Pool /\ Getting' = Getting /\ Putting' = Putting
      BY <2>1 DEF Pool, Getting, Putting
    <2> QED
      BY <2>1, <2>2 DEF BuffersInv, BuffersTyped, PortFollows
  <1>2. CASE Next
    BY <1>2, StoreSectorKeeps, InitializeKeeps, ResetKeeps, DeleteKeeps, CopyKeeps, MoveSectorsKeeps,
       PortKeeps, PutKeeps, ReadKeeps, WriteKeeps DEF Next
  <1> QED
    BY <1>1, <1>2

\* A block in use is in one place, and the counts are those of the lists.
LEMMA BuffersAreExact == BuffersInv => OneOwner /\ CountsAgree
  <1> SUFFICES ASSUME BuffersInv PROVE OneOwner /\ CountsAgree
    OBVIOUS
  <1>1. CountsAgree
    <2>1. blockfreespace = MAX_BLOCKS - Cardinality(used)
      BY BuffersParts DEF Pools, Pool
    <2> QED
      BY <2>1, BuffersParts DEF CountsAgree
  <1>2. ASSUME NEW b \in Blocks PROVE HeldAt(b) = IF b \in used THEN 1 ELSE 0
    <2> DEFINE S == {at \in Places : partition[at[1]][at[2]] = b}
    <2>1. \A at : at \in Places <=> \E q \in Partitions : \E i \in DOMAIN partition[q] : at = <<q, i>>
      BY DEF Places
    <2>2. Apart(partition, put_block_idx) /\ used = HeldBy(partition, put_block_idx)
      BY BuffersParts
    <2>3. HeldAt(b) = Cardinality(S) + (IF put_block_idx = b THEN 1 ELSE 0)
      BY DEF HeldAt
    <2>4. CASE \E p \in Partitions : b \in Members(partition[p])
      <3>1. PICK p \in Partitions : b \in Members(partition[p])
        BY <2>4
      <3>2. PICK i \in DOMAIN partition[p] : partition[p][i] = b
        BY <3>1 DEF Members
      <3>3. \A q \in Partitions : \A j \in DOMAIN partition[q] : partition[q][j] = b => q = p /\ j = i
        BY <2>2, <3>2 DEF Apart
      <3>4. S = {<<p, i>>}
        <4>1. ASSUME NEW at \in S PROVE at = <<p, i>>
          BY <2>1, <3>3
        <4>2. <<p, i>> \in S
          BY <2>1, <3>2
        <4> QED
          BY <4>1, <4>2
      <3>5. Cardinality(S) = 1
        BY <3>4, FS_Singleton
      <3>6. put_block_idx # b /\ b \in used
        BY <2>2, <3>1 DEF Apart, HeldBy
      <3> QED
        BY <2>3, <3>5, <3>6
    <2>5. CASE ~\E p \in Partitions : b \in Members(partition[p])
      <3>1. S = {}
        BY <2>1, <2>5 DEF Members
      <3>2. Cardinality(S) = 0
        BY <3>1, FS_EmptySet
      <3>3. b \in used <=> put_block_idx = b
        BY <2>2, <2>5 DEF HeldBy
      <3> QED
        BY <2>3, <3>2, <3>3
    <2> QED
      BY <2>4, <2>5
  <1> QED
    BY <1>1, <1>2 DEF OneOwner

=============================================================================
