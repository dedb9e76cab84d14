----------------------------- MODULE MCCodeCache -----------------------------
(***************************************************************************)
(* A small machine for TLC: a work RAM of four cells in two chunks that is *)
(* mapped twice (cells 6-9 are the image of cells 2-5, as the 1 MiB of     *)
(* work RAM high repeats in its window), and nothing below or above it.    *)
(***************************************************************************)
EXTENDS CodeCache

MCPhys == 12
MCSlots ==
    {[base |-> 2, len |-> 8, mirror |-> 4, tracked |-> TRUE,  writable |-> TRUE]}

\* Physical address p as seen through segment s.
Via(s, p) == s * MCPhys + p

\* Blocks that stay inside one image of the RAM: at its first cell, and at its
\* second cell in the other image and through the cache-through segment.  The
\* longest block, of three cells, fits at both, and the two overlap.
MCCodeAddrs == {Via(0, 2), Via(1, 7)}

\* Stores by either segment and either image.  A store of two cells at 3 ends
\* in the other chunk.
MCStoreAddrs == {Via(0, 2), Via(1, 3), Via(0, 9)}

\* Code at the last cells of the first image, which goes on into the second.
WrapCodeAddrs == {Via(0, 4), Via(0, 5)}

=============================================================================
