------------------------------ MODULE MCMemory ------------------------------
(***************************************************************************)
(* Instances of Memory for TLC: 16 pages in 4 bytes, tables of 4 entries,  *)
(* an address unit of half a page.                                         *)
(***************************************************************************)
EXTENDS Memory, TLC

\* an overlapping change is looked at and not continued
UpToOverlap == ~overlap

Workers == Permutations(Procs \ {InitProc})

\* low memory, the table itself and what is above the end of memory
MCUnusable == {0, 3, 9, 12, 13, 14, 15}

Args(v, p, len) == [v |-> v, p |-> p, len |-> len]

\* two new pages; two given ones, the second partial, over the border of two
\* tables; an address that is not aligned; one that is protected
MCMmapArgs == {Args(8, 0, 4), Args(14, 24, 3), Args(9, 0, 2), Args(6, 0, 2)}

ASSUME RangesArePlain == PlainRanges
=============================================================================
