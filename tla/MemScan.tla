------------------------------ MODULE MemScan -------------------------------
(***************************************************************************)
(* The two loops of MALLOC/malloc.c, one iteration per step: the search    *)
(* and the marking of mymem_malloc, and the clearing of mymem_free.  Where *)
(* Malloc says what a call returns, this module says how the code gets     *)
(* there with two u16 counters and one pass over the table.  A behaviour   *)
(* is one call on an arbitrary table that the allocator can have produced. *)
(***************************************************************************)
EXTENDS Malloc

CONSTANT MaxLen   \* bound on the run lengths of the initial table

ASSUME MaxLenAssumption == MaxLen \in Nat

VARIABLES loop,    \* the loop the call is in
          nmemb,   \* blocks wanted, or blocks to clear (u16)
          cmemb,   \* consecutive free blocks seen (u16)
          offset,  \* signed long: the block the loop is at, or index
          i,
          memmap0, arg   \* the table and the argument of the call

scanVars == <<loop, memmap, nmemb, cmemb, offset, i, memmap0, arg>>
callArgs == <<memmap0, arg>>

\* The tables the allocator produces: maximal stretches of used blocks are
\* tiled by allocations.
StartsAt(m, b) == m[b] > 0 /\ \A d \in b .. b + m[b] - 1 : d \in Block /\ m[d] = m[b]
Tiling(m, S) ==
  /\ \A b \in S : StartsAt(m, b)
  /\ \A b \in Block : m[b] > 0 => \E s \in S : b \in Extent(m, s)
  /\ \A s, t \in S : s # t => Extent(m, s) \cap Extent(m, t) = {}
Table(m) == \E S \in SUBSET Block : Tiling(m, S)

MallocCall == /\ arg \in 1 .. Width - 1
              /\ loop = "scan"
              /\ nmemb = arg
              /\ offset = NBlocks - 1

FreeCall == /\ arg \in {b \in Block : \E S \in SUBSET Block : b \in S /\ Tiling(memmap0, S)}
            /\ loop = "clear"
            /\ nmemb = memmap0[arg]
            /\ offset = arg

ScanInit == /\ memmap0 \in {m \in [Block -> 0 .. MaxLen] : Table(m)}
            /\ memmap = memmap0
            /\ cmemb = 0
            /\ i = 0
            /\ MallocCall \/ FreeCall

\* Fault: a used block does not restart the count.
MutCountedNoReset == IF memmap[offset] = 0 THEN (cmemb + 1) % Width ELSE cmemb

Counted == IF memmap[offset] = 0 THEN (cmemb + 1) % Width ELSE 0

\* Fault: offset is unsigned and wraps below zero.
MutScanUnsigned ==
  /\ loop = "scan" /\ offset >= 0
  /\ cmemb' = Counted
  /\ IF Counted = nmemb
     THEN loop' = "mark" /\ offset' = offset
     ELSE loop' = loop /\ offset' = (offset + NBlocks - 1) % NBlocks
  /\ UNCHANGED <<memmap, nmemb, i, callArgs>>

Scan == /\ loop = "scan" /\ offset >= 0
        /\ cmemb' = Counted
        /\ IF Counted = nmemb
           THEN loop' = "mark" /\ offset' = offset
           ELSE loop' = loop /\ offset' = offset - 1
        /\ UNCHANGED <<memmap, nmemb, i, callArgs>>

NotFound == /\ loop = "scan" /\ offset < 0
            /\ loop' = "failed"
            /\ UNCHANGED <<memmap, nmemb, cmemb, offset, i, callArgs>>

Write(v) == /\ i < nmemb
            /\ memmap' = [memmap EXCEPT ![offset + i] = v]
            /\ i' = i + 1
            /\ UNCHANGED <<loop, nmemb, cmemb, offset, callArgs>>

Mark  == loop = "mark" /\ Write(nmemb)
Clear == loop = "clear" /\ Write(0)

Return == /\ loop \in {"mark", "clear"} /\ i >= nmemb
          /\ loop' = IF loop = "mark" THEN "found" ELSE "freed"
          /\ UNCHANGED <<memmap, nmemb, cmemb, offset, i, callArgs>>

ScanNext == Scan \/ NotFound \/ Mark \/ Clear \/ Return

ScanSpec == ScanInit /\ [][ScanNext]_scanVars /\ WF_scanVars(ScanNext)

-----------------------------------------------------------------------------
(* Correctness.                                                            *)

\* The counters stay within a u16 and the table is never indexed outside
\* its bounds, neither by the search nor by the writes (malloc.c:97-106,
\* 129-132).
ScanTypeOK == /\ loop \in {"scan", "mark", "clear", "found", "freed", "failed"}
              /\ memmap \in [Block -> U16]
              /\ nmemb \in U16 /\ cmemb \in U16
              /\ offset \in -1 .. NBlocks - 1
              /\ i \in 0 .. nmemb
              /\ (loop \in {"mark", "clear"} /\ i < nmemb) => offset + i \in Block

\* A search that succeeds returns the block that FirstFit names and leaves
\* the table AllocMap describes (malloc.c:97-107).
FoundIsFirstFit ==
  loop = "found" => /\ offset = FirstFit(memmap0, arg)
                    /\ memmap = Marked(memmap0, offset, arg)

\* A search fails only when no run of free blocks is long enough, and then
\* it has written nothing (malloc.c:97-110).
FailsOnlyWhenFull ==
  loop = "failed" => FirstFit(memmap0, arg) = NULL /\ memmap = memmap0

\* A release clears the extent of the pointer and no other block
\* (malloc.c:127-132).
FreedIsFreeMap == loop = "freed" => memmap = FreeMap(memmap0, arg)

\* The loops do what MemPool's operators say they do.
ScanAgrees == ScanTypeOK /\ FoundIsFirstFit /\ FailsOnlyWhenFull /\ FreedIsFreeMap

\* Every call returns (malloc.c:97, 129).
Returns == <>(loop \in {"found", "freed", "failed"})
=============================================================================
