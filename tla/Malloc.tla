------------------------------- MODULE Malloc -------------------------------
(***************************************************************************)
(* The block allocator of MALLOC/malloc.c as operators on its status       *)
(* table.  A pool is NBlocks blocks of BlockSize bytes; the table          *)
(* (memmap) holds, for each block, 0 when it is free and otherwise the     *)
(* number of blocks of the allocation it is part of.  Pointers are block   *)
(* numbers, because every pointer the allocator returns is                 *)
(* offset * memblksize.  The counters nmemb and cmemb are u16: Width       *)
(* stands for 2^16.                                                        *)
(* The operators take the table as an argument, so that they can say what  *)
(* several calls in a row do to it; memmap is the table itself.            *)
(***************************************************************************)
EXTENDS Integers

CONSTANTS NBlocks,    \* memtblsize[memx]
          BlockSize,  \* memblksize[memx], in bytes
          Width       \* 2^16, the number of values of a u16

\* The tables of the three pools (3200, 6400 and 1920 entries, malloc.h:29-42)
\* are all shorter than 2^16.
ASSUME PoolAssumption == /\ NBlocks \in Nat \ {0}
                         /\ BlockSize \in Nat \ {0}
                         /\ Width \in Nat
                         /\ NBlocks < Width

VARIABLE memmap   \* mallco_dev.memmap[memx]

Block == 0 .. NBlocks - 1
U16   == 0 .. Width - 1
NULL  == -1

ZeroMap == [b \in Block |-> 0]

\* Seeded faults.  A definition called Mut... is a deliberately wrong variant
\* of the definition after it; no specification uses it.

\* Fault: the last, partly filled block of a request is not counted.
MutNmembNoRoundUp(size) == (size \div BlockSize) % Width

\* The number of blocks a request of size bytes needs, kept in a u16.
Nmemb(size) ==
  (size \div BlockSize + (IF size % BlockSize # 0 THEN 1 ELSE 0)) % Width

\* Fault: the search stops one free block short of the run it needs.
MutFitsShortRun(m, o, n) ==
  o + n <= NBlocks /\ \A b \in o .. o + n - 2 : m[b] = 0

\* The search counts consecutive free blocks downwards from the top of the
\* table and stops at the first block where the count equals nmemb.  A count
\* of 0 is reached at the first block that is in use.
Fits(m, o, n) ==
  IF n = 0 THEN m[o] # 0
           ELSE o + n <= NBlocks /\ \A b \in o .. o + n - 1 : m[b] = 0

IsFirstFit(m, o, n) ==
  Fits(m, o, n) /\ \A p \in Block : Fits(m, p, n) => p <= o

FirstFit(m, n) ==
  IF \E o \in Block : Fits(m, o, n)
  THEN CHOOSE o \in Block : IsFirstFit(m, o, n)
  ELSE NULL

Marked(m, o, n) == [b \in Block |-> IF b \in o .. o + n - 1 THEN n ELSE m[b]]

\* mymem_malloc on a table that is ready: the pointer and the new table.
AllocPtr(m, size) == IF size = 0 THEN NULL ELSE FirstFit(m, Nmemb(size))

AllocMap(m, size) ==
  IF AllocPtr(m, size) = NULL
  THEN m
  ELSE Marked(m, AllocPtr(m, size), Nmemb(size))

\* Fault: the clearing loop stops one block early.
MutFreeMapShort(m, p) ==
  IF p = NULL
  THEN m
  ELSE [b \in Block |-> IF b \in p .. p + m[p] - 2 THEN 0 ELSE m[b]]

\* mymem_free on a table that is ready, reached through myfree, which
\* returns at once for a null pointer.
FreeMap(m, p) ==
  IF p = NULL
  THEN m
  ELSE [b \in Block |-> IF b \in p .. p + m[p] - 1 THEN 0 ELSE m[b]]

\* The blocks the table says start at p.
Extent(m, p) == p .. p + m[p] - 1
=============================================================================
