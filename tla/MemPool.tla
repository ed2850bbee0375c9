------------------------------ MODULE MemPool -------------------------------
(***************************************************************************)
(* One pool of MALLOC/malloc.c and the clients that hold pointers into it. *)
(* Only the main loop calls the allocator (no interrupt handler does and   *)
(* usmart exports none of its functions), so each call is one action.      *)
(*                                                                         *)
(* want[b] is the size of the request that the pointer b answers, 0 when   *)
(* no client holds b: it is what the program's pointers are, the allocator *)
(* itself keeps no record of them beyond memmap.                           *)
(***************************************************************************)
EXTENDS Malloc

CONSTANTS Sizes,    \* the sizes requested, in bytes
          Garbage   \* what a table entry may hold before mymem_init: the
                    \* tables of the SRAMEX and CCM pools are not zeroed

\* Every request of the program is far below 2^16 blocks (2 MB): the largest
\* is the lwIP heap, about 16 KB (lwip_comm.c:57).
ASSUME SizesAssumption == \A s \in Sizes : s \in Nat /\ s <= (Width - 1) * BlockSize
ASSUME GarbageAssumption == Garbage # {} /\ Garbage \subseteq U16

VARIABLES memrdy,   \* mallco_dev.memrdy[memx]
          want,     \* the clients' pointers
          call      \* the last call and what it returned

vars == <<memmap, memrdy, want, call>>

Live == {b \in Block : want[b] > 0}
Holds(p) == p = NULL \/ p \in Live

Init == /\ memmap \in [Block -> Garbage]
        /\ memrdy = FALSE
        /\ want = [b \in Block |-> 0]
        /\ call = [op |-> "none", ptr |-> NULL, size |-> 0, ret |-> NULL]

\* The table after the "not ready: initialise first" test that opens
\* mymem_malloc.
Ready == IF memrdy THEN memmap ELSE ZeroMap

\* main initialises each pool once, before anything is allocated from it.
MemInit == /\ Live = {}
           /\ memmap' = ZeroMap
           /\ memrdy' = TRUE
           /\ UNCHANGED <<want, call>>

MyMalloc(size) ==
  LET p == AllocPtr(Ready, size)
  IN  /\ memmap' = AllocMap(Ready, size)
      /\ memrdy' = TRUE
      /\ want' = [b \in Block |-> IF b = p THEN size ELSE want[b]]
      /\ call' = [op |-> "malloc", ptr |-> NULL, size |-> size, ret |-> p]

\* myfree returns at once for NULL; mymem_free on a pool that is not ready
\* initialises it and frees nothing.
MyFree(p) ==
  /\ memmap' = IF p # NULL /\ ~memrdy THEN ZeroMap ELSE FreeMap(memmap, p)
  /\ memrdy' = (memrdy \/ p # NULL)
  /\ want' = [b \in Block |-> IF b = p THEN 0 ELSE want[b]]
  /\ call' = [op |-> "free", ptr |-> p, size |-> 0, ret |-> NULL]

\* Fault: the old allocation is not released.
MutMyReallocKeepsOld(p, size) ==
  LET q == AllocPtr(Ready, size)
  IN  /\ memmap' = AllocMap(Ready, size)
      /\ memrdy' = TRUE
      /\ want' = IF q = NULL
                 THEN want
                 ELSE [b \in Block |-> IF b = p THEN 0
                                       ELSE IF b = q THEN size ELSE want[b]]
      /\ call' = [op |-> "realloc", ptr |-> p, size |-> size, ret |-> q]

\* The new allocation is made while the old one is still marked; when it
\* fails the client keeps the old one.
MyRealloc(p, size) ==
  LET q == AllocPtr(Ready, size)
      m == AllocMap(Ready, size)
  IN  /\ memmap' = IF q = NULL THEN m ELSE FreeMap(m, p)
      /\ memrdy' = TRUE
      /\ want' = IF q = NULL
                 THEN want
                 ELSE [b \in Block |-> IF b = p THEN 0
                                       ELSE IF b = q THEN size ELSE want[b]]
      /\ call' = [op |-> "realloc", ptr |-> p, size |-> size, ret |-> q]

\* A client passes back only pointers it holds, or NULL.
Next == \/ MemInit
        \/ \E size \in Sizes : MyMalloc(size)
        \/ \E p \in Block \cup {NULL} : Holds(p) /\ MyFree(p)
        \/ \E p \in Block \cup {NULL}, size \in Sizes :
             Holds(p) /\ MyRealloc(p, size)

Spec == Init /\ [][Next]_vars

-----------------------------------------------------------------------------
(* Correctness.                                                            *)

\* Every variable has its type, and once the pool is ready no entry of the
\* table is larger than the pool: whatever the memory held at power-on is
\* gone before the first allocation looks at it (malloc.c:93, 120-124).
TypeOK ==
  /\ memmap \in [Block -> U16]
  /\ memrdy \in BOOLEAN
  /\ memrdy => \A b \in Block : memmap[b] <= NBlocks
  /\ want \in [Block -> Sizes \cup {0}]
  /\ call \in [op : {"none", "malloc", "free", "realloc"},
               ptr : Block \cup {NULL}, size : Sizes \cup {0},
               ret : Block \cup {NULL}]

\* Two pointers in the clients' hands never share a block, and none reaches
\* past the end of the pool, so that mymem_free(malloc.c:127-132) releases
\* exactly the blocks that mymem_malloc gave.
ExtentsDisjoint ==
  \A p \in Live : /\ Extent(memmap, p) \subseteq Block
                  /\ \A q \in Live \ {p} :
                       Extent(memmap, p) \cap Extent(memmap, q) = {}

\* Every block of a live allocation carries its length, and every block the
\* table counts as used belongs to a pointer some client still holds: no
\* block is lost (malloc.c:103-106, 127-132, 168-174).
BooksBalance ==
  memrdy => /\ \A p \in Live : \A b \in Extent(memmap, p) :
                 memmap[b] = memmap[p]
            /\ \A b \in Block :
                 memmap[b] > 0 => \E p \in Live : b \in Extent(memmap, p)

\* An allocation is long enough for the request it answers, and less than a
\* block longer (malloc.c:95-96).
BigEnough ==
  \A p \in Live : /\ memmap[p] * BlockSize >= want[p]
                  /\ (memmap[p] - 1) * BlockSize < want[p]

\* The pool implements the heap its clients rely on (malloc.h:62-65).
HeapSpec == INSTANCE Heap
  WITH held <- [b \in Block |-> IF want[b] > 0 THEN memmap[b] ELSE 0]
ImplementsHeap == HeapSpec!HSpec
=============================================================================
