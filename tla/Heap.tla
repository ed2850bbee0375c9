-------------------------------- MODULE Heap --------------------------------
(***************************************************************************)
(* What a heap promises its clients, without saying where it puts things   *)
(* or how it keeps its books.  held[b] is the number of blocks of the      *)
(* allocation that starts at block b, 0 where none starts.  call is the    *)
(* last call made and what it returned.                                    *)
(*                                                                         *)
(* A request is answered with an interval of blocks no client holds, long  *)
(* enough for it, and with NULL only when there is no such interval; a     *)
(* release gives back the interval that was asked for, and nothing else.   *)
(***************************************************************************)
EXTENDS Integers

CONSTANTS NBlocks, BlockSize, Sizes

VARIABLES held, call

heapVars == <<held, call>>

HBlock == 0 .. NBlocks - 1
HNull  == -1

\* Enough blocks for size bytes, and no more than that.
Needed(size) == CHOOSE n \in 0 .. size : /\ n * BlockSize >= size
                                         /\ (n - 1) * BlockSize < size

Taken(h, b) == \E p \in HBlock : h[p] > 0 /\ b \in p .. p + h[p] - 1

Room(h, o, n) == o + n <= NBlocks /\ \A b \in o .. o + n - 1 : ~Taken(h, b)

HInit == /\ held = [b \in HBlock |-> 0]
         /\ call = [op |-> "none", ptr |-> HNull, size |-> 0, ret |-> HNull]

Grant(old, op, p, size) ==
  \E o \in HBlock :
    /\ Room(held, o, Needed(size))
    /\ held' = [old EXCEPT ![o] = Needed(size)]
    /\ call' = [op |-> op, ptr |-> p, size |-> size, ret |-> o]

Refuse(op, p, size) ==
  /\ size > 0 => \A o \in HBlock : ~Room(held, o, Needed(size))
  /\ held' = held
  /\ call' = [op |-> op, ptr |-> p, size |-> size, ret |-> HNull]

HAlloc(size) == \/ size > 0 /\ Grant(held, "malloc", HNull, size)
                \/ Refuse("malloc", HNull, size)

Released(p) == IF p = HNull THEN held ELSE [held EXCEPT ![p] = 0]

HFree(p) == /\ held' = Released(p)
            /\ call' = [op |-> "free", ptr |-> p, size |-> 0, ret |-> HNull]

\* The new interval is found while the old one is still held.
HRealloc(p, size) == \/ size > 0 /\ Grant(Released(p), "realloc", p, size)
                     \/ Refuse("realloc", p, size)

Holder(p) == p = HNull \/ held[p] > 0

HNext == \/ \E size \in Sizes : HAlloc(size)
         \/ \E p \in HBlock \cup {HNull} :
              Holder(p) /\ (HFree(p) \/ \E size \in Sizes : HRealloc(p, size))

HSpec == HInit /\ [][HNext]_heapVars
=============================================================================
