---------------------------- MODULE MemPool_proof ---------------------------
(***************************************************************************)
(* Proofs about the memory pools, for every pool size, block size, counter *)
(* width and set of request sizes that satisfy the assumptions: of MemPool *)
(* (any clients), of MemScan (the loops inside a call) and of Boot (the    *)
(* program as the client).  The three share the table memmap; each has its *)
(* own specification.                                                      *)
(*                                                                         *)
(* MemPool and Boot rest on one statement, that the table and the pointers *)
(* allocated and not released tell the same story (Sound), and on two      *)
(* lemmas, that an allocation and a release keep it so (AllocSound,        *)
(* FreeSound).  For MemPool the pointers are the clients' (want in IInv);  *)
(* for Boot they exist for some assignment of requests to them (Book), for *)
(* its variables forget pointers that are still allocated.                 *)
(***************************************************************************)
EXTENDS MemPool, MemScan, Boot, TLAPS, WellFoundedInduction

-----------------------------------------------------------------------------
(* The inductive invariant.                                                *)

\* Every live pointer is the first block of an extent marked with its length.
LiveMarked(m, w) ==
  \A p \in Block : w[p] > 0 =>
    /\ m[p] = Nmemb(w[p])
    /\ p + m[p] <= NBlocks
    /\ \A b \in Block : p <= b /\ b < p + m[p] => m[b] = m[p]

\* Extents of different pointers do not meet.
LiveApart(m, w) ==
  \A p, q \in Block :
    w[p] > 0 /\ w[q] > 0 /\ p # q => p + m[p] <= q \/ q + m[q] <= p

\* A block in use lies in the extent of a live pointer.
UsedHeld(m, w) ==
  \A b \in Block : m[b] > 0 =>
    \E p \in Block : w[p] > 0 /\ p <= b /\ b < p + m[p]

Sound(m, w) == LiveMarked(m, w) /\ LiveApart(m, w) /\ UsedHeld(m, w)

Map     == [Block -> U16]
Clients == [Block -> Sizes \cup {0}]

CallType == [op : {"none", "malloc", "free", "realloc"},
             ptr : Block \cup {NULL}, size : Sizes \cup {0},
             ret : Block \cup {NULL}]

IInv == /\ memmap \in Map
        /\ memrdy \in BOOLEAN
        /\ want \in Clients
        /\ call \in CallType
        /\ Sound(Ready, want)
        /\ ~memrdy => \A b \in Block : want[b] = 0

-----------------------------------------------------------------------------
(* Arithmetic and search.                                                  *)

\* Division with remainder, for the sizes of malloc.c:95-96.
LEMMA DivMod ==
  ASSUME NEW s \in Nat, NEW k \in Nat \ {0}
  PROVE  /\ s = k * (s \div k) + (s % k)
         /\ s % k \in 0 .. k - 1
         /\ s \div k \in Nat
OBVIOUS

\* The block count is the smallest that holds the request: the u16 does not
\* wrap for the sizes the program asks for.
LEMMA NmembBounds ==
  ASSUME NEW s \in Sizes, s > 0
  PROVE  /\ Nmemb(s) \in 1 .. Width - 1
         /\ Nmemb(s) * BlockSize >= s
         /\ (Nmemb(s) - 1) * BlockSize < s
<1> DEFINE q == s \div BlockSize
           r == s % BlockSize
           n == IF r # 0 THEN q + 1 ELSE q
<1>1. /\ s \in Nat /\ BlockSize \in Nat \ {0} /\ Width \in Nat /\ Width > 1
      /\ s <= (Width - 1) * BlockSize
  BY PoolAssumption, SizesAssumption
<1>2. s = BlockSize * q + r /\ r \in 0 .. BlockSize - 1 /\ q \in Nat
  BY <1>1, DivMod
<1> HIDE DEF q, r
<1>3. n \in Nat /\ n * BlockSize >= s /\ (n - 1) * BlockSize < s
  <2>1. CASE r = 0
    BY <2>1, <1>1, <1>2
  <2>2. CASE r # 0
    BY <2>2, <1>1, <1>2
  <2> QED BY <2>1, <2>2
<1>4. n >= 1
  BY <1>1, <1>2
<1>5. n <= Width - 1
  <2>1. SUFFICES ASSUME n > Width - 1 PROVE FALSE
    BY <1>1, <1>3
  <2>2. n - 1 >= Width - 1 /\ n - 1 \in Nat /\ Width - 1 \in Nat
    BY <2>1, <1>1, <1>3
  <2>3. (n - 1) * BlockSize >= (Width - 1) * BlockSize
    <3> DEFINE a == n - 1
               b == Width - 1
    <3>1. a \in Nat /\ b \in Nat /\ a >= b BY <2>2
    <3> HIDE DEF a, b
    <3>2. a * BlockSize >= b * BlockSize BY <3>1, <1>1
    <3> QED BY <3>2 DEF a, b
  <2> QED BY <2>3, <1>1, <1>3
<1>6. n % Width = n
  BY <1>1, <1>3, <1>5
<1>7. Nmemb(s) = n
  BY <1>6, <1>2 DEF Nmemb, q, r
<1> QED BY <1>3, <1>4, <1>5, <1>7

\* A set of blocks that is not empty has a highest one.
LEMMA HighestExists ==
  ASSUME NEW S \in SUBSET Block, S # {}
  PROVE  \E o \in S : \A p \in S : p <= o
<1> DEFINE T == {NBlocks - 1 - o : o \in S}
<1>1. NBlocks \in Nat \ {0}
  BY PoolAssumption
<1>2. T \subseteq Nat /\ T # {}
  <2>1. \A o \in S : o \in Int /\ o <= NBlocks - 1
    BY <1>1 DEF Block
  <2>2. \A o \in S : NBlocks - 1 - o \in Nat
    BY <2>1, <1>1
  <2> QED BY <2>2
<1>3. PICK x \in T : \A y \in T : ~ (<<y, x>> \in OpToRel(<, Nat))
  BY <1>2, NatLessThanWellFounded, WFMin
<1>4. \A y \in T : ~ (y < x)
  BY <1>3, <1>2 DEF OpToRel
<1>5. PICK o \in S : x = NBlocks - 1 - o
  OBVIOUS
<1>6. ASSUME NEW p \in S PROVE p <= o
  <2>1. NBlocks - 1 - p \in T
    OBVIOUS
  <2>2. ~ (NBlocks - 1 - p < NBlocks - 1 - o)
    BY <2>1, <1>4, <1>5
  <2>3. p \in Int /\ o \in Int
    BY <1>1 DEF Block
  <2> QED BY <2>2, <2>3, <1>1
<1> QED BY <1>6

\* FirstFit returns a block where the run fits, or NULL when it fits nowhere.
LEMMA FirstFitCorrect ==
  ASSUME NEW m, NEW n
  PROVE  \/ FirstFit(m, n) = NULL /\ \A o \in Block : ~Fits(m, o, n)
         \/ FirstFit(m, n) \in Block /\ Fits(m, FirstFit(m, n), n)
<1>1. CASE \E o \in Block : Fits(m, o, n)
  <2> DEFINE S == {o \in Block : Fits(m, o, n)}
  <2>1. PICK o \in S : \A p \in S : p <= o
    BY <1>1, HighestExists
  <2>2. \E b \in Block : IsFirstFit(m, b, n)
    BY <2>1 DEF IsFirstFit
  <2> QED BY <1>1, <2>2 DEF FirstFit, IsFirstFit
<1>2. CASE ~ \E o \in Block : Fits(m, o, n)
  BY <1>2 DEF FirstFit
<1> QED BY <1>1, <1>2

-----------------------------------------------------------------------------
(* The two operations keep the books sound.                                *)

\* A pointer returned for n blocks starts n free blocks of the pool.
LEMMA AllocFits ==
  ASSUME NEW m \in Map, NEW s \in Sizes, AllocPtr(m, s) # NULL
  PROVE  LET p == AllocPtr(m, s) IN
         /\ s > 0
         /\ p \in Block
         /\ Nmemb(s) \in 1 .. Width - 1
         /\ p + Nmemb(s) <= NBlocks
         /\ \A b \in Block : p <= b /\ b < p + Nmemb(s) => m[b] = 0
         /\ AllocMap(m, s) = Marked(m, p, Nmemb(s))
<1> DEFINE p == AllocPtr(m, s)
           n == Nmemb(s)
<1>1. s # 0 /\ s \in Nat /\ p = FirstFit(m, n)
  BY SizesAssumption DEF AllocPtr
<1>2. n \in 1 .. Width - 1
  BY <1>1, NmembBounds
<1>3. p \in Block /\ Fits(m, p, n)
  BY <1>1, FirstFitCorrect
<1>4. NBlocks \in Nat /\ Width \in Nat
  BY PoolAssumption
<1>5. p + n <= NBlocks /\ \A b \in p .. p + n - 1 : m[b] = 0
  BY <1>2, <1>3, <1>4 DEF Fits
<1>6. \A b \in Block : p <= b /\ b < p + n => m[b] = 0
  BY <1>2, <1>3, <1>4, <1>5 DEF Block
<1> QED BY <1>1, <1>2, <1>3, <1>5, <1>6 DEF AllocMap

\* Both operations produce tables of u16.
LEMMA TablesAreMaps ==
  ASSUME NEW m \in Map
  PROVE  /\ \A s \in Sizes : AllocMap(m, s) \in Map
         /\ \A p \in Block \cup {NULL} : FreeMap(m, p) \in Map
<1>0. 0 \in U16
  BY PoolAssumption DEF U16
<1>1. ASSUME NEW s \in Sizes PROVE AllocMap(m, s) \in Map
  <2>1. CASE AllocPtr(m, s) = NULL
    BY <2>1 DEF AllocMap
  <2>2. CASE AllocPtr(m, s) # NULL
    <3>1. Nmemb(s) \in U16
      BY <2>2, AllocFits, PoolAssumption DEF U16
    <3>2. AllocMap(m, s) = Marked(m, AllocPtr(m, s), Nmemb(s))
      BY <2>2, AllocFits
    <3> QED BY <3>1, <3>2 DEF Map, Marked
  <2> QED BY <2>1, <2>2
<1>2. ASSUME NEW p \in Block \cup {NULL} PROVE FreeMap(m, p) \in Map
  BY <1>0 DEF FreeMap, Map
<1> QED BY <1>1, <1>2

\* mymem_malloc: marking a run of free blocks for a new pointer.
LEMMA AllocSound ==
  ASSUME NEW m \in Map, NEW w \in Clients, Sound(m, w),
         NEW s \in Sizes, AllocPtr(m, s) # NULL,
         NEW v, v = [b \in Block |-> IF b = AllocPtr(m, s) THEN s ELSE w[b]]
  PROVE  /\ Sound(AllocMap(m, s), v)
         /\ w[AllocPtr(m, s)] = 0
<1> DEFINE p == AllocPtr(m, s)
           n == Nmemb(s)
           k == AllocMap(m, s)
<1>0. NBlocks \in Nat /\ Width \in Nat
  BY PoolAssumption
<1>1. /\ s > 0 /\ p \in Block /\ n \in 1 .. Width - 1 /\ p + n <= NBlocks
      /\ \A b \in Block : p <= b /\ b < p + n => m[b] = 0
      /\ k = Marked(m, p, n)
  BY AllocFits
<1>2. \A b \in Block : /\ b \in Int /\ 0 <= b /\ b < NBlocks
                       /\ m[b] \in Nat /\ w[b] \in Nat
                       /\ w[b] > 0 => w[b] \in Sizes
  BY <1>0, SizesAssumption DEF Block, Map, U16, Clients
<1>3. \A b \in Block : k[b] = IF p <= b /\ b < p + n THEN n ELSE m[b]
  BY <1>0, <1>1, <1>2 DEF Marked
<1> HIDE DEF p, n, k
<1>4. \A q \in Block : w[q] > 0 =>
        /\ m[q] > 0 /\ m[q] = Nmemb(w[q]) /\ q + m[q] <= NBlocks
        /\ \A b \in Block : q <= b /\ b < q + m[q] => m[b] = m[q]
  <2> TAKE q \in Block
  <2> HAVE w[q] > 0
  <2>1. w[q] \in Sizes
    BY <1>2
  <2>2. Nmemb(w[q]) \in 1 .. Width - 1
    BY <2>1, NmembBounds
  <2> QED BY <2>2, <1>0 DEF Sound, LiveMarked
\* No live extent meets the new run.
<1>5. \A q \in Block : w[q] > 0 => q + m[q] <= p \/ p + n <= q
  <2> TAKE q \in Block
  <2> HAVE w[q] > 0
  <2>1. SUFFICES ASSUME q + m[q] > p, p + n > q PROVE FALSE
    BY <1>0, <1>1, <1>2
  <2> DEFINE b == IF q <= p THEN p ELSE q
  <2>2. b \in Block /\ q <= b /\ b < q + m[q] /\ p <= b /\ b < p + n
    BY <2>1, <1>0, <1>1, <1>2, <1>4
  <2> HIDE DEF b
  <2>3. m[b] = m[q] /\ m[b] = 0
    BY <2>2, <1>1, <1>4
  <2>4. m[q] > 0
    BY <1>4
  <2> QED BY <2>3, <2>4
<1>6. w[p] = 0
  BY <1>1, <1>2, <1>4
<1>7. \A q \in Block : v[q] = IF q = p THEN s ELSE w[q]
  BY DEF p
<1>8. k[p] = n /\ \A q \in Block : w[q] > 0 => k[q] = m[q] /\ q # p
  BY <1>0, <1>1, <1>2, <1>3, <1>4, <1>5, <1>6
<1>9. LiveMarked(k, v)
  <2> SUFFICES ASSUME NEW q \in Block, v[q] > 0
               PROVE  /\ k[q] = Nmemb(v[q]) /\ q + k[q] <= NBlocks
                      /\ \A b \in Block : q <= b /\ b < q + k[q] => k[b] = k[q]
    BY DEF LiveMarked
  <2>1. CASE q = p
    BY <2>1, <1>1, <1>3, <1>7, <1>8 DEF n
  <2>2. CASE q # p
    <3>1. w[q] > 0 /\ v[q] = w[q] /\ k[q] = m[q]
      BY <2>2, <1>7, <1>8
    <3>2. k[q] = Nmemb(v[q]) /\ q + k[q] <= NBlocks
      BY <3>1, <1>4
    <3>3. ASSUME NEW b \in Block, q <= b, b < q + k[q] PROVE k[b] = k[q]
      <4>1. m[b] = m[q] /\ m[q] > 0
        BY <3>1, <3>3, <1>4
      <4>2. k[b] = m[b]
        BY <3>1, <3>3, <1>0, <1>1, <1>2, <1>3, <1>5
      <4> QED BY <4>1, <4>2, <3>1
    <3> QED BY <3>2, <3>3
  <2> QED BY <2>1, <2>2
<1>10. LiveApart(k, v)
  <2> SUFFICES ASSUME NEW q \in Block, NEW r \in Block,
                      v[q] > 0, v[r] > 0, q # r
               PROVE  q + k[q] <= r \/ r + k[r] <= q
    BY DEF LiveApart
  <2>1. CASE q # p /\ r # p
    BY <2>1, <1>7, <1>8 DEF Sound, LiveApart
  <2>2. CASE q = p \/ r = p
    BY <2>2, <1>5, <1>7, <1>8
  <2> QED BY <2>1, <2>2
<1>11. UsedHeld(k, v)
  <2> SUFFICES ASSUME NEW b \in Block, k[b] > 0
               PROVE  \E q \in Block : v[q] > 0 /\ q <= b /\ b < q + k[q]
    BY DEF UsedHeld
  <2>1. CASE p <= b /\ b < p + n
    BY <2>1, <1>1, <1>7, <1>8
  <2>2. CASE ~ (p <= b /\ b < p + n)
    <3>1. m[b] > 0
      BY <2>2, <1>3
    <3>2. PICK q \in Block : w[q] > 0 /\ q <= b /\ b < q + m[q]
      BY <3>1 DEF Sound, UsedHeld
    <3> QED BY <3>2, <1>7, <1>8
  <2> QED BY <2>1, <2>2
<1> QED BY <1>6, <1>9, <1>10, <1>11 DEF Sound, p, k

\* mymem_free: clearing the extent of a pointer a client gives back.
LEMMA FreeSound ==
  ASSUME NEW m \in Map, NEW w \in Clients, Sound(m, w),
         NEW p \in Block, w[p] > 0,
         NEW v, v = [b \in Block |-> IF b = p THEN 0 ELSE w[b]]
  PROVE  Sound(FreeMap(m, p), v)
<1> DEFINE k == FreeMap(m, p)
<1>0. NBlocks \in Nat /\ Width \in Nat
  BY PoolAssumption
<1>1. \A b \in Block : b \in Int /\ m[b] \in Nat /\ w[b] \in Nat
  BY <1>0, SizesAssumption DEF Block, Map, U16, Clients
<1>2. \A b \in Block : k[b] = IF p <= b /\ b < p + m[p] THEN 0 ELSE m[b]
  <2>1. p # NULL
    BY <1>0 DEF Block, NULL
  <2> QED BY <2>1, <1>0, <1>1 DEF FreeMap
<1> HIDE DEF k
<1>3. \A q \in Block : v[q] = IF q = p THEN 0 ELSE w[q]
  OBVIOUS
<1>4. \A q \in Block : w[q] > 0 =>
        /\ m[q] = Nmemb(w[q]) /\ q + m[q] <= NBlocks
        /\ \A b \in Block : q <= b /\ b < q + m[q] => m[b] = m[q]
        /\ q # p => q + m[q] <= p \/ p + m[p] <= q
  BY DEF Sound, LiveMarked, LiveApart
\* No other extent is touched.
<1>5. \A q, b \in Block : w[q] > 0 /\ q # p /\ q <= b /\ b < q + m[q] => k[b] = m[b]
  BY <1>0, <1>1, <1>2, <1>4
<1>6. \A q \in Block : w[q] > 0 => m[q] > 0
  <2> TAKE q \in Block
  <2> HAVE w[q] > 0
  <2>1. w[q] \in Sizes
    BY <1>1 DEF Clients
  <2>2. Nmemb(w[q]) \in 1 .. Width - 1
    BY <2>1, NmembBounds
  <2> QED BY <2>2, <1>4, <1>0
<1>7. \A q \in Block : v[q] > 0 => w[q] > 0 /\ q # p /\ v[q] = w[q] /\ k[q] = m[q]
  <2> TAKE q \in Block
  <2> HAVE v[q] > 0
  <2>1. w[q] > 0 /\ q # p /\ v[q] = w[q]
    BY <1>3
  <2>2. q <= q /\ q < q + m[q]
    BY <2>1, <1>1, <1>6
  <2> QED BY <2>1, <2>2, <1>5
<1>8. LiveMarked(k, v)
  BY <1>1, <1>4, <1>5, <1>7 DEF LiveMarked
<1>9. LiveApart(k, v)
  BY <1>7 DEF LiveApart, Sound
<1>10. UsedHeld(k, v)
  <2> SUFFICES ASSUME NEW b \in Block, k[b] > 0
               PROVE  \E q \in Block : v[q] > 0 /\ q <= b /\ b < q + k[q]
    BY DEF UsedHeld
  <2>1. ~ (p <= b /\ b < p + m[p]) /\ m[b] > 0
    BY <1>2
  <2>2. PICK q \in Block : w[q] > 0 /\ q <= b /\ b < q + m[q]
    BY <2>1 DEF Sound, UsedHeld
  <2>3. q # p
    BY <2>1, <2>2
  <2>4. v[q] > 0
    BY <2>2, <2>3, <1>3
  <2> QED BY <2>2, <2>4, <1>7
<1> QED BY <1>8, <1>9, <1>10 DEF Sound, k

-----------------------------------------------------------------------------
(* IInv is an invariant.                                                   *)

\* An empty table and no pointers agree.
LEMMA EmptySound ==
  ASSUME NEW w, \A b \in Block : w[b] = 0
  PROVE  Sound(ZeroMap, w) /\ ZeroMap \in Map
<1>1. 0 \in U16
  BY PoolAssumption DEF U16
<1> QED BY <1>1 DEF Sound, LiveMarked, LiveApart, UsedHeld, ZeroMap, Map

\* The pool starts sound: no client holds a pointer, and the table counts as
\* empty until it has been initialised, whatever it holds (malloc.c:36, 93).
LEMMA InitIInv == Init => IInv
<1> SUFFICES ASSUME Init PROVE IInv
  OBVIOUS
<1>1. memmap \in Map /\ want \in Clients /\ memrdy = FALSE
  BY GarbageAssumption DEF Init, Map, Clients
<1>2. call \in CallType
  BY DEF Init, CallType
<1>3. Sound(Ready, want)
  BY EmptySound DEF Init, Ready
<1> QED BY <1>1, <1>2, <1>3 DEF IInv, Init

\* The table an allocation starts from is one of run lengths (malloc.c:93).
LEMMA ReadyIsMap == IInv => Ready \in Map
BY EmptySound DEF IInv, Ready

\* mymem_init, called while no client holds a pointer (malloc.c:62-67).
LEMMA MemInitIInv ==
  ASSUME IInv, MemInit
  PROVE  IInv'
<1>1. \A b \in Block : want[b] = 0
  <2>1. \A b \in Block : want[b] \in Nat
    BY SizesAssumption DEF IInv, Clients
  <2> QED BY <2>1 DEF MemInit, Live
<1>2. Ready' = ZeroMap /\ want' = want /\ call' = call /\ memrdy' = TRUE
      /\ memmap' = ZeroMap
  BY DEF MemInit, Ready
<1>3. Sound(ZeroMap, want) /\ ZeroMap \in Map
  BY <1>1, EmptySound
<1> QED BY <1>2, <1>3 DEF IInv

\* mymalloc keeps the pool sound, whether it succeeds or not (malloc.c:152-158).
LEMMA MyMallocIInv ==
  ASSUME IInv, NEW size \in Sizes, MyMalloc(size)
  PROVE  IInv'
<1> DEFINE p == AllocPtr(Ready, size)
<1>1. Ready \in Map /\ want \in Clients /\ Sound(Ready, want)
  BY ReadyIsMap DEF IInv
<1>2. /\ memmap' = AllocMap(Ready, size) /\ memrdy' = TRUE
      /\ want' = [b \in Block |-> IF b = p THEN size ELSE want[b]]
      /\ call' = [op |-> "malloc", ptr |-> NULL, size |-> size, ret |-> p]
  BY DEF MyMalloc
<1>3. Ready' = AllocMap(Ready, size)
  BY <1>2 DEF Ready
<1>4. memmap' \in Map /\ want' \in Clients
  BY <1>1, <1>2, TablesAreMaps DEF Clients
<1>5. p \in Block \cup {NULL}
  BY <1>1, AllocFits
<1>6. call' \in CallType
  BY <1>2, <1>5 DEF CallType
<1>7. Sound(AllocMap(Ready, size), want')
  <2>1. CASE p = NULL
    <3>1. want' = want
      BY <2>1, <1>1, <1>2, PoolAssumption DEF Clients, Block, NULL
    <3>2. AllocMap(Ready, size) = Ready
      BY <2>1 DEF AllocMap
    <3> QED BY <3>1, <3>2, <1>1
  <2>2. CASE p # NULL
    BY <2>2, <1>1, <1>2, AllocSound
  <2> QED BY <2>1, <2>2
<1> QED BY <1>2, <1>3, <1>4, <1>6, <1>7 DEF IInv

\* myfree keeps the pool sound, on a pool that is ready or not (malloc.c:117-146).
LEMMA MyFreeIInv ==
  ASSUME IInv, NEW p \in Block \cup {NULL}, Holds(p), MyFree(p)
  PROVE  IInv'
<1>1. Ready \in Map /\ want \in Clients /\ Sound(Ready, want)
  BY ReadyIsMap DEF IInv
<1>2. /\ want' = [b \in Block |-> IF b = p THEN 0 ELSE want[b]]
      /\ call' = [op |-> "free", ptr |-> p, size |-> 0, ret |-> NULL]
  BY DEF MyFree
<1>3. want' \in Clients
  BY <1>1, <1>2 DEF Clients
<1>4. call' \in CallType
  BY <1>2 DEF CallType
<1>5. CASE p = NULL
  <2>1. want' = want
    BY <1>5, <1>1, <1>2, PoolAssumption DEF Clients, Block, NULL
  <2>2. memmap' = memmap /\ memrdy' = memrdy
    BY <1>5 DEF MyFree, FreeMap, IInv
  <2>3. Ready' = Ready
    BY <2>2 DEF Ready
  <2> QED BY <2>1, <2>2, <2>3, <1>4 DEF IInv
<1>6. CASE p # NULL
  <2>1. p \in Block /\ want[p] > 0
    BY <1>6 DEF Holds, Live
  <2>2. memrdy = TRUE
    <3>1. want[p] # 0
      BY <2>1
    <3> QED BY <3>1, <2>1 DEF IInv
  <2>3. memmap' = FreeMap(memmap, p) /\ memrdy' = TRUE /\ Ready = memmap
    BY <2>2, <1>6 DEF MyFree, Ready
  <2>4. Sound(FreeMap(memmap, p), want') /\ FreeMap(memmap, p) \in Map
    BY <2>1, <2>3, <1>1, <1>2, FreeSound, TablesAreMaps
  <2>5. Ready' = FreeMap(memmap, p)
    BY <2>3 DEF Ready
  <2> QED BY <2>3, <2>4, <2>5, <1>3, <1>4 DEF IInv
<1> QED BY <1>5, <1>6

\* The clients after a realloc that succeeded are those after the malloc with
\* the old pointer dropped.
LEMMA MyReallocIInv ==
  ASSUME IInv, NEW p \in Block \cup {NULL}, Holds(p), NEW size \in Sizes,
         MyRealloc(p, size)
  PROVE  IInv'
<1> DEFINE q == AllocPtr(Ready, size)
           m == AllocMap(Ready, size)
<1>1. Ready \in Map /\ want \in Clients /\ Sound(Ready, want)
  BY ReadyIsMap DEF IInv
<1>2. /\ memmap' = IF q = NULL THEN m ELSE FreeMap(m, p)
      /\ memrdy' = TRUE
      /\ want' = IF q = NULL
                 THEN want
                 ELSE [b \in Block |-> IF b = p THEN 0
                                       ELSE IF b = q THEN size ELSE want[b]]
      /\ call' = [op |-> "realloc", ptr |-> p, size |-> size, ret |-> q]
  BY DEF MyRealloc
<1>3. Ready' = memmap'
  BY <1>2 DEF Ready
<1>4. q \in Block \cup {NULL}
  BY <1>1, AllocFits
<1>5. call' \in CallType
  BY <1>2, <1>4 DEF CallType
<1>6. m \in Map
  BY <1>1, TablesAreMaps
<1>7. CASE q = NULL
  <2>1. memmap' = Ready /\ want' = want
    BY <1>2, <1>7 DEF AllocMap
  <2> QED BY <2>1, <1>1, <1>2, <1>3, <1>5 DEF IInv
<1>8. CASE q # NULL
  <2> DEFINE v == [b \in Block |-> IF b = q THEN size ELSE want[b]]
  <2>1. Sound(m, v) /\ want[q] = 0
    BY <1>1, <1>8, AllocSound
  <2>2. v \in Clients
    BY <1>1 DEF Clients
  <2>3. memmap' = FreeMap(m, p)
        /\ want' = [b \in Block |-> IF b = p THEN 0 ELSE v[b]]
    BY <1>2, <1>8
  <2>4. memmap' \in Map /\ want' \in Clients
    BY <2>2, <2>3, <1>6, TablesAreMaps DEF Clients
  <2>5. CASE p = NULL
    <3>1. memmap' = m
      BY <2>3, <2>5 DEF FreeMap
    <3>2. want' = v
      BY <2>3, <2>5, PoolAssumption DEF Block, NULL
    <3> QED BY <3>1, <3>2, <2>1, <2>4, <1>2, <1>3, <1>5 DEF IInv
  <2>6. CASE p # NULL
    <3>1. p \in Block /\ want[p] > 0
      BY <2>6 DEF Holds, Live
    <3>2. p # q
      BY <3>1, <2>1
    <3>3. v[p] > 0
      BY <3>1, <3>2
    <3> HIDE DEF v, m
    <3>4. Sound(FreeMap(m, p), want')
      BY <3>1, <3>3, <2>1, <2>2, <2>3, <1>6, FreeSound
    <3> QED BY <3>4, <2>3, <2>4, <1>2, <1>3, <1>5 DEF IInv
  <2> QED BY <2>5, <2>6
<1> QED BY <1>7, <1>8

\* Every call keeps the pool sound.
LEMMA NextIInv == IInv /\ [Next]_vars => IInv'
<1> SUFFICES ASSUME IInv, [Next]_vars PROVE IInv'
  OBVIOUS
<1>1. CASE MemInit
  BY <1>1, MemInitIInv
<1>2. ASSUME NEW size \in Sizes, MyMalloc(size) PROVE IInv'
  BY <1>2, MyMallocIInv
<1>3. ASSUME NEW p \in Block \cup {NULL}, Holds(p) /\ MyFree(p) PROVE IInv'
  BY <1>3, MyFreeIInv
<1>4. ASSUME NEW p \in Block \cup {NULL}, NEW size \in Sizes,
             Holds(p) /\ MyRealloc(p, size)
      PROVE  IInv'
  BY <1>4, MyReallocIInv
<1>5. CASE UNCHANGED vars
  BY <1>5 DEF vars, IInv, Ready
<1> QED BY <1>1, <1>2, <1>3, <1>4, <1>5 DEF Next

\* In every reachable state the table and the clients' pointers agree
\* (malloc.c:62-176): the inductive invariant the other theorems rest on.
THEOREM Invariance == Spec => []IInv
BY InitIInv, NextIInv, PTL DEF Spec

-----------------------------------------------------------------------------
(* What the runs check, for every value of the constants.                  *)

\* What IInv says of a ready pool, pointer by pointer.
LEMMA LiveFacts ==
  ASSUME IInv
  PROVE  \A p \in Live :
           /\ p \in Block /\ want[p] \in Sizes /\ want[p] > 0
           /\ memrdy = TRUE /\ Ready = memmap
           /\ memmap[p] = Nmemb(want[p])
           /\ memmap[p] \in 1 .. Width - 1
           /\ p + memmap[p] <= NBlocks
           /\ \A b \in Block : p <= b /\ b < p + memmap[p] => memmap[b] = memmap[p]
<1> SUFFICES ASSUME NEW p \in Live
             PROVE  /\ p \in Block /\ want[p] \in Sizes /\ want[p] > 0
                    /\ memrdy = TRUE /\ Ready = memmap
                    /\ memmap[p] = Nmemb(want[p])
                    /\ memmap[p] \in 1 .. Width - 1
                    /\ p + memmap[p] <= NBlocks
                    /\ \A b \in Block : p <= b /\ b < p + memmap[p]
                                        => memmap[b] = memmap[p]
  OBVIOUS
<1>1. p \in Block /\ want[p] > 0 /\ want[p] # 0
  BY DEF Live
<1>2. want[p] \in Sizes
  BY <1>1 DEF IInv, Clients
<1>3. memrdy = TRUE /\ Ready = memmap
  BY <1>1 DEF IInv, Ready
<1>4. /\ memmap[p] = Nmemb(want[p]) /\ p + memmap[p] <= NBlocks
      /\ \A b \in Block : p <= b /\ b < p + memmap[p] => memmap[b] = memmap[p]
  BY <1>1, <1>3 DEF IInv, Sound, LiveMarked
<1>5. Nmemb(want[p]) \in 1 .. Width - 1
  BY <1>1, <1>2, NmembBounds
<1> QED BY <1>1, <1>2, <1>3, <1>4, <1>5

\* The extent of a live pointer as a set and as an interval.
LEMMA ExtentIsInterval ==
  ASSUME IInv, NEW p \in Live
  PROVE  /\ Extent(memmap, p) \subseteq Block
         /\ \A b \in Block : b \in Extent(memmap, p)
                               <=> p <= b /\ b < p + memmap[p]
<1>1. p \in Block /\ memmap[p] \in 1 .. Width - 1 /\ p + memmap[p] <= NBlocks
  BY LiveFacts
<1>2. NBlocks \in Nat /\ Width \in Nat
  BY PoolAssumption
<1> QED BY <1>1, <1>2 DEF Extent, Block

\* Soundness gives the type invariant.
LEMMA ImpliesTypeOK == IInv => TypeOK
<1> SUFFICES ASSUME IInv PROVE TypeOK
  OBVIOUS
<1>1. ASSUME memrdy, NEW b \in Block PROVE memmap[b] <= NBlocks
  <2>1. NBlocks \in Nat /\ memmap[b] \in Nat /\ Ready = memmap
    BY <1>1, PoolAssumption DEF IInv, Map, U16, Ready
  <2>2. CASE memmap[b] > 0
    <3>1. PICK p \in Block : want[p] > 0 /\ p <= b /\ b < p + memmap[p]
      BY <2>1, <2>2 DEF IInv, Sound, UsedHeld
    <3>2. p \in Live
      BY <3>1 DEF Live
    <3>3. memmap[b] = memmap[p] /\ p + memmap[p] <= NBlocks
      BY <3>1, <3>2, LiveFacts
    <3>4. p \in Int /\ p >= 0
      BY <2>1 DEF Block
    <3> QED BY <3>3, <3>4, <2>1
  <2> QED BY <2>1, <2>2
<1>2. memmap \in [Block -> U16] /\ memrdy \in BOOLEAN
      /\ want \in [Block -> Sizes \cup {0}] /\ call \in CallType
  BY DEF IInv, Map, Clients
<1> QED BY <1>1, <1>2 DEF TypeOK, CallType

\* Soundness gives disjoint extents.
LEMMA ImpliesExtentsDisjoint == IInv => ExtentsDisjoint
<1> SUFFICES ASSUME IInv, NEW p \in Live
             PROVE  /\ Extent(memmap, p) \subseteq Block
                    /\ \A q \in Live \ {p} :
                         Extent(memmap, p) \cap Extent(memmap, q) = {}
  BY DEF ExtentsDisjoint
<1>1. ASSUME NEW q \in Live \ {p}
      PROVE  Extent(memmap, p) \cap Extent(memmap, q) = {}
  <2>1. p + memmap[p] <= q \/ q + memmap[q] <= p
    BY LiveFacts DEF IInv, Sound, LiveApart
  <2>2. /\ p \in Int /\ q \in Int /\ NBlocks \in Nat
        /\ memmap[p] \in Nat /\ memmap[q] \in Nat
    <3>1. /\ q \in Live /\ p \in Block /\ q \in Block
          /\ memmap[p] \in 1 .. Width - 1 /\ memmap[q] \in 1 .. Width - 1
      BY LiveFacts
    <3>2. NBlocks \in Nat /\ Width \in Nat
      BY PoolAssumption
    <3> QED BY <3>1, <3>2 DEF Block
  <2> QED BY <2>1, <2>2 DEF Extent
<1> QED BY <1>1, ExtentIsInterval

\* Soundness gives balanced books.
LEMMA ImpliesBooksBalance == IInv => BooksBalance
<1> SUFFICES ASSUME IInv, memrdy
             PROVE  /\ \A p \in Live : \A b \in Extent(memmap, p) :
                         memmap[b] = memmap[p]
                    /\ \A b \in Block :
                         memmap[b] > 0 => \E p \in Live : b \in Extent(memmap, p)
  BY DEF BooksBalance
<1>1. ASSUME NEW p \in Live, NEW b \in Extent(memmap, p)
      PROVE  memmap[b] = memmap[p]
  BY ExtentIsInterval, LiveFacts
<1>2. ASSUME NEW b \in Block, memmap[b] > 0
      PROVE  \E p \in Live : b \in Extent(memmap, p)
  <2>1. PICK p \in Block : want[p] > 0 /\ p <= b /\ b < p + memmap[p]
    BY <1>2 DEF IInv, Sound, UsedHeld, Ready
  <2>2. p \in Live
    BY <2>1 DEF Live
  <2> QED BY <2>1, <2>2, ExtentIsInterval
<1> QED BY <1>1, <1>2

\* Soundness gives allocations of the right length.
LEMMA ImpliesBigEnough == IInv => BigEnough
BY LiveFacts, NmembBounds DEF BigEnough

\* The type invariant of the pool holds in every reachable state: every table
\* entry of a pool in use is a run length that fits the pool, whatever the
\* memory held at power-on (malloc.c:62-67, 93).
THEOREM TypeCorrect == Spec => []TypeOK
BY Invariance, ImpliesTypeOK, PTL

\* Allocations in the clients' hands never overlap and never leave the pool
\* (malloc.c:87-111, 117-135).
THEOREM NeverOverlap == Spec => []ExtentsDisjoint
BY Invariance, ImpliesExtentsDisjoint, PTL

\* No block is lost and none is counted twice: the used blocks are exactly
\* those of the live allocations (malloc.c:103-106, 127-132, 165-176).
THEOREM NoBlockLost == Spec => []BooksBalance
BY Invariance, ImpliesBooksBalance, PTL

\* Every allocation is as long as its request and less than one block longer
\* (malloc.c:95-96).
THEOREM LongEnough == Spec => []BigEnough
BY Invariance, ImpliesBigEnough, PTL

-----------------------------------------------------------------------------
(* The pool implements the heap.                                           *)

\* The refinement mapping: what Heap sees of a table and the clients.
HeldOf(m, w) == [b \in Block |-> IF w[b] > 0 THEN m[b] ELSE 0]

\* The abstract size of a request is the block count the code computes.
LEMMA NeededIsNmemb ==
  ASSUME NEW s \in Sizes, s > 0
  PROVE  HeapSpec!Needed(s) = Nmemb(s)
<1> DEFINE n == Nmemb(s)
           P(k) == k * BlockSize >= s /\ (k - 1) * BlockSize < s
<1>1. n \in Nat /\ P(n) /\ s \in Nat /\ BlockSize \in Nat \ {0} /\ Width \in Nat
  BY NmembBounds, PoolAssumption, SizesAssumption
<1> HIDE DEF n
<1>2. n \in 0 .. s
  <2>1. SUFFICES ASSUME n > s PROVE FALSE
    BY <1>1
  <2>2. n - 1 >= s /\ n - 1 \in Nat
    BY <2>1, <1>1
  <2>3. (n - 1) * BlockSize >= n - 1
    <3> DEFINE a == n - 1
    <3>1. a \in Nat BY <2>2
    <3> HIDE DEF a
    <3>2. a * BlockSize >= a BY <3>1, <1>1
    <3> QED BY <3>2 DEF a
  <2> QED BY <2>2, <2>3, <1>1
<1>3. ASSUME NEW k \in 0 .. s, P(k) PROVE k = n
  <2>1. ASSUME NEW x \in Nat, NEW y \in Nat, P(x), P(y) PROVE ~ (x < y)
    <3>1. SUFFICES ASSUME x < y PROVE FALSE
      OBVIOUS
    <3>2. y - 1 >= x /\ y - 1 \in Nat
      BY <3>1
    <3>3. (y - 1) * BlockSize >= x * BlockSize
      <4> DEFINE a == y - 1
      <4>1. a \in Nat /\ a >= x BY <3>2
      <4> HIDE DEF a
      <4>2. a * BlockSize >= x * BlockSize BY <4>1, <1>1
      <4> QED BY <4>2 DEF a
    <3>4. (y - 1) * BlockSize < s /\ x * BlockSize >= s
      BY <2>1
    <3> QED BY <3>3, <3>4, <1>1, <3>2
  <2>2. k \in Nat
    BY <1>1
  <2>3. ~ (k < n) /\ ~ (n < k)
    BY <2>1, <2>2, <1>1, <1>3
  <2> QED BY <2>2, <2>3, <1>1
<1>4. (CHOOSE k \in 0 .. s : P(k)) = n
  BY <1>1, <1>2, <1>3
<1> QED BY <1>4 DEF HeapSpec!Needed, n

\* For a sound table, a block is in use exactly when Heap says it is taken.
LEMMA TakenIsUsed ==
  ASSUME NEW m \in Map, NEW w \in Clients, Sound(m, w), NEW b \in Block
  PROVE  HeapSpec!Taken(HeldOf(m, w), b) <=> m[b] # 0
<1>0. NBlocks \in Nat /\ Width \in Nat /\ HeapSpec!HBlock = Block
  BY PoolAssumption DEF HeapSpec!HBlock, Block
<1>1. \A c \in Block : c \in Int /\ m[c] \in Nat /\ w[c] \in Nat
  BY <1>0, SizesAssumption DEF Block, Map, U16, Clients
<1>2. \A c \in Block : HeldOf(m, w)[c] = IF w[c] > 0 THEN m[c] ELSE 0
  BY DEF HeldOf
<1>3. ASSUME HeapSpec!Taken(HeldOf(m, w), b) PROVE m[b] # 0
  <2>1. PICK p \in Block : HeldOf(m, w)[p] > 0
                           /\ b \in p .. p + HeldOf(m, w)[p] - 1
    BY <1>0, <1>3 DEF HeapSpec!Taken
  <2>2. w[p] > 0 /\ m[p] > 0 /\ b \in p .. p + m[p] - 1
    BY <2>1, <1>2, <1>1
  <2>3. p <= b /\ b < p + m[p]
    BY <2>2, <1>1
  <2>4. m[b] = m[p]
    BY <2>2, <2>3 DEF Sound, LiveMarked
  <2> QED BY <2>2, <2>4
<1>4. ASSUME m[b] # 0 PROVE HeapSpec!Taken(HeldOf(m, w), b)
  <2>1. m[b] > 0
    BY <1>1, <1>4
  <2>2. PICK p \in Block : w[p] > 0 /\ p <= b /\ b < p + m[p]
    BY <2>1 DEF Sound, UsedHeld
  <2>3. HeldOf(m, w)[p] = m[p]
    BY <2>2, <1>2
  <2>4. m[p] > 0 /\ b \in p .. p + m[p] - 1
    BY <2>2, <1>1
  <2> QED BY <2>3, <2>4, <1>0 DEF HeapSpec!Taken
<1> QED BY <1>3, <1>4

\* Room in the heap is a run of free blocks in the table.
LEMMA RoomIsFits ==
  ASSUME NEW m \in Map, NEW w \in Clients, Sound(m, w),
         NEW o \in Block, NEW n \in 1 .. Width - 1
  PROVE  HeapSpec!Room(HeldOf(m, w), o, n) <=> Fits(m, o, n)
<1>0. NBlocks \in Nat /\ Width \in Nat /\ o \in Nat
  BY PoolAssumption DEF Block
<1>1. CASE o + n <= NBlocks
  <2>1. \A b \in o .. o + n - 1 : b \in Block
    BY <1>0, <1>1 DEF Block
  <2>2. \A b \in o .. o + n - 1 : ~ HeapSpec!Taken(HeldOf(m, w), b) <=> m[b] = 0
    BY <2>1, TakenIsUsed
  <2> QED BY <1>1, <2>2, <1>0 DEF HeapSpec!Room, Fits
<1>2. CASE ~ (o + n <= NBlocks)
  BY <1>2, <1>0 DEF HeapSpec!Room, Fits
<1> QED BY <1>1, <1>2

\* What Heap sees before the pool is ready is what it sees right after.
LEMMA HeldOfReady ==
  IInv => HeldOf(Ready, want) = HeldOf(memmap, want)
<1> SUFFICES ASSUME IInv PROVE HeldOf(Ready, want) = HeldOf(memmap, want)
  OBVIOUS
<1>1. CASE memrdy = TRUE
  BY <1>1 DEF Ready
<1>2. CASE memrdy = FALSE
  <2>1. \A b \in Block : ~ (want[b] > 0)
    BY <1>2 DEF IInv
  <2> QED BY <2>1 DEF HeldOf
<1> QED BY <1>1, <1>2 DEF IInv

\* A successful allocation adds one interval to what Heap sees.
LEMMA HeldAfterAlloc ==
  ASSUME NEW m \in Map, NEW w \in Clients, Sound(m, w),
         NEW s \in Sizes, AllocPtr(m, s) # NULL,
         NEW v, v = [b \in Block |-> IF b = AllocPtr(m, s) THEN s ELSE w[b]]
  PROVE  /\ HeldOf(AllocMap(m, s), v)
              = [HeldOf(m, w) EXCEPT ![AllocPtr(m, s)] = HeapSpec!Needed(s)]
         /\ HeapSpec!Room(HeldOf(m, w), AllocPtr(m, s), HeapSpec!Needed(s))
<1> DEFINE p == AllocPtr(m, s)
           n == Nmemb(s)
           k == AllocMap(m, s)
<1>0. NBlocks \in Nat /\ Width \in Nat
  BY PoolAssumption
<1>1. /\ s > 0 /\ p \in Block /\ n \in 1 .. Width - 1 /\ p + n <= NBlocks
      /\ \A b \in Block : p <= b /\ b < p + n => m[b] = 0
      /\ k = Marked(m, p, n)
  BY AllocFits
<1>2. \A b \in Block : b \in Int /\ m[b] \in Nat /\ w[b] \in Nat
  BY <1>0, SizesAssumption DEF Block, Map, U16, Clients
<1>3. \A b \in Block : k[b] = IF p <= b /\ b < p + n THEN n ELSE m[b]
  BY <1>0, <1>1, <1>2 DEF Marked
<1>4. HeapSpec!Needed(s) = n
  BY <1>1, NeededIsNmemb
<1>5. Fits(m, p, n)
  BY <1>1, FirstFitCorrect, SizesAssumption DEF AllocPtr
<1>6. HeapSpec!Room(HeldOf(m, w), p, n)
  BY <1>1, <1>5, RoomIsFits
\* A live extent starts at a block in use, so outside the new run.
<1>7. \A b \in Block : w[b] > 0 => m[b] > 0 /\ b # p /\ k[b] = m[b]
  <2> TAKE b \in Block
  <2> HAVE w[b] > 0
  <2>1. w[b] \in Sizes /\ m[b] = Nmemb(w[b])
    BY DEF Clients, Sound, LiveMarked
  <2>2. m[b] > 0
    BY <2>1, NmembBounds, <1>0
  <2> QED BY <2>2, <1>1, <1>2, <1>3
<1>8. k[p] = n
  BY <1>0, <1>1, <1>2, <1>3
<1> HIDE DEF k, n, p
<1>9. \A b \in Block : v[b] = IF b = p THEN s ELSE w[b]
  BY DEF p
<1>10. \A b \in Block :
         HeldOf(k, v)[b] = IF b = p THEN n ELSE HeldOf(m, w)[b]
  <2> TAKE b \in Block
  <2>1. HeldOf(k, v)[b] = IF v[b] > 0 THEN k[b] ELSE 0
    BY DEF HeldOf
  <2>2. HeldOf(m, w)[b] = IF w[b] > 0 THEN m[b] ELSE 0
    BY DEF HeldOf
  <2>3. CASE b = p
    BY <2>1, <2>3, <1>1, <1>8, <1>9
  <2>4. CASE b # p
    BY <2>1, <2>2, <2>4, <1>7, <1>9
  <2> QED BY <2>3, <2>4
<1>11. HeldOf(k, v) = [HeldOf(m, w) EXCEPT ![p] = n]
  BY <1>1, <1>10 DEF HeldOf
<1> QED BY <1>4, <1>6, <1>11 DEF k, p

\* A request is refused only when Heap has no room for it.
LEMMA RefusedWhenNoRoom ==
  ASSUME NEW m \in Map, NEW w \in Clients, Sound(m, w),
         NEW s \in Sizes, AllocPtr(m, s) = NULL
  PROVE  s > 0 => \A o \in HeapSpec!HBlock :
                    ~ HeapSpec!Room(HeldOf(m, w), o, HeapSpec!Needed(s))
<1> SUFFICES ASSUME s > 0, NEW o \in HeapSpec!HBlock
             PROVE  ~ HeapSpec!Room(HeldOf(m, w), o, HeapSpec!Needed(s))
  OBVIOUS
<1>0. o \in Block /\ NULL \notin Block
  BY PoolAssumption DEF HeapSpec!HBlock, Block, NULL
<1>1. FirstFit(m, Nmemb(s)) = NULL
  BY SizesAssumption DEF AllocPtr
<1>2. ~ Fits(m, o, Nmemb(s))
  BY <1>0, <1>1, FirstFitCorrect
<1>3. HeapSpec!Needed(s) = Nmemb(s) /\ Nmemb(s) \in 1 .. Width - 1
  BY NeededIsNmemb, NmembBounds
<1> QED BY <1>0, <1>2, <1>3, RoomIsFits

\* Releasing a pointer removes its interval from what Heap sees.
LEMMA HeldAfterFree ==
  ASSUME NEW m \in Map, NEW w \in Clients, Sound(m, w),
         NEW p \in Block, w[p] > 0,
         NEW v, v = [b \in Block |-> IF b = p THEN 0 ELSE w[b]]
  PROVE  HeldOf(FreeMap(m, p), v) = [HeldOf(m, w) EXCEPT ![p] = 0]
<1> DEFINE k == FreeMap(m, p)
<1>0. NBlocks \in Nat /\ Width \in Nat
  BY PoolAssumption
<1>1. \A b \in Block : b \in Int /\ m[b] \in Nat /\ w[b] \in Nat
  BY <1>0, SizesAssumption DEF Block, Map, U16, Clients
<1>2. \A b \in Block : k[b] = IF p <= b /\ b < p + m[p] THEN 0 ELSE m[b]
  <2>1. p # NULL
    BY <1>0 DEF Block, NULL
  <2> QED BY <2>1, <1>0, <1>1 DEF FreeMap
<1> HIDE DEF k
<1>3. \A q \in Block : w[q] > 0 /\ q # p => k[q] = m[q]
  <2> SUFFICES ASSUME NEW q \in Block, w[q] > 0, q # p PROVE k[q] = m[q]
    OBVIOUS
  <2>1. w[q] \in Sizes /\ m[q] = Nmemb(w[q])
    BY DEF Clients, Sound, LiveMarked
  <2>2. m[q] > 0
    BY <2>1, NmembBounds, <1>0
  <2>3. q + m[q] <= p \/ p + m[p] <= q
    BY DEF Sound, LiveApart
  <2> QED BY <2>2, <2>3, <1>1, <1>2
<1>4. \A b \in Block : HeldOf(k, v)[b] = IF b = p THEN 0 ELSE HeldOf(m, w)[b]
  <2> TAKE b \in Block
  <2>1. v[b] = IF b = p THEN 0 ELSE w[b]
    OBVIOUS
  <2> QED BY <2>1, <1>3 DEF HeldOf
<1> QED BY <1>4 DEF HeldOf, k

\* Both modules number the blocks alike.
LEMMA SameConstants == HeapSpec!HBlock = Block /\ HeapSpec!HNull = NULL
BY DEF HeapSpec!HBlock, Block, HeapSpec!HNull, NULL

\* A pool before its first call is an empty heap.
LEMMA RefineInit == Init => HeapSpec!HInit
<1> SUFFICES ASSUME Init PROVE HeapSpec!HInit
  OBVIOUS
<1>1. \A b \in Block : ~ (want[b] > 0)
  BY DEF Init
<1>2. [b \in Block |-> IF want[b] > 0 THEN memmap[b] ELSE 0] = [b \in Block |-> 0]
  BY <1>1
<1> QED BY <1>2, SameConstants DEF Init, HeapSpec!HInit

\* The step of Heap that a malloc is.
LEMMA RefineMalloc ==
  ASSUME IInv, NEW size \in Sizes, MyMalloc(size)
  PROVE  HeapSpec!HAlloc(size)
<1> DEFINE p == AllocPtr(Ready, size)
<1>1. Ready \in Map /\ want \in Clients /\ Sound(Ready, want)
  BY ReadyIsMap DEF IInv
<1>2. /\ memmap' = AllocMap(Ready, size)
      /\ want' = [b \in Block |-> IF b = p THEN size ELSE want[b]]
      /\ call' = [op |-> "malloc", ptr |-> NULL, size |-> size, ret |-> p]
  BY DEF MyMalloc
<1>3. HeldOf(Ready, want) = HeldOf(memmap, want)
  BY HeldOfReady
<1>4. CASE p = NULL
  <2>1. want' = want /\ memmap' = Ready
    BY <1>4, <1>1, <1>2, PoolAssumption DEF Clients, Block, NULL, AllocMap
  <2>2. HeldOf(memmap', want') = HeldOf(memmap, want)
    BY <2>1, <1>3
  <2>3. size > 0 => \A o \in HeapSpec!HBlock :
                      ~ HeapSpec!Room(HeldOf(memmap, want), o, HeapSpec!Needed(size))
    BY <1>1, <1>3, <1>4, RefusedWhenNoRoom
  <2>4. HeapSpec!Refuse("malloc", HeapSpec!HNull, size)
    BY <2>2, <2>3, <1>2, <1>4, SameConstants DEF HeapSpec!Refuse, HeldOf
  <2> QED BY <2>4 DEF HeapSpec!HAlloc
<1>5. CASE p # NULL
  <2>1. size > 0 /\ p \in Block
    BY <1>1, <1>5, AllocFits
  <2>2. /\ HeldOf(memmap', want')
             = [HeldOf(memmap, want) EXCEPT ![p] = HeapSpec!Needed(size)]
        /\ HeapSpec!Room(HeldOf(memmap, want), p, HeapSpec!Needed(size))
    BY <1>1, <1>2, <1>3, <1>5, HeldAfterAlloc
  <2>3. HeapSpec!Grant(HeldOf(memmap, want), "malloc", HeapSpec!HNull, size)
    BY <2>1, <2>2, <1>2, SameConstants DEF HeapSpec!Grant, HeldOf
  <2> QED BY <2>1, <2>3 DEF HeapSpec!HAlloc, HeldOf
<1> QED BY <1>4, <1>5

\* A client that may call myfree or myrealloc holds the pointer in Heap too.
LEMMA HolderHolds ==
  ASSUME IInv, NEW p \in Block \cup {NULL}, Holds(p)
  PROVE  HeapSpec!Holder(p)
<1>1. CASE p = NULL
  BY <1>1, SameConstants DEF HeapSpec!Holder
<1>2. CASE p # NULL
  <2>1. p \in Live
    BY <1>2 DEF Holds
  <2>2. p \in Block /\ want[p] > 0 /\ memmap[p] \in 1 .. Width - 1 /\ Width \in Nat
    BY <2>1, LiveFacts, PoolAssumption
  <2> QED BY <2>2 DEF HeapSpec!Holder
<1> QED BY <1>1, <1>2

\* The step of Heap that a release is.
LEMMA RefineFree ==
  ASSUME IInv, NEW p \in Block \cup {NULL}, Holds(p), MyFree(p)
  PROVE  HeapSpec!HFree(p)
<1>1. Ready \in Map /\ want \in Clients /\ Sound(Ready, want)
  BY ReadyIsMap DEF IInv
<1>2. /\ want' = [b \in Block |-> IF b = p THEN 0 ELSE want[b]]
      /\ call' = [op |-> "free", ptr |-> p, size |-> 0, ret |-> NULL]
  BY DEF MyFree
<1>3. CASE p = NULL
  <2>1. want' = want /\ memmap' = memmap
    BY <1>3, <1>1, <1>2, PoolAssumption
       DEF Clients, Block, NULL, MyFree, FreeMap
  <2> QED BY <2>1, <1>2, <1>3, SameConstants
          DEF HeapSpec!HFree, HeapSpec!Released
<1>4. CASE p # NULL
  <2>1. p \in Block /\ want[p] > 0 /\ memrdy = TRUE /\ Ready = memmap
    BY <1>4, LiveFacts DEF Holds
  <2>2. memmap' = FreeMap(memmap, p)
    BY <2>1, <1>4 DEF MyFree
  <2>3. HeldOf(memmap', want') = [HeldOf(memmap, want) EXCEPT ![p] = 0]
    BY <2>1, <2>2, <1>1, <1>2, HeldAfterFree
  <2> QED BY <2>3, <1>2, <1>4, SameConstants
          DEF HeapSpec!HFree, HeapSpec!Released, HeldOf
<1> QED BY <1>3, <1>4

\* The step of Heap that a realloc is: refused, or granted beside the old
\* interval, which is then released (malloc.c:165-176).
LEMMA RefineRealloc ==
  ASSUME IInv, NEW p \in Block \cup {NULL}, Holds(p), NEW size \in Sizes,
         MyRealloc(p, size)
  PROVE  HeapSpec!HRealloc(p, size)
<1> DEFINE q == AllocPtr(Ready, size)
           m == AllocMap(Ready, size)
           v == [b \in Block |-> IF b = q THEN size ELSE want[b]]
           H == HeldOf(memmap, want)
<1>1. Ready \in Map /\ want \in Clients /\ Sound(Ready, want)
  BY ReadyIsMap DEF IInv
<1>2. /\ memmap' = IF q = NULL THEN m ELSE FreeMap(m, p)
      /\ want' = IF q = NULL
                 THEN want
                 ELSE [b \in Block |-> IF b = p THEN 0 ELSE v[b]]
      /\ call' = [op |-> "realloc", ptr |-> p, size |-> size, ret |-> q]
  BY DEF MyRealloc
<1>3. HeldOf(Ready, want) = H
  BY HeldOfReady
<1>4. CASE q = NULL
  <2>1. want' = want /\ memmap' = Ready
    BY <1>2, <1>4 DEF AllocMap
  <2>2. size > 0 => \A o \in HeapSpec!HBlock :
                      ~ HeapSpec!Room(H, o, HeapSpec!Needed(size))
    BY <1>1, <1>3, <1>4, RefusedWhenNoRoom
  <2>3. HeapSpec!Refuse("realloc", p, size)
    BY <2>1, <2>2, <1>2, <1>3, <1>4, SameConstants DEF HeapSpec!Refuse, HeldOf
  <2> QED BY <2>3 DEF HeapSpec!HRealloc
<1>5. CASE q # NULL
  <2>1. size > 0 /\ q \in Block
    BY <1>1, <1>5, AllocFits
  <2>2. /\ HeldOf(m, v) = [H EXCEPT ![q] = HeapSpec!Needed(size)]
        /\ HeapSpec!Room(H, q, HeapSpec!Needed(size))
    BY <1>1, <1>3, <1>5, HeldAfterAlloc
  <2>3. Sound(m, v) /\ want[q] = 0
    BY <1>1, <1>5, AllocSound
  <2>4. m \in Map /\ v \in Clients
    BY <1>1, TablesAreMaps DEF Clients
  <2>5. memmap' = FreeMap(m, p) /\ want' = [b \in Block |-> IF b = p THEN 0 ELSE v[b]]
    BY <1>2, <1>5
  <2>6. HeldOf(memmap', want')
          = [HeapSpec!Released(p) EXCEPT ![q] = HeapSpec!Needed(size)]
    <3>1. CASE p = NULL
      <4>1. memmap' = m
        BY <3>1, <2>5 DEF FreeMap
      <4>2. want' = v
        BY <3>1, <2>5, PoolAssumption DEF Block, NULL
      <4>3. HeapSpec!Released(p) = H
        BY <3>1, SameConstants DEF HeapSpec!Released, HeldOf
      <4> QED BY <4>1, <4>2, <4>3, <2>2
    <3>2. CASE p # NULL
      <4>1. p \in Block /\ want[p] > 0
        BY <3>2 DEF Holds, Live
      <4>2. p # q /\ v[p] > 0
        BY <4>1, <2>3
      <4>3. HeapSpec!Released(p) = [H EXCEPT ![p] = 0]
        BY <3>2, SameConstants DEF HeapSpec!Released, HeldOf
      <4>4. H = [b \in Block |-> H[b]]
        BY DEF HeldOf
      <4> HIDE DEF m, v, H
      <4>5. HeldOf(memmap', want') = [HeldOf(m, v) EXCEPT ![p] = 0]
        BY <4>1, <4>2, <2>3, <2>4, <2>5, HeldAfterFree
      <4> HIDE DEF q
      <4>6. [[H EXCEPT ![q] = HeapSpec!Needed(size)] EXCEPT ![p] = 0]
              = [[H EXCEPT ![p] = 0] EXCEPT ![q] = HeapSpec!Needed(size)]
        BY <4>1, <4>2, <4>4, <2>1
      <4> QED BY <4>3, <4>5, <4>6, <2>2
    <3> QED BY <3>1, <3>2
  <2>7. HeapSpec!Grant(HeapSpec!Released(p), "realloc", p, size)
    BY <2>1, <2>2, <2>6, <1>2, SameConstants DEF HeapSpec!Grant, HeldOf
  <2> QED BY <2>1, <2>7 DEF HeapSpec!HRealloc
<1> QED BY <1>4, <1>5

\* Initialising a pool nobody uses yet is invisible to Heap.
LEMMA RefineMemInit ==
  ASSUME IInv, MemInit
  PROVE  UNCHANGED HeapSpec!heapVars
<1>1. \A b \in Block : ~ (want[b] > 0)
  BY DEF MemInit, Live
<1>2. want' = want /\ call' = call
  BY DEF MemInit
<1> QED BY <1>1, <1>2 DEF HeapSpec!heapVars

\* Every call of the pool is a call of Heap or leaves it unchanged.
LEMMA RefineNext ==
  IInv /\ [Next]_vars => [HeapSpec!HNext]_(HeapSpec!heapVars)
<1> SUFFICES ASSUME IInv, [Next]_vars
             PROVE  [HeapSpec!HNext]_(HeapSpec!heapVars)
  OBVIOUS
<1>1. CASE MemInit
  BY <1>1, RefineMemInit
<1>2. ASSUME NEW size \in Sizes, MyMalloc(size) PROVE HeapSpec!HNext
  BY <1>2, RefineMalloc DEF HeapSpec!HNext
<1>3. ASSUME NEW p \in Block \cup {NULL}, Holds(p) /\ MyFree(p)
      PROVE  HeapSpec!HNext
  BY <1>3, RefineFree, HolderHolds, SameConstants DEF HeapSpec!HNext
<1>4. ASSUME NEW p \in Block \cup {NULL}, NEW size \in Sizes,
             Holds(p) /\ MyRealloc(p, size)
      PROVE  HeapSpec!HNext
  BY <1>4, RefineRealloc, HolderHolds, SameConstants DEF HeapSpec!HNext
<1>5. CASE UNCHANGED vars
  BY <1>5 DEF vars, HeapSpec!heapVars
<1> QED BY <1>1, <1>2, <1>3, <1>4, <1>5 DEF Next

\* The pool implements the heap for every pool and every set of requests: a
\* caller gets memory of its own, loses it only by giving it back, and is
\* turned away only when there is no run of free blocks (malloc.h:62-65).
THEOREM Refinement == Spec => ImplementsHeap
BY RefineInit, InitIInv, NextIInv, RefineNext, PTL
   DEF Spec, ImplementsHeap, HeapSpec!HSpec

-----------------------------------------------------------------------------
(***************************************************************************)
(* MemScan: the loops of mymem_malloc and mymem_free compute FirstFit,     *)
(* Marked and FreeMap, on which everything above rests.  A call is made on *)
(* any table whose used blocks are tiled by allocations, which is every    *)
(* table the allocator can produce.                                        *)
(***************************************************************************)

\* No run of n free blocks starts above o.
NoneAbove(o, n) == \A b \in Block : b > o => ~ Fits(memmap0, b, n)

\* The search has counted the free blocks between offset and the next one in
\* use, or the end.
Searching == /\ nmemb = arg /\ arg \in 1 .. Width - 1
             /\ memmap = memmap0 /\ i = 0
             /\ cmemb \in 0 .. nmemb - 1 /\ offset + cmemb \in -1 .. NBlocks - 1
             /\ \A b \in Block : offset < b /\ b <= offset + cmemb => memmap0[b] = 0
             /\ offset + cmemb + 1 \in Block => memmap0[offset + cmemb + 1] # 0
             /\ NoneAbove(offset, nmemb)

\* The marking has got as far as i.
Marking == /\ nmemb = arg /\ arg \in 1 .. Width - 1
           /\ offset \in Block /\ Fits(memmap0, offset, nmemb) /\ NoneAbove(offset, nmemb)
           /\ memmap = [b \in Block |-> IF b \in offset .. offset + i - 1 THEN nmemb
                                        ELSE memmap0[b]]

\* And the clearing.
Clearing == /\ arg \in Block /\ offset = arg /\ nmemb = memmap0[arg]
            /\ arg + nmemb <= NBlocks
            /\ memmap = [b \in Block |-> IF b \in arg .. arg + i - 1 THEN 0 ELSE memmap0[b]]

ScanInv == /\ loop \in {"scan", "mark", "clear", "found", "freed", "failed"}
           /\ memmap0 \in [Block -> 0 .. NBlocks]
           /\ nmemb \in U16 /\ cmemb \in U16 /\ offset \in -1 .. NBlocks - 1
           /\ i \in 0 .. nmemb
           /\ loop = "scan" => Searching
           /\ loop \in {"mark", "found"} => Marking
           /\ loop = "found" => i = nmemb
           /\ loop \in {"clear", "freed"} => Clearing
           /\ loop = "freed" => i = nmemb
           /\ loop = "failed" => memmap = memmap0 /\ nmemb = arg /\ NoneAbove(-1, arg)

LEMMA PoolSize == /\ NBlocks \in Nat /\ NBlocks >= 1 /\ Width \in Nat /\ NBlocks < Width
                  /\ Width >= 2
BY PoolAssumption

\* In a table tiled by allocations no entry is longer than the pool.
LEMMA TiledEntries ==
  ASSUME NEW m \in [Block -> 0 .. MaxLen], Table(m)
  PROVE  m \in [Block -> 0 .. NBlocks]
<1>1. PICK S \in SUBSET Block : Tiling(m, S)
  BY DEF Table
<1>2. \A b \in Block : m[b] \in Nat /\ b \in Nat
  BY MaxLenAssumption, PoolSize DEF Block
<1>3. ASSUME NEW b \in Block, m[b] > 0 PROVE m[b] <= NBlocks
  <2>1. PICK s \in S : b \in Extent(m, s)
    BY <1>1, <1>3 DEF Tiling
  <2>2. StartsAt(m, s)
    BY <1>1 DEF Tiling
  <2>3. s \in Nat /\ m[s] \in Nat /\ m[s] > 0
    BY <1>2, <2>2 DEF StartsAt
  <2>4. m[b] = m[s]
    BY <2>1, <2>2 DEF Extent, StartsAt
  <2>5. s + m[s] - 1 \in Block
    <3>1. s + m[s] - 1 \in s .. s + m[s] - 1
      BY <2>3
    <3> QED BY <2>2, <3>1 DEF StartsAt
  <2> QED BY <2>3, <2>4, <2>5, PoolSize DEF Block
<1> QED BY <1>2, <1>3, PoolSize

LEMMA InitScanInv == ScanInit => ScanInv
<1> SUFFICES ASSUME ScanInit PROVE ScanInv
    OBVIOUS
<1> USE PoolSize
<1>1. /\ memmap0 \in [Block -> 0 .. NBlocks] /\ memmap = memmap0 /\ cmemb = 0 /\ i = 0
      /\ MallocCall \/ FreeCall
      BY TiledEntries DEF ScanInit
<1>2. CASE MallocCall
  <2>1. loop = "scan" /\ nmemb = arg /\ arg \in 1 .. Width - 1 /\ offset = NBlocks - 1
        BY <1>2 DEF MallocCall
  <2>2. NoneAbove(offset, nmemb)
        BY <2>1 DEF NoneAbove, Block
  <2>3. /\ cmemb \in 0 .. nmemb - 1 /\ offset + cmemb \in -1 .. NBlocks - 1
        /\ offset + cmemb + 1 \notin Block
        /\ \A b \in Block : ~ (offset < b /\ b <= offset + cmemb)
        BY <1>1, <2>1 DEF Block
  <2>4. Searching
        BY <1>1, <2>1, <2>2, <2>3 DEF Searching
  <2>5. nmemb \in U16 /\ cmemb \in U16 /\ i \in 0 .. nmemb /\ offset \in -1 .. NBlocks - 1
        BY <1>1, <2>1 DEF U16
  <2> QED BY <1>1, <2>1, <2>4, <2>5 DEF ScanInv
<1>3. CASE FreeCall
  <2>1. /\ loop = "clear" /\ nmemb = memmap0[arg] /\ offset = arg
        /\ arg \in {b \in Block : \E S \in SUBSET Block :
                                         b \in S /\ Tiling(memmap0, S)}
        BY <1>3 DEF FreeCall
  <2>2. arg \in Block /\ StartsAt(memmap0, arg)
        BY <2>1 DEF Tiling
  <2>3. nmemb \in 1 .. NBlocks
        BY <1>1, <2>1, <2>2 DEF StartsAt
  <2>4. arg + nmemb - 1 \in Block
    <3>1. arg + nmemb - 1 \in arg .. arg + nmemb - 1
          BY <2>2, <2>3 DEF Block
    <3> QED BY <2>1, <2>2, <3>1 DEF StartsAt
  <2>5. memmap = [b \in Block |-> IF b \in arg .. arg + i - 1 THEN 0 ELSE memmap0[b]]
    <3>1. \A b \in Block : b \notin arg .. arg + i - 1
          BY <1>1, <2>2 DEF Block
    <3> QED BY <1>1, <3>1
  <2>6. arg + nmemb <= NBlocks
        BY <2>2, <2>3, <2>4 DEF Block
  <2>7. Clearing
        BY <2>1, <2>2, <2>5, <2>6 DEF Clearing
  <2>8. nmemb \in U16 /\ cmemb \in U16 /\ i \in 0 .. nmemb /\ offset \in -1 .. NBlocks - 1
        BY <1>1, <2>1, <2>2, <2>3 DEF U16, Block
  <2> QED BY <1>1, <2>1, <2>7, <2>8 DEF ScanInv
<1> QED BY <1>1, <1>2, <1>3

\* One block further down.
LEMMA ScanScanInv == ScanInv /\ Scan => ScanInv'
<1> SUFFICES ASSUME ScanInv, Scan PROVE ScanInv'
    OBVIOUS
<1> USE PoolSize
<1>1. /\ loop = "scan" /\ offset >= 0 /\ cmemb' = Counted
      /\ UNCHANGED <<memmap, nmemb, i, memmap0, arg>>
      /\ IF Counted = nmemb THEN loop' = "mark" /\ offset' = offset
                                 ELSE loop' = loop /\ offset' = offset - 1
      BY DEF Scan, callArgs
<1>2. /\ Searching /\ offset \in Block /\ memmap = memmap0 /\ nmemb = arg /\ i = 0
      /\ nmemb \in 1 .. Width - 1 /\ cmemb \in 0 .. nmemb - 1
      /\ offset \in Int /\ offset + cmemb <= NBlocks - 1
      BY <1>1 DEF ScanInv, Searching, Block
<1>3. Counted = IF memmap0[offset] = 0 THEN cmemb + 1 ELSE 0
  <2>1. (cmemb + 1) % Width = cmemb + 1
        BY <1>2
  <2> QED BY <1>2, <2>1 DEF Counted
<1>4. CASE memmap0[offset] = 0 /\ cmemb + 1 = nmemb
  <2>1. loop' = "mark" /\ offset' = offset /\ cmemb' = nmemb
        BY <1>1, <1>3, <1>4
  <2>2. Fits(memmap0, offset, nmemb)
    <3>1. offset + nmemb <= NBlocks
          BY <1>2, <1>4
    <3>2. \A b \in offset .. offset + nmemb - 1 : memmap0[b] = 0
      <4> TAKE b \in offset .. offset + nmemb - 1
      <4>1. b \in Block /\ (b = offset \/ (offset < b /\ b <= offset + cmemb))
            BY <1>2, <1>4, <3>1 DEF Block
      <4> QED BY <1>2, <1>4, <4>1 DEF Searching
    <3> QED BY <1>2, <3>1, <3>2 DEF Fits
  <2>3. memmap' = [b \in Block |-> IF b \in offset .. offset + i - 1 THEN nmemb
                                   ELSE memmap0[b]]
    <3>1. \A b \in Block : b \notin offset .. offset + i - 1
          BY <1>2 DEF Block
    <3>2. memmap' = [b \in Block |-> memmap0[b]]
          BY <1>1, <1>2 DEF ScanInv
    <3> QED BY <3>1, <3>2
  <2>4. Marking'
        BY <1>1, <1>2, <2>1, <2>2, <2>3 DEF Marking, Searching, NoneAbove
  <2> QED BY <1>1, <1>2, <2>1, <2>4 DEF ScanInv, U16
<1>5. CASE ~ (memmap0[offset] = 0 /\ cmemb + 1 = nmemb)
  <2>1. /\ loop' = "scan" /\ offset' = offset - 1
        /\ cmemb' = IF memmap0[offset] = 0 THEN cmemb + 1 ELSE 0
        /\ cmemb' \in 0 .. nmemb - 1
        BY <1>1, <1>2, <1>3, <1>5
  <2>2. ~ Fits(memmap0, offset, nmemb)
    <3> SUFFICES ASSUME Fits(memmap0, offset, nmemb) PROVE FALSE
        OBVIOUS
    <3>1. /\ offset + nmemb <= NBlocks
          /\ \A b \in offset .. offset + nmemb - 1 : memmap0[b] = 0
          BY <1>2 DEF Fits
    <3>2. offset \in offset .. offset + nmemb - 1
          BY <1>2
    <3>3. cmemb + 1 < nmemb
          BY <1>2, <1>5, <3>1, <3>2
    <3>4. /\ offset + cmemb + 1 \in offset .. offset + nmemb - 1
          /\ offset + cmemb + 1 \in Block
          BY <1>2, <3>1, <3>3 DEF Block
    <3> QED BY <1>2, <3>1, <3>4 DEF Searching
  <2>3. NoneAbove(offset', nmemb)
    <3>1. \A b \in Block : b > offset - 1 => b = offset \/ b > offset
          BY <1>2 DEF Block
    <3> QED BY <1>2, <2>1, <2>2, <3>1 DEF NoneAbove, Searching
  <2>4. /\ offset' + cmemb' \in -1 .. NBlocks - 1
        /\ \A b \in Block : offset' < b /\ b <= offset' + cmemb' => memmap0[b] = 0
        /\ offset' + cmemb' + 1 \in Block => memmap0[offset' + cmemb' + 1] # 0
    <3>1. CASE memmap0[offset] = 0
      <4>1. offset' + cmemb' = offset + cmemb
            BY <1>2, <2>1, <3>1
      <4>2. \A b \in Block : offset' < b => b = offset \/ offset < b
            BY <1>2, <2>1 DEF Block
      <4> QED BY <1>2, <3>1, <4>1, <4>2 DEF Searching
    <3>2. CASE memmap0[offset] # 0
      <4>1. offset' + cmemb' = offset - 1 /\ offset' + cmemb' + 1 = offset
            BY <1>2, <2>1, <3>2
      <4>2. \A b \in Block : ~ (offset' < b /\ b <= offset' + cmemb')
            BY <1>2, <2>1, <4>1 DEF Block
      <4>3. offset - 1 \in -1 .. NBlocks - 1
            BY <1>1, <1>2 DEF Block
      <4> QED BY <3>2, <4>1, <4>2, <4>3
    <3> QED BY <3>1, <3>2
  <2>5. Searching'
    <3>1. NoneAbove(offset, nmemb)'
          BY <1>1, <2>3 DEF NoneAbove
    <3> QED BY <1>1, <1>2, <2>1, <2>4, <3>1 DEF Searching
  <2>6. offset' \in -1 .. NBlocks - 1 /\ cmemb' \in U16
        BY <1>1, <1>2, <2>1 DEF Block, U16
  <2> QED BY <1>1, <1>2, <2>1, <2>5, <2>6 DEF ScanInv
<1> QED BY <1>4, <1>5

\* The writes stay on the run.
LEMMA WriteScanInv == ScanInv /\ (Mark \/ Clear) => ScanInv'
<1> SUFFICES ASSUME ScanInv, Mark \/ Clear PROVE ScanInv'
    OBVIOUS
<1> USE PoolSize
<1>1. /\ i < nmemb /\ i' = i + 1 /\ UNCHANGED <<loop, nmemb, cmemb, offset, memmap0, arg>>
      /\ \/ loop = "mark" /\ memmap' = [memmap EXCEPT ![offset + i] = nmemb]
         \/ loop = "clear" /\ memmap' = [memmap EXCEPT ![offset + i] = 0]
      BY DEF Mark, Clear, Write, callArgs
<1>2. nmemb \in Nat /\ i \in 0 .. nmemb /\ i' \in 0 .. nmemb
      BY <1>1 DEF ScanInv, U16
<1>3. CASE loop = "mark"
  <2>1. Marking /\ offset \in Int
        BY <1>3 DEF ScanInv, Marking, Block
  <2>2. \A b \in Block : b \in offset .. offset + i' - 1
                           <=> b \in offset .. offset + i - 1 \/ b = offset + i
        BY <1>1, <1>2, <2>1 DEF Block
  <2>3. memmap' = [memmap EXCEPT ![offset + i] = nmemb]
        BY <1>1, <1>3
  <2>4. memmap' = [b \in Block |-> IF b \in offset .. offset + i' - 1 THEN nmemb
                                   ELSE memmap0[b]]
        BY <2>1, <2>2, <2>3 DEF Marking
  <2>5. Marking'
        BY <1>1, <2>1, <2>4 DEF Marking, NoneAbove
  <2> QED BY <1>1, <1>2, <1>3, <2>5 DEF ScanInv
<1>4. CASE loop = "clear"
  <2>1. Clearing /\ arg \in Int
        BY <1>4 DEF ScanInv, Clearing, Block
  <2>2. \A b \in Block : b \in arg .. arg + i' - 1
                           <=> b \in arg .. arg + i - 1 \/ b = offset + i
        BY <1>1, <1>2, <2>1 DEF Block, Clearing
  <2>3. memmap' = [memmap EXCEPT ![offset + i] = 0]
        BY <1>1, <1>4
  <2>4. memmap' = [b \in Block |-> IF b \in arg .. arg + i' - 1 THEN 0 ELSE memmap0[b]]
        BY <2>1, <2>2, <2>3 DEF Clearing
  <2>5. Clearing'
        BY <1>1, <2>1, <2>4 DEF Clearing
  <2> QED BY <1>1, <1>2, <1>4, <2>5 DEF ScanInv
<1> QED BY <1>1, <1>3, <1>4

LEMMA ReturnScanInv == ScanInv /\ (Return \/ NotFound) => ScanInv'
<1> SUFFICES ASSUME ScanInv, Return \/ NotFound PROVE ScanInv'
    OBVIOUS
<1>1. UNCHANGED <<memmap, nmemb, cmemb, offset, i, memmap0, arg>>
      BY DEF Return, NotFound, callArgs
<1>2. CASE Return
  <2>1. /\ loop \in {"mark", "clear"} /\ i >= nmemb
        /\ loop' = IF loop = "mark" THEN "found" ELSE "freed"
        BY <1>2 DEF Return
  <2>2. i = nmemb
        BY <2>1, PoolSize DEF ScanInv, U16
  <2> QED BY <1>1, <2>1, <2>2 DEF ScanInv, Marking, Clearing, NoneAbove
<1>3. CASE NotFound
  <2>1. loop = "scan" /\ offset < 0 /\ loop' = "failed"
        BY <1>3 DEF NotFound
  <2>2. offset = -1 /\ Searching
        BY <2>1 DEF ScanInv
  <2> QED BY <1>1, <2>1, <2>2 DEF ScanInv, Searching, NoneAbove
<1> QED BY <1>2, <1>3

\* Above the highest fitting block there is none, and FirstFit is that block.
LEMMA HighestIsFirstFit ==
  ASSUME NEW m, NEW n, NEW o \in Block, Fits(m, o, n),
         \A b \in Block : b > o => ~ Fits(m, b, n)
  PROVE  FirstFit(m, n) = o
<1>1. IsFirstFit(m, o, n)
      BY PoolSize DEF IsFirstFit, Block
<1>2. \A b \in Block : IsFirstFit(m, b, n) => b = o
      BY <1>1, PoolSize DEF IsFirstFit, Block
<1> QED BY <1>1, <1>2 DEF FirstFit, IsFirstFit

LEMMA ImpliesScanAgrees == ScanInv => ScanAgrees
<1> SUFFICES ASSUME ScanInv PROVE ScanAgrees
    OBVIOUS
<1> USE PoolSize
<1>1. loop = "found" => /\ offset = FirstFit(memmap0, arg)
                      /\ memmap = Marked(memmap0, offset, arg)
      BY HighestIsFirstFit DEF ScanInv, Marking, NoneAbove, Marked
<1>2. loop = "failed" => FirstFit(memmap0, arg) = NULL /\ memmap = memmap0
  <2> HAVE loop = "failed"
  <2>1. \A b \in Block : ~ Fits(memmap0, b, arg)
        BY DEF ScanInv, NoneAbove, Block
  <2> QED BY <2>1, FirstFitCorrect DEF ScanInv
<1>3. loop = "freed" => memmap = FreeMap(memmap0, arg)
      BY DEF ScanInv, Clearing, FreeMap, Block, NULL
<1>4. memmap \in [Block -> U16]
  <2>1. nmemb \in U16 /\ 0 \in U16 /\ \A b \in Block : memmap0[b] \in U16
        BY DEF ScanInv, U16
  <2>2. memmap0 \in [Block -> U16]
        BY <2>1 DEF ScanInv
  <2> QED BY <2>1, <2>2 DEF ScanInv, Searching, Marking, Clearing
<1>5. loop \in {"mark", "clear"} /\ i < nmemb => offset + i \in Block
  <2>1. loop = "mark" => offset \in Block /\ offset + nmemb <= NBlocks
        BY DEF ScanInv, Marking, Fits
  <2>2. loop = "clear" => offset \in Block /\ offset + nmemb <= NBlocks
        BY DEF ScanInv, Clearing
  <2> QED BY <2>1, <2>2 DEF ScanInv, U16, Block
<1> QED BY <1>1, <1>2, <1>3, <1>4, <1>5
        DEF ScanInv, ScanAgrees, ScanTypeOK, FoundIsFirstFit,
            FailsOnlyWhenFull, FreedIsFreeMap

\* The loops of malloc.c, with two u16 counters and one pass over the table,
\* return the block FirstFit names and leave the table Marked or FreeMap
\* describes, and index the table only within its bounds (malloc.c:97-107,
\* 127-132).
THEOREM LoopsAgree == ScanSpec => []ScanAgrees
<1>1. ScanInv /\ [ScanNext]_scanVars => ScanInv'
  <2>1. ScanInv /\ UNCHANGED scanVars => ScanInv'
        BY DEF scanVars, callArgs, ScanInv, Searching, Marking, Clearing, NoneAbove
  <2> QED BY <2>1, ScanScanInv, WriteScanInv, ReturnScanInv DEF ScanNext
<1> QED BY InitScanInv, <1>1, ImpliesScanAgrees, PTL DEF ScanSpec

-----------------------------------------------------------------------------
(***************************************************************************)
(* The program as a client of the pool: Boot, for every pool and all sizes *)
(* of its buffers that are requests the program can make.  Its pool is     *)
(* sound for the pointers it has allocated and not released, whether or    *)
(* not a variable still holds them (Book).                                 *)
(***************************************************************************)

\* Every buffer is for a size the program may request.
Requests == SizeOf \in [Slots -> Sizes \ {0}]
Pointers == [Slots -> Block \cup {NULL}]

\* The variables O hold each a pointer of its own, for the size it asked for.
Kept(sl, O, w) ==
  /\ \A s \in O : sl[s] # NULL => w[sl[s]] = SizeOf[s]
  /\ \A s, t \in O : s # t /\ sl[s] # NULL => sl[s] # sl[t]

Book(m, L, sl, O) ==
  \E w \in Clients : Sound(m, w) /\ L = {b \in Block : w[b] > 0} /\ Kept(sl, O, w)

\* Releasing what was just allocated restores the table.
LEMMA FreeUndoesAlloc ==
  ASSUME NEW m \in Map, NEW z \in Sizes
  PROVE  FreeMap(AllocMap(m, z), AllocPtr(m, z)) = m
<1>1. CASE AllocPtr(m, z) = NULL
  BY <1>1 DEF FreeMap, AllocMap
<1>2. CASE AllocPtr(m, z) # NULL
  <2> DEFINE p == AllocPtr(m, z)
             n == Nmemb(z)
             k == AllocMap(m, z)
  <2>1. /\ p \in Block /\ n \in 1 .. Width - 1 /\ k = Marked(m, p, n)
        /\ \A b \in Block : p <= b /\ b < p + n => m[b] = 0
    BY <1>2, AllocFits
  <2>2. NBlocks \in Nat /\ Width \in Nat
    BY PoolAssumption
  <2>3. p # NULL
    BY <1>2
  <2> HIDE DEF p, n, k
  <2>4. k[p] = n
    BY <2>1, <2>2 DEF Marked, Block
  <2>5. FreeMap(k, p) = [b \in Block |-> IF b \in p .. p + n - 1 THEN 0 ELSE k[b]]
    BY <2>3, <2>4 DEF FreeMap
  <2>6. \A b \in Block : (IF b \in p .. p + n - 1 THEN 0 ELSE k[b]) = m[b]
    BY <2>1, <2>2 DEF Marked, Block
  <2>7. m = [b \in Block |-> m[b]]
    BY DEF Map
  <2>8. FreeMap(k, p) = m
    BY <2>5, <2>6, <2>7
  <2> QED BY <2>8 DEF k, p
<1> QED BY <1>1, <1>2

\* s = mymalloc(SRAMIN, SizeOf[s]), for a variable that holds nothing.
LEMMA BookAllocate ==
  ASSUME Requests, NEW m \in Map, NEW L, NEW sl \in Pointers,
         NEW O \in SUBSET Slots, NEW s \in Slots, s \notin O,
         Book(m, L, sl, O),
         NEW p, p = AllocPtr(m, SizeOf[s])
  PROVE  /\ p \in Block \cup {NULL}
         /\ AllocMap(m, SizeOf[s]) \in Map
         /\ [sl EXCEPT ![s] = p] \in Pointers
         /\ Book(AllocMap(m, SizeOf[s]), L \cup ({p} \ {NULL}),
                 [sl EXCEPT ![s] = p], O \cup {s})
<1> DEFINE z == SizeOf[s]
           k == AllocMap(m, z)
           u == [sl EXCEPT ![s] = p]
<1>0. z \in Sizes /\ z \in Nat /\ z > 0
  BY SizesAssumption DEF Requests
<1>1. p \in Block \cup {NULL} /\ k \in Map
  BY <1>0, AllocFits, TablesAreMaps
<1>2. /\ u \in Pointers /\ u[s] = p /\ \A t \in O : u[t] = sl[t] /\ t # s
  BY <1>1 DEF Pointers
<1>3. PICK w : /\ w \in Clients /\ Sound(m, w) /\ Kept(sl, O, w)
               /\ L = {b \in Block : w[b] > 0}
  BY DEF Book
<1>4. \A t \in O : sl[t] \in Block \cup {NULL} /\ SizeOf[t] \in Sizes /\ SizeOf[t] > 0
  BY SizesAssumption DEF Pointers, Requests
<1> HIDE DEF u, k
<1>5. CASE p = NULL
  <2>1. k = m /\ L \cup ({p} \ {NULL}) = L
    BY <1>5 DEF k, AllocMap
  <2>2. Kept(u, O \cup {s}, w)
    BY <1>2, <1>3, <1>5 DEF Kept
  <2>3. Book(k, L \cup ({p} \ {NULL}), u, O \cup {s})
    BY <1>3, <2>1, <2>2 DEF Book
  <2> QED BY <1>1, <1>2, <2>3 DEF k, u
<1>6. CASE p # NULL
  <2> DEFINE v == [b \in Block |-> IF b = p THEN z ELSE w[b]]
  <2>1. Sound(k, v) /\ w[p] = 0 /\ p \in Block
    BY <1>0, <1>1, <1>3, <1>6, AllocSound DEF k
  <2>2. v \in Clients
    BY <1>0, <1>3 DEF Clients
  <2>3. L \cup ({p} \ {NULL}) = {b \in Block : v[b] > 0}
    BY <1>0, <1>3, <1>6, <2>1
  <2>4. \A t \in O : sl[t] # NULL => sl[t] # p /\ v[sl[t]] = SizeOf[t]
    BY <1>3, <1>4, <2>1 DEF Kept
  <2>5. v[p] = z
    BY <2>1
  <2> HIDE DEF v
  <2>6. Kept(u, O \cup {s}, v)
    BY <1>2, <1>3, <1>6, <2>4, <2>5 DEF Kept
  <2>7. Book(k, L \cup ({p} \ {NULL}), u, O \cup {s})
    BY <2>1, <2>2, <2>3, <2>6 DEF Book
  <2> QED BY <1>1, <1>2, <2>7 DEF k, u
<1> QED BY <1>5, <1>6

\* myfree(SRAMIN, s), for a variable that holds its pointer or NULL.
LEMMA BookRelease ==
  ASSUME Requests, NEW m \in Map, NEW L, NEW sl \in Pointers,
         NEW O \in SUBSET Slots, NEW s \in O, Book(m, L, sl, O)
  PROVE  /\ FreeMap(m, sl[s]) \in Map
         /\ Book(FreeMap(m, sl[s]), L \ {sl[s]}, sl, O \ {s})
         /\ sl[s] \in L \cup {NULL}
<1> DEFINE p == sl[s]
           k == FreeMap(m, p)
<1>1. p \in Block \cup {NULL} /\ SizeOf[s] \in Nat /\ SizeOf[s] > 0
  BY SizesAssumption DEF Pointers, Requests
<1>2. k \in Map
  BY <1>1, TablesAreMaps
<1>3. PICK w : /\ w \in Clients /\ Sound(m, w) /\ Kept(sl, O, w)
               /\ L = {b \in Block : w[b] > 0}
  BY DEF Book
<1>4. CASE p = NULL
  <2>1. k = m /\ L \ {p} = L
    BY <1>3, <1>4 DEF FreeMap, NULL, Block
  <2>2. Kept(sl, O \ {s}, w)
    BY <1>3 DEF Kept
  <2>3. Book(k, L \ {p}, sl, O \ {s})
    BY <1>3, <2>1, <2>2 DEF Book
  <2> QED BY <1>2, <1>4, <2>3
<1>5. CASE p # NULL
  <2> DEFINE v == [b \in Block |-> IF b = p THEN 0 ELSE w[b]]
  <2>1. p \in Block /\ w[p] > 0
    BY <1>1, <1>3, <1>5 DEF Kept
  <2>2. Sound(k, v)
    BY <1>3, <2>1, FreeSound
  <2>3. v \in Clients
    BY <1>3 DEF Clients
  <2>4. L \ {p} = {b \in Block : v[b] > 0}
    BY <1>3
  <2>5. \A t \in O \ {s} : sl[t] # NULL => sl[t] # p /\ sl[t] \in Block
    BY <1>3 DEF Kept, Pointers
  <2>6. Kept(sl, O \ {s}, v)
    BY <1>3, <2>5 DEF Kept
  <2> HIDE DEF v
  <2>7. Book(k, L \ {p}, sl, O \ {s})
    BY <2>2, <2>3, <2>4, <2>6 DEF Book
  <2> QED BY <1>2, <1>3, <2>1, <2>7
<1> QED BY <1>4, <1>5

\* A variable whose pointer is forgotten is no longer accounted for.
LEMMA BookForgets ==
  ASSUME NEW m, NEW L, NEW sl, NEW O, NEW Q \in SUBSET O, Book(m, L, sl, O)
  PROVE  Book(m, L, sl, Q)
BY DEF Book, Kept

\* What a sound book says of the pointers it lists.
LEMMA BookTells ==
  ASSUME Requests, NEW m \in Map, NEW L, NEW sl \in Pointers,
         NEW O \in SUBSET Slots, Book(m, L, sl, O)
  PROVE  /\ L \subseteq Block
         /\ m \in [Block -> 0 .. NBlocks]
         /\ \A s \in O : sl[s] # NULL => /\ sl[s] \in L
                                         /\ m[sl[s]] * BlockSize >= SizeOf[s]
         /\ \A s, t \in O : s # t /\ sl[s] # NULL /\ sl[t] # NULL =>
              Extent(m, sl[s]) \cap Extent(m, sl[t]) = {}
<1>0. NBlocks \in Nat /\ Width \in Nat
  BY PoolAssumption
<1>1. PICK w : /\ w \in Clients /\ Sound(m, w) /\ Kept(sl, O, w)
               /\ L = {b \in Block : w[b] > 0}
  BY DEF Book
<1>2. \A s \in O : /\ sl[s] \in Block \cup {NULL}
                   /\ SizeOf[s] \in Sizes /\ SizeOf[s] \in Nat /\ SizeOf[s] > 0
  BY SizesAssumption DEF Pointers, Requests
<1>3. \A b \in Block : m[b] \in Nat /\ b \in Nat
  BY <1>0 DEF Map, U16, Block
<1>4. \A s \in O : sl[s] # NULL =>
        sl[s] \in Block /\ w[sl[s]] = SizeOf[s] /\ m[sl[s]] = Nmemb(SizeOf[s])
  BY <1>1, <1>2 DEF Kept, Sound, LiveMarked
<1>5. \A b \in Block : m[b] <= NBlocks
  <2> TAKE b \in Block
  <2>1. CASE m[b] = 0
    BY <1>0, <2>1
  <2>2. CASE m[b] > 0
    <3>1. PICK p \in Block : w[p] > 0 /\ p <= b /\ b < p + m[p]
      BY <1>1, <2>2 DEF Sound, UsedHeld
    <3>2. m[b] = m[p] /\ p + m[p] <= NBlocks
      BY <1>1, <3>1 DEF Sound, LiveMarked
    <3> QED BY <1>0, <1>3, <3>2
  <2> QED BY <1>3, <2>1, <2>2
<1>6. m \in [Block -> 0 .. NBlocks]
  BY <1>0, <1>3, <1>5 DEF Map
<1>7. ASSUME NEW s \in O, sl[s] # NULL
      PROVE  sl[s] \in L /\ m[sl[s]] * BlockSize >= SizeOf[s]
  <2>1. Nmemb(SizeOf[s]) * BlockSize >= SizeOf[s]
    BY <1>2, NmembBounds
  <2> QED BY <1>1, <1>2, <1>4, <1>7, <2>1
<1>8. ASSUME NEW s \in O, NEW t \in O, s # t, sl[s] # NULL, sl[t] # NULL
      PROVE  Extent(m, sl[s]) \cap Extent(m, sl[t]) = {}
  <2>1. sl[s] # sl[t] /\ sl[s] \in Block /\ sl[t] \in Block
    BY <1>1, <1>4, <1>8 DEF Kept
  <2>2. sl[s] + m[sl[s]] <= sl[t] \/ sl[t] + m[sl[t]] <= sl[s]
    BY <1>1, <1>2, <1>4, <1>8, <2>1 DEF Sound, LiveApart
  <2> QED BY <1>3, <2>1, <2>2 DEF Extent
<1> QED BY <1>1, <1>6, <1>7, <1>8

-----------------------------------------------------------------------------
(* The inductive invariant of Boot.                                        *)

EthPart(a, b)  == {EthSlots[k] : k \in a .. b}
LwipPart(a, b) == {LwipSlots[k] : k \in a .. b}

\* The variables whose pointers are allocated, at a label of main and with
\* the loop there at slot n.
Holding(label, n) ==
  CASE label = "eth_malloc"  -> EthPart(1, n - 1)
    [] label = "eth_free"    -> EthPart(n, 4)
    [] label = "lwip_malloc" -> EthPart(1, 4) \cup LwipPart(1, n - 1)
    [] label = "lwip_free"   -> LwipPart(n, 2)
    [] label = "retry"       -> {}
    [] label = "ip_set"      -> BootSlots \cup {"ip_tbuf"}
    [] label \in {"setup", "running", "close"} -> BootSlots \cup {"tbuf"}
    [] OTHER                 -> BootSlots

\* Those that have been tested and are not NULL.
Tested(label) ==
  CASE label \in {"eth_malloc", "eth_free", "lwip_free", "retry"} -> {}
    [] label = "lwip_malloc" -> EthPart(1, 4)
    [] OTHER                 -> Holding(label, 1)

\* The table the menu is left with and comes back to.
Restored == /\ pc \in {"menu", "ip_alloc", "buf_alloc"} => memmap = bootMap
            /\ pc = "ip_set" => FreeMap(memmap, slot["ip_tbuf"]) = bootMap
            /\ pc \in {"setup", "running", "close"} => FreeMap(memmap, slot["tbuf"]) = bootMap

MainTypes == /\ pc \in BootLabels \cup {"dhcp"} \cup SessionLabels
             /\ nth \in 1 .. 4
             /\ pc \in {"lwip_malloc", "lwip_free"} => nth <= 2
             /\ mode \in {"none", "udp", "tcp"}
             /\ cable \in BOOLEAN
             /\ fails \in Nat
             /\ memmap \in Map
             /\ slot \in Pointers

MainInv == /\ MainTypes
           /\ Book(memmap, live, slot, Holding(pc, nth))
           /\ \A s \in Tested(pc) : slot[s] # NULL
           /\ Restored

LEMMA SlotNames ==
  /\ Len(EthSlots) = 4 /\ Len(LwipSlots) = 2
  /\ EthSlots[1] = "DMARxDscrTab" /\ EthSlots[2] = "DMATxDscrTab"
  /\ EthSlots[3] = "Rx_Buff" /\ EthSlots[4] = "Tx_Buff"
  /\ LwipSlots[1] = "memp_memory" /\ LwipSlots[2] = "ram_heap"
  /\ SlotSet(EthSlots) = EthPart(1, 4)
  /\ SlotSet(LwipSlots) = LwipPart(1, 2)
  /\ BootSlots = EthPart(1, 4) \cup LwipPart(1, 2)
  /\ Slots = BootSlots \cup {"ip_tbuf", "tbuf"}
BY DEF EthSlots, LwipSlots, SlotSet, EthPart, LwipPart, BootSlots,
       Slots

LEMMA PartNames ==
  /\ \A n \in 1 .. 4 : /\ EthSlots[n] \in EthPart(1, 4)
                       /\ EthPart(1, n) = EthPart(1, n - 1) \cup {EthSlots[n]}
                       /\ EthSlots[n] \notin EthPart(1, n - 1)
                       /\ EthSlots[n] \in EthPart(n, 4)
                       /\ EthPart(n + 1, 4) = EthPart(n, 4) \ {EthSlots[n]}
                       /\ EthPart(n, 4) \subseteq EthPart(1, 4)
                       /\ EthPart(1, n) \subseteq EthPart(1, 4)
  /\ \A n \in 1 .. 2 : /\ LwipSlots[n] \in LwipPart(1, 2)
                       /\ LwipPart(1, n) = LwipPart(1, n - 1) \cup {LwipSlots[n]}
                       /\ LwipSlots[n] \notin LwipPart(1, n - 1)
                       /\ LwipSlots[n] \in LwipPart(n, 2)
                       /\ LwipPart(n + 1, 2) = LwipPart(n, 2) \ {LwipSlots[n]}
                       /\ LwipPart(n, 2) \subseteq LwipPart(1, 2)
                       /\ LwipPart(1, n) \subseteq LwipPart(1, 2)
  /\ EthPart(1, 0) = {} /\ EthPart(5, 4) = {} /\ LwipPart(1, 0) = {} /\ LwipPart(3, 2) = {}
  /\ EthPart(1, 4) \cap LwipPart(1, 2) = {}
  /\ "ip_tbuf" \notin BootSlots /\ "tbuf" \notin BootSlots
<1>1. /\ \A k, l \in 1 .. 4 : EthSlots[k] = EthSlots[l] => k = l
      /\ \A k, l \in 1 .. 2 : LwipSlots[k] = LwipSlots[l] => k = l
      /\ \A k \in 1 .. 4, l \in 1 .. 2 : EthSlots[k] # LwipSlots[l]
  BY SlotNames
<1>2. /\ \A k \in 1 .. 4 : EthSlots[k] # "ip_tbuf" /\ EthSlots[k] # "tbuf"
      /\ \A k \in 1 .. 2 : LwipSlots[k] # "ip_tbuf" /\ LwipSlots[k] # "tbuf"
  BY SlotNames
<1> QED BY <1>1, <1>2, SlotNames DEF EthPart, LwipPart

\* s = mymalloc(SRAMIN, SizeOf[s]) in a state of the program.
LEMMA AllocateStep ==
  ASSUME Requests, MainInv, NEW s \in Slots, s \notin Holding(pc, nth),
         Holding(pc, nth) \subseteq Slots, Allocate(s)
  PROVE  /\ memmap' \in Map /\ slot' \in Pointers
         /\ Book(memmap', live', slot', Holding(pc, nth) \cup {s})
         /\ \A t \in Slots \ {s} : slot'[t] = slot[t]
         /\ FreeMap(memmap', slot'[s]) = memmap
         /\ slot'[s] = NULL => memmap' = memmap
<1> DEFINE p == AllocPtr(memmap, SizeOf[s])
           O == Holding(pc, nth)
<1>1. /\ memmap' = AllocMap(memmap, SizeOf[s])
      /\ slot' = [slot EXCEPT ![s] = p] /\ live' = live \cup ({p} \ {NULL})
  BY DEF Allocate
<1>2. memmap \in Map /\ slot \in Pointers /\ Book(memmap, live, slot, O) /\ SizeOf[s] \in Sizes
  BY DEF MainInv, MainTypes, Requests
<1>3. slot'[s] = p /\ \A t \in Slots \ {s} : slot'[t] = slot[t]
  BY <1>1, <1>2 DEF Pointers
<1>4. FreeMap(memmap', slot'[s]) = memmap
  BY <1>1, <1>2, <1>3, FreeUndoesAlloc
<1>5. slot'[s] = NULL => memmap' = memmap
  BY <1>1, <1>3 DEF AllocMap
<1> HIDE DEF p, O
<1>6. p = AllocPtr(memmap, SizeOf[s]) /\ s \notin O /\ O \in SUBSET Slots
  BY DEF p, O
<1>7. /\ AllocMap(memmap, SizeOf[s]) \in Map
      /\ [slot EXCEPT ![s] = p] \in Pointers
      /\ Book(AllocMap(memmap, SizeOf[s]), live \cup ({p} \ {NULL}),
              [slot EXCEPT ![s] = p], O \cup {s})
  BY <1>2, <1>6, BookAllocate
<1> QED BY <1>1, <1>3, <1>4, <1>5, <1>7 DEF O

\* myfree(SRAMIN, s).
LEMMA ReleaseStep ==
  ASSUME Requests, MainInv, NEW s \in Holding(pc, nth),
         Holding(pc, nth) \subseteq Slots, Release(s)
  PROVE  /\ memmap' \in Map /\ slot' = slot /\ slot' \in Pointers
         /\ memmap' = FreeMap(memmap, slot[s])
         /\ Book(memmap', live', slot', Holding(pc, nth) \ {s})
<1>1. /\ memmap' = FreeMap(memmap, slot[s]) /\ live' = live \ {slot[s]} /\ slot' = slot
  BY DEF Release
<1>2. memmap \in Map /\ slot \in Pointers /\ Book(memmap, live, slot, Holding(pc, nth))
  BY DEF MainInv, MainTypes
<1>3. /\ FreeMap(memmap, slot[s]) \in Map
      /\ Book(FreeMap(memmap, slot[s]), live \ {slot[s]}, slot, Holding(pc, nth) \ {s})
  BY <1>2, BookRelease
<1> QED BY <1>1, <1>2, <1>3

LEMMA HoldingSlots == MainTypes => Holding(pc, nth) \subseteq Slots
<1> SUFFICES ASSUME MainTypes PROVE Holding(pc, nth) \subseteq Slots
    OBVIOUS
<1>1. pc = "eth_malloc" => EthPart(1, nth - 1) \subseteq EthPart(1, 4)
  BY DEF MainTypes, EthPart
<1>2. pc = "lwip_malloc" => LwipPart(1, nth - 1) \subseteq LwipPart(1, 2)
  BY DEF MainTypes, LwipPart
<1>3. pc = "eth_free" => EthPart(nth, 4) \subseteq EthPart(1, 4)
  BY DEF MainTypes, EthPart
<1>4. pc = "lwip_free" => LwipPart(nth, 2) \subseteq LwipPart(1, 2)
  BY DEF MainTypes, LwipPart
<1> QED BY <1>1, <1>2, <1>3, <1>4, SlotNames DEF Holding

\* The pool is empty when main starts.
LEMMA InitMainInv == BootInit => MainInv
<1> SUFFICES ASSUME BootInit PROVE MainInv
  OBVIOUS
<1>1. /\ memmap = ZeroMap /\ slot = [s \in Slots |-> NULL] /\ live = {}
      /\ pc = "eth_malloc" /\ nth = 1 /\ mode = "none" /\ cable \in BOOLEAN /\ fails = 0
  BY DEF BootInit
<1> DEFINE w == [b \in Block |-> 0]
<1>2. w \in Clients /\ Sound(ZeroMap, w) /\ ZeroMap \in Map /\ {} = {b \in Block : w[b] > 0}
  BY EmptySound DEF Clients
<1>3. Holding(pc, nth) = {} /\ Tested(pc) = {}
  BY <1>1, PartNames DEF Holding, Tested
<1>4. Kept(slot, {}, w)
  BY DEF Kept
<1> HIDE DEF w
<1>5. Book(memmap, live, slot, Holding(pc, nth))
  BY <1>1, <1>2, <1>3, <1>4 DEF Book
<1>6. MainTypes
  BY <1>1, <1>2 DEF MainTypes, BootLabels, Pointers
<1> QED BY <1>1, <1>3, <1>5, <1>6 DEF MainInv, Restored

\* One step of ETH_Mem_Malloc, which asks for all four blocks before it looks
\* at any result (lan8720.c:233-245).
LEMMA EthMemMallocKeeps == Requests /\ MainInv /\ EthMemMalloc => MainInv'
<1> SUFFICES ASSUME Requests, MainInv, EthMemMalloc PROVE MainInv'
  OBVIOUS
<1> DEFINE s == EthSlots[nth]
<1>1. /\ pc = "eth_malloc" /\ nth \in 1 .. 4 /\ Allocate(s)
      /\ UNCHANGED <<mode, cable, fails, bootMap>>
      /\ \/ nth < 4 /\ pc' = pc /\ nth' = nth + 1
         \/ nth = 4 /\ nth' = 1 /\ pc' = "lwip_malloc" /\ \A t \in EthPart(1, 4) : slot'[t] # NULL
         \/ nth = 4 /\ nth' = 1 /\ pc' = "eth_free"
  BY SlotNames DEF EthMemMalloc, AllocAll, Stay, GoTo, AllGot,
                   MainInv, MainTypes
<1>2. Holding(pc, nth) = EthPart(1, nth - 1) /\ s \in EthPart(1, 4) /\ s \notin Holding(pc, nth)
      /\ Holding(pc, nth) \cup {s} = EthPart(1, nth)
  BY <1>1, PartNames DEF Holding
<1>3. s \in Slots /\ Holding(pc, nth) \subseteq Slots
  BY <1>2, SlotNames, HoldingSlots DEF MainInv
<1>4. /\ memmap' \in Map /\ slot' \in Pointers
      /\ Book(memmap', live', slot', EthPart(1, nth))
  BY <1>1, <1>2, <1>3, AllocateStep
<1>5. Holding(pc', nth') = EthPart(1, nth)
  BY <1>1, PartNames DEF Holding
<1>6. \A t \in Tested(pc') : slot'[t] # NULL
  BY <1>1 DEF Tested
<1>7. MainTypes'
  BY <1>1, <1>4 DEF MainInv, MainTypes, BootLabels
<1> QED BY <1>1, <1>4, <1>5, <1>6, <1>7 DEF MainInv, Restored

\* One step of ETH_Mem_Free (lan8720.c:248-254).
LEMMA EthMemFreeKeeps == Requests /\ MainInv /\ EthMemFree => MainInv'
<1> SUFFICES ASSUME Requests, MainInv, EthMemFree PROVE MainInv'
  OBVIOUS
<1> DEFINE s == EthSlots[nth]
<1>1. /\ pc = "eth_free" /\ nth \in 1 .. 4 /\ Release(s)
      /\ UNCHANGED <<mode, cable, fails, bootMap>>
      /\ \/ nth < 4 /\ pc' = pc /\ nth' = nth + 1
         \/ nth = 4 /\ nth' = 1 /\ pc' = "retry"
  BY SlotNames DEF EthMemFree, ReleaseAll, Stay, GoTo, MainInv, MainTypes
<1>2. Holding(pc, nth) = EthPart(nth, 4) /\ s \in Holding(pc, nth)
      /\ Holding(pc, nth) \ {s} = EthPart(nth + 1, 4)
  BY <1>1, PartNames DEF Holding
<1>3. Holding(pc, nth) \subseteq Slots
  BY HoldingSlots DEF MainInv
<1>4. /\ memmap' \in Map /\ slot' \in Pointers
      /\ Book(memmap', live', slot', EthPart(nth + 1, 4))
  BY <1>1, <1>2, <1>3, ReleaseStep
<1>5. Holding(pc', nth') = EthPart(nth + 1, 4)
  <2>1. CASE nth < 4
    <3>1. pc' = "eth_free" /\ nth' = nth + 1
      BY <1>1, <2>1
    <3> QED BY <3>1 DEF Holding
  <2>2. CASE nth = 4
    <3>1. pc' = "retry" /\ nth + 1 = 5
      BY <1>1, <2>2
    <3> QED BY <3>1, PartNames DEF Holding
  <2> QED BY <1>1, <2>1, <2>2
<1>6. Tested(pc') = {}
  BY <1>1 DEF Tested
<1>7. MainTypes'
  BY <1>1, <1>4 DEF MainInv, MainTypes, BootLabels
<1> QED BY <1>1, <1>4, <1>5, <1>6, <1>7 DEF MainInv, Restored

\* One step of lwip_comm_mem_malloc (lwip_comm.c:51-65).
LEMMA LwipMemMallocKeeps == Requests /\ MainInv /\ LwipMemMalloc => MainInv'
<1> SUFFICES ASSUME Requests, MainInv, LwipMemMalloc PROVE MainInv'
  OBVIOUS
<1> DEFINE s == LwipSlots[nth]
           Q == EthPart(1, 4) \cup LwipPart(1, nth)
<1>1. /\ pc = "lwip_malloc" /\ nth \in 1 .. 2 /\ Allocate(s)
      /\ UNCHANGED <<mode, cable, fails, bootMap>>
      /\ \/ nth < 2 /\ pc' = pc /\ nth' = nth + 1
         \/ nth = 2 /\ nth' = 1 /\ pc' = "phy" /\ \A t \in LwipPart(1, 2) : slot'[t] # NULL
         \/ nth = 2 /\ nth' = 1 /\ pc' = "lwip_free"
  BY SlotNames DEF LwipMemMalloc, AllocAll, Stay, GoTo, AllGot,
                   MainInv, MainTypes
<1>2. /\ Holding(pc, nth) = EthPart(1, 4) \cup LwipPart(1, nth - 1)
      /\ s \in LwipPart(1, 2) /\ s \notin Holding(pc, nth) /\ Holding(pc, nth) \cup {s} = Q
  BY <1>1, PartNames DEF Holding
<1>3. s \in Slots /\ Holding(pc, nth) \subseteq Slots
  BY <1>2, SlotNames, HoldingSlots DEF MainInv
<1>4. /\ memmap' \in Map /\ slot' \in Pointers /\ Book(memmap', live', slot', Q)
      /\ \A t \in Slots \ {s} : slot'[t] = slot[t]
  BY <1>1, <1>2, <1>3, AllocateStep
<1>5. Holding(pc', nth') \subseteq Q
  BY <1>1, PartNames, SlotNames DEF Holding
<1>6. \A t \in EthPart(1, 4) : slot'[t] # NULL
  <2>1. \A t \in EthPart(1, 4) : slot[t] # NULL
    BY <1>1 DEF MainInv, Tested
  <2>2. \A t \in EthPart(1, 4) : t \in Slots \ {s}
    BY <1>2, PartNames, SlotNames
  <2> QED BY <1>4, <2>1, <2>2
<1>7. \A t \in Tested(pc') : slot'[t] # NULL
  BY <1>1, <1>6, SlotNames DEF Tested, Holding
<1>8. MainTypes'
  BY <1>1, <1>4 DEF MainInv, MainTypes, BootLabels
<1> HIDE DEF Q
<1>9. Book(memmap', live', slot', Holding(pc', nth'))
  BY <1>4, <1>5, BookForgets
<1> QED BY <1>1, <1>7, <1>8, <1>9 DEF MainInv, Restored

\* One step of lwip_comm_mem_free (lwip_comm.c:67-71): the frame buffers and
\* descriptors stay allocated and are forgotten.
LEMMA LwipMemFreeKeeps == Requests /\ MainInv /\ LwipMemFree => MainInv'
<1> SUFFICES ASSUME Requests, MainInv, LwipMemFree PROVE MainInv'
  OBVIOUS
<1> DEFINE s == LwipSlots[nth]
<1>1. /\ pc = "lwip_free" /\ nth \in 1 .. 2 /\ Release(s)
      /\ UNCHANGED <<mode, cable, fails, bootMap>>
      /\ \/ nth < 2 /\ pc' = pc /\ nth' = nth + 1
         \/ nth = 2 /\ nth' = 1 /\ pc' = "retry"
  BY SlotNames DEF LwipMemFree, ReleaseAll, Stay, GoTo, MainInv, MainTypes
<1>2. Holding(pc, nth) = LwipPart(nth, 2) /\ s \in Holding(pc, nth)
      /\ Holding(pc, nth) \ {s} = LwipPart(nth + 1, 2)
  BY <1>1, PartNames DEF Holding
<1>3. Holding(pc, nth) \subseteq Slots
  BY HoldingSlots DEF MainInv
<1>4. /\ memmap' \in Map /\ slot' \in Pointers
      /\ Book(memmap', live', slot', LwipPart(nth + 1, 2))
  BY <1>1, <1>2, <1>3, ReleaseStep
<1>5. Holding(pc', nth') = LwipPart(nth + 1, 2)
  <2>1. CASE nth < 2
    <3>1. pc' = "lwip_free" /\ nth' = nth + 1
      BY <1>1, <2>1
    <3> QED BY <3>1 DEF Holding
  <2>2. CASE nth = 2
    <3>1. pc' = "retry" /\ nth + 1 = 3
      BY <1>1, <2>2
    <3> QED BY <3>1, PartNames DEF Holding
  <2> QED BY <1>1, <2>1, <2>2
<1>6. Tested(pc') = {}
  BY <1>1 DEF Tested
<1>7. MainTypes'
  BY <1>1, <1>4 DEF MainInv, MainTypes, BootLabels
<1> QED BY <1>1, <1>4, <1>5, <1>6, <1>7 DEF MainInv, Restored

\* What is held and tested outside the boot loops.
LEMMA HoldingUp ==
  /\ \A n : Holding("retry", n) = {} /\ Tested("retry") = {}
  /\ \A n : Holding("eth_malloc", 1) = {} /\ Tested("eth_malloc") = {}
  /\ \A l \in {"phy", "dhcp", "menu", "ip_alloc", "buf_alloc"}, n \in 1 .. 4 :
       Holding(l, n) = BootSlots /\ Tested(l) = BootSlots
  /\ \A n \in 1 .. 4 : /\ Holding("ip_set", n) = BootSlots \cup {"ip_tbuf"}
                       /\ Tested("ip_set") = BootSlots \cup {"ip_tbuf"}
  /\ \A l \in {"setup", "running", "close"}, n \in 1 .. 4 :
       /\ Holding(l, n) = BootSlots \cup {"tbuf"}
       /\ Tested(l) = BootSlots \cup {"tbuf"}
BY PartNames DEF Holding, Tested

\* The steps that allocate and release nothing.
LEMMA QuietKeeps ==
  MainInv /\ (\/ Lan8720Init \/ Retry \/ DhcpDone \/ KeyPressed
              \/ Setup \/ Quit \/ PlugOrUnplug) => MainInv'
<1> SUFFICES ASSUME MainInv,
                    \/ Lan8720Init \/ Retry \/ DhcpDone \/ KeyPressed
                    \/ Setup \/ Quit \/ PlugOrUnplug
             PROVE MainInv'
  OBVIOUS
<1>1. UNCHANGED <<memmap, slot, live>>
  BY DEF Lan8720Init, Retry, DhcpDone, KeyPressed, Setup,
         Quit, PlugOrUnplug
<1>2. /\ nth' = nth \/ nth' = 1
      /\ \/ UNCHANGED <<pc, nth, bootMap>>
         \/ pc = "phy" /\ pc' \in {"dhcp", "retry"}
         \/ pc = "retry" /\ pc' = "eth_malloc" /\ nth' = 1
         \/ pc = "dhcp" /\ pc' = "menu" /\ bootMap' = memmap
         \/ pc = "menu" /\ pc' = "ip_alloc" /\ bootMap' = bootMap
         \/ pc = "setup" /\ pc' \in {"running", "close"} /\ bootMap' = bootMap
         \/ pc = "running" /\ pc' = "close" /\ bootMap' = bootMap
  BY DEF Lan8720Init, Retry, DhcpDone, KeyPressed, Setup,
         Quit, PlugOrUnplug, GoTo
<1>3. mode' \in {"none", "udp", "tcp"} /\ cable' \in BOOLEAN /\ fails' \in Nat
  <2>1. cable' = cable \/ cable' = ~cable
    BY Zenon DEF Lan8720Init, Retry, DhcpDone, KeyPressed, Setup,
           Quit, PlugOrUnplug, MainInv, MainTypes
  <2>2. cable' \in BOOLEAN
    BY <2>1, Zenon DEF MainInv, MainTypes
  <2>3. fails \in Nat /\ (fails' = fails \/ fails' = fails + 1)
    BY DEF Lan8720Init, Retry, DhcpDone, KeyPressed, Setup,
           Quit, PlugOrUnplug, MainInv, MainTypes
  <2>4. mode \in {"none", "udp", "tcp"} /\ (mode' = mode \/ mode' \in {"udp", "tcp"})
    BY DEF Lan8720Init, Retry, DhcpDone, KeyPressed, Setup,
           Quit, PlugOrUnplug, MainInv, MainTypes
  <2> QED BY <2>2, <2>3, <2>4
<1>4. MainTypes'
  BY <1>1, <1>2, <1>3 DEF MainInv, MainTypes, BootLabels, SessionLabels
<1>5. /\ Holding(pc', nth') \subseteq Holding(pc, nth)
      /\ Tested(pc') \subseteq Tested(pc)
  BY <1>2, <1>4, HoldingUp DEF MainInv, MainTypes
<1>6. Book(memmap, live, slot, Holding(pc', nth'))
  BY <1>5, BookForgets DEF MainInv
<1>7. Restored'
  BY <1>1, <1>2 DEF MainInv, Restored
<1> QED BY <1>1, <1>4, <1>5, <1>6, <1>7 DEF MainInv

\* The screen buffer of udp_demo_set_remoteip and tcp_client_set_remoteip, and
\* the send buffer of the session (udp_demo.c:45-59, 80-100).
LEMMA SessionAllocKeeps ==
  Requests /\ MainInv /\ (IpAlloc \/ BufAlloc) => MainInv'
<1> SUFFICES ASSUME Requests, MainInv, NEW s \in {"ip_tbuf", "tbuf"},
                    \/ s = "ip_tbuf" /\ IpAlloc
                    \/ s = "tbuf" /\ BufAlloc
             PROVE MainInv'
  OBVIOUS
<1>1. /\ pc \in {"ip_alloc", "buf_alloc"} /\ Allocate(s) /\ nth' = 1
      /\ UNCHANGED <<mode, cable, fails, bootMap>>
      /\ \/ slot'[s] = NULL /\ pc' \in {"buf_alloc", "menu"}
         \/ slot'[s] # NULL /\ s = "ip_tbuf" /\ pc' = "ip_set"
         \/ slot'[s] # NULL /\ s = "tbuf" /\ pc' = "setup"
  BY DEF IpAlloc, BufAlloc, GoTo
<1>2. /\ Holding(pc, nth) = BootSlots /\ Tested(pc) = BootSlots
      /\ s \notin BootSlots /\ s \in Slots /\ BootSlots \subseteq Slots
  BY <1>1, HoldingUp, PartNames, SlotNames DEF MainInv, MainTypes
<1>3. /\ memmap' \in Map /\ slot' \in Pointers
      /\ Book(memmap', live', slot', BootSlots \cup {s})
      /\ \A t \in Slots \ {s} : slot'[t] = slot[t]
      /\ FreeMap(memmap', slot'[s]) = memmap
      /\ slot'[s] = NULL => memmap' = memmap
  BY <1>1, <1>2, AllocateStep
<1>4. memmap = bootMap
  BY <1>1 DEF MainInv, Restored
<1>5. \A t \in BootSlots : slot'[t] # NULL
  BY <1>2, <1>3 DEF MainInv
<1>6. CASE slot'[s] = NULL
  <2>1. Holding(pc', nth') = BootSlots /\ Tested(pc') = BootSlots
    BY <1>1, <1>6, HoldingUp
  <2>2. Book(memmap', live', slot', Holding(pc', nth'))
    BY <1>3, <2>1, BookForgets
  <2>3. MainTypes'
    BY <1>1, <1>3, <1>6 DEF MainInv, MainTypes, SessionLabels
  <2> QED BY <1>1, <1>3, <1>4, <1>5, <1>6, <2>1, <2>2, <2>3 DEF MainInv, Restored
<1>7. CASE slot'[s] # NULL
  <2>1. Holding(pc', nth') = BootSlots \cup {s} /\ Tested(pc') = BootSlots \cup {s}
    BY <1>1, <1>7, HoldingUp
  <2>2. Restored'
    BY <1>1, <1>3, <1>4, <1>7 DEF Restored
  <2>3. MainTypes'
    BY <1>1, <1>3, <1>7 DEF MainInv, MainTypes, SessionLabels
  <2> QED BY <1>3, <1>5, <1>7, <2>1, <2>2, <2>3 DEF MainInv
<1> QED BY <1>6, <1>7

\* They are released when the address is set and when the session ends
\* (udp_demo.c:149).
LEMMA SessionFreeKeeps ==
  Requests /\ MainInv /\ (IpSet \/ Close) => MainInv'
<1> SUFFICES ASSUME Requests, MainInv, NEW s \in {"ip_tbuf", "tbuf"},
                    \/ s = "ip_tbuf" /\ IpSet
                    \/ s = "tbuf" /\ Close
             PROVE MainInv'
  OBVIOUS
<1>1. /\ \/ s = "ip_tbuf" /\ pc = "ip_set" /\ pc' = "buf_alloc"
         \/ s = "tbuf" /\ pc = "close" /\ pc' = "menu"
      /\ Release(s) /\ nth' = 1 /\ UNCHANGED <<mode, cable, fails, bootMap>>
  BY DEF IpSet, Close, GoTo
<1>2. /\ Holding(pc, nth) = BootSlots \cup {s} /\ Tested(pc) = BootSlots \cup {s}
      /\ Holding(pc, nth) \ {s} = BootSlots /\ Holding(pc, nth) \subseteq Slots
  BY <1>1, HoldingUp, PartNames, SlotNames DEF MainInv, MainTypes
<1>3. /\ memmap' \in Map /\ slot' = slot /\ slot' \in Pointers
      /\ memmap' = FreeMap(memmap, slot[s])
      /\ Book(memmap', live', slot', BootSlots)
  BY <1>1, <1>2, ReleaseStep
<1>4. Holding(pc', nth') = BootSlots /\ Tested(pc') = BootSlots
  BY <1>1, HoldingUp
<1>5. memmap' = bootMap'
  BY <1>1, <1>3 DEF MainInv, Restored
<1>6. MainTypes'
  BY <1>1, <1>3 DEF MainInv, MainTypes, SessionLabels
<1>7. Restored'
  BY <1>1, <1>5 DEF Restored
<1> QED BY <1>2, <1>3, <1>4, <1>6, <1>7 DEF MainInv

LEMMA MainNextKeeps == Requests /\ MainInv /\ [BootNext]_bootVars => MainInv'
<1>1. MainInv /\ UNCHANGED bootVars => MainInv'
  BY DEF bootVars, MainInv, MainTypes, Restored
<1> QED BY <1>1, EthMemMallocKeeps, EthMemFreeKeeps, LwipMemMallocKeeps, LwipMemFreeKeeps,
           QuietKeeps, SessionAllocKeeps, SessionFreeKeeps
        DEF BootNext, Boots, Sessions

-----------------------------------------------------------------------------
(* Boot runs out of memory only late.  Until an allocation fails, what the *)
(* boot sequence asks for comes to lie without gaps from the top of the    *)
(* pool downwards, because the search begins at the top: the free blocks   *)
(* are those below a mark that each allocation moves down by its length.   *)

\* The free blocks are those below top.
Stacked(m, top) == \A b \in Block : m[b] = 0 <=> b < top

\* The blocks of the first k buffers of a set.
Cum(k) == CASE k = 0 -> 0
            [] k = 1 -> Footprint["DMARxDscrTab"]
            [] k = 2 -> Footprint["DMARxDscrTab"] + Footprint["DMATxDscrTab"]
            [] k = 3 -> Footprint["DMARxDscrTab"] + Footprint["DMATxDscrTab"]
                        + Footprint["Rx_Buff"]
            [] k = 4 -> Footprint["DMARxDscrTab"] + Footprint["DMATxDscrTab"]
                        + Footprint["Rx_Buff"] + Footprint["Tx_Buff"]
            [] k = 5 -> Footprint["DMARxDscrTab"] + Footprint["DMATxDscrTab"]
                        + Footprint["Rx_Buff"] + Footprint["Tx_Buff"]
                        + Footprint["memp_memory"]
            [] OTHER -> FootprintTotal

\* The buffers of its set that an attempt has got.
Place(label, n) == CASE label = "eth_malloc"  -> n - 1
                     [] label = "lwip_malloc" -> n + 3
                     [] label = "phy"         -> 6
                     [] OTHER                 -> 0

Top(label, n) == NBlocks - fails * FootprintTotal - Cum(Place(label, n))

SpareInv ==
  fails < SetsInPool =>
    /\ pc \notin {"eth_free", "lwip_free"}
    /\ pc \in {"eth_malloc", "lwip_malloc", "phy", "retry"} =>
         /\ Stacked(memmap, Top(pc, nth))
         /\ \A s \in Holding(pc, nth) : slot[s] # NULL

\* An allocation that fits below the mark moves it down by its length.
LEMMA StackedAlloc ==
  ASSUME NEW m \in Map, NEW z \in Sizes, z > 0, NEW top \in Nat, top <= NBlocks,
         Nmemb(z) <= top, Stacked(m, top)
  PROVE  /\ AllocPtr(m, z) # NULL
         /\ Stacked(AllocMap(m, z), top - Nmemb(z))
<1> DEFINE n == Nmemb(z)
           o == top - n
<1>1. n \in 1 .. Width - 1
  BY NmembBounds
<1>2. o \in Block /\ o + n = top
  BY <1>1, PoolSize DEF Block
<1>3. Fits(m, o, n)
  <2>1. \A b \in o .. o + n - 1 : b \in Block /\ b < top
    BY <1>1, <1>2, PoolSize DEF Block
  <2> QED BY <1>1, <1>2, <2>1, PoolSize DEF Fits, Stacked
<1>4. ASSUME NEW b \in Block, b > o PROVE ~ Fits(m, b, n)
  <2> SUFFICES ASSUME Fits(m, b, n) PROVE FALSE
    OBVIOUS
  <2>1. b + n <= NBlocks /\ \A d \in b .. b + n - 1 : m[d] = 0
    BY <1>1, PoolSize DEF Fits
  <2>2. b + n - 1 \in b .. b + n - 1 /\ b + n - 1 \in Block /\ b + n - 1 >= top
    BY <1>1, <1>2, <1>4, <2>1, PoolSize DEF Block
  <2> QED BY <2>1, <2>2, PoolSize DEF Stacked
<1>5. FirstFit(m, n) = o
  BY <1>2, <1>3, <1>4, HighestIsFirstFit
<1>6. AllocPtr(m, z) = o /\ o # NULL
  BY <1>2, <1>5, SizesAssumption, PoolSize DEF AllocPtr, Block, NULL
<1>7. AllocMap(m, z) = Marked(m, o, n)
  BY <1>6 DEF AllocMap
<1> HIDE DEF n, o
<1>8. Stacked(AllocMap(m, z), o)
  BY <1>1, <1>2, <1>7, PoolSize DEF Stacked, Marked, Block
<1> QED BY <1>6, <1>8 DEF n, o

\* The sums, and what a set more than those left behind leaves in the pool.
LEMMA Sums ==
  ASSUME Requests
  PROVE  /\ \A k \in 0 .. 6 : Cum(k) \in Nat /\ Cum(k) <= FootprintTotal
         /\ \A k \in 1 .. 4 : Cum(k) = Cum(k - 1) + Nmemb(SizeOf[EthSlots[k]])
         /\ \A k \in 1 .. 2 : Cum(k + 4) = Cum(k + 3) + Nmemb(SizeOf[LwipSlots[k]])
         /\ FootprintTotal \in Nat \ {0}
         /\ Cum(0) = 0 /\ Cum(6) = FootprintTotal
<1>1. \A s \in BootSlots : Footprint[s] \in Nat /\ Footprint[s] >= 1
                           /\ Footprint[s] = Nmemb(SizeOf[s])
  <2> TAKE s \in BootSlots
  <2>1. SizeOf[s] \in Sizes /\ SizeOf[s] > 0
    BY SlotNames, SizesAssumption DEF Requests
  <2>2. Nmemb(SizeOf[s]) \in 1 .. Width - 1
    BY <2>1, NmembBounds
  <2> QED BY <2>2, PoolSize DEF Footprint
<1>2. {"DMARxDscrTab", "DMATxDscrTab", "Rx_Buff", "Tx_Buff", "memp_memory", "ram_heap"}
        \subseteq BootSlots
  BY SlotNames DEF EthPart, LwipPart
<1>3. /\ Footprint["DMARxDscrTab"] \in Nat \ {0} /\ Footprint["DMATxDscrTab"] \in Nat
      /\ Footprint["Rx_Buff"] \in Nat /\ Footprint["Tx_Buff"] \in Nat
      /\ Footprint["memp_memory"] \in Nat /\ Footprint["ram_heap"] \in Nat
  BY <1>1, <1>2
<1>4. /\ Cum(0) = 0 /\ Cum(6) = FootprintTotal
      /\ Cum(1) = Cum(0) + Footprint["DMARxDscrTab"]
      /\ Cum(2) = Cum(1) + Footprint["DMATxDscrTab"]
      /\ Cum(3) = Cum(2) + Footprint["Rx_Buff"]
      /\ Cum(4) = Cum(3) + Footprint["Tx_Buff"]
      /\ Cum(5) = Cum(4) + Footprint["memp_memory"]
      /\ Cum(6) = Cum(5) + Footprint["ram_heap"]
  BY <1>3 DEF Cum, FootprintTotal
<1>5. /\ \A k \in 1 .. 4 : Cum(k) = Cum(k - 1) + Footprint[EthSlots[k]]
      /\ \A k \in 1 .. 2 : Cum(k + 4) = Cum(k + 3) + Footprint[LwipSlots[k]]
  BY <1>4, SlotNames
<1>6. /\ \A k \in 1 .. 4 : Cum(k) = Cum(k - 1) + Nmemb(SizeOf[EthSlots[k]])
      /\ \A k \in 1 .. 2 : Cum(k + 4) = Cum(k + 3) + Nmemb(SizeOf[LwipSlots[k]])
  BY <1>1, <1>5, PartNames, SlotNames
<1>7. \A k \in 0 .. 6 : Cum(k) \in Nat /\ Cum(k) <= FootprintTotal
  BY <1>3, <1>4
<1> QED BY <1>3, <1>4, <1>6, <1>7

LEMMA RoomForASet ==
  ASSUME Requests, NEW f \in Nat, f < SetsInPool
  PROVE  f * FootprintTotal \in Nat
         /\ f * FootprintTotal + FootprintTotal <= NBlocks
         /\ (f + 1) * FootprintTotal = f * FootprintTotal + FootprintTotal
<1> DEFINE t == FootprintTotal
           q == NBlocks \div t
<1>1. t \in Nat \ {0} /\ NBlocks \in Nat
  BY Sums, PoolSize
<1> HIDE DEF t
<1>2. q \in Nat /\ t * q <= NBlocks
  <2>1. NBlocks = t * (NBlocks \div t) + (NBlocks % t) /\ NBlocks % t \in 0 .. t - 1
        /\ NBlocks \div t \in Nat
    BY <1>1, DivMod
  <2> QED BY <1>1, <2>1
<1>3. f < q
  BY DEF SetsInPool, t
<1> HIDE DEF q
<1>4. t * (f + 1) <= t * q
  BY <1>1, <1>2, <1>3
<1>5. f * t \in Nat /\ (f + 1) * t = f * t + t /\ t * (f + 1) = f * t + t
  BY <1>1
<1> QED BY <1>1, <1>2, <1>4, <1>5 DEF t

\* The initial state.
LEMMA InitSpareInv == Requests /\ BootInit => SpareInv
<1> SUFFICES ASSUME Requests, BootInit PROVE SpareInv
  OBVIOUS
<1>1. memmap = ZeroMap /\ pc = "eth_malloc" /\ nth = 1 /\ fails = 0
  BY DEF BootInit
<1>2. Top(pc, nth) = NBlocks
  BY <1>1, Sums, PoolSize DEF Top, Place
<1>3. Stacked(memmap, NBlocks)
  BY <1>1, PoolSize DEF Stacked, ZeroMap, Block
<1>4. Holding(pc, nth) = {}
  BY <1>1, PartNames DEF Holding
<1> QED BY <1>1, <1>2, <1>3, <1>4 DEF SpareInv

\* One allocation of an attempt to boot.
LEMMA StackStep ==
  ASSUME Requests, MainInv, SpareInv, fails < SetsInPool,
         pc \in {"eth_malloc", "lwip_malloc"},
         NEW k \in 0 .. 5, k = Place(pc, nth),
         NEW s \in Slots, Allocate(s),
         Cum(k + 1) = Cum(k) + Nmemb(SizeOf[s])
  PROVE  /\ Stacked(memmap', NBlocks - fails * FootprintTotal - Cum(k + 1))
         /\ slot'[s] # NULL
<1> DEFINE u == fails * FootprintTotal
           top == NBlocks - u - Cum(k)
           n == Nmemb(SizeOf[s])
<1>1. memmap \in Map /\ slot \in Pointers /\ fails \in Nat
  BY DEF MainInv, MainTypes
<1>2. Stacked(memmap, top)
  BY DEF SpareInv, Top
<1>3. SizeOf[s] \in Sizes /\ SizeOf[s] > 0 /\ n \in Nat
  <2>1. SizeOf[s] \in Sizes /\ SizeOf[s] > 0
    BY SizesAssumption DEF Requests
  <2>2. n \in 1 .. Width - 1
    BY <2>1, NmembBounds
  <2> QED BY <2>1, <2>2, PoolSize
<1>4. u \in Nat /\ u + FootprintTotal <= NBlocks
  BY <1>1, RoomForASet
<1>5. /\ Cum(k) \in Nat /\ Cum(k + 1) \in Nat /\ Cum(k + 1) <= FootprintTotal
      /\ FootprintTotal \in Nat
  BY Sums
<1> HIDE DEF u, n
<1>6. /\ top \in Nat /\ top <= NBlocks /\ n <= top
      /\ top - n = NBlocks - u - Cum(k + 1)
  BY <1>3, <1>4, <1>5, PoolSize DEF n
<1> HIDE DEF top
<1>7. AllocPtr(memmap, SizeOf[s]) # NULL /\ Stacked(AllocMap(memmap, SizeOf[s]), top - n)
  BY <1>1, <1>2, <1>3, <1>6, StackedAlloc DEF n
<1>8. memmap' = AllocMap(memmap, SizeOf[s]) /\ slot'[s] = AllocPtr(memmap, SizeOf[s])
  BY <1>1 DEF Allocate, Pointers
<1> QED BY <1>6, <1>7, <1>8 DEF u

\* The allocations of the boot sequence: with room for a set none fails.
LEMMA BootAllocSpare ==
  Requests /\ MainInv /\ SpareInv /\ (EthMemMalloc \/ LwipMemMalloc) => SpareInv'
<1> SUFFICES ASSUME Requests, MainInv, SpareInv, EthMemMalloc \/ LwipMemMalloc,
                    fails' < SetsInPool
             PROVE  /\ pc' \notin {"eth_free", "lwip_free"}
                    /\ pc' \in {"eth_malloc", "lwip_malloc", "phy", "retry"} =>
                         /\ Stacked(memmap', Top(pc, nth)')
                         /\ \A s \in Holding(pc, nth)' : slot'[s] # NULL
  BY DEF SpareInv
<1>1. fails' = fails /\ fails < SetsInPool
  BY DEF EthMemMalloc, LwipMemMalloc, AllocAll
<1>2. CASE EthMemMalloc
  <2> DEFINE s == EthSlots[nth]
  <2>1. /\ pc = "eth_malloc" /\ nth \in 1 .. 4 /\ Allocate(s)
        /\ \/ nth < 4 /\ pc' = pc /\ nth' = nth + 1
           \/ nth = 4 /\ nth' = 1 /\ pc' = "lwip_malloc"
           \/ nth = 4 /\ nth' = 1 /\ pc' = "eth_free" /\ \E t \in EthPart(1, 4) : slot'[t] = NULL
    BY <1>2, SlotNames DEF EthMemMalloc, AllocAll, Stay, GoTo, AllGot, MainInv, MainTypes
  <2>2. s \in Slots /\ s \in EthPart(1, 4)
        /\ EthPart(1, nth) = EthPart(1, nth - 1) \cup {s}
        /\ EthPart(1, nth - 1) \subseteq Slots \ {s}
    BY <2>1, PartNames, SlotNames
  <2>3. /\ nth - 1 \in 0 .. 5 /\ nth - 1 = Place(pc, nth) /\ (nth - 1) + 1 = nth
        /\ Cum(nth) = Cum(nth - 1) + Nmemb(SizeOf[s])
    BY <2>1, Sums DEF Place
  <2>4. /\ Stacked(memmap', NBlocks - fails * FootprintTotal - Cum(nth))
        /\ slot'[s] # NULL
    BY <1>1, <2>1, <2>2, <2>3, StackStep
  <2>5. \A t \in EthPart(1, nth) : slot'[t] # NULL
    <3>1. \A t \in EthPart(1, nth - 1) : slot[t] # NULL
      BY <1>1, <2>1 DEF SpareInv, Holding
    <3>2. \A t \in Slots \ {s} : slot'[t] = slot[t]
      BY <2>1 DEF Allocate, MainInv, MainTypes, Pointers
    <3> QED BY <2>2, <2>4, <3>1, <3>2
  <2>6. Place(pc', nth') = nth /\ Holding(pc', nth') = EthPart(1, nth)
        /\ pc' \in {"eth_malloc", "lwip_malloc"}
    <3>1. CASE nth < 4
      <4>1. pc' = "eth_malloc" /\ nth' = nth + 1
        BY <2>1, <3>1
      <4> QED BY <2>1, <4>1 DEF Place, Holding
    <3>2. CASE nth = 4
      <4>1. pc' = "lwip_malloc" /\ nth' = 1
        BY <2>1, <2>5, <3>2
      <4> QED BY <3>2, <4>1, PartNames DEF Place, Holding
    <3> QED BY <2>1, <3>1, <3>2
  <2> QED BY <1>1, <2>4, <2>5, <2>6 DEF Top
<1>3. CASE LwipMemMalloc
  <2> DEFINE s == LwipSlots[nth]
  <2>1. /\ pc = "lwip_malloc" /\ nth \in 1 .. 2 /\ Allocate(s)
        /\ \/ nth < 2 /\ pc' = pc /\ nth' = nth + 1
           \/ nth = 2 /\ nth' = 1 /\ pc' = "phy"
           \/ nth = 2 /\ nth' = 1 /\ pc' = "lwip_free" /\ \E t \in LwipPart(1, 2) : slot'[t] = NULL
    BY <1>3, SlotNames DEF LwipMemMalloc, AllocAll, Stay, GoTo, AllGot, MainInv, MainTypes
  <2> DEFINE Q(n) == EthPart(1, 4) \cup LwipPart(1, n)
  <2>2. s \in Slots /\ Q(nth) = Q(nth - 1) \cup {s} /\ Q(nth - 1) \subseteq Slots \ {s}
        /\ LwipPart(1, nth) \subseteq Q(nth)
    BY <2>1, PartNames, SlotNames
  <2>3. /\ nth + 3 \in 0 .. 5 /\ nth + 3 = Place(pc, nth) /\ (nth + 3) + 1 = nth + 4
        /\ Cum(nth + 4) = Cum(nth + 3) + Nmemb(SizeOf[s])
    BY <2>1, Sums DEF Place
  <2>4. /\ Stacked(memmap', NBlocks - fails * FootprintTotal - Cum(nth + 4))
        /\ slot'[s] # NULL
    BY <1>1, <2>1, <2>2, <2>3, StackStep
  <2>5. \A t \in Q(nth) : slot'[t] # NULL
    <3>1. \A t \in Q(nth - 1) : slot[t] # NULL
      BY <1>1, <2>1 DEF SpareInv, Holding
    <3>2. \A t \in Slots \ {s} : slot'[t] = slot[t]
      BY <2>1 DEF Allocate, MainInv, MainTypes, Pointers
    <3> QED BY <2>2, <2>4, <3>1, <3>2
  <2>6. Place(pc', nth') = nth + 4 /\ Holding(pc', nth') = Q(nth)
        /\ pc' \in {"lwip_malloc", "phy"}
    <3>1. CASE nth < 2
      <4>1. pc' = "lwip_malloc" /\ nth' = nth + 1 /\ nth = 1
        BY <2>1, <3>1
      <4> QED BY <2>1, <4>1 DEF Place, Holding
    <3>2. CASE nth = 2
      <4>1. pc' = "phy" /\ nth' = 1
        BY <2>1, <2>2, <2>5, <3>2
      <4> QED BY <3>2, <4>1, SlotNames DEF Place, Holding
    <3> QED BY <2>1, <3>1, <3>2
  <2> HIDE DEF Q
  <2> QED BY <1>1, <2>4, <2>5, <2>6 DEF Top
<1> QED BY <1>2, <1>3

\* A failure for want of a cable leaves a whole set behind.
LEMMA Lan8720InitSpare == Requests /\ MainInv /\ SpareInv /\ Lan8720Init => SpareInv'
<1> SUFFICES ASSUME Requests, MainInv, SpareInv, Lan8720Init, fails' < SetsInPool
             PROVE  /\ pc' \notin {"eth_free", "lwip_free"}
                    /\ pc' \in {"eth_malloc", "lwip_malloc", "phy", "retry"} =>
                         /\ Stacked(memmap', Top(pc, nth)')
                         /\ \A s \in Holding(pc, nth)' : slot'[s] # NULL
  BY DEF SpareInv
<1>1. /\ pc = "phy" /\ pc' \in {"dhcp", "retry"} /\ memmap' = memmap
      /\ pc' = "retry" => fails' = fails + 1
      /\ fails \in Nat /\ SetsInPool \in Int
  <2>1. SetsInPool \in Int
    BY Sums, PoolSize DEF SetsInPool
  <2> QED BY <2>1 DEF Lan8720Init, GoTo, MainInv, MainTypes
<1>2. CASE pc' = "retry"
  <2>1. fails < SetsInPool /\ fails' = fails + 1
    BY <1>1, <1>2
  <2>2. Stacked(memmap, NBlocks - fails * FootprintTotal - FootprintTotal)
    BY <1>1, <2>1, Sums DEF SpareInv, Top, Place
  <2>3. (fails + 1) * FootprintTotal = fails * FootprintTotal + FootprintTotal
        /\ fails * FootprintTotal \in Nat /\ FootprintTotal \in Nat
    BY <1>1, <2>1, RoomForASet, Sums
  <2>4. Top(pc, nth)' = NBlocks - fails * FootprintTotal - FootprintTotal
    <3>1. Cum(Place(pc, nth)') = 0
      BY <1>2, Sums DEF Place
    <3>2. Top(pc, nth)' = NBlocks - (fails + 1) * FootprintTotal - Cum(Place(pc, nth)')
      BY <2>1 DEF Top
    <3> QED BY <2>3, <3>1, <3>2, PoolSize
  <2>5. Holding(pc, nth)' = {}
    BY <1>2 DEF Holding
  <2> QED BY <1>1, <1>2, <2>2, <2>4, <2>5
<1>3. CASE pc' = "dhcp"
  BY <1>3
<1> QED BY <1>1, <1>2, <1>3

\* The other steps.
LEMMA RestSpare ==
  Requests /\ MainInv /\ SpareInv
    /\ (EthMemFree \/ LwipMemFree \/ Retry \/ DhcpDone \/ Sessions \/ PlugOrUnplug
        \/ UNCHANGED bootVars) => SpareInv'
<1> SUFFICES ASSUME Requests, MainInv, SpareInv,
                    EthMemFree \/ LwipMemFree \/ Retry \/ DhcpDone \/ Sessions
                    \/ PlugOrUnplug \/ UNCHANGED bootVars
             PROVE  SpareInv'
  OBVIOUS
<1>1. CASE EthMemFree \/ LwipMemFree
  BY <1>1 DEF EthMemFree, LwipMemFree, ReleaseAll, SpareInv
<1>2. CASE Retry
  <2>1. pc = "retry" /\ pc' = "eth_malloc" /\ nth' = 1 /\ UNCHANGED <<memmap, fails>>
    BY <1>2 DEF Retry, GoTo
  <2>2. Holding(pc, nth)' = {} /\ Top(pc, nth)' = Top(pc, nth)
    BY <2>1, PartNames DEF Holding, Top, Place
  <2> QED BY <2>1, <2>2 DEF SpareInv
<1>3. CASE DhcpDone \/ Sessions
  <2>1. pc' \in {"menu"} \cup SessionLabels
    BY <1>3 DEF DhcpDone, Sessions, KeyPressed, IpAlloc, IpSet, BufAlloc, Setup, Quit,
                Close, GoTo, SessionLabels
  <2> QED BY <2>1 DEF SpareInv, SessionLabels
<1>4. CASE PlugOrUnplug \/ UNCHANGED bootVars
  <2>1. UNCHANGED <<memmap, slot, pc, nth, fails>>
    BY <1>4 DEF PlugOrUnplug, bootVars
  <2> QED BY <2>1 DEF SpareInv, Top
<1> QED BY <1>1, <1>2, <1>3, <1>4

LEMMA NextSpareInv == Requests /\ MainInv /\ SpareInv /\ [BootNext]_bootVars => SpareInv'
BY BootAllocSpare, Lan8720InitSpare, RestSpare DEF BootNext, Boots

LEMMA ImpliesOutOfMemoryOnlyLate == Requests /\ MainInv /\ SpareInv => OutOfMemoryOnlyLate
<1>1. Requests => SetsInPool \in Int
  BY Sums, PoolSize DEF SetsInPool
<1> QED BY <1>1 DEF MainInv, MainTypes, SpareInv, OutOfMemoryOnlyLate

-----------------------------------------------------------------------------
(* What the invariants imply.                                              *)

\* Every pointer main hands to myfree is one it has allocated and not yet
\* released, or NULL.
LEMMA ImpliesFreesOnlyLive == Requests /\ MainInv => FreesOnlyLive
<1> SUFFICES ASSUME Requests, MainInv, Freed # "none"
             PROVE  slot[Freed] \in live \cup {NULL}
  BY DEF FreesOnlyLive
<1>1. Freed \in Holding(pc, nth)
  <2>1. \/ pc = "eth_free" /\ Freed = EthSlots[nth]
        \/ pc = "lwip_free" /\ Freed = LwipSlots[nth]
        \/ pc = "ip_set" /\ Freed = "ip_tbuf"
        \/ pc = "close" /\ Freed = "tbuf"
    BY DEF Freed
  <2> QED BY <2>1, PartNames, HoldingUp DEF MainInv, MainTypes, Holding
<1>2. Holding(pc, nth) \in SUBSET Slots
  BY HoldingSlots DEF MainInv
<1> QED BY <1>1, <1>2, BookRelease DEF MainInv, MainTypes

\* The buffers in use are allocated, whole and apart, and the menu finds the
\* table as it was.
LEMMA ImpliesMemoryAccounted == Requests /\ MainInv /\ SpareInv => MemoryAccounted
<1> SUFFICES ASSUME Requests, MainInv, SpareInv PROVE MemoryAccounted
  OBVIOUS
<1>1. Holding(pc, nth) \in SUBSET Slots
  BY HoldingSlots DEF MainInv
<1>2. /\ live \subseteq Block /\ memmap \in [Block -> 0 .. NBlocks]
      /\ \A s \in Holding(pc, nth) : slot[s] # NULL =>
           slot[s] \in live /\ memmap[slot[s]] * BlockSize >= SizeOf[s]
      /\ \A s, t \in Holding(pc, nth) : s # t /\ slot[s] # NULL /\ slot[t] # NULL =>
           Extent(memmap, slot[s]) \cap Extent(memmap, slot[t]) = {}
  BY <1>1, BookTells DEF MainInv, MainTypes
<1>3. BootTypeOK
  BY <1>2, SlotNames DEF MainInv, MainTypes, BootTypeOK, Pointers
<1>4. pc \in {"dhcp"} \cup SessionLabels => /\ InUse = Holding(pc, nth)
                                                 /\ Tested(pc) = Holding(pc, nth)
  BY HoldingUp DEF MainInv, MainTypes, InUse, SessionLabels
<1>5. DriverMemoryOwned
  BY <1>2, <1>4 DEF DriverMemoryOwned, MainInv
<1>6. SessionsLeakNothing
  BY DEF SessionsLeakNothing, MainInv, Restored
<1>7. OutOfMemoryOnlyLate
  BY ImpliesOutOfMemoryOnlyLate
<1> QED BY <1>3, <1>5, <1>6, <1>7 DEF MemoryAccounted

\* Whatever the attempts to boot and the sessions before, main never hands
\* myfree a pointer that is not, or no longer, its own (lan8720.c:248-254,
\* lwip_comm.c:67-71).
THEOREM FreesOnlyItsOwn ==
  ASSUME Requests
  PROVE  BootSpec => []FreesOnlyLive
<1>1. Requests
  OBVIOUS
<1>2. BootInit => MainInv
  BY InitMainInv
<1>3. MainInv /\ [BootNext]_bootVars => MainInv'
  BY <1>1, MainNextKeeps
<1>4. MainInv => FreesOnlyLive
  BY <1>1, ImpliesFreesOnlyLive
<1> QED BY <1>2, <1>3, <1>4, PTL DEF BootSpec

\* Once the stack runs its buffers are allocated, whole and apart, every
\* session leaves the pool as it found it, and no attempt to boot runs out of
\* memory before the attempts without a cable have used up all but less than a
\* set (lan8720.c:233-245, lwip_comm.c:51-65, 113-152, udp_demo.c:45-149,
\* tcp_client_demo.c:36-146).
THEOREM MemoryIsAccounted ==
  ASSUME Requests
  PROVE  BootSpec => []MemoryAccounted
<1>1. Requests
  OBVIOUS
<1>2. BootInit => MainInv /\ SpareInv
  BY <1>1, InitMainInv, InitSpareInv
<1>3. MainInv /\ SpareInv /\ [BootNext]_bootVars => MainInv' /\ SpareInv'
  BY <1>1, MainNextKeeps, NextSpareInv
<1>4. MainInv /\ SpareInv => MemoryAccounted
  BY <1>1, ImpliesMemoryAccounted
<1> QED BY <1>2, <1>3, <1>4, PTL DEF BootSpec
=============================================================================
