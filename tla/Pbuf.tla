-------------------------------- MODULE Pbuf ---------------------------------
(***************************************************************************)
(* lwIP's PBUF_POOL as values: the free list of memp.c and the chains of   *)
(* pbuf.c.  memp keeps no word of its own (MEMP_SIZE is 0), so a free      *)
(* element's link and the next of a pbuf that is in use are one and the    *)
(* same field.                                                             *)
(***************************************************************************)
EXTENDS Naturals

CONSTANTS NPbufs,   \* PBUF_POOL_SIZE
          RefMod    \* what the count of references wraps at (2^16)

ASSUME PbufAssumption == NPbufs \in Nat \ {0} /\ RefMod \in Nat \ {0, 1}

Null  == 0
Pbufs == 1 .. NPbufs

Pools == [head : Pbufs \cup {Null},             \* memp_tab[MEMP_PBUF_POOL]
          next : [Pbufs -> Pbufs \cup {Null}],
          ref  : [Pbufs -> 0 .. RefMod - 1]]

\* memp_init leaves each element in front of the one before it.
InitialPool == [head |-> NPbufs,
                next |-> [p \in Pbufs |-> p - 1],
                ref  |-> [p \in Pbufs |-> 0]]

\* The elements met from head on, cut after as many as there are.
FreeList(pool) ==
  LET at[i \in 0 .. NPbufs] ==
        IF i = 0 THEN pool.head
        ELSE IF at[i - 1] = Null THEN Null ELSE pool.next[at[i - 1]]
  IN  {at[i] : i \in 0 .. NPbufs} \ {Null}

\* memp_malloc of the element at the head, and what pbuf_alloc stores in it.
Take(pool) == [head |-> pool.next[pool.head],
               next |-> [pool.next EXCEPT ![pool.head] = Null],
               ref  |-> [pool.ref EXCEPT ![pool.head] = 1]]

\* Mutant: the last reference does not give the element back.
MutReleaseOneKeeps(pool, p) == [pool EXCEPT !.ref[p] = (@ + RefMod - 1) % RefMod]

\* Mutant: memp_free moves the head before it stores the link.
MutReleaseOneHeadFirst(pool, p) ==
  IF pool.ref[p] = 1
    THEN [head |-> p,
          next |-> [pool.next EXCEPT ![p] = p],
          ref  |-> [pool.ref EXCEPT ![p] = 0]]
    ELSE [pool EXCEPT !.ref[p] = (@ + RefMod - 1) % RefMod]

\* One turn of pbuf_free: a reference less, and memp_free when none is left.
ReleaseOne(pool, p) ==
  IF pool.ref[p] = 1
    THEN [head |-> p,
          next |-> [pool.next EXCEPT ![p] = pool.head],
          ref  |-> [pool.ref EXCEPT ![p] = 0]]
    ELSE [pool EXCEPT !.ref[p] = (@ + RefMod - 1) % RefMod]

\* pbuf_free: turns are made along the chain while elements are given back.
Release(pool, first) ==
  LET after[i \in 0 .. NPbufs + 1] ==
        IF i = 0 THEN [pool |-> pool, p |-> first]
        ELSE LET s == after[i - 1]
             IN  IF s.p = Null THEN s
                 ELSE [pool |-> ReleaseOne(s.pool, s.p),
                       p    |-> IF s.pool.ref[s.p] = 1 THEN s.pool.next[s.p]
                                ELSE Null]
  IN  after[NPbufs + 1].pool

\* The loop of pbuf_alloc for a chain of n: up to where it ends or finds the
\* list empty.
TakeChain(pool, n) ==
  LET after[i \in 0 .. n] ==
        IF i = 0 THEN [pool |-> pool, first |-> Null, last |-> Null, ok |-> TRUE]
        ELSE LET s == after[i - 1]
                 q == s.pool.head
                 taken == Take(s.pool)
             IN  IF ~s.ok \/ q = Null THEN [s EXCEPT !.ok = FALSE]
                 ELSE [pool  |-> IF s.last = Null THEN taken
                                 ELSE [taken EXCEPT !.next[s.last] = q],
                       first |-> IF s.first = Null THEN q ELSE s.first,
                       last  |-> q, ok |-> TRUE]
  IN  after[n]

\* A chain of n is allocated and freed, as the handler of a received frame
\* does; when there are too few, what was taken is freed at once.
TakeAndRelease(pool, n) == LET s == TakeChain(pool, n)
                           IN  Release(s.pool, s.first)
=============================================================================
