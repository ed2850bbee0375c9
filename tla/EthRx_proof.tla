----------------------------- MODULE EthRx_proof -----------------------------
(***************************************************************************)
(* The receive ring for every number of descriptors.  The argument: there  *)
(* is a number n such that the n descriptors from the oldest one on hold   *)
(* the n frames from the oldest one on, and the DMA owns the others; its   *)
(* own position is n after the oldest.  A frame that comes makes n one     *)
(* more, one given back one less.                                          *)
(***************************************************************************)
EXTENDS EthRx, TLAPS

\* The place k after a, and how far d is after a, in a circle of N.
Turn(N, a, k) == IF a + k < N THEN a + k ELSE a + k - N
Gap(N, a, d)  == IF d >= a THEN d - a ELSE d - a + N

\* The oldest descriptor not given back, and the frame it holds.
Oldest == IF Reading THEN frame ELSE get
First  == IF pc \in {"resume", "input"} THEN NextFrame(handling) ELSE handling

\* n descriptors are in use.
Ring(n) == /\ arriving = Turn(NFrames, First, n)
           /\ dmaPos = Turn(NDesc, Oldest, n)
           /\ \A d \in Desc :
                /\ d \notin own <=> Gap(NDesc, Oldest, d) < n
                /\ d \notin own => buf[d] = Turn(NFrames, First, Gap(NDesc, Oldest, d))

\* The frame being read.
ReadOne == /\ Reading => frame \in Desc /\ get = Chained(frame) /\ frame \notin own
           /\ pc = "rx" => get \notin own

CopyTrue  == pc \in {"giveback", "resume", "input"} /\ p # NoData => p = handling
Suspended == /\ suspended => rbus
             /\ SuspendedOnlyWhenFull

RInv == /\ TypeOK /\ es = {}
        /\ \E n \in 0 .. NDesc : Ring(n)
        /\ ReadOne /\ CopyTrue /\ Suspended

-----------------------------------------------------------------------------
(* Arithmetic on the two circles.                                          *)

LEMMA Sizes == /\ NDesc \in Nat /\ NDesc >= 1 /\ NFrames \in Nat
               /\ NFrames >= NDesc + 2 /\ MaxLate \in Nat
BY RingAssumption

\* Turn is addition modulo N.
LEMMA ModTurn ==
  ASSUME NEW N \in Nat, N >= 1, NEW a \in 0 .. N - 1, NEW k \in 0 .. N
  PROVE  (a + k) % N = Turn(N, a, k)
<1>1. CASE a + k < N
      BY <1>1 DEF Turn
<1>2. CASE a + k >= N
  <2>1. a + k - N \in 0 .. N - 1
        BY <1>2
  <2>2. \A r \in 0 .. N - 1 : (r + N) % N = r
        BY SMTT(30)
  <2>3. ((a + k - N) + N) % N = a + k - N
        BY <2>1, <2>2
  <2> QED BY <1>2, <2>3 DEF Turn
<1> QED BY <1>1, <1>2

\* Turn and Gap undo each other.
LEMMA TurnGap ==
  ASSUME NEW N \in Nat, N >= 1, NEW a \in 0 .. N - 1
  PROVE  /\ \A k \in 0 .. N : Turn(N, a, k) \in 0 .. N - 1
         /\ \A d \in 0 .. N - 1 : /\ Gap(N, a, d) \in 0 .. N - 1
                                  /\ Turn(N, a, Gap(N, a, d)) = d
         /\ \A k \in 0 .. N - 1 : Gap(N, a, Turn(N, a, k)) = k
         /\ Gap(N, a, Turn(N, a, N)) = 0
BY DEF Turn, Gap

\* One place on: Turn(N, a, 1).
Succ(N, a) == IF a = N - 1 THEN 0 ELSE a + 1

LEMMA SuccTurn ==
  ASSUME NEW N \in Nat, N >= 1, NEW a \in 0 .. N - 1
  PROVE  /\ Succ(N, a) \in 0 .. N - 1
         /\ \A k \in 0 .. N - 1 : /\ Succ(N, Turn(N, a, k)) = Turn(N, a, k + 1)
                                  /\ Turn(N, a, k + 1) = Turn(N, Succ(N, a), k)
         /\ \A d \in 0 .. N - 1 :
              d # a => Gap(N, Succ(N, a), d) = Gap(N, a, d) - 1
         /\ Gap(N, a, a) = 0 /\ Gap(N, Succ(N, a), a) = N - 1
BY DEF Succ, Turn, Gap

LEMMA Steps == /\ \A d : Chained(d) = Succ(NDesc, d)
               /\ \A f : NextFrame(f) = Succ(NFrames, f)
BY DEF Chained, NextFrame, Succ

\* When the DMA's next descriptor is not its own, none is.
LEMMA Full ==
  ASSUME NEW o \in Desc, NEW n \in 0 .. NDesc, NEW S \in SUBSET Desc,
         \A d \in Desc : d \notin S <=> Gap(NDesc, o, d) < n,
         Turn(NDesc, o, n) \notin S
  PROVE  S = {}
<1> USE Sizes
<1>1. Turn(NDesc, o, n) \in Desc /\ Gap(NDesc, o, Turn(NDesc, o, n)) < n
      BY TurnGap DEF Desc
<1>2. n = NDesc
      BY <1>1, TurnGap DEF Desc
<1>3. \A d \in Desc : Gap(NDesc, o, d) < n
      BY <1>2, TurnGap DEF Desc
<1> QED BY <1>3

\* Where the ring begins is a descriptor, and its frame has a number.
LEMMA Begins == RInv => Oldest \in Desc /\ First \in Frame
<1> SUFFICES ASSUME RInv PROVE Oldest \in Desc /\ First \in Frame
    OBVIOUS
<1>1. Oldest \in Desc
      BY DEF RInv, ReadOne, TypeOK, Oldest
<1>2. handling \in 0 .. NFrames - 1
      BY DEF RInv, TypeOK, Frame
<1>3. NextFrame(handling) \in 0 .. NFrames - 1
      BY <1>2, Sizes, Steps, SuccTurn
<1> QED BY <1>1, <1>2, <1>3 DEF First, Frame

-----------------------------------------------------------------------------
LEMMA InitRInv == Init => RInv
<1> SUFFICES ASSUME Init PROVE RInv
    OBVIOUS
<1> USE Sizes
<1>1. TypeOK
  <2>1. buf \in [Desc -> Frame \cup {NoData}]
        BY DEF Init
  <2>2. 0 \in Desc /\ 0 \in Frame /\ 0 \in 0 .. MaxLate
        BY DEF Desc, Frame
  <2> QED BY <2>1, <2>2 DEF Init, TypeOK
<1>2. Oldest = 0 /\ First = 0
      BY DEF Init, Oldest, First, Reading
<1>3. Ring(0)
  <2>1. \A d \in Desc : d \in own /\ ~ Gap(NDesc, 0, d) < 0
    <3>1. 0 \in 0 .. NDesc - 1
          OBVIOUS
    <3>2. \A d \in Desc : Gap(NDesc, 0, d) \in 0 .. NDesc - 1
          BY <3>1, TurnGap DEF Desc
    <3> QED BY <3>2 DEF Init
  <2>2. Turn(NFrames, 0, 0) = 0 /\ Turn(NDesc, 0, 0) = 0
        BY DEF Turn
  <2> QED BY <1>2, <2>1, <2>2 DEF Init, Ring
<1>4. 0 \in 0 .. NDesc
      OBVIOUS
<1>5. ReadOne /\ CopyTrue /\ Suspended /\ es = {}
      BY DEF Init, ReadOne, CopyTrue, Suspended, SuspendedOnlyWhenFull, Reading
<1> QED BY <1>1, <1>3, <1>4, <1>5 DEF RInv

\* A frame comes: one descriptor more is in use.
LEMMA AcceptRInv == RInv /\ Accept => RInv'
<1> SUFFICES ASSUME RInv, Accept PROVE RInv'
    OBVIOUS
<1> USE Sizes
<1>1. /\ ~ suspended /\ dmaPos \in own
      /\ buf' = [buf EXCEPT ![dmaPos] = arriving]
      /\ own' = own \ {dmaPos} /\ dmaPos' = Chained(dmaPos)
      /\ suspended' = (dmaPos' \notin own') /\ rbus' = (rbus \/ suspended')
      /\ rs' = TRUE /\ arriving' = NextFrame(arriving)
      /\ UNCHANGED <<get, pc, frame, p, handling>>
      BY DEF Accept, handlerVars
<1>2. es' = {}
      BY DEF Accept, ForwardErrorFrames, RInv
<1>3. /\ own \subseteq Desc /\ buf \in [Desc -> Frame \cup {NoData}]
      /\ dmaPos \in Desc /\ arriving \in Frame /\ late \in 0 .. MaxLate /\ TypeOK
      BY DEF RInv, TypeOK
<1>4. Oldest \in Desc /\ First \in Frame /\ Oldest' = Oldest /\ First' = First
      BY <1>1, Begins DEF Oldest, First, Reading
<1>5. PICK n \in 0 .. NDesc : Ring(n)
      BY DEF RInv
<1>6. n < NDesc /\ Gap(NDesc, Oldest, dmaPos) = n
  <2>1. dmaPos = Turn(NDesc, Oldest, n) /\ ~ Gap(NDesc, Oldest, dmaPos) < n
        BY <1>1, <1>3, <1>5 DEF Ring
  <2>2. CASE n = NDesc
    <3>1. Gap(NDesc, Oldest, dmaPos) = 0
          BY <1>4, <2>1, <2>2, TurnGap DEF Desc
    <3> QED BY <2>1, <2>2, <3>1
  <2>3. CASE n # NDesc
    <3>1. n \in 0 .. NDesc - 1
          BY <2>3
    <3> QED BY <1>4, <2>1, <3>1, TurnGap DEF Desc
  <2> QED BY <2>2, <2>3
<1>7. dmaPos' = Turn(NDesc, Oldest, n + 1) /\ dmaPos' \in Desc
      BY <1>1, <1>4, <1>5, <1>6, Steps, SuccTurn, TurnGap DEF Desc, Ring
<1>8. arriving' = Turn(NFrames, First, n + 1) /\ arriving' \in Frame
  <2>1. n \in 0 .. NFrames - 1 /\ n + 1 \in 0 .. NFrames /\ First \in 0 .. NFrames - 1
        BY <1>4, <1>6 DEF Frame
  <2>2. /\ Succ(NFrames, Turn(NFrames, First, n)) = Turn(NFrames, First, n + 1)
        /\ Turn(NFrames, First, n + 1) \in 0 .. NFrames - 1
        BY <2>1, SuccTurn, TurnGap
  <2> QED BY <1>1, <1>5, <2>2, Steps DEF Frame, Ring
<1>9. \A d \in Desc : /\ d \notin own' <=> Gap(NDesc, Oldest, d) < n + 1
                      /\ d \notin own' =>
                           buf'[d] = Turn(NFrames, First, Gap(NDesc, Oldest, d))
  <2> SUFFICES ASSUME NEW d \in Desc
               PROVE  /\ d \notin own' <=> Gap(NDesc, Oldest, d) < n + 1
                      /\ d \notin own' =>
                           buf'[d] = Turn(NFrames, First, Gap(NDesc, Oldest, d))
      OBVIOUS
  <2>1. CASE d = dmaPos
        BY <1>1, <1>3, <1>5, <1>6, <2>1 DEF Ring
  <2>2. CASE d # dmaPos
    <3>1. Gap(NDesc, Oldest, d) # n
          BY <1>4, <1>5, <1>6, <2>2, TurnGap DEF Desc, Ring
    <3>2. Gap(NDesc, Oldest, d) \in Nat
          BY <1>4, TurnGap DEF Desc
    <3>3. d \notin own' <=> d \notin own
          BY <1>1, <2>2
    <3>4. buf'[d] = buf[d]
          BY <1>1, <1>3, <2>2
    <3> QED BY <1>5, <3>1, <3>2, <3>3, <3>4 DEF Ring
  <2> QED BY <2>1, <2>2
<1>10. Ring(n + 1)' /\ n + 1 \in 0 .. NDesc
  <2>1. n + 1 \in 0 .. NDesc
        BY <1>6
  <2>2. Ring(n + 1)'
        BY <1>4, <1>7, <1>8, <1>9 DEF Ring
  <2> QED BY <2>1, <2>2
<1>11. suspended' => own' = {}
  <2> SUFFICES ASSUME suspended' PROVE own' = {}
      OBVIOUS
  <2>1. Turn(NDesc, Oldest, n + 1) \notin own' /\ own' \in SUBSET Desc
        BY <1>1, <1>3, <1>7
  <2> QED BY <1>4, <1>9, <1>10, <2>1, Full
<1>12. TypeOK'
  <2>1. late' \in 0 .. MaxLate
        BY <1>3 DEF Accept
  <2>2. buf' \in [Desc -> Frame \cup {NoData}]
        BY <1>1, <1>3
  <2>3. suspended' \in BOOLEAN /\ rbus' \in BOOLEAN /\ own' \subseteq Desc
        BY <1>1, <1>3 DEF TypeOK
  <2> QED BY <1>1, <1>2, <1>3, <1>7, <1>8, <2>1, <2>2, <2>3 DEF TypeOK
<1>13. ReadOne'
  <2>1. own' \subseteq own
        BY <1>1
  <2> QED BY <1>1, <2>1 DEF RInv, ReadOne, Reading
<1>14. CopyTrue' /\ Suspended'
      BY <1>1, <1>11 DEF RInv, CopyTrue, Suspended, SuspendedOnlyWhenFull
<1> QED BY <1>2, <1>10, <1>12, <1>13, <1>14 DEF RInv

\* What the handler does while it looks on: the ring stays as it is.
LEMMA LookRInv ==
  ASSUME RInv, UNCHANGED <<own, es, buf, dmaPos, suspended, arriving, rbus>>,
         Oldest' = Oldest, First' = First, TypeOK', ReadOne', CopyTrue',
         pc # "resume"
  PROVE  RInv'
<1>1. \A n : Ring(n) => Ring(n)'
      BY DEF Ring
<1>2. Suspended'
      BY DEF RInv, Suspended, SuspendedOnlyWhenFull
<1> QED BY <1>1, <1>2 DEF RInv

LEMMA EnterRInv == RInv /\ Enter => RInv'
<1> SUFFICES ASSUME RInv, Enter PROVE RInv'
    OBVIOUS
<1>1. /\ pc = "idle" /\ pc' = "check"
      /\ UNCHANGED <<own, es, buf, dmaPos, suspended, arriving, late>>
      /\ UNCHANGED <<rbus, rs, get, frame, p, handling>>
      BY DEF Enter, dmaVars
<1>2. Oldest' = Oldest /\ First' = First /\ TypeOK' /\ ReadOne' /\ CopyTrue'
      BY <1>1 DEF RInv, Oldest, First, Reading, TypeOK, ReadOne, CopyTrue
<1> QED BY <1>1, <1>2, LookRInv

\* The handler goes on only with a descriptor the DMA has closed.
LEMMA CheckRInv == RInv /\ Check => RInv'
<1> SUFFICES ASSUME RInv, Check PROVE RInv'
    OBVIOUS
<1>1. /\ pc = "check" /\ pc' \in {"rx", "clear"} /\ late' = 0
      /\ pc' = "rx" => get \notin own
      /\ UNCHANGED <<own, es, buf, dmaPos, suspended, arriving>>
      /\ UNCHANGED <<rbus, rs, get, frame, p, handling>>
      BY DEF Check, HasPacket
<1>2. TypeOK'
      BY <1>1, Sizes DEF RInv, TypeOK
<1>3. Oldest' = Oldest /\ First' = First /\ ReadOne' /\ CopyTrue'
      BY <1>1 DEF RInv, Oldest, First, Reading, ReadOne, CopyTrue
<1> QED BY <1>1, <1>2, <1>3, LookRInv

\* ETH_Rx_Packet finds a frame there.
LEMMA EthRxPacketRInv == RInv /\ EthRxPacket => RInv'
<1> SUFFICES ASSUME RInv, EthRxPacket PROVE RInv'
    OBVIOUS
<1>1. /\ pc = "rx" /\ pc' = "alloc" /\ get \notin own
      /\ frame' = get /\ get' = Chained(get)
      /\ UNCHANGED <<own, es, buf, dmaPos, suspended, arriving, late>>
      /\ UNCHANGED <<rbus, rs, p, handling>>
      BY DEF EthRxPacket, RInv, ReadOne
<1>2. get \in Desc /\ get' \in Desc
      BY <1>1, Sizes, Steps, SuccTurn DEF RInv, TypeOK, Desc
<1>3. TypeOK'
      BY <1>1, <1>2 DEF RInv, TypeOK
<1>4. Oldest' = Oldest /\ First' = First /\ ReadOne' /\ CopyTrue'
      BY <1>1, <1>2 DEF Oldest, First, Reading, ReadOne, CopyTrue
<1> QED BY <1>1, <1>3, <1>4, LookRInv

LEMMA PbufAllocRInv == RInv /\ PbufAlloc => RInv'
<1> SUFFICES ASSUME RInv, PbufAlloc PROVE RInv'
    OBVIOUS
<1>1. /\ pc = "alloc" /\ pc' \in {"copy", "giveback"} /\ p' = NoData
      /\ UNCHANGED <<own, es, buf, dmaPos, suspended, arriving, late>>
      /\ UNCHANGED <<rbus, rs, get, frame, handling>>
      BY DEF PbufAlloc, dmaVars
<1>2. Oldest' = Oldest /\ First' = First /\ TypeOK' /\ ReadOne' /\ CopyTrue'
      BY <1>1 DEF RInv, Oldest, First, Reading, TypeOK, ReadOne, CopyTrue
<1> QED BY <1>1, <1>2, LookRInv

\* What is copied is the oldest frame.
LEMMA CopyRInv == RInv /\ Copy => RInv'
<1> SUFFICES ASSUME RInv, Copy PROVE RInv'
    OBVIOUS
<1> USE Sizes
<1>1. /\ pc = "copy" /\ pc' = "giveback"
      /\ p' = IF frame = NoDesc THEN NoData ELSE buf[frame]
      /\ UNCHANGED <<own, es, buf, dmaPos, suspended, arriving, late>>
      /\ UNCHANGED <<rbus, rs, get, frame, handling>>
      BY DEF Copy, dmaVars
<1>2. /\ frame \in Desc /\ frame \notin own /\ Oldest = frame /\ First = handling
      /\ handling \in Frame
      BY <1>1 DEF RInv, ReadOne, Reading, Oldest, First, TypeOK
<1>3. PICK n \in 0 .. NDesc : Ring(n)
      BY DEF RInv
<1>4. p' = handling
  <2>1. p' = buf[frame]
        BY <1>1, <1>2 DEF NoDesc, Desc
  <2>2. buf[frame] = Turn(NFrames, handling, Gap(NDesc, frame, frame))
        BY <1>2, <1>3 DEF Ring
  <2>3. Turn(NFrames, handling, Gap(NDesc, frame, frame)) = handling
        BY <1>2 DEF Turn, Gap, Desc, Frame
  <2> QED BY <2>1, <2>2, <2>3
<1>5. Oldest' = Oldest /\ First' = First /\ TypeOK' /\ ReadOne' /\ CopyTrue'
      BY <1>1, <1>2, <1>4 DEF RInv, Oldest, First, Reading, TypeOK, ReadOne, CopyTrue
<1> QED BY <1>1, <1>5, LookRInv

\* The descriptor given back is the oldest: one less is in use.
LEMMA GiveBackRInv == RInv /\ GiveBack => RInv'
<1> SUFFICES ASSUME RInv, GiveBack PROVE RInv'
    OBVIOUS
<1> USE Sizes
<1>1. /\ pc = "giveback" /\ pc' = "resume"
      /\ own' = own \cup {frame} /\ es' = es \ {frame}
      /\ UNCHANGED <<buf, dmaPos, suspended, arriving, late>>
      /\ UNCHANGED <<rbus, rs, get, frame, p, handling>>
      BY DEF GiveBack
<1>2. /\ frame \in Desc /\ frame \notin own /\ Oldest = frame /\ First = handling
      /\ handling \in Frame /\ get = Succ(NDesc, frame)
      BY <1>1, Steps DEF RInv, ReadOne, Reading, Oldest, First, TypeOK
<1>3. Oldest' = Succ(NDesc, frame) /\ First' = Succ(NFrames, handling)
      BY <1>1, <1>2, Steps DEF Oldest, First, Reading
<1>4. PICK n \in 0 .. NDesc : Ring(n)
      BY DEF RInv
<1>5. n >= 1 /\ n - 1 \in 0 .. NDesc
  <2>1. Gap(NDesc, frame, frame) < n
        BY <1>2, <1>4 DEF Ring
  <2> QED BY <1>2, <2>1, SuccTurn DEF Desc
<1>6. dmaPos = Turn(NDesc, Oldest', n - 1)
  <2>1. n - 1 \in 0 .. NDesc - 1
        BY <1>5
  <2>2. Turn(NDesc, frame, (n - 1) + 1) = Turn(NDesc, Succ(NDesc, frame), n - 1)
        BY <1>2, <2>1, SuccTurn DEF Desc
  <2> QED BY <1>2, <1>3, <1>4, <2>2 DEF Ring
<1>7. arriving = Turn(NFrames, First', n - 1)
  <2>1. n - 1 \in 0 .. NFrames - 1
        BY <1>5
  <2>2. Turn(NFrames, handling, (n - 1) + 1) = Turn(NFrames, Succ(NFrames, handling), n - 1)
        BY <1>2, <2>1, SuccTurn DEF Frame
  <2> QED BY <1>2, <1>3, <1>4, <2>2 DEF Ring
<1>8. \A d \in Desc :
        /\ d \notin own' <=> Gap(NDesc, Oldest', d) < n - 1
        /\ d \notin own' => buf[d] = Turn(NFrames, First', Gap(NDesc, Oldest', d))
  <2> SUFFICES ASSUME NEW d \in Desc
               PROVE  /\ d \notin own' <=> Gap(NDesc, Oldest', d) < n - 1
                      /\ d \notin own' =>
                           buf[d] = Turn(NFrames, First', Gap(NDesc, Oldest', d))
      OBVIOUS
  <2>1. CASE d = frame
    <3>1. Gap(NDesc, Oldest', d) = NDesc - 1
          BY <1>2, <1>3, <2>1, SuccTurn DEF Desc
    <3> QED BY <1>1, <2>1, <3>1
  <2>2. CASE d # frame
    <3>1. /\ Gap(NDesc, Oldest', d) = Gap(NDesc, frame, d) - 1
          /\ Gap(NDesc, frame, d) \in 0 .. NDesc - 1
      <4>1. frame \in 0 .. NDesc - 1 /\ d \in 0 .. NDesc - 1
            BY <1>2 DEF Desc
      <4>2. Gap(NDesc, Succ(NDesc, frame), d) = Gap(NDesc, frame, d) - 1
            BY <2>2, <4>1, SuccTurn
      <4>3. Gap(NDesc, frame, d) \in 0 .. NDesc - 1
            BY <4>1, TurnGap
      <4> QED BY <1>3, <4>2, <4>3
    <3>2. Gap(NDesc, frame, d) # 0
          BY <1>2, <2>2 DEF Gap, Desc
    <3>3. d \notin own' <=> d \notin own
          BY <1>1, <2>2
    <3>4. /\ d \notin own <=> Gap(NDesc, frame, d) < n
          /\ d \notin own => buf[d] = Turn(NFrames, handling, Gap(NDesc, frame, d))
          BY <1>2, <1>4 DEF Ring
    <3>5. Turn(NFrames, handling, Gap(NDesc, frame, d))
            = Turn(NFrames, Succ(NFrames, handling), Gap(NDesc, frame, d) - 1)
      <4>1. Gap(NDesc, frame, d) - 1 \in 0 .. NFrames - 1
            BY <3>1, <3>2
      <4>2. Turn(NFrames, handling, (Gap(NDesc, frame, d) - 1) + 1)
              = Turn(NFrames, Succ(NFrames, handling), Gap(NDesc, frame, d) - 1)
            BY <1>2, <4>1, SuccTurn DEF Frame
      <4>3. (Gap(NDesc, frame, d) - 1) + 1 = Gap(NDesc, frame, d)
            BY <3>1
      <4> QED BY <4>2, <4>3
    <3> QED BY <1>3, <3>1, <3>3, <3>4, <3>5
  <2> QED BY <2>1, <2>2
<1>9. Ring(n - 1)'
      BY <1>1, <1>6, <1>7, <1>8 DEF Ring
<1>10. es' = {} /\ TypeOK'
      BY <1>1, <1>2 DEF RInv, TypeOK
<1>11. ReadOne' /\ CopyTrue' /\ Suspended'
      BY <1>1 DEF RInv, ReadOne, Reading, CopyTrue, Suspended, SuspendedOnlyWhenFull
<1> QED BY <1>5, <1>9, <1>10, <1>11 DEF RInv

\* The poll demand: if the DMA still does not own its descriptor the ring is full.
LEMMA ResumeRInv == RInv /\ Resume => RInv'
<1> SUFFICES ASSUME RInv, Resume PROVE RInv'
    OBVIOUS
<1>1. /\ pc = "resume" /\ pc' = "input" /\ Restart
      /\ UNCHANGED <<own, es, buf, dmaPos, arriving, late>>
      /\ UNCHANGED <<rs, get, frame, p, handling>>
      BY DEF Resume
<1>2. Oldest' = Oldest /\ First' = First
      BY <1>1 DEF Oldest, First, Reading
<1>3. PICK n \in 0 .. NDesc : Ring(n)
      BY DEF RInv
<1>4. Ring(n)'
      BY <1>1, <1>2, <1>3 DEF Ring
<1>5. dmaPos \notin own => own = {}
  <2>1. /\ \A d \in Desc : d \notin own <=> Gap(NDesc, Oldest, d) < n
        /\ dmaPos = Turn(NDesc, Oldest, n)
        BY <1>3 DEF Ring
  <2>2. own \in SUBSET Desc
        BY DEF RInv, TypeOK
  <2> QED BY <2>1, <2>2, Begins, Full
<1>6. Suspended'
      BY <1>1, <1>5 DEF RInv, Suspended, SuspendedOnlyWhenFull, Restart
<1>7. TypeOK'
      BY <1>1 DEF RInv, TypeOK, Restart
<1>8. es' = {} /\ ReadOne' /\ CopyTrue'
      BY <1>1 DEF RInv, ReadOne, Reading, CopyTrue
<1> QED BY <1>4, <1>6, <1>7, <1>8 DEF RInv

LEMMA InputRInv == RInv /\ Input => RInv'
<1> SUFFICES ASSUME RInv, Input PROVE RInv'
    OBVIOUS
<1>1. /\ pc = "input" /\ pc' = "check"
      /\ handling' = NextFrame(handling) /\ frame' = NoDesc /\ p' = NoData
      /\ UNCHANGED <<own, es, buf, dmaPos, suspended, arriving, late>>
      /\ UNCHANGED <<rbus, rs, get>>
      BY DEF Input, dmaVars
<1>2. handling' \in Frame
      BY <1>1, Sizes, Steps, SuccTurn DEF RInv, TypeOK, Frame
<1>3. TypeOK'
      BY <1>1, <1>2 DEF RInv, TypeOK
<1>4. Oldest' = Oldest /\ First' = First /\ ReadOne' /\ CopyTrue'
      BY <1>1 DEF Oldest, First, Reading, ReadOne, CopyTrue
<1> QED BY <1>1, <1>3, <1>4, LookRInv

LEMMA ClearRInv == RInv /\ Clear => RInv'
<1> SUFFICES ASSUME RInv, Clear PROVE RInv'
    OBVIOUS
<1>1. /\ pc = "clear" /\ pc' = "idle" /\ rs' = FALSE
      /\ UNCHANGED <<own, es, buf, dmaPos, suspended, arriving, late>>
      /\ UNCHANGED <<rbus, get, frame, p, handling>>
      BY DEF Clear, dmaVars
<1>2. Oldest' = Oldest /\ First' = First /\ TypeOK' /\ ReadOne' /\ CopyTrue'
      BY <1>1 DEF RInv, Oldest, First, Reading, TypeOK, ReadOne, CopyTrue
<1> QED BY <1>1, <1>2, LookRInv

-----------------------------------------------------------------------------
LEMMA RxInvariance == Spec => []RInv
<1>1. RInv /\ UNCHANGED vars => RInv'
  <2> SUFFICES ASSUME RInv, UNCHANGED vars PROVE RInv'
      OBVIOUS
  <2>1. /\ UNCHANGED <<own, es, buf, dmaPos, suspended, arriving, late>>
        /\ UNCHANGED <<rbus, rs, get, pc, frame, p, handling>>
        BY DEF vars, dmaVars, handlerVars
  <2>2. TypeOK' /\ es' = {} /\ ReadOne' /\ CopyTrue' /\ Suspended'
        BY <2>1 DEF RInv, TypeOK, ReadOne, Reading, CopyTrue, Suspended,
                    SuspendedOnlyWhenFull
  <2>3. \A n : Ring(n) => Ring(n)'
        BY <2>1 DEF Ring, Oldest, First, Reading
  <2> QED BY <2>2, <2>3 DEF RInv
<1>2. RInv /\ [Next]_vars => RInv'
      BY <1>1, AcceptRInv, EnterRInv, CheckRInv, EthRxPacketRInv, PbufAllocRInv,
         CopyRInv, GiveBackRInv, ResumeRInv, InputRInv, ClearRInv DEF Next, Handler
<1> QED BY InitRInv, <1>2, PTL DEF Spec

\* What reaches lwIP is the oldest frame received and not yet handled.
THEOREM InOrderProved == Spec => []InOrder
<1>1. RInv => InOrder
      BY DEF RInv, CopyTrue, InOrder
<1> QED BY RxInvariance, <1>1, PTL

\* The driver and the DMA agree on the ring, whatever its size.
THEOREM RingProved == Spec => []RingInStep
<1>1. RInv => RingInStep
  <2> SUFFICES ASSUME RInv PROVE RingInStep
      OBVIOUS
  <2> USE Sizes
  <2> DEFINE At(k) == (Oldest + k) % NDesc
  <2>1. PICK n \in 0 .. NDesc : Ring(n)
        BY DEF RInv
  <2>2. Oldest \in 0 .. NDesc - 1 /\ First \in 0 .. NFrames - 1
        BY Begins DEF Desc, Frame
  <2>3. \A k \in 0 .. NDesc : At(k) = Turn(NDesc, Oldest, k)
        BY <2>2, ModTurn
  <2>4. \A k \in 0 .. NDesc : Later(First, k) = Turn(NFrames, First, k)
    <3>1. \A k \in 0 .. NDesc : k \in 0 .. NFrames
          OBVIOUS
    <3> QED BY <2>2, <3>1, ModTurn DEF Later
  <2>5. Reading => frame \in Desc /\ get = Chained(frame) /\ n > 0
    <3> SUFFICES ASSUME Reading PROVE frame \in Desc /\ get = Chained(frame) /\ n > 0
        OBVIOUS
    <3>1. frame \in Desc /\ get = Chained(frame) /\ frame \notin own /\ Oldest = frame
          BY DEF RInv, ReadOne, Oldest
    <3>2. Gap(NDesc, frame, frame) < n
          BY <2>1, <3>1 DEF Ring
    <3>3. Gap(NDesc, frame, frame) = 0
          BY <3>1, SuccTurn DEF Desc
    <3> QED BY <3>1, <3>2, <3>3
  <2>6. Later(First, n) = arriving /\ At(n) = dmaPos
        BY <2>1, <2>3, <2>4 DEF Ring
  <2>7. Busy = {At(k) : k \in 0 .. n - 1}
    <3>1. ASSUME NEW d \in Busy PROVE d \in {At(k) : k \in 0 .. n - 1}
      <4>1. d \in 0 .. NDesc - 1 /\ Gap(NDesc, Oldest, d) < n
            BY <2>1, <3>1 DEF Busy, Desc, Ring
      <4>2. /\ Gap(NDesc, Oldest, d) \in 0 .. n - 1
            /\ Gap(NDesc, Oldest, d) \in 0 .. NDesc
            /\ Turn(NDesc, Oldest, Gap(NDesc, Oldest, d)) = d
        <5>1. /\ Gap(NDesc, Oldest, d) \in 0 .. NDesc - 1
              /\ Turn(NDesc, Oldest, Gap(NDesc, Oldest, d)) = d
              BY <2>2, <4>1, TurnGap
        <5> QED BY <4>1, <5>1
      <4>3. At(Gap(NDesc, Oldest, d)) = d
            BY <2>3, <4>2
      <4> HIDE DEF At
      <4> QED BY <4>2, <4>3
    <3>2. ASSUME NEW k \in 0 .. n - 1 PROVE At(k) \in Busy
      <4>1. k \in 0 .. NDesc - 1 /\ k \in 0 .. NDesc
            OBVIOUS
      <4>2. At(k) \in Desc /\ Gap(NDesc, Oldest, At(k)) = k
            BY <2>2, <2>3, <4>1, TurnGap DEF Desc
      <4> HIDE DEF At
      <4> QED BY <2>1, <4>2 DEF Busy, Ring
    <3> HIDE DEF At
    <3> QED BY <3>1, <3>2
  <2>8. \A k \in 0 .. n - 1 : buf[At(k)] = Later(First, k)
    <3> SUFFICES ASSUME NEW k \in 0 .. n - 1 PROVE buf[At(k)] = Later(First, k)
        OBVIOUS
    <3>1. k \in 0 .. NDesc - 1 /\ k \in 0 .. NDesc
          OBVIOUS
    <3>2. At(k) \in Desc /\ Gap(NDesc, Oldest, At(k)) = k
          BY <2>2, <2>3, <3>1, TurnGap DEF Desc
    <3> HIDE DEF At
    <3> QED BY <2>1, <2>4, <3>1, <3>2 DEF Ring
  <2> QED BY <2>5, <2>6, <2>7, <2>8 DEF RingInStep, Oldest, First, RInv
<1> QED BY RxInvariance, <1>1, PTL

\* Reception is suspended only while the ring is full or the poll demand is about
\* to be written.
THEOREM SuspensionEnds == Spec => []SuspendedOnlyWhenFull
<1>1. RInv => SuspendedOnlyWhenFull
      BY DEF RInv, Suspended
<1> QED BY RxInvariance, <1>1, PTL

=============================================================================
