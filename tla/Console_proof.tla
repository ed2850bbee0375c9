---------------------------- MODULE Console_proof ----------------------------
(***************************************************************************)
(* Delays, lines and keys of the console for every chunk, every width of   *)
(* LOAD, every length of the buffer and every set of commands.  The        *)
(* argument for the delays: while SysTick counts for somebody, what LOAD   *)
(* or the counter still holds and what is still to be asked for add up to  *)
(* the time that remains, and whoever loses the counter to a command has   *)
(* been marked by it.  For the lines: what the receiver has in its buffer  *)
(* is what it keeps of the characters sent so far, once a line has begun   *)
(* on an empty receiver.                                                   *)
(***************************************************************************)
EXTENDS Console, SequenceTheorems, TLAPS

\* The counter as it stands covers n units with what is left to ask for.
Counting(n, left) == /\ systick.on
                     /\ systick.flag => n <= left
                     /\ ~ systick.flag /\ systick.load # 0 =>
                          systick.left # 0 /\ n <= systick.left + left

\* The command's delay.
TimeOfCommand == /\ hpc \in {"out", "exec", "clear"} => hdue = 0
                 /\ hpc = "chunk" => hdue <= hleft
                 /\ hpc = "enable" => hdue <= systick.load + hleft
                 /\ hpc = "poll" => Counting(hdue, hleft)

\* Main's, as long as no command has delayed since it began.
TimeOfMain == ~ stolen =>
                /\ hpc \notin {"enable", "poll"}
                /\ mpc \in {"scan", "resample"} => due = 0
                /\ mpc = "chunk" => due <= mleft
                /\ mpc = "enable" => due <= systick.load + mleft
                /\ mpc = "poll" => Counting(due, mleft)

\* The keys: key_up is set only when they have been seen up, and stays set
\* while main debounces.
KeysSeen == /\ keyUp => released
            /\ pressed = {} => released
            /\ mpc = "resample" => keyUp
            /\ mpc \in {"chunk", "enable", "poll"} /\ goal = "debounce" => keyUp

\* The types, one process at a time; main's loop is apart, since the delays and
\* the lines are the same in all of them.
PlaceOK == place \in DOMAIN Leads
MainOK == /\ mpc \in {"scan", "chunk", "enable", "poll", "resample"}
          /\ goal \in {"debounce", "pause"}
          /\ mleft \in Nat /\ due \in Nat /\ stolen \in BOOLEAN
Tim4OK == /\ hpc \in {"out", "exec", "chunk", "enable", "poll", "clear"}
          /\ hleft \in Nat /\ hdue \in Nat
KeyOK  == keyUp \in BOOLEAN /\ pressed \subseteq Keys /\ released \in BOOLEAN
WireOK == /\ dr \in Char \cup {CR, LF, Nothing}
          /\ line \in Texts /\ pos \in 0 .. Len(line) + 1
          /\ clean \in 0 .. 2 /\ sent \in Texts \cup {Nothing}

TypesOK == DelayTypeOK /\ SerialTypeOK /\ MainOK /\ Tim4OK /\ KeyOK /\ WireOK

CInv == TypesOK /\ TimeOfCommand /\ TimeOfMain

\* What delay_ms asks of delay_xms fits into LOAD.
LEMMA ChunkFits ==
  ASSUME NEW n \in Nat
  PROVE  /\ NextChunk(n) \in Nat /\ NextChunk(n) <= n
         /\ NextChunk(n) % LoadMod = NextChunk(n)
         /\ NextChunk(n) \in 0 .. LoadMod - 1
         /\ n - NextChunk(n) \in Nat
<1>1. Chunk \in Nat /\ LoadMod \in Nat /\ Chunk < LoadMod
      BY DelayAssumption
<1>2. \A c, m \in Nat : c < m => c % m = c
      OBVIOUS
<1> QED BY <1>1, <1>2 DEF NextChunk

\* LOAD keeps any time within its width.
LEMMA LoadRange == \A n \in Nat : n % LoadMod \in 0 .. LoadMod - 1
<1>1. LoadMod \in Nat \ {0}
      BY DelayAssumption
<1>2. \A m \in Nat \ {0} : \A n \in Nat : n % m \in 0 .. m - 1
      OBVIOUS
<1> QED BY <1>1, <1>2

LEMMA TypeParts ==
  /\ TypeOK <=> PlaceOK /\ TypesOK
  /\ TypesOK <=> DelayTypeOK /\ SerialTypeOK /\ MainOK /\ Tim4OK /\ KeyOK /\ WireOK
  /\ TypesOK' <=> /\ DelayTypeOK' /\ SerialTypeOK'
                  /\ MainOK' /\ Tim4OK' /\ KeyOK' /\ WireOK'
BY Zenon DEF TypeOK, PlaceOK, TypesOK, MainOK, Tim4OK, KeyOK, WireOK

LEMMA InitCInv == Init => CInv /\ KeysSeen
<1> SUFFICES ASSUME Init PROVE CInv /\ KeysSeen
    OBVIOUS
<1>1. LoadMod \in Nat \ {0} /\ RecLen \in Nat /\ RecLen > 0
      BY DelayAssumption, SerialAssumption
<1>2. DelayTypeOK
      BY <1>1 DEF Init, DelayInit, DelayTypeOK
<1>3. SerialTypeOK
  <2>1. <<>> \in Seq(Char \cup {LF}) /\ Len(<<>>) = 0
        OBVIOUS
  <2> QED BY <1>1, <2>1 DEF Init, SerialInit, SerialTypeOK
<1>4. 0 \in 0 .. Len(line) + 1
  <2>1. line \in Texts /\ Texts \subseteq Seq(Char)
        BY ConsoleAssumption DEF Init
  <2>2. Len(line) \in Nat
        BY <2>1
  <2> QED BY <2>2
<1>5. MainOK /\ Tim4OK
      BY DEF Init, MainOK, Tim4OK
<1>6. KeyOK /\ WireOK
      BY <1>4 DEF Init, KeyOK, WireOK
<1>7. TypesOK
      BY <1>2, <1>3, <1>5, <1>6, TypeParts
<1> QED BY <1>7 DEF Init, CInv, TimeOfCommand, TimeOfMain, KeysSeen

-----------------------------------------------------------------------------
(* What the steps on the counter do to it.                                 *)

\* A unit of time that passes takes one from what is due and from what the
\* counter holds, or ends the count.
LEMMA ElapseCounts ==
  ASSUME DelayTypeOK, Elapse, NEW n \in Nat, NEW left \in Nat, Counting(n, left)
  PROVE  /\ systick'.load = systick.load /\ systick'.on = systick.on
         /\ systick'.on
         /\ systick'.flag => Less(n) <= left
         /\ ~ systick'.flag /\ systick'.load # 0 =>
              systick'.left # 0 /\ Less(n) <= systick'.left + left
<1>1. LoadMod \in Nat
      BY DelayAssumption
<1>2. /\ systick.load \in 0 .. LoadMod - 1 /\ systick.left \in 0 .. LoadMod - 1
      /\ systick.on /\ systick.flag \in BOOLEAN
      BY DEF DelayTypeOK, Counting
<1>3. CASE systick.load = 0
  <2>1. systick' = systick
        BY <1>3 DEF Elapse
  <2>2. /\ systick'.load = 0 /\ systick.load = 0 /\ systick'.on
        /\ systick'.flag = systick.flag
        BY <1>2, <1>3, <2>1
  <2>3. systick.flag => n <= left
        BY DEF Counting
  <2> QED BY <1>2, <2>2, <2>3 DEF Less
<1>4. CASE systick.load # 0 /\ systick.left <= 1
  <2>1. systick' = [systick EXCEPT !.left = systick.load, !.flag = TRUE]
        BY <1>2, <1>4 DEF Elapse
  <2>2. systick'.load = systick.load /\ systick'.on = systick.on /\ systick'.flag
        BY <2>1 DEF DelayTypeOK
  <2>3. n <= 1 + left
    <3>1. CASE systick.flag
          BY <3>1 DEF Counting
    <3>2. CASE ~ systick.flag
          BY <1>1, <1>2, <1>4, <3>2 DEF Counting
    <3> QED BY <3>1, <3>2
  <2> QED BY <1>2, <2>2, <2>3 DEF Less
<1>5. CASE systick.load # 0 /\ ~ systick.left <= 1
  <2>1. systick' = [systick EXCEPT !.left = @ - 1]
        BY <1>2, <1>5 DEF Elapse
  <2>2. /\ systick'.load = systick.load /\ systick'.on = systick.on
        /\ systick'.flag = systick.flag /\ systick'.left = systick.left - 1
        BY <2>1 DEF DelayTypeOK
  <2>3. CASE systick.flag
        BY <1>2, <2>2, <2>3 DEF Counting, Less
  <2>4. CASE ~ systick.flag
        BY <1>1, <1>2, <1>5, <2>2, <2>4 DEF Counting, Less
  <2> QED BY <2>3, <2>4
<1> QED BY <1>3, <1>4, <1>5

LEMMA ElapseTypes == DelayTypeOK /\ Elapse => DelayTypeOK' /\ systick'.load = systick.load
<1> SUFFICES ASSUME DelayTypeOK, Elapse PROVE DelayTypeOK' /\ systick'.load = systick.load
    OBVIOUS
<1>1. LoadMod \in Nat
      BY DelayAssumption
<1>2. systick.load \in 0 .. LoadMod - 1 /\ systick.left \in 0 .. LoadMod - 1
      BY DEF DelayTypeOK
<1>3. CASE ~ systick.on \/ systick.load = 0
      BY <1>3 DEF Elapse, DelayTypeOK
<1>4. CASE systick.on /\ systick.load # 0 /\ systick.left <= 1
      BY <1>4 DEF Elapse, DelayTypeOK
<1>5. CASE systick.on /\ systick.load # 0 /\ ~ systick.left <= 1
  <2>1. systick.left - 1 \in 0 .. LoadMod - 1
        BY <1>1, <1>2, <1>5
  <2> QED BY <1>5, <2>1 DEF Elapse, DelayTypeOK
<1> QED BY <1>3, <1>4, <1>5

LEMMA SetLoadTypes ==
  ASSUME DelayTypeOK, NEW n \in Nat, SetLoad(n)
  PROVE  DelayTypeOK' /\ systick'.load = n % LoadMod
BY LoadRange DEF DelayTypeOK, SetLoad

\* The counter starts with the whole of LOAD to count.
LEMMA EnableCounts ==
  ASSUME DelayTypeOK, Enable
  PROVE  /\ DelayTypeOK'
         /\ \A n, left \in Nat : n <= systick.load + left =>
              /\ systick'.on /\ ~ systick'.flag
              /\ systick'.left = systick'.load /\ n <= systick'.left + left
BY DelayAssumption DEF DelayTypeOK, Enable

LEMMA DisableTypes == DelayTypeOK /\ Disable => DelayTypeOK'
<1>1. 0 \in 0 .. LoadMod - 1
      BY DelayAssumption
<1> QED BY <1>1 DEF DelayTypeOK, Disable

-----------------------------------------------------------------------------
(* No step disturbs the delays.                                            *)

\* What is due is as much nearer as the counter is.
LEMMA TickCInv == CInv /\ Tick => CInv'
<1> SUFFICES ASSUME CInv, Tick PROVE CInv'
    OBVIOUS
<1>1. /\ DelayTypeOK /\ SerialTypeOK /\ MainOK /\ Tim4OK /\ KeyOK /\ WireOK
      /\ TimeOfCommand /\ TimeOfMain
      BY TypeParts DEF CInv
<1>2. /\ Elapse /\ due' = Less(due) /\ hdue' = Less(hdue)
      /\ UNCHANGED <<done, cr, buf, mpc, goal, mleft, stolen, hpc, hleft>>
      /\ UNCHANGED <<keyUp, pressed, released, dr, line, pos, clean, sent>>
      BY DEF Tick, serialVars, keyVars, wireVars
<1>3. DelayTypeOK' /\ systick'.load = systick.load /\ systick.load \in Nat
      BY <1>1, <1>2, ElapseTypes, DelayAssumption DEF DelayTypeOK
<1>4. SerialTypeOK' /\ KeyOK' /\ WireOK'
      BY <1>1, <1>2 DEF SerialTypeOK, KeyOK, WireOK
<1>5. due \in Nat /\ hdue \in Nat /\ mleft \in Nat /\ hleft \in Nat
      BY <1>1 DEF MainOK, Tim4OK
<1>6. Less(due) \in Nat /\ Less(hdue) \in Nat /\ Less(due) <= due /\ Less(hdue) <= hdue
      BY <1>5 DEF Less
<1>7. MainOK' /\ Tim4OK'
      BY <1>1, <1>2, <1>6 DEF MainOK, Tim4OK
<1>8. TimeOfCommand'
  <2>1. CASE hpc = "poll"
    <3>1. Counting(hdue, hleft)
          BY <1>1, <2>1 DEF TimeOfCommand
    <3>2. Counting(hdue, hleft)'
          BY <1>1, <1>2, <1>5, <3>1, ElapseCounts DEF Counting
    <3> QED BY <1>2, <2>1, <3>2 DEF TimeOfCommand
  <2>2. CASE hpc # "poll"
        BY <1>1, <1>2, <1>3, <1>5, <1>6, <2>2 DEF TimeOfCommand
  <2> QED BY <2>1, <2>2
<1>9. TimeOfMain'
  <2> SUFFICES ASSUME ~ stolen PROVE TimeOfMain'
      BY <1>2 DEF TimeOfMain
  <2>1. CASE mpc = "poll"
    <3>1. Counting(due, mleft) /\ hpc \notin {"enable", "poll"}
          BY <1>1, <2>1 DEF TimeOfMain
    <3>2. Counting(due, mleft)'
          BY <1>1, <1>2, <1>5, <3>1, ElapseCounts DEF Counting
    <3> QED BY <1>2, <2>1, <3>1, <3>2 DEF TimeOfMain
  <2>2. CASE mpc # "poll"
        BY <1>1, <1>2, <1>3, <1>5, <1>6, <2>2 DEF TimeOfMain
  <2> QED BY <2>1, <2>2
<1> QED BY <1>3, <1>4, <1>7, <1>8, <1>9, TypeParts DEF CInv

\* The keys and the line have no part in them.
LEMMA WorldCInv == CInv /\ (Touch \/ Arrive \/ Usart1) => CInv'
<1> SUFFICES ASSUME CInv, Touch \/ Arrive \/ Usart1 PROVE CInv'
    OBVIOUS
<1>1. /\ DelayTypeOK /\ SerialTypeOK /\ MainOK /\ Tim4OK /\ KeyOK /\ WireOK
      /\ TimeOfCommand /\ TimeOfMain
      BY TypeParts DEF CInv
<1>2. UNCHANGED <<systick, mpc, goal, mleft, due, stolen, hpc, hleft, hdue>>
      BY DEF Touch, Arrive, Usart1, mainVars, tim4Vars
<1>3. DelayTypeOK' /\ MainOK' /\ Tim4OK' /\ TimeOfCommand' /\ TimeOfMain'
      BY <1>1, <1>2 DEF DelayTypeOK, MainOK, Tim4OK, TimeOfCommand, TimeOfMain, Counting
<1>4. line \in Seq(Char) /\ Len(line) \in Nat
      BY <1>1, ConsoleAssumption DEF WireOK
<1>5. CASE Touch
  <2>1. SerialTypeOK' /\ WireOK' /\ KeyOK'
        BY <1>1, <1>5 DEF Touch, serialVars, wireVars, SerialTypeOK, WireOK, KeyOK
  <2> QED BY <1>3, <2>1, TypeParts DEF CInv
<1>6. CASE Arrive
  <2>1. SerialTypeOK' /\ KeyOK'
        BY <1>1, <1>6 DEF Arrive, serialVars, keyVars, SerialTypeOK, KeyOK
  <2>2. Coming \in Char \cup {CR, LF}
    <3>1. CASE pos < Len(line)
      <4>1. pos + 1 \in 1 .. Len(line)
            BY <1>1, <1>4, <3>1 DEF WireOK
      <4> QED BY <1>4, <3>1, <4>1 DEF Coming
    <3>2. CASE ~ pos < Len(line)
          BY <3>2 DEF Coming
    <3> QED BY <3>1, <3>2
  <2>3. dr' \in Char \cup {CR, LF, Nothing}
        BY <1>1, <1>6, <2>2 DEF Arrive, WireOK
  <2>4. CASE pos <= Len(line)
    <3>1. pos' = pos + 1 /\ UNCHANGED <<line, sent>> /\ clean' \in {clean, 0}
          BY <1>6, <2>4 DEF Arrive
    <3>2. pos' \in 0 .. Len(line) + 1
          BY <1>1, <1>4, <2>4, <3>1 DEF WireOK
    <3> QED BY <1>1, <1>3, <2>1, <2>3, <3>1, <3>2, TypeParts DEF CInv, WireOK
  <2>5. CASE ~ pos <= Len(line)
    <3>1. /\ pos' = 0 /\ line' \in Texts /\ clean' \in {1, 2}
          /\ sent' \in {sent, line, Nothing}
          BY <1>6, <2>5 DEF Arrive
    <3>2. Len(line') \in Nat
          BY <3>1, ConsoleAssumption
    <3>3. pos' \in 0 .. Len(line') + 1
          BY <3>1, <3>2
    <3>4. WireOK'
          BY <1>1, <2>3, <3>1, <3>3 DEF WireOK
    <3> QED BY <1>3, <2>1, <3>4, TypeParts DEF CInv
  <2> QED BY <2>4, <2>5
<1>7. CASE Usart1
  <2>1. /\ dr # Nothing /\ Receive(dr) /\ dr' = Nothing /\ clean' \in {0, clean}
        /\ UNCHANGED <<keyUp, pressed, released, line, pos, sent>>
        BY <1>7 DEF Usart1, keyVars
  <2>2. KeyOK' /\ WireOK'
        BY <1>1, <2>1 DEF KeyOK, WireOK
  <2>3. <<>> \in Seq(Char \cup {LF}) /\ Len(<<>>) = 0 /\ RecLen > 0
        BY SerialAssumption
  <2>4. SerialTypeOK'
    <3>1. CASE Clear
          BY <2>3, <3>1 DEF Clear, SerialTypeOK
    <3>2. CASE done' \in BOOLEAN /\ cr' \in BOOLEAN /\ UNCHANGED buf
          BY <1>1, <3>2 DEF SerialTypeOK
    <3>3. CASE ~ done /\ ~ cr /\ dr # CR /\ Store(dr) /\ ~ Clear
      <4>1. /\ ~ (Len(buf) + 1 > RecLen - 1)
            /\ buf' = Append(buf, dr) /\ UNCHANGED <<done, cr>>
            BY <3>3 DEF Store
      <4>2. dr \in Char \cup {LF} /\ buf \in Seq(Char \cup {LF})
            BY <1>1, <2>1, <3>3 DEF WireOK, SerialTypeOK
      <4>3. buf' \in Seq(Char \cup {LF}) /\ Len(buf') = Len(buf) + 1
            BY <4>1, <4>2
      <4>4. Len(buf') < RecLen
            BY <4>1, <4>2, <4>3, SerialAssumption
      <4> QED BY <1>1, <4>1, <4>3, <4>4 DEF SerialTypeOK
    <3>4. \/ Clear
          \/ done' \in BOOLEAN /\ cr' \in BOOLEAN /\ UNCHANGED buf
          \/ ~ done /\ ~ cr /\ dr # CR /\ Store(dr)
          BY <1>1, <2>1 DEF Receive, AfterCR, SerialTypeOK, serialVars
    <3> QED BY <3>1, <3>2, <3>3, <3>4
  <2> QED BY <1>3, <2>2, <2>4, TypeParts DEF CInv
<1> QED BY <1>5, <1>6, <1>7

\* A command's delay: it takes the counter from whoever has it and marks main.
LEMMA CommandCInv == CInv /\ (Scan \/ Tim4) => CInv'
<1> SUFFICES ASSUME CInv, Scan \/ Tim4 PROVE CInv'
    OBVIOUS
<1>1. /\ DelayTypeOK /\ SerialTypeOK /\ MainOK /\ Tim4OK /\ KeyOK /\ WireOK
      /\ TimeOfCommand /\ TimeOfMain
      BY TypeParts DEF CInv
<1>2. /\ hleft \in Nat /\ hdue \in Nat /\ LoadMod \in Nat
      /\ systick.load \in 0 .. LoadMod - 1
      BY <1>1, DelayAssumption DEF Tim4OK, DelayTypeOK
<1>3. CASE Scan
  <2>1. /\ hpc = "out" /\ hpc' = "exec"
        /\ UNCHANGED <<systick, done, cr, buf, mpc, goal, mleft, due, stolen, hleft, hdue>>
        /\ UNCHANGED <<keyUp, pressed, released, dr, line, pos, clean, sent>>
        BY <1>3 DEF Scan, serialVars, mainVars, keyVars, wireVars
  <2>2. /\ DelayTypeOK' /\ SerialTypeOK' /\ MainOK' /\ Tim4OK' /\ KeyOK' /\ WireOK'
        BY <1>1, <2>1 DEF DelayTypeOK, SerialTypeOK, MainOK, Tim4OK, KeyOK, WireOK
  <2>3. TimeOfCommand' /\ TimeOfMain'
        BY <1>1, <2>1 DEF TimeOfCommand, TimeOfMain, Counting
  <2> QED BY <2>2, <2>3, TypeParts DEF CInv
<1>4. CASE Execute
  <2>1. /\ hpc = "exec"
        /\ UNCHANGED <<done, cr, buf, mpc, goal, mleft, due>>
        /\ UNCHANGED <<keyUp, pressed, released, dr, line, pos, clean, sent>>
        BY <1>4 DEF Execute, serialVars, keyVars, wireVars
  <2>2. SerialTypeOK' /\ KeyOK' /\ WireOK'
        BY <1>1, <2>1 DEF SerialTypeOK, KeyOK, WireOK
  <2>3. hdue = 0
        BY <1>1, <2>1 DEF TimeOfCommand
  <2>4. CASE /\ Run("delay_ms")
             /\ hleft' = Command[buf].n /\ hdue' = Command[buf].n
             /\ hpc' = "chunk"
             /\ UNCHANGED <<systick, stolen>>
    <3>1. hleft' \in Nat /\ hdue' \in Nat /\ hdue' <= hleft'
          BY <2>4, ConsoleAssumption DEF Run
    <3>2. DelayTypeOK' /\ MainOK' /\ Tim4OK'
          BY <1>1, <2>1, <2>4, <3>1 DEF DelayTypeOK, MainOK, Tim4OK
    <3>3. TimeOfCommand' /\ TimeOfMain'
          BY <1>1, <2>1, <2>4, <3>1 DEF TimeOfCommand, TimeOfMain, Counting
    <3> QED BY <2>2, <3>2, <3>3, TypeParts DEF CInv
  <2>5. CASE /\ Run("delay_us")
             /\ SetLoad(Command[buf].n)
             /\ hleft' = 0 /\ hdue' = systick'.load /\ stolen' = TRUE
             /\ hpc' = "enable"
    <3>1. Command[buf].n \in Nat
          BY <2>5, ConsoleAssumption DEF Run
    <3>2. DelayTypeOK'
          BY <1>1, <2>5, <3>1, SetLoadTypes
    <3>3. systick'.load \in Nat
          BY <1>2, <3>2 DEF DelayTypeOK
    <3>4. MainOK' /\ Tim4OK'
          BY <1>1, <2>1, <2>5, <3>3 DEF MainOK, Tim4OK
    <3>5. TimeOfCommand' /\ TimeOfMain'
          BY <2>5, <3>3 DEF TimeOfCommand, TimeOfMain
    <3> QED BY <2>2, <3>2, <3>4, <3>5, TypeParts DEF CInv
  <2>6. CASE hpc' = "clear" /\ UNCHANGED <<systick, hleft, hdue, stolen>>
    <3>1. DelayTypeOK' /\ MainOK' /\ Tim4OK'
          BY <1>1, <2>1, <2>6 DEF DelayTypeOK, MainOK, Tim4OK
    <3>2. TimeOfCommand' /\ TimeOfMain'
          BY <1>1, <2>1, <2>3, <2>6 DEF TimeOfCommand, TimeOfMain, Counting
    <3> QED BY <2>2, <3>1, <3>2, TypeParts DEF CInv
  <2> QED BY <1>4, <2>4, <2>5, <2>6 DEF Execute
<1>5. CASE HChunk
  <2>1. /\ hpc = "chunk" /\ hdue <= hleft
        /\ UNCHANGED <<done, cr, buf, mpc, goal, mleft, due, hdue>>
        /\ UNCHANGED <<keyUp, pressed, released, dr, line, pos, clean, sent>>
        BY <1>1, <1>5 DEF HChunk, serialVars, keyVars, wireVars, TimeOfCommand
  <2>2. SerialTypeOK' /\ KeyOK' /\ WireOK'
        BY <1>1, <2>1 DEF SerialTypeOK, KeyOK, WireOK
  <2>3. CASE hleft = 0
    <3>1. hpc' = "clear" /\ UNCHANGED <<systick, hleft, stolen>> /\ hdue = 0
          BY <1>2, <1>5, <2>1, <2>3 DEF HChunk
    <3>2. DelayTypeOK' /\ MainOK' /\ Tim4OK'
          BY <1>1, <2>1, <3>1 DEF DelayTypeOK, MainOK, Tim4OK
    <3>3. TimeOfCommand' /\ TimeOfMain'
          BY <1>1, <2>1, <3>1 DEF TimeOfCommand, TimeOfMain, Counting
    <3> QED BY <2>2, <3>2, <3>3, TypeParts DEF CInv
  <2>4. CASE hleft # 0
    <3>1. /\ SetLoad(NextChunk(hleft)) /\ hleft' = hleft - NextChunk(hleft)
          /\ stolen' = TRUE /\ hpc' = "enable"
          BY <1>5, <2>4 DEF HChunk
    <3>2. /\ DelayTypeOK' /\ systick'.load = NextChunk(hleft)
          /\ NextChunk(hleft) \in Nat /\ hleft' \in Nat
          BY <1>1, <1>2, <3>1, ChunkFits, SetLoadTypes
    <3>3. MainOK' /\ Tim4OK'
          BY <1>1, <2>1, <3>1, <3>2 DEF MainOK, Tim4OK
    <3>4. hdue' <= systick'.load + hleft'
          BY <1>2, <2>1, <3>1, <3>2
    <3>5. TimeOfCommand' /\ TimeOfMain'
          BY <3>1, <3>4 DEF TimeOfCommand, TimeOfMain
    <3> QED BY <2>2, <3>2, <3>3, <3>5, TypeParts DEF CInv
  <2> QED BY <2>3, <2>4
<1>6. CASE HEnable
  <2>1. /\ hpc = "enable" /\ Enable /\ hpc' = "poll"
        /\ UNCHANGED <<done, cr, buf, mpc, goal, mleft, due, stolen, hleft, hdue>>
        /\ UNCHANGED <<keyUp, pressed, released, dr, line, pos, clean, sent>>
        BY <1>6 DEF HEnable, serialVars, mainVars, keyVars, wireVars
  <2>2. SerialTypeOK' /\ KeyOK' /\ WireOK' /\ MainOK' /\ Tim4OK'
        BY <1>1, <2>1 DEF SerialTypeOK, KeyOK, WireOK, MainOK, Tim4OK
  <2>3. hdue <= systick.load + hleft /\ stolen
        BY <1>1, <2>1 DEF TimeOfCommand, TimeOfMain
  <2>4. DelayTypeOK' /\ Counting(hdue, hleft)'
        BY <1>1, <1>2, <2>1, <2>3, EnableCounts DEF Counting, DelayTypeOK
  <2>5. TimeOfCommand' /\ TimeOfMain'
        BY <2>1, <2>3, <2>4 DEF TimeOfCommand, TimeOfMain
  <2> QED BY <2>2, <2>4, <2>5, TypeParts DEF CInv
<1>7. CASE HPoll
  <2>1. /\ hpc = "poll" /\ Over /\ Disable
        /\ hpc' = IF hleft = 0 THEN "clear" ELSE "chunk"
        /\ UNCHANGED <<done, cr, buf, mpc, goal, mleft, due, stolen, hleft, hdue>>
        /\ UNCHANGED <<keyUp, pressed, released, dr, line, pos, clean, sent>>
        BY <1>7 DEF HPoll, serialVars, mainVars, keyVars, wireVars
  <2>2. SerialTypeOK' /\ KeyOK' /\ WireOK' /\ MainOK' /\ Tim4OK'
        BY <1>1, <2>1 DEF SerialTypeOK, KeyOK, WireOK, MainOK, Tim4OK
  <2>3. DelayTypeOK'
        BY <1>1, <2>1, DisableTypes
  <2>4. hdue <= hleft /\ stolen
        BY <1>1, <2>1 DEF TimeOfCommand, TimeOfMain, Counting, Over
  <2>5. hleft = 0 => hdue = 0
        BY <1>2, <2>4
  <2>6. TimeOfCommand' /\ TimeOfMain'
        BY <2>1, <2>4, <2>5 DEF TimeOfCommand, TimeOfMain
  <2> QED BY <2>2, <2>3, <2>6, TypeParts DEF CInv
<1>8. CASE Finish
  <2>1. /\ hpc = "clear" /\ hpc' = "out" /\ Clear
        /\ UNCHANGED <<systick, mpc, goal, mleft, due, stolen, hleft, hdue>>
        /\ UNCHANGED <<keyUp, pressed, released, dr, line, pos, clean, sent>>
        BY <1>8 DEF Finish, mainVars, keyVars, wireVars
  <2>2. <<>> \in Seq(Char \cup {LF}) /\ Len(<<>>) = 0 /\ RecLen > 0
        BY SerialAssumption
  <2>3. SerialTypeOK'
        BY <2>1, <2>2 DEF Clear, SerialTypeOK
  <2>4. /\ DelayTypeOK' /\ KeyOK' /\ WireOK' /\ MainOK' /\ Tim4OK'
        BY <1>1, <2>1 DEF DelayTypeOK, KeyOK, WireOK, MainOK, Tim4OK
  <2>5. TimeOfCommand' /\ TimeOfMain'
        BY <1>1, <2>1 DEF TimeOfCommand, TimeOfMain, Counting
  <2> QED BY <2>3, <2>4, <2>5, TypeParts DEF CInv
<1> QED BY <1>3, <1>4, <1>5, <1>6, <1>7, <1>8 DEF Tim4

\* Main's delay: it begins with the counter nobody else has, and when another
\* takes it main is marked.
LEMMA MainCInv == CInv /\ Main => CInv'
<1> SUFFICES ASSUME CInv, Main PROVE CInv'
    OBVIOUS
<1>1. /\ DelayTypeOK /\ SerialTypeOK /\ MainOK /\ Tim4OK /\ KeyOK /\ WireOK
      /\ TimeOfCommand /\ TimeOfMain
      BY TypeParts DEF CInv
<1>2. /\ mleft \in Nat /\ due \in Nat /\ LoadMod \in Nat
      /\ systick.load \in 0 .. LoadMod - 1
      BY <1>1, DelayAssumption DEF MainOK, DelayTypeOK
<1>3. /\ hpc = "out" /\ hdue = 0
      /\ UNCHANGED <<done, cr, buf, hpc, hleft, hdue>>
      /\ UNCHANGED <<pressed, dr, line, pos, clean, sent>>
      BY <1>1 DEF Main, KeyScan, Resample, UdpTurn, MChunk, MEnable, MPoll, At,
                  serialVars, tim4Vars, keyVars, wireVars, TimeOfCommand
<1>4. SerialTypeOK' /\ Tim4OK' /\ WireOK' /\ TimeOfCommand'
      BY <1>1, <1>3 DEF SerialTypeOK, Tim4OK, WireOK, TimeOfCommand
<1>5. CASE KeyScan \/ Resample \/ UdpTurn
  <2>1. mpc \in {"scan", "resample"} /\ UNCHANGED systick
        BY <1>5 DEF KeyScan, Resample, UdpTurn, At
  <2>2. \/ /\ mpc' = "chunk" /\ goal' \in {"debounce", "pause"} /\ stolen' = FALSE
           /\ mleft' \in {Debounce, Pause} /\ due' = mleft'
        \/ mpc' = "scan" /\ UNCHANGED <<goal, mleft, due, stolen>>
        BY <1>5 DEF KeyScan, Resample, UdpTurn, Report, GoOn, Delay
  <2>3. MainOK'
        BY <1>1, <2>2, ConsoleAssumption DEF MainOK
  <2>4. DelayTypeOK'
        BY <1>1, <2>1 DEF DelayTypeOK
  <2>5. TimeOfMain'
    <3>1. mleft' \in {Debounce, Pause} /\ due' = mleft' => due' <= mleft'
          BY ConsoleAssumption
    <3> QED BY <1>1, <1>3, <2>1, <2>2, <3>1 DEF TimeOfMain
  <2>6. KeyOK'
        BY <1>1, <1>3, <1>5 DEF KeyScan, Resample, UdpTurn, keyVars, KeyOK
  <2> QED BY <1>4, <2>3, <2>4, <2>5, <2>6, TypeParts DEF CInv
<1>6. ASSUME ~ (KeyScan \/ Resample \/ UdpTurn)
      PROVE  UNCHANGED <<keyUp, released, goal, due, stolen>> /\ KeyOK'
  <2>1. UNCHANGED <<keyUp, released, goal, due, stolen>>
        BY <1>6 DEF Main, MChunk, MEnable, MPoll, keyVars
  <2> QED BY <1>1, <1>3, <2>1 DEF KeyOK
<1>7. CASE MChunk /\ ~ (KeyScan \/ Resample \/ UdpTurn)
  <2>1. /\ mpc = "chunk" /\ mpc' = "enable"
        /\ SetLoad(NextChunk(mleft)) /\ mleft' = mleft - NextChunk(mleft)
        BY <1>7 DEF MChunk, At
  <2>2. /\ DelayTypeOK' /\ systick'.load = NextChunk(mleft)
        /\ NextChunk(mleft) \in Nat /\ mleft' \in Nat
        BY <1>1, <1>2, <2>1, ChunkFits, SetLoadTypes
  <2>3. MainOK'
        BY <1>1, <1>6, <1>7, <2>1, <2>2 DEF MainOK
  <2>4. due <= mleft => due <= systick'.load + mleft'
        BY <1>2, <2>1, <2>2
  <2>5. TimeOfMain'
        BY <1>1, <1>3, <1>6, <1>7, <2>1, <2>4 DEF TimeOfMain
  <2> QED BY <1>4, <1>6, <1>7, <2>2, <2>3, <2>5, TypeParts DEF CInv
<1>8. CASE MEnable /\ ~ (KeyScan \/ Resample \/ UdpTurn)
  <2>1. mpc = "enable" /\ mpc' = "poll" /\ Enable /\ UNCHANGED mleft
        BY <1>8 DEF MEnable, At
  <2>2. DelayTypeOK' /\ (due <= systick.load + mleft => Counting(due, mleft)')
        BY <1>1, <1>2, <1>6, <1>8, <2>1, EnableCounts DEF Counting, DelayTypeOK
  <2>3. MainOK'
        BY <1>1, <1>6, <1>8, <2>1 DEF MainOK
  <2>4. TimeOfMain'
        BY <1>1, <1>3, <1>6, <1>8, <2>1, <2>2 DEF TimeOfMain
  <2> QED BY <1>4, <1>6, <1>8, <2>2, <2>3, <2>4, TypeParts DEF CInv
<1>9. CASE MPoll /\ ~ (KeyScan \/ Resample \/ UdpTurn)
  <2>1. /\ mpc = "poll" /\ Over /\ Disable /\ UNCHANGED mleft
        /\ mpc' = IF mleft # 0 THEN "chunk"
                  ELSE IF goal = "debounce" THEN "resample" ELSE "scan"
        BY <1>9 DEF MPoll, At
  <2>2. DelayTypeOK'
        BY <1>1, <2>1, DisableTypes
  <2>3. ~ stolen => due <= mleft
        BY <1>1, <2>1 DEF TimeOfMain, Counting, Over
  <2>4. ~ stolen /\ mleft = 0 => due = 0
        BY <1>2, <2>3
  <2>5. MainOK'
        BY <1>1, <1>6, <1>9, <2>1 DEF MainOK
  <2>6. TimeOfMain'
        BY <1>3, <1>6, <1>9, <2>1, <2>3, <2>4 DEF TimeOfMain
  <2> QED BY <1>4, <1>6, <1>9, <2>2, <2>5, <2>6, TypeParts DEF CInv
<1> QED BY <1>5, <1>7, <1>8, <1>9 DEF Main

-----------------------------------------------------------------------------
(* The keys.                                                               *)

LEMMA KeysSeenInvariant == KeysSeen /\ [Next]_vars => KeysSeen'
<1> SUFFICES ASSUME KeysSeen, [Next]_vars PROVE KeysSeen'
    OBVIOUS
<1> USE DEF KeysSeen
<1>1. CASE UNCHANGED vars
      BY <1>1 DEF vars, mainVars, keyVars
<1>2. CASE Tick
      BY <1>2 DEF Tick, keyVars
<1>3. CASE Touch
      BY <1>3 DEF Touch, mainVars
<1>4. CASE Arrive \/ Usart1 \/ Scan
      BY <1>4 DEF Arrive, Usart1, Scan, mainVars, keyVars
<1>5. CASE Tim4
      BY <1>5 DEF Tim4, Execute, HChunk, HEnable, HPoll, Finish, mainVars, keyVars
<1>6. CASE KeyScan
  <2>1. CASE keyUp /\ pressed # {}
        BY <1>6, <2>1 DEF KeyScan, Delay
  <2>2. CASE ~ (keyUp /\ pressed # {})
    <3>1. /\ keyUp' = (keyUp \/ pressed = {})
          /\ (goal' = "pause" /\ mpc' = "chunk") \/ mpc' = "scan"
          BY <1>6, <2>2 DEF KeyScan, GoOn, Delay
    <3> QED BY <1>6, <3>1 DEF KeyScan
  <2> QED BY <2>1, <2>2
<1>7. CASE Resample
  <2>1. (goal' = "pause" /\ mpc' = "chunk") \/ mpc' = "scan"
        BY <1>7 DEF Resample, Report, GoOn, Delay
  <2> QED BY <1>7, <2>1 DEF Resample
<1>8. CASE UdpTurn
      BY <1>8 DEF UdpTurn, Delay, keyVars
<1>9. CASE MChunk \/ MEnable \/ MPoll
      BY <1>9 DEF MChunk, MEnable, MPoll, At, keyVars
<1> QED BY <1>1, <1>2, <1>3, <1>4, <1>5, <1>6, <1>7, <1>8, <1>9 DEF Next, Main

-----------------------------------------------------------------------------
LEMMA ConsoleInvariance == Spec => []CInv
<1>1. CInv /\ UNCHANGED vars => CInv'
  <2> SUFFICES ASSUME CInv, UNCHANGED vars PROVE CInv'
      OBVIOUS
  <2>1. TypesOK'
        BY DEF CInv, TypesOK, MainOK, Tim4OK, KeyOK, WireOK, DelayTypeOK, SerialTypeOK, vars, serialVars, mainVars,
               tim4Vars, keyVars, wireVars
  <2> QED BY <2>1 DEF CInv, TimeOfCommand, TimeOfMain, Counting, vars, mainVars, tim4Vars
<1>2. CInv /\ [Next]_vars => CInv'
      BY <1>1, TickCInv, WorldCInv, CommandCInv, MainCInv DEF Next
<1>3. Init => CInv
      BY InitCInv
<1> QED BY <1>2, <1>3, PTL DEF Spec

\* A key leads main to one of its loops.
LEMMA PlaceKept == PlaceOK /\ [Next]_vars => PlaceOK'
<1> SUFFICES ASSUME PlaceOK, [Next]_vars PROVE PlaceOK'
    OBVIOUS
<1>1. CASE KeyScan \/ Resample
  <2>1. /\ DOMAIN Leads = {"menu", "ask", "tcp", "udp"}
        /\ \A q \in DOMAIN Leads : Leads[q] \subseteq DOMAIN Leads
        BY DEF Leads
  <2>2. place' \in {place} \cup Leads[place]
        BY <1>1 DEF KeyScan, Resample, Report, GoOn
  <2> QED BY <2>1, <2>2 DEF PlaceOK
<1>2. CASE UdpTurn \/ MChunk \/ MEnable \/ MPoll
      BY <1>2 DEF UdpTurn, MChunk, MEnable, MPoll, PlaceOK
<1>3. CASE Tick \/ Touch \/ Arrive \/ Usart1 \/ Scan
      BY <1>3 DEF Tick, Touch, Arrive, Usart1, Scan, mainVars, PlaceOK
<1>4. CASE Tim4
      BY <1>4 DEF Tim4, Execute, HChunk, HEnable, HPoll, Finish, mainVars, PlaceOK
<1>5. CASE UNCHANGED vars
      BY <1>5 DEF vars, mainVars, PlaceOK
<1> QED BY <1>1, <1>2, <1>3, <1>4, <1>5 DEF Next, Main

\* No text overruns the buffer, and everything else keeps its type.
THEOREM TypeCorrect == Spec => []TypeOK
<1>1. CInv /\ PlaceOK => TypeOK
      BY TypeParts DEF CInv
<1>2. Init => PlaceOK
      BY DEF Init, PlaceOK, Leads
<1>3. Spec => []PlaceOK
      BY <1>2, PlaceKept, PTL DEF Spec
<1> QED BY ConsoleInvariance, <1>1, <1>3, PTL

\* A delay lasts its time unless a command took the counter meanwhile, and a
\* command's always does.
THEOREM DelaysLastProved == Spec => []DelaysLast
<1>1. CInv => DelaysLast
      BY DEF CInv, TimeOfCommand, TimeOfMain, DelaysLast
<1> QED BY ConsoleInvariance, <1>1, PTL

\* A key that stays down is reported once.
THEOREM OneReportProved == Spec => OneReport
<1> DEFINE Once == Resample /\ pressed # {} => released
<1>1. KeysSeen => [Once]_vars
      BY DEF KeysSeen, Resample, At
<1>2. Init => KeysSeen
      BY InitCInv
<1> HIDE DEF Once
<1>3. Spec => [][Once]_vars
      BY <1>1, <1>2, KeysSeenInvariant, PTL DEF Spec
<1> QED BY <1>3 DEF Once, OneReport

-----------------------------------------------------------------------------
(* The lines.  How far the receiver has come in the line the terminal      *)
(* sends: all that came in but what waits in the data register.            *)

Got    == IF dr = Nothing THEN pos ELSE pos - 1
Behind == dr # Nothing /\ pos = 0     \* the LF of the line before waits

\* The character the line has after i others, and what the receiver makes of
\* the first n characters of a text.
CharAt(i)       == IF i < Len(line) THEN line[i + 1] ELSE CR
KeptTo(text, n) == SubSeq(text, (n \div RecLen) * RecLen + 1, n)

\* In the line after one that lost a character the receiver is in step as to
\* where it ends, from its first character on.
Heard == ~ Behind /\ Got > 0 => /\ ~ done
                                /\ Got <= Len(line) => ~ cr
                                /\ Got > Len(line) /\ line # <<>> => cr

\* After that it has in the buffer what it should have.
InStep == /\ Behind => dr = LF /\ ~ done /\ cr
          /\ ~ Behind /\ Got = 0 => done \/ (~ cr /\ buf = <<>>)
          /\ ~ Behind /\ Got > 0 => /\ ~ done
                                    /\ cr <=> Got > Len(line)
                                    /\ Got <= Len(line) => buf = KeptTo(line, Got)
                                    /\ Got > Len(line) => buf = Kept(line)

LineInv == /\ hpc # "out" => done
           /\ sent # Nothing /\ dr = LF => ~ done /\ cr /\ buf = Kept(sent)
           /\ LineWhole
           /\ clean # 0 /\ dr # Nothing /\ pos > 0 => dr = CharAt(pos - 1)
           /\ clean = 1 => Heard
           /\ clean = 2 => InStep

\* The buffer begins anew each RecLen characters.
LEMMA DivBounds ==
  ASSUME NEW R \in Nat \ {0}, NEW n \in Nat
  PROVE  n \div R \in Nat /\ (n \div R) * R <= n /\ n < (n \div R) * R + R
OBVIOUS

LEMMA DivUnique ==
  ASSUME NEW R \in Nat \ {0}, NEW n \in Nat, NEW q \in Nat,
         q * R <= n, n < q * R + R
  PROVE  n \div R = q
<1>1. n \div R \in Nat /\ (n \div R) * R <= n /\ n < (n \div R) * R + R
      OBVIOUS
<1>2. \A a, b \in Nat : a < b => a * R + R <= b * R
      OBVIOUS
<1> QED BY <1>1, <1>2

Begin(n) == (n \div RecLen) * RecLen

LEMMA BeginStep ==
  ASSUME NEW n \in Nat
  PROVE  /\ Begin(n) \in Nat /\ Begin(n) <= n /\ n < Begin(n) + RecLen
         /\ Begin(n + 1) = IF n + 1 = Begin(n) + RecLen THEN n + 1 ELSE Begin(n)
         /\ Begin(0) = 0
<1>1. RecLen \in Nat \ {0}
      BY SerialAssumption
<1>2. PICK q \in Nat : q = n \div RecLen
      BY <1>1, DivBounds
<1>3. q * RecLen \in Nat /\ q * RecLen <= n /\ n < q * RecLen + RecLen
      BY <1>1, <1>2, DivBounds
<1>4. Begin(n) = q * RecLen
      BY <1>2 DEF Begin
<1>5. Begin(0) = 0
  <2>1. 0 \div RecLen = 0
        BY <1>1, DivUnique
  <2> QED BY <1>1, <2>1 DEF Begin
<1>6. CASE n + 1 = q * RecLen + RecLen
  <2>1. (q + 1) * RecLen = q * RecLen + RecLen
        BY <1>1
  <2>2. (n + 1) \div RecLen = q + 1
        BY <1>1, <1>6, <2>1, DivUnique
  <2> QED BY <1>3, <1>4, <1>5, <1>6, <2>1, <2>2 DEF Begin
<1>7. CASE n + 1 # q * RecLen + RecLen
  <2>1. (n + 1) \div RecLen = q
        BY <1>1, <1>3, <1>7, DivUnique
  <2> QED BY <1>3, <1>4, <1>5, <1>7, <2>1 DEF Begin
<1> QED BY <1>6, <1>7

\* A character more: stored, or thrown away with those before it.
LEMMA KeptStep ==
  ASSUME NEW text \in Seq(Char), NEW n \in 0 .. Len(text) - 1
  PROVE  /\ Len(KeptTo(text, n)) = n - Begin(n)
         /\ KeptTo(text, n + 1) =
              IF Len(KeptTo(text, n)) + 1 > RecLen - 1 THEN <<>>
              ELSE Append(KeptTo(text, n), text[n + 1])
         /\ KeptTo(text, 0) = <<>>
         /\ KeptTo(text, Len(text)) = Kept(text)
<1> USE SerialAssumption
<1>1. n \in Nat /\ Len(text) \in Nat /\ n + 1 <= Len(text)
      OBVIOUS
<1>2. /\ Begin(n) \in Nat /\ Begin(n) <= n /\ n < Begin(n) + RecLen
      /\ Begin(n + 1) = IF n + 1 = Begin(n) + RecLen THEN n + 1 ELSE Begin(n)
      /\ Begin(0) = 0
      BY <1>1, BeginStep
<1>3. \A k : KeptTo(text, k) = SubSeq(text, Begin(k) + 1, k)
      BY DEF KeptTo, Begin
<1>4. \A i \in 1 .. Len(text) + 1, k \in 0 .. Len(text) :
        Len(SubSeq(text, i, k)) = IF i <= k THEN k - i + 1 ELSE 0
      BY SubSeqProperties
<1>5. Len(KeptTo(text, n)) = n - Begin(n)
  <2>1. Begin(n) + 1 \in 1 .. Len(text) + 1 /\ n \in 0 .. Len(text)
        BY <1>1, <1>2
  <2>2. Len(SubSeq(text, Begin(n) + 1, n)) =
          IF Begin(n) + 1 <= n THEN n - (Begin(n) + 1) + 1 ELSE 0
        BY <1>4, <2>1
  <2>3. Len(SubSeq(text, Begin(n) + 1, n)) = n - Begin(n)
        BY <1>1, <1>2, <2>2
  <2> QED BY <1>3, <2>3
<1>6. KeptTo(text, Len(text)) = Kept(text)
      BY DEF Kept, KeptTo
<1>9. KeptTo(text, 0) = <<>>
      BY <1>2, <1>3, SubSeqEmpty
<1>7. CASE n + 1 = Begin(n) + RecLen
  <2>1. KeptTo(text, n + 1) = <<>>
        BY <1>1, <1>2, <1>3, <1>7, SubSeqEmpty
  <2>2. Len(KeptTo(text, n)) + 1 > RecLen - 1
        BY <1>2, <1>5, <1>7
  <2> QED BY <1>5, <1>6, <1>9, <2>1, <2>2
<1>8. CASE n + 1 # Begin(n) + RecLen
  <2>1. KeptTo(text, n + 1) = SubSeq(text, Begin(n) + 1, n + 1)
        BY <1>2, <1>3, <1>8
  <2>2. SubSeq(text, Begin(n) + 1, n + 1)
          = Append(SubSeq(text, Begin(n) + 1, n), text[n + 1])
    <3>1. /\ Begin(n) + 1 \in 1 .. Len(text) /\ n + 1 \in Begin(n) + 1 .. Len(text)
          /\ (n + 1) - 1 = n
          BY <1>1, <1>2
    <3>2. SubSeq(text, Begin(n) + 1, n + 1)
            = SubSeq(text, Begin(n) + 1, n) \o <<text[n + 1]>>
          BY <3>1, SubSeqRecursiveSecond
    <3>3. SubSeq(text, Begin(n) + 1, n) \in Seq(Char) /\ text[n + 1] \in Char
      <4>1. \A i \in Begin(n) + 1 .. n : text[i] \in Char
            BY <1>1, <1>2
      <4>2. text[n + 1] \in Char
            BY <1>1
      <4> QED BY <1>1, <1>2, <4>1, <4>2, SubSeqProperties
    <3> QED BY <3>2, <3>3, AppendIsConcat
  <2>3. ~ Len(KeptTo(text, n)) + 1 > RecLen - 1
        BY <1>2, <1>5, <1>8
  <2> QED BY <1>3, <1>5, <1>6, <1>9, <2>1, <2>2, <2>3
<1> QED BY <1>7, <1>8

-----------------------------------------------------------------------------
(* No step puts the receiver out of step.                                  *)

\* The parts of LineInv by themselves.
Busy    == hpc # "out" => done
Waiting == sent # Nothing /\ dr = LF => ~ done /\ cr /\ buf = Kept(sent)
Right   == clean # 0 /\ dr # Nothing /\ pos > 0 => dr = CharAt(pos - 1)

LEMMA LineParts ==
  /\ LineInv <=> /\ Busy /\ Waiting /\ LineWhole /\ Right
                 /\ clean = 1 => Heard
                 /\ clean = 2 => InStep
  /\ LineInv' <=> /\ Busy' /\ Waiting' /\ LineWhole' /\ Right'
                  /\ clean' = 1 => Heard'
                  /\ clean' = 2 => InStep'
BY Zenon DEF LineInv, Busy, Waiting, Right

\* Characters, CR, LF and the empty register differ.
LEMMA Characters ==
  /\ CR # LF /\ CR \notin Char /\ LF \notin Char
  /\ Nothing \notin Char /\ Nothing # CR /\ Nothing # LF
  /\ Texts \subseteq Seq(Char)
BY SerialAssumption, ConsoleAssumption

LEMMA InitLine == Init => LineInv
<1> SUFFICES ASSUME Init PROVE LineInv
    OBVIOUS
<1>1. /\ hpc = "out" /\ done = FALSE /\ cr = FALSE /\ buf = <<>> /\ dr = Nothing
      /\ pos = 0 /\ clean = 2
      BY DEF Init, SerialInit
<1>2. Busy /\ Waiting /\ LineWhole /\ Right
      BY <1>1, Characters DEF Busy, Waiting, LineWhole, Right
<1>3. InStep
      BY <1>1 DEF InStep, Behind, Got
<1> QED BY <1>1, <1>2, <1>3, LineParts

\* What leaves the receiver and the wire alone.
LEMMA LineKept ==
  ASSUME LineInv, UNCHANGED <<done, cr, buf, dr, line, pos, clean, sent>>,
         hpc' # "out" => done
  PROVE  LineInv'
BY DEF LineInv, LineWhole, CharAt, Heard, InStep, Behind, Got

\* The line is dropped.  It was a whole one, so nothing of the next has come.
LEMMA FinishLine == LineInv /\ SerialTypeOK /\ WireOK /\ Finish => LineInv'
<1> SUFFICES ASSUME LineInv, SerialTypeOK, WireOK, Finish PROVE LineInv'
    OBVIOUS
<1>1. /\ hpc = "clear" /\ hpc' = "out" /\ done' = FALSE /\ cr' = FALSE /\ buf' = <<>>
      /\ UNCHANGED <<dr, line, pos, clean, sent>>
      BY DEF Finish, Clear, wireVars
<1>2. done
      BY <1>1 DEF LineInv
<1>3. Busy' /\ Waiting' /\ LineWhole' /\ Right'
      BY <1>1, <1>2 DEF LineInv, Busy, Waiting, LineWhole, Right, CharAt
<1>4. pos \in Nat
  <2>1. Len(line) \in Nat
        BY Characters DEF WireOK
  <2> QED BY <2>1 DEF WireOK
<1>5. clean' = 1 => Heard'
      BY <1>1, <1>2 DEF LineInv, Heard, Behind, Got
<1>6. clean' = 2 => InStep'
      BY <1>1, <1>2 DEF LineInv, InStep, Behind, Got
<1> QED BY <1>3, <1>5, <1>6, LineParts

\* A character comes in from the terminal.
LEMMA ArriveLine == LineInv /\ SerialTypeOK /\ WireOK /\ Arrive => LineInv'
<1> SUFFICES ASSUME LineInv, SerialTypeOK, WireOK, Arrive PROVE LineInv'
    OBVIOUS
<1>1. /\ UNCHANGED <<done, cr, buf, hpc>>
      /\ dr' = IF dr = Nothing THEN Coming ELSE dr
      BY DEF Arrive, serialVars, tim4Vars
<1>2. /\ line \in Seq(Char) /\ Len(line) \in Nat /\ pos \in Nat /\ pos <= Len(line) + 1
      /\ clean \in 0 .. 2
  <2>1. line \in Seq(Char)
        BY Characters DEF WireOK
  <2>2. Len(line) \in Nat
        BY <2>1
  <2> QED BY <2>1, <2>2 DEF WireOK
<1>3. Busy'
      BY <1>1 DEF LineInv, Busy
<1>4. \A k : Kept(k)' = Kept(k)
      BY DEF Kept
<1>5. CASE dr # Nothing
  <2>1. /\ dr' = dr /\ sent' = sent /\ clean' \in {0, 1}
        /\ clean' = 1 => pos' = 0
        BY <1>1, <1>2, <1>5 DEF Arrive
  <2>2. Waiting' /\ LineWhole' /\ Right'
        BY <1>1, <2>1 DEF LineInv, Waiting, LineWhole, Right
  <2>3. clean' = 1 => Heard'
        BY <1>5, <2>1 DEF Heard, Behind
  <2> QED BY <1>3, <2>1, <2>2, <2>3, LineParts
<1>6. CASE dr = Nothing /\ pos <= Len(line)
  <2>1. /\ pos' = pos + 1 /\ clean' = clean /\ UNCHANGED <<line, sent>>
        /\ dr' = CharAt(pos)
        BY <1>1, <1>2, <1>6 DEF Arrive, Coming, CharAt
  <2>2. dr' # Nothing /\ dr' # LF
    <3>1. CASE pos < Len(line)
      <4>1. line[pos + 1] \in Char
            BY <1>2, <3>1
      <4> QED BY <2>1, <3>1, <4>1, Characters DEF CharAt
    <3>2. CASE pos = Len(line)
          BY <2>1, <3>2, Characters DEF CharAt
    <3> QED BY <1>2, <1>6, <3>1, <3>2
  <2>3. ~ Behind /\ ~ Behind' /\ Got' = Got
        BY <1>2, <1>6, <2>1, <2>2 DEF Behind, Got
  <2>4. Waiting' /\ LineWhole' /\ Right'
        BY <1>1, <1>2, <2>1, <2>2 DEF LineInv, Waiting, LineWhole, Right, CharAt
  <2>5. clean' = 1 => Heard'
        BY <1>1, <2>1, <2>3 DEF LineInv, Heard
  <2>6. clean' = 2 => InStep'
        BY <1>1, <2>1, <2>3 DEF LineInv, InStep
  <2> QED BY <1>3, <2>4, <2>5, <2>6, LineParts
<1>7. CASE dr = Nothing /\ ~ pos <= Len(line)
  <2>1. /\ pos' = 0 /\ dr' = LF
        /\ clean' = IF clean = 0 \/ (line = <<>> /\ clean = 1) THEN 1 ELSE 2
        /\ sent' = IF clean = 2 THEN line ELSE Nothing
        BY <1>1, <1>2, <1>7 DEF Arrive, Coming
  <2>2. ~ Behind /\ Got = Len(line) + 1 /\ Got > 0 /\ Got > Len(line)
        BY <1>2, <1>7 DEF Behind, Got
  <2>3. Behind' /\ dr' # Nothing
        BY <2>1, Characters DEF Behind
  <2>4. clean' = 2 => ~ done /\ cr
        BY <1>2, <2>1, <2>2 DEF LineInv, Heard, InStep
  <2>5. sent' # Nothing => ~ done /\ cr /\ buf = Kept(line) /\ sent' = line
        BY <2>1, <2>2 DEF LineInv, InStep
  <2>6. Waiting' /\ LineWhole' /\ Right'
        BY <1>1, <2>1, <2>5 DEF Waiting, LineWhole, Right
  <2>7. Heard' /\ (clean' = 2 => InStep')
        BY <1>1, <2>1, <2>3, <2>4 DEF Heard, InStep
  <2> QED BY <1>3, <2>6, <2>7, LineParts
<1> QED BY <1>5, <1>6, <1>7

\* The receiver takes a character.
LEMMA ReceiveLine == LineInv /\ SerialTypeOK /\ WireOK /\ Usart1 => LineInv'
<1> SUFFICES ASSUME LineInv, SerialTypeOK, WireOK, Usart1 PROVE LineInv'
    OBVIOUS
<1>1. /\ hpc = "out" /\ hpc' = "out" /\ dr # Nothing /\ dr' = Nothing
      /\ Receive(dr) /\ clean' = (IF done THEN 0 ELSE clean)
      /\ UNCHANGED <<line, pos, sent>>
      BY DEF Usart1, tim4Vars
<1>2. /\ line \in Seq(Char) /\ Len(line) \in Nat /\ pos \in Nat /\ pos <= Len(line) + 1
      /\ clean \in 0 .. 2
  <2>1. line \in Seq(Char)
        BY Characters DEF WireOK
  <2>2. Len(line) \in Nat
        BY <2>1
  <2> QED BY <2>1, <2>2 DEF WireOK
<1>3. Busy' /\ Waiting' /\ Right' /\ ~ Behind'
      BY <1>1, Characters DEF Busy, Waiting, Right, Behind
<1>4. CASE done
  <2>1. UNCHANGED <<done, cr, buf>> /\ clean' = 0
        BY <1>1, <1>4 DEF Receive, serialVars
  <2>2. LineWhole'
        BY <1>1, <2>1 DEF LineInv, LineWhole, Kept
  <2> QED BY <1>3, <2>1, <2>2, LineParts
<1>5. CASE ~ done
  <2>1. /\ cr => AfterCR(dr)
        /\ ~ cr /\ dr = CR => cr' = TRUE /\ UNCHANGED <<done, buf>>
        /\ ~ cr /\ dr # CR => Store(dr)
        /\ clean' = clean
        BY <1>1, <1>5 DEF Receive
  <2>2. done' => cr /\ dr = LF /\ UNCHANGED <<cr, buf>>
        BY <1>5, <2>1 DEF AfterCR, Store, Clear
  <2>3. LineWhole'
        BY <1>1, <2>2 DEF LineInv, LineWhole, Kept
  <2>4. Got' = pos
        BY <1>1 DEF Got
  <2>5. CASE pos = 0
    <3>1. Heard'
          BY <1>2, <2>4, <2>5 DEF Heard
    <3>2. clean = 2 => InStep'
      <4> SUFFICES ASSUME clean = 2 PROVE InStep'
          OBVIOUS
      <4>1. dr = LF /\ cr
            BY <1>1, <2>5 DEF LineInv, InStep, Behind
      <4>2. done'
            BY <2>1, <4>1 DEF AfterCR
      <4> QED BY <1>1, <1>2, <1>3, <2>4, <2>5, <4>2 DEF InStep
    <3> QED BY <1>3, <2>1, <2>3, <3>1, <3>2, LineParts
  <2>6. CASE pos > 0 /\ clean # 0
    <3>1. /\ dr = CharAt(pos - 1) /\ Got = pos - 1 /\ ~ Behind
          BY <1>1, <2>6 DEF LineInv, Got, Behind
    <3>2. CASE pos <= Len(line)
      <4>1. pos - 1 \in 0 .. Len(line) - 1 /\ (pos - 1) + 1 = pos
            BY <1>2, <2>6, <3>2
      <4>2. dr = line[pos] /\ dr \in Char /\ dr # CR /\ dr # LF
        <5>1. line[pos] \in Char
              BY <1>2, <4>1
        <5> QED BY <3>1, <4>1, <5>1, Characters DEF CharAt
      <4>3. ~ done' /\ ~ cr'
            BY <1>5, <2>1, <4>2 DEF AfterCR, Clear, Store
      <4>4. Heard'
            BY <1>1, <1>2, <2>4, <3>2, <4>3 DEF Heard
      <4>5. clean = 2 => buf' = KeptTo(line, pos)
        <5> SUFFICES ASSUME clean = 2 PROVE buf' = KeptTo(line, pos)
            OBVIOUS
        <5>1. KeptTo(line, 0) = <<>> /\
              KeptTo(line, pos) = IF Len(KeptTo(line, pos - 1)) + 1 > RecLen - 1 THEN <<>>
                                  ELSE Append(KeptTo(line, pos - 1), line[pos])
              BY <1>2, <4>1, KeptStep
        <5>2. ~ cr /\ buf = KeptTo(line, pos - 1)
          <6>1. CASE pos - 1 = 0
                BY <1>5, <3>1, <5>1, <6>1 DEF LineInv, InStep
          <6>2. CASE pos - 1 # 0
            <7>1. pos - 1 > 0 /\ pos - 1 <= Len(line) /\ ~ pos - 1 > Len(line)
                  BY <1>2, <4>1, <6>2
            <7> QED BY <3>1, <7>1 DEF LineInv, InStep
          <6> QED BY <6>1, <6>2
        <5>3. buf' = IF Len(buf) + 1 > RecLen - 1 THEN <<>> ELSE Append(buf, dr)
              BY <2>1, <4>2, <5>2 DEF Store, Clear
        <5> QED BY <4>2, <5>1, <5>2, <5>3
      <4>6. clean = 2 => InStep'
        <5>1. ~ pos > Len(line)
              BY <1>2, <3>2
        <5>2. KeptTo(line, pos)' = KeptTo(line, pos)
              BY <1>1 DEF KeptTo
        <5> QED BY <1>1, <1>3, <2>4, <2>6, <3>2, <4>3, <4>5, <5>1, <5>2 DEF InStep, KeptTo
      <4> QED BY <1>3, <2>1, <2>3, <4>4, <4>6, LineParts
    <3>3. CASE ~ pos <= Len(line)
      <4>1. pos = Len(line) + 1 /\ Got = Len(line) /\ dr = CR
            BY <1>2, <3>1, <3>3 DEF CharAt
      <4>2. ~ done'
            BY <1>5, <2>1, <4>1, Characters DEF AfterCR, Clear
      <4>3. line # <<>> => Got > 0
            BY <1>2, <4>1
      <4>4. clean = 1 => Heard'
        <5> SUFFICES ASSUME clean = 1 PROVE Heard'
            OBVIOUS
        <5>1. line # <<>> => ~ cr
          <6>1. line # <<>> => Got > 0 /\ Got <= Len(line)
                BY <1>2, <4>1, <4>3
          <6> QED BY <3>1, <6>1 DEF LineInv, Heard
        <5>2. line # <<>> => cr' = TRUE
              BY <2>1, <4>1, <5>1
        <5>3. line' = line /\ ~ Got' <= Len(line')
              BY <1>1, <2>4, <3>3
        <5>4. line' # <<>> => cr'
              BY <5>2, <5>3
        <5> QED BY <4>2, <5>3, <5>4, Zenon DEF Heard
      <4>5. clean = 2 => ~ cr /\ buf = Kept(line)
        <5> SUFFICES ASSUME clean = 2 PROVE ~ cr /\ buf = Kept(line)
            OBVIOUS
        <5>1. KeptTo(line, Len(line)) = Kept(line)
              BY DEF Kept, KeptTo
        <5>2. CASE line = <<>>
          <6>1. Len(line) = 0 /\ KeptTo(line, 0) = <<>>
            <7>1. 0 \div RecLen = 0 /\ 0 * RecLen = 0
                  BY SerialAssumption, DivUnique
            <7>2. KeptTo(line, 0) = SubSeq(line, 0 + 1, 0)
                  BY <7>1 DEF KeptTo
            <7> QED BY <5>2, <7>2, SubSeqEmpty
          <6> QED BY <1>5, <3>1, <4>1, <5>1, <6>1 DEF LineInv, InStep
        <5>3. CASE line # <<>>
          <6>1. Got > 0 /\ Got <= Len(line) /\ ~ Got > Len(line)
                BY <1>2, <4>1, <4>3, <5>3
          <6> QED BY <3>1, <4>1, <5>1, <6>1 DEF LineInv, InStep
        <5> QED BY <5>2, <5>3
      <4>6. clean = 2 => InStep'
        <5> SUFFICES ASSUME clean = 2 PROVE InStep'
            OBVIOUS
        <5>1. cr' = TRUE /\ buf' = Kept(line)
              BY <2>1, <4>1, <4>5
        <5> QED BY <1>1, <1>2, <1>3, <2>4, <3>3, <4>1, <4>2, <5>1 DEF InStep, Kept
      <4> QED BY <1>3, <2>1, <2>3, <4>4, <4>6, LineParts
    <3> QED BY <3>2, <3>3
  <2>7. CASE clean = 0
        BY <1>3, <2>1, <2>3, <2>7, LineParts
  <2> QED BY <1>2, <2>5, <2>6, <2>7
<1> QED BY <1>4, <1>5

LEMMA LineInvNext == CInv /\ LineInv /\ [Next]_vars => LineInv'
<1> SUFFICES ASSUME CInv, LineInv, [Next]_vars PROVE LineInv'
    OBVIOUS
<1>1. SerialTypeOK /\ WireOK
      BY TypeParts DEF CInv
<1>2. CASE Tick \/ Touch \/ Main
  <2>1. UNCHANGED <<done, cr, buf, dr, line, pos, clean, sent, hpc>>
        BY <1>2 DEF Tick, Touch, Main, KeyScan, Resample, UdpTurn, MChunk, MEnable,
           MPoll, serialVars, tim4Vars, wireVars
  <2>2. hpc' # "out" => done
        BY <2>1 DEF LineInv
  <2> QED BY <2>1, <2>2, LineKept
<1>3. CASE Arrive
      BY <1>1, <1>3, ArriveLine
<1>4. CASE Usart1
      BY <1>1, <1>4, ReceiveLine
<1>5. CASE Scan
  <2>1. UNCHANGED <<done, cr, buf, dr, line, pos, clean, sent>> /\ done
        BY <1>5 DEF Scan, serialVars, wireVars
  <2> QED BY <2>1, LineKept
<1>6. CASE Execute \/ HChunk \/ HEnable \/ HPoll
  <2>1. UNCHANGED <<done, cr, buf, dr, line, pos, clean, sent>> /\ hpc # "out"
        BY <1>6 DEF Execute, HChunk, HEnable, HPoll, serialVars, wireVars
  <2>2. done
        BY <2>1 DEF LineInv
  <2> QED BY <2>1, <2>2, LineKept
<1>7. CASE Finish
      BY <1>1, <1>7, FinishLine
<1>8. CASE UNCHANGED vars
  <2>1. UNCHANGED <<done, cr, buf, dr, line, pos, clean, sent, hpc>>
        BY <1>8 DEF vars, serialVars, tim4Vars, wireVars
  <2>2. hpc' # "out" => done
        BY <2>1 DEF LineInv
  <2> QED BY <2>1, <2>2, LineKept
<1> QED BY <1>2, <1>3, <1>4, <1>5, <1>6, <1>7, <1>8 DEF Next, Tim4

\* What the receiver hands over is the line as it was sent, but for the
\* characters a full buffer throws away, as soon as two lines lie between it
\* and what was lost.
THEOREM LineWholeProved == Spec => []LineWhole
<1>1. LineInv => LineWhole
      BY DEF LineInv
<1> QED BY <1>1, InitLine, LineInvNext, ConsoleInvariance, PTL DEF Spec
=============================================================================
