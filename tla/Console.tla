------------------------------- MODULE Console -------------------------------
(***************************************************************************)
(* The board's console: main's loop, which scans the keys and waits        *)
(* between scans, the interrupt of USART1, which assembles lines, and the  *)
(* interrupt of TIM4, in which usmart executes them.  A command may be     *)
(* delay_ms or delay_us, so the one SysTick counter serves main and the    *)
(* TIM4 interrupt.  The two interrupts have the same priority (3): neither *)
(* preempts the other, both preempt main.                                  *)
(*                                                                         *)
(* Time passes in Tick only; everything else takes none.  A key reported   *)
(* at the menu may lead main to another loop: the TCP session scans and    *)
(* waits as the menu does, the screen before it that asks for the remote   *)
(* address scans without a wait, and the UDP session waits, never scans    *)
(* and never ends.  The keys are not told apart: a report leads where that *)
(* of any key would.                                                       *)
(***************************************************************************)
EXTENDS Delay, Serial

CONSTANTS Texts,      \* lines the terminal sends, without CR LF
          Command,    \* what a line makes usmart do: [fn, n]
          Nothing,    \* no character
          NKeys,      \* keys, in the order KEY_Scan looks at them
          Debounce,   \* delay_ms(10) of KEY_Scan
          Pause       \* delay_ms(2) of main's loop

ASSUME ConsoleAssumption ==
  /\ Texts \subseteq Seq(Char)
  /\ Command \in [Texts -> [fn : {"delay_ms", "delay_us", "other"}, n : Nat]]
  /\ Nothing \notin Char \cup {CR, LF}
  /\ NKeys \in Nat \ {0}
  /\ Debounce \in Nat \ {0} /\ Pause \in Nat \ {0}

VARIABLES place,    \* the loop main is in: "menu", "ask", "tcp" or "udp"
          mpc,      \* where in it
          goal,     \* the delay main is in: "debounce" or "pause"
          mleft,    \* what delay_ms has still to ask of delay_xms, in main
          due,      \* time until main's delay should be over
          stolen,   \* has a command delayed since main's delay began
          hpc,      \* where the TIM4 interrupt is, "out" when not active
          hleft,    \* as mleft, in the TIM4 interrupt
          hdue,     \* as due
          keyUp,    \* key_up of KEY_Scan
          pressed,  \* keys held down
          released, \* have all keys been up since the last key reported
          dr,       \* the character in the data register
          line, pos,\* the line the terminal sends and how far it has come
          clean,    \* 0: of this line a character was lost; 1: of the line
                    \* before it, or only empty lines came since; else 2
          sent      \* the line whose LF came in last, if clean was 2

mainVars == <<place, mpc, goal, mleft, due, stolen>>
tim4Vars == <<hpc, hleft, hdue>>
keyVars  == <<keyUp, pressed, released>>
wireVars == <<dr, line, pos, clean, sent>>
vars     == <<systick, serialVars, mainVars, tim4Vars, keyVars, wireVars>>

Keys == 1 .. NKeys

Init == /\ DelayInit /\ SerialInit
        /\ place = "menu" /\ mpc = "scan" /\ goal = "pause" /\ mleft = 0 /\ due = 0
        /\ stolen = FALSE
        /\ hpc = "out" /\ hleft = 0 /\ hdue = 0
        /\ keyUp = TRUE /\ pressed = {} /\ released = TRUE
        /\ dr = Nothing /\ line \in Texts /\ pos = 0 /\ clean = 2 /\ sent = Nothing

-----------------------------------------------------------------------------
(***************************************************************************)
(* The world: time, fingers and the terminal.                              *)
(***************************************************************************)
Less(n) == IF n = 0 THEN 0 ELSE n - 1

Tick == /\ Elapse
        /\ due' = Less(due) /\ hdue' = Less(hdue)
        /\ UNCHANGED <<serialVars, place, mpc, goal, mleft, stolen, hpc, hleft,
                       keyVars, wireVars>>

\* Bound: where nobody looks at the keys nobody touches them.
Touch == /\ place # "udp"
         /\ pressed' \in SUBSET Keys
         /\ released' = (released \/ pressed' = {})
         /\ UNCHANGED <<systick, serialVars, mainVars, tim4Vars, keyUp, wireVars>>

\* The character of the line in turn: its text, then CR, then LF.
Coming == IF pos < Len(line) THEN line[pos + 1]
          ELSE IF pos = Len(line) THEN CR ELSE LF

\* A character comes in.  One that finds the register full is lost.
Arrive ==
  /\ dr' = IF dr = Nothing THEN Coming ELSE dr
  /\ LET kept == IF dr = Nothing THEN clean ELSE 0
     IN  IF pos <= Len(line)
           THEN pos' = pos + 1 /\ clean' = kept /\ UNCHANGED <<line, sent>>
           ELSE /\ pos' = 0 /\ line' \in Texts
                /\ clean' = IF kept = 0 \/ (line = <<>> /\ kept = 1) THEN 1 ELSE 2
                /\ sent' = IF dr # Nothing THEN sent
                           ELSE IF kept = 2 THEN line ELSE Nothing
  /\ UNCHANGED <<systick, serialVars, mainVars, tim4Vars, keyVars>>

-----------------------------------------------------------------------------
(***************************************************************************)
(* The interrupts                                                          *)
(***************************************************************************)

\* USART1_IRQHandler.  While a line waits for usmart its characters are lost.
Usart1 == /\ hpc = "out" /\ dr # Nothing
          /\ Receive(dr)
          /\ dr' = Nothing
          /\ clean' = IF done THEN 0 ELSE clean
          /\ UNCHANGED <<systick, mainVars, tim4Vars, keyVars, line, pos, sent>>

\* TIM4_IRQHandler finds a line.
Scan == /\ hpc = "out" /\ done
        /\ hpc' = "exec"
        /\ UNCHANGED <<systick, serialVars, mainVars, hleft, hdue, keyVars,
                       wireVars>>

\* usmart_cmd_rec and usmart_exe: what the line in buf stands for is run.
Run(fn) == buf \in Texts /\ Command[buf].fn = fn

Execute ==
  /\ hpc = "exec"
  /\ \/ /\ Run("delay_ms")
        /\ hleft' = Command[buf].n /\ hdue' = Command[buf].n
        /\ hpc' = "chunk"
        /\ UNCHANGED <<systick, stolen>>
     \/ /\ Run("delay_us")
        /\ SetLoad(Command[buf].n)
        /\ hleft' = 0 /\ hdue' = systick'.load /\ stolen' = TRUE
        /\ hpc' = "enable"
     \/ /\ ~Run("delay_ms") /\ ~Run("delay_us")
        /\ hpc' = "clear"
        /\ UNCHANGED <<systick, hleft, hdue, stolen>>
  /\ UNCHANGED <<serialVars, place, mpc, goal, mleft, due, keyVars, wireVars>>

\* delay_ms in the interrupt: the next delay_xms, or its end.
HChunk ==
  /\ hpc = "chunk"
  /\ IF hleft = 0
       THEN hpc' = "clear" /\ UNCHANGED <<systick, hleft, stolen>>
       ELSE /\ SetLoad(NextChunk(hleft))
            /\ hleft' = hleft - NextChunk(hleft)
            /\ stolen' = TRUE
            /\ hpc' = "enable"
  /\ UNCHANGED <<serialVars, place, mpc, goal, mleft, due, hdue, keyVars,
                 wireVars>>

HEnable == /\ hpc = "enable"
           /\ Enable
           /\ hpc' = "poll"
           /\ UNCHANGED <<serialVars, mainVars, hleft, hdue, keyVars, wireVars>>

HPoll == /\ hpc = "poll" /\ Over
         /\ Disable
         /\ hpc' = IF hleft = 0 THEN "clear" ELSE "chunk"
         /\ UNCHANGED <<serialVars, mainVars, hleft, hdue, keyVars, wireVars>>

\* Mutant: the line is dropped but its length stays.
MutFinishKeeps == /\ hpc = "clear"
                  /\ done' = FALSE /\ cr' = FALSE /\ UNCHANGED buf
                  /\ hpc' = "out"
                  /\ UNCHANGED <<systick, mainVars, hleft, hdue, keyVars, wireVars>>

\* USART_RX_STA = 0, and the interrupt returns.
Finish == /\ hpc = "clear"
          /\ Clear
          /\ hpc' = "out"
          /\ UNCHANGED <<systick, mainVars, hleft, hdue, keyVars, wireVars>>

Tim4 == Execute \/ HChunk \/ HEnable \/ HPoll \/ Finish

-----------------------------------------------------------------------------
(***************************************************************************)
(* main: KEY_Scan(0) and the pause, when no interrupt is active.           *)
(***************************************************************************)
At(l) == hpc = "out" /\ mpc = l

\* delay_ms(n) is called.
Delay(n, g) == /\ mpc' = "chunk" /\ goal' = g
               /\ mleft' = n /\ due' = n /\ stolen' = FALSE

\* Where a key reported leads: KEY1 from the menu to the remote address, KEY_UP
\* from there to the session (to the menu if memory lacks) and back, KEY2 to
\* the UDP session (likewise), which has no end; the others, and no key, nowhere.
Leads == [menu |-> {"menu", "ask", "udp"}, ask |-> {"ask", "tcp", "menu"},
          tcp  |-> {"tcp", "menu"}, udp |-> {"udp"}]

\* main goes on in loop p.  The remote address is asked for without a pause,
\* and the session after it begins with a scan.
GoOn(p) == /\ place' = p
           /\ IF p = "ask" \/ (place = "ask" /\ p = "tcp")
                THEN mpc' = "scan" /\ UNCHANGED <<goal, mleft, due, stolen>>
                ELSE Delay(Pause, "pause")

\* The first look at the keys.
KeyScan ==
  /\ At("scan") /\ place # "udp"
  /\ IF keyUp /\ pressed # {}
       THEN Delay(Debounce, "debounce") /\ UNCHANGED <<place, keyUp>>
       ELSE /\ keyUp' = (keyUp \/ pressed = {})
            /\ GoOn(place)
  /\ UNCHANGED <<systick, serialVars, tim4Vars, pressed, released, wireVars>>

\* What the second look reports and where it leads.
Report == \E p \in IF pressed = {} THEN {place} ELSE Leads[place] : GoOn(p)

\* Mutant: key_up is cleared only when a key was seen released meanwhile.
MutResampleKeepsUp ==
  /\ At("resample")
  /\ keyUp' = (pressed # {})
  /\ released' = (released /\ pressed = {})
  /\ Report
  /\ UNCHANGED <<systick, serialVars, tim4Vars, pressed, wireVars>>

\* Mutant: the key is looked at once, and key_up cleared only when it is.
MutResampleStuck ==
  /\ At("resample")
  /\ UNCHANGED <<keyUp, released>>
  /\ GoOn(place)
  /\ UNCHANGED <<systick, serialVars, tim4Vars, pressed, wireVars>>

\* The second look, after the delay: a key still down is reported.
Resample ==
  /\ At("resample")
  /\ keyUp' = FALSE
  /\ released' = (released /\ pressed = {})
  /\ Report
  /\ UNCHANGED <<systick, serialVars, tim4Vars, pressed, wireVars>>

\* The loop of udp_demo_test looks at no key.
UdpTurn ==
  /\ At("scan") /\ place = "udp"
  /\ Delay(Pause, "pause")
  /\ UNCHANGED <<systick, serialVars, place, tim4Vars, keyVars, wireVars>>

MChunk ==
  /\ At("chunk")
  /\ SetLoad(NextChunk(mleft))
  /\ mleft' = mleft - NextChunk(mleft)
  /\ mpc' = "enable"
  /\ UNCHANGED <<serialVars, place, goal, due, stolen, tim4Vars, keyVars,
                 wireVars>>

MEnable == /\ At("enable")
           /\ Enable
           /\ mpc' = "poll"
           /\ UNCHANGED <<serialVars, place, goal, mleft, due, stolen, tim4Vars,
                          keyVars, wireVars>>

MPoll == /\ At("poll") /\ Over
         /\ Disable
         /\ mpc' = IF mleft # 0 THEN "chunk"
                   ELSE IF goal = "debounce" THEN "resample" ELSE "scan"
         /\ UNCHANGED <<serialVars, place, goal, mleft, due, stolen, tim4Vars,
                        keyVars, wireVars>>

Main == KeyScan \/ Resample \/ UdpTurn \/ MChunk \/ MEnable \/ MPoll

-----------------------------------------------------------------------------
Next == Tick \/ Touch \/ Arrive \/ Usart1 \/ Scan \/ Tim4 \/ Main

(***************************************************************************)
(* Time passes, an interrupt that has begun goes on, and TIM4 comes only   *)
(* every 10 ms or more after it has returned, so main gets its turns.      *)
(***************************************************************************)
Spec == Init /\ [][Next]_vars /\ WF_vars(Tick) /\ WF_vars(Tim4) /\ SF_vars(Main)

-----------------------------------------------------------------------------
TypeOK ==
  /\ DelayTypeOK /\ SerialTypeOK
  /\ place \in DOMAIN Leads
  /\ mpc \in {"scan", "chunk", "enable", "poll", "resample"}
  /\ goal \in {"debounce", "pause"}
  /\ mleft \in Nat /\ due \in Nat /\ stolen \in BOOLEAN
  /\ hpc \in {"out", "exec", "chunk", "enable", "poll", "clear"}
  /\ hleft \in Nat /\ hdue \in Nat
  /\ keyUp \in BOOLEAN /\ pressed \subseteq Keys /\ released \in BOOLEAN
  /\ dr \in Char \cup {CR, LF, Nothing}
  /\ line \in Texts /\ pos \in 0 .. Len(line) + 1
  /\ clean \in 0 .. 2 /\ sent \in Texts \cup {Nothing}

\* Delays: one of main lasts its time unless a command delayed meanwhile, and
\* one of a command always does, though the two share SysTick and a command
\* that ends stops the counter under main.
DelaysLast == /\ hpc = "out" /\ mpc \in {"scan", "resample"} => due = 0 \/ stolen
              /\ hpc = "clear" => hdue = 0

\* What the receiver makes of a text: each RecLen characters are thrown away.
Kept(text) == SubSeq(text, (Len(text) \div RecLen) * RecLen + 1, Len(text))

\* Lines: whatever was lost before (a full data register, a line that came while
\* usmart was busy), two lines on the receiver is in step again and hands over
\* the line as it was sent.
LineWhole == done /\ sent # Nothing => buf = Kept(sent)

\* Keys: a key that stays down is reported once.
OneReport == [][Resample /\ pressed # {} => released]_vars

\* delay_us(0), or a multiple of what LOAD holds, never counts and never ends.
Hung == hpc = "poll" /\ systick.load = 0

\* Keys: one that is down while key_up is set is reported, unless it is let go
\* in time, a command never returns, or main is in the UDP session, which looks
\* at no key (udp_demo.c:120-146).
HeldIsReported == keyUp /\ released /\ pressed # {} ~>
                    pressed = {} \/ ~released \/ Hung \/ place = "udp"

\* Delays: main comes back for ever to the head of the loop it is in, whatever
\* commands delay in the interrupt and stop the counter main is waiting for.
MainReturns == <>[]Hung \/ []<>(mpc = "scan" /\ hpc = "out")
=============================================================================
