----------------------------- MODULE Dhcp_proof -----------------------------
(***************************************************************************)
(* The wait for an address, for every set of leases, every term and all    *)
(* widths of the counters.  The argument: until main has an address the    *)
(* client is in one of the states before BOUND, with no configuration and  *)
(* both lease timers at rest, or main has just bound a lease and is        *)
(* reading it; nothing takes such a lease away, because its timers are     *)
(* served by main alone.  So the three reads see one configuration, main's *)
(* limit of tries comes before the client's own, and the request timer     *)
(* stays armed.  And an address on its way to dhcp_bind has not been       *)
(* declined since it was granted.                                          *)
(***************************************************************************)
EXTENDS Dhcp, TLAPS

\* The states before the address is in use.
Early  == {"SELECTING", "REQUESTING", "CHECKING", "BACKING_OFF"}
Sends  == pc \in {"build", "send"}
Reads  == pc \in {"handle", "mask", "gw"}

\* What main is doing, and for whom.
MainInv ==
  /\ Sends => msg # "none"
  /\ pc \notin {"build", "send", "fault"} => msg = "none"
  /\ pc \in {"expired", "check", "bind"} => caller = "fine"
  /\ Sends => caller # "none"
  /\ Reads => ~Configured
  /\ pc = "ask" => Configured
  /\ pc \in {"mask", "gw"} => status = "wait" /\ reg.ip = ifc.ip
  /\ pc = "gw" => reg.mask = ifc.mask
  /\ pc = "rest" => status = "static"
  /\ caller = "start" => status = "start" /\ pc \in {"build", "send", "fault"}
  /\ caller = "start" /\ pc # "fault" =>
       /\ tries = 0 /\ asked = {} /\ msg = "discover"
       /\ st = IF pc = "build" THEN "OFF" ELSE "SELECTING"

\* While main waits for an address.
WaitInv == ~Configured =>
  /\ shown = All(Static)
  /\ msg \in {"discover", "select", "none"} /\ caller # "coarse"
  /\ up \/ nakked
  /\ tries <= IF Reads THEN 5 ELSE 4
  /\ status = "start" => /\ pc # "bind"
                         /\ pc \in {"idle", "expired"} /\ st = "CHECKING" => tries <= 1
  /\ \/ ifc = All(None) /\ st \in Early \cup {"OFF"} /\ t1 = 0 /\ t2 = 0
     \/ /\ ifc = All(ifc.ip) /\ ifc.ip # None
        /\ st = "BOUND" /\ Reads /\ status = "wait"
  /\ st = "OFF" => ~pcb \/ (pc = "build" /\ caller = "start")
  /\ status = "wait" /\ ifc.ip = None /\ (Reads \/ pc = "idle") =>
       armed \/ ~pcb \/ badOffer

\* The offered lease.
OfferInv ==
  LET Fresh == off \in Leases /\ (off = declined.lease => declined.late)
  IN  /\ st = "CHECKING" => Fresh
      /\ pc \in {"check", "bind"} => Fresh /\ st \in {"CHECKING", "BACKING_OFF"}
      /\ st \in Early => ifc.ip \notin Leases
      /\ st = "OFF" /\ ifc.ip \in Leases => pc \in {"send", "fault"} /\ msg = "release"
      /\ pc = "send" /\ msg = "release" => st = "OFF"
      /\ Sends /\ msg \in {"discover", "select"} => st \in Early \cup {"OFF"}

DInv == /\ TypeOK /\ MainInv /\ WaitInv /\ OfferInv
        /\ ShownWhole /\ DeclinedNotUsed

-----------------------------------------------------------------------------
(* The types, by the groups of variables a step changes together.          *)

MainTypes   == /\ pc \in {"idle", "expired", "build", "send", "check", "bind",
                          "handle", "mask", "gw", "rest", "ask", "fault"}
               /\ caller \in {"fine", "coarse", "start", "none"}
               /\ msg \in Kinds \cup {"none"}
               /\ reg \in [ip : Configs, mask : Configs]
AppTypes    == /\ status \in {"start", "wait", "leased", "static"}
               /\ shown \in [ip : Configs, mask : Configs, gw : Configs]
ClientTypes == st \in States /\ tries \in 0 .. U8 - 1 /\ off \in Leases \cup {None}
AskedType   == asked \subseteq {"discover", "request"}
TimerTypes  == t1 \in 0 .. U16 - 1 /\ t2 \in 0 .. U16 - 1
FlagTypes   == /\ armed \in BOOLEAN /\ pcb \in BOOLEAN /\ pOut \in BOOLEAN
               /\ up \in BOOLEAN /\ nakked \in BOOLEAN /\ badOffer \in BOOLEAN
OtherTypes  == /\ ifc \in [ip : Configs, mask : Configs, gw : Configs]
               /\ fails \in 0 .. MaxFail
               /\ declined \in [lease : Leases \cup {None}, late : BOOLEAN]

LEMMA TypeParts ==
  /\ TypeOK <=> /\ MainTypes /\ AppTypes /\ ClientTypes /\ AskedType
                /\ TimerTypes /\ FlagTypes /\ OtherTypes
  /\ TypeOK' <=> /\ MainTypes' /\ AppTypes' /\ ClientTypes' /\ AskedType'
                 /\ TimerTypes' /\ FlagTypes' /\ OtherTypes'
BY Zenon DEF TypeOK, MainTypes, AppTypes, ClientTypes, TimerTypes, AskedType,
   FlagTypes, OtherTypes

\* The assumption, as a fact.
LEMMA Apart == /\ Static \notin Leases /\ None \notin Leases /\ None # Static
               /\ U8 \in Nat /\ U8 > 9 /\ U16 \in Nat /\ U16 > 2
               /\ Renew \in [Leases -> 0 .. U16] /\ Rebind \in [Leases -> 0 .. U16]
               /\ MaxFail \in Nat
BY DhcpAssumption

\* tries++ stays in its u8, and does not wrap below the limits it is held to.
LEMMA MoreRange ==
  \A n \in 0 .. U8 - 1 : More(n) \in 0 .. U8 - 1 /\ (n < 9 => More(n) = n + 1)
<1>1. U8 \in Nat /\ U8 > 9
      BY DhcpAssumption
<1>2. \A m \in Nat \ {0} : \A k \in Nat :
        k % m \in 0 .. m - 1 /\ (k < m => k % m = k)
      OBVIOUS
<1>3. SUFFICES ASSUME NEW n \in 0 .. U8 - 1
               PROVE  More(n) \in 0 .. U8 - 1 /\ (n < 9 => More(n) = n + 1)
      OBVIOUS
<1>4. n + 1 \in Nat /\ (n < 9 => n + 1 < U8) /\ U8 \in Nat \ {0}
      BY <1>1
<1>5. (n + 1) % U8 \in 0 .. U8 - 1 /\ (n + 1 < U8 => (n + 1) % U8 = n + 1)
      BY <1>2, <1>4
<1> QED BY <1>4, <1>5 DEF More

LEMMA TriesRange == ClientTypes => \A s \in States : TriesIn(s) \in 0 .. U8 - 1
BY Apart DEF ClientTypes, TriesIn

LEMMA StateRange == \A k \in Kinds : StateOf(k) \in States
BY DEF Kinds, StateOf, States

\* A timer of a lease stays in its u16, and at rest before there is an address.
LEMMA DownRange ==
  \A t \in 0 .. U16 - 1 :
    Down(t) \in 0 .. U16 - 1 /\ (~Configured /\ t = 0 => Down(t) = 0)
<1>1. U16 \in Nat /\ U16 > 2
      BY DhcpAssumption
<1>2. \A m \in Nat \ {0} : \A n \in Int : n % m \in 0 .. m - 1
      OBVIOUS
<1> QED BY <1>1, <1>2 DEF Down

-----------------------------------------------------------------------------
(* Each step keeps the invariant.                                          *)

\* A fine tick that only counts.
LEMMA CountKeeps ==
  ASSUME DInv, Count
  PROVE  DInv'
<1>1. /\ MainTypes /\ AppTypes /\ ClientTypes /\ AskedType /\ TimerTypes
      /\ FlagTypes /\ OtherTypes
      /\ MainInv /\ WaitInv /\ OfferInv /\ ShownWhole /\ DeclinedNotUsed
      BY TypeParts DEF DInv
<1>2. TypeOK'
  <2>1. MainTypes'
        BY <1>1 DEF Count, AfterFine, MainTypes
  <2>2. AppTypes'
        BY <1>1 DEF Count, appVars, AppTypes
  <2>3. ClientTypes'
        BY <1>1 DEF Count, AfterFine, clientVars, ClientTypes
  <2>4. AskedType'
        BY <1>1 DEF Count, clientVars, AskedType
  <2>5. TimerTypes'
        BY <1>1 DEF Count, AfterFine, clientVars, TimerTypes
  <2>6. FlagTypes'
        BY <1>1, Zenon DEF Count, AfterFine, clientVars, ifcVars, histVars,
           FlagTypes
  <2>7. OtherTypes'
        BY <1>1 DEF Count, ifcVars, histVars, OtherTypes
  <2> QED BY <2>1, <2>2, <2>3, <2>4, <2>5, <2>6, <2>7, TypeParts
<1>3. MainInv'
      BY <1>1 DEF Count, AfterFine, Configured, appVars, MainInv, Sends, Reads
<1>4. WaitInv'
      BY <1>1 DEF Count, AfterFine, Configured, appVars, clientVars, ifcVars,
         histVars, ClientTypes, WaitInv, Reads
<1>5. OfferInv'
      BY <1>1 DEF Count, AfterFine, clientVars, ifcVars, histVars, OfferInv,
         Sends
<1>6. ShownWhole'
      BY <1>1 DEF Count, appVars, ShownWhole
<1>7. DeclinedNotUsed'
      BY <1>1 DEF Count, ifcVars, histVars, DeclinedNotUsed
<1> QED BY <1>2, <1>3, <1>4, <1>5, <1>6, <1>7 DEF DInv

\* The request timeout expires: main enters dhcp_timeout.
LEMMA ExpireKeeps ==
  ASSUME DInv, Expire
  PROVE  DInv'
<1>1. /\ MainTypes /\ AppTypes /\ ClientTypes /\ AskedType /\ TimerTypes
      /\ FlagTypes /\ OtherTypes
      /\ MainInv /\ WaitInv /\ OfferInv /\ ShownWhole /\ DeclinedNotUsed
      BY TypeParts DEF DInv
<1>2. TypeOK'
  <2>1. MainTypes'
        BY <1>1 DEF Expire, MainTypes
  <2>2. AppTypes'
        BY <1>1 DEF Expire, appVars, AppTypes
  <2>3. ClientTypes'
        BY <1>1 DEF Expire, ClientTypes
  <2>4. AskedType'
        BY <1>1 DEF Expire, AskedType
  <2>5. TimerTypes'
        BY <1>1 DEF Expire, TimerTypes
  <2>6. FlagTypes'
        BY <1>1, Zenon DEF Expire, ifcVars, histVars, FlagTypes
  <2>7. OtherTypes'
        BY <1>1 DEF Expire, ifcVars, histVars, OtherTypes
  <2> QED BY <2>1, <2>2, <2>3, <2>4, <2>5, <2>6, <2>7, TypeParts
<1>3. MainInv'
      BY <1>1 DEF Expire, MainInv, Sends, Reads
<1>4. WaitInv'
      BY <1>1 DEF Expire, Configured, appVars, ifcVars, histVars, WaitInv,
         Reads
<1>5. OfferInv'
      BY <1>1 DEF Expire, ifcVars, histVars, OfferInv, Sends
<1>6. ShownWhole'
      BY <1>1 DEF Expire, appVars, ShownWhole
<1>7. DeclinedNotUsed'
      BY <1>1 DEF Expire, ifcVars, histVars, ClientTypes, DeclinedNotUsed
<1> QED BY <1>2, <1>3, <1>4, <1>5, <1>6, <1>7 DEF DInv

\* dhcp_timeout looks at the state and goes on.
LEMMA DhcpTimeoutKeeps ==
  ASSUME DInv, DhcpTimeout
  PROVE  DInv'
<1>1. /\ MainTypes /\ AppTypes /\ ClientTypes /\ AskedType /\ TimerTypes
      /\ FlagTypes /\ OtherTypes
      /\ MainInv /\ WaitInv /\ OfferInv /\ ShownWhole /\ DeclinedNotUsed
      BY TypeParts DEF DInv
<1>2. TypeOK'
  <2>1. MainTypes'
        BY <1>1 DEF DhcpTimeout, AfterFine, Resend, MainTypes, Kinds
  <2>2. AppTypes'
        BY <1>1 DEF DhcpTimeout, appVars, AppTypes
  <2>3. ClientTypes'
        BY <1>1 DEF DhcpTimeout, clientVars, ClientTypes
  <2>4. AskedType'
        BY <1>1 DEF DhcpTimeout, AfterFine, clientVars, AskedType
  <2>5. TimerTypes'
        BY <1>1 DEF DhcpTimeout, clientVars, TimerTypes
  <2>6. FlagTypes'
        BY <1>1, Zenon DEF DhcpTimeout, AfterFine, clientVars, ifcVars,
           histVars, FlagTypes
  <2>7. OtherTypes'
        BY <1>1 DEF DhcpTimeout, AfterFine, ifcVars, histVars, OtherTypes
  <2> QED BY <2>1, <2>2, <2>3, <2>4, <2>5, <2>6, <2>7, TypeParts
<1>3. MainInv'
      BY <1>1 DEF DhcpTimeout, AfterFine, Configured, appVars, MainInv, Sends,
         Reads
<1>4. WaitInv'
      BY <1>1 DEF DhcpTimeout, AfterFine, Resend, Configured, appVars,
         clientVars, ifcVars, histVars, ClientTypes, WaitInv, Reads, Early
<1>5. OfferInv'
      BY <1>1 DEF DhcpTimeout, AfterFine, Resend, clientVars, ifcVars,
         histVars, OfferInv, Sends, Early
<1>6. ShownWhole'
      BY <1>1 DEF DhcpTimeout, appVars, ShownWhole
<1>7. DeclinedNotUsed'
      BY <1>1 DEF DhcpTimeout, ifcVars, histVars, DeclinedNotUsed
<1> QED BY <1>2, <1>3, <1>4, <1>5, <1>6, <1>7 DEF DInv

\* A coarse tick; while main waits for an address the two timers are at rest.
LEMMA CoarseTmrKeeps ==
  ASSUME DInv, CoarseTmr
  PROVE  DInv'
<1>1. /\ MainTypes /\ AppTypes /\ ClientTypes /\ AskedType /\ TimerTypes
      /\ FlagTypes /\ OtherTypes
      /\ MainInv /\ WaitInv /\ OfferInv /\ ShownWhole /\ DeclinedNotUsed
      BY TypeParts DEF DInv
<1>2. TypeOK'
  <2>1. MainTypes'
        BY <1>1 DEF CoarseTmr, MainTypes, Kinds
  <2>2. AppTypes'
        BY <1>1 DEF CoarseTmr, appVars, AppTypes
  <2>3. ClientTypes'
        BY <1>1 DEF CoarseTmr, ClientTypes
  <2>4. AskedType'
        BY <1>1 DEF CoarseTmr, AskedType
  <2>5. TimerTypes'
        BY <1>1, DownRange DEF CoarseTmr, TimerTypes
  <2>6. FlagTypes'
        BY <1>1, Zenon DEF CoarseTmr, ifcVars, histVars, FlagTypes
  <2>7. OtherTypes'
        BY <1>1 DEF CoarseTmr, ifcVars, histVars, OtherTypes
  <2> QED BY <2>1, <2>2, <2>3, <2>4, <2>5, <2>6, <2>7, TypeParts
<1>3. MainInv'
      BY <1>1 DEF CoarseTmr, MainInv, Sends, Reads
<1>4. WaitInv'
      BY <1>1, DownRange DEF CoarseTmr, Configured, appVars, ifcVars, histVars,
         TimerTypes, WaitInv, Reads
<1>5. OfferInv'
      BY <1>1 DEF CoarseTmr, ifcVars, histVars, OfferInv, Sends
<1>6. ShownWhole'
      BY <1>1 DEF CoarseTmr, appVars, ShownWhole
<1>7. DeclinedNotUsed'
      BY <1>1 DEF CoarseTmr, ifcVars, histVars, DeclinedNotUsed
<1> QED BY <1>2, <1>3, <1>4, <1>5, <1>6, <1>7 DEF DInv

\* A message is built, or no pbuf is found for it. Before there is an address
\* it is a DISCOVER or a REQUEST of an offer, so the interface stays up.
LEMMA BuildKeeps ==
  ASSUME DInv, Build
  PROVE  DInv'
<1>1. /\ MainTypes /\ AppTypes /\ ClientTypes /\ AskedType /\ TimerTypes
      /\ FlagTypes /\ OtherTypes
      /\ MainInv /\ WaitInv /\ OfferInv /\ ShownWhole /\ DeclinedNotUsed
      BY TypeParts DEF DInv
<1>2. msg \in Kinds
      BY <1>1 DEF MainTypes, MainInv, Sends, Build
<1>3. StateOf(msg) \in States /\ TriesIn(StateOf(msg)) \in 0 .. U8 - 1
      BY <1>2, <1>1, TriesRange, StateRange
<1>4. st' \in States /\ tries' \in 0 .. U8 - 1
      BY <1>3, Apart, MoreRange DEF Build, Create, CreateFails, Stopped, States
<1>5. TypeOK'
  <2>1. MainTypes'
        BY <1>1 DEF Build, Create, CreateFails, Stopped, Finished, AfterFine,
           MainTypes, Kinds
  <2>2. AppTypes'
        BY <1>1 DEF Build, Create, CreateFails, Stopped, Finished, AppTypes
  <2>3. ClientTypes'
        BY <1>1, <1>4 DEF Build, ClientTypes
  <2>4. AskedType'
        BY <1>1 DEF Build, Create, CreateFails, StateOf, AskedType
  <2>5. TimerTypes'
        BY <1>1 DEF Build, TimerTypes
  <2>6. FlagTypes'
        BY <1>1, Zenon DEF Build, Create, CreateFails, Stopped, Finished,
           ArmedIn, FlagTypes
  <2>7. OtherTypes'
        BY <1>1, Apart DEF Build, Create, CreateFails, Stopped, Finished, All,
           OtherTypes, Configs
  <2> QED BY <2>1, <2>2, <2>3, <2>4, <2>5, <2>6, <2>7, TypeParts
<1>6. MainInv'
      BY <1>1 DEF Build, Create, CreateFails, Stopped, Finished, AfterFine,
         StateOf, TriesIn, Configured, MainInv, Sends, Reads
<1>7. WaitInv'
      BY <1>1, MoreRange, <1>4, TriesRange DEF Build, Create, CreateFails,
         Stopped, Finished, AfterFine, StateOf, TriesIn, All, Configured,
         MainTypes, MainInv, WaitInv, Sends, Reads, Early
<1>8. OfferInv'
      BY <1>1, Apart DEF Build, Create, CreateFails, Stopped, Finished,
         AfterFine, StateOf, All, MainTypes, Kinds, MainInv, OfferInv, Sends,
         Early
<1>9. ShownWhole'
      BY <1>1 DEF Build, ShownWhole
<1>10. DeclinedNotUsed'
      BY <1>1 DEF Build, Create, CreateFails, Stopped, Finished, All,
         DeclinedNotUsed
<1> QED BY <1>5, <1>6, <1>7, <1>8, <1>9, <1>10 DEF DInv

\* The message is sent and the caller goes on.
LEMMA SendKeeps ==
  ASSUME DInv, Send
  PROVE  DInv'
<1>1. /\ MainTypes /\ AppTypes /\ ClientTypes /\ AskedType /\ TimerTypes
      /\ FlagTypes /\ OtherTypes
      /\ MainInv /\ WaitInv /\ OfferInv /\ ShownWhole /\ DeclinedNotUsed
      BY TypeParts DEF DInv
<1>2. TypeOK'
  <2>1. MainTypes'
        BY <1>1 DEF Send, Finished, AfterFine, MainTypes, Kinds
  <2>2. AppTypes'
        BY <1>1 DEF Send, Finished, AppTypes
  <2>3. ClientTypes'
        BY <1>1, MoreRange DEF Send, ClientTypes
  <2>4. AskedType'
        BY <1>1 DEF Send, Asks, AskedType
  <2>5. TimerTypes'
        BY <1>1 DEF Send, TimerTypes
  <2>6. FlagTypes'
        BY <1>1, Zenon DEF Send, Finished, histVars, FlagTypes
  <2>7. OtherTypes'
        BY <1>1 DEF Send, Finished, All, histVars, OtherTypes, Configs
  <2> QED BY <2>1, <2>2, <2>3, <2>4, <2>5, <2>6, <2>7, TypeParts
<1>3. MainInv'
      BY <1>1 DEF Send, Finished, AfterFine, Configured, MainInv, Sends, Reads
<1>4. WaitInv'
      BY <1>1, MoreRange DEF Send, Finished, AfterFine, Configured, histVars,
         MainTypes, ClientTypes, MainInv, WaitInv, Sends, Reads
<1>5. OfferInv'
      BY <1>1, Apart DEF Send, Finished, AfterFine, All, histVars, OfferInv
<1>6. ShownWhole'
      BY <1>1 DEF Send, ShownWhole
<1>7. DeclinedNotUsed'
      BY <1>1 DEF Send, Finished, All, histVars, DeclinedNotUsed
<1> QED BY <1>2, <1>3, <1>4, <1>5, <1>6, <1>7 DEF DInv

\* Main writes through a null pointer; nothing else changes.
LEMMA SendNothingKeeps ==
  ASSUME DInv, SendNothing
  PROVE  DInv'
<1>1. /\ MainTypes /\ AppTypes /\ ClientTypes /\ AskedType /\ TimerTypes
      /\ FlagTypes /\ OtherTypes
      /\ MainInv /\ WaitInv /\ OfferInv /\ ShownWhole /\ DeclinedNotUsed
      BY TypeParts DEF DInv
<1>2. TypeOK'
  <2>1. MainTypes'
        BY <1>1 DEF SendNothing, MainTypes
  <2>2. AppTypes'
        BY <1>1 DEF SendNothing, appVars, AppTypes
  <2>3. ClientTypes'
        BY <1>1 DEF SendNothing, clientVars, ClientTypes
  <2>4. AskedType'
        BY <1>1 DEF SendNothing, clientVars, AskedType
  <2>5. TimerTypes'
        BY <1>1 DEF SendNothing, clientVars, TimerTypes
  <2>6. FlagTypes'
        BY <1>1, Zenon DEF SendNothing, clientVars, ifcVars, histVars,
           FlagTypes
  <2>7. OtherTypes'
        BY <1>1 DEF SendNothing, ifcVars, histVars, OtherTypes
  <2> QED BY <2>1, <2>2, <2>3, <2>4, <2>5, <2>6, <2>7, TypeParts
<1>3. MainInv'
      BY <1>1 DEF SendNothing, appVars, MainInv, Sends, Reads
<1>4. WaitInv'
      BY <1>1 DEF SendNothing, Configured, appVars, clientVars, ifcVars,
         histVars, WaitInv, Reads
<1>5. OfferInv'
      BY <1>1 DEF SendNothing, clientVars, ifcVars, histVars, OfferInv, Sends
<1>6. ShownWhole'
      BY <1>1 DEF SendNothing, appVars, ShownWhole
<1>7. DeclinedNotUsed'
      BY <1>1 DEF SendNothing, ifcVars, histVars, DeclinedNotUsed
<1> QED BY <1>2, <1>3, <1>4, <1>5, <1>6, <1>7 DEF DInv

\* dhcp_check asks again for an address that is not declined.
LEMMA CheckKeeps ==
  ASSUME DInv, Check
  PROVE  DInv'
<1>1. /\ MainTypes /\ AppTypes /\ ClientTypes /\ AskedType /\ TimerTypes
      /\ FlagTypes /\ OtherTypes
      /\ MainInv /\ WaitInv /\ OfferInv /\ ShownWhole /\ DeclinedNotUsed
      BY TypeParts DEF DInv
<1>2. TypeOK'
  <2>1. MainTypes'
        BY <1>1 DEF Check, AfterFine, MainTypes
  <2>2. AppTypes'
        BY <1>1 DEF Check, appVars, AppTypes
  <2>3. ClientTypes'
        BY <1>1, Apart, MoreRange DEF Check, TriesIn, ClientTypes, States
  <2>4. AskedType'
        BY <1>1 DEF Check, AskedType
  <2>5. TimerTypes'
        BY <1>1 DEF Check, TimerTypes
  <2>6. FlagTypes'
        BY <1>1, Zenon DEF Check, TriesIn, ifcVars, histVars, FlagTypes
  <2>7. OtherTypes'
        BY <1>1 DEF Check, ifcVars, histVars, OtherTypes
  <2> QED BY <2>1, <2>2, <2>3, <2>4, <2>5, <2>6, <2>7, TypeParts
<1>3. MainInv'
      BY <1>1 DEF Check, AfterFine, Configured, appVars, MainInv, Sends, Reads
<1>4. WaitInv'
      BY <1>1, Apart, MoreRange DEF Check, TriesIn, AfterFine, Configured,
         appVars, ifcVars, histVars, ClientTypes, WaitInv, Reads, Early
<1>5. OfferInv'
      BY <1>1 DEF Check, AfterFine, ifcVars, histVars, OfferInv, Early
<1>6. ShownWhole'
      BY <1>1 DEF Check, appVars, ShownWhole
<1>7. DeclinedNotUsed'
      BY <1>1 DEF Check, ifcVars, histVars, DeclinedNotUsed
<1> QED BY <1>2, <1>3, <1>4, <1>5, <1>6, <1>7 DEF DInv

\* dhcp_bind from main, which then goes straight on to look for the address.
LEMMA BindKeeps ==
  ASSUME DInv, Bind
  PROVE  DInv'
<1>1. /\ MainTypes /\ AppTypes /\ ClientTypes /\ AskedType /\ TimerTypes
      /\ FlagTypes /\ OtherTypes
      /\ MainInv /\ WaitInv /\ OfferInv /\ ShownWhole /\ DeclinedNotUsed
      BY TypeParts DEF DInv
<1>2. TypeOK'
  <2>1. MainTypes'
        BY <1>1 DEF Bind, AfterFine, MainTypes
  <2>2. AppTypes'
        BY <1>1 DEF Bind, appVars, AppTypes
  <2>3. ClientTypes'
        BY <1>1, Apart DEF Bind, DhcpBind, TriesIn, ClientTypes, States
  <2>4. AskedType'
        BY <1>1 DEF Bind, AskedType
  <2>5. TimerTypes'
        BY <1>1, Apart DEF Bind, DhcpBind, Timer, Forever, histVars,
           ClientTypes, TimerTypes, FlagTypes, Kinds
  <2>6. FlagTypes'
        BY <1>1, Zenon DEF Bind, DhcpBind, ArmedIn, histVars, FlagTypes
  <2>7. OtherTypes'
        BY <1>1 DEF Bind, DhcpBind, All, histVars, ClientTypes, OtherTypes,
           Configs
  <2> QED BY <2>1, <2>2, <2>3, <2>4, <2>5, <2>6, <2>7, TypeParts
<1>3. MainInv'
      BY <1>1 DEF Bind, AfterFine, Configured, appVars, MainInv, Sends, Reads
<1>4. WaitInv'
      BY <1>1 DEF Bind, DhcpBind, TriesIn, AfterFine, All, Configured, appVars,
         AppTypes, WaitInv, OfferInv, Reads
<1>5. OfferInv'
      BY DEF Bind, DhcpBind, AfterFine, OfferInv, Sends, Early
<1>6. ShownWhole'
      BY <1>1 DEF Bind, appVars, ShownWhole
<1>7. DeclinedNotUsed'
      BY <1>1 DEF Bind, DhcpBind, All, histVars, DeclinedNotUsed, OfferInv
<1> QED BY <1>2, <1>3, <1>4, <1>5, <1>6, <1>7 DEF DInv

\* dhcp_start on a client that has already been started.
LEMMA RestartKeeps ==
  ASSUME DInv, Restart
  PROVE  DInv'
<1>1. /\ MainTypes /\ AppTypes /\ ClientTypes /\ AskedType /\ TimerTypes
      /\ FlagTypes /\ OtherTypes
      /\ MainInv /\ WaitInv /\ OfferInv /\ ShownWhole /\ DeclinedNotUsed
      BY TypeParts DEF DInv
<1>2. TypeOK'
  <2>1. MainTypes'
        BY <1>1, Apart DEF Restart, MainTypes, Kinds
  <2>2. AppTypes'
        BY <1>1 DEF Restart, appVars, AppTypes
  <2>3. ClientTypes'
        BY Apart DEF Restart, ClientTypes, States
  <2>4. AskedType'
        BY DEF Restart, AskedType
  <2>5. TimerTypes'
        BY Apart DEF Restart, TimerTypes
  <2>6. FlagTypes'
        BY <1>1, Zenon DEF Restart, ifcVars, histVars, FlagTypes
  <2>7. OtherTypes'
        BY <1>1 DEF Restart, ifcVars, histVars, OtherTypes
  <2> QED BY <2>1, <2>2, <2>3, <2>4, <2>5, <2>6, <2>7, TypeParts
<1>3. MainInv'
      BY DEF Restart, appVars, MainInv, Reads
<1>4. WaitInv'
      BY <1>1 DEF Restart, Configured, appVars, ifcVars, histVars, WaitInv
<1>5. OfferInv'
      BY <1>1 DEF Restart, Configured, ifcVars, WaitInv, OfferInv
<1>6. ShownWhole'
      BY <1>1 DEF Restart, appVars, ShownWhole
<1>7. DeclinedNotUsed'
      BY <1>1 DEF Restart, ifcVars, histVars, DeclinedNotUsed
<1> QED BY <1>2, <1>3, <1>4, <1>5, <1>6, <1>7 DEF DInv

\* The first of the three reads.
LEMMA ReadIpKeeps ==
  ASSUME DInv, ReadIp
  PROVE  DInv'
<1>1. /\ MainTypes /\ AppTypes /\ ClientTypes /\ AskedType /\ TimerTypes
      /\ FlagTypes /\ OtherTypes
      /\ MainInv /\ WaitInv /\ OfferInv /\ ShownWhole /\ DeclinedNotUsed
      BY TypeParts DEF DInv
<1>2. TypeOK'
  <2>1. MainTypes'
        BY <1>1 DEF ReadIp, MainTypes, OtherTypes
  <2>2. AppTypes'
        BY <1>1, Apart DEF ReadIp, appVars, AppTypes
  <2>3. ClientTypes'
        BY <1>1 DEF ReadIp, clientVars, ClientTypes
  <2>4. AskedType'
        BY <1>1 DEF ReadIp, clientVars, AskedType
  <2>5. TimerTypes'
        BY <1>1 DEF ReadIp, clientVars, TimerTypes
  <2>6. FlagTypes'
        BY <1>1, Apart, Zenon DEF ReadIp, clientVars, ifcVars, histVars,
           FlagTypes
  <2>7. OtherTypes'
        BY <1>1 DEF ReadIp, ifcVars, histVars, OtherTypes
  <2> QED BY <2>1, <2>2, <2>3, <2>4, <2>5, <2>6, <2>7, TypeParts
<1>3. MainInv'
      BY <1>1 DEF ReadIp, Configured, appVars, ifcVars, MainInv, Sends
<1>4. WaitInv'
      BY <1>1 DEF ReadIp, Configured, appVars, clientVars, ifcVars, histVars,
         WaitInv, Reads
<1>5. OfferInv'
      BY <1>1 DEF ReadIp, clientVars, ifcVars, histVars, OfferInv, Sends
<1>6. ShownWhole'
      BY <1>1 DEF ReadIp, appVars, ShownWhole
<1>7. DeclinedNotUsed'
      BY <1>1 DEF ReadIp, ifcVars, histVars, DeclinedNotUsed
<1> QED BY <1>2, <1>3, <1>4, <1>5, <1>6, <1>7 DEF DInv

\* The second.
LEMMA ReadMaskKeeps ==
  ASSUME DInv, ReadMask
  PROVE  DInv'
<1>1. /\ MainTypes /\ AppTypes /\ ClientTypes /\ AskedType /\ TimerTypes
      /\ FlagTypes /\ OtherTypes
      /\ MainInv /\ WaitInv /\ OfferInv /\ ShownWhole /\ DeclinedNotUsed
      BY TypeParts DEF DInv
<1>2. TypeOK'
  <2>1. MainTypes'
        BY <1>1 DEF ReadMask, MainTypes, OtherTypes
  <2>2. AppTypes'
        BY <1>1 DEF ReadMask, appVars, AppTypes
  <2>3. ClientTypes'
        BY <1>1 DEF ReadMask, clientVars, ClientTypes
  <2>4. AskedType'
        BY <1>1 DEF ReadMask, clientVars, AskedType
  <2>5. TimerTypes'
        BY <1>1 DEF ReadMask, clientVars, TimerTypes
  <2>6. FlagTypes'
        BY <1>1, Zenon DEF ReadMask, clientVars, ifcVars, histVars, FlagTypes
  <2>7. OtherTypes'
        BY <1>1 DEF ReadMask, ifcVars, histVars, OtherTypes
  <2> QED BY <2>1, <2>2, <2>3, <2>4, <2>5, <2>6, <2>7, TypeParts
<1>3. MainInv'
      BY <1>1 DEF ReadMask, Configured, appVars, ifcVars, MainInv, Sends
<1>4. WaitInv'
      BY <1>1 DEF ReadMask, Configured, appVars, clientVars, ifcVars, histVars,
         ClientTypes, WaitInv, Reads
<1>5. OfferInv'
      BY <1>1 DEF ReadMask, clientVars, ifcVars, histVars, OfferInv, Sends
<1>6. ShownWhole'
      BY <1>1 DEF ReadMask, appVars, ShownWhole
<1>7. DeclinedNotUsed'
      BY <1>1 DEF ReadMask, ifcVars, histVars, DeclinedNotUsed
<1> QED BY <1>2, <1>3, <1>4, <1>5, <1>6, <1>7 DEF DInv

\* The third, and what was read is shown: all of one configuration.
LEMMA FoundKeeps ==
  ASSUME DInv, Found
  PROVE  DInv'
<1>1. /\ MainTypes /\ AppTypes /\ ClientTypes /\ AskedType /\ TimerTypes
      /\ FlagTypes /\ OtherTypes
      /\ MainInv /\ WaitInv /\ OfferInv /\ ShownWhole /\ DeclinedNotUsed
      BY TypeParts DEF DInv
<1>2. TypeOK'
  <2>1. MainTypes'
        BY <1>1 DEF Found, NoReg, MainTypes, Configs
  <2>2. AppTypes'
        BY <1>1 DEF Found, MainTypes, AppTypes, OtherTypes
  <2>3. ClientTypes'
        BY <1>1 DEF Found, clientVars, ClientTypes
  <2>4. AskedType'
        BY <1>1 DEF Found, clientVars, AskedType
  <2>5. TimerTypes'
        BY <1>1 DEF Found, Settled, clientVars, TimerTypes
  <2>6. FlagTypes'
        BY <1>1, DownRange, Zenon DEF Found, Settled, clientVars, ifcVars,
           FlagTypes
  <2>7. OtherTypes'
        BY <1>1 DEF Found, Settled, ifcVars, OtherTypes
  <2> QED BY <2>1, <2>2, <2>3, <2>4, <2>5, <2>6, <2>7, TypeParts
<1>3. MainInv'
      BY <1>1 DEF Found, MainInv, Sends, Reads
<1>4. WaitInv'
      BY DEF Found, Configured, WaitInv
<1>5. OfferInv'
      BY <1>1 DEF Found, Settled, clientVars, ifcVars, OfferInv, Sends
<1>6. ShownWhole'
      BY <1>1 DEF Found, All, ShownWhole, WaitInv, MainInv, Reads
<1>7. DeclinedNotUsed'
      BY <1>1 DEF Found, Settled, ifcVars, DeclinedNotUsed
<1> QED BY <1>2, <1>3, <1>4, <1>5, <1>6, <1>7 DEF DInv

\* The fall-back to the static address.
LEMMA GiveUpKeeps ==
  ASSUME DInv, GiveUp
  PROVE  DInv'
<1>1. /\ MainTypes /\ AppTypes /\ ClientTypes /\ AskedType /\ TimerTypes
      /\ FlagTypes /\ OtherTypes
      /\ MainInv /\ WaitInv /\ OfferInv /\ ShownWhole /\ DeclinedNotUsed
      BY TypeParts DEF DInv
<1>2. TypeOK'
  <2>1. MainTypes'
        BY <1>1 DEF GiveUp, NoReg, MainTypes
  <2>2. AppTypes'
        BY <1>1 DEF GiveUp, AppTypes
  <2>3. ClientTypes'
        BY <1>1 DEF GiveUp, clientVars, ClientTypes
  <2>4. AskedType'
        BY <1>1 DEF GiveUp, Settled, clientVars, AskedType
  <2>5. TimerTypes'
        BY <1>1 DEF GiveUp, NoReg, clientVars, TimerTypes
  <2>6. FlagTypes'
        BY <1>1, Zenon DEF GiveUp, Settled, clientVars, FlagTypes
  <2>7. OtherTypes'
        BY <1>1 DEF GiveUp, Settled, appVars, AppTypes, OtherTypes
  <2> QED BY <2>1, <2>2, <2>3, <2>4, <2>5, <2>6, <2>7, TypeParts
<1>3. MainInv'
      BY <1>1 DEF GiveUp, MainInv, Sends, Reads
<1>4. WaitInv'
      BY DEF GiveUp, Configured, WaitInv
<1>5. OfferInv'
      BY <1>1, Apart DEF GiveUp, Settled, All, clientVars, MainInv, WaitInv,
         OfferInv, Reads
<1>6. ShownWhole'
      BY <1>1 DEF GiveUp, ShownWhole
<1>7. DeclinedNotUsed'
      BY <1>1, Apart DEF GiveUp, Settled, All, Configured, OtherTypes,
         DeclinedNotUsed, WaitInv, MainInv
<1> QED BY <1>2, <1>3, <1>4, <1>5, <1>6, <1>7 DEF DInv

\* The rest of the static configuration.
LEMMA SetRestKeeps ==
  ASSUME DInv, SetRest
  PROVE  DInv'
<1>1. /\ MainTypes /\ AppTypes /\ ClientTypes /\ AskedType /\ TimerTypes
      /\ FlagTypes /\ OtherTypes
      /\ MainInv /\ WaitInv /\ OfferInv /\ ShownWhole /\ DeclinedNotUsed
      BY TypeParts DEF DInv
<1>2. TypeOK'
  <2>1. MainTypes'
        BY <1>1 DEF SetRest, MainTypes
  <2>2. AppTypes'
        BY <1>1 DEF SetRest, appVars, AppTypes
  <2>3. ClientTypes'
        BY <1>1 DEF SetRest, clientVars, ClientTypes
  <2>4. AskedType'
        BY <1>1 DEF SetRest, clientVars, AskedType
  <2>5. TimerTypes'
        BY <1>1 DEF SetRest, clientVars, TimerTypes
  <2>6. FlagTypes'
        BY <1>1, MoreRange, Zenon DEF SetRest, clientVars, histVars, FlagTypes
  <2>7. OtherTypes'
        BY <1>1 DEF SetRest, histVars, AppTypes, OtherTypes
  <2> QED BY <2>1, <2>2, <2>3, <2>4, <2>5, <2>6, <2>7, TypeParts
<1>3. MainInv'
      BY <1>1 DEF SetRest, MainTypes, MainInv, Sends, Reads
<1>4. WaitInv'
      BY <1>1 DEF SetRest, Configured, appVars, MainInv, WaitInv
<1>5. OfferInv'
      BY <1>1 DEF SetRest, clientVars, histVars, OfferInv, Sends
<1>6. ShownWhole'
      BY <1>1 DEF SetRest, appVars, ShownWhole
<1>7. DeclinedNotUsed'
      BY <1>1 DEF SetRest, histVars, DeclinedNotUsed
<1> QED BY <1>2, <1>3, <1>4, <1>5, <1>6, <1>7 DEF DInv

\* No address yet.
LEMMA KeepWaitingKeeps ==
  ASSUME DInv, KeepWaiting
  PROVE  DInv'
<1>1. /\ MainTypes /\ AppTypes /\ ClientTypes /\ AskedType /\ TimerTypes
      /\ FlagTypes /\ OtherTypes
      /\ MainInv /\ WaitInv /\ OfferInv /\ ShownWhole /\ DeclinedNotUsed
      BY TypeParts DEF DInv
<1>2. TypeOK'
  <2>1. MainTypes'
        BY <1>1 DEF KeepWaiting, NoReg, MainTypes
  <2>2. AppTypes'
        BY <1>1 DEF KeepWaiting, appVars, AppTypes
  <2>3. ClientTypes'
        BY <1>1 DEF KeepWaiting, clientVars, ClientTypes
  <2>4. AskedType'
        BY <1>1 DEF KeepWaiting, clientVars, AskedType
  <2>5. TimerTypes'
        BY <1>1 DEF KeepWaiting, clientVars, TimerTypes
  <2>6. FlagTypes'
        BY <1>1, Zenon DEF KeepWaiting, NoReg, clientVars, ifcVars, histVars,
           FlagTypes
  <2>7. OtherTypes'
        BY <1>1 DEF KeepWaiting, ifcVars, histVars, OtherTypes
  <2> QED BY <2>1, <2>2, <2>3, <2>4, <2>5, <2>6, <2>7, TypeParts
<1>3. MainInv'
      BY <1>1 DEF KeepWaiting, Configured, appVars, MainInv, Sends
<1>4. WaitInv'
      BY <1>1 DEF KeepWaiting, appVars, clientVars, ifcVars, histVars, MainInv,
         WaitInv, Reads, MaxTries
<1>5. OfferInv'
      BY <1>1 DEF KeepWaiting, clientVars, ifcVars, histVars, OfferInv, Sends
<1>6. ShownWhole'
      BY <1>1 DEF KeepWaiting, appVars, ShownWhole
<1>7. DeclinedNotUsed'
      BY <1>1 DEF KeepWaiting, ifcVars, histVars, MainTypes, DeclinedNotUsed
<1> QED BY <1>2, <1>3, <1>4, <1>5, <1>6, <1>7 DEF DInv

\* To the remote address and back: the client is left as it is.
LEMMA AskKeeps ==
  ASSUME DInv, Ask \/ Answer
  PROVE  DInv'
<1>1. /\ MainTypes /\ AppTypes /\ ClientTypes /\ AskedType /\ TimerTypes
      /\ FlagTypes /\ OtherTypes
      /\ MainInv /\ WaitInv /\ OfferInv /\ ShownWhole /\ DeclinedNotUsed
      BY TypeParts DEF DInv
<1>2. /\ pc \in {"idle", "ask"} /\ pc' \in {"idle", "ask"}
      /\ Configured /\ Configured'
      /\ UNCHANGED <<caller, msg, reg, appVars, clientVars, ifcVars, histVars>>
      BY <1>1 DEF Ask, Answer, MainInv, Configured, appVars
<1>3. TypeOK'
  <2>1. MainTypes'
        BY <1>1, <1>2 DEF MainTypes
  <2>2. AppTypes' /\ ClientTypes' /\ AskedType' /\ TimerTypes'
        BY <1>1, <1>2 DEF AppTypes, ClientTypes, AskedType, TimerTypes, appVars,
           clientVars
  <2>3. FlagTypes' /\ OtherTypes'
        BY <1>1, <1>2 DEF FlagTypes, OtherTypes, clientVars, ifcVars, histVars
  <2> QED BY <2>1, <2>2, <2>3, TypeParts
<1>4. MainInv'
      BY <1>1, <1>2 DEF MainInv, Sends, Reads
<1>5. WaitInv'
      BY <1>2 DEF WaitInv
<1>6. OfferInv'
      BY <1>1, <1>2 DEF OfferInv, Sends, clientVars, ifcVars, histVars
<1>7. ShownWhole' /\ DeclinedNotUsed'
      BY <1>1, <1>2 DEF ShownWhole, DeclinedNotUsed, appVars, ifcVars, histVars
<1> QED BY <1>3, <1>4, <1>5, <1>6, <1>7 DEF DInv

\* An OFFER is answered with a REQUEST.
LEMMA OfferKeeps ==
  ASSUME DInv, NEW l \in Leases, Offer(l)
  PROVE  DInv'
<1>1. /\ MainTypes /\ AppTypes /\ ClientTypes /\ AskedType /\ TimerTypes
      /\ FlagTypes /\ OtherTypes
      /\ MainInv /\ WaitInv /\ OfferInv /\ ShownWhole /\ DeclinedNotUsed
      BY TypeParts DEF DInv
<1>2. TypeOK'
  <2>1. MainTypes'
        BY <1>1 DEF Offer, mainVars, MainTypes
  <2>2. AppTypes'
        BY <1>1 DEF Offer, appVars, AppTypes
  <2>3. ClientTypes'
        BY Apart, MoreRange DEF Offer, IsrSend, TriesIn, ClientTypes, States
  <2>4. AskedType'
        BY <1>1, Zenon DEF Offer, IsrSend, AskedType
  <2>5. TimerTypes'
        BY <1>1 DEF Offer, TimerTypes
  <2>6. FlagTypes'
        BY <1>1, Zenon DEF Offer, IsrSend, ifcVars, FlagTypes
  <2>7. OtherTypes'
        BY <1>1, Apart DEF Offer, IsrSend, ifcVars, OtherTypes
  <2> QED BY <2>1, <2>2, <2>3, <2>4, <2>5, <2>6, <2>7, TypeParts
<1>3. MainInv'
      BY <1>1 DEF Offer, Heard, Configured, mainVars, appVars, ifcVars,
         MainInv, Sends, Reads
<1>4. WaitInv'
      BY <1>1, Apart, MoreRange DEF Offer, IsrSend, TriesIn, Configured,
         mainVars, appVars, ifcVars, WaitInv, Early
<1>5. OfferInv'
      BY <1>1 DEF Offer, IsrSend, mainVars, ifcVars, OfferInv, Early
<1>6. ShownWhole'
      BY <1>1 DEF Offer, appVars, ShownWhole
<1>7. DeclinedNotUsed'
      BY <1>1 DEF Offer, ifcVars, DeclinedNotUsed
<1> QED BY <1>2, <1>3, <1>4, <1>5, <1>6, <1>7 DEF DInv

\* An OFFER without a server identifier disarms the timer, which badOffer
\* records.
LEMMA OfferWithoutIdKeeps ==
  ASSUME DInv, OfferWithoutId
  PROVE  DInv'
<1>1. /\ MainTypes /\ AppTypes /\ ClientTypes /\ AskedType /\ TimerTypes
      /\ FlagTypes /\ OtherTypes
      /\ MainInv /\ WaitInv /\ OfferInv /\ ShownWhole /\ DeclinedNotUsed
      BY TypeParts DEF DInv
<1>2. TypeOK'
  <2>1. MainTypes'
        BY <1>1 DEF OfferWithoutId, mainVars, MainTypes
  <2>2. AppTypes'
        BY <1>1 DEF OfferWithoutId, appVars, AppTypes
  <2>3. ClientTypes'
        BY <1>1 DEF OfferWithoutId, ClientTypes
  <2>4. AskedType'
        BY <1>1 DEF OfferWithoutId, AskedType
  <2>5. TimerTypes'
        BY <1>1 DEF OfferWithoutId, Heard, TimerTypes
  <2>6. FlagTypes'
        BY <1>1, Zenon DEF OfferWithoutId, ifcVars, FlagTypes
  <2>7. OtherTypes'
        BY <1>1 DEF OfferWithoutId, ifcVars, OtherTypes
  <2> QED BY <2>1, <2>2, <2>3, <2>4, <2>5, <2>6, <2>7, TypeParts
<1>3. MainInv'
      BY <1>1 DEF OfferWithoutId, Configured, mainVars, appVars, ifcVars,
         MainInv, Sends, Reads
<1>4. WaitInv'
      BY <1>1 DEF OfferWithoutId, Configured, mainVars, appVars, ifcVars,
         FlagTypes, WaitInv, OfferInv, Reads
<1>5. OfferInv'
      BY <1>1 DEF OfferWithoutId, mainVars, ifcVars, OfferInv, Early
<1>6. ShownWhole'
      BY <1>1 DEF OfferWithoutId, appVars, ShownWhole
<1>7. DeclinedNotUsed'
      BY <1>1 DEF OfferWithoutId, ifcVars, DeclinedNotUsed
<1> QED BY <1>2, <1>3, <1>4, <1>5, <1>6, <1>7 DEF DInv

\* The ACK of an offer: the address is checked, and is no longer declined.
LEMMA AckRequestKeeps ==
  ASSUME DInv, NEW l \in Leases, AckRequest(l)
  PROVE  DInv'
<1>1. /\ MainTypes /\ AppTypes /\ ClientTypes /\ AskedType /\ TimerTypes
      /\ FlagTypes /\ OtherTypes
      /\ MainInv /\ WaitInv /\ OfferInv /\ ShownWhole /\ DeclinedNotUsed
      BY TypeParts DEF DInv
<1>2. TypeOK'
  <2>1. MainTypes'
        BY <1>1 DEF AckRequest, mainVars, MainTypes
  <2>2. AppTypes'
        BY <1>1 DEF AckRequest, appVars, AppTypes
  <2>3. ClientTypes'
        BY Apart, MoreRange DEF AckRequest, TriesIn, ClientTypes, States
  <2>4. AskedType'
        BY <1>1 DEF AckRequest, AskedType
  <2>5. TimerTypes'
        BY <1>1 DEF AckRequest, TimerTypes
  <2>6. FlagTypes'
        BY <1>1, Zenon DEF AckRequest, ifcVars, FlagTypes
  <2>7. OtherTypes'
        BY <1>1 DEF AckRequest, Undeclined, ifcVars, OtherTypes
  <2> QED BY <2>1, <2>2, <2>3, <2>4, <2>5, <2>6, <2>7, TypeParts
<1>3. MainInv'
      BY <1>1 DEF AckRequest, Configured, mainVars, appVars, ifcVars, MainInv,
         Sends, Reads
<1>4. WaitInv'
      BY <1>1, Apart, MoreRange DEF AckRequest, TriesIn, Configured, mainVars,
         appVars, ifcVars, WaitInv, Early
<1>5. OfferInv'
      BY <1>1, Apart DEF AckRequest, Undeclined, mainVars, ifcVars, OfferInv,
         Early
<1>6. ShownWhole'
      BY <1>1 DEF AckRequest, appVars, ShownWhole
<1>7. DeclinedNotUsed'
      BY <1>1 DEF AckRequest, Undeclined, ifcVars, DeclinedNotUsed
<1> QED BY <1>2, <1>3, <1>4, <1>5, <1>6, <1>7 DEF DInv

\* The ACK of a lease in use; main does not wait then.
LEMMA AckRenewalKeeps ==
  ASSUME DInv, AckRenewal
  PROVE  DInv'
<1>1. /\ MainTypes /\ AppTypes /\ ClientTypes /\ AskedType /\ TimerTypes
      /\ FlagTypes /\ OtherTypes
      /\ MainInv /\ WaitInv /\ OfferInv /\ ShownWhole /\ DeclinedNotUsed
      BY TypeParts DEF DInv
<1>2. TypeOK'
  <2>1. MainTypes'
        BY <1>1 DEF AckRenewal, mainVars, MainTypes
  <2>2. AppTypes'
        BY <1>1 DEF AckRenewal, appVars, AppTypes
  <2>3. ClientTypes'
        BY <1>1, Apart DEF AckRenewal, DhcpBind, TriesIn, ClientTypes, States
  <2>4. AskedType'
        BY <1>1 DEF AckRenewal, AskedType
  <2>5. TimerTypes'
        BY <1>1, Apart DEF AckRenewal, DhcpBind, Timer, Forever, ClientTypes,
           TimerTypes, AskedType
  <2>6. FlagTypes'
        BY <1>1, Zenon DEF AckRenewal, DhcpBind, ArmedIn, FlagTypes
  <2>7. OtherTypes'
        BY <1>1 DEF AckRenewal, DhcpBind, Undeclined, All, ClientTypes,
           OtherTypes, Configs
  <2> QED BY <2>1, <2>2, <2>3, <2>4, <2>5, <2>6, <2>7, TypeParts
<1>3. MainInv'
      BY <1>1 DEF AckRenewal, Configured, mainVars, appVars, MainInv, WaitInv, Sends,
         Reads, Early
<1>4. WaitInv'
      BY <1>1 DEF AckRenewal, Configured, appVars, WaitInv, Early
<1>5. OfferInv'
      BY <1>1 DEF AckRenewal, DhcpBind, mainVars, OfferInv, Sends, Early
<1>6. ShownWhole'
      BY <1>1 DEF AckRenewal, appVars, ShownWhole
<1>7. DeclinedNotUsed'
      BY DEF AckRenewal, DhcpBind, Undeclined, All, DeclinedNotUsed
<1> QED BY <1>2, <1>3, <1>4, <1>5, <1>6, <1>7 DEF DInv

\* A NAK takes the configuration away; of a lease in use only, or there is
\* none.
LEMMA NakKeeps ==
  ASSUME DInv, Nak
  PROVE  DInv'
<1>1. /\ MainTypes /\ AppTypes /\ ClientTypes /\ AskedType /\ TimerTypes
      /\ FlagTypes /\ OtherTypes
      /\ MainInv /\ WaitInv /\ OfferInv /\ ShownWhole /\ DeclinedNotUsed
      BY TypeParts DEF DInv
<1>2. TypeOK'
  <2>1. MainTypes'
        BY <1>1 DEF Nak, mainVars, MainTypes
  <2>2. AppTypes'
        BY <1>1 DEF Nak, appVars, AppTypes
  <2>3. ClientTypes'
        BY Apart, MoreRange DEF Nak, IsrSend, TriesIn, ClientTypes, States
  <2>4. AskedType'
        BY <1>1, Zenon DEF Nak, IsrSend, AskedType
  <2>5. TimerTypes'
        BY <1>1 DEF Nak, TimerTypes
  <2>6. FlagTypes'
        BY <1>1, Zenon DEF Nak, IsrSend, FlagTypes
  <2>7. OtherTypes'
        BY <1>1, Apart DEF Nak, IsrSend, All, OtherTypes, Configs
  <2> QED BY <2>1, <2>2, <2>3, <2>4, <2>5, <2>6, <2>7, TypeParts
<1>3. MainInv'
      BY <1>1 DEF Nak, Configured, mainVars, appVars, MainInv, WaitInv, Sends,
         Reads
<1>4. WaitInv'
      BY <1>1, Apart, MoreRange DEF Nak, IsrSend, TriesIn, Configured,
         mainVars, appVars, FlagTypes, WaitInv, Early
<1>5. OfferInv'
      BY <1>1, Apart DEF Nak, IsrSend, All, mainVars, OfferInv, Early
<1>6. ShownWhole'
      BY <1>1 DEF Nak, appVars, ShownWhole
<1>7. DeclinedNotUsed'
      BY DEF Nak, All, DeclinedNotUsed
<1> QED BY <1>2, <1>3, <1>4, <1>5, <1>6, <1>7 DEF DInv

\* Another host has the address: the client backs off, and only main's
\* dhcp_timeout may still use the address.
LEMMA ArpReplyKeeps ==
  ASSUME DInv, ArpReply
  PROVE  DInv'
<1>1. /\ MainTypes /\ AppTypes /\ ClientTypes /\ AskedType /\ TimerTypes
      /\ FlagTypes /\ OtherTypes
      /\ MainInv /\ WaitInv /\ OfferInv /\ ShownWhole /\ DeclinedNotUsed
      BY TypeParts DEF DInv
<1>2. pc \in {"check", "bind"} => declined'.late
      BY Zenon DEF ArpReply
<1>3. declined'.lease = off
      BY Zenon DEF ArpReply
<1>4. TypeOK'
  <2>1. MainTypes'
        BY <1>1 DEF ArpReply, mainVars, MainTypes
  <2>2. AppTypes'
        BY <1>1 DEF ArpReply, appVars, AppTypes
  <2>3. ClientTypes'
        BY <1>1, Apart, MoreRange DEF ArpReply, IsrSend, TriesIn, ClientTypes,
           States
  <2>4. AskedType'
        BY <1>1, Zenon DEF ArpReply, IsrSend, AskedType
  <2>5. TimerTypes'
        BY <1>1 DEF ArpReply, TimerTypes
  <2>6. FlagTypes'
        BY <1>1, Zenon DEF ArpReply, IsrSend, ifcVars, FlagTypes
  <2>7. OtherTypes'
        BY <1>1, Apart DEF ArpReply, IsrSend, ifcVars, ClientTypes, OtherTypes
  <2> QED BY <2>1, <2>2, <2>3, <2>4, <2>5, <2>6, <2>7, TypeParts
<1>5. MainInv'
      BY <1>1 DEF ArpReply, Configured, mainVars, appVars, ifcVars, MainInv,
         Sends, Reads
<1>6. WaitInv'
      BY <1>1, Apart, MoreRange DEF ArpReply, IsrSend, TriesIn, Configured,
         mainVars, appVars, ifcVars, WaitInv, Early
<1>7. OfferInv'
      BY <1>1, <1>2 DEF ArpReply, IsrSend, mainVars, ifcVars, OfferInv, Early
<1>8. ShownWhole'
      BY <1>1 DEF ArpReply, appVars, ShownWhole
<1>9. DeclinedNotUsed'
      BY <1>1 DEF ArpReply, ifcVars, DeclinedNotUsed, OfferInv, Early
<1> QED BY <1>4, <1>5, <1>6, <1>7, <1>8, <1>9 DEF DInv

-----------------------------------------------------------------------------
LEMMA InitDInv == Init => DInv
<1> SUFFICES ASSUME Init PROVE DInv
    OBVIOUS
<1>1. Static \in Configs /\ None \in Configs
      BY DEF Configs
<1>2. TypeOK
  <2>1. MainTypes /\ AppTypes
        BY <1>1 DEF Init, MainTypes, AppTypes, All, NoReg
  <2>2. ClientTypes /\ AskedType /\ TimerTypes
        BY Apart DEF Init, ClientTypes, AskedType, TimerTypes, States
  <2>3. FlagTypes
        BY DEF Init, FlagTypes
  <2>4. OtherTypes
        BY <1>1, Apart DEF Init, OtherTypes, All, Undeclined
  <2> QED BY <2>1, <2>2, <2>3, <2>4, TypeParts
<1>3. MainInv
      BY DEF Init, MainInv, Sends, Reads
<1>4. WaitInv
      BY DEF Init, WaitInv, Early, Reads, All
<1>5. OfferInv
      BY Apart DEF Init, OfferInv, Early, Sends, All
<1>6. ShownWhole /\ DeclinedNotUsed
      BY Apart DEF Init, ShownWhole, DeclinedNotUsed, All
<1> QED BY <1>2, <1>3, <1>4, <1>5, <1>6 DEF DInv

LEMMA StepDInv == DInv /\ [Next]_vars => DInv'
<1> SUFFICES ASSUME DInv, [Next]_vars PROVE DInv'
    OBVIOUS
<1>1. CASE FineTmr
      BY <1>1, CountKeeps, ExpireKeeps DEF FineTmr
<1>2. CASE CoarseTmr
      BY <1>2, CoarseTmrKeeps
<1>3. CASE Main
  <2>1. CASE DhcpTimeout
        BY <2>1, DhcpTimeoutKeeps
  <2>2. CASE Build
        BY <2>2, BuildKeeps
  <2>3. CASE Send \/ SendNothing
        BY <2>3, SendKeeps, SendNothingKeeps
  <2>4. CASE Check \/ Bind
        BY <2>4, CheckKeeps, BindKeeps
  <2>5. CASE Handle
        BY <2>5, RestartKeeps, ReadIpKeeps, ReadMaskKeeps, FoundKeeps,
           GiveUpKeeps, SetRestKeeps, KeepWaitingKeeps DEF Handle
  <2> QED BY <1>3, <2>1, <2>2, <2>3, <2>4, <2>5 DEF Main
<1>4. CASE Interrupt
      BY <1>4, OfferKeeps, OfferWithoutIdKeeps, AckRequestKeeps, AckRenewalKeeps,
         NakKeeps, ArpReplyKeeps DEF Interrupt, Ack, Refusal
<1>5. CASE Ask \/ Answer
      BY <1>5, AskKeeps
<1>6. CASE UNCHANGED vars
  <2>1. TypeOK'
    <3>1. /\ MainTypes /\ AppTypes /\ ClientTypes /\ AskedType /\ TimerTypes
          /\ FlagTypes /\ OtherTypes
          BY TypeParts DEF DInv
    <3>2. MainTypes' /\ AppTypes' /\ ClientTypes' /\ AskedType' /\ TimerTypes'
          BY <1>6, <3>1 DEF MainTypes, AppTypes, ClientTypes, AskedType,
             TimerTypes, vars, mainVars, appVars, clientVars
    <3>3. FlagTypes' /\ OtherTypes'
          BY <1>6, <3>1 DEF FlagTypes, OtherTypes, vars, clientVars, ifcVars,
             histVars
    <3> QED BY <3>2, <3>3, TypeParts
  <2>2. MainInv' /\ WaitInv' /\ OfferInv'
    <3>1. MainInv'
          BY <1>6 DEF DInv, MainInv, Sends, Reads, Configured, vars, mainVars,
             appVars, clientVars, ifcVars
    <3>2. WaitInv'
          BY <1>6 DEF DInv, WaitInv, Reads, Early, Configured, vars, mainVars,
             appVars, clientVars, ifcVars, histVars
    <3>3. OfferInv'
          BY <1>6 DEF DInv, OfferInv, Sends, Early, vars, mainVars, clientVars,
             ifcVars, histVars
    <3> QED BY <3>1, <3>2, <3>3
  <2>3. ShownWhole' /\ DeclinedNotUsed'
        BY <1>6 DEF DInv, ShownWhole, DeclinedNotUsed, vars, mainVars, appVars,
           clientVars, ifcVars, histVars
  <2> QED BY <2>1, <2>2, <2>3 DEF DInv
<1> QED BY <1>1, <1>2, <1>3, <1>4, <1>5, <1>6 DEF Next

LEMMA Invariance == Spec => []DInv
BY InitDInv, StepDInv, PTL DEF Spec

-----------------------------------------------------------------------------
\* Every variable of the client, of main and of the interface keeps its range,
\* for every set of leases, all terms of theirs and every width of the counters.
THEOREM TypeCorrect == Spec => []TypeOK
<1>1. DInv => TypeOK
      BY DEF DInv
<1> QED BY <1>1, Invariance, PTL

\* What the screen shows is one configuration (lwip_comm.c:217-238), although
\* main reads its three parts one after another: between the first read of an
\* address and the last nothing can take it away, since a lease that main still
\* waits for is BOUND and its timers are served by main alone.
THEOREM ShownWholeProved == Spec => []ShownWhole
<1>1. DInv => ShownWhole
      BY DEF DInv
<1> QED BY <1>1, Invariance, PTL

\* An address another host has answered for is not brought into use before it
\* is granted again, except from within dhcp_timeout (dhcp.c:385, 803).
THEOREM DeclinedNotUsedProved == Spec => []DeclinedNotUsed
<1>1. DInv => DeclinedNotUsed
      BY DEF DInv
<1> QED BY <1>1, Invariance, PTL

\* While main waits for an address the request timer runs, unless dhcp_start
\* failed or an OFFER named no server (lwip_comm.c:211, dhcp.c:1624).
THEOREM TimerKeptProved == Spec => []TimerKept
<1>1. DInv => TimerKept
      BY DEF DInv, WaitInv, TimerKept, TimerDead, Configured
<1> QED BY <1>1, Invariance, PTL

\* Only GiveUp falls back to the static address, and it finds the interface up
\* unless a NAK took it down (lwip_comm.c:243-250).
THEOREM FallBackUpProved == Spec => FallBackUp
<1>1. DInv /\ [Next]_vars =>
        [status # "static" /\ status' = "static" => up' \/ nakked]_vars
  <2> SUFFICES ASSUME DInv, [Next]_vars, status # "static", status' = "static"
               PROVE  up' \/ nakked
      OBVIOUS
  <2>1. status' # status
        OBVIOUS
  <2>2. CASE GiveUp
    <3>1. ~Configured /\ UNCHANGED up
          BY <2>2 DEF DInv, MainInv, Reads, GiveUp
    <3> QED BY <3>1 DEF DInv, WaitInv
  <2>3. CASE FineTmr \/ CoarseTmr \/ Interrupt
        BY <2>1, <2>3 DEF FineTmr, Count, Expire, CoarseTmr, Interrupt, Offer,
           OfferWithoutId, Ack, AckRequest, AckRenewal, Refusal, Nak, ArpReply,
           appVars
  <2>4. CASE DhcpTimeout \/ SendNothing \/ Check \/ Bind
        BY <2>1, <2>4 DEF DhcpTimeout, SendNothing, Check, Bind, appVars
  <2>5. CASE Build \/ Send
        BY <2>1, <2>5 DEF Build, Create, CreateFails, Stopped, Send, Finished
  <2>6. CASE Handle /\ ~GiveUp
        BY <2>1, <2>6 DEF Handle, Restart, ReadIp, ReadMask, Found, SetRest,
           KeepWaiting, appVars
  <2>7. CASE Ask \/ Answer
        BY <2>1, <2>7 DEF Ask, Answer, appVars
  <2>8. CASE UNCHANGED vars
        BY <2>1, <2>8 DEF vars, appVars
  <2> QED BY <2>2, <2>3, <2>4, <2>5, <2>6, <2>7, <2>8 DEF Next, Main
<1> QED BY <1>1, Invariance, PTL DEF Spec, FallBackUp
=============================================================================
