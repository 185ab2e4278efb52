---------------------------- MODULE UsartDriver -----------------------------
(***************************************************************************)
(* Src/drivers/stm32f446xx_usart_driver.c with 8-bit frames without        *)
(* parity, as main.c and gsm.c configure both USARTs.  One task sends and  *)
(* receives, one transfer at a time: by USART_SendData and                 *)
(* USART_ReceiveData, which poll the flags, or by USART_SendDataIT and     *)
(* USART_ReceiveDataIT, whose frames USART_IRQHandling moves.  Setting a   *)
(* bit of CR1 is a load and a store, with the handler perhaps in between.  *)
(*                                                                         *)
(* The peripheral is external: DR in front of a shift register, TC once    *)
(* both are empty, cleared when DR is written.  A frame that arrives while *)
(* the last one is in DR is lost and sets ORE, which RXNEIE lets interrupt *)
(* as well and a read of SR followed by one of DR clears.  A task that is  *)
(* "prompt" is not held up for the time of a frame (87 us at 115200 baud)  *)
(* between the load and the store of CR1; one that is preempted there is.  *)
(***************************************************************************)
EXTENDS TransferHandle

CONSTANTS UsartLengths,   \* numbers of frames of a transfer
          UsartApis,      \* the functions the application uses, the cases considered
          UsartPaces,     \* tasks that are prompt or not, the cases considered
          MaxLost         \* bound: frames lost in one reception

ASSUME UsartAssumption == /\ UsartLengths \subseteq 1 .. LenSpan - 1
                          /\ UsartApis \subseteq {"polling", "interrupt"}
                          /\ UsartPaces \subseteq BOOLEAN
                          /\ MaxLost \in Nat

VARIABLES us_tx, us_rx,         \* the two directions of USART_Handle_t, or the
                                \* locals of a polling function
          cr1,                  \* the enabled interrupts
          tc,                   \* the flag TC
          us_tdr, us_shift, us_rdr,
          us_ore,               \* the flag ORE: "clear", "set", or "seen" in SR
          us_api, us_prompt,    \* the task of this behaviour
          us_pc, us_read,       \* where the task stands; CR1 as it read it
          us_goal,              \* the length of the transfer
          arrived, lost,        \* history: frames received in this reception, and lost
          us_wire, us_got,      \* history: frames sent on the line, frames stored
          us_said               \* history: what was reported of each direction

ushw == <<tc, us_tdr, us_shift, us_rdr, us_ore, arrived, lost>>
uscase == <<us_api, us_prompt>>
uslog == <<us_got, us_said>>
usvars == <<us_tx, us_rx, cr1, uscase, us_pc, us_read, us_goal, us_wire, ushw, uslog>>

Ready == Point("ready", "none")

UsartInit == /\ us_tx = Closed /\ us_rx = Closed /\ cr1 = {}
             /\ tc = TRUE /\ us_tdr = Empty /\ us_shift = Empty /\ us_rdr = Empty
             /\ us_ore = "clear"
             /\ us_api \in UsartApis /\ us_prompt \in UsartPaces
             /\ us_pc = Ready /\ us_read = {} /\ us_goal = 0
             /\ arrived = 0 /\ lost = 0 /\ us_wire = <<>> /\ us_got = <<>>
             /\ us_said = [d \in {"send", "receive"} |-> "none"]

UsIdle == us_pc = Ready /\ ~us_tx.busy /\ ~us_rx.busy

\* What reading SR, and then DR, makes of ORE.
SeenBy(ore) == IF ore = "set" THEN "seen" ELSE ore
ClearedBy(ore) == IF ore = "seen" THEN "clear" ELSE ore

\* External: writing a frame to DR, which moves on if nothing is being sent.
WriteDR(f) == /\ tc' = FALSE
              /\ IF us_shift = Empty THEN us_shift' = f /\ UNCHANGED us_tdr
                                     ELSE us_tdr' = f /\ UNCHANGED us_shift

UsPc(from, to) == us_pc = from /\ us_pc' = to

-----------------------------------------------------------------------------
(* USART_SendDataIT, USART_ReceiveDataIT.                                  *)

OpenSend(n, pc) == /\ UsIdle
                   /\ us_tx' = Opened(n) /\ us_pc' = pc /\ us_goal' = n
                   /\ us_wire' = <<>> /\ us_said' = [us_said EXCEPT !.send = "none"]
                   /\ UNCHANGED <<us_rx, cr1, uscase, us_read, us_got, ushw>>

OpenReceive(n, pc, dr, ore) ==
  /\ UsIdle
  /\ us_rx' = Opened(n) /\ us_pc' = pc /\ us_goal' = n
  /\ us_rdr' = dr /\ us_ore' = ore
  /\ arrived' = 0 /\ lost' = 0
  /\ us_got' = <<>> /\ us_said' = [us_said EXCEPT !.receive = "none"]
  /\ UNCHANGED <<us_tx, cr1, uscase, us_read, us_wire, tc, us_tdr, us_shift>>

\* Seeded fault: DR is not read before the reception.
KeepLeftOver(n) == /\ us_api = "interrupt"
                   /\ OpenReceive(n, Point("load", "RXNEIE"), LeftOver(us_rdr), us_ore)

USART_SendDataIT(n) == us_api = "interrupt" /\ OpenSend(n, Point("load", "TXEIE"))

\* DR is read before the reception, SR is not.
USART_ReceiveDataIT(n) ==
  us_api = "interrupt" /\ OpenReceive(n, Point("load", "RXNEIE"), Empty, ClearedBy(us_ore))

LoadCR1(b) == /\ UsPc(Point("load", b), Point("store", b))
              /\ us_read' = cr1
              /\ UNCHANGED <<us_tx, us_rx, cr1, uscase, us_goal, us_wire, ushw, uslog>>

StoreCR1(b) == /\ UsPc(Point("store", b), IF b = "TXEIE" THEN Point("load", "TCIE") ELSE Ready)
               /\ cr1' = us_read \cup {b}
               /\ UNCHANGED <<us_tx, us_rx, uscase, us_read, us_goal, us_wire, ushw, uslog>>

-----------------------------------------------------------------------------
(* USART_SendData, USART_ReceiveData.  While they are used RXNEIE is off    *)
(* and ORE, which they also read away, has no effect.                      *)

USART_SendData(n) == us_api = "polling" /\ OpenSend(n, Point("poll", "TXE"))
USART_ReceiveData(n) ==
  us_api = "polling" /\ OpenReceive(n, Point("poll", "RXNE"), LeftOver(us_rdr), us_ore)

SendFrame == /\ us_tdr = Empty
             /\ UsPc(Point("poll", "TXE"), Point("poll", IF us_tx.len = 1 THEN "TC" ELSE "TXE"))
             /\ us_tx' = Advanced(us_tx)
             /\ WriteDR(us_tx.buf)
             /\ UNCHANGED <<us_rx, cr1, uscase, us_read, us_goal, us_wire, us_rdr, us_ore,
                            arrived, lost, uslog>>

SendReturns == /\ tc
               /\ UsPc(Point("poll", "TC"), Ready)
               /\ us_tx' = Closed
               /\ us_said' = [us_said EXCEPT !.send = "complete"]
               /\ UNCHANGED <<us_rx, cr1, uscase, us_read, us_goal, us_wire, ushw, us_got>>

\* A frame is fetched from DR.
Fetch == /\ us_got' = Append(us_got, us_rdr)
         /\ us_rdr' = Empty

ReceiveFrame ==
  /\ us_rdr # Empty
  /\ UsPc(Point("poll", "RXNE"), IF us_rx.len = 1 THEN Ready ELSE Point("poll", "RXNE"))
  /\ Fetch
  /\ us_rx' = IF us_rx.len = 1 THEN Closed ELSE Advanced(us_rx)
  /\ us_said' = IF us_rx.len = 1 THEN [us_said EXCEPT !.receive = "complete"] ELSE us_said
  /\ UNCHANGED <<us_tx, cr1, uscase, us_read, us_goal, us_wire, tc, us_tdr, us_shift,
                 us_ore, arrived, lost>>
-----------------------------------------------------------------------------
(* USART_IRQHandling.                                                      *)

TxeIrq == us_tdr = Empty /\ "TXEIE" \in cr1
TcIrq == tc /\ "TCIE" \in cr1
RxneIrq == us_rdr # Empty /\ "RXNEIE" \in cr1
OreIrq == us_ore # "clear" /\ "RXNEIE" \in cr1

\* Seeded fault: the end is reported without a test of TxLen.
EndsOnAnyTc == TcIrq /\ us_tx.busy

\* The TC part closes the transmission.
TcEnds == TcIrq /\ us_tx.busy /\ us_tx.len = 0

\* The TXE part.  It finds a transmission that the TC part has closed not busy.
HandleTxe ==
  IF TxeIrq /\ us_tx.busy /\ us_tx.len > 0
  THEN us_tx' = Advanced(us_tx) /\ WriteDR(us_tx.buf)
  ELSE UNCHANGED <<us_tx, tc, us_tdr, us_shift>>

\* The RXNE part.
HandleRxne ==
  IF RxneIrq /\ us_rx.busy
  THEN /\ us_rx' = IF us_rx.len = 1 THEN Closed ELSE Advanced(us_rx)
       /\ Fetch
       /\ us_ore' = "clear"
  ELSE /\ us_ore' = SeenBy(us_ore)
       /\ UNCHANGED <<us_rx, us_got, us_rdr>>

\* SR is read before each part.  The part for ORE does not clear it, and reports
\* something else: USART_SR_ORE is the bit number 3, it tests the flags PE and FE.
USART_IRQHandling ==
  /\ TxeIrq \/ TcIrq \/ RxneIrq \/ OreIrq
  /\ IF TcEnds THEN us_tx' = Closed /\ tc' = FALSE /\ UNCHANGED <<us_tdr, us_shift>>
               ELSE HandleTxe
  /\ HandleRxne
  /\ cr1' = {b \in cr1 : /\ b = "TXEIE" /\ TxeIrq /\ us_tx.busy /\ ~TcEnds => us_tx'.len > 0
                         /\ b = "RXNEIE" /\ RxneIrq /\ us_rx.busy => us_rx'.busy}
  /\ us_said' = [send |-> IF TcEnds THEN "complete" ELSE us_said.send,
                 receive |-> IF us_rx.busy /\ ~us_rx'.busy THEN "complete" ELSE us_said.receive]
  /\ UNCHANGED <<uscase, us_pc, us_read, us_goal, us_wire, arrived, lost>>

\* The handler preempts the task as soon as an interrupt is pending.
UsartTask ==
  /\ ~TxeIrq /\ ~TcIrq /\ ~RxneIrq /\ ~OreIrq
  /\ \/ \E n \in UsartLengths : \/ USART_SendDataIT(n) \/ USART_ReceiveDataIT(n)
                               \/ USART_SendData(n) \/ USART_ReceiveData(n)
     \/ \E b \in {"TXEIE", "TCIE", "RXNEIE"} : LoadCR1(b) \/ StoreCR1(b)
     \/ SendFrame \/ SendReturns \/ ReceiveFrame

-----------------------------------------------------------------------------
(* External: the line.                                                     *)

\* The frame in the shift register has left, and the next one follows it.
ShiftOut == /\ us_shift # Empty
            /\ us_prompt => us_pc.step # "store"
            /\ us_wire' = Append(us_wire, us_shift)
            /\ us_shift' = us_tdr /\ us_tdr' = Empty
            /\ tc' = (us_tdr = Empty)
            /\ UNCHANGED <<us_tx, us_rx, cr1, uscase, us_pc, us_read, us_goal, us_rdr, us_ore,
                           arrived, lost, uslog>>

Arrive == /\ us_rx.busy => arrived < us_goal + MaxLost
          /\ arrived' = IF us_rx.busy THEN arrived + 1 ELSE 0
          /\ IF us_rdr = Empty
             THEN us_rdr' = arrived' /\ UNCHANGED <<us_ore, lost>>
             ELSE /\ us_rx.busy => lost < MaxLost
                  /\ lost' = IF us_rx.busy THEN lost + 1 ELSE lost
                  /\ us_ore' = IF us_ore = "clear" THEN "set" ELSE us_ore
                  /\ UNCHANGED us_rdr
          /\ UNCHANGED <<us_tx, us_rx, cr1, uscase, us_pc, us_read, us_goal, us_wire, tc,
                         us_tdr, us_shift, uslog>>

UsartNext == ShiftOut \/ Arrive \/ UsartTask \/ USART_IRQHandling

\* A call or a transfer is in progress.
UsartBusy == ~UsIdle

-----------------------------------------------------------------------------
\* A pending interrupt, other than one of ORE, has a transfer to serve: one that it
\* does not have would be taken again and again, and no task would run any more.
\* Of a task that is prompt.
UsartInterruptsServed == us_prompt => /\ TxeIrq \/ TcIrq => us_tx.busy
                                      /\ RxneIrq => us_rx.busy

\* "Need not to clear the ORE flag here": the interrupt of an overrun goes away, as
\* there is a frame to fetch that clears it.
OverrunServed == OreIrq => us_rdr # Empty

\* Frames leave in the order of the buffer and are stored in the order they
\* arrive, none twice; one of before the call is stored only by the polling
\* function, which does not empty DR.
UsartFramesInOrder == /\ InOrder(us_wire)
                      /\ Arriving(us_got)
                      /\ us_api = "interrupt" => \A i \in DOMAIN us_got : us_got[i] > 0

\* Both directions keep the promise of a transfer; a transmission has moved a
\* frame when it has left the line.
UsartSend == INSTANCE ByteTransfer WITH
  Lengths <- UsartLengths, asked <- IF us_tx.busy THEN us_goal ELSE 0,
  moved <- Len(us_wire), outcome <- us_said.send
UsartReceive == INSTANCE ByteTransfer WITH
  Lengths <- UsartLengths, asked <- IF us_rx.busy THEN us_goal ELSE 0,
  moved <- Len(us_got), outcome <- us_said.receive
=============================================================================
