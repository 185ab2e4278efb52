----------------------------- MODULE SpiDriver ------------------------------
(***************************************************************************)
(* Interrupt-driven exchanges of Src/drivers/stm32f446xx_spi_driver.c with *)
(* 8-bit frames.  The application calls SPI_ReceiveDataIT and              *)
(* SPI_SendDataIT for the two directions of one exchange; SPI_IRQHandling  *)
(* moves the frames.  Setting a bit of CR2 is a load and a store: the      *)
(* interrupt handler may run in between and clear another bit of it.       *)
(*                                                                         *)
(* The peripheral is external.  While DR holds a frame to send it          *)
(* exchanges it for one of the slave.  A frame takes longer than the       *)
(* latency of an interrupt (512 cycles at SPI_SCLK_SPEED_DIV64), so no     *)
(* frame arrives while the interrupt of the last one is pending.           *)
(*                                                                         *)
(* The functions may be called in any order.  An application is "tidy"     *)
(* when it asks to receive before it asks to send, or to send only, and    *)
(* waits until nothing is on the wire before it asks again.                *)
(***************************************************************************)
EXTENDS TransferHandle

CONSTANTS SpiLengths,   \* numbers of frames the application asks for
          SpiTidy       \* applications that are tidy or not, the cases considered

ASSUME SpiAssumption == /\ SpiLengths \subseteq 1 .. LenSpan - 1
                        /\ SpiTidy \subseteq BOOLEAN

VARIABLES spi_tx, spi_rx,      \* the two directions of SPI_Handle_t
          cr2,                 \* the enabled interrupts
          spi_tdr, spi_rdr,    \* the two sides of DR
          spi_tidy,            \* the application of this behaviour
          spi_plan,            \* the directions of the exchange as they are asked for
          spi_pc, spi_read,    \* where the application stands; CR2 as it read it
          spi_goal,            \* the length of the exchange
          exchanged,           \* history: frames on the wire in this exchange
          spi_sent, spi_got,   \* history: frames written to DR, frames stored
          spi_said             \* history: what was reported of each direction

spihw == <<spi_tdr, spi_rdr, exchanged>>
spilog == <<spi_sent, spi_got, spi_said>>
spivars == <<spi_tx, spi_rx, cr2, spi_tidy, spi_plan, spi_pc, spi_read, spi_goal, spihw, spilog>>

SpiPlans == {<<"receive", "send">>, <<"send">>, <<"send", "receive">>}

SpiInit == /\ spi_tx = Closed /\ spi_rx = Closed
           /\ cr2 = {} /\ spi_tdr = Empty /\ spi_rdr = Empty /\ exchanged = 0
           /\ spi_tidy \in SpiTidy
           /\ spi_plan = <<"send">> /\ spi_pc = Point("ready", "send")
           /\ spi_read = {} /\ spi_goal = 0
           /\ spi_sent = <<>> /\ spi_got = <<>>
           /\ spi_said = [d \in {"send", "receive"} |-> "none"]

-----------------------------------------------------------------------------
(* The application.                                                        *)

EnableBit(d) == IF d = "send" THEN "TXEIE" ELSE "RXNEIE"

\* SPI_SendDataIT and SPI_ReceiveDataIT up to the update of CR2.
OpenDirection(d, n) ==
  /\ spi_said' = [spi_said EXCEPT ![d] = "none"]
  /\ IF d = "send"
     THEN /\ ~spi_tx.busy /\ spi_tx' = Opened(n)
          /\ spi_sent' = <<>> /\ UNCHANGED <<spi_rx, spi_got>>
     ELSE /\ ~spi_rx.busy /\ spi_rx' = Opened(n)
          /\ spi_got' = <<>> /\ UNCHANGED <<spi_tx, spi_sent>>

CallFirst(n, plan) ==
  /\ spi_pc.step = "ready" /\ ~spi_tx.busy /\ ~spi_rx.busy
  /\ spi_tidy => spi_tdr = Empty /\ plan # <<"send", "receive">>
  /\ OpenDirection(plan[1], n)
  /\ spi_plan' = plan /\ spi_goal' = n
  /\ exchanged' = 0 /\ spi_rdr' = LeftOver(spi_rdr)
  /\ spi_pc' = Point("load", plan[1])
  /\ UNCHANGED <<cr2, spi_tidy, spi_read, spi_tdr>>

CallSecond == /\ spi_pc.step = "between"
              /\ OpenDirection(spi_plan[2], spi_goal)
              /\ spi_pc' = Point("load", spi_plan[2])
              /\ UNCHANGED <<cr2, spi_tidy, spi_plan, spi_read, spi_goal, spihw>>

LoadCR2(d) == /\ spi_pc = Point("load", d)
              /\ spi_read' = cr2
              /\ spi_pc' = Point("store", d)
              /\ UNCHANGED <<spi_tx, spi_rx, cr2, spi_tidy, spi_plan, spi_goal, spihw, spilog>>

StoreCR2(d) == /\ spi_pc = Point("store", d)
               /\ cr2' = spi_read \cup {EnableBit(d)}
               /\ LET more == d = spi_plan[1] /\ Len(spi_plan) = 2
                  IN  spi_pc' = Point(IF more THEN "between" ELSE "ready", d)
               /\ UNCHANGED <<spi_tx, spi_rx, spi_tidy, spi_plan, spi_read, spi_goal,
                              spihw, spilog>>

-----------------------------------------------------------------------------
(* SPI_IRQHandling.                                                        *)

SpiTxe == spi_tdr = Empty /\ "TXEIE" \in cr2
SpiRxne == spi_rdr # Empty /\ "RXNEIE" \in cr2

\* The end of both frame handlers: the last frame closes the direction.  There is
\* no test of the state, and the length of a closed one wraps.
Ends(h) == Advanced(h).len = 0
CloseAtEnd(h) == IF Ends(h) THEN Closed ELSE Advanced(h)

SPI_IRQHandling ==
  /\ SpiTxe \/ SpiRxne
  /\ IF SpiTxe
     THEN /\ spi_tx' = CloseAtEnd(spi_tx)
          /\ spi_tdr' = spi_tx.buf
          /\ spi_sent' = Append(spi_sent, spi_tx.buf)
     ELSE UNCHANGED <<spi_tx, spi_tdr, spi_sent>>
  /\ IF SpiRxne
     THEN /\ spi_rx' = CloseAtEnd(spi_rx)
          /\ spi_rdr' = Empty
          /\ spi_got' = Append(spi_got, spi_rdr)
     ELSE UNCHANGED <<spi_rx, spi_rdr, spi_got>>
  /\ cr2' = {b \in cr2 : /\ b = "TXEIE" /\ SpiTxe => ~Ends(spi_tx)
                         /\ b = "RXNEIE" /\ SpiRxne => ~Ends(spi_rx)}
  /\ spi_said' = [send |-> IF SpiTxe /\ Ends(spi_tx) THEN "complete" ELSE spi_said.send,
                  receive |-> IF SpiRxne /\ Ends(spi_rx) THEN "complete" ELSE spi_said.receive]
  /\ UNCHANGED <<spi_tidy, spi_plan, spi_pc, spi_read, spi_goal, exchanged>>

-----------------------------------------------------------------------------
\* External: a frame is exchanged.  One that nobody fetches is overwritten;
\* the overrun is not reported, as no function of the driver sets ERRIE.
SpiExchange == /\ spi_tdr # Empty
               /\ ~SpiRxne
               /\ exchanged' = exchanged + 1
               /\ spi_rdr' = IF spi_rdr = Empty THEN exchanged' ELSE spi_rdr
               /\ spi_tdr' = Empty
               /\ UNCHANGED <<spi_tx, spi_rx, cr2, spi_tidy, spi_plan, spi_pc, spi_read,
                              spi_goal, spilog>>

\* The handler preempts the application as soon as an interrupt is pending.
SpiTask == /\ ~SpiTxe /\ ~SpiRxne
           /\ \/ \E n \in SpiLengths, plan \in SpiPlans : CallFirst(n, plan)
              \/ CallSecond
              \/ \E d \in {"send", "receive"} : LoadCR2(d) \/ StoreCR2(d)

SpiNext == SpiTask \/ SPI_IRQHandling \/ SpiExchange

\* A call or an exchange is in progress.
SpiBusy == spi_pc.step # "ready" \/ spi_tx.busy \/ spi_rx.busy

-----------------------------------------------------------------------------
\* An interrupt is enabled only while there is a transfer for it, or the handler
\* would go on from NULL with a length that has wrapped: no handler closes a
\* transfer between the load and the store of CR2 for the other direction.  Of a
\* tidy application.
SpiInterruptsServed == spi_tidy => /\ "TXEIE" \in cr2 => spi_tx.busy
                                   /\ "RXNEIE" \in cr2 => spi_rx.busy

\* Of a tidy application, no frame is skipped or repeated.  A frame that was sent
\* without a reception leaves its answer in DR, and the next reception begins with
\* that: no function of the driver empties DR.
SpiFramesInOrder == spi_tidy => InOrder(spi_sent) /\ Arriving(spi_got)

\* Both directions keep the promise of a transfer, for a tidy application.
SpiSend == INSTANCE ByteTransfer WITH
  Lengths <- SpiLengths, asked <- IF spi_tidy /\ spi_tx.busy THEN spi_goal ELSE 0,
  moved <- IF spi_tidy THEN Len(spi_sent) ELSE 0,
  outcome <- IF spi_tidy THEN spi_said.send ELSE "none"
SpiReceive == INSTANCE ByteTransfer WITH
  Lengths <- SpiLengths, asked <- IF spi_tidy /\ spi_rx.busy THEN spi_goal ELSE 0,
  moved <- IF spi_tidy THEN Len(spi_got) ELSE 0,
  outcome <- IF spi_tidy THEN spi_said.receive ELSE "none"
=============================================================================
