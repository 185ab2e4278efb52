----------------------------- MODULE I2cMaster ------------------------------
(***************************************************************************)
(* Master transfers of Src/drivers/stm32f446xx_i2c_driver.c: the polling   *)
(* I2C_MasterSendData and I2C_MasterReceiveData, by which bmp280.c talks   *)
(* to the sensor, and the interrupt-driven I2C_MasterSendDataIT and        *)
(* I2C_MasterReceiveDataIT with their handlers.                            *)
(*                                                                         *)
(* The bus is external: it executes a requested START and STOP, lets the   *)
(* slave answer its address and moves one byte at a time, DR in front of   *)
(* the shift register.  A byte the slave sends is acknowledged if ACK is   *)
(* set when it has arrived; after the first that is not, the slave stops.  *)
(* A byte takes longer than the latency of an interrupt (90 us at 100      *)
(* kHz); a task that polls may be preempted for longer, unless it is       *)
(* "prompt".  A time limit of 500000 polls is longer than any answer.      *)
(*                                                                         *)
(* After a transmission the bus is still in its data phase until a STOP or *)
(* a repeated START is executed.  An application that is "patient" does    *)
(* not send again by interrupts before that; one that sends again from the *)
(* completion callback is not.                                             *)
(***************************************************************************)
EXTENDS TransferHandle

CONSTANTS I2cLengths,   \* lengths of the transfers
          I2cApis,      \* the functions the application uses, the cases considered
          I2cPatience   \* applications that are patient or not, the cases considered

ASSUME I2cAssumption == /\ I2cLengths \subseteq Nat \ {0}
                        /\ I2cApis \subseteq {"polling", "interrupt"}
                        /\ I2cPatience \subseteq BOOLEAN

VARIABLES call,        \* the transfer: of I2C_Handle_t, or a polling call
          ack, start, stop,   \* bits of CR1
          en,          \* the enabled interrupts, bits of CR2
          line,        \* the bus: what it does, or the flag of SR1 it waits with
          txq, rxq,    \* the bytes in DR and the shift register
          dir, given, fed,    \* direction; bytes the slave sent; it will send more
          i2c_api, prompt, patient, wedged,   \* of this behaviour: functions used,
                       \* pace of the task and the application, a bus held low
          i2c_wire, i2c_got, i2c_said   \* histories: bytes sent since the START, bytes
                       \* stored, end

bus == <<line, txq, rxq, dir, given, fed>>
cr == <<ack, start, stop, en>>
i2clog == <<i2c_wire, i2c_got, i2c_said>>
i2ccase == <<i2c_api, prompt, patient, wedged>>
i2cvars == <<call, cr, bus, i2ccase, i2clog>>

\* at: where a polling call stands, "busy" with interrupts, "ready" in between.
Transfer(at, d, n, sr) == [at |-> at, dir |-> d, len |-> n, size |-> n, sr |-> sr]

I2cInit == /\ call = Transfer("ready", "TX", 0, FALSE)
           /\ ack = TRUE /\ start = FALSE /\ stop = FALSE /\ en = {}
           /\ line = "idle" /\ txq = <<>> /\ rxq = <<>>
           /\ dir = "TX" /\ given = 0 /\ fed = FALSE
           /\ i2c_api \in I2cApis /\ wedged \in BOOLEAN
           /\ prompt \in (IF i2c_api = "polling" THEN BOOLEAN ELSE {TRUE})
           /\ patient \in (IF i2c_api = "polling" THEN {TRUE} ELSE I2cPatience)
           /\ i2c_wire = <<>> /\ i2c_got = <<>> /\ i2c_said = "none"

Busy == call.at # "ready"

\* The bus is in the data phase of a transmission, in which TXE is set.
Transmitting == line = "data" /\ dir = "TX"

\* Where a transfer that does not go by interrupts gets to next.
Goes(at) == IF call.at = "busy" THEN "busy" ELSE at
Stands(at) == call.at \in {at, "busy"}

-----------------------------------------------------------------------------
(* The four functions up to the START, and the early returns.              *)

Begin(at, d, n, sr, ints) ==
  /\ ~Busy
  /\ call' = Transfer(at, d, n, sr)
  /\ start' = TRUE /\ en' = en \cup ints
  /\ i2c_wire' = <<>> /\ i2c_got' = <<>> /\ i2c_said' = "none"
  /\ UNCHANGED <<ack, stop, bus, i2ccase>>

I2C_MasterSendData(n, sr) == i2c_api = "polling" /\ Begin("SB", "TX", n, sr, {})
I2C_MasterReceiveData(n, sr) == i2c_api = "polling" /\ Begin("SB", "RX", n, sr, {})

\* While the last transmission is in its data phase the handler, which goes by TXE,
\* writes the first byte to DR in front of the START.
I2C_MasterSendDataIT(n, sr) ==
  /\ i2c_api = "interrupt" /\ (patient => ~Transmitting)
  /\ Begin("busy", "TX", n, sr, {"BUF", "EVT", "ERR"})
I2C_MasterReceiveDataIT(n, sr) ==
  i2c_api = "interrupt" /\ Begin("busy", "RX", n, sr, {"BUF", "EVT", "ERR"})

\* Seeded fault: the event interrupts stay enabled.
EndStaysEnabled(how) == /\ call' = [call EXCEPT !.at = "ready", !.len = 0]
                        /\ i2c_said' = how
                        /\ UNCHANGED en

\* I2C_CloseSendData, I2C_CloseReceiveData, and the end of a polling call.
End(how) == /\ call' = [call EXCEPT !.at = "ready", !.len = 0]
            /\ en' = en \ {"BUF", "EVT"}
            /\ i2c_said' = how

\* Seeded fault: only the wait for the START has a time limit.
OutOfTimeAtStart == call.at = "SB" /\ wedged

OutOfTime == (call.at = "SB" /\ wedged) \/ (call.at = "ADDR" /\ line = "nacked")

\* A polling call returns early; it leaves the bus as it is.
Timeout == /\ OutOfTime
           /\ End("given_up")
           /\ UNCHANGED <<ack, start, stop, bus, i2ccase, i2c_wire, i2c_got>>

-----------------------------------------------------------------------------
(* The steps of a transfer, in the polling calls and in I2C_EV_IRQHandling. *)

\* SB: the address is sent.
SendAddress == /\ Stands("SB") /\ line = "SB"
               /\ line' = "addressed" /\ dir' = call.dir
               /\ call' = [call EXCEPT !.at = Goes("ADDR")]
               /\ UNCHANGED <<cr, txq, rxq, given, fed, i2ccase, i2clog>>

\* ADDR: a single byte to receive is not to be acknowledged.
ClearADDR == /\ Stands("ADDR") /\ line = "ADDR"
             /\ ack' = (ack /\ ~(call.dir = "RX" /\ call.size = 1))
             /\ line' = "data" /\ given' = 0 /\ fed' = (call.dir = "RX")
             /\ rxq' = [i \in DOMAIN rxq |-> LeftOver(rxq[i])]
             /\ call' = [call EXCEPT !.at = Goes(call.dir)]
             /\ UNCHANGED <<start, stop, en, txq, dir, i2ccase, i2clog>>

ByteLeft == call.len > 0

\* TXE: the next byte is written to DR.
WriteByte == /\ Stands("TX") /\ call.dir = "TX" /\ ByteLeft
             /\ Transmitting /\ Len(txq) < 2
             /\ txq' = Append(txq, call.size - call.len + 1)
             /\ call' = [call EXCEPT !.len = @ - 1]
             /\ UNCHANGED <<cr, line, rxq, dir, given, fed, i2ccase, i2clog>>

\* BTF and TXE: the last byte has left the shift register.
FinishSend == /\ Stands("TX") /\ call.dir = "TX" /\ call.len = 0
              /\ Transmitting /\ txq = <<>>
              /\ stop' = (stop \/ ~call.sr)
              /\ End("complete")
              /\ UNCHANGED <<ack, start, bus, i2ccase, i2c_wire, i2c_got>>

\* Seeded fault: the last byte but one does not turn ACK off.
KeepsAck == call.len = 1 \/ ack

\* The byte after this one is the last: it is not to be acknowledged.  After
\* the last one the acknowledgement is turned on again.
AckFromNowOn == call.len = 1 \/ (ack /\ call.len # 2)

\* The number of bytes left when the STOP is requested.
StopAt == IF call.at = "busy" \/ call.size = 1 THEN 1 ELSE 2

\* RXNE.
ReadByte == /\ Stands("RX") /\ call.dir = "RX" /\ rxq # <<>>
            /\ ack' = AckFromNowOn
            /\ stop' = (stop \/ (call.len = StopAt /\ ~call.sr))
            /\ i2c_got' = Append(i2c_got, Head(rxq))
            /\ rxq' = Tail(rxq)
            /\ IF call.len = 1 THEN End("complete")
               ELSE call' = [call EXCEPT !.len = @ - 1] /\ UNCHANGED <<en, i2c_said>>
            /\ UNCHANGED <<start, line, txq, dir, given, fed, i2ccase, i2c_wire>>

\* I2C_ER_IRQHandling with AF, which it clears.  It is left to the application to close the
\* transfer and to request the STOP, which its callback does.
I2C_ER_IRQHandling == /\ call.at = "busy" /\ "ERR" \in en /\ line \in {"nacked", "halted"}
                      /\ ack' = TRUE /\ stop' = TRUE
                      /\ line' = "held"
                      /\ End("given_up")
                      /\ UNCHANGED <<start, txq, rxq, dir, given, fed, i2ccase, i2c_wire,
                                     i2c_got>>

-----------------------------------------------------------------------------
(* External: the bus and the slave.                                        *)

\* Nothing is on its way in the data phase, or it cannot go on.
AtRest == CASE Transmitting -> txq = <<>>
            [] line = "data" /\ dir = "RX" -> ~fed \/ Len(rxq) = 2
            [] OTHER -> line \in {"idle", "nacked", "halted", "held"}

HwStart == /\ start /\ ~stop /\ ~wedged /\ AtRest
           /\ line' = "SB" /\ start' = FALSE /\ txq' = <<>>
           /\ i2c_wire' = <<>>
           /\ UNCHANGED <<call, ack, stop, en, rxq, dir, given, fed, i2ccase, i2c_got,
                          i2c_said>>

HwStop == /\ stop /\ AtRest
          /\ line' = "idle" /\ stop' = FALSE
          /\ UNCHANGED <<call, ack, start, en, txq, rxq, dir, given, fed, i2ccase, i2clog>>

HwAddress == /\ line = "addressed"
             /\ line' \in {"ADDR", "nacked"}
             /\ UNCHANGED <<call, cr, txq, rxq, dir, given, fed, i2ccase, i2clog>>

\* A byte is acknowledged, or the slave takes no more.
HwSend == /\ Transmitting /\ txq # <<>>
          /\ \/ /\ i2c_wire' = Append(i2c_wire, Head(txq)) /\ txq' = Tail(txq)
                /\ UNCHANGED line
             \/ line' = "halted" /\ UNCHANGED <<i2c_wire, txq>>
          /\ UNCHANGED <<call, cr, rxq, dir, given, fed, i2ccase, i2c_got, i2c_said>>

HwReceive == /\ line = "data" /\ dir = "RX" /\ fed /\ Len(rxq) < 2
             /\ prompt => rxq = <<>>
             /\ given' = given + 1 /\ rxq' = Append(rxq, given')
             /\ fed' = ack
             /\ line' = (IF stop THEN "idle" ELSE line) /\ stop' = FALSE
             /\ UNCHANGED <<call, ack, start, en, txq, dir, i2ccase, i2clog>>

I2cCall == \E n \in I2cLengths, sr \in BOOLEAN :
             \/ I2C_MasterSendData(n, sr) \/ I2C_MasterSendDataIT(n, sr)
             \/ I2C_MasterReceiveData(n, sr) \/ I2C_MasterReceiveDataIT(n, sr)
I2cStep == \/ Timeout \/ SendAddress \/ ClearADDR \/ WriteByte \/ FinishSend
           \/ ReadByte \/ I2C_ER_IRQHandling
I2cBus == HwStart \/ HwStop \/ HwAddress \/ HwSend \/ HwReceive

I2cNext == I2cCall \/ I2cStep \/ I2cBus

-----------------------------------------------------------------------------
\* A single ACK bit serves every transfer.  It is on again when a transfer is
\* over, or the next one would lose its bytes after the first; and it is off
\* exactly for the last byte, so that the slave sends as many bytes as were
\* asked for and then lets go of the bus.  A task that is not prompt misses it, and
\* so does the START that an application left behind which is not patient.
AckManaged == patient => /\ ~Busy => ack
                         /\ prompt /\ call.dir = "RX" /\ i2c_said = "complete" =>
                              given = Len(i2c_got) /\ ~fed

\* For a patient application, bytes are sent in the order of the buffer and stored
\* in the order they arrive, none skipped or repeated.  A task that is not prompt,
\* too late to refuse the last byte, may find one of the transfer before in DR
\* first.
I2cFramesInOrder == patient => /\ InOrder(i2c_wire)
                               /\ Arriving(i2c_got)
                               /\ prompt => InOrder(i2c_got)

\* "Notify the application about transmission complete": every byte of the buffer
\* has been sent to the slave that was addressed.
SentWhole == i2c_said = "complete" /\ call.dir = "TX" => Len(i2c_wire) = call.size

\* The event interrupts are enabled only during a transfer that handles them.
I2cInterruptsServed == en \cap {"BUF", "EVT"} # {} => Busy

\* The promise of a transfer, to an application that is patient.
I2cTransfer == INSTANCE ByteTransfer WITH
  Lengths <- I2cLengths, asked <- IF patient /\ Busy THEN call.size ELSE 0,
  moved <- IF patient THEN Len(IF call.dir = "TX" THEN i2c_wire ELSE i2c_got) ELSE 0,
  outcome <- IF patient THEN i2c_said ELSE "none"

\* A call that cannot end: a slave that refuses a byte stops the polling loops
\* without a time limit, and a bus that is held low stops the interrupts.
Stuck == IF i2c_api = "polling" THEN line = "halted" ELSE wedged
=============================================================================
