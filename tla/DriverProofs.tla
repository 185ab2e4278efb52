---------------------------- MODULE DriverProofs ----------------------------
(***************************************************************************)
(* What the transfers over the buses of the STM32 promise.                 *)
(***************************************************************************)
EXTENDS MCBoard, SequenceTheorems, TLAPS

-----------------------------------------------------------------------------
(* The polled transfer of a packet.                                        *)
(*                                                                         *)
(* Both sides hold a beginning of the packet of the other one.  The byte   *)
(* under way is the one after what the slave holds; the task, which waits  *)
(* for RXNE before it writes again, is never more than the one byte ahead  *)
(* whose last edge is still to come, so RXNE means that byte and no other. *)

\* The first k bytes of the packet of one side in this transaction.
Beginning(side, k) == [i \in 1 .. k |-> <<side, transaction, i>>]

MasterByte(i) == <<"master", transaction, i>>
SlaveByte(i) == <<"slave", transaction, i>>

\* What is in the peripheral while the master waits for byte i: the byte has not
\* left the transmit buffer, or is shifted, or has been sampled, or has arrived.
Underway(i) ==
  \/ /\ tx_buffer = MasterByte(i) /\ rx_buffer = <<>>
     /\ \/ shift = <<>> /\ ~sampled /\ slave_bytes = Beginning("master", i - 1)
        \/ /\ i > 1 /\ shift = MasterByte(i - 1) /\ sampled
           /\ slave_bytes = Beginning("master", i - 2)
  \/ /\ tx_buffer = <<>> /\ shift = MasterByte(i) /\ ~sampled /\ rx_buffer = <<>>
     /\ slave_bytes = Beginning("master", i - 1)
  \/ /\ tx_buffer = <<>> /\ shift = MasterByte(i) /\ sampled /\ rx_buffer = SlaveByte(i)
     /\ slave_bytes = Beginning("master", i - 1)
  \/ /\ tx_buffer = <<>> /\ shift = <<>> /\ ~sampled /\ rx_buffer = SlaveByte(i)
     /\ slave_bytes = Beginning("master", i)

\* What is in the peripheral when the master has read the bytes before i: the
\* last edge of the one before may still come.
Settled(i) ==
  /\ tx_buffer = <<>> /\ rx_buffer = <<>>
  /\ \/ shift = <<>> /\ ~sampled /\ slave_bytes = Beginning("master", i - 1)
     \/ /\ i > 1 /\ shift = MasterByte(i - 1) /\ sampled
        /\ slave_bytes = Beginning("master", i - 2)

PollInv ==
  /\ transaction \in Nat /\ poll_i \in Nat \ {0}
  /\ poll_pc \in {"idle", "write", "read", "finish"}
  /\ poll_pc = "idle" => tx_buffer = <<>> /\ shift = <<>> /\ rx_buffer = <<>> /\ ~sampled
  /\ poll_pc # "idle" => selected /\ rx_bytes = Beginning("slave", poll_i - 1)
  /\ poll_pc \in {"write", "read"} => poll_i <= PacketLen
  /\ poll_pc = "write" => Settled(poll_i)
  /\ poll_pc = "read" => Underway(poll_i)
  /\ poll_pc = "finish" => poll_i = PacketLen + 1 /\ Settled(poll_i)

-----------------------------------------------------------------------------
(* Facts about bytes and packets.                                          *)

\* A byte is not the empty register.
LEMMA BytesNotEmpty ==
  ASSUME NEW side, NEW n, NEW i
  PROVE  <<side, n, i>> # <<>>
<1>1. Len(<<side, n, i>>) = 3 /\ Len(<<>>) = 0
  OBVIOUS
<1>. QED  BY <1>1

\* The next byte, appended to a beginning of a packet, is a longer beginning.
LEMMA BeginningGrows ==
  ASSUME NEW side, NEW k \in Nat \ {0}
  PROVE  /\ Len(Beginning(side, k - 1)) = k - 1
         /\ Append(Beginning(side, k - 1), <<side, transaction, k>>) = Beginning(side, k)
<1>. DEFINE byte(i) == <<side, transaction, i>>
            n == k - 1
<1>1. Beginning(side, k - 1) = [i \in 1 .. n |-> byte(i)]
  BY DEF Beginning
<1>2. Beginning(side, k) = [i \in 1 .. n + 1 |-> byte(i)]
  BY DEF Beginning
<1>3. <<side, transaction, k>> = byte(n + 1) /\ n \in Nat
  OBVIOUS
<1>. HIDE DEF byte
<1>4. Len([i \in 1 .. n |-> byte(i)]) = n
  BY <1>3
<1>. HIDE DEF n
<1>5. Append([i \in 1 .. n |-> byte(i)], byte(n + 1)) = [i \in 1 .. n + 1 |-> byte(i)]
  BY <1>3
<1>. QED  BY <1>1, <1>2, <1>3, <1>4, <1>5 DEF n

\* All bytes are the packet.
LEMMA BeginningWhole ==
  ASSUME NEW side
  PROVE  Beginning(side, PacketLen) = Exchanged!Packet(side, transaction)
BY DEF Beginning, Exchanged!Packet

-----------------------------------------------------------------------------
(* Every step of the task and of the peripheral preserves the invariant.   *)

\* Only Telemetry_Send's end changes the number of the transaction.
LEMMA SelectInv ==
  ASSUME PollInv, Select
  PROVE  PollInv'
<1>1. /\ [i \in 1 .. 0 |-> <<"slave", transaction', i>>] = <<>>
      /\ [i \in 1 .. 0 |-> <<"master", transaction', i>>] = <<>>
  OBVIOUS
<1>2. poll_i' = 1 /\ poll_i' - 1 = 0 /\ poll_i' <= PacketLen
  BY PollingAssumption DEF Select
<1>3. Settled(poll_i)'
  BY <1>1, <1>2 DEF PollInv, Select, PollGoto, Settled, Beginning
<1>4. rx_bytes' = Beginning("slave", poll_i - 1)'
  BY <1>1, <1>2 DEF Select, Beginning
<1>. QED  BY <1>1, <1>2, <1>3, <1>4 DEF PollInv, Select, PollGoto

\* The byte that the task writes is under way, behind the last edge of the one before.
LEMMA PollWriteInv ==
  ASSUME PollInv, PollWrite
  PROVE  PollInv'
<1>1. Underway(poll_i)'
  BY DEF PollInv, PollWrite, PollGoto, Settled, Underway, MasterByte, Beginning
<1>. QED  BY <1>1 DEF PollInv, PollWrite, PollGoto, Beginning

\* RXNE means the awaited byte, and nothing is left in the receive buffer.
LEMMA PollReadInv ==
  ASSUME PollInv, PollRead
  PROVE  PollInv'
<1>1. /\ poll_pc = "read" /\ rx_buffer # <<>> /\ poll_i \in Nat \ {0} /\ poll_i <= PacketLen
      /\ Underway(poll_i) /\ rx_bytes = Beginning("slave", poll_i - 1)
  BY DEF PollInv, PollRead, RXNE
<1>2. /\ tx_buffer = <<>> /\ rx_buffer = SlaveByte(poll_i)
      /\ \/ shift = <<>> /\ ~sampled /\ slave_bytes = Beginning("master", poll_i)
         \/ /\ shift = MasterByte(poll_i) /\ sampled
            /\ slave_bytes = Beginning("master", poll_i - 1)
  BY <1>1 DEF Underway
<1>3. rx_bytes' = Beginning("slave", poll_i)
  <2>1. rx_bytes' = Append(rx_bytes, <<"slave", transaction, poll_i>>)
    BY <1>1, <1>2 DEF PollRead, SlaveByte
  <2>. QED  BY <1>1, <2>1, BeginningGrows
<1>4. Settled(poll_i)'
  BY <1>1, <1>2 DEF PollRead, Settled, MasterByte, Beginning
<1>. QED
  BY <1>1, <1>3, <1>4, PollingAssumption DEF PollInv, PollRead, Beginning

\* BSY keeps chip select low until the last edge: both sides hold the whole packet.
LEMMA DeselectExchanges ==
  ASSUME PollInv, Deselect
  PROVE  PollInv' /\ Exchanged!Exchange
<1>1. /\ poll_pc = "finish" /\ tx_buffer = <<>> /\ shift = <<>> /\ rx_buffer = <<>> /\ ~sampled
      /\ poll_i = PacketLen + 1 /\ poll_i - 1 = PacketLen
      /\ slave_bytes = Beginning("master", PacketLen)
      /\ rx_bytes = Beginning("slave", PacketLen)
  BY BytesNotEmpty, PollingAssumption
     DEF PollInv, Deselect, PollGoto, BSY, Settled, MasterByte
<1>2. transaction' \in Nat
  BY PollingAssumption DEF PollInv, Deselect
<1>3. PollInv'
  BY <1>1, <1>2 DEF PollInv, Deselect, PollGoto, hardware
<1>. QED  BY <1>1, <1>3, BeginningWhole DEF Deselect, Exchanged!Exchange

\* A byte enters the shift register when the one before has left it.
LEMMA LoadInv ==
  ASSUME PollInv, Load
  PROVE  PollInv'
<1>1. poll_pc = "read" /\ Underway(poll_i) /\ tx_buffer = MasterByte(poll_i) /\ shift = <<>>
      /\ rx_buffer = <<>> /\ slave_bytes = Beginning("master", poll_i - 1)
  BY BytesNotEmpty DEF PollInv, Load, Settled, Underway, MasterByte
<1>2. Underway(poll_i)'
  BY <1>1 DEF Load, Underway, MasterByte, Beginning
<1>. QED  BY <1>1, <1>2 DEF PollInv, Load, Beginning

\* The byte that is sampled is the awaited one and finds the receive buffer empty.
LEMMA SampleInv ==
  ASSUME PollInv, Sample
  PROVE  PollInv'
<1>1. /\ poll_pc = "read" /\ poll_i \in Nat \ {0} /\ tx_buffer = <<>>
      /\ shift = MasterByte(poll_i) /\ rx_buffer = <<>>
      /\ slave_bytes = Beginning("master", poll_i - 1)
  BY BytesNotEmpty DEF PollInv, Sample, Settled, Underway, MasterByte
<1>2. Len(slave_bytes) + 1 = poll_i
  <2>1. Len(slave_bytes) = poll_i - 1
    BY <1>1, BeginningGrows
  <2>. QED  BY <1>1, <2>1
<1>3. rx_buffer' = SlaveByte(poll_i)
  BY <1>1, <1>2 DEF Sample, RXNE, SlaveByte
<1>4. Underway(poll_i)'
  BY <1>1, <1>3 DEF Sample, Underway, MasterByte, SlaveByte, Beginning
<1>. QED  BY <1>1, <1>4 DEF PollInv, Sample, Beginning

\* At the last edge the slave has one byte more.
LEMMA LastEdgeInv ==
  ASSUME PollInv, LastEdge
  PROVE  PollInv'
<1>1. poll_pc # "idle" /\ selected /\ poll_i \in Nat \ {0}
  BY DEF PollInv, LastEdge
<1>. DEFINE Arrives(k) == /\ shift = MasterByte(k) /\ k \in Nat \ {0}
                          /\ slave_bytes = Beginning("master", k - 1)
<1>2. ASSUME NEW k, Arrives(k)
      PROVE  slave_bytes' = Beginning("master", k)
  <2>1. slave_bytes' = Append(slave_bytes, <<"master", transaction, k>>)
    BY <1>1, <1>2 DEF LastEdge, MasterByte
  <2>. QED  BY <1>2, <2>1, BeginningGrows
<1>3. ASSUME Settled(poll_i)
      PROVE  Settled(poll_i)'
  <2>1. Arrives(poll_i - 1) /\ tx_buffer = <<>> /\ rx_buffer = <<>>
    BY <1>1, <1>3, BytesNotEmpty DEF LastEdge, Settled
  <2>2. slave_bytes' = Beginning("master", poll_i - 1)
    BY <1>2, <2>1
  <2>. QED  BY <2>1, <2>2 DEF LastEdge, Settled, Beginning
<1>4. ASSUME Underway(poll_i)
      PROVE  Underway(poll_i)'
  <2>1. CASE tx_buffer = MasterByte(poll_i)
    <3>1. Arrives(poll_i - 1) /\ rx_buffer = <<>>
      BY <1>1, <1>4, <2>1, BytesNotEmpty DEF LastEdge, Underway, MasterByte
    <3>2. slave_bytes' = Beginning("master", poll_i - 1)
      BY <1>2, <3>1
    <3>. QED  BY <2>1, <3>1, <3>2 DEF LastEdge, Underway, MasterByte, Beginning
  <2>2. CASE tx_buffer # MasterByte(poll_i)
    <3>1. Arrives(poll_i) /\ tx_buffer = <<>> /\ rx_buffer = SlaveByte(poll_i)
      BY <1>1, <1>4, <2>2 DEF LastEdge, Underway
    <3>2. slave_bytes' = Beginning("master", poll_i)
      BY <1>2, <3>1
    <3>. QED  BY <3>1, <3>2 DEF LastEdge, Underway, SlaveByte, Beginning
  <2>. QED  BY <2>1, <2>2
<1>. QED  BY <1>1, <1>3, <1>4 DEF PollInv, LastEdge, Beginning

\* The inductive invariant holds throughout.
LEMMA PollSpecInv == PollSpec => []PollInv
<1>1. PollInit => PollInv
  BY DEF PollInit, PollInv
<1>2. ASSUME PollInv, [PollNext]_pollvars
      PROVE  PollInv'
  <2>1. CASE UNCHANGED pollvars
    BY <1>2, <2>1 DEF PollInv, pollvars, Settled, Underway, MasterByte, SlaveByte, Beginning
  <2>. QED  BY <1>2, <2>1, SelectInv, PollWriteInv, PollReadInv, DeselectExchanges, LoadInv,
                SampleInv, LastEdgeInv DEF PollNext, PollTask, PollHardware
<1>. QED  BY <1>1, <1>2, PTL DEF PollSpec

-----------------------------------------------------------------------------
\* Wherever the task is held up, a transaction of Telemetry_Send exchanges whole
\* packets, byte by byte in their places: the polled loop implements one step.
THEOREM PollingExchanges == PollSpec => ExchangeExact
<1>1. PollInit => Exchanged!Init
  BY DEF PollInit, Exchanged!Init
<1>2. ASSUME PollInv, [PollNext]_pollvars
      PROVE  [Exchanged!Exchange]_<<transaction, delivered, returned>>
  BY <1>2, DeselectExchanges DEF PollNext, PollTask, PollHardware, Select, PollWrite, PollRead,
     Load, Sample, LastEdge, pollvars
<1>. QED  BY <1>1, <1>2, PollSpecInv, PTL DEF PollSpec, ExchangeExact, Exchanged!Spec

-----------------------------------------------------------------------------
(* Facts about handles and frames, for the three drivers.                  *)

\* A transfer that begins, and no transfer.
LEMMA HandleOpened ==
  ASSUME NEW n \in 1 .. LenSpan - 1
  PROVE  /\ Opened(n) \in Handle /\ Closed \in Handle
         /\ Opened(n).busy = TRUE /\ Opened(n).len = n /\ Opened(n).buf = 1
         /\ Closed.busy = FALSE /\ Closed.len = 0
BY LenAssumption DEF Opened, Closed, Handle

\* The length of a transfer that is not over does not wrap.
LEMMA HandleAdvanced ==
  ASSUME NEW h \in Handle, h.len > 0
  PROVE  /\ Advanced(h) \in Handle
         /\ Advanced(h).busy = h.busy /\ Advanced(h).len = h.len - 1
         /\ Advanced(h).buf = h.buf + 1
<1>1. h.len - 1 \in 0 .. LenSpan - 1 /\ (h.len - 1) % LenSpan = h.len - 1
  BY LenAssumption DEF Handle
<1>2. Advanced(h) = [h EXCEPT !.len = h.len - 1, !.buf = h.buf + 1]
  BY <1>1 DEF Advanced
<1>3. Advanced(h) = [busy |-> h.busy, len |-> h.len - 1, buf |-> h.buf + 1]
  BY <1>2 DEF Handle
<1>. QED  BY <1>1, <1>3 DEF Handle

\* The next frame keeps the order.
LEMMA NextInOrder ==
  ASSUME NEW s \in Seq(Nat), InOrder(s), NEW f, f = Len(s) + 1
  PROVE  /\ Append(s, f) \in Seq(Nat) /\ InOrder(Append(s, f))
         /\ Len(Append(s, f)) = Len(s) + 1
BY DEF InOrder

\* Frames that arrive are stored one after the other.
LEMMA NextArrives ==
  ASSUME NEW s \in Seq(Nat), Arriving(s), NEW f \in Nat,
         \A i \in DOMAIN s : s[i] = 0 \/ s[i] < f
  PROVE  /\ Append(s, f) \in Seq(Nat) /\ Arriving(Append(s, f))
         /\ Len(Append(s, f)) = Len(s) + 1
         /\ \A i \in DOMAIN Append(s, f) : Append(s, f)[i] = f \/ \E j \in DOMAIN s :
                                                                    Append(s, f)[i] = s[j]
BY DEF Arriving

\* Nothing is in order.
LEMMA NoneInOrder ==
  <<>> \in Seq(Nat) /\ InOrder(<<>>) /\ Arriving(<<>>) /\ Len(<<>>) = 0 /\ DOMAIN <<>> = {}
BY DEF InOrder, Arriving

-----------------------------------------------------------------------------
(* The SPI driver, for a tidy application.                                 *)
(*                                                                         *)
(* The frames written and exchanged differ by what is in DR; a frame that  *)
(* waits to be stored is younger than those that were.  A call whose       *)
(* update of CR2 is a load and a store cannot be interrupted in between:   *)
(* the first finds no interrupt enabled, and by the second the handler has *)
(* stored the frame that was left in DR, while the next one waits for this *)
(* very call.  This is where the application has to be tidy.               *)

SpiTypes ==
  /\ spi_plan \in {<<"receive", "send">>, <<"send">>}
  /\ \/ spi_pc \in {Point("ready", "send"), Point("load", "send"), Point("store", "send")}
     \/ /\ spi_pc \in {Point("load", "receive"), Point("store", "receive"),
                      Point("between", "receive")}
        /\ spi_plan = <<"receive", "send">>
  /\ cr2 \subseteq {"TXEIE", "RXNEIE"}
  /\ spi_tx \in Handle /\ spi_rx \in Handle
  /\ spi_goal \in Nat /\ exchanged \in Nat
  /\ spi_tdr \in Nat \cup {Empty} /\ spi_rdr \in Nat \cup {Empty}
  /\ spi_sent \in Seq(Nat) /\ spi_got \in Seq(Nat)
  /\ spi_said \in [{"send", "receive"} -> {"none", "complete"}]

\* Nothing moves before TXEIE is set, and no handler runs while CR2 is updated.
SpiCalls ==
  /\ spi_pc.step # "ready" => /\ exchanged = 0 /\ spi_tdr = Empty /\ "TXEIE" \notin cr2
                              /\ spi_goal \in SpiLengths
  /\ spi_pc.step \in {"load", "store"} => ~SpiRxne
  /\ spi_pc.step = "store" => spi_read = cr2
  /\ spi_pc \in {Point("load", "receive"), Point("store", "receive")} => spi_rx.busy
  /\ spi_pc \in {Point("load", "send"), Point("store", "send")} => spi_tx.busy /\ Len(spi_sent) = 0

\* What has been written and exchanged, once the frames to send were handed over.
SpiSending ==
  spi_pc.what = "send" =>
    /\ exchanged = IF spi_tdr = Empty THEN Len(spi_sent) ELSE Len(spi_sent) - 1
    /\ spi_tx.busy => /\ spi_goal \in SpiLengths /\ Len(spi_sent) < spi_goal
                      /\ spi_tx.len = spi_goal - Len(spi_sent)
                      /\ spi_tx.buf = Len(spi_sent) + 1

\* What has been stored, and what waits for it.
SpiReceiving ==
  spi_rx.busy => /\ spi_goal \in SpiLengths /\ Len(spi_got) < spi_goal
                 /\ spi_rx.len = spi_goal - Len(spi_got)
                 /\ spi_rdr <= exchanged
                 /\ \A i \in DOMAIN spi_got : /\ spi_got[i] <= exchanged
                                              /\ spi_rdr # Empty => \/ spi_got[i] = 0
                                                                    \/ spi_got[i] < spi_rdr

SpiInv ==
  /\ SpiTypes /\ SpiCalls /\ SpiSending /\ SpiReceiving
  /\ spi_pc.what = "receive" => ~spi_tx.busy
  /\ SpiInterruptsServed
  /\ SpiFramesInOrder

\* Each direction takes a step of ByteTransfer, or none.
SpiKept == [SpiSend!Next]_(SpiSend!vars) /\ [SpiReceive!Next]_(SpiReceive!vars)

\* The application begins an exchange.
LEMMA SpiCallFirst ==
  ASSUME spi_tidy, SpiInv, NEW n \in SpiLengths, NEW plan \in SpiPlans, CallFirst(n, plan)
  PROVE  SpiInv' /\ SpiKept
<1>. USE DEF SpiInv
<1>1. /\ spi_pc.step = "ready" /\ ~spi_tx.busy /\ ~spi_rx.busy /\ spi_tdr = Empty
      /\ spi_goal' = n /\ exchanged' = 0 /\ spi_rdr' = LeftOver(spi_rdr) /\ spi_plan' = plan
      /\ spi_pc' = Point("load", plan[1])
      /\ UNCHANGED <<spi_tidy, cr2, spi_read, spi_tdr>>
      /\ plan \in {<<"receive", "send">>, <<"send">>}
      /\ OpenDirection(plan[1], n)
  BY DEF CallFirst, SpiPlans
<1>2. n \in 1 .. LenSpan - 1 /\ n \in Nat /\ cr2 = {} /\ spi_rdr' \in {Empty, 0}
  BY <1>1, SpiAssumption, LenAssumption
     DEF SpiInterruptsServed, SpiTypes, LeftOver
<1>3. Opened(n) \in Handle /\ Opened(n).busy = TRUE /\ Opened(n).len = n /\ Opened(n).buf = 1
  BY <1>2, HandleOpened
<1>4. CASE plan = <<"receive", "send">>
  <2>1. /\ spi_rx' = Opened(n) /\ spi_got' = <<>> /\ UNCHANGED <<spi_tx, spi_sent>>
        /\ spi_said' = [spi_said EXCEPT !["receive"] = "none"]
        /\ spi_pc' = Point("load", "receive")
    BY <1>1, <1>4 DEF OpenDirection
  <2>2. SpiTypes'
    <3>1. spi_said' \in [{"send", "receive"} -> {"none", "complete"}]
      BY <2>1 DEF SpiTypes
    <3>. QED  BY <1>1, <1>2, <1>3, <1>4, <2>1, <3>1, NoneInOrder DEF SpiTypes
  <2>3. SpiCalls' /\ SpiSending'
    BY <1>1, <1>2, <1>3, <2>1 DEF SpiCalls, SpiSending, SpiRxne, Point
  <2>4. SpiReceiving'
    BY <1>1, <1>2, <1>3, <2>1, NoneInOrder DEF SpiReceiving, Empty
  <2>5. SpiInterruptsServed' /\ SpiFramesInOrder'
    BY <1>1, <1>2, <1>3, <2>1, NoneInOrder DEF SpiInterruptsServed, SpiFramesInOrder
  <2>6. SpiReceive!Begin(n) /\ UNCHANGED SpiSend!vars
    BY <1>1, <1>3, <2>1, NoneInOrder DEF SpiReceive!Begin, SpiSend!vars, SpiTypes
  <2>. QED  BY <1>1, <2>1, <2>2, <2>3, <2>4, <2>5, <2>6 DEF SpiKept, SpiReceive!Next
<1>5. CASE plan = <<"send">>
  <2>1. /\ spi_tx' = Opened(n) /\ spi_sent' = <<>> /\ UNCHANGED <<spi_rx, spi_got>>
        /\ spi_said' = [spi_said EXCEPT !["send"] = "none"]
        /\ spi_pc' = Point("load", "send")
    BY <1>1, <1>5 DEF OpenDirection
  <2>2. SpiTypes'
    <3>1. spi_said' \in [{"send", "receive"} -> {"none", "complete"}]
      BY <2>1 DEF SpiTypes
    <3>. QED  BY <1>1, <1>2, <1>3, <1>5, <2>1, <3>1, NoneInOrder DEF SpiTypes
  <2>3. SpiCalls' /\ SpiSending'
    BY <1>1, <1>2, <1>3, <2>1, NoneInOrder DEF SpiCalls, SpiSending, SpiRxne, Point
  <2>4. SpiReceiving'
    BY <1>1, <2>1 DEF SpiReceiving
  <2>5. SpiInterruptsServed' /\ SpiFramesInOrder'
    BY <1>1, <1>2, <1>3, <2>1, NoneInOrder DEF SpiInterruptsServed, SpiFramesInOrder
  <2>6. SpiSend!Begin(n) /\ UNCHANGED SpiReceive!vars
    BY <1>1, <1>3, <2>1, NoneInOrder DEF SpiSend!Begin, SpiReceive!vars, SpiTypes
  <2>7. spi_pc'.what = "send"
    BY <2>1 DEF Point
  <2>. QED  BY <2>2, <2>3, <2>4, <2>5, <2>6, <2>7 DEF SpiKept, SpiSend!Next
<1>. QED  BY <1>1, <1>4, <1>5

\* The second call hands over the frames to send.
LEMMA SpiCallSecond ==
  ASSUME spi_tidy, SpiInv, CallSecond, ~SpiRxne
  PROVE  SpiInv' /\ SpiKept
<1>. USE DEF SpiInv
<1>1. /\ spi_pc = Point("between", "receive") /\ spi_plan = <<"receive", "send">>
      /\ ~spi_tx.busy /\ spi_tx' = Opened(spi_goal) /\ spi_sent' = <<>>
      /\ spi_pc' = Point("load", "send")
      /\ spi_said' = [spi_said EXCEPT !["send"] = "none"]
      /\ UNCHANGED <<spi_rx, spi_got, cr2, spi_tidy, spi_plan, spi_read, spi_goal, spihw>>
  <2>1. spi_pc = Point("between", "receive") /\ spi_plan = <<"receive", "send">>
    BY DEF CallSecond, SpiTypes, Point
  <2>2. spi_plan[2] = "send" /\ "send" # "receive"
    BY <2>1
  <2>. QED  BY <2>1, <2>2 DEF CallSecond, OpenDirection
<1>2. /\ exchanged = 0 /\ spi_tdr = Empty /\ "TXEIE" \notin cr2 /\ spi_goal \in SpiLengths
      /\ spi_goal \in 1 .. LenSpan - 1 /\ spi_goal \in Nat \ {0}
  BY <1>1, SpiAssumption DEF SpiCalls, SpiTypes, Point
<1>3. /\ Opened(spi_goal) \in Handle /\ Opened(spi_goal).busy = TRUE
      /\ Opened(spi_goal).len = spi_goal /\ Opened(spi_goal).buf = 1
  BY <1>2, HandleOpened
<1>4. SpiTypes'
  <2>1. spi_said' \in [{"send", "receive"} -> {"none", "complete"}]
    BY <1>1 DEF SpiTypes
  <2>. QED  BY <1>1, <1>3, <2>1, NoneInOrder DEF SpiTypes, spihw
<1>5. SpiCalls' /\ SpiSending'
  BY <1>1, <1>2, <1>3, NoneInOrder DEF SpiCalls, SpiSending, SpiRxne, Point, spihw
<1>6. SpiReceiving'
  BY <1>1 DEF SpiReceiving, spihw
<1>7. SpiInterruptsServed' /\ SpiFramesInOrder' /\ spi_pc'.what = "send"
  BY <1>1, <1>2, <1>3, NoneInOrder DEF SpiInterruptsServed, SpiFramesInOrder, Point
<1>8. SpiSend!Begin(spi_goal) /\ UNCHANGED SpiReceive!vars
  BY <1>1, <1>3, NoneInOrder DEF SpiSend!Begin, SpiReceive!vars, SpiTypes
<1>. QED  BY <1>2, <1>4, <1>5, <1>6, <1>7, <1>8 DEF SpiKept, SpiSend!Next

\* CR2 is read: no interrupt is pending.
LEMMA SpiLoad ==
  ASSUME spi_tidy, SpiInv, NEW d \in {"send", "receive"}, LoadCR2(d)
  PROVE  SpiInv' /\ SpiKept
<1>. USE DEF SpiInv
<1>1. /\ spi_pc = Point("load", d) /\ spi_pc' = Point("store", d) /\ spi_read' = cr2
      /\ UNCHANGED <<spi_tx, spi_rx, cr2, spi_tidy, spi_plan, spi_goal, spihw, spilog>>
  BY DEF LoadCR2
<1>2. SpiTypes'
  BY <1>1 DEF SpiTypes, Point, spihw, spilog
<1>3. SpiCalls'
  BY <1>1 DEF SpiCalls, SpiRxne, Point, spihw, spilog
<1>4. SpiSending' /\ SpiReceiving' /\ (spi_pc.what = "receive" => ~spi_tx.busy)'
  BY <1>1 DEF SpiSending, SpiReceiving, Point, spihw, spilog
<1>5. SpiInterruptsServed' /\ SpiFramesInOrder'
  BY <1>1 DEF SpiInterruptsServed, SpiFramesInOrder, spilog
<1>6. SpiKept
  BY <1>1 DEF SpiKept, SpiSend!vars, SpiReceive!vars, spilog
<1>. QED  BY <1>2, <1>3, <1>4, <1>5, <1>6

\* CR2 is written: nothing has changed it since it was read.
LEMMA SpiStore ==
  ASSUME spi_tidy, SpiInv, NEW d \in {"send", "receive"}, StoreCR2(d)
  PROVE  SpiInv' /\ SpiKept
<1>. USE DEF SpiInv
<1>1. /\ spi_pc = Point("store", d) /\ cr2' = cr2 \cup {EnableBit(d)}
      /\ spi_pc' = Point(IF d = "receive" THEN "between" ELSE "ready", d)
      /\ UNCHANGED <<spi_tx, spi_rx, spi_tidy, spi_plan, spi_read, spi_goal, spihw, spilog>>
  <2>1. spi_pc = Point("store", d) /\ spi_read = cr2
    BY DEF StoreCR2, SpiCalls, Point
  <2>2. d = "receive" => spi_plan = <<"receive", "send">>
    BY <2>1 DEF SpiTypes, Point
  <2>3. (d = spi_plan[1] /\ Len(spi_plan) = 2) <=> d = "receive"
    <3>1. CASE spi_plan = <<"receive", "send">>
      <4>1. spi_plan[1] = "receive" /\ Len(spi_plan) = 2
        BY <3>1
      <4>. QED  BY <4>1
    <3>2. CASE spi_plan = <<"send">>
      <4>1. Len(spi_plan) = 1 /\ <<"send">> # <<"receive", "send">>
        BY <3>2
      <4>. QED  BY <2>2, <3>2, <4>1
    <3>. QED  BY <3>1, <3>2 DEF SpiTypes
  <2>4. spi_pc' = Point(IF d = spi_plan[1] /\ Len(spi_plan) = 2 THEN "between" ELSE "ready", d)
    BY DEF StoreCR2
  <2>5. spi_pc' = Point(IF d = "receive" THEN "between" ELSE "ready", d)
    BY <2>3, <2>4
  <2>. QED  BY <2>1, <2>5 DEF StoreCR2
<1>2. SpiTypes'
  BY <1>1 DEF SpiTypes, Point, spihw, spilog, EnableBit
<1>3. SpiCalls'
  BY <1>1 DEF SpiCalls, Point, spihw, spilog, EnableBit
<1>4. SpiSending' /\ SpiReceiving' /\ (spi_pc.what = "receive" => ~spi_tx.busy)'
  BY <1>1 DEF SpiSending, SpiReceiving, Point, spihw, spilog
<1>5. SpiInterruptsServed' /\ SpiFramesInOrder'
  BY <1>1 DEF SpiInterruptsServed, SpiFramesInOrder, SpiCalls, EnableBit, spilog
<1>6. SpiKept
  BY <1>1 DEF SpiKept, SpiSend!vars, SpiReceive!vars, spilog
<1>. QED  BY <1>2, <1>3, <1>4, <1>5, <1>6

\* A frame is exchanged: the answer waits in DR, unless an older one does.
LEMMA SpiWire ==
  ASSUME spi_tidy, SpiInv, SpiExchange
  PROVE  SpiInv' /\ SpiKept
<1>. USE DEF SpiInv
<1>1. /\ spi_tdr # Empty /\ exchanged' = exchanged + 1 /\ spi_tdr' = Empty
      /\ spi_rdr' = IF spi_rdr = Empty THEN exchanged + 1 ELSE spi_rdr
      /\ UNCHANGED <<spi_tx, spi_rx, cr2, spi_tidy, spi_plan, spi_pc, spi_read, spi_goal, spilog>>
  BY DEF SpiExchange
<1>2. spi_pc.step = "ready" /\ exchanged \in Nat
  BY <1>1 DEF SpiCalls, SpiTypes
<1>3. SpiTypes'
  BY <1>1 DEF SpiTypes, spilog
<1>4. SpiCalls'
  BY <1>1, <1>2 DEF SpiCalls, SpiTypes, Point
<1>5. SpiSending'
  <2>1. spi_pc.what = "send"
    BY <1>2 DEF SpiTypes, Point
  <2>2. exchanged' = Len(spi_sent)
    BY <1>1, <1>2, <2>1 DEF SpiSending, SpiTypes
  <2>. QED  BY <1>1, <2>2 DEF SpiSending, spilog
<1>6. SpiReceiving'
  <2>1. SUFFICES ASSUME spi_rx.busy
                 PROVE  SpiReceiving'
    BY <1>1 DEF SpiReceiving
  <2>2. \A i \in DOMAIN spi_got : spi_got[i] \in Nat
    BY DEF SpiTypes
  <2>3. spi_rdr' <= exchanged'
    BY <1>1, <1>2, <2>1 DEF SpiReceiving, SpiTypes, Empty
  <2>4. ASSUME NEW i \in DOMAIN spi_got
        PROVE  /\ spi_got[i] <= exchanged'
               /\ spi_rdr' # Empty => spi_got[i] = 0 \/ spi_got[i] < spi_rdr'
    BY <1>1, <1>2, <2>1, <2>2, <2>4 DEF SpiReceiving
  <2>. QED  BY <1>1, <2>1, <2>3, <2>4 DEF SpiReceiving, spilog
<1>7. SpiInterruptsServed' /\ SpiFramesInOrder'
  BY <1>1 DEF SpiInterruptsServed, SpiFramesInOrder, spilog
<1>8. SpiKept
  BY <1>1 DEF SpiKept, SpiSend!vars, SpiReceive!vars, spilog
<1>. QED  BY <1>1, <1>3, <1>4, <1>5, <1>6, <1>7, <1>8

\* The last frame closes a direction, the others advance it.
LEMMA Closes ==
  ASSUME NEW h \in Handle, h.len > 0
  PROVE  /\ h.len = 1 => CloseAtEnd(h) = Closed /\ Ends(h)
         /\ h.len # 1 => CloseAtEnd(h) = Advanced(h) /\ ~Ends(h)
BY HandleAdvanced DEF CloseAtEnd, Ends, Handle

\* The transmit part of the handler.
LEMMA SpiTxPart ==
  ASSUME spi_tidy, SpiInv, SPI_IRQHandling, SpiTxe
  PROVE  /\ spi_tx.busy /\ spi_tx' \in Handle /\ spi_goal \in SpiLengths /\ spi_pc.step = "ready"
         /\ spi_sent' \in Seq(Nat) /\ InOrder(spi_sent') /\ Len(spi_sent') = Len(spi_sent) + 1
         /\ spi_tdr' = Len(spi_sent) + 1 /\ exchanged = Len(spi_sent)
         /\ Len(spi_sent) < spi_goal
         /\ spi_tx'.busy => /\ spi_tx'.len = spi_goal - Len(spi_sent')
                            /\ spi_tx'.buf = Len(spi_sent') + 1
         /\ spi_tx'.busy <=> Len(spi_sent') < spi_goal
         /\ Ends(spi_tx) <=> ~spi_tx'.busy
<1>1. /\ spi_tx.busy /\ spi_tdr = Empty /\ spi_pc.step = "ready" /\ spi_pc.what = "send"
      /\ spi_sent \in Seq(Nat) /\ InOrder(spi_sent) /\ spi_tx \in Handle /\ spi_goal \in Nat
  BY DEF SpiInv, SpiTypes, SpiCalls, SpiInterruptsServed, SpiFramesInOrder, SpiTxe, Point
<1>2. /\ Len(spi_sent) < spi_goal /\ spi_tx.len = spi_goal - Len(spi_sent)
      /\ spi_tx.buf = Len(spi_sent) + 1 /\ exchanged = Len(spi_sent) /\ spi_goal \in SpiLengths
  BY <1>1 DEF SpiInv, SpiSending
<1>3. /\ spi_tx' = CloseAtEnd(spi_tx) /\ spi_tdr' = spi_tx.buf
      /\ spi_sent' = Append(spi_sent, spi_tx.buf)
  BY DEF SPI_IRQHandling
<1>4. Len(spi_sent) \in Nat /\ spi_tx.len > 0
  BY <1>1, <1>2
<1>5. /\ spi_sent' \in Seq(Nat) /\ InOrder(spi_sent') /\ Len(spi_sent') = Len(spi_sent) + 1
  BY <1>1, <1>2, <1>3, NextInOrder
<1>6. CASE spi_tx.len = 1
  <2>1. spi_tx' = Closed /\ Ends(spi_tx)
    BY <1>1, <1>3, <1>4, <1>6, Closes
  <2>2. spi_tx' \in Handle /\ spi_tx'.busy = FALSE
    BY <2>1, LenAssumption DEF Closed, Handle
  <2>. QED  BY <1>1, <1>2, <1>3, <1>4, <1>5, <1>6, <2>1, <2>2
<1>7. CASE spi_tx.len # 1
  <2>1. spi_tx' = Advanced(spi_tx) /\ ~Ends(spi_tx)
    BY <1>1, <1>3, <1>4, <1>7, Closes
  <2>2. /\ spi_tx' \in Handle /\ spi_tx'.busy = TRUE
        /\ spi_tx'.len = spi_tx.len - 1 /\ spi_tx'.buf = spi_tx.buf + 1
    BY <1>1, <1>4, <2>1, HandleAdvanced
  <2>. QED  BY <1>1, <1>2, <1>3, <1>4, <1>5, <1>7, <2>1, <2>2
<1>. QED  BY <1>6, <1>7

\* The receive part of the handler.
LEMMA SpiRxPart ==
  ASSUME spi_tidy, SpiInv, SPI_IRQHandling, SpiRxne
  PROVE  /\ spi_rx.busy /\ spi_rx' \in Handle /\ spi_goal \in SpiLengths
         /\ spi_got' \in Seq(Nat) /\ Arriving(spi_got') /\ Len(spi_got') = Len(spi_got) + 1
         /\ \A i \in DOMAIN spi_got' : spi_got'[i] <= exchanged
         /\ spi_rdr' = Empty /\ Len(spi_got) < spi_goal
         /\ spi_rx'.busy => spi_rx'.len = spi_goal - Len(spi_got')
         /\ spi_rx'.busy <=> Len(spi_got') < spi_goal
         /\ Ends(spi_rx) <=> ~spi_rx'.busy
<1>1. /\ spi_rx.busy /\ spi_rdr \in Nat /\ spi_rdr # Empty /\ exchanged \in Nat
      /\ spi_got \in Seq(Nat) /\ Arriving(spi_got) /\ spi_rx \in Handle /\ spi_goal \in Nat
  BY DEF SpiInv, SpiTypes, SpiInterruptsServed, SpiFramesInOrder, SpiRxne
<1>2. /\ Len(spi_got) < spi_goal /\ spi_rx.len = spi_goal - Len(spi_got)
      /\ spi_goal \in SpiLengths /\ spi_rdr <= exchanged
      /\ \A i \in DOMAIN spi_got : /\ spi_got[i] <= exchanged
                                   /\ spi_got[i] = 0 \/ spi_got[i] < spi_rdr
  BY <1>1 DEF SpiInv, SpiReceiving
<1>3. /\ spi_rx' = CloseAtEnd(spi_rx) /\ spi_rdr' = Empty
      /\ spi_got' = Append(spi_got, spi_rdr)
  BY DEF SPI_IRQHandling
<1>4. Len(spi_got) \in Nat /\ spi_rx.len > 0
  BY <1>1, <1>2
<1>5. /\ spi_got' \in Seq(Nat) /\ Arriving(spi_got') /\ Len(spi_got') = Len(spi_got) + 1
      /\ \A i \in DOMAIN spi_got' : spi_got'[i] <= exchanged
  <2>1. /\ Append(spi_got, spi_rdr) \in Seq(Nat) /\ Arriving(Append(spi_got, spi_rdr))
        /\ Len(Append(spi_got, spi_rdr)) = Len(spi_got) + 1
        /\ \A i \in DOMAIN Append(spi_got, spi_rdr) :
             \/ Append(spi_got, spi_rdr)[i] = spi_rdr
             \/ \E j \in DOMAIN spi_got : Append(spi_got, spi_rdr)[i] = spi_got[j]
    BY <1>1, <1>2, NextArrives
  <2>. QED  BY <1>2, <1>3, <2>1
<1>6. CASE spi_rx.len = 1
  <2>1. spi_rx' = Closed /\ Ends(spi_rx)
    BY <1>1, <1>3, <1>4, <1>6, Closes
  <2>2. spi_rx' \in Handle /\ spi_rx'.busy = FALSE
    BY <2>1, LenAssumption DEF Closed, Handle
  <2>. QED  BY <1>1, <1>2, <1>3, <1>4, <1>5, <1>6, <2>1, <2>2
<1>7. CASE spi_rx.len # 1
  <2>1. spi_rx' = Advanced(spi_rx) /\ ~Ends(spi_rx)
    BY <1>1, <1>3, <1>4, <1>7, Closes
  <2>2. /\ spi_rx' \in Handle /\ spi_rx'.busy = TRUE
        /\ spi_rx'.len = spi_rx.len - 1
    BY <1>1, <1>4, <2>1, HandleAdvanced
  <2>. QED  BY <1>1, <1>2, <1>3, <1>4, <1>5, <1>7, <2>1, <2>2
<1>. QED  BY <1>6, <1>7

\* The handler moves the frames, and closes a direction with its last one.
LEMMA SpiHandled ==
  ASSUME spi_tidy, SpiInv, SPI_IRQHandling
  PROVE  SpiInv' /\ SpiKept
<1>1. /\ SpiTypes /\ SpiCalls /\ SpiSending /\ SpiReceiving
      /\ SpiInterruptsServed /\ SpiFramesInOrder
      /\ spi_pc.what = "receive" => ~spi_tx.busy
  BY DEF SpiInv
<1>2. UNCHANGED <<spi_tidy, spi_plan, spi_pc, spi_read, spi_goal, exchanged>>
  BY DEF SPI_IRQHandling
<1>3. ~SpiTxe => UNCHANGED <<spi_tx, spi_tdr, spi_sent>>
  BY DEF SPI_IRQHandling
<1>4. ~SpiRxne => UNCHANGED <<spi_rx, spi_rdr, spi_got>>
  BY DEF SPI_IRQHandling
<1>5. spi_pc.step \in {"ready", "between"}
  <2>1. SpiTxe => spi_pc.step = "ready"
    BY SpiTxPart
  <2>2. SpiRxne => spi_pc.step \notin {"load", "store"}
    BY <1>1 DEF SpiCalls
  <2>. QED  BY <1>1, <2>1, <2>2 DEF SPI_IRQHandling, SpiTypes, Point
<1>6. /\ cr2' \subseteq cr2
      /\ "TXEIE" \in cr2' => spi_tx'.busy
      /\ "RXNEIE" \in cr2' => spi_rx'.busy
  <2>1. /\ cr2' \subseteq cr2
        /\ "TXEIE" \in cr2' /\ SpiTxe => ~Ends(spi_tx)
        /\ "RXNEIE" \in cr2' /\ SpiRxne => ~Ends(spi_rx)
    BY DEF SPI_IRQHandling
  <2>. QED  BY <1>1, <1>3, <1>4, <2>1, SpiTxPart, SpiRxPart DEF SpiInterruptsServed
<1>7. /\ spi_said'.send = IF SpiTxe /\ ~spi_tx'.busy THEN "complete" ELSE spi_said.send
      /\ spi_said'.receive = IF SpiRxne /\ ~spi_rx'.busy THEN "complete"
                                                         ELSE spi_said.receive
      /\ spi_said' \in [{"send", "receive"} -> {"none", "complete"}]
  BY <1>1, SpiTxPart, SpiRxPart DEF SPI_IRQHandling, SpiTypes
<1>8. SpiTypes'
  <2>1. spi_tx' \in Handle /\ spi_sent' \in Seq(Nat) /\ spi_tdr' \in Nat \cup {Empty}
    <3>1. SpiTxe => Len(spi_sent) + 1 \in Nat
      BY <1>1 DEF SpiTypes
    <3>. QED  BY <1>1, <1>3, <3>1, SpiTxPart DEF SpiTypes
  <2>2. spi_rx' \in Handle /\ spi_got' \in Seq(Nat) /\ spi_rdr' \in Nat \cup {Empty}
    BY <1>1, <1>4, SpiRxPart DEF SpiTypes
  <2>. QED  BY <1>1, <1>2, <1>6, <1>7, <2>1, <2>2 DEF SpiTypes
<1>9. SpiCalls'
  <2>1. SpiTxe => spi_pc.step = "ready"
    BY SpiTxPart
  <2>. QED  BY <1>1, <1>2, <1>3, <1>5, <1>6, <2>1 DEF SpiCalls, Point
<1>10. SpiSending'
  <2>1. CASE SpiTxe
    <3>1. Len(spi_sent) \in Nat /\ spi_goal \in Nat /\ Len(spi_sent) + 1 # Empty
      BY <1>1 DEF SpiTypes, Empty
    <3>. QED  BY <1>2, <2>1, <3>1, SpiTxPart DEF SpiSending
  <2>2. CASE ~SpiTxe
    BY <1>1, <1>2, <1>3, <2>2 DEF SpiSending
  <2>. QED  BY <2>1, <2>2
<1>11. SpiReceiving'
  <2>1. CASE SpiRxne
    <3>1. exchanged \in Nat
      BY <1>1 DEF SpiTypes
    <3>. QED  BY <1>2, <2>1, <3>1, SpiRxPart DEF SpiReceiving, Empty
  <2>2. CASE ~SpiRxne
    BY <1>1, <1>2, <1>4, <2>2 DEF SpiReceiving
  <2>. QED  BY <2>1, <2>2
<1>12. SpiInterruptsServed' /\ SpiFramesInOrder'
  BY <1>1, <1>3, <1>4, <1>6, SpiTxPart, SpiRxPart DEF SpiInterruptsServed, SpiFramesInOrder
<1>13. (spi_pc.what = "receive" => ~spi_tx.busy)'
  BY <1>1, <1>2, <1>3, SpiTxPart
<1>14. SpiInv'
  BY <1>8, <1>9, <1>10, <1>11, <1>12, <1>13 DEF SpiInv
<1>15. [SpiSend!Next]_(SpiSend!vars)
  <2>1. CASE SpiTxe
    <3>1. Len(spi_sent) \in Nat /\ spi_goal \in Nat
      BY <1>1 DEF SpiTypes
    <3>2. CASE spi_tx'.busy
      BY <1>2, <1>7, <2>1, <3>1, <3>2, SpiTxPart DEF SpiSend!Next, SpiSend!Move
    <3>3. CASE ~spi_tx'.busy
      BY <1>2, <1>7, <2>1, <3>1, <3>3, SpiTxPart DEF SpiSend!Next, SpiSend!Complete
    <3>. QED  BY <3>2, <3>3
  <2>2. CASE ~SpiTxe
    BY <1>2, <1>3, <1>7, <2>2 DEF SpiSend!vars
  <2>. QED  BY <2>1, <2>2
<1>16. [SpiReceive!Next]_(SpiReceive!vars)
  <2>1. CASE SpiRxne
    <3>1. Len(spi_got) \in Nat /\ spi_goal \in Nat
      BY <1>1 DEF SpiTypes
    <3>2. CASE spi_rx'.busy
      BY <1>2, <1>7, <2>1, <3>1, <3>2, SpiRxPart DEF SpiReceive!Next, SpiReceive!Move
    <3>3. CASE ~spi_rx'.busy
      BY <1>2, <1>7, <2>1, <3>1, <3>3, SpiRxPart DEF SpiReceive!Next, SpiReceive!Complete
    <3>. QED  BY <3>2, <3>3
  <2>2. CASE ~SpiRxne
    BY <1>2, <1>4, <1>7, <2>2 DEF SpiReceive!vars
  <2>. QED  BY <2>1, <2>2
<1>. QED  BY <1>14, <1>15, <1>16 DEF SpiKept

\* Every step of the driver, its callers and the line.
LEMMA SpiStepInv ==
  ASSUME spi_tidy => SpiInv, [SpiNext]_spivars
  PROVE  (spi_tidy => SpiInv)' /\ SpiKept
<1>1. spi_tidy' = spi_tidy
  BY DEF SpiNext, SpiTask, CallFirst, CallSecond, LoadCR2, StoreCR2, SPI_IRQHandling, SpiExchange,
     spivars
<1>2. CASE ~spi_tidy
  BY <1>1, <1>2 DEF SpiKept, SpiSend!vars, SpiReceive!vars
<1>3. CASE spi_tidy /\ UNCHANGED spivars
  <2>1. SpiKept
    BY <1>3 DEF SpiKept, SpiSend!vars, SpiReceive!vars, spivars, spilog
  <2>2. SpiInv'
    BY <1>3 DEF SpiInv, SpiTypes, SpiCalls, SpiSending, SpiReceiving, SpiInterruptsServed,
       SpiFramesInOrder, SpiRxne, spivars, spilog, spihw
  <2>. QED  BY <2>1, <2>2
<1>. QED  BY <1>1, <1>2, <1>3, SpiCallFirst, SpiCallSecond, SpiLoad, SpiStore, SpiWire, SpiHandled
          DEF SpiNext, SpiTask

-----------------------------------------------------------------------------
(* The USART driver.                                                       *)
(*                                                                         *)
(* The frames on the line, in the shift register, in DR and left to write  *)
(* add up to the transfer; a frame stored is younger than all before it.   *)
(* That is so whatever becomes of CR1.                                     *)
(*                                                                         *)
(* For a prompt task CR1 follows the transfers.  TCIE is never cleared: an *)
(* idle driver is safe from it as the TC part of the handler clears TC.  A *)
(* call between the load and the store of CR1 has no interrupt pending     *)
(* that could change CR1.                                                  *)

UsBits == {"TXEIE", "TCIE", "RXNEIE"}

UsTypes ==
  /\ us_tx \in Handle /\ us_rx \in Handle
  /\ us_api \in {"polling", "interrupt"}
  /\ us_pc \in [step : {"ready", "load", "store", "poll"},
                what : {"none", "TXE", "TC", "RXNE"} \cup UsBits]
  /\ cr1 \subseteq UsBits /\ us_read \subseteq UsBits /\ tc \in BOOLEAN
  /\ us_wire \in Seq(Nat) /\ us_got \in Seq(Nat)
  /\ us_tdr \in Nat \cup {Empty} /\ us_shift \in Nat \cup {Empty} /\ us_rdr \in Nat \cup {Empty}
  /\ us_goal \in Nat /\ arrived \in Nat
  /\ us_said \in [{"send", "receive"} -> {"none", "complete"}]

\* Which transfer a call is on behalf of.
UsControl ==
  /\ us_api = "polling" => us_pc.step \in {"ready", "poll"} /\ cr1 = {}
  /\ us_pc.step = "ready" <=> us_pc.what = "none"
  /\ us_pc.step = "poll" <=> us_pc.what \in {"TXE", "TC", "RXNE"}
  /\ us_api = "interrupt" => us_pc.step # "poll"
  /\ ~(us_tx.busy /\ us_rx.busy)
  /\ us_tx.busy \/ us_rx.busy => us_goal \in UsartLengths
  /\ us_pc.what = "TXE" => us_tx.busy /\ us_tx.len > 0
  /\ us_pc.what = "TC" => us_tx.busy /\ us_tx.len = 0
  /\ us_pc.what = "RXNE" => us_rx.busy
  /\ us_api = "polling" /\ us_pc.step = "ready" => ~us_tx.busy /\ ~us_rx.busy

\* Which one an enabled interrupt is on behalf of, when the task is prompt.
UsEnables ==
  /\ us_pc.what = "TXEIE" => us_tx.busy /\ us_tx.len = us_goal /\ "TXEIE" \notin cr1
  /\ us_pc.what = "TCIE" => ~us_rx.busy /\ (us_tx.busy \/ ~tc)
  /\ us_pc.what = "RXNEIE" => us_rx.busy /\ "RXNEIE" \notin cr1
  /\ us_pc.step = "store" => us_read = cr1 /\ ~TxeIrq /\ ~TcIrq /\ ~RxneIrq
  /\ "TXEIE" \in cr1 => us_tx.busy /\ us_tx.len > 0
  /\ "TCIE" \in cr1 => us_tx.busy \/ ~tc
  /\ "RXNEIE" \in cr1 => us_rx.busy

\* Frames on their way out.
UsHeld == IF us_shift = Empty THEN 0 ELSE IF us_tdr = Empty THEN 1 ELSE 2

UsOnLine ==
  /\ InOrder(us_wire)
  /\ us_shift = Empty => us_tdr = Empty
  /\ tc => us_shift = Empty
  /\ ~us_tx.busy => us_shift = Empty
  /\ us_tx.busy =>
       /\ us_tx.len <= us_goal /\ us_tx.buf = us_goal - us_tx.len + 1
       /\ Len(us_wire) + UsHeld = us_goal - us_tx.len
       /\ us_shift \in {Empty, Len(us_wire) + 1}
       /\ us_tdr \in {Empty, Len(us_wire) + 2}

UsAscending(s) == \A i, j \in DOMAIN s : i < j => s[i] < s[j]
UsAbove(f, s) == \A i \in DOMAIN s : s[i] < f

UsStored ==
  /\ UsAscending(us_got)
  /\ us_api = "interrupt" => \A i \in DOMAIN us_got : us_got[i] > 0
  /\ us_rx.busy =>
       /\ Len(us_got) < us_goal /\ us_rx.len = us_goal - Len(us_got)
       /\ UsAbove(arrived + 1, us_got)
       /\ us_rdr # Empty => /\ us_rdr <= arrived
                            /\ us_api = "interrupt" => us_rdr > 0
                            /\ UsAbove(us_rdr, us_got)

UsInv == UsTypes /\ UsControl /\ UsOnLine /\ UsStored /\ (us_prompt => UsEnables)

UsKept == [UsartSend!Next]_(UsartSend!vars) /\ [UsartReceive!Next]_(UsartReceive!vars)

\* A frame above all of an ascending sequence may be appended to it.
LEMMA UsAppend ==
  ASSUME NEW s \in Seq(Nat), NEW f \in Nat, UsAscending(s), UsAbove(f, s)
  PROVE  /\ Append(s, f) \in Seq(Nat) /\ UsAscending(Append(s, f))
         /\ Len(Append(s, f)) = Len(s) + 1
         /\ UsAbove(f + 1, Append(s, f))
<1>. DEFINE t == Append(s, f)
<1>1. t \in Seq(Nat) /\ Len(t) = Len(s) + 1 /\ DOMAIN t = 1 .. Len(s) + 1
      /\ DOMAIN s = 1 .. Len(s) /\ Len(s) \in Nat
  OBVIOUS
<1>2. \A i \in 1 .. Len(s) : t[i] = s[i] /\ s[i] < f /\ s[i] \in Nat
  BY <1>1 DEF UsAbove
<1>3. t[Len(s) + 1] = f
  BY <1>1
<1>. HIDE DEF t
<1>4. UsAbove(f + 1, t)
  <2>1. SUFFICES ASSUME NEW i \in 1 .. Len(s) + 1
                 PROVE  t[i] < f + 1
    BY <1>1 DEF UsAbove
  <2>2. CASE i \in 1 .. Len(s)
    BY <1>2, <2>2
  <2>3. CASE i = Len(s) + 1
    BY <1>3, <2>3
  <2>. QED  BY <1>1, <2>2, <2>3
<1>5. UsAscending(t)
  <2>1. SUFFICES ASSUME NEW i \in 1 .. Len(s) + 1, NEW j \in 1 .. Len(s) + 1, i < j
                 PROVE  t[i] < t[j]
    BY <1>1 DEF UsAscending
  <2>2. i \in 1 .. Len(s)
    BY <1>1, <2>1
  <2>3. CASE j = Len(s) + 1
    BY <1>2, <1>3, <2>2, <2>3
  <2>4. CASE j \in 1 .. Len(s)
    BY <1>1, <1>2, <2>1, <2>2, <2>4 DEF UsAscending
  <2>. QED  BY <1>1, <2>3, <2>4
<1>. QED  BY <1>1, <1>4, <1>5 DEF t

\* The next frame of the buffer is written to DR.
LEMMA UsWriteNext ==
  ASSUME UsInv, us_tx.busy, us_tx.len > 0, us_tdr = Empty,
         us_tx' = Advanced(us_tx), WriteDR(us_tx.buf), UNCHANGED <<us_wire, us_goal>>
  PROVE  /\ UsOnLine'
         /\ us_tx' \in Handle /\ us_tx'.busy = us_tx.busy /\ us_tx'.len = us_tx.len - 1
         /\ us_tdr' \in Nat \cup {Empty} /\ us_shift' \in Nat \cup {Empty} /\ tc' = FALSE
<1>1. /\ us_tx \in Handle /\ us_goal \in Nat /\ Len(us_wire) \in Nat
      /\ us_shift \in Nat \cup {Empty} /\ us_tx.len \in Nat /\ us_tx.buf \in Nat
  BY LenAssumption DEF UsInv, UsTypes, Handle
<1>2. /\ us_tx' \in Handle /\ us_tx'.busy = us_tx.busy /\ us_tx'.len = us_tx.len - 1
      /\ us_tx'.buf = us_tx.buf + 1
  BY <1>1, HandleAdvanced
<1>3. tc' = FALSE /\ us_wire' = us_wire /\ us_goal' = us_goal
  BY DEF WriteDR
<1>4. CASE us_shift = Empty
  <2>1. us_shift' = us_tx.buf /\ us_tdr' = Empty
    BY <1>4 DEF WriteDR
  <2>2. us_tx.buf = Len(us_wire) + 1 /\ us_goal - us_tx.len = Len(us_wire)
        /\ us_tx.len <= us_goal /\ InOrder(us_wire)
    BY <1>1, <1>4 DEF UsInv, UsOnLine, UsHeld
  <2>3. UsHeld' = 1 /\ us_shift' # Empty
    BY <1>1, <2>1, <2>2 DEF UsHeld, Empty
  <2>4. UsOnLine'
    BY <1>1, <1>2, <1>3, <2>1, <2>2, <2>3 DEF UsOnLine
  <2>. QED  BY <1>1, <1>2, <1>3, <2>1, <2>4
<1>5. CASE us_shift # Empty
  <2>1. us_tdr' = us_tx.buf /\ us_shift' = us_shift
    BY <1>5 DEF WriteDR
  <2>2. us_tx.buf = Len(us_wire) + 2 /\ us_goal - us_tx.len = Len(us_wire) + 1
        /\ us_tx.len <= us_goal /\ InOrder(us_wire) /\ us_shift = Len(us_wire) + 1
    BY <1>1, <1>5 DEF UsInv, UsOnLine, UsHeld
  <2>3. UsHeld' = 2 /\ us_shift' # Empty
    BY <1>1, <1>5, <2>1, <2>2 DEF UsHeld, Empty
  <2>4. UsOnLine'
    BY <1>1, <1>2, <1>3, <2>1, <2>2, <2>3 DEF UsOnLine
  <2>. QED  BY <1>1, <1>2, <1>3, <2>1, <2>4
<1>. QED  BY <1>4, <1>5

\* A frame is fetched from DR and stored.
LEMMA UsStoreNext ==
  ASSUME UsInv, us_rx.busy, us_rdr # Empty, Fetch,
         us_rx' = IF us_rx.len = 1 THEN Closed ELSE Advanced(us_rx),
         UNCHANGED <<arrived, us_goal, us_api>>
  PROVE  /\ UsStored'
         /\ us_rx' \in Handle /\ us_got' \in Seq(Nat) /\ us_rdr' = Empty
         /\ Len(us_got') = Len(us_got) + 1 /\ us_rx.len = us_goal - Len(us_got)
         /\ Len(us_got) < us_goal
         /\ us_rx'.busy <=> us_rx.len # 1
<1>1. /\ us_rx \in Handle /\ us_goal \in Nat /\ us_got \in Seq(Nat) /\ Len(us_got) \in Nat
      /\ us_rdr \in Nat /\ arrived \in Nat
  BY DEF UsInv, UsTypes
<1>2. /\ UsAscending(us_got) /\ UsAbove(us_rdr, us_got) /\ us_rdr <= arrived
      /\ Len(us_got) < us_goal /\ us_rx.len = us_goal - Len(us_got)
      /\ us_api = "interrupt" => us_rdr > 0 /\ \A i \in DOMAIN us_got : us_got[i] > 0
  BY DEF UsInv, UsStored
<1>3. us_got' = Append(us_got, us_rdr) /\ us_rdr' = Empty
      /\ arrived' = arrived /\ us_goal' = us_goal /\ us_api' = us_api
  BY DEF Fetch
<1>4. /\ us_got' \in Seq(Nat) /\ UsAscending(us_got') /\ Len(us_got') = Len(us_got) + 1
      /\ UsAbove(us_rdr + 1, us_got')
  BY <1>1, <1>2, <1>3, UsAppend
<1>5. UsAbove(arrived + 1, us_got')
  BY <1>1, <1>2, <1>4 DEF UsAbove
<1>6. us_api' = "interrupt" => \A i \in DOMAIN us_got' : us_got'[i] > 0
  BY <1>1, <1>2, <1>3
<1>7. /\ us_rx' \in Handle
      /\ us_rx'.busy <=> us_rx.len # 1
      /\ us_rx'.busy => us_rx'.len = us_rx.len - 1
  <2>1. CASE us_rx.len = 1
    BY <2>1, LenAssumption DEF Closed, Handle
  <2>2. CASE us_rx.len # 1
    <3>1. us_rx' = Advanced(us_rx) /\ us_rx.len > 0
      BY <1>1, <1>2, <2>2
    <3>. QED  BY <1>1, <2>2, <3>1, HandleAdvanced
  <2>. QED  BY <2>1, <2>2
<1>8. us_rx'.busy => Len(us_got') < us_goal' /\ us_rx'.len = us_goal' - Len(us_got')
  BY <1>1, <1>2, <1>3, <1>4, <1>7
<1>9. UsStored'
  BY <1>3, <1>4, <1>5, <1>6, <1>8 DEF UsStored
<1>. QED  BY <1>2, <1>3, <1>4, <1>7, <1>9

\* A transmission begins.
LEMMA UsSendBegins ==
  ASSUME UsInv, NEW n \in UsartLengths, USART_SendDataIT(n) \/ USART_SendData(n)
  PROVE  UsInv' /\ UsKept
<1>. USE DEF UsInv
<1>1. PICK at : /\ OpenSend(n, at)
                /\ at = IF us_api = "polling" THEN Point("poll", "TXE") ELSE Point("load", "TXEIE")
  BY DEF USART_SendDataIT, USART_SendData
<1>2. /\ ~us_tx.busy /\ ~us_rx.busy /\ us_tx' = Opened(n) /\ us_pc' = at /\ us_goal' = n
      /\ us_wire' = <<>> /\ us_said' = [us_said EXCEPT !.send = "none"]
      /\ UNCHANGED <<us_rx, cr1, us_api, us_prompt, us_read, us_got, tc, us_tdr, us_shift,
                     us_rdr>>
  BY <1>1 DEF OpenSend, UsIdle, ushw, uscase
<1>3. n \in 1 .. LenSpan - 1 /\ n \in Nat
  BY UsartAssumption, LenAssumption
<1>4. us_shift = Empty /\ us_tdr = Empty
      /\ us_prompt => "TXEIE" \notin cr1 /\ "RXNEIE" \notin cr1
  BY <1>2 DEF UsOnLine, UsEnables
<1>5. UsTypes'
  <2>1. us_tx' \in Handle /\ us_wire' \in Seq(Nat) /\ us_goal' \in Nat
    BY <1>2, <1>3, HandleOpened, NoneInOrder
  <2>2. us_pc' \in [step : {"ready", "load", "store", "poll"},
                    what : {"none", "TXE", "TC", "RXNE"} \cup UsBits]
    BY <1>1, <1>2 DEF Point, UsBits
  <2>3. us_said' \in [{"send", "receive"} -> {"none", "complete"}]
    BY <1>2 DEF UsTypes
  <2>4. cr1' \subseteq UsBits /\ us_read' \subseteq UsBits /\ tc' \in BOOLEAN
    BY <1>2 DEF UsTypes
  <2>5. UNCHANGED <<us_rx, us_api, us_got, us_tdr, us_shift, us_rdr, arrived>>
    BY <1>1, <1>2 DEF OpenSend, ushw
  <2>. QED  BY <2>1, <2>2, <2>3, <2>4, <2>5 DEF UsTypes
<1>6. /\ us_tx'.busy = TRUE /\ us_tx'.len = n /\ us_tx'.buf = 1
  BY <1>2, <1>3, HandleOpened
<1>7. UsControl' /\ (us_prompt => UsEnables)'
  <2>1. us_pc'.step = (IF us_api = "polling" THEN "poll" ELSE "load")
        /\ us_pc'.what = IF us_api = "polling" THEN "TXE" ELSE "TXEIE"
    BY <1>1, <1>2 DEF Point
  <2>. QED  BY <1>2, <1>3, <1>4, <1>6, <2>1 DEF UsControl, UsEnables, UsTypes
<1>8. UsOnLine'
  BY <1>2, <1>3, <1>4, <1>6, NoneInOrder DEF UsOnLine, UsHeld
<1>9. UsStored'
  BY <1>2 DEF UsStored
<1>10. UsartSend!Begin(n) /\ UNCHANGED UsartReceive!vars
  <2>1. us_said'.send = "none" /\ us_said'.receive = us_said.receive
    BY <1>2 DEF UsTypes
  <2>. QED  BY <1>2, <1>6, <2>1, NoneInOrder DEF UsartSend!Begin, UsartReceive!vars
<1>. QED  BY <1>5, <1>7, <1>8, <1>9, <1>10 DEF UsKept, UsartSend!Next

\* A reception begins.
LEMMA UsReceiveBegins ==
  ASSUME UsInv, NEW n \in UsartLengths, USART_ReceiveDataIT(n) \/ USART_ReceiveData(n)
  PROVE  UsInv' /\ UsKept
<1>. USE DEF UsInv
<1>1. PICK at, dr, ore :
        /\ OpenReceive(n, at, dr, ore)
        /\ at = IF us_api = "polling" THEN Point("poll", "RXNE") ELSE Point("load", "RXNEIE")
        /\ dr \in {Empty, 0} /\ (us_api = "interrupt" => dr = Empty)
  BY DEF USART_ReceiveDataIT, USART_ReceiveData, LeftOver
<1>2. /\ ~us_tx.busy /\ ~us_rx.busy /\ us_rx' = Opened(n) /\ us_pc' = at /\ us_goal' = n
      /\ us_rdr' = dr /\ arrived' = 0
      /\ us_got' = <<>> /\ us_said' = [us_said EXCEPT !.receive = "none"]
      /\ UNCHANGED <<us_tx, cr1, us_api, us_prompt, us_read, us_wire, tc, us_tdr, us_shift>>
  BY <1>1 DEF OpenReceive, UsIdle, uscase
<1>3. n \in 1 .. LenSpan - 1 /\ n \in Nat
  BY UsartAssumption, LenAssumption
<1>4. us_prompt => "TXEIE" \notin cr1 /\ "RXNEIE" \notin cr1
  BY <1>2 DEF UsEnables
<1>5. UsTypes'
  <2>1. us_rx' \in Handle /\ us_got' \in Seq(Nat) /\ us_goal' \in Nat
    BY <1>2, <1>3, HandleOpened, NoneInOrder
  <2>2. us_pc' \in [step : {"ready", "load", "store", "poll"},
                    what : {"none", "TXE", "TC", "RXNE"} \cup UsBits]
    BY <1>1, <1>2 DEF Point, UsBits
  <2>3. us_said' \in [{"send", "receive"} -> {"none", "complete"}]
    BY <1>2 DEF UsTypes
  <2>. QED  BY <1>1, <1>2, <2>1, <2>2, <2>3 DEF UsTypes
<1>6. /\ us_rx'.busy = TRUE /\ us_rx'.len = n
  BY <1>2, <1>3, HandleOpened
<1>7. UsControl' /\ (us_prompt => UsEnables)'
  <2>1. us_pc'.step = (IF us_api = "polling" THEN "poll" ELSE "load")
        /\ us_pc'.what = IF us_api = "polling" THEN "RXNE" ELSE "RXNEIE"
    BY <1>1, <1>2 DEF Point
  <2>. QED  BY <1>2, <1>3, <1>4, <1>6, <2>1 DEF UsControl, UsEnables, UsTypes
<1>8. UsOnLine'
  BY <1>2 DEF UsOnLine, UsHeld
<1>9. UsStored'
  <2>1. UsAscending(us_got') /\ UsAbove(1, us_got') /\ UsAbove(us_rdr', us_got')
        /\ Len(us_got') = 0 /\ \A i \in DOMAIN us_got' : us_got'[i] > 0
    BY <1>2 DEF UsAscending, UsAbove
  <2>. QED  BY <1>1, <1>2, <1>3, <1>6, <2>1 DEF UsStored, Empty
<1>10. UsartReceive!Begin(n) /\ UNCHANGED UsartSend!vars
  <2>1. us_said'.receive = "none" /\ us_said'.send = us_said.send
    BY <1>2 DEF UsTypes
  <2>. QED  BY <1>2, <1>6, <2>1, NoneInOrder DEF UsartReceive!Begin, UsartSend!vars
<1>. QED  BY <1>5, <1>7, <1>8, <1>9, <1>10 DEF UsKept, UsartReceive!Next

\* CR1 is read.
LEMMA UsLoad ==
  ASSUME UsInv, ~TxeIrq, ~TcIrq, ~RxneIrq, NEW b \in UsBits, LoadCR1(b)
  PROVE  UsInv' /\ UsKept
<1>. USE DEF UsInv
<1>1. /\ us_pc.step = "load" /\ us_pc.what = b /\ us_pc' = Point("store", b) /\ us_read' = cr1
      /\ UNCHANGED <<us_tx, us_rx, cr1, us_api, us_prompt, us_goal, us_wire, tc, us_tdr, us_shift,
                     us_rdr, arrived, us_got, us_said>>
  BY DEF LoadCR1, UsPc, Point, ushw, uslog, uscase
<1>2. us_pc'.step = "store" /\ us_pc'.what = b
  BY <1>1 DEF Point
<1>3. UsTypes'
  BY <1>1 DEF UsTypes, Point
<1>4. UsControl' /\ (us_prompt => UsEnables)'
  BY <1>1, <1>2 DEF UsControl, UsEnables, UsBits, TxeIrq, TcIrq, RxneIrq
<1>5. UsOnLine' /\ UsStored'
  BY <1>1 DEF UsOnLine, UsHeld, UsStored
<1>6. UsKept
  BY <1>1 DEF UsKept, UsartSend!vars, UsartReceive!vars
<1>. QED  BY <1>3, <1>4, <1>5, <1>6

\* CR1 is written: nothing has changed it since it was read.
LEMMA UsStore ==
  ASSUME UsInv, NEW b \in UsBits, StoreCR1(b)
  PROVE  UsInv' /\ UsKept
<1>. USE DEF UsInv
<1>1. /\ us_pc.step = "store" /\ us_pc.what = b /\ cr1' = us_read \cup {b}
      /\ us_pc' = IF b = "TXEIE" THEN Point("load", "TCIE") ELSE Point("ready", "none")
      /\ UNCHANGED <<us_tx, us_rx, us_api, us_prompt, us_goal, us_read, us_wire, tc, us_tdr,
                     us_shift, us_rdr, arrived, us_got, us_said>>
  BY DEF StoreCR1, UsPc, Point, ushw, uslog, uscase, Ready
<1>2. /\ us_pc'.step = IF b = "TXEIE" THEN "load" ELSE "ready"
      /\ us_pc'.what = IF b = "TXEIE" THEN "TCIE" ELSE "none"
  BY <1>1 DEF Point
<1>3. us_api = "interrupt" /\ (us_prompt => cr1' = cr1 \cup {b})
  BY <1>1 DEF UsControl, UsEnables, UsTypes
<1>4. UsTypes'
  <2>1. us_pc' \in [step : {"ready", "load", "store", "poll"},
                    what : {"none", "TXE", "TC", "RXNE"} \cup UsBits]
    BY <1>1 DEF Point, UsBits
  <2>. QED  BY <1>1, <1>3, <2>1 DEF UsTypes
<1>5. UsControl' /\ (us_prompt => UsEnables)'
  <2>1. us_prompt /\ b = "TXEIE" => us_tx.busy /\ us_tx.len > 0 /\ ~us_rx.busy
    <3>1. \A n \in UsartLengths : n > 0
      BY UsartAssumption, LenAssumption
    <3>. QED  BY <1>1, <3>1 DEF UsControl, UsEnables
  <2>2. UsControl'
    BY <1>1, <1>2, <1>3 DEF UsControl, UsBits
  <2>3. us_prompt => UsEnables'
    BY <1>1, <1>2, <1>3, <2>1 DEF UsControl, UsEnables, UsBits
  <2>. QED  BY <1>1, <2>2, <2>3
<1>6. UsOnLine' /\ UsStored'
  BY <1>1 DEF UsOnLine, UsHeld, UsStored
<1>7. UsKept
  BY <1>1 DEF UsKept, UsartSend!vars, UsartReceive!vars
<1>. QED  BY <1>4, <1>5, <1>6, <1>7

\* The polling function writes the next frame.
LEMMA UsSendsFrame ==
  ASSUME UsInv, SendFrame
  PROVE  UsInv' /\ UsKept
<1>. USE DEF UsInv
<1>1. /\ us_tdr = Empty /\ us_pc.step = "poll" /\ us_pc.what = "TXE"
      /\ us_pc' = Point("poll", IF us_tx.len = 1 THEN "TC" ELSE "TXE")
      /\ us_tx' = Advanced(us_tx) /\ WriteDR(us_tx.buf)
      /\ UNCHANGED <<us_rx, cr1, us_api, us_prompt, us_read, us_goal, us_wire, us_rdr, arrived,
                     us_got, us_said>>
  BY DEF SendFrame, UsPc, Point, uslog, uscase
<1>2. us_tx.busy /\ us_tx.len > 0 /\ us_api = "polling" /\ cr1 = {}
  BY <1>1 DEF UsControl, UsTypes
<1>3. /\ UsOnLine'
      /\ us_tx' \in Handle /\ us_tx'.busy = us_tx.busy /\ us_tx'.len = us_tx.len - 1
      /\ us_tdr' \in Nat \cup {Empty} /\ us_shift' \in Nat \cup {Empty} /\ tc' = FALSE
  BY <1>1, <1>2, UsWriteNext
<1>4. us_pc'.step = "poll" /\ us_pc'.what = IF us_tx.len = 1 THEN "TC" ELSE "TXE"
  BY <1>1 DEF Point
<1>5. UsTypes'
  <2>1. us_pc' \in [step : {"ready", "load", "store", "poll"},
                    what : {"none", "TXE", "TC", "RXNE"} \cup UsBits]
    BY <1>1 DEF Point
  <2>. QED  BY <1>1, <1>3, <2>1 DEF UsTypes
<1>6. UsControl' /\ UsEnables'
  <2>1. us_tx.len \in Nat
    BY LenAssumption DEF UsTypes, Handle
  <2>. QED  BY <1>1, <1>2, <1>3, <1>4, <2>1 DEF UsControl, UsEnables
<1>7. UsStored'
  BY <1>1 DEF UsStored
<1>8. UsKept
  BY <1>1, <1>3 DEF UsKept, UsartSend!vars, UsartReceive!vars
<1>. QED  BY <1>3, <1>5, <1>6, <1>7, <1>8

\* The polling function returns when everything has left the line.
LEMMA UsSendEnds ==
  ASSUME UsInv, SendReturns
  PROVE  UsInv' /\ UsKept
<1>. USE DEF UsInv
<1>1. /\ tc /\ us_pc.step = "poll" /\ us_pc.what = "TC"
      /\ us_pc' = Point("ready", "none") /\ us_tx' = Closed
      /\ us_said' = [us_said EXCEPT !.send = "complete"]
      /\ UNCHANGED <<us_rx, cr1, us_api, us_prompt, us_read, us_goal, us_wire, tc, us_tdr,
                     us_shift, us_rdr, arrived, us_got>>
  BY DEF SendReturns, UsPc, Point, ushw, uscase, Ready
<1>2. us_tx.busy /\ us_tx.len = 0 /\ us_api = "polling" /\ cr1 = {} /\ ~us_rx.busy
  BY <1>1 DEF UsControl, UsTypes
<1>3. us_shift = Empty /\ Len(us_wire) = us_goal /\ us_goal \in Nat /\ us_goal > 0
  <2>1. us_shift = Empty /\ Len(us_wire) = us_goal /\ us_goal \in Nat
    BY <1>1, <1>2 DEF UsOnLine, UsHeld, UsTypes
  <2>2. us_goal \in UsartLengths
    BY <1>2 DEF UsControl
  <2>. QED  BY <2>1, <2>2, UsartAssumption, LenAssumption
<1>4. us_pc'.step = "ready" /\ us_pc'.what = "none" /\ us_tx' \in Handle /\ us_tx'.busy = FALSE
  BY <1>1, LenAssumption DEF Point, Closed, Handle
<1>5. us_said' \in [{"send", "receive"} -> {"none", "complete"}]
      /\ us_said'.send = "complete" /\ us_said'.receive = us_said.receive
  BY <1>1 DEF UsTypes
<1>6. UsTypes'
  <2>1. us_pc' \in [step : {"ready", "load", "store", "poll"},
                    what : {"none", "TXE", "TC", "RXNE"} \cup UsBits]
    BY <1>1 DEF Point
  <2>. QED  BY <1>1, <1>4, <1>5, <2>1 DEF UsTypes
<1>7. UsControl' /\ UsEnables'
  BY <1>1, <1>2, <1>4 DEF UsControl, UsEnables
<1>8. UsOnLine' /\ UsStored'
  BY <1>1, <1>3, <1>4 DEF UsOnLine, UsHeld, UsStored
<1>9. UsartSend!Complete /\ UNCHANGED UsartReceive!vars
  BY <1>1, <1>2, <1>3, <1>4, <1>5 DEF UsartSend!Complete, UsartReceive!vars
<1>. QED  BY <1>6, <1>7, <1>8, <1>9 DEF UsKept, UsartSend!Next

\* The polling function stores a frame.
LEMMA UsReceivesFrame ==
  ASSUME UsInv, ReceiveFrame
  PROVE  UsInv' /\ UsKept
<1>. USE DEF UsInv
<1>1. /\ us_rdr # Empty /\ us_pc.step = "poll" /\ us_pc.what = "RXNE" /\ Fetch
      /\ us_pc' = IF us_rx.len = 1 THEN Point("ready", "none") ELSE Point("poll", "RXNE")
      /\ us_rx' = IF us_rx.len = 1 THEN Closed ELSE Advanced(us_rx)
      /\ us_said' = IF us_rx.len = 1 THEN [us_said EXCEPT !.receive = "complete"] ELSE us_said
      /\ UNCHANGED <<us_tx, cr1, us_api, us_prompt, us_read, us_goal, us_wire, tc, us_tdr,
                     us_shift, arrived>>
  BY DEF ReceiveFrame, UsPc, Point, uscase, Ready
<1>2. us_rx.busy /\ us_api = "polling" /\ cr1 = {} /\ ~us_tx.busy
  BY <1>1 DEF UsControl, UsTypes
<1>3. /\ UsStored'
      /\ us_rx' \in Handle /\ us_got' \in Seq(Nat) /\ us_rdr' = Empty
      /\ Len(us_got') = Len(us_got) + 1 /\ us_rx.len = us_goal - Len(us_got)
      /\ Len(us_got) < us_goal
      /\ us_rx'.busy <=> us_rx.len # 1
  BY <1>1, <1>2, UsStoreNext
<1>4. us_pc'.step = (IF us_rx.len = 1 THEN "ready" ELSE "poll")
      /\ us_pc'.what = IF us_rx.len = 1 THEN "none" ELSE "RXNE"
  BY <1>1 DEF Point
<1>5. us_said' \in [{"send", "receive"} -> {"none", "complete"}]
      /\ us_said'.receive = (IF us_rx.len = 1 THEN "complete" ELSE us_said.receive)
      /\ us_said'.send = us_said.send
  BY <1>1 DEF UsTypes
<1>6. UsTypes'
  <2>1. us_pc' \in [step : {"ready", "load", "store", "poll"},
                    what : {"none", "TXE", "TC", "RXNE"} \cup UsBits]
    BY <1>1 DEF Point
  <2>. QED  BY <1>1, <1>3, <1>5, <2>1 DEF UsTypes
<1>7. UsControl' /\ UsEnables'
  BY <1>1, <1>2, <1>3, <1>4 DEF UsControl, UsEnables
<1>8. UsOnLine'
  BY <1>1 DEF UsOnLine, UsHeld
<1>9. UNCHANGED UsartSend!vars
  BY <1>1, <1>5 DEF UsartSend!vars
<1>10. UsartReceive!Next
  <2>1. us_goal \in Nat /\ Len(us_got) \in Nat
    BY DEF UsTypes
  <2>2. CASE us_rx.len = 1
    BY <1>1, <1>2, <1>3, <1>5, <2>1, <2>2 DEF UsartReceive!Next, UsartReceive!Complete
  <2>3. CASE us_rx.len # 1
    BY <1>1, <1>2, <1>3, <1>5, <2>1, <2>3 DEF UsartReceive!Next, UsartReceive!Move
  <2>. QED  BY <2>2, <2>3
<1>. QED  BY <1>3, <1>6, <1>7, <1>8, <1>9, <1>10 DEF UsKept

\* A frame has left the line.
LEMMA UsShifts ==
  ASSUME UsInv, ShiftOut
  PROVE  UsInv' /\ UsKept
<1>. USE DEF UsInv
<1>1. /\ us_shift # Empty /\ (us_prompt => us_pc.step # "store")
      /\ us_wire' = Append(us_wire, us_shift)
      /\ us_shift' = us_tdr /\ us_tdr' = Empty /\ tc' = (us_tdr = Empty)
      /\ UNCHANGED <<us_tx, us_rx, cr1, us_api, us_prompt, us_pc, us_read, us_goal, us_rdr, arrived,
                     us_got, us_said>>
  BY DEF ShiftOut, uslog, uscase
<1>2. us_tx.busy /\ us_goal \in Nat /\ us_tx.len \in Nat /\ us_wire \in Seq(Nat)
      /\ Len(us_wire) \in Nat
  BY <1>1, LenAssumption DEF UsOnLine, UsTypes, Handle
<1>3. /\ InOrder(us_wire) /\ us_shift = Len(us_wire) + 1
      /\ us_tx.len <= us_goal /\ us_tx.buf = us_goal - us_tx.len + 1
      /\ us_tdr \in {Empty, Len(us_wire) + 2}
      /\ Len(us_wire) + (IF us_tdr = Empty THEN 1 ELSE 2) = us_goal - us_tx.len
  BY <1>1, <1>2 DEF UsOnLine, UsHeld
<1>4. us_wire' \in Seq(Nat) /\ InOrder(us_wire') /\ Len(us_wire') = Len(us_wire) + 1
  BY <1>1, <1>2, <1>3, NextInOrder
<1>5. UsTypes'
  BY <1>1, <1>4 DEF UsTypes
<1>6. UsControl' /\ (us_prompt => UsEnables)'
  BY <1>1, <1>2 DEF UsControl, UsEnables
<1>7. UsOnLine'
  <2>1. CASE us_tdr = Empty
    <3>1. UsHeld' = 0 /\ us_shift' = Empty /\ us_tdr' = Empty
      BY <1>1, <2>1 DEF UsHeld
    <3>2. Len(us_wire') = us_goal - us_tx.len
      BY <1>2, <1>3, <1>4, <2>1
    <3>. QED  BY <1>1, <1>2, <1>3, <1>4, <3>1, <3>2 DEF UsOnLine
  <2>2. CASE us_tdr # Empty
    <3>1. us_tdr = Len(us_wire) + 2 /\ us_shift' = Len(us_wire') + 1
      BY <1>1, <1>2, <1>3, <1>4, <2>2
    <3>2. UsHeld' = 1 /\ us_shift' # Empty
      BY <1>1, <1>2, <2>2 DEF UsHeld
    <3>3. tc' = FALSE
      BY <1>1, <2>2
    <3>4. Len(us_wire') + 1 = us_goal - us_tx.len
      BY <1>2, <1>3, <1>4, <2>2
    <3>. QED  BY <1>1, <1>2, <1>3, <1>4, <3>1, <3>2, <3>3, <3>4 DEF UsOnLine
  <2>. QED  BY <2>1, <2>2
<1>8. UsStored'
  BY <1>1 DEF UsStored
<1>9. UsartSend!Move /\ UNCHANGED UsartReceive!vars
  <2>1. Len(us_wire) < us_goal
    BY <1>2, <1>3
  <2>. QED  BY <1>1, <1>2, <1>4, <2>1 DEF UsartSend!Move, UsartReceive!vars
<1>. QED  BY <1>5, <1>6, <1>7, <1>8, <1>9 DEF UsKept, UsartSend!Next

\* A frame arrives: it is younger than all that are stored, or it is lost.
LEMMA UsArrives ==
  ASSUME UsInv, Arrive
  PROVE  UsInv' /\ UsKept
<1>. USE DEF UsInv
<1>1. /\ arrived' = IF us_rx.busy THEN arrived + 1 ELSE 0
      /\ us_rdr' = IF us_rdr = Empty THEN arrived' ELSE us_rdr
      /\ UNCHANGED <<us_tx, us_rx, cr1, us_api, us_prompt, us_pc, us_read, us_goal, us_wire, tc,
                     us_tdr, us_shift, us_got, us_said>>
  BY DEF Arrive, uslog, uscase
<1>2. arrived \in Nat /\ us_got \in Seq(Nat) /\ us_rdr \in Nat \cup {Empty} /\ arrived' \in Nat
  BY <1>1 DEF UsTypes
<1>3. UsTypes'
  BY <1>1, <1>2 DEF UsTypes
<1>4. UsControl' /\ (us_prompt => UsEnables)'
  <2>1. us_prompt /\ us_pc.step = "store" => "RXNEIE" \notin cr1
    BY DEF UsControl, UsEnables, UsTypes, UsBits
  <2>. QED  BY <1>1, <2>1 DEF UsControl, UsEnables, TxeIrq, TcIrq, RxneIrq
<1>5. UsOnLine'
  BY <1>1 DEF UsOnLine, UsHeld
<1>6. UsStored'
  <2>1. CASE us_rx.busy
    <3>1. UsAbove(arrived + 1, us_got)
      BY <2>1 DEF UsStored
    <3>2. UsAbove(arrived' + 1, us_got')
      BY <1>1, <1>2, <2>1, <3>1 DEF UsAbove
    <3>3. us_rdr' # Empty /\ us_rdr' <= arrived' /\ (us_api = "interrupt" => us_rdr' > 0)
          /\ UsAbove(us_rdr', us_got')
      BY <1>1, <1>2, <2>1, <3>1 DEF UsStored, Empty
    <3>. QED  BY <1>1, <3>2, <3>3 DEF UsStored
  <2>2. CASE ~us_rx.busy
    BY <1>1, <2>2 DEF UsStored
  <2>. QED  BY <2>1, <2>2
<1>7. UsKept
  BY <1>1 DEF UsKept, UsartSend!vars, UsartReceive!vars
<1>. QED  BY <1>3, <1>4, <1>5, <1>6, <1>7

\* The transmission after the TC and TXE parts of the handler.
UsTxSide ==
  /\ UsOnLine'
  /\ us_tx' \in Handle /\ tc' \in BOOLEAN
  /\ us_tdr' \in Nat \cup {Empty} /\ us_shift' \in Nat \cup {Empty}
  /\ us_tx'.busy => us_tx.busy
  /\ us_tx.busy /\ ~us_tx'.busy <=> TcEnds
  /\ us_tx'.busy /\ ~TxeIrq => us_tx' = us_tx
  /\ ~us_tx'.busy => tc' = FALSE \/ (us_tx' = us_tx /\ tc' = tc)
  /\ us_tx' # us_tx /\ ~TcEnds => TxeIrq /\ us_tx.busy

\* That is what the TC and TXE parts of the handler make of the transmission.
LEMMA UsTxPart ==
  ASSUME UsInv, USART_IRQHandling
  PROVE  UsTxSide
<1>. USE DEF UsInv
<1>1. us_wire' = us_wire /\ us_goal' = us_goal
  BY DEF USART_IRQHandling
<1>2. CASE TcEnds
  <2>1. us_tx' = Closed /\ tc' = FALSE /\ us_tdr' = us_tdr /\ us_shift' = us_shift
    BY <1>2 DEF USART_IRQHandling
  <2>2. us_tx' \in Handle /\ us_tx'.busy = FALSE
    BY <2>1, LenAssumption DEF Closed, Handle
  <2>3. us_tx.busy /\ us_shift = Empty
    BY <1>2 DEF TcEnds, TcIrq, UsOnLine
  <2>4. UsOnLine'
    BY <1>1, <2>1, <2>2, <2>3 DEF UsOnLine
  <2>5. us_tdr' \in Nat \cup {Empty} /\ us_shift' \in Nat \cup {Empty}
    BY <2>1 DEF UsTypes
  <2>. QED  BY <1>2, <2>1, <2>2, <2>3, <2>4, <2>5 DEF UsTxSide
<1>3. CASE ~TcEnds /\ TxeIrq /\ us_tx.busy /\ us_tx.len > 0
  <2>1. us_tx' = Advanced(us_tx) /\ WriteDR(us_tx.buf) /\ us_tdr = Empty
    BY <1>3 DEF USART_IRQHandling, HandleTxe, TxeIrq
  <2>2. /\ UsOnLine'
        /\ us_tx' \in Handle /\ us_tx'.busy = us_tx.busy
        /\ us_tdr' \in Nat \cup {Empty} /\ us_shift' \in Nat \cup {Empty} /\ tc' = FALSE
    BY <1>1, <1>3, <2>1, UsWriteNext
  <2>. QED  BY <1>3, <2>2 DEF UsTxSide
<1>4. CASE ~TcEnds /\ ~(TxeIrq /\ us_tx.busy /\ us_tx.len > 0)
  <2>1. UNCHANGED <<us_tx, tc, us_tdr, us_shift>>
    BY <1>4 DEF USART_IRQHandling, HandleTxe
  <2>2. UsOnLine'
    BY <1>1, <2>1 DEF UsOnLine, UsHeld
  <2>. QED  BY <1>4, <2>1, <2>2 DEF UsTxSide, UsTypes
<1>. QED  BY <1>2, <1>3, <1>4

\* The handler: it moves a frame of the transfer in progress, or none.
LEMMA UsHandled ==
  ASSUME UsInv, USART_IRQHandling
  PROVE  UsInv' /\ UsKept
<1>. USE DEF UsInv
<1>. DEFINE Stores == RxneIrq /\ us_rx.busy
<1>1. /\ TxeIrq \/ TcIrq \/ RxneIrq \/ OreIrq
      /\ HandleRxne
      /\ cr1' = {b \in cr1 : /\ b = "TXEIE" /\ TxeIrq /\ us_tx.busy /\ ~TcEnds => us_tx'.len > 0
                             /\ b = "RXNEIE" /\ RxneIrq /\ us_rx.busy => us_rx'.busy}
      /\ us_said' = [send |-> IF TcEnds THEN "complete" ELSE us_said.send,
                     receive |-> IF us_rx.busy /\ ~us_rx'.busy THEN "complete"
                                                               ELSE us_said.receive]
      /\ UNCHANGED <<us_api, us_prompt, us_pc, us_read, us_goal, us_wire, arrived>>
  BY DEF USART_IRQHandling, uscase
<1>2. UsTxSide
  BY UsTxPart
<1>3. us_api = "interrupt"
  BY <1>1 DEF UsControl, UsTypes, TxeIrq, TcIrq, RxneIrq, OreIrq
<1>4. us_prompt => us_pc.step # "store"
  BY <1>1 DEF UsControl, UsEnables, UsTypes, UsBits, OreIrq
<1>5. Stores => /\ us_rdr # Empty /\ Fetch
                /\ us_rx' = IF us_rx.len = 1 THEN Closed ELSE Advanced(us_rx)
  BY <1>1 DEF HandleRxne, RxneIrq
<1>6. ~Stores => UNCHANGED <<us_rx, us_got, us_rdr>>
  BY <1>1 DEF HandleRxne
<1>7. Stores => /\ UsStored'
                /\ us_rx' \in Handle /\ us_got' \in Seq(Nat) /\ us_rdr' = Empty
                /\ Len(us_got') = Len(us_got) + 1 /\ us_rx.len = us_goal - Len(us_got)
                /\ Len(us_got) < us_goal
                /\ us_rx'.busy <=> us_rx.len # 1
  BY <1>1, <1>5, UsStoreNext
<1>8. /\ cr1' \subseteq cr1
      /\ "TXEIE" \in cr1' /\ TxeIrq /\ us_tx.busy /\ ~TcEnds => us_tx'.len > 0
      /\ "RXNEIE" \in cr1' /\ Stores => us_rx'.busy
  BY <1>1
<1>9. /\ us_said'.send = (IF TcEnds THEN "complete" ELSE us_said.send)
      /\ us_said'.receive = IF us_rx.busy /\ ~us_rx'.busy THEN "complete" ELSE us_said.receive
      /\ us_said' \in [{"send", "receive"} -> {"none", "complete"}]
  BY <1>1 DEF UsTypes
<1>. HIDE DEF Stores
<1>10. UsTypes'
  BY <1>1, <1>2, <1>6, <1>7, <1>8, <1>9 DEF UsTypes, UsTxSide
<1>11. (us_rx'.busy => us_rx.busy) /\ (us_tx'.busy => us_tx.busy)
  BY <1>2, <1>6 DEF UsTxSide, Stores
<1>12. UsControl'
  BY <1>1, <1>3, <1>8, <1>11 DEF UsControl
<1>13. ASSUME us_prompt
       PROVE  UsEnables'
  <2>0. UsEnables
    BY <1>13
  <2>1. "TXEIE" \in cr1' => us_tx'.busy /\ us_tx'.len > 0
    BY <1>2, <1>8, <2>0 DEF UsTxSide, UsEnables, TcEnds
  <2>2. "TCIE" \in cr1' => us_tx'.busy \/ ~tc'
    BY <1>2, <1>8, <2>0 DEF UsTxSide, UsEnables
  <2>3. "RXNEIE" \in cr1' => us_rx'.busy
    BY <1>6, <1>8, <2>0 DEF UsEnables
  <2>4. us_pc'.what = "TXEIE" => us_tx'.busy /\ us_tx'.len = us_goal' /\ "TXEIE" \notin cr1'
    <3>1. SUFFICES ASSUME us_pc.what = "TXEIE"
                   PROVE  us_tx'.busy /\ us_tx'.len = us_goal' /\ "TXEIE" \notin cr1'
      BY <1>1
    <3>2. us_tx.busy /\ us_tx.len = us_goal /\ "TXEIE" \notin cr1 /\ us_goal \in UsartLengths
      BY <2>0, <3>1 DEF UsControl, UsEnables
    <3>3. us_tx.len # 0
      BY <3>2, UsartAssumption, LenAssumption
    <3>4. ~TcEnds /\ ~TxeIrq
      BY <3>2, <3>3 DEF TcEnds, TxeIrq
    <3>. QED  BY <1>1, <1>2, <1>8, <3>2, <3>4 DEF UsTxSide
  <2>5. us_pc'.what = "TCIE" => ~us_rx'.busy /\ (us_tx'.busy \/ ~tc')
    BY <1>1, <1>2, <1>11, <2>0 DEF UsTxSide, UsEnables
  <2>6. us_pc'.what = "RXNEIE" => us_rx'.busy /\ "RXNEIE" \notin cr1'
    BY <1>1, <1>6, <1>8, <2>0 DEF UsEnables, RxneIrq, Stores
  <2>. QED  BY <1>1, <1>4, <1>13, <2>1, <2>2, <2>3, <2>4, <2>5, <2>6 DEF UsEnables
<1>14. UsStored'
  BY <1>1, <1>6, <1>7 DEF UsStored
<1>15. [UsartSend!Next]_(UsartSend!vars)
  <2>1. CASE TcEnds
    <3>1. us_tx.busy /\ ~us_tx'.busy /\ Len(us_wire) = us_goal /\ us_goal \in Nat
      BY <1>2, <2>1 DEF UsTxSide, TcEnds, TcIrq, UsOnLine, UsHeld, UsTypes
    <3>2. us_goal > 0
      BY <3>1, UsartAssumption, LenAssumption DEF UsControl
    <3>. QED  BY <1>1, <1>9, <2>1, <3>1, <3>2 DEF UsartSend!Next, UsartSend!Complete
  <2>2. CASE ~TcEnds
    BY <1>1, <1>2, <1>9, <2>2 DEF UsTxSide, UsartSend!vars
  <2>. QED  BY <2>1, <2>2
<1>16. [UsartReceive!Next]_(UsartReceive!vars)
  <2>1. us_goal \in Nat /\ Len(us_got) \in Nat /\ (Stores => us_rx.busy)
    BY DEF UsTypes, Stores
  <2>2. CASE Stores /\ us_rx.len = 1
    BY <1>1, <1>7, <1>9, <2>1, <2>2 DEF UsartReceive!Next, UsartReceive!Complete
  <2>3. CASE Stores /\ us_rx.len # 1
    BY <1>1, <1>7, <1>9, <2>1, <2>3 DEF UsartReceive!Next, UsartReceive!Move
  <2>4. CASE ~Stores
    BY <1>1, <1>6, <1>9, <2>4 DEF UsartReceive!vars
  <2>. QED  BY <2>2, <2>3, <2>4
<1>. QED  BY <1>1, <1>2, <1>10, <1>12, <1>13, <1>14, <1>15, <1>16 DEF UsKept, UsTxSide

\* Every step of the driver, its caller and the line.
LEMMA UsStepInv ==
  ASSUME UsInv, [UsartNext]_usvars
  PROVE  UsInv' /\ UsKept
<1>1. CASE UNCHANGED usvars
  <2>1. UNCHANGED <<us_tx, us_rx, cr1, us_api, us_prompt, us_pc, us_read, us_goal, us_wire, tc,
                    us_tdr, us_shift, us_rdr, arrived, us_got, us_said>>
    BY <1>1 DEF usvars, ushw, uslog, uscase
  <2>2. UsTypes' /\ UsControl' /\ (us_prompt => UsEnables)'
    BY <2>1 DEF UsInv, UsTypes, UsControl, UsEnables, TxeIrq, TcIrq, RxneIrq
  <2>3. UsOnLine' /\ UsStored'
    BY <2>1 DEF UsInv, UsOnLine, UsHeld, UsStored
  <2>4. UsKept
    BY <2>1 DEF UsKept, UsartSend!vars, UsartReceive!vars
  <2>. QED  BY <2>2, <2>3, <2>4 DEF UsInv
<1>2. CASE UsartTask
  BY <1>2, UsSendBegins, UsReceiveBegins, UsLoad, UsStore, UsSendsFrame, UsSendEnds,
     UsReceivesFrame DEF UsartTask, UsBits
<1>. QED  BY <1>1, <1>2, UsHandled, UsShifts, UsArrives DEF UsartNext

-----------------------------------------------------------------------------
(* The I2C driver.                                                         *)
(*                                                                         *)
(* A transfer first asks for the bus, up to the flag ADDR, and then sends  *)
(* or receives.  ACK is off only for the last byte that is received, and a *)
(* prompt task has a byte in DR, or the slave has one to send, for every   *)
(* byte that is left: the two meet when the transfer ends.  A task that is *)
(* not prompt is left with bytes nobody asked for, of which nothing but    *)
(* their number in the buffer is known, and that those of before the       *)
(* transfer come first.  All this is for an application that is patient.   *)

I2cAsking == \/ call.at \in {"SB", "ADDR"}
             \/ /\ call.at = "busy"
                /\ start = TRUE \/ line \in {"SB", "addressed", "ADDR", "nacked"}
I2cSending == Busy /\ ~I2cAsking /\ call.dir = "TX"
I2cReceiving == Busy /\ ~I2cAsking /\ call.dir = "RX"

I2cCallType == [at : {"ready", "SB", "ADDR", "TX", "RX", "busy"}, dir : {"TX", "RX"}, len : Nat,
                size : Nat, sr : BOOLEAN]

I2cTypes ==
  /\ call \in I2cCallType
  /\ ack \in BOOLEAN /\ start \in BOOLEAN /\ stop \in BOOLEAN /\ fed \in BOOLEAN
  /\ en \subseteq {"BUF", "EVT", "ERR"}
  /\ line \in {"idle", "SB", "addressed", "ADDR", "nacked", "data", "halted", "held"}
  /\ txq \in Seq(Nat) /\ rxq \in Seq(Nat) /\ i2c_wire \in Seq(Nat) /\ i2c_got \in Seq(Nat)
  /\ dir \in {"TX", "RX"} /\ given \in Nat
  /\ i2c_api \in {"polling", "interrupt"} /\ prompt \in BOOLEAN /\ wedged \in BOOLEAN
  /\ patient = TRUE

\* Where the bus is when the driver is at a given point of its transfer.
I2cControl ==
  /\ Busy => call.size \in I2cLengths
  /\ i2c_api = "polling" => call.at # "busy" /\ en = {}
  /\ i2c_api = "interrupt" => call.at \in {"ready", "busy"} /\ prompt = TRUE
  /\ call.at = "TX" => call.dir = "TX"
  /\ call.at = "RX" => call.dir = "RX"
  /\ I2cInterruptsServed
  /\ wedged = TRUE => line = "idle"
  /\ start = TRUE => /\ wedged = TRUE \/ call.at \in {"SB", "busy"}
                     /\ line \in {"idle", "data", "held", "nacked"}
                     /\ call.at = "busy" => line # "nacked"
                     /\ call.at = "busy" /\ call.dir = "TX" => ~Transmitting
  /\ call.at = "SB" => start = TRUE \/ line = "SB"
  /\ call.at = "ADDR" => line \in {"addressed", "ADDR", "nacked"} /\ start = FALSE
  /\ ~Busy => line \in {"idle", "data", "held", "nacked"}
  /\ ~Busy /\ i2c_api = "interrupt" => line # "nacked"
  /\ Busy /\ start = FALSE /\ (call.dir = "TX" \/ I2cAsking) => stop = FALSE
  /\ line = "SB" => call.at \in {"SB", "busy"}
  /\ line \in {"addressed", "ADDR"} => call.at \in {"ADDR", "busy"} /\ dir = call.dir
  /\ I2cSending => dir = "TX" /\ line \in {"data", "halted"} /\ start = FALSE
  /\ I2cReceiving => dir = "RX" /\ line \in {"idle", "data"} /\ start = FALSE

\* The bytes that were stored, or sent, that wait in DR, and that are left.
I2cFrames ==
  /\ I2cFramesInOrder
  /\ Busy => i2c_said = "none"
  /\ I2cAsking => call.len = call.size /\ Len(i2c_wire) = 0 /\ Len(i2c_got) = 0
  /\ line \in {"SB", "addressed", "ADDR"} => Len(txq) = 0
  /\ I2cSending => /\ call.size = Len(i2c_wire) + Len(txq) + call.len
                   /\ \A i \in DOMAIN txq : txq[i] = Len(i2c_wire) + i
  /\ ~I2cSending /\ Transmitting => Len(txq) = 0
  /\ I2cReceiving => call.len > 0 /\ call.size = Len(i2c_got) + call.len

I2cAck ==
  /\ ~I2cReceiving => ack = TRUE
  /\ prompt = TRUE /\ ~I2cReceiving => rxq = <<>> /\ fed = FALSE
  /\ prompt = TRUE /\ I2cReceiving =>
       /\ Len(rxq) \in {0, 1}
       /\ rxq # <<>> => rxq[1] = given
       /\ given = Len(i2c_got) + Len(rxq)
       /\ (fed = TRUE) <=> call.len > Len(rxq)
       /\ (ack = TRUE) <=> call.len # 1
  /\ prompt = TRUE /\ call.dir = "RX" /\ i2c_said = "complete" => given = Len(i2c_got)

\* What is stored, and waits to be, in the order in which it arrived.
I2cArrived ==
  I2cReceiving => /\ Arriving(rxq)
                  /\ \A i \in DOMAIN i2c_got : i2c_got[i] <= given
                  /\ \A j \in DOMAIN rxq : rxq[j] <= given
                  /\ \A i \in DOMAIN i2c_got, j \in DOMAIN rxq :
                       i2c_got[i] = 0 \/ i2c_got[i] < rxq[j]

I2cInv == I2cTypes /\ I2cControl /\ I2cFrames /\ I2cAck /\ I2cArrived

I2cKept == [I2cTransfer!Next]_(I2cTransfer!vars)

\* The driver is in at most one phase of a transfer.
LEMMA I2cPhases ==
  ASSUME I2cTypes
  PROVE  /\ Busy => I2cAsking \/ I2cSending \/ I2cReceiving
         /\ ~(I2cAsking /\ I2cSending) /\ ~(I2cAsking /\ I2cReceiving)
         /\ ~(I2cSending /\ I2cReceiving) /\ (I2cAsking => Busy)
BY DEF I2cTypes, I2cCallType, I2cAsking, I2cSending, I2cReceiving, Busy

\* A transfer in progress has a length.
LEMMA I2cSizes ==
  ASSUME I2cInv, Busy
  PROVE  call.size \in Nat /\ call.size > 0
<1>1. call.size \in I2cLengths
  BY DEF I2cInv, I2cControl
<1>2. \A n \in I2cLengths : n \in Nat /\ n > 0
  BY I2cAssumption
<1>. QED  BY <1>1, <1>2

\* Numbers that count on from k are continued by the next one.
LEMMA CountedOn ==
  ASSUME NEW s \in Seq(Nat), NEW k \in Nat, NEW f, f = k + Len(s) + 1,
         \A i \in DOMAIN s : s[i] = k + i
  PROVE  /\ Append(s, f) \in Seq(Nat) /\ Len(Append(s, f)) = Len(s) + 1
         /\ \A i \in DOMAIN Append(s, f) : Append(s, f)[i] = k + i
<1>. DEFINE t == Append(s, f)
<1>1. t \in Seq(Nat) /\ Len(t) = Len(s) + 1 /\ DOMAIN t = 1 .. Len(s) + 1
      /\ DOMAIN s = 1 .. Len(s) /\ Len(s) \in Nat
  OBVIOUS
<1>2. \A i \in 1 .. Len(s) : t[i] = s[i] /\ s[i] = k + i
  BY <1>1
<1>3. t[Len(s) + 1] = f
  BY <1>1
<1>. HIDE DEF t
<1>4. ASSUME NEW i \in 1 .. Len(s) + 1
      PROVE  t[i] = k + i
  <2>1. CASE i = Len(s) + 1
    BY <1>1, <1>3, <2>1
  <2>2. CASE i \in 1 .. Len(s)
    BY <1>2, <2>2
  <2>. QED  BY <1>1, <2>1, <2>2
<1>. QED  BY <1>1, <1>4 DEF t

\* The first byte in DR and the others.
LEMMA FirstAndRest ==
  ASSUME NEW s \in Seq(Nat), s # <<>>
  PROVE  /\ Head(s) \in Nat /\ Head(s) = s[1] /\ Tail(s) \in Seq(Nat)
         /\ Len(Tail(s)) = Len(s) - 1 /\ Len(s) \in Nat \ {0}
         /\ Len(s) = 1 => Tail(s) = <<>>
         /\ \A i \in DOMAIN Tail(s) : Tail(s)[i] = s[i + 1] /\ i + 1 \in DOMAIN s
<1>1. /\ Head(s) \in Nat /\ Head(s) = s[1] /\ Tail(s) \in Seq(Nat)
      /\ Len(Tail(s)) = Len(s) - 1 /\ Len(s) \in Nat \ {0}
      /\ \A i \in 1 .. Len(s) - 1 : Tail(s)[i] = s[i + 1]
  BY HeadTailProperties, EmptySeq
<1>2. Len(s) = 1 => Tail(s) = <<>>
  <2>1. \A q \in Seq(Nat) : Len(q) = 0 => q = <<>>
    BY EmptySeq
  <2>2. Len(s) = 1 => Len(Tail(s)) = 0
    BY <1>1
  <2>. QED  BY <1>1, <2>1, <2>2
<1>3. DOMAIN Tail(s) = 1 .. Len(s) - 1 /\ DOMAIN s = 1 .. Len(s)
  BY <1>1
<1>. QED  BY <1>1, <1>2, <1>3

\* A transfer begins.
LEMMA I2cBegins ==
  ASSUME I2cInv, NEW n \in I2cLengths, NEW sr \in BOOLEAN,
         \/ I2C_MasterSendData(n, sr) \/ I2C_MasterSendDataIT(n, sr)
         \/ I2C_MasterReceiveData(n, sr) \/ I2C_MasterReceiveDataIT(n, sr)
  PROVE  I2cInv' /\ I2cKept
<1>. USE DEF I2cInv
<1>1. PICK at, d, ints :
        /\ Begin(at, d, n, sr, ints)
        /\ at = (IF i2c_api = "polling" THEN "SB" ELSE "busy") /\ d \in {"TX", "RX"}
        /\ ints = IF i2c_api = "polling" THEN {} ELSE {"BUF", "EVT", "ERR"}
        /\ at = "busy" /\ d = "TX" => ~Transmitting
  <2>1. CASE I2C_MasterSendData(n, sr)
    BY <2>1 DEF I2C_MasterSendData
  <2>2. CASE I2C_MasterSendDataIT(n, sr)
    BY <2>2 DEF I2C_MasterSendDataIT, I2cTypes
  <2>3. CASE I2C_MasterReceiveData(n, sr)
    BY <2>3 DEF I2C_MasterReceiveData
  <2>4. CASE I2C_MasterReceiveDataIT(n, sr)
    BY <2>4 DEF I2C_MasterReceiveDataIT
  <2>. QED  BY <2>1, <2>2, <2>3, <2>4
<1>2. /\ ~Busy /\ start' = TRUE /\ en' = en \cup ints
      /\ call' = [at |-> at, dir |-> d, len |-> n, size |-> n, sr |-> sr]
      /\ i2c_wire' = <<>> /\ i2c_got' = <<>> /\ i2c_said' = "none"
      /\ UNCHANGED <<ack, stop, line, txq, rxq, dir, given, fed, i2c_api, prompt, patient, wedged>>
  BY <1>1 DEF Begin, Transfer, bus, i2ccase
<1>3. n \in Nat \ {0} /\ i2c_api \in {"polling", "interrupt"}
  BY I2cAssumption DEF I2cTypes
<1>4. /\ call'.at = at /\ call'.dir = d /\ call'.len = n /\ call'.size = n
      /\ call'.sr = sr
  BY <1>2
<1>5. I2cTypes'
  BY <1>1, <1>2, <1>3 DEF I2cTypes, I2cCallType
<1>6. /\ ~I2cAsking /\ ~I2cSending /\ ~I2cReceiving /\ Busy'
      /\ I2cAsking' /\ ~I2cSending' /\ ~I2cReceiving'
  BY <1>1, <1>2, <1>3, <1>4 DEF I2cAsking, I2cSending, I2cReceiving, Busy
<1>7. I2cControl'
  <2>1. line' \in {"idle", "data", "held", "nacked"} /\ (at = "busy" => line' # "nacked")
    BY <1>1, <1>2, <1>3 DEF I2cControl
  <2>2. at = "busy" /\ d = "TX" => ~Transmitting'
    BY <1>1, <1>2 DEF Transmitting
  <2>. QED  BY <1>1, <1>2, <1>3, <1>4, <1>6, <2>1, <2>2 DEF I2cControl, I2cInterruptsServed
<1>8. I2cFrames'
  BY <1>1, <1>2, <1>4, <1>6, NoneInOrder DEF I2cFrames, I2cFramesInOrder, I2cControl, Transmitting
<1>9. I2cAck'
  BY <1>2, <1>6 DEF I2cAck
<1>10. I2cTransfer!Begin(n)
  BY <1>1, <1>2, <1>4, <1>6, NoneInOrder DEF I2cTransfer!Begin, I2cTypes
<1>11. I2cArrived'
  BY <1>6 DEF I2cArrived
<1>. QED  BY <1>5, <1>7, <1>8, <1>9, <1>10, <1>11 DEF I2cKept, I2cTransfer!Next

\* A polling call returns early.
LEMMA I2cTimesOut ==
  ASSUME I2cInv, Timeout
  PROVE  I2cInv' /\ I2cKept
<1>. USE DEF I2cInv
<1>1. /\ (call.at = "SB" /\ wedged = TRUE) \/ (call.at = "ADDR" /\ line = "nacked")
      /\ call' = [call EXCEPT !.at = "ready", !.len = 0]
      /\ en' = en \ {"BUF", "EVT"} /\ i2c_said' = "given_up"
      /\ UNCHANGED <<ack, start, stop, line, txq, rxq, dir, given, fed, i2c_api, prompt, patient,
                     wedged, i2c_wire, i2c_got>>
  BY DEF Timeout, OutOfTime, End, bus, i2ccase, I2cTypes
<1>2. /\ call' \in I2cCallType /\ call'.at = "ready" /\ call'.dir = call.dir /\ call'.len = 0
      /\ call'.size = call.size
  BY <1>1 DEF I2cTypes, I2cCallType
<1>3. Busy /\ I2cAsking /\ ~I2cSending /\ ~I2cReceiving
  BY <1>1 DEF Busy, I2cAsking, I2cSending, I2cReceiving
<1>4. ~Busy' /\ ~I2cAsking' /\ ~I2cSending' /\ ~I2cReceiving'
  BY <1>2 DEF Busy, I2cAsking, I2cSending, I2cReceiving
<1>5. I2cTypes'
  BY <1>1, <1>2 DEF I2cTypes
<1>6. I2cControl'
  <2>1. i2c_api = "polling" /\ line' \in {"idle", "nacked"}
    BY <1>1 DEF I2cControl, I2cTypes
  <2>. QED  BY <1>1, <1>2, <1>4, <2>1 DEF I2cControl, I2cInterruptsServed
<1>7. I2cFrames'
  BY <1>1, <1>3, <1>4 DEF I2cFrames, I2cFramesInOrder, Transmitting
<1>8. I2cAck'
  BY <1>1, <1>3, <1>4 DEF I2cAck
<1>9. I2cTransfer!GiveUp
  <2>1. call.size > 0
    BY <1>3, I2cSizes
  <2>. QED  BY <1>1, <1>2, <1>3, <1>4, <2>1 DEF I2cTransfer!GiveUp, I2cTypes
<1>10. I2cArrived'
  BY <1>4 DEF I2cArrived
<1>. QED  BY <1>5, <1>6, <1>7, <1>8, <1>9, <1>10 DEF I2cKept, I2cTransfer!Next

\* The address is sent.
LEMMA I2cAddresses ==
  ASSUME I2cInv, SendAddress
  PROVE  I2cInv' /\ I2cKept
<1>. USE DEF I2cInv
<1>1. /\ call.at \in {"SB", "busy"} /\ line = "SB" /\ line' = "addressed" /\ dir' = call.dir
      /\ call' = [call EXCEPT !.at = IF call.at = "busy" THEN "busy" ELSE "ADDR"]
      /\ UNCHANGED <<ack, start, stop, en, txq, rxq, given, fed, i2c_api, prompt, patient, wedged,
                     i2c_wire, i2c_got, i2c_said>>
  BY DEF SendAddress, Stands, Goes, cr, i2ccase, i2clog
<1>2. /\ call' \in I2cCallType /\ call'.at = (IF call.at = "busy" THEN "busy" ELSE "ADDR")
      /\ call'.dir = call.dir /\ call'.len = call.len /\ call'.size = call.size
  BY <1>1 DEF I2cTypes, I2cCallType
<1>3. Busy /\ I2cAsking /\ ~I2cSending /\ ~I2cReceiving /\ start = FALSE
  BY <1>1 DEF Busy, I2cAsking, I2cSending, I2cReceiving, I2cControl, I2cTypes
<1>4. Busy' /\ I2cAsking' /\ ~I2cSending' /\ ~I2cReceiving'
  BY <1>1, <1>2 DEF Busy, I2cAsking, I2cSending, I2cReceiving
<1>5. I2cTypes'
  BY <1>1, <1>2 DEF I2cTypes, I2cCallType
<1>6. I2cControl'
  BY <1>1, <1>2, <1>3, <1>4 DEF I2cControl, I2cInterruptsServed
<1>7. I2cFrames'
  BY <1>1, <1>2, <1>3, <1>4 DEF I2cFrames, I2cFramesInOrder, Transmitting
<1>8. I2cAck'
  BY <1>1, <1>2, <1>3, <1>4 DEF I2cAck
<1>9. UNCHANGED I2cTransfer!vars
  BY <1>1, <1>2, <1>3, <1>4 DEF I2cTransfer!vars, I2cTypes
<1>10. I2cArrived'
  BY <1>4 DEF I2cArrived
<1>. QED  BY <1>5, <1>6, <1>7, <1>8, <1>9, <1>10 DEF I2cKept

\* The data phase begins.
LEMMA I2cClears ==
  ASSUME I2cInv, ClearADDR
  PROVE  I2cInv' /\ I2cKept
<1>. USE DEF I2cInv
<1>1. /\ call.at \in {"ADDR", "busy"} /\ line = "ADDR" /\ line' = "data" /\ given' = 0
      /\ ack' = (ack /\ ~(call.dir = "RX" /\ call.size = 1)) /\ fed' = (call.dir = "RX")
      /\ call' = [call EXCEPT !.at = IF call.at = "busy" THEN "busy" ELSE call.dir]
      /\ rxq' = [i \in DOMAIN rxq |-> LeftOver(rxq[i])]
      /\ UNCHANGED <<start, stop, en, txq, dir, i2c_api, prompt, patient, wedged,
                     i2c_wire, i2c_got, i2c_said>>
  BY DEF ClearADDR, Stands, Goes, i2ccase, i2clog
<1>2. /\ call' \in I2cCallType /\ call'.at = (IF call.at = "busy" THEN "busy" ELSE call.dir)
      /\ call'.dir = call.dir /\ call'.len = call.len /\ call'.size = call.size
      /\ call.dir \in {"TX", "RX"}
  BY <1>1 DEF I2cTypes, I2cCallType
<1>3. Busy /\ I2cAsking /\ ~I2cSending /\ ~I2cReceiving /\ start = FALSE /\ dir = call.dir
      /\ stop = FALSE /\ wedged = FALSE
  BY <1>1 DEF Busy, I2cAsking, I2cSending, I2cReceiving, I2cControl, I2cTypes
<1>4. Busy' /\ ~I2cAsking'
  BY <1>1, <1>2, <1>3 DEF Busy, I2cAsking
<1>5. (I2cSending' <=> call.dir = "TX") /\ (I2cReceiving' <=> call.dir = "RX")
  BY <1>2, <1>4 DEF I2cSending, I2cReceiving
<1>12. /\ rxq' \in Seq(Nat) /\ Len(rxq') = Len(rxq) /\ DOMAIN rxq' = DOMAIN rxq
       /\ \A i \in DOMAIN rxq : rxq'[i] = 0
       /\ rxq = <<>> => rxq' = <<>>
  <2>1. rxq \in Seq(Nat) /\ Len(rxq) \in Nat /\ DOMAIN rxq = 1 .. Len(rxq)
    BY DEF I2cTypes
  <2>2. \A i \in DOMAIN rxq : LeftOver(rxq[i]) = 0
    BY <2>1 DEF LeftOver, Empty
  <2>3. rxq' = [i \in 1 .. Len(rxq) |-> 0]
    BY <1>1, <2>1, <2>2
  <2>4. rxq' \in Seq(Nat) /\ Len(rxq') = Len(rxq)
    BY <2>1, <2>3
  <2>. QED  BY <2>1, <2>3, <2>4, EmptySeq
<1>6. I2cTypes'
  BY <1>1, <1>2, <1>12 DEF I2cTypes
<1>7. I2cControl'
  BY <1>1, <1>2, <1>3, <1>4, <1>5 DEF I2cControl, I2cInterruptsServed
<1>8. call.size \in Nat \ {0} /\ call.len = call.size
      /\ Len(i2c_wire) = 0 /\ Len(i2c_got) = 0 /\ Len(txq) = 0
  BY <1>1, <1>3, I2cAssumption DEF I2cFrames, I2cControl
<1>9. I2cFrames'
  <2>1. \A i \in DOMAIN txq : txq[i] = Len(i2c_wire) + i
    BY <1>8 DEF I2cTypes
  <2>. QED  BY <1>1, <1>2, <1>3, <1>4, <1>5, <1>8, <2>1
            DEF I2cFrames, I2cFramesInOrder, Transmitting
<1>10. I2cAck'
  <2>1. ack = TRUE /\ (prompt = TRUE => rxq = <<>>)
    BY <1>3 DEF I2cAck
  <2>2. ((ack' = TRUE) <=> ~(call.dir = "RX" /\ call.size = 1))
        /\ ((fed' = TRUE) <=> call.dir = "RX") /\ fed' \in BOOLEAN
    BY <1>1, <2>1
  <2>3. prompt = TRUE => rxq' = <<>> /\ Len(rxq') = 0
    BY <1>12, <2>1
  <2>. QED  BY <1>1, <1>2, <1>3, <1>4, <1>5, <1>8, <2>1, <2>2, <2>3 DEF I2cAck, I2cFrames
<1>11. UNCHANGED I2cTransfer!vars
  BY <1>1, <1>2, <1>3, <1>4 DEF I2cTransfer!vars, I2cTypes
<1>13. I2cArrived'
  <2>1. DOMAIN i2c_got' = {}
    BY <1>1, <1>8 DEF I2cTypes
  <2>2. Arriving(rxq') /\ \A j \in DOMAIN rxq' : rxq'[j] <= given'
    BY <1>1, <1>12 DEF Arriving
  <2>. QED  BY <2>1, <2>2 DEF I2cArrived
<1>. QED  BY <1>6, <1>7, <1>9, <1>10, <1>11, <1>13 DEF I2cKept

\* TXE and BTF are handled in the phase of sending only.
LEMMA I2cSends ==
  ASSUME I2cInv, call.at \in {"TX", "busy"}, call.dir = "TX", Transmitting
  PROVE  /\ Busy /\ I2cSending /\ ~I2cAsking /\ ~I2cReceiving
         /\ dir = "TX" /\ line = "data" /\ start = FALSE /\ stop = FALSE /\ wedged = FALSE
<1>1. Busy /\ line = "data" /\ dir = "TX"
  BY DEF Busy, Transmitting
<1>2. start = FALSE
  BY <1>1 DEF I2cInv, I2cControl, I2cTypes
<1>3. ~I2cAsking
  BY <1>1, <1>2 DEF I2cAsking
<1>4. I2cSending /\ ~I2cReceiving
  BY <1>1, <1>3 DEF I2cSending, I2cReceiving
<1>. QED  BY <1>1, <1>2, <1>3, <1>4 DEF I2cInv, I2cControl, I2cTypes

\* The next byte is written to DR.
LEMMA I2cWrites ==
  ASSUME I2cInv, WriteByte
  PROVE  I2cInv' /\ I2cKept
<1>. USE DEF I2cInv
<1>1. /\ call.at \in {"TX", "busy"} /\ call.dir = "TX" /\ call.len > 0 /\ Transmitting
      /\ txq' = Append(txq, call.size - call.len + 1)
      /\ call' = [call EXCEPT !.len = call.len - 1]
      /\ UNCHANGED <<ack, start, stop, en, line, rxq, dir, given, fed, i2c_api, prompt, patient,
                     wedged, i2c_wire, i2c_got, i2c_said>>
  BY DEF WriteByte, Stands, ByteLeft, cr, i2ccase, i2clog
<1>2. /\ Busy /\ I2cSending /\ ~I2cAsking /\ ~I2cReceiving
      /\ dir = "TX" /\ line = "data" /\ start = FALSE /\ stop = FALSE
  BY <1>1, I2cSends
<1>3. /\ call' \in I2cCallType /\ call'.at = call.at /\ call'.dir = call.dir
      /\ call'.len = call.len - 1 /\ call'.size = call.size
      /\ call.len \in Nat /\ call.size \in Nat
  <2>1. call \in I2cCallType /\ call.len \in Nat /\ call.size \in Nat
    BY DEF I2cTypes, I2cCallType
  <2>2. call.len - 1 \in Nat
    BY <1>1, <2>1
  <2>. QED  BY <1>1, <2>1, <2>2 DEF I2cCallType
<1>4. Busy' /\ ~I2cAsking' /\ I2cSending' /\ ~I2cReceiving'
  BY <1>1, <1>2, <1>3 DEF Busy, I2cAsking, I2cSending, I2cReceiving
<1>5. /\ txq \in Seq(Nat) /\ Len(txq) \in Nat /\ Len(i2c_wire) \in Nat
      /\ call.size = Len(i2c_wire) + Len(txq) + call.len
      /\ \A i \in DOMAIN txq : txq[i] = Len(i2c_wire) + i
  BY <1>2 DEF I2cTypes, I2cFrames
<1>6. call.size - call.len + 1 = Len(i2c_wire) + Len(txq) + 1
  BY <1>3, <1>5
<1>7. txq' \in Seq(Nat) /\ Len(txq') = Len(txq) + 1
      /\ \A i \in DOMAIN txq' : txq'[i] = Len(i2c_wire) + i
  <2>. DEFINE next == call.size - call.len + 1
  <2>1. next \in Nat /\ next = Len(i2c_wire) + Len(txq) + 1 /\ txq' = Append(txq, next)
    BY <1>1, <1>5, <1>6
  <2>. HIDE DEF next
  <2>. QED  BY <1>5, <2>1, CountedOn
<1>8. I2cTypes'
  BY <1>1, <1>3, <1>7 DEF I2cTypes
<1>9. I2cControl'
  BY <1>1, <1>2, <1>3, <1>4 DEF I2cControl, I2cInterruptsServed
<1>10. I2cFrames'
  <2>1. call'.size = Len(i2c_wire') + Len(txq') + call'.len
    BY <1>1, <1>3, <1>5, <1>7
  <2>. QED  BY <1>1, <1>2, <1>3, <1>4, <1>7, <2>1 DEF I2cFrames, I2cFramesInOrder
<1>11. I2cAck'
  BY <1>1, <1>2, <1>3, <1>4 DEF I2cAck
<1>12. UNCHANGED I2cTransfer!vars
  BY <1>1, <1>2, <1>3, <1>4 DEF I2cTransfer!vars, I2cTypes
<1>13. I2cArrived'
  BY <1>4 DEF I2cArrived
<1>. QED  BY <1>8, <1>9, <1>10, <1>11, <1>12, <1>13 DEF I2cKept

\* The last byte has been sent.
LEMMA I2cSendEnds ==
  ASSUME I2cInv, FinishSend
  PROVE  I2cInv' /\ I2cKept
<1>. USE DEF I2cInv
<1>1. /\ call.at \in {"TX", "busy"} /\ call.dir = "TX" /\ call.len = 0 /\ Transmitting
      /\ txq = <<>> /\ stop' = (stop \/ ~call.sr)
      /\ call' = [call EXCEPT !.at = "ready", !.len = 0]
      /\ en' = en \ {"BUF", "EVT"} /\ i2c_said' = "complete"
      /\ UNCHANGED <<ack, start, line, txq, rxq, dir, given, fed, i2c_api, prompt, patient,
                     wedged, i2c_wire, i2c_got>>
  BY DEF FinishSend, Stands, End, bus, i2ccase
<1>2. /\ Busy /\ I2cSending /\ ~I2cAsking /\ ~I2cReceiving
      /\ dir = "TX" /\ line = "data" /\ start = FALSE /\ wedged = FALSE
  BY <1>1, I2cSends
<1>3. /\ call' \in I2cCallType /\ call'.at = "ready" /\ call'.dir = call.dir /\ call'.len = 0
      /\ call'.size = call.size /\ call.size \in Nat /\ stop' \in BOOLEAN
  BY <1>1 DEF I2cTypes, I2cCallType
<1>4. ~Busy' /\ ~I2cAsking' /\ ~I2cSending' /\ ~I2cReceiving'
  BY <1>3 DEF Busy, I2cAsking, I2cSending, I2cReceiving
<1>5. I2cTypes'
  BY <1>1, <1>3 DEF I2cTypes
<1>6. I2cControl'
  BY <1>1, <1>2, <1>3, <1>4 DEF I2cControl, I2cInterruptsServed
<1>7. I2cFrames'
  BY <1>1, <1>2, <1>4 DEF I2cFrames, I2cFramesInOrder
<1>8. I2cAck'
  BY <1>1, <1>2, <1>3, <1>4 DEF I2cAck
<1>9. I2cTransfer!Complete
  <2>1. call.size = Len(i2c_wire)
    BY <1>1, <1>2, <1>3 DEF I2cFrames, I2cTypes
  <2>2. call.size > 0
    BY <1>2, I2cSizes
  <2>. QED  BY <1>1, <1>2, <1>3, <1>4, <2>1, <2>2 DEF I2cTransfer!Complete, I2cTypes
<1>10. I2cArrived'
  BY <1>4 DEF I2cArrived
<1>. QED  BY <1>5, <1>6, <1>7, <1>8, <1>9, <1>10 DEF I2cKept, I2cTransfer!Next

\* A byte is read: it is one of this transfer's if the task is prompt.
LEMMA I2cReads ==
  ASSUME I2cInv, ReadByte
  PROVE  I2cInv' /\ I2cKept
<1>. USE DEF I2cInv
<1>1. /\ call.at \in {"RX", "busy"} /\ call.dir = "RX" /\ rxq # <<>>
      /\ ack' = (call.len = 1 \/ (ack /\ call.len # 2))
      /\ stop' = (stop \/ (call.len = StopAt /\ ~call.sr))
      /\ i2c_got' = Append(i2c_got, Head(rxq)) /\ rxq' = Tail(rxq)
      /\ UNCHANGED <<start, line, txq, dir, given, fed, i2c_api, prompt, patient, wedged, i2c_wire>>
  BY DEF ReadByte, Stands, AckFromNowOn, i2ccase
<1>2. IF call.len = 1
      THEN /\ call' = [call EXCEPT !.at = "ready", !.len = 0]
           /\ en' = en \ {"BUF", "EVT"} /\ i2c_said' = "complete"
      ELSE /\ call' = [call EXCEPT !.len = call.len - 1]
           /\ en' = en /\ i2c_said' = i2c_said
  BY DEF ReadByte, End
<1>3. Busy /\ I2cReceiving /\ ~I2cAsking /\ ~I2cSending
  <2>1. call.at = "busy" => prompt = TRUE
    BY DEF I2cControl, I2cTypes
  <2>2. call.at = "RX" \/ ~I2cAsking
    BY <1>1, <2>1, I2cPhases DEF I2cAck
  <2>. QED  BY <1>1, <2>2 DEF Busy, I2cAsking, I2cSending, I2cReceiving
<1>4. dir = "RX" /\ line \in {"idle", "data"} /\ start = FALSE
  BY <1>3 DEF I2cControl
<1>5. /\ call \in I2cCallType /\ call.len \in Nat /\ call.size \in Nat /\ call.len > 0
      /\ call.size = Len(i2c_got) + call.len /\ Len(i2c_got) \in Nat /\ i2c_said = "none"
      /\ i2c_got \in Seq(Nat) /\ rxq \in Seq(Nat)
  BY <1>3 DEF I2cTypes, I2cCallType, I2cFrames
<1>6. /\ Head(rxq) \in Nat /\ Tail(rxq) \in Seq(Nat) /\ Len(Tail(rxq)) = Len(rxq) - 1
      /\ Head(rxq) = rxq[1] /\ Len(rxq) \in Nat \ {0} /\ (Len(rxq) = 1 => Tail(rxq) = <<>>)
  BY <1>1, <1>5, FirstAndRest
<1>7. i2c_got' \in Seq(Nat) /\ Len(i2c_got') = Len(i2c_got) + 1
  BY <1>1, <1>5, <1>6
<1>8. /\ call' \in I2cCallType /\ call'.dir = call.dir /\ call'.size = call.size
      /\ call'.len = call.len - 1
      /\ call'.at = IF call.len = 1 THEN "ready" ELSE call.at
  <2>1. call.len - 1 \in Nat
    BY <1>5
  <2>2. CASE call.len = 1
    <3>1. call' = [call EXCEPT !.at = "ready", !.len = 0]
      BY <1>2, <2>2
    <3>2. call' \in I2cCallType /\ call'.dir = call.dir /\ call'.size = call.size
          /\ call'.len = 0 /\ call'.at = "ready"
      BY <1>5, <3>1 DEF I2cCallType
    <3>. QED  BY <2>2, <3>2
  <2>3. CASE call.len # 1
    BY <1>2, <1>5, <2>1, <2>3 DEF I2cCallType
  <2>. QED  BY <2>2, <2>3
<1>9. /\ call.len = 1 => ~Busy' /\ ~I2cReceiving'
      /\ call.len # 1 => Busy' /\ I2cReceiving'
      /\ ~I2cAsking' /\ ~I2cSending'
  BY <1>1, <1>3, <1>4, <1>8 DEF Busy, I2cAsking, I2cSending, I2cReceiving
<1>10. I2cTypes'
  <2>1. ack' \in BOOLEAN /\ stop' \in BOOLEAN
    BY <1>1
  <2>. QED  BY <1>1, <1>2, <1>6, <1>7, <1>8, <2>1 DEF I2cTypes
<1>11. I2cControl'
  <2>1. CASE call.len = 1
    BY <1>1, <1>2, <1>3, <1>4, <1>8, <1>9, <2>1 DEF I2cControl, I2cInterruptsServed
  <2>2. CASE call.len # 1
    BY <1>1, <1>2, <1>3, <1>4, <1>8, <1>9, <2>2 DEF I2cControl, I2cInterruptsServed, Busy
  <2>. QED  BY <2>1, <2>2
<1>12. ASSUME prompt = TRUE
       PROVE  /\ rxq[1] = given /\ given = Len(i2c_got) + 1 /\ Len(rxq) = 1
              /\ rxq' = <<>> /\ given' = given
              /\ (fed = TRUE) <=> call.len > 1
              /\ (ack = TRUE) <=> call.len # 1
              /\ InOrder(i2c_got)
  <2>1. Len(rxq) = 1 /\ rxq[1] = given /\ given = Len(i2c_got) + 1
        /\ ((fed = TRUE) <=> call.len > 1) /\ ((ack = TRUE) <=> call.len # 1)
    BY <1>1, <1>3, <1>5, <1>6, <1>12 DEF I2cAck
  <2>2. InOrder(i2c_got)
    BY <1>3, <1>12 DEF I2cTypes, I2cFrames, I2cFramesInOrder
  <2>. QED  BY <1>1, <1>6, <2>1, <2>2
<1>17. Arriving(i2c_got') /\ I2cArrived'
  <2>1. /\ Arriving(i2c_got) /\ Arriving(rxq)
        /\ \A i \in DOMAIN i2c_got : i2c_got[i] <= given
        /\ \A j \in DOMAIN rxq : rxq[j] <= given
        /\ \A i \in DOMAIN i2c_got, j \in DOMAIN rxq :
             i2c_got[i] = 0 \/ i2c_got[i] < rxq[j]
    BY <1>3 DEF I2cArrived, I2cFrames, I2cFramesInOrder, I2cTypes
  <2>2. /\ 1 \in DOMAIN rxq /\ Head(rxq) = rxq[1]
        /\ \A i \in DOMAIN Tail(rxq) : /\ Tail(rxq)[i] = rxq[i + 1] /\ i + 1 \in DOMAIN rxq
                                       /\ i \in Nat /\ i > 0
    <3>1. \A i \in DOMAIN Tail(rxq) : Tail(rxq)[i] = rxq[i + 1] /\ i + 1 \in DOMAIN rxq
      BY <1>1, <1>5, FirstAndRest
    <3>2. DOMAIN Tail(rxq) = 1 .. Len(rxq) - 1 /\ 1 \in DOMAIN rxq
      BY <1>5, <1>6
    <3>. QED  BY <1>6, <3>1, <3>2
  <2>. DEFINE f == Head(rxq)
  <2>3. /\ f \in Nat /\ f <= given
        /\ \A i \in DOMAIN i2c_got : i2c_got[i] = 0 \/ i2c_got[i] < f
        /\ i2c_got' = Append(i2c_got, f)
    BY <1>1, <1>6, <2>1, <2>2
  <2>4. \A j \in DOMAIN rxq' : f = 0 \/ f < rxq'[j]
    BY <1>1, <2>1, <2>2 DEF Arriving
  <2>5. Arriving(rxq') /\ \A j \in DOMAIN rxq' : rxq'[j] <= given
    BY <1>1, <2>1, <2>2 DEF Arriving
  <2>. HIDE DEF f
  <2>6. /\ Arriving(i2c_got')
        /\ \A i \in DOMAIN i2c_got' :
             i2c_got'[i] = f \/ \E j \in DOMAIN i2c_got : i2c_got'[i] = i2c_got[j]
    BY <1>5, <2>1, <2>3, NextArrives
  <2>7. \A i \in DOMAIN i2c_got' : i2c_got'[i] <= given
    BY <2>1, <2>3, <2>6
  <2>8. \A i \in DOMAIN i2c_got', j \in DOMAIN rxq' : i2c_got'[i] = 0 \/ i2c_got'[i] < rxq'[j]
    <3>1. \A i \in DOMAIN i2c_got, j \in DOMAIN rxq' : i2c_got[i] = 0 \/ i2c_got[i] < rxq'[j]
      BY <1>1, <2>1, <2>2
    <3>. QED  BY <2>4, <2>6, <3>1
  <2>. QED  BY <1>1, <2>5, <2>6, <2>7, <2>8 DEF I2cArrived
<1>13. prompt = TRUE => InOrder(i2c_got')
  BY <1>1, <1>5, <1>6, <1>12, NextInOrder
<1>14. I2cFrames'
  <2>1. CASE call.len = 1
    BY <1>1, <1>2, <1>4, <1>9, <1>13, <1>17, <2>1 DEF I2cFrames, I2cFramesInOrder, Transmitting
  <2>2. CASE call.len # 1
    <3>1. call'.len > 0
      BY <1>5, <1>8, <2>2
    <3>2. \A a, b, c \in Nat : a = b + c => a = (b + 1) + (c - 1)
      OBVIOUS
    <3>4. call.size = (Len(i2c_got) + 1) + (call.len - 1)
      BY <1>5, <3>2
    <3>3. call'.size = Len(i2c_got') + call'.len
      BY <1>7, <1>8, <3>4
    <3>. QED  BY <1>1, <1>2, <1>4, <1>5, <1>9, <1>13, <1>17, <2>2, <3>1, <3>3
              DEF I2cFrames, I2cFramesInOrder, Transmitting
  <2>. QED  BY <2>1, <2>2
<1>15. I2cAck'
  <2>1. prompt = TRUE => rxq' = <<>> /\ Len(rxq') = 0 /\ given' = Len(i2c_got')
    BY <1>1, <1>6, <1>7, <1>12
  <2>2. CASE call.len = 1
    <3>1. ack' = TRUE
      BY <1>1, <2>2
    <3>2. prompt = TRUE => ~(fed = TRUE)
      <4>1. ~(call.len > 1)
        BY <2>2
      <4>. QED  BY <1>12, <4>1
    <3>3. prompt = TRUE => fed' = FALSE
      BY <1>1, <3>2 DEF I2cTypes
    <3>. QED  BY <1>1, <1>9, <2>1, <2>2, <3>1, <3>3 DEF I2cAck
  <2>3. CASE call.len # 1
    <3>1. prompt = TRUE => /\ (ack' = TRUE) <=> call'.len # 1
                           /\ (fed' = TRUE) <=> call'.len > Len(rxq')
      <4>1. SUFFICES ASSUME prompt = TRUE
                     PROVE  /\ (ack' = TRUE) <=> call'.len # 1
                            /\ (fed' = TRUE) <=> call'.len > Len(rxq')
        OBVIOUS
      <4>2. fed = TRUE /\ ack = TRUE /\ Len(rxq') = 0 /\ call.len > 1
        <5>1. call.len > 1
          BY <1>5, <2>3
        <5>2. fed = TRUE /\ ack = TRUE
          BY <1>12, <2>3, <4>1, <5>1
        <5>. QED  BY <2>1, <4>1, <5>1, <5>2
      <4>3. (ack' = TRUE) <=> call.len # 2
        BY <1>1, <2>3, <4>2
      <4>4. (call'.len # 1 <=> call.len # 2) /\ call'.len > 0
        BY <1>5, <1>8, <2>3, <4>2
      <4>. QED  BY <1>1, <4>2, <4>3, <4>4
    <3>2. prompt = TRUE => given' = Len(i2c_got') + Len(rxq')
      BY <1>7, <2>1
    <3>. QED  BY <1>1, <1>2, <1>5, <1>9, <2>1, <2>3, <3>1, <3>2 DEF I2cAck
  <2>. QED  BY <2>2, <2>3
<1>16. I2cTransfer!Next
  <2>1. CASE call.len = 1
    BY <1>1, <1>2, <1>3, <1>5, <1>7, <1>8, <1>9, <2>1
       DEF I2cTransfer!Next, I2cTransfer!Complete, I2cTypes
  <2>2. CASE call.len # 1
    BY <1>1, <1>2, <1>3, <1>5, <1>7, <1>8, <1>9, <2>2
       DEF I2cTransfer!Next, I2cTransfer!Move, I2cTypes
  <2>. QED  BY <2>1, <2>2
<1>. QED  BY <1>10, <1>11, <1>14, <1>15, <1>16, <1>17 DEF I2cKept

\* The slave did not acknowledge.
LEMMA I2cFails ==
  ASSUME I2cInv, I2C_ER_IRQHandling
  PROVE  I2cInv' /\ I2cKept
<1>. USE DEF I2cInv
<1>1. /\ call.at = "busy" /\ line \in {"nacked", "halted"}
      /\ ack' = TRUE /\ stop' = TRUE /\ line' = "held"
      /\ call' = [call EXCEPT !.at = "ready", !.len = 0]
      /\ en' = en \ {"BUF", "EVT"} /\ i2c_said' = "given_up"
      /\ UNCHANGED <<start, txq, rxq, dir, given, fed, i2c_api, prompt, patient, wedged,
                     i2c_wire, i2c_got>>
  BY DEF I2C_ER_IRQHandling, End, i2ccase
<1>2. /\ call' \in I2cCallType /\ call'.at = "ready" /\ call'.dir = call.dir /\ call'.len = 0
      /\ call'.size = call.size
  BY <1>1 DEF I2cTypes, I2cCallType
<1>3. Busy /\ ~I2cReceiving /\ start = FALSE /\ wedged = FALSE
  BY <1>1 DEF Busy, I2cControl, I2cTypes
<1>4. ~Busy' /\ ~I2cAsking' /\ ~I2cSending' /\ ~I2cReceiving'
  BY <1>2 DEF Busy, I2cAsking, I2cSending, I2cReceiving
<1>5. I2cTypes'
  BY <1>1, <1>2 DEF I2cTypes
<1>6. I2cControl'
  BY <1>1, <1>2, <1>3, <1>4 DEF I2cControl, I2cInterruptsServed
<1>7. I2cFrames'
  BY <1>1, <1>4 DEF I2cFrames, I2cFramesInOrder, Transmitting
<1>8. I2cAck'
  BY <1>1, <1>3, <1>4 DEF I2cAck
<1>9. I2cTransfer!GiveUp
  <2>1. call.size > 0
    BY <1>3, I2cSizes
  <2>. QED  BY <1>1, <1>2, <1>3, <1>4, <2>1 DEF I2cTransfer!GiveUp, I2cTypes
<1>10. I2cArrived'
  BY <1>4 DEF I2cArrived
<1>. QED  BY <1>5, <1>6, <1>7, <1>8, <1>9, <1>10 DEF I2cKept, I2cTransfer!Next

\* The bus executes a START.
LEMMA I2cStarts ==
  ASSUME I2cInv, HwStart
  PROVE  I2cInv' /\ I2cKept
<1>. USE DEF I2cInv
<1>1. /\ start = TRUE /\ stop = FALSE /\ wedged = FALSE
      /\ line' = "SB" /\ start' = FALSE /\ txq' = <<>> /\ i2c_wire' = <<>>
      /\ UNCHANGED <<call, ack, stop, en, rxq, dir, given, fed, i2c_api, prompt, patient, wedged,
                     i2c_got, i2c_said>>
  BY DEF HwStart, i2ccase, i2clog, I2cTypes
<1>2. Busy /\ call.at \in {"SB", "busy"}
  BY <1>1 DEF I2cControl, Busy
<1>3. I2cAsking /\ ~I2cSending /\ ~I2cReceiving
  BY <1>1, <1>2 DEF I2cAsking, I2cSending, I2cReceiving
<1>4. Busy' /\ I2cAsking' /\ ~I2cSending' /\ ~I2cReceiving'
  BY <1>1, <1>2 DEF I2cAsking, I2cSending, I2cReceiving, Busy
<1>5. I2cTypes'
  BY <1>1, NoneInOrder DEF I2cTypes
<1>6. I2cControl'
  BY <1>1, <1>2, <1>3, <1>4 DEF I2cControl, I2cInterruptsServed
<1>7. I2cFrames'
  BY <1>1, <1>2, <1>3, <1>4, NoneInOrder DEF I2cFrames, I2cFramesInOrder, Transmitting
<1>8. I2cAck'
  BY <1>1, <1>3, <1>4 DEF I2cAck
<1>9. UNCHANGED I2cTransfer!vars
  BY <1>1, <1>2, <1>3, <1>4, NoneInOrder DEF I2cTransfer!vars, I2cFrames, I2cTypes
<1>10. I2cArrived'
  BY <1>4 DEF I2cArrived
<1>. QED  BY <1>5, <1>6, <1>7, <1>8, <1>9, <1>10 DEF I2cKept

\* The bus executes a STOP.
LEMMA I2cStops ==
  ASSUME I2cInv, HwStop
  PROVE  I2cInv' /\ I2cKept
<1>. USE DEF I2cInv
<1>1. /\ stop = TRUE /\ AtRest /\ line' = "idle" /\ stop' = FALSE
      /\ UNCHANGED <<call, ack, start, en, txq, rxq, dir, given, fed, i2c_api, prompt, patient,
                     wedged, i2c_wire, i2c_got, i2c_said>>
  BY DEF HwStop, i2ccase, i2clog, I2cTypes
<1>2. line \in {"idle", "nacked", "halted", "held", "data"}
  BY <1>1 DEF AtRest, Transmitting, I2cTypes
<1>3. ~I2cSending
  BY <1>1 DEF I2cControl, I2cSending
<1>4. (Busy' <=> Busy) /\ (I2cAsking' <=> I2cAsking) /\ (I2cReceiving' <=> I2cReceiving)
      /\ ~I2cSending' /\ (I2cAsking => start = TRUE)
  <2>1. Busy' <=> Busy
    BY <1>1 DEF Busy
  <2>2. I2cAsking => start = TRUE
    BY <1>1, I2cPhases DEF I2cControl, I2cTypes
  <2>3. I2cAsking' <=> I2cAsking
    BY <1>1, <1>2, <2>2 DEF I2cAsking, I2cControl
  <2>. QED  BY <1>1, <1>3, <2>1, <2>2, <2>3 DEF I2cSending, I2cReceiving
<1>5. I2cTypes'
  BY <1>1 DEF I2cTypes
<1>6. I2cControl'
  <2>1. call.at \notin {"ADDR"} /\ (call.at = "SB" => start = TRUE) /\ ~Transmitting'
    BY <1>1, <1>4 DEF I2cControl, I2cAsking, Transmitting
  <2>. QED  BY <1>1, <1>4, <2>1 DEF I2cControl, I2cInterruptsServed
<1>7. I2cFrames'
  BY <1>1, <1>2, <1>3, <1>4 DEF I2cFrames, I2cFramesInOrder, Transmitting
<1>8. I2cAck'
  BY <1>1, <1>4 DEF I2cAck
<1>9. UNCHANGED I2cTransfer!vars
  BY <1>1, <1>4 DEF I2cTransfer!vars, I2cTypes
<1>10. I2cArrived'
  BY <1>1, <1>4 DEF I2cArrived
<1>. QED  BY <1>5, <1>6, <1>7, <1>8, <1>9, <1>10 DEF I2cKept

\* The slave answers its address, or does not.
LEMMA I2cAnswered ==
  ASSUME I2cInv, HwAddress
  PROVE  I2cInv' /\ I2cKept
<1>. USE DEF I2cInv
<1>1. /\ line = "addressed" /\ line' \in {"ADDR", "nacked"}
      /\ UNCHANGED <<call, ack, start, stop, en, txq, rxq, dir, given, fed, i2c_api, prompt,
                     patient, wedged, i2c_wire, i2c_got, i2c_said>>
  BY DEF HwAddress, cr, i2ccase, i2clog
<1>2. Busy /\ call.at \in {"ADDR", "busy"} /\ start = FALSE /\ wedged = FALSE
      /\ dir = call.dir
  BY <1>1 DEF I2cControl, Busy, I2cTypes
<1>3. I2cAsking /\ ~I2cSending /\ ~I2cReceiving
  BY <1>1, <1>2 DEF I2cAsking, I2cSending, I2cReceiving
<1>4. Busy' /\ I2cAsking' /\ ~I2cSending' /\ ~I2cReceiving'
  BY <1>1, <1>2 DEF I2cAsking, I2cSending, I2cReceiving, Busy
<1>5. I2cTypes'
  BY <1>1 DEF I2cTypes
<1>6. I2cControl'
  BY <1>1, <1>2, <1>3, <1>4 DEF I2cControl, I2cInterruptsServed
<1>7. I2cFrames'
  <2>1. ~Transmitting' /\ Len(txq') = 0
    BY <1>1 DEF I2cFrames, Transmitting
  <2>. QED  BY <1>1, <1>2, <1>3, <1>4, <2>1 DEF I2cFrames, I2cFramesInOrder
<1>8. I2cAck'
  BY <1>1, <1>3, <1>4 DEF I2cAck
<1>9. UNCHANGED I2cTransfer!vars
  BY <1>1, <1>2, <1>4 DEF I2cTransfer!vars, I2cTypes
<1>10. I2cArrived'
  BY <1>4 DEF I2cArrived
<1>. QED  BY <1>5, <1>6, <1>7, <1>8, <1>9, <1>10 DEF I2cKept

\* The slave takes a byte, or no more.
LEMMA I2cByteSent ==
  ASSUME I2cInv, HwSend
  PROVE  I2cInv' /\ I2cKept
<1>. USE DEF I2cInv
<1>1. /\ line = "data" /\ dir = "TX" /\ txq # <<>>
      /\ \/ /\ i2c_wire' = Append(i2c_wire, Head(txq)) /\ txq' = Tail(txq)
            /\ line' = line
         \/ line' = "halted" /\ i2c_wire' = i2c_wire /\ txq' = txq
      /\ UNCHANGED <<call, ack, start, stop, en, rxq, dir, given, fed, i2c_api, prompt,
                     patient, wedged, i2c_got, i2c_said>>
  BY DEF HwSend, Transmitting, cr, i2ccase
<1>2. /\ txq \in Seq(Nat) /\ i2c_wire \in Seq(Nat) /\ Len(i2c_wire) \in Nat
      /\ Len(txq) \in Nat \ {0} /\ Head(txq) \in Nat /\ Head(txq) = txq[1]
      /\ Tail(txq) \in Seq(Nat) /\ Len(Tail(txq)) = Len(txq) - 1
      /\ \A i \in DOMAIN Tail(txq) : Tail(txq)[i] = txq[i + 1] /\ i + 1 \in DOMAIN txq
  BY <1>1, FirstAndRest DEF I2cTypes
<1>3. I2cSending /\ Busy /\ ~I2cAsking /\ ~I2cReceiving
  BY <1>1, <1>2, I2cPhases DEF I2cFrames, I2cSending, Transmitting
<1>4. start = FALSE /\ stop = FALSE /\ wedged = FALSE /\ call.dir = "TX"
  BY <1>1, <1>3 DEF I2cControl, I2cSending, I2cTypes
<1>5. Busy' /\ I2cSending' /\ ~I2cAsking' /\ ~I2cReceiving'
  BY <1>1, <1>3, <1>4 DEF I2cAsking, I2cSending, I2cReceiving, Busy
<1>6. /\ call.size = Len(i2c_wire) + Len(txq) + call.len
      /\ \A i \in DOMAIN txq : txq[i] = Len(i2c_wire) + i
      /\ InOrder(i2c_wire) /\ i2c_said = "none" /\ call.len \in Nat /\ call.size \in Nat
  BY <1>3 DEF I2cFrames, I2cFramesInOrder, I2cTypes, I2cCallType
<1>7. Head(txq) = Len(i2c_wire) + 1
  <2>1. 1 \in DOMAIN txq
    BY <1>2
  <2>. QED  BY <1>2, <1>6, <2>1
<1>10. I2cArrived'
  BY <1>5 DEF I2cArrived
<1>8. CASE /\ i2c_wire' = Append(i2c_wire, Head(txq)) /\ txq' = Tail(txq)
           /\ line' = line
  <2>1. i2c_wire' \in Seq(Nat) /\ InOrder(i2c_wire') /\ Len(i2c_wire') = Len(i2c_wire) + 1
    BY <1>2, <1>6, <1>7, <1>8, NextInOrder
  <2>2. I2cTypes'
    BY <1>1, <1>2, <1>8, <2>1 DEF I2cTypes
  <2>3. I2cControl'
    BY <1>1, <1>3, <1>4, <1>5, <1>8 DEF I2cControl, I2cInterruptsServed
  <2>4. I2cFrames'
    <3>1. call'.size = Len(i2c_wire') + Len(txq') + call'.len
      BY <1>1, <1>2, <1>6, <1>8, <2>1
    <3>2. ASSUME NEW i \in DOMAIN txq'
          PROVE  txq'[i] = Len(i2c_wire') + i
      <4>1. txq'[i] = txq[i + 1] /\ i + 1 \in DOMAIN txq /\ i \in Nat
        BY <1>2, <1>8, <3>2
      <4>2. txq[i + 1] = Len(i2c_wire) + (i + 1)
        BY <1>6, <4>1
      <4>. QED  BY <1>2, <2>1, <4>1, <4>2
    <3>. QED  BY <1>1, <1>3, <1>5, <1>6, <1>8, <2>1, <3>1, <3>2 DEF I2cFrames, I2cFramesInOrder
  <2>5. I2cAck'
    BY <1>1, <1>3, <1>5 DEF I2cAck
  <2>6. I2cTransfer!Move
    <3>1. Len(i2c_wire) < call.size
      BY <1>2, <1>6
    <3>. QED  BY <1>1, <1>3, <1>4, <1>5, <2>1, <3>1 DEF I2cTransfer!Move, I2cTypes
  <2>. QED  BY <1>10, <2>2, <2>3, <2>4, <2>5, <2>6 DEF I2cKept, I2cTransfer!Next
<1>9. CASE line' = "halted" /\ i2c_wire' = i2c_wire /\ txq' = txq
  <2>1. I2cTypes'
    BY <1>1, <1>9 DEF I2cTypes
  <2>2. I2cControl'
    BY <1>1, <1>3, <1>4, <1>5, <1>9 DEF I2cControl, I2cInterruptsServed
  <2>3. I2cFrames'
    BY <1>1, <1>3, <1>5, <1>9 DEF I2cFrames, I2cFramesInOrder
  <2>4. I2cAck'
    BY <1>1, <1>3, <1>5 DEF I2cAck
  <2>5. UNCHANGED I2cTransfer!vars
    BY <1>1, <1>3, <1>5, <1>9 DEF I2cTransfer!vars, I2cTypes
  <2>. QED  BY <1>10, <2>1, <2>2, <2>3, <2>4, <2>5 DEF I2cKept
<1>. QED  BY <1>1, <1>8, <1>9

\* A byte arrives.  If the task is prompt, it is one of the transfer's.
LEMMA I2cByteReceived ==
  ASSUME I2cInv, HwReceive
  PROVE  I2cInv' /\ I2cKept
<1>. USE DEF I2cInv
<1>1. /\ line = "data" /\ dir = "RX" /\ fed = TRUE
      /\ (prompt = TRUE => rxq = <<>>)
      /\ given' = given + 1 /\ rxq' = Append(rxq, given + 1) /\ fed' = ack
      /\ line' = (IF stop THEN "idle" ELSE line) /\ stop' = FALSE
      /\ UNCHANGED <<call, ack, start, en, txq, dir, i2c_api, prompt, patient, wedged,
                     i2c_wire, i2c_got, i2c_said>>
  BY DEF HwReceive, i2ccase, i2clog, I2cTypes
<1>2. line' \in {"idle", "data"} /\ (Busy' <=> Busy)
  BY <1>1 DEF Busy
<1>3. ~I2cSending /\ (prompt = TRUE => I2cReceiving)
  BY <1>1 DEF I2cControl, I2cAck
<1>4. call.at # "ADDR" /\ (I2cAsking => call.at = "SB" /\ start = TRUE /\ prompt = FALSE)
  <2>1. call.at # "ADDR" /\ (call.at = "SB" => start = TRUE) /\ prompt \in BOOLEAN
        /\ (call.at = "busy" => prompt = TRUE)
    BY <1>1 DEF I2cControl, I2cTypes
  <2>2. I2cAsking => prompt = FALSE
    BY <1>3, <2>1, I2cPhases
  <2>. QED  BY <2>1, <2>2 DEF I2cAsking
<1>5. (I2cAsking' <=> I2cAsking) /\ (I2cReceiving' <=> I2cReceiving) /\ ~I2cSending'
  <2>1. I2cAsking' <=> I2cAsking
    BY <1>1, <1>2, <1>4 DEF I2cAsking
  <2>. QED  BY <1>1, <1>2, <1>3, <2>1 DEF I2cSending, I2cReceiving
<1>6. given \in Nat /\ given + 1 \in Nat /\ rxq \in Seq(Nat) /\ ack \in BOOLEAN
  BY DEF I2cTypes
<1>7. I2cTypes'
  <2>1. rxq' \in Seq(Nat)
    BY <1>1, <1>6
  <2>. QED  BY <1>1, <1>2, <1>6, <2>1 DEF I2cTypes
<1>8. I2cControl'
  <2>1. wedged = FALSE /\ ~Transmitting'
    BY <1>1 DEF I2cControl, I2cTypes, Transmitting
  <2>2. I2cReceiving => start = FALSE
    BY DEF I2cControl
  <2>. QED  BY <1>1, <1>2, <1>3, <1>4, <1>5, <2>1, <2>2 DEF I2cControl, I2cInterruptsServed
<1>9. I2cFrames'
  <2>1. ~Transmitting'
    BY <1>1 DEF Transmitting
  <2>. QED  BY <1>1, <1>2, <1>5, <2>1 DEF I2cFrames, I2cFramesInOrder
<1>10. I2cAck'
  <2>1. ASSUME prompt = TRUE
        PROVE  /\ Len(rxq') = 1 /\ rxq'[1] = given' /\ given' = Len(i2c_got') + Len(rxq')
               /\ (fed' = TRUE) <=> call'.len > Len(rxq')
               /\ (ack' = TRUE) <=> call'.len # 1
    <3>1. I2cReceiving /\ rxq = <<>> /\ Len(rxq) = 0
      BY <1>1, <1>3, <2>1
    <3>2. given = Len(i2c_got) /\ ((ack = TRUE) <=> call.len # 1) /\ Len(i2c_got) \in Nat
      BY <2>1, <3>1 DEF I2cAck, I2cTypes
    <3>3. call.len > 0 /\ call.len \in Nat
      BY <3>1 DEF I2cFrames, I2cTypes, I2cCallType
    <3>4. Len(rxq') = 1 /\ rxq'[1] = given'
      BY <1>1, <1>6, <3>1
    <3>5. call.len > 1 <=> call.len # 1
      BY <3>3
    <3>. QED  BY <1>1, <3>2, <3>4, <3>5
  <2>2. Busy => i2c_said = "none"
    BY DEF I2cFrames
  <2>3. prompt = TRUE => i2c_said' # "complete"
    BY <1>1, <1>3, <2>2, I2cPhases DEF I2cReceiving
  <2>. QED  BY <1>1, <1>3, <1>5, <2>1, <2>3 DEF I2cAck
<1>11. UNCHANGED I2cTransfer!vars
  BY <1>1, <1>2 DEF I2cTransfer!vars, I2cTypes
<1>12. I2cArrived'
  <2>1. SUFFICES ASSUME I2cReceiving
                 PROVE  I2cArrived'
    BY <1>5 DEF I2cArrived
  <2>2. /\ Arriving(rxq) /\ i2c_got \in Seq(Nat)
        /\ \A i \in DOMAIN i2c_got : i2c_got[i] <= given
        /\ \A j \in DOMAIN rxq : rxq[j] <= given
        /\ \A i \in DOMAIN i2c_got, j \in DOMAIN rxq :
             i2c_got[i] = 0 \/ i2c_got[i] < rxq[j]
    BY <2>1 DEF I2cArrived, I2cTypes
  <2>. DEFINE f == given + 1
  <2>3. /\ f \in Nat /\ rxq' = Append(rxq, f) /\ given' = f /\ i2c_got' = i2c_got
        /\ \A j \in DOMAIN rxq : rxq[j] < f
        /\ \A i \in DOMAIN i2c_got : i2c_got[i] < f
    BY <1>1, <1>6, <2>2
  <2>. HIDE DEF f
  <2>4. Arriving(rxq') /\ \A i \in DOMAIN rxq' :
                             rxq'[i] = f \/ \E j \in DOMAIN rxq : rxq'[i] = rxq[j]
    BY <1>6, <2>2, <2>3, NextArrives
  <2>5. \A j \in DOMAIN rxq' : rxq'[j] <= given'
    BY <1>6, <2>3, <2>4
  <2>6. \A i \in DOMAIN i2c_got' : i2c_got'[i] <= given'
    BY <2>2, <2>3
  <2>7. \A i \in DOMAIN i2c_got', j \in DOMAIN rxq' : i2c_got'[i] = 0 \/ i2c_got'[i] < rxq'[j]
    BY <2>2, <2>3, <2>4
  <2>. QED  BY <2>4, <2>5, <2>6, <2>7 DEF I2cArrived
<1>. QED  BY <1>7, <1>8, <1>9, <1>10, <1>11, <1>12 DEF I2cKept

\* Every step of the driver, its caller and the bus.
LEMMA I2cStepInv ==
  ASSUME I2cInv, [I2cNext]_i2cvars
  PROVE  I2cInv' /\ I2cKept
<1>1. CASE UNCHANGED i2cvars
  <2>1. UNCHANGED <<call, ack, start, stop, en, line, txq, rxq, dir, given, fed, i2c_api,
                    prompt, patient, wedged, i2c_wire, i2c_got, i2c_said>>
    BY <1>1 DEF i2cvars, cr, bus, i2ccase, i2clog
  <2>2. (Busy' <=> Busy) /\ (I2cAsking' <=> I2cAsking) /\ (I2cReceiving' <=> I2cReceiving)
        /\ (I2cSending' <=> I2cSending) /\ (Transmitting' <=> Transmitting)
    BY <2>1 DEF Busy, I2cAsking, I2cReceiving, I2cSending, Transmitting
  <2>3. I2cTypes' /\ I2cAck' /\ I2cArrived'
    BY <2>1, <2>2 DEF I2cInv, I2cTypes, I2cAck, I2cArrived
  <2>4. I2cControl'
    BY <2>1, <2>2 DEF I2cInv, I2cControl, I2cInterruptsServed
  <2>5. I2cFrames'
    BY <2>1, <2>2 DEF I2cInv, I2cFrames, I2cFramesInOrder
  <2>6. I2cKept
    BY <2>1, <2>2 DEF I2cKept, I2cTransfer!vars
  <2>. QED  BY <2>3, <2>4, <2>5, <2>6 DEF I2cInv
<1>2. CASE I2cCall
  BY <1>2, I2cBegins DEF I2cCall
<1>3. CASE I2cStep
  BY <1>3, I2cTimesOut, I2cAddresses, I2cClears, I2cWrites, I2cSendEnds, I2cReads, I2cFails
     DEF I2cStep
<1>4. CASE I2cBus
  BY <1>4, I2cStarts, I2cStops, I2cAnswered, I2cByteSent, I2cByteReceived DEF I2cBus
<1>. QED  BY <1>1, <1>2, <1>3, <1>4 DEF I2cNext

(* The application that is not patient.                                    *)

\* The record of the transfer, whatever has become of its length.
I2cCallRecord == [at : {"ready", "SB", "ADDR", "TX", "RX", "busy"}, dir : {"TX", "RX"},
                  len : Int, size : Int, sr : BOOLEAN]

I2cServed == patient \in BOOLEAN /\ call \in I2cCallRecord /\ I2cInterruptsServed

\* Every transfer that ends disables the event interrupts.
LEMMA I2cServedInv ==
  ASSUME I2cServed, [I2cNext]_i2cvars
  PROVE  I2cServed' /\ patient' = patient
<1>. USE DEF I2cServed, I2cCallRecord, I2cInterruptsServed, Busy
<1>1. CASE UNCHANGED i2cvars
  BY <1>1 DEF i2cvars, cr, i2ccase
<1>2. CASE I2cCall
  <2>1. ASSUME NEW at \in {"SB", "busy"}, NEW d \in {"TX", "RX"}, NEW n \in I2cLengths,
               NEW sr \in BOOLEAN, NEW ints, Begin(at, d, n, sr, ints)
        PROVE  I2cServed' /\ patient' = patient
    <3>1. n \in Int
      BY I2cAssumption
    <3>. QED  BY <2>1, <3>1 DEF Begin, Transfer, i2ccase
  <2>. QED  BY <1>2, <2>1 DEF I2cCall, I2C_MasterSendData, I2C_MasterSendDataIT,
               I2C_MasterReceiveData, I2C_MasterReceiveDataIT
<1>3. CASE I2cStep
  <2>1. ASSUME NEW how, End(how), patient' = patient
        PROVE  I2cServed' /\ patient' = patient
    <3>1. en' \cap {"BUF", "EVT"} = {}
      BY <2>1 DEF End
    <3>2. call' = [call EXCEPT !.at = "ready", !.len = 0]
      BY <2>1 DEF End
    <3>3. call' \in I2cCallRecord
      <4>1. /\ call.dir \in {"TX", "RX"} /\ call.size \in Int /\ call.sr \in BOOLEAN
            /\ call' = [at |-> "ready", dir |-> call.dir, len |-> 0, size |-> call.size,
                        sr |-> call.sr]
        BY <3>2
      <4>. QED  BY <4>1
    <3>4. I2cInterruptsServed'
      BY <3>1
    <3>. QED  BY <2>1, <3>3, <3>4
  <2>2. CASE Timeout
    BY <2>2, <2>1 DEF Timeout, i2ccase
  <2>3. CASE SendAddress
    BY <2>3 DEF SendAddress, Goes, cr, i2ccase
  <2>4. CASE ClearADDR
    BY <2>4 DEF ClearADDR, Goes, cr, i2ccase
  <2>5. CASE WriteByte
    BY <2>5 DEF WriteByte, Goes, cr, i2ccase
  <2>6. CASE FinishSend
    BY <2>6, <2>1 DEF FinishSend, i2ccase
  <2>7. CASE ReadByte
    <3>1. CASE call.len = 1
      BY <2>7, <2>1, <3>1 DEF ReadByte, i2ccase
    <3>2. CASE call.len # 1
      <4>1. call' = [call EXCEPT !.len = call.len - 1] /\ UNCHANGED <<en, patient>>
        BY <2>7, <3>2 DEF ReadByte, i2ccase
      <4>. QED  BY <4>1
    <3>. QED  BY <3>1, <3>2
  <2>8. CASE I2C_ER_IRQHandling
    BY <2>8, <2>1 DEF I2C_ER_IRQHandling, i2ccase
  <2>. QED  BY <1>3, <2>2, <2>3, <2>4, <2>5, <2>6, <2>7, <2>8 DEF I2cStep
<1>4. CASE I2cBus
  BY <1>4 DEF I2cBus, HwStart, HwStop, HwAddress, HwSend, HwReceive, cr, i2ccase
<1>. QED  BY <1>1, <1>2, <1>3, <1>4 DEF I2cNext

\* Every step of the driver: the invariant of a patient application, and its transfers.
LEMMA I2cDriverInv ==
  ASSUME I2cServed, patient = TRUE => I2cInv, [I2cNext]_i2cvars
  PROVE  I2cServed' /\ (patient = TRUE => I2cInv)' /\ I2cKept
<1>1. I2cServed' /\ patient' = patient /\ patient \in BOOLEAN
  BY I2cServedInv DEF I2cServed
<1>2. CASE patient = TRUE
  BY <1>1, <1>2, I2cStepInv
<1>3. CASE patient = FALSE
  BY <1>1, <1>3 DEF I2cKept, I2cTransfer!vars
<1>. QED  BY <1>1, <1>2, <1>3

-----------------------------------------------------------------------------
(* The drivers side by side, as MCBoard composes them.                     *)

DriversInv == /\ spi_tidy => SpiInv
              /\ UsInv
              /\ I2cServed /\ (patient = TRUE => I2cInv)

\* The I2C driver starts idle.
LEMMA I2cStart ==
  ASSUME I2cInit
  PROVE  I2cServed /\ (patient = TRUE => I2cInv)
<1>0. I2cServed
  <2>1. patient \in BOOLEAN
    BY I2cAssumption DEF I2cInit
  <2>2. call \in I2cCallRecord /\ en = {}
    BY DEF I2cInit, Transfer, I2cCallRecord
  <2>. QED  BY <2>1, <2>2 DEF I2cServed, I2cInterruptsServed
<1>1. /\ call.at = "ready" /\ call \in I2cCallType /\ ~Busy
      /\ ~I2cAsking /\ ~I2cSending /\ ~I2cReceiving
  BY <1>0 DEF I2cInit, Transfer, I2cCallType, Busy, I2cAsking, I2cSending, I2cReceiving
<1>2. i2c_api \in {"polling", "interrupt"} /\ prompt \in BOOLEAN
      /\ (i2c_api = "interrupt" => prompt = TRUE)
  BY I2cAssumption DEF I2cInit
<1>3. patient = TRUE => I2cTypes
  BY <1>1, <1>2, NoneInOrder DEF I2cInit, I2cTypes
<1>4. I2cControl
  BY <1>1, <1>2 DEF I2cInit, I2cControl, I2cInterruptsServed, Transmitting
<1>5. I2cFrames
  BY <1>1, NoneInOrder DEF I2cInit, I2cFrames, I2cFramesInOrder
<1>6. I2cAck
  BY <1>1 DEF I2cInit, I2cAck
<1>7. I2cArrived
  BY <1>1 DEF I2cArrived
<1>. QED  BY <1>0, <1>3, <1>4, <1>5, <1>6, <1>7 DEF I2cInv

\* A step of the board is a step of the I2C driver, or none.
LEMMA I2cStepOf ==
  ASSUME [BoardNext]_systemvars
  PROVE  [I2cNext]_i2cvars
BY DEF BoardNext, systemvars, Tasks, SpiExchanges, UsartTransfers, I2cTransfers,
   PolledPackets, StartUp, PinCalls, IrqCalls, RateSettings, Filtering

\* Every driver starts idle.
LEMMA DriversStart ==
  ASSUME BoardInit
  PROVE  DriversInv
<1>1. SpiInit /\ UsartInit /\ I2cInit
  BY DEF BoardInit, Case
<1>2. Closed \in Handle /\ Closed.busy = FALSE
  BY LenAssumption DEF Closed, Handle
<1>3. SpiInv
  <2>1. spi_pc.step = "ready" /\ spi_pc.what = "send" /\ spi_pc = Point("ready", "send")
    BY <1>1 DEF SpiInit, Point
  <2>2. SpiTypes
    <3>1. spi_said \in [{"send", "receive"} -> {"none", "complete"}]
      BY <1>1 DEF SpiInit
    <3>. QED  BY <1>1, <1>2, <2>1, <3>1, NoneInOrder DEF SpiInit, SpiTypes
  <2>3. SpiCalls
    BY <2>1 DEF SpiCalls, Point
  <2>4. SpiSending /\ SpiReceiving
    BY <1>1, <1>2, NoneInOrder DEF SpiInit, SpiSending, SpiReceiving
  <2>5. SpiInterruptsServed /\ SpiFramesInOrder
    BY <1>1, NoneInOrder DEF SpiInit, SpiInterruptsServed, SpiFramesInOrder
  <2>. QED  BY <2>1, <2>2, <2>3, <2>4, <2>5 DEF SpiInv
<1>4. UsInv
  <2>1. us_pc.step = "ready" /\ us_pc.what = "none"
    BY <1>1 DEF UsartInit, Ready, Point
  <2>2. UsTypes
    <3>1. us_said \in [{"send", "receive"} -> {"none", "complete"}]
      BY <1>1 DEF UsartInit
    <3>2. us_pc \in [step : {"ready", "load", "store", "poll"},
                     what : {"none", "TXE", "TC", "RXNE"} \cup UsBits]
      BY <1>1 DEF UsartInit, Ready, Point
    <3>3. us_api \in {"polling", "interrupt"}
      BY <1>1, UsartAssumption DEF UsartInit
    <3>. QED  BY <1>1, <1>2, <3>1, <3>2, <3>3, NoneInOrder DEF UsartInit, UsTypes
  <2>3. UsControl
    BY <1>1, <1>2, <2>1 DEF UsartInit, UsControl
  <2>4. UsOnLine
    BY <1>1, <1>2, NoneInOrder DEF UsartInit, UsOnLine
  <2>5. UsStored
    BY <1>1, <1>2 DEF UsartInit, UsStored, UsAscending
  <2>6. UsEnables
    BY <1>1, <2>1 DEF UsartInit, UsEnables
  <2>. QED  BY <2>2, <2>3, <2>4, <2>5, <2>6 DEF UsInv
<1>. QED  BY <1>1, <1>3, <1>4, I2cStart DEF DriversInv

\* A step of the board is a step of one driver at most.
LEMMA DriversStep ==
  ASSUME DriversInv, [BoardNext]_systemvars
  PROVE  DriversInv' /\ SpiKept /\ UsKept /\ I2cKept
<1>1. [SpiNext]_spivars
  BY DEF BoardNext, systemvars, Tasks, SpiExchanges, UsartTransfers, I2cTransfers,
     PolledPackets, StartUp, PinCalls, IrqCalls, RateSettings, Filtering
<1>2. [UsartNext]_usvars
  BY DEF BoardNext, systemvars, Tasks, SpiExchanges, UsartTransfers, I2cTransfers,
     PolledPackets, StartUp, PinCalls, IrqCalls, RateSettings, Filtering
<1>3. [I2cNext]_i2cvars
  BY I2cStepOf
<1>. QED  BY <1>1, <1>2, <1>3, SpiStepInv, UsStepInv, I2cDriverInv DEF DriversInv

\* The inductive invariant holds throughout.
LEMMA DriversSpecInv == BoardSpec => []DriversInv
<1>1. BoardInit => DriversInv
  BY DriversStart
<1>2. DriversInv /\ [BoardNext]_systemvars => DriversInv'
  BY DriversStep
<1>. QED  BY <1>1, <1>2, PTL DEF BoardSpec

-----------------------------------------------------------------------------
\* An interrupt is enabled, or pending, only while the handle of its driver has
\* a transfer for it: no handler moves frames from NULL, or is entered again for
\* ever.  For SPI this is of a tidy application, and for the USART of a task that
\* is prompt, and of every cause but the overrun; for I2C of any application.
THEOREM DriversServed == BoardSpec => []InterruptsServed
<1>1. DriversInv => InterruptsServed
  <2>1. SUFFICES ASSUME DriversInv
                 PROVE  InterruptsServed
    OBVIOUS
  <2>2. SpiInterruptsServed
    BY <2>1 DEF DriversInv, SpiInv, SpiInterruptsServed
  <2>3. UsartInterruptsServed
    BY <2>1
       DEF DriversInv, UsInv, UsEnables, UsControl, UsartInterruptsServed, TxeIrq, TcIrq, RxneIrq
  <2>. QED  BY <2>1, <2>2, <2>3 DEF DriversInv, I2cServed, InterruptsServed
<1>. QED  BY <1>1, DriversSpecInv, PTL

\* Every driver sends frames in the order of the buffer and stores them in the
\* order they arrive, none twice: the SPI driver for a tidy application, the I2C
\* driver for a patient one, the USART driver for any task, held up or not.
THEOREM DriversInOrder == BoardSpec => []FramesInOrder
<1>1. DriversInv => FramesInOrder
  <2>1. SUFFICES ASSUME DriversInv
                 PROVE  FramesInOrder
    OBVIOUS
  <2>2. SpiFramesInOrder
    BY <2>1 DEF DriversInv, SpiInv, SpiFramesInOrder
  <2>3. UsartFramesInOrder
    BY <2>1 DEF DriversInv, UsInv, UsOnLine, UsStored, UsartFramesInOrder, UsAscending, Arriving
  <2>4. I2cFramesInOrder
    BY <2>1 DEF DriversInv, I2cServed, I2cInv, I2cFrames, I2cFramesInOrder
  <2>. QED  BY <2>2, <2>3, <2>4 DEF FramesInOrder
<1>. QED  BY <1>1, DriversSpecInv, PTL

\* The single ACK bit of the I2C peripheral is on whenever no transfer is in
\* progress, and a reception that a prompt task completed took every byte the
\* slave sent: the next transfer neither loses its bytes nor finds old ones.  Of a
\* patient application.
THEOREM AckAlwaysManaged == BoardSpec => []AckManaged
<1>1. I2cInv => AckManaged
  <2>1. SUFFICES ASSUME I2cInv
                 PROVE  AckManaged
    OBVIOUS
  <2>2. ~Busy => ~I2cReceiving
    BY DEF I2cReceiving
  <2>3. i2c_said = "complete" => ~Busy
    BY <2>1 DEF I2cInv, I2cFrames
  <2>. QED  BY <2>1, <2>2, <2>3 DEF I2cInv, I2cAck, AckManaged, I2cTypes
<1>2. DriversInv => AckManaged
  BY <1>1 DEF DriversInv, I2cServed, AckManaged
<1>. QED  BY <1>2, DriversSpecInv, PTL

\* Every transfer of a tidy SPI application, of any USART task and of a patient
\* I2C application ends as ByteTransfer says: one frame after the other, and the
\* end reported once, after the last frame, before the next transfer begins.
\* Every step maps to a step of the abstract transfer of each direction, or to none.
THEOREM DriversKeep == BoardSpec => TransfersKept
<1>1. BoardInit => /\ SpiSend!Init /\ SpiReceive!Init
              /\ UsartSend!Init /\ UsartReceive!Init
              /\ I2cTransfer!Init
  <2>1. SUFFICES ASSUME BoardInit
                 PROVE  /\ SpiSend!Init /\ SpiReceive!Init
                        /\ UsartSend!Init /\ UsartReceive!Init
                        /\ I2cTransfer!Init
    OBVIOUS
  <2>2. SpiInit /\ UsartInit /\ I2cInit
    BY <2>1 DEF BoardInit, Case
  <2>3. SpiSend!Init /\ SpiReceive!Init
    BY <2>2, NoneInOrder DEF SpiInit, Closed, SpiSend!Init, SpiReceive!Init
  <2>4. UsartSend!Init /\ UsartReceive!Init
    BY <2>2, NoneInOrder DEF UsartInit, Closed, UsartSend!Init, UsartReceive!Init
  <2>5. I2cTransfer!Init
    BY <2>2, NoneInOrder DEF I2cInit, Transfer, Busy, I2cTransfer!Init
  <2>. QED  BY <2>3, <2>4, <2>5
<1>2. DriversInv /\ [BoardNext]_systemvars => /\ [SpiSend!Next]_(SpiSend!vars)
                                   /\ [SpiReceive!Next]_(SpiReceive!vars)
                                   /\ [UsartSend!Next]_(UsartSend!vars)
                                   /\ [UsartReceive!Next]_(UsartReceive!vars)
                                   /\ [I2cTransfer!Next]_(I2cTransfer!vars)
  BY DriversStep DEF SpiKept, UsKept, I2cKept
<1>. QED  BY <1>1, <1>2, DriversSpecInv, PTL
          DEF BoardSpec, TransfersKept, SpiSend!Spec, SpiReceive!Spec, UsartSend!Spec,
              UsartReceive!Spec, I2cTransfer!Spec

-----------------------------------------------------------------------------
(* The interrupts.                                                         *)

NvicTypes == asked_irq \in [Irqs -> {"on", "off", "swept"}]

\* The register and the bit of an interrupt are its own below 64; from 64 on the
\* bit is one of the fourth register.
LEMMA RegisterOf ==
  ASSUME NEW irq \in Irqs
  PROVE  /\ irq \in 0 .. 95
         /\ irq < 64 => Register(irq) = irq \div 32 /\ 32 * Register(irq) + (irq % 32) = irq
         /\ irq >= 64 => Register(irq) = 3 /\ 32 * Register(irq) + (irq % 32) >= 96
<1>1. irq \in 0 .. 95 /\ (irq \in GpioIrqs => irq < 64)
  BY IrqAssumption DEF Irqs
<1>2. /\ irq < 32 => irq \div 32 = 0 /\ irq % 32 = irq
      /\ irq \in 32 .. 63 => irq \div 32 = 1 /\ irq % 32 = irq - 32
      /\ irq % 32 \in 0 .. 31
  BY <1>1
<1>3. irq <= 31 => Register(irq) = 0
  BY <1>1 DEF Register
<1>4. irq \in 32 .. 63 => Register(irq) = 1
  BY <1>1 DEF Register
<1>5. irq >= 64 => Register(irq) = 3
  BY <1>1 DEF Register
<1>. QED  BY <1>1, <1>2, <1>3, <1>4, <1>5

\* Interrupts below 64 are enabled from when a driver asks until a driver disables
\* one of their group of 32, and those from 64 on never: for all sets of
\* interrupts that the drivers use.
THEOREM IrqsAsAsked == IrqSpec => []EnabledAsAsked
<1>. DEFINE Inv == NvicTypes /\ EnabledAsAsked
<1>1. IrqInit => Inv
  BY DEF IrqInit, NvicTypes, EnabledAsAsked
<1>2. Inv /\ [IrqNext]_nvicvars => Inv'
  <2>1. SUFFICES ASSUME Inv, [IrqNext]_nvicvars PROVE Inv'
    OBVIOUS
  <2>2. ASSUME NEW irq \in Irqs, EnableIrq(irq)
        PROVE  Inv'
    <3>1. NvicTypes'
      BY <2>1, <2>2 DEF NvicTypes, EnableIrq
    <3>2. ASSUME NEW i \in Irqs
          PROVE  i \in nvic_enabled' <=> asked_irq'[i] = "on" /\ i < 64
      <4>1. nvic_enabled' = nvic_enabled \cup ({32 * Register(irq) + (irq % 32)} \cap Wired)
        BY <2>2 DEF EnableIrq
      <4>2. i \in nvic_enabled <=> asked_irq[i] = "on" /\ i < 64
        BY <2>1 DEF EnabledAsAsked
      <4>3. i = irq => asked_irq'[i] = "on"
        BY <2>1, <2>2 DEF NvicTypes, EnableIrq
      <4>4. i # irq => asked_irq'[i] = asked_irq[i]
        BY <2>1, <2>2 DEF NvicTypes, EnableIrq
      <4>5. i \in 0 .. 95 /\ irq \in 0 .. 95
        BY RegisterOf
      <4>6. CASE irq < 64
        <5>1. 32 * Register(irq) + (irq % 32) = irq /\ irq \in Wired
          BY <4>5, <4>6, RegisterOf DEF Wired
        <5>. QED  BY <4>1, <4>2, <4>3, <4>4, <4>6, <5>1
      <4>7. CASE irq >= 64
        <5>1. 32 * Register(irq) + (irq % 32) # i
          BY <4>5, <4>7, RegisterOf
        <5>. QED  BY <4>1, <4>2, <4>3, <4>4, <4>5, <4>7, <5>1
      <4>. QED  BY <4>5, <4>6, <4>7
    <3>. QED  BY <3>1, <3>2 DEF EnabledAsAsked
  <2>3. ASSUME NEW irq \in Irqs, DisableIrq(irq)
        PROVE  Inv'
    <3>1. /\ nvic_enabled' = {i \in nvic_enabled : i \div 32 # Register(irq)}
          /\ asked_irq' = [i \in Irqs |-> IF i = irq THEN "off"
                                         ELSE IF i \div 32 = irq \div 32 /\ asked_irq[i] = "on"
                                              THEN "swept" ELSE asked_irq[i]]
      BY <2>3 DEF DisableIrq
    <3>2. NvicTypes'
      BY <2>1, <3>1 DEF NvicTypes
    <3>3. ASSUME NEW i \in Irqs
          PROVE  i \in nvic_enabled' <=> asked_irq'[i] = "on" /\ i < 64
      <4>1. i \in nvic_enabled <=> asked_irq[i] = "on" /\ i < 64
        BY <2>1 DEF EnabledAsAsked
      <4>2. asked_irq'[i] = "on" <=> asked_irq[i] = "on" /\ i # irq /\ i \div 32 # irq \div 32
        BY <3>1
      <4>3. i < 64 => (i \div 32 = Register(irq) <=> i \div 32 = irq \div 32)
        <5>1. i \in 0 .. 95 /\ irq \in 0 .. 95
          BY RegisterOf
        <5>2. i < 64 => i \div 32 < 2
          BY <5>1
        <5>3. irq >= 64 => Register(irq) = 3
          BY RegisterOf
        <5>4. irq < 64 => Register(irq) = irq \div 32
          BY RegisterOf
        <5>5. irq >= 64 => irq \div 32 = 2
          BY <5>1
        <5>. QED  BY <5>1, <5>2, <5>3, <5>4, <5>5
      <4>4. i = irq => i \div 32 = irq \div 32
        OBVIOUS
      <4>. QED  BY <3>1, <4>1, <4>2, <4>3, <4>4
    <3>. QED  BY <3>2, <3>3 DEF EnabledAsAsked
  <2>4. ASSUME NEW irq \in Irqs, NEW bits, SetPriority(irq, bits)
        PROVE  Inv'
    BY <2>1, <2>4 DEF SetPriority, NvicTypes, EnabledAsAsked
  <2>5. CASE UNCHANGED nvicvars
    BY <2>1, <2>5 DEF nvicvars, NvicTypes, EnabledAsAsked
  <2>. QED  BY <2>1, <2>2, <2>3, <2>4, <2>5 DEF IrqNext
<1>3. Inv => EnabledAsAsked
  OBVIOUS
<1>. QED  BY <1>1, <1>2, <1>3, PTL DEF IrqSpec
=============================================================================
