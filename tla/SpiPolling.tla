----------------------------- MODULE SpiPolling ------------------------------
(***************************************************************************)
(* The polled SPI transfer of Telemetry_Send (Src/esp32-telemetry/         *)
(* spi_telemetry.c), byte by byte, over the data register and the flags    *)
(* that SPI_GetFlagStatus reads (Src/drivers/stm32f446xx_spi_driver.c).    *)
(* The task may be preempted for any time between two of its steps while   *)
(* the peripheral goes on.                                                 *)
(*                                                                         *)
(* The peripheral is external.  A byte written to DR waits in the transmit *)
(* buffer (TXE is reset) until the shift register is free.  At the last    *)
(* sampling edge the byte of the slave enters the receive buffer (RXNE),   *)
(* or is lost when the buffer is full; half a clock later the slave has    *)
(* the byte of the master, if it is still selected, and BSY is reset.      *)
(***************************************************************************)
EXTENDS Integers, Sequences

CONSTANTS PacketLen, Span   \* of PacketExchange; a packet has 20 bytes

ASSUME PollingAssumption == PacketLen \in Nat \ {0} /\ Span \in Nat \ {0}

VARIABLES poll_pc, poll_i,       \* Telemetry_Send: where it stands; its loop variable
          transaction,
          selected,              \* chip select is low
          tx_buffer, shift, rx_buffer,   \* a byte, or <<>>
          sampled,               \* the byte in the shift register has been sampled
          rx_bytes,              \* rx_packet
          slave_bytes,           \* what the slave has received since it was selected
          delivered, returned    \* what the two sides held when chip select rose

pollvars == <<poll_pc, poll_i, transaction, selected, tx_buffer, shift, rx_buffer, sampled,
              rx_bytes, slave_bytes, delivered, returned>>
hardware == <<tx_buffer, shift, rx_buffer, sampled, slave_bytes>>

Exchanged == INSTANCE PacketExchange

PollInit == /\ poll_pc = "idle" /\ poll_i = 1 /\ transaction = 0 /\ selected = FALSE
            /\ tx_buffer = <<>> /\ shift = <<>> /\ rx_buffer = <<>> /\ sampled = FALSE
            /\ rx_bytes = <<>> /\ slave_bytes = <<>>
            /\ delivered = <<>> /\ returned = <<>>

TXE == tx_buffer = <<>>
RXNE == rx_buffer # <<>>
BSY == shift # <<>> \/ tx_buffer # <<>>

-----------------------------------------------------------------------------
(* Telemetry_Send.                                                         *)

PollGoto(from, to) == poll_pc = from /\ poll_pc' = to

Select == /\ PollGoto("idle", "write")
          /\ selected' = TRUE
          /\ poll_i' = 1 /\ rx_bytes' = <<>> /\ slave_bytes' = <<>>
          /\ UNCHANGED <<transaction, tx_buffer, shift, rx_buffer, sampled, delivered, returned>>

PollWrite == /\ TXE
             /\ PollGoto("write", "read")
             /\ tx_buffer' = <<"master", transaction, poll_i>>
             /\ UNCHANGED <<poll_i, transaction, selected, shift, rx_buffer, sampled, rx_bytes,
                            slave_bytes, delivered, returned>>

\* Seeded fault: the next byte is written without waiting for RXNE; a byte that
\* has not arrived is read as the last one.
PollReadAtOnce ==
  /\ poll_pc = "read"
  /\ rx_bytes' = Append(rx_bytes, rx_buffer)
  /\ rx_buffer' = <<>>
  /\ poll_pc' = IF poll_i < PacketLen THEN "write" ELSE "finish"
  /\ poll_i' = poll_i + 1
  /\ UNCHANGED <<transaction, selected, tx_buffer, shift, sampled, slave_bytes, delivered,
                 returned>>

PollRead ==
  /\ RXNE
  /\ poll_pc = "read"
  /\ rx_bytes' = Append(rx_bytes, rx_buffer)
  /\ rx_buffer' = <<>>
  /\ poll_pc' = IF poll_i < PacketLen THEN "write" ELSE "finish"
  /\ poll_i' = poll_i + 1
  /\ UNCHANGED <<transaction, selected, tx_buffer, shift, sampled, slave_bytes, delivered,
                 returned>>

Deselect == /\ ~BSY
            /\ PollGoto("finish", "idle")
            /\ selected' = FALSE
            /\ transaction' = (transaction + 1) % Span
            /\ delivered' = slave_bytes /\ returned' = rx_bytes
            /\ UNCHANGED <<poll_i, rx_bytes, hardware>>

PollTask == Select \/ PollWrite \/ PollRead \/ Deselect

-----------------------------------------------------------------------------
(* The peripheral and the slave.                                           *)

Load == /\ shift = <<>> /\ tx_buffer # <<>>
        /\ shift' = tx_buffer /\ tx_buffer' = <<>> /\ sampled' = FALSE
        /\ UNCHANGED <<poll_pc, poll_i, transaction, selected, rx_buffer, rx_bytes,
                       slave_bytes, delivered, returned>>

Sample == /\ shift # <<>> /\ ~sampled
          /\ sampled' = TRUE
          /\ rx_buffer' = IF RXNE THEN rx_buffer
                          ELSE <<"slave", transaction, Len(slave_bytes) + 1>>
          /\ UNCHANGED <<poll_pc, poll_i, transaction, selected, tx_buffer, shift, rx_bytes,
                         slave_bytes, delivered, returned>>

LastEdge == /\ shift # <<>> /\ sampled
            /\ shift' = <<>> /\ sampled' = FALSE
            /\ slave_bytes' = IF selected THEN Append(slave_bytes, shift) ELSE slave_bytes
            /\ UNCHANGED <<poll_pc, poll_i, transaction, selected, tx_buffer, rx_buffer,
                           rx_bytes, delivered, returned>>

PollHardware == Load \/ Sample \/ LastEdge

PollNext == PollTask \/ PollHardware

PollSpec == PollInit /\ [][PollNext]_pollvars

-----------------------------------------------------------------------------
\* Wherever the task is held up, a transaction exchanges whole packets: the
\* polled loop implements the one step that TelemetryLink takes it for.
ExchangeExact == Exchanged!Spec
=============================================================================
