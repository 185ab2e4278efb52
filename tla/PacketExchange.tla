--------------------------- MODULE PacketExchange ----------------------------
(***************************************************************************)
(* What one transaction of the SPI link promises, and what TelemetryLink   *)
(* takes as one step: when chip select rises, each side holds the whole    *)
(* packet of the other side, of that transaction.                          *)
(***************************************************************************)
EXTENDS Integers, Sequences

CONSTANTS PacketLen,   \* bytes of a packet
          Span         \* bound: transactions are numbered modulo Span

VARIABLES transaction,   \* the number of the next one
          delivered,     \* what the slave received in the last one
          returned       \* what the master received in it

\* The packet that one side sends in a transaction; a byte is its place in it.
Packet(side, n) == [i \in 1 .. PacketLen |-> <<side, n, i>>]

Init == transaction = 0 /\ delivered = <<>> /\ returned = <<>>

Exchange == /\ transaction' = (transaction + 1) % Span
            /\ delivered' = Packet("master", transaction)
            /\ returned' = Packet("slave", transaction)

Spec == Init /\ [][Exchange]_<<transaction, delivered, returned>>
=============================================================================
