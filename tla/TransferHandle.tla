--------------------------- MODULE TransferHandle ---------------------------
(***************************************************************************)
(* One direction of SPI_Handle_t or USART_Handle_t: whether it is busy,    *)
(* what is left to move, and the position in the application's buffer.     *)
(* Frames are numbered by that position, those that arrive by the order in *)
(* which they do; 0 is NULL, and a frame of before the call.               *)
(***************************************************************************)
EXTENDS Integers, Sequences

CONSTANT LenSpan    \* bound: stands for 2^32, lengths are uint32_t

ASSUME LenAssumption == LenSpan \in Nat \ {0}

Handle == [busy : BOOLEAN, len : 0 .. LenSpan - 1, buf : Nat]

Empty == -1    \* an empty register

\* What a register holds when a transfer begins.
LeftOver(f) == IF f = Empty THEN Empty ELSE 0

Opened(n) == [busy |-> TRUE, len |-> n, buf |-> 1]
Closed == [busy |-> FALSE, len |-> 0, buf |-> 0]

\* One frame has been moved.
Advanced(h) == [h EXCEPT !.len = (@ - 1) % LenSpan, !.buf = @ + 1]

\* Where the application stands in a call, and on behalf of which bit or flag.
Point(step, what) == [step |-> step, what |-> what]

\* The frames of s are those of the buffer, in order, from the first one on.
InOrder(s) == \A i \in DOMAIN s : s[i] = i

\* The frames of s are in the order they arrived, none twice; frames of before the
\* transfer come first.
Arriving(s) == \A i, j \in DOMAIN s : i < j => s[i] = 0 \/ s[i] < s[j]
=============================================================================
