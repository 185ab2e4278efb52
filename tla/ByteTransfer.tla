---------------------------- MODULE ByteTransfer ----------------------------
(***************************************************************************)
(* What a driver promises to the application that asks for a transfer: the *)
(* transfer moves one frame after the other, it is reported complete once  *)
(* and not before the last frame has moved, or given up, and another one   *)
(* starts only when it is over.  Implemented by each direction of          *)
(* SpiDriver, UsartDriver and I2cMaster.                                   *)
(***************************************************************************)
EXTENDS Integers

CONSTANT Lengths    \* the numbers of frames that are asked for

VARIABLES asked,    \* frames of the transfer in progress, 0 when there is none
          moved,    \* frames moved so far
          outcome   \* how the last transfer ended

vars == <<asked, moved, outcome>>

Init == asked = 0 /\ moved = 0 /\ outcome = "none"

Begin(n) == /\ asked = 0
            /\ asked' = n /\ moved' = 0 /\ outcome' = "none"

Move == /\ moved < asked
        /\ moved' = moved + 1
        /\ UNCHANGED <<asked, outcome>>

\* The end may be reported in the step that moves the last frame.
Complete == /\ asked > 0 /\ asked - moved <= 1
            /\ asked' = 0 /\ moved' = asked /\ outcome' = "complete"

GiveUp == /\ asked > 0
          /\ asked' = 0 /\ outcome' = "given_up"
          /\ UNCHANGED moved

Next == (\E n \in Lengths : Begin(n)) \/ Move \/ Complete \/ GiveUp

Spec == Init /\ [][Next]_vars
=============================================================================
