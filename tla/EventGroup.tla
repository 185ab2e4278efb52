----------------------------- MODULE EventGroup -----------------------------
(***************************************************************************)
(* EventGroup_SetBits and EventGroup_WaitBits (Src/rtos/event.c).  Setters *)
(* or bits in; waiters poll the flags with interrupts masked, for all or   *)
(* any of their bits, yielding between two polls, and may clear the bits   *)
(* they waited for when they leave.                                        *)
(***************************************************************************)
EXTENDS Cpu, FiniteSets

CONSTANTS Bit,        \* the bits of the group
          WaitArgs    \* the arguments waiters give: bits, wait_all, clear_on_exit

ASSUME EventAssumption ==
  WaitArgs \subseteq [bits : SUBSET Bit \ {{}}, all : BOOLEAN, clear : BOOLEAN]

VARIABLES flags,     \* eg->flags, as the set of bits that are on
          request,   \* the arguments of each thread's WaitBits
          result,    \* return_flags of the thread's last WaitBits
          epc        \* where each thread stands

eventvars == <<flags, request, result, epc>>

EventInit == /\ flags = {}
             /\ request \in [Thread -> WaitArgs]
             /\ result = [t \in Thread |-> {}]
             /\ epc = [t \in Thread |-> "out"]

EGoto(t, from, to) == /\ on_cpu = t
                      /\ epc[t] \in from
                      /\ epc' = [epc EXCEPT ![t] = to]

\* condition_met of EventGroup_WaitBits, for thread t.
Met(t) == LET r == request[t]
          IN  IF r.all THEN r.bits \subseteq flags ELSE r.bits \cap flags # {}

SetMask(t) == /\ EGoto(t, {"out"}, "set")
              /\ Mask
              /\ UNCHANGED <<flags, request, result>>

SetBits(t, bits) == /\ EGoto(t, {"set"}, "out")
                    /\ flags' = flags \cup bits
                    /\ Unmask
                    /\ UNCHANGED <<request, result>>

WaitMask(t) == /\ EGoto(t, {"out", "repoll"}, "poll")
               /\ Mask
               /\ UNCHANGED <<flags, request, result>>

PollAgain(t) == /\ ~Met(t)
                /\ EGoto(t, {"poll"}, "repoll")
                /\ UnmaskAndYield
                /\ UNCHANGED <<flags, request, result>>

PollMet(t) == /\ Met(t)
              /\ EGoto(t, {"poll"}, "leave")
              /\ UNCHANGED <<flags, request, result, on_cpu, primask>>

Leave(t) == /\ EGoto(t, {"leave"}, "out")
            /\ result' = [result EXCEPT ![t] = flags \cap request[t].bits]
            /\ flags' = IF request[t].clear THEN flags \ request[t].bits ELSE flags
            /\ Unmask
            /\ UNCHANGED request

EventStep(t) == \/ SetMask(t)
                \/ \E bits \in SUBSET Bit \ {{}} : SetBits(t, bits)
                \/ WaitMask(t) \/ PollAgain(t) \/ PollMet(t) \/ Leave(t)

EventNext == \/ \E t \in Thread : EventStep(t)
             \/ Switch /\ UNCHANGED eventvars

EventSpec == CpuInit /\ EventInit /\ [][EventNext]_<<cpuvars, eventvars>>

-----------------------------------------------------------------------------
\* A waiter leaves with the bits it waited for still on: no other waiter that
\* clears on exit has consumed them between the poll and the return, so one
\* SetBits is never consumed twice.
BitsNotConsumedTwice == \A t \in Thread : epc[t] = "leave" => Met(t)
=============================================================================
