-------------------------------- MODULE Cpu ---------------------------------
(***************************************************************************)
(* The processor as the blocking primitives of the RTOS see it: one thread *)
(* executes at a time, the PendSV switch may give the processor to any     *)
(* other thread between two steps, and only a thread that has executed     *)
(* "cpsid i" keeps it.  A spinning thread is never BLOCKED, so Kernel.tla  *)
(* may dispatch any of them (and dispatches each again and again).         *)
(***************************************************************************)
CONSTANT Thread

VARIABLES on_cpu,   \* the thread on the processor (current_tcb)
          primask   \* interrupts are disabled

cpuvars == <<on_cpu, primask>>

CpuTypeOK == on_cpu \in Thread /\ primask \in BOOLEAN

CpuInit == on_cpu \in Thread /\ primask = FALSE

\* PendSV_Handler.
Switch == /\ ~primask
          /\ on_cpu' \in Thread \ {on_cpu}
          /\ UNCHANGED primask

\* Seeded fault: the critical section is entered without "cpsid i".
ForgetMask == UNCHANGED <<on_cpu, primask>>

\* "cpsid i".
Mask == primask' = TRUE /\ UNCHANGED on_cpu

\* "cpsie i".
Unmask == primask' = FALSE /\ UNCHANGED on_cpu

\* "cpsie i" and Task_Yield: the processor goes to another thread, or comes
\* back to this one when the others sleep.
UnmaskAndYield == primask' = FALSE /\ on_cpu' \in Thread
=============================================================================
