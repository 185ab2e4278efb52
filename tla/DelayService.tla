---------------------------- MODULE DelayService ----------------------------
(***************************************************************************)
(* What the RTOS promises to a task that calls Task_Delay(n): the task is  *)
(* given the processor again only after n SysTick interrupts, each tick    *)
(* counts exactly once for every sleeper, and only a task that is awake is *)
(* ever dispatched.  Nothing is said about who is dispatched among the     *)
(* tasks that are awake; Kernel.tla implements this module.                *)
(***************************************************************************)
EXTENDS Integers

CONSTANTS Task,     \* the tasks of the application
          Delays,   \* the numbers of ticks tasks ask for
          First     \* the task that is started first

VARIABLES remaining,  \* ticks a task has still to sleep, 0 when it is awake
          cpu         \* the task that owns the processor

vars == <<remaining, cpu>>

Init == /\ remaining = [t \in Task |-> 0]
        /\ cpu = First

\* The task on the processor goes to sleep for n ticks.
Sleep(n) == /\ remaining[cpu] = 0
            /\ remaining' = [remaining EXCEPT ![cpu] = n]
            /\ UNCHANGED cpu

\* A tick brings every sleeper one tick nearer to its awakening.
Tick == /\ remaining' = [t \in Task |-> IF remaining[t] > 0
                                        THEN remaining[t] - 1 ELSE 0]
        /\ UNCHANGED cpu

\* The processor is given to a task that is awake.
Dispatch(t) == /\ remaining[t] = 0
               /\ cpu' = t
               /\ UNCHANGED remaining

Next == \/ \E n \in Delays : Sleep(n)
        \/ Tick
        \/ \E t \in Task : Dispatch(t)

Spec == Init /\ [][Next]_vars
=============================================================================
