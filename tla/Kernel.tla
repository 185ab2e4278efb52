------------------------------- MODULE Kernel -------------------------------
(***************************************************************************)
(* The preemptive round-robin kernel of the STM32 firmware: the TCB table, *)
(* Task_Delay and Task_Yield executed by the tasks, the SysTick handler    *)
(* and the PendSV context switch (Src/rtos/task.c, kernel.c,               *)
(* context_switch.s).                                                      *)
(*                                                                         *)
(* A task is an index of tcb_array.  Tasks are created once, before        *)
(* Kernel_Start, so the model starts where Task_StartFirst jumps to task 0. *)
(* The last task created is Idle, which never delays nor yields.           *)
(*                                                                         *)
(* Interrupts: SysTick may arrive between any two stores of a task.        *)
(* PendSV has the lowest priority and masks interrupts while it selects    *)
(* and switches, so a switch is one step; a task executes no instruction   *)
(* of the model while a PendSV is pending.                                 *)
(***************************************************************************)
EXTENDS Integers

CONSTANTS N,        \* task_count once all tasks are created
          Delays    \* the arguments given to Task_Delay

ASSUME KernelAssumption == /\ N \in Nat \ {0}
                           /\ Delays \subseteq Nat \ {0}

Task == 0 .. N - 1
Idle == N - 1

VARIABLES
  state,             \* TCB state of each task
  delay_ticks,       \* TCB delay_ticks of each task
  current_tcb,       \* the task whose context is on the processor
  current_task_idx,  \* the round-robin index of Task_SelectNext
  pendsv,            \* a PendSV exception is pending
  pc,                \* where a task stands in Task_Delay
  overtaken          \* history: switches to others since a task became READY

vars == <<state, delay_ticks, current_tcb, current_task_idx, pendsv, pc,
          overtaken>>

\* "code": the task's own code; "armed": delay_ticks is stored; "asleep":
\* the state is stored too; "return": PendSV is pended, Task_Delay returns.
Place == {"code", "armed", "asleep", "return"}

Init == /\ state = [t \in Task |-> IF t = 0 THEN "RUNNING" ELSE "READY"]
        /\ delay_ticks = [t \in Task |-> 0]
        /\ current_tcb = 0
        /\ current_task_idx = 0
        /\ pendsv = FALSE
        /\ pc = [t \in Task |-> "code"]
        /\ overtaken = [t \in Task |-> 0]

\* Task t executes instructions: its context is loaded, no switch is pending.
Executes(t) == current_tcb = t /\ ~pendsv

At(t, here, there) == /\ Executes(t)
                      /\ t # Idle
                      /\ pc[t] = here
                      /\ pc' = [pc EXCEPT ![t] = there]

-----------------------------------------------------------------------------
(* Task_Delay(n), one action per store.                                    *)

DelayArm(t, n) == /\ At(t, "code", "armed")
                  /\ delay_ticks' = [delay_ticks EXCEPT ![t] = n]
                  /\ UNCHANGED <<state, current_tcb, current_task_idx, pendsv,
                                 overtaken>>

DelayBlock(t) == /\ At(t, "armed", "asleep")
                 /\ state' = [state EXCEPT ![t] = "BLOCKED"]
                 /\ UNCHANGED <<delay_ticks, current_tcb, current_task_idx,
                                pendsv, overtaken>>

DelayYield(t) == /\ At(t, "asleep", "return")
                 /\ pendsv' = TRUE
                 /\ UNCHANGED <<state, delay_ticks, current_tcb,
                                current_task_idx, overtaken>>

DelayReturn(t) == /\ At(t, "return", "code")
                  /\ UNCHANGED <<state, delay_ticks, current_tcb,
                                 current_task_idx, pendsv, overtaken>>

\* Task_Yield called on its own, as the blocking primitives do while they spin.
Yield(t) == /\ At(t, "code", "code")
            /\ pendsv' = TRUE
            /\ UNCHANGED <<state, delay_ticks, current_tcb, current_task_idx,
                           overtaken>>

\* Seeded fault: Task_Delay blocks the task before it stores the ticks.
TaskStepBlocksFirst(t) ==
  \/ /\ At(t, "code", "armed")
     /\ state' = [state EXCEPT ![t] = "BLOCKED"]
     /\ UNCHANGED <<delay_ticks, current_tcb, current_task_idx, pendsv, overtaken>>
  \/ /\ At(t, "armed", "asleep")
     /\ \E n \in Delays : delay_ticks' = [delay_ticks EXCEPT ![t] = n]
     /\ UNCHANGED <<state, current_tcb, current_task_idx, pendsv, overtaken>>
  \/ DelayYield(t) \/ DelayReturn(t) \/ Yield(t)

TaskStep(t) == \/ \E n \in Delays : DelayArm(t, n)
               \/ DelayBlock(t)
               \/ DelayYield(t)
               \/ DelayReturn(t)
               \/ Yield(t)

-----------------------------------------------------------------------------
(* SysTick.                                                                *)

Wakes(t) == state[t] = "BLOCKED" /\ delay_ticks[t] = 1

\* Task_UpdateDelays.
UpdateDelays ==
  /\ delay_ticks' = [t \in Task |->
                       IF state[t] = "BLOCKED" /\ delay_ticks[t] > 0
                       THEN delay_ticks[t] - 1 ELSE delay_ticks[t]]
  /\ state' = [t \in Task |-> IF Wakes(t) THEN "READY" ELSE state[t]]

\* Kernel_SysTickHandler once the kernel is started.
SysTick == /\ UpdateDelays
           /\ pendsv' = TRUE
           /\ UNCHANGED <<current_tcb, current_task_idx, pc, overtaken>>

-----------------------------------------------------------------------------
(* PendSV.                                                                 *)

\* How many increments of the index lead from c to t; N from c to itself,
\* where the search of Task_SelectNext gives up.
RingDist(c, t) == IF t > c THEN t - c ELSE t - c + N

\* Seeded fault: every search starts at task 0 instead of after the last one.
SelectsLowestIndex(t) ==
  /\ state[t] = "READY" \/ t = current_task_idx
  /\ \A u \in Task : state[u] = "READY" => t <= u

\* Seeded fault: a task that has gone to sleep may be picked again.
SelectsSleeper(t) ==
  LET Candidate(u) == state[u] \in {"READY", "BLOCKED"}
  IN  /\ Candidate(t) \/ t = current_task_idx
      /\ \A u \in Task : Candidate(u) =>
           RingDist(current_task_idx, t) <= RingDist(current_task_idx, u)

\* The task at which the search of Task_SelectNext stops.
Selects(t) == /\ state[t] = "READY" \/ t = current_task_idx
              /\ \A u \in Task : state[u] = "READY" =>
                   RingDist(current_task_idx, t) <= RingDist(current_task_idx, u)

\* Seeded fault: the task that is preempted keeps its state.
StatesWithoutPreempted(next) == [state EXCEPT ![next] = "RUNNING"]

\* The states Task_SelectNext leaves once its search has stopped at next.
StatesAfter(next) ==
  [t \in Task |->
     CASE t = next -> "RUNNING"
       [] t # next /\ t = current_tcb /\ state[t] = "RUNNING" -> "READY"
       [] OTHER -> state[t]]

\* PendSV_Handler: Task_SelectNext, then current_tcb = next_tcb.
PendSV == \E next \in Task :
  /\ pendsv
  /\ pendsv' = FALSE
  /\ Selects(next)
  /\ current_task_idx' = next
  /\ state' = StatesAfter(next)
  /\ current_tcb' = next
  /\ overtaken' = [t \in Task |-> IF t # next /\ state[t] = "READY"
                                  THEN overtaken[t] + 1 ELSE 0]
  /\ UNCHANGED <<delay_ticks, pc>>

-----------------------------------------------------------------------------
Next == \/ \E t \in Task : TaskStep(t)
        \/ SysTick
        \/ PendSV

Spec == Init /\ [][Next]_vars

\* SysTick keeps ticking, a pending PendSV is taken, and a task that is
\* dispatched again and again executes: a tick period is thousands of
\* instructions, so a slice always lets it finish a store of Task_Delay.
Fairness == /\ WF_vars(SysTick)
            /\ WF_vars(PendSV)
            /\ \A t \in Task : SF_vars(DelayBlock(t) \/ DelayYield(t) \/ DelayReturn(t))

FairSpec == Spec /\ Fairness

-----------------------------------------------------------------------------
TypeOK == /\ state \in [Task -> {"READY", "RUNNING", "BLOCKED"}]
          /\ delay_ticks \in [Task -> Nat]
          /\ current_tcb \in Task
          /\ current_task_idx \in Task
          /\ pendsv \in BOOLEAN
          /\ pc \in [Task -> Place]
          /\ overtaken \in [Task -> Nat]

\* A BLOCKED task always has a positive delay_ticks that the tick will bring
\* to zero, and a task with no ticks left is not BLOCKED: no interleaving of
\* SysTick with the three stores of Task_Delay leaves a sleeper the tick
\* handler skips for ever (the guard delay_ticks > 0 of Task_UpdateDelays).
NoLostWakeup == \A t \in Task : state[t] = "BLOCKED" <=>
                  pc[t] \in {"asleep", "return"} /\ delay_ticks[t] > 0

\* A task that comes back from Task_Delay has slept all its ticks, although
\* Task_SelectNext marks its choice RUNNING without looking at its state
\* when it finds no READY task.
NoEarlyReturn == \A t \in Task : Executes(t) /\ pc[t] = "return" =>
                   state[t] = "RUNNING" /\ delay_ticks[t] = 0

\* Only the task on the processor is ever RUNNING, and the round-robin index,
\* the TCB pointer and the states agree between any two steps, whatever
\* tick or switch has hit a task that was half-way through Task_Delay.
OneRunning == /\ current_tcb = current_task_idx
              /\ \A t \in Task : state[t] = "RUNNING" => t = current_tcb

\* Round robin: a READY task sees at most N - 1 switches to other tasks, even
\* when the tick that wakes it hits it while it is still on the processor.
BoundedOvertaking == \A t \in Task : overtaken[t] <= N - 1

\* The kernel keeps the promise DelayService makes to callers of Task_Delay.
Promise == INSTANCE DelayService WITH
             First <- 0,
             cpu <- current_tcb,
             remaining <- [t \in Task |-> IF state[t] = "BLOCKED"
                                          THEN delay_ticks[t] ELSE 0]
DelayPromise == Promise!Spec

\* Every call of Task_Delay returns, however often the tick preempts the task
\* between its stores: the wake-up, the round robin and the tick together.
DelayReturns == \A t \in Task : pc[t] = "armed" ~> pc[t] = "code"

\* Idle is created with priority 0xFF, "used as lowest priority": it should
\* be dispatched only when no other task is READY.
IdleRunsLast == [][current_tcb # Idle /\ current_tcb' = Idle =>
                     \A t \in Task \ {Idle} : state'[t] # "READY"]_vars
=============================================================================
