---------------------------- MODULE KernelProofs ----------------------------
(***************************************************************************)
(* Proofs about Kernel.tla for every number of tasks and every set of      *)
(* positive delays, and about AppTasks.tla for every task table.  The      *)
(* argument: the processor can always be given to Idle, which never leaves *)
(* READY and RUNNING, so the search of Task_SelectNext never falls back on *)
(* a BLOCKED task; and the ring distance from the round-robin index to a   *)
(* READY task shrinks with every switch that passes it by, which bounds    *)
(* overtaking and, in ticks, the time any task waits: how late the watchdog *)
(* is refreshed, and how old a sample is when a packet takes it along.     *)
(***************************************************************************)
EXTENDS AppTasks, TLAPS

\* A task in its own code is not asleep, and Idle is always in its own code.
IdleNeverSleeps == pc[Idle] = "code"

\* Between the store of delay_ticks and that of the state the count is the
\* one the task asked for.
ArmedAsAsked == \A t \in Task : pc[t] = "armed" => delay_ticks[t] \in Delays

\* The task on the processor is RUNNING, unless it is between its BLOCKED
\* store and the switch that takes it off the processor.
CurrentIsRunning == \/ state[current_tcb] = "RUNNING"
                    \/ pc[current_tcb] = "asleep"
                    \/ pc[current_tcb] = "return" /\ pendsv

\* A READY task has been overtaken at most once per position the index has
\* moved towards it; any other task has not been overtaken at all.
OvertakenByDistance ==
  \A t \in Task : IF state[t] = "READY"
                  THEN overtaken[t] + RingDist(current_task_idx, t) <= N
                  ELSE overtaken[t] = 0

\* The inductive invariant.
IInv == /\ TypeOK
        /\ OneRunning
        /\ IdleNeverSleeps
        /\ ArmedAsAsked
        /\ NoLostWakeup
        /\ CurrentIsRunning
        /\ OvertakenByDistance

-----------------------------------------------------------------------------
\* The distance of two tasks on the ring of Task_SelectNext is between 1 and
\* N, and N only from a task to itself.
LEMMA RingDistBounds ==
  ASSUME NEW c \in Task, NEW t \in Task
  PROVE  /\ RingDist(c, t) \in 1 .. N
         /\ t # c => RingDist(c, t) <= N - 1
BY KernelAssumption DEF RingDist, Task

\* Moving the index of Task_SelectNext to a nearer task brings it nearer to
\* every task it passes by.
LEMMA RingDistShrinks ==
  ASSUME NEW c \in Task, NEW n \in Task, NEW t \in Task, t # n,
         RingDist(c, n) <= RingDist(c, t)
  PROVE  RingDist(n, t) < RingDist(c, t)
BY KernelAssumption DEF RingDist, Task

\* Task_SelectNext never picks a BLOCKED task: when no task is READY the one
\* on the processor is Idle, and it is RUNNING.
LEMMA SelectedIsAwake ==
  ASSUME IInv, NEW n \in Task, Selects(n)
  PROVE  state[n] # "BLOCKED"
<1>1. CASE state[n] = "READY"
  BY <1>1
<1>2. CASE n = current_task_idx /\ state[n] # "READY"
  <2>1. Idle \in Task
    BY KernelAssumption DEF Idle, Task
  <2>2. current_tcb \in Task /\ current_tcb = current_task_idx
    BY DEF IInv, OneRunning, TypeOK
  <2>3. state[Idle] # "BLOCKED"
    BY <2>1 DEF IInv, IdleNeverSleeps, NoLostWakeup
  <2>4. state[Idle] # "READY"
    <3>1. SUFFICES ASSUME state[Idle] = "READY" PROVE FALSE
      OBVIOUS
    <3>2. Idle # n
      BY <3>1, <1>2
    <3>3. RingDist(n, n) <= RingDist(n, Idle)
      BY <3>1, <2>1, <1>2 DEF Selects
    <3>4. RingDist(n, n) = N
      BY KernelAssumption DEF RingDist, Task
    <3>. QED  BY <3>2, <3>3, <3>4, <2>1, RingDistBounds, KernelAssumption
  <2>5. state[Idle] = "RUNNING"
    BY <2>1, <2>3, <2>4 DEF IInv, TypeOK
  <2>6. current_tcb = Idle
    BY <2>1, <2>5 DEF IInv, OneRunning
  <2>. QED  BY <1>2, <2>2, <2>3, <2>6
<1>. QED  BY <1>1, <1>2 DEF Selects

-----------------------------------------------------------------------------
LEMMA InitIInv == Init => IInv
<1>. SUFFICES ASSUME Init PROVE IInv
  OBVIOUS
<1>1. 0 \in Task /\ Idle \in Task
  BY KernelAssumption DEF Task, Idle
<1>2. TypeOK
  BY <1>1 DEF Init, TypeOK, Place
<1>3. OvertakenByDistance
  BY <1>1, RingDistBounds, KernelAssumption DEF Init, OvertakenByDistance
<1>. QED
  BY <1>1, <1>2, <1>3 DEF Init, IInv, OneRunning, IdleNeverSleeps,
     ArmedAsAsked, NoLostWakeup, CurrentIsRunning

\* The steps of a task.
LEMMA TaskStepIInv ==
  ASSUME IInv, NEW t \in Task, TaskStep(t)
  PROVE  IInv'
<1>0. Idle \in Task
  BY KernelAssumption DEF Idle, Task
<1>1. ASSUME NEW n \in Delays, DelayArm(t, n) PROVE IInv'
  <2>0. n \in Nat /\ n > 0
    BY KernelAssumption
  <2>1. TypeOK'
    BY <1>1, <2>0 DEF IInv, TypeOK, DelayArm, At, Place
  <2>2. OvertakenByDistance'
    BY <1>1 DEF IInv, DelayArm, OvertakenByDistance, RingDist
  <2>3. OneRunning' /\ IdleNeverSleeps'
    BY <1>0, <1>1 DEF IInv, TypeOK, DelayArm, At, Executes, OneRunning, IdleNeverSleeps
  <2>4. ArmedAsAsked' /\ NoLostWakeup'
    BY <1>1, <2>0 DEF IInv, TypeOK, DelayArm, At, Executes, ArmedAsAsked,
       NoLostWakeup, CurrentIsRunning
  <2>5. CurrentIsRunning'
    BY <1>1 DEF IInv, TypeOK, DelayArm, At, Executes, CurrentIsRunning
  <2>. QED
    BY <2>1, <2>2, <2>3, <2>4, <2>5 DEF IInv
<1>2. CASE DelayBlock(t)
  <2>1. TypeOK'
    BY <1>2 DEF IInv, TypeOK, DelayBlock, At, Place
  <2>2. OvertakenByDistance'
    <3>1. state[t] = "RUNNING" /\ overtaken[t] = 0
      BY <1>2 DEF IInv, DelayBlock, At, Executes, CurrentIsRunning,
         OvertakenByDistance
    <3>. QED
      BY <3>1, <1>2 DEF IInv, TypeOK, DelayBlock, OvertakenByDistance, RingDist
  <2>3. OneRunning' /\ IdleNeverSleeps'
    BY <1>0, <1>2 DEF IInv, TypeOK, DelayBlock, At, Executes, OneRunning, IdleNeverSleeps
  <2>4. ArmedAsAsked' /\ NoLostWakeup'
    BY <1>2, KernelAssumption DEF IInv, TypeOK, DelayBlock, At, Executes, ArmedAsAsked,
       NoLostWakeup, CurrentIsRunning
  <2>5. CurrentIsRunning'
    BY <1>2 DEF IInv, TypeOK, DelayBlock, At, Executes, CurrentIsRunning
  <2>. QED
    BY <2>1, <2>2, <2>3, <2>4, <2>5 DEF IInv
<1>3. CASE DelayYield(t)
  <2>1. TypeOK'
    BY <1>3 DEF IInv, TypeOK, DelayYield, At, Place
  <2>2. OvertakenByDistance'
    BY <1>3 DEF IInv, DelayYield, OvertakenByDistance, RingDist
  <2>3. OneRunning' /\ IdleNeverSleeps'
    BY <1>0, <1>3 DEF IInv, TypeOK, DelayYield, At, Executes, OneRunning, IdleNeverSleeps
  <2>4. ArmedAsAsked' /\ NoLostWakeup'
    BY <1>3 DEF IInv, TypeOK, DelayYield, At, Executes, ArmedAsAsked,
       NoLostWakeup, CurrentIsRunning
  <2>5. CurrentIsRunning'
    BY <1>3 DEF IInv, TypeOK, DelayYield, At, Executes, CurrentIsRunning
  <2>. QED
    BY <2>1, <2>2, <2>3, <2>4, <2>5 DEF IInv
<1>4. CASE DelayReturn(t)
  <2>1. TypeOK'
    BY <1>4 DEF IInv, TypeOK, DelayReturn, At, Place
  <2>2. OvertakenByDistance'
    BY <1>4 DEF IInv, DelayReturn, OvertakenByDistance, RingDist
  <2>3. OneRunning' /\ IdleNeverSleeps'
    BY <1>0, <1>4 DEF IInv, TypeOK, DelayReturn, At, Executes, OneRunning, IdleNeverSleeps
  <2>4. ArmedAsAsked' /\ NoLostWakeup'
    BY <1>4 DEF IInv, TypeOK, DelayReturn, At, Executes, ArmedAsAsked,
       NoLostWakeup, CurrentIsRunning
  <2>5. CurrentIsRunning'
    BY <1>4 DEF IInv, TypeOK, DelayReturn, At, Executes, CurrentIsRunning
  <2>. QED
    BY <2>1, <2>2, <2>3, <2>4, <2>5 DEF IInv
<1>5. CASE Yield(t)
  <2>1. TypeOK'
    BY <1>5 DEF IInv, TypeOK, Yield, At, Place
  <2>2. OvertakenByDistance'
    BY <1>5 DEF IInv, Yield, OvertakenByDistance, RingDist
  <2>3. OneRunning' /\ IdleNeverSleeps'
    BY <1>0, <1>5 DEF IInv, TypeOK, Yield, At, Executes, OneRunning, IdleNeverSleeps
  <2>4. ArmedAsAsked' /\ NoLostWakeup'
    BY <1>5 DEF IInv, TypeOK, Yield, At, Executes, ArmedAsAsked,
       NoLostWakeup, CurrentIsRunning
  <2>5. CurrentIsRunning'
    BY <1>5 DEF IInv, TypeOK, Yield, At, Executes, CurrentIsRunning
  <2>. QED
    BY <2>1, <2>2, <2>3, <2>4, <2>5 DEF IInv
<1>. QED  BY <1>1, <1>2, <1>3, <1>4, <1>5 DEF TaskStep

\* The tick handler: it wakes a sleeper exactly when its count runs out.
LEMMA SysTickIInv ==
  ASSUME IInv, SysTick
  PROVE  IInv'
<1>1. TypeOK'
  BY DEF IInv, TypeOK, SysTick, UpdateDelays, Wakes
<1>2. OvertakenByDistance'
  <2>. SUFFICES ASSUME NEW t \in Task
                PROVE  IF state'[t] = "READY"
                       THEN overtaken[t] + RingDist(current_task_idx, t) <= N
                       ELSE overtaken[t] = 0
    BY DEF SysTick, OvertakenByDistance, RingDist
  <2>1. RingDist(current_task_idx, t) \in 1 .. N
    BY RingDistBounds DEF IInv, TypeOK
  <2>. QED
    BY <2>1, KernelAssumption DEF IInv, TypeOK, SysTick, UpdateDelays, Wakes,
       OvertakenByDistance
<1>3. NoLostWakeup' /\ ArmedAsAsked'
  BY DEF IInv, TypeOK, SysTick, UpdateDelays, Wakes, NoLostWakeup, ArmedAsAsked
<1>4. OneRunning' /\ IdleNeverSleeps'
  BY DEF IInv, TypeOK, SysTick, UpdateDelays, Wakes, OneRunning, IdleNeverSleeps
<1>5. CurrentIsRunning'
  <2>1. CASE state[current_tcb] = "RUNNING"
    BY <2>1 DEF IInv, TypeOK, SysTick, UpdateDelays, Wakes, CurrentIsRunning
  <2>2. CASE pc[current_tcb] \in {"asleep", "return"}
    BY <2>2 DEF SysTick, CurrentIsRunning
  <2>. QED  BY <2>1, <2>2 DEF IInv, CurrentIsRunning
<1>. QED
  BY <1>1, <1>2, <1>3, <1>4, <1>5 DEF IInv

\* The context switch.
LEMMA PendSVIInv ==
  ASSUME IInv, PendSV
  PROVE  IInv'
<1>1. PICK next \in Task :
        /\ pendsv
        /\ pendsv' = FALSE
        /\ Selects(next)
        /\ current_task_idx' = next
        /\ state' = [t \in Task |->
                 CASE t = next -> "RUNNING"
                   [] t # next /\ t = current_tcb /\ state[t] = "RUNNING" -> "READY"
                   [] OTHER -> state[t]]
        /\ current_tcb' = next
        /\ overtaken' = [t \in Task |-> IF t # next /\ state[t] = "READY"
                                        THEN overtaken[t] + 1 ELSE 0]
        /\ UNCHANGED <<delay_ticks, pc>>
  BY DEF PendSV, StatesAfter
<1>2. state[next] # "BLOCKED"
  BY <1>1, SelectedIsAwake
<1>3. TypeOK'
  <2>1. state' \in [Task -> {"READY", "RUNNING", "BLOCKED"}]
    BY <1>1 DEF IInv, TypeOK
  <2>2. overtaken' \in [Task -> Nat]
    BY <1>1 DEF IInv, TypeOK
  <2>. QED  BY <1>1, <2>1, <2>2 DEF IInv, TypeOK
<1>4. NoLostWakeup'
  BY <1>1, <1>2 DEF IInv, TypeOK, NoLostWakeup
<1>5. OvertakenByDistance'
  <2>. SUFFICES ASSUME NEW t \in Task
                PROVE  IF state'[t] = "READY"
                       THEN overtaken'[t] + RingDist(next, t) <= N
                       ELSE overtaken'[t] = 0
    BY <1>1 DEF OvertakenByDistance, RingDist
  <2>1. RingDist(next, t) \in 1 .. N /\ (t # next => RingDist(next, t) <= N - 1)
    BY RingDistBounds
  <2>2. CASE t # next /\ state[t] = "READY"
    <3>1. RingDist(next, t) < RingDist(current_task_idx, t)
      BY <2>2, <1>1, RingDistShrinks DEF Selects, IInv, TypeOK
    <3>2. RingDist(current_task_idx, t) \in 1 .. N
      BY RingDistBounds DEF IInv, TypeOK
    <3>3. overtaken[t] \in Nat /\ overtaken[t] + RingDist(current_task_idx, t) <= N
      BY <2>2 DEF IInv, TypeOK, OvertakenByDistance
    <3>. QED
      BY <2>1, <2>2, <3>1, <3>2, <3>3, <1>1, KernelAssumption
  <2>3. CASE t = next \/ state[t] # "READY"
    BY <2>1, <2>3, <1>1, KernelAssumption DEF IInv, TypeOK
  <2>. QED  BY <2>2, <2>3
<1>. QED
  BY <1>1, <1>3, <1>4, <1>5 DEF IInv, TypeOK, OneRunning, IdleNeverSleeps,
     ArmedAsAsked, CurrentIsRunning

LEMMA NextIInv == IInv /\ [Next]_vars => IInv'
<1>. SUFFICES ASSUME IInv, [Next]_vars PROVE IInv'
  OBVIOUS
<1>1. CASE UNCHANGED vars
  BY <1>1 DEF vars, IInv, TypeOK, OneRunning, IdleNeverSleeps, ArmedAsAsked,
     NoLostWakeup, CurrentIsRunning, OvertakenByDistance, RingDist
<1>. QED  BY <1>1, TaskStepIInv, SysTickIInv, PendSVIInv DEF Next

LEMMA SpecIInv == Spec => []IInv
BY InitIInv, NextIInv, PTL DEF Spec

-----------------------------------------------------------------------------
\* The TCB table keeps its type.
THEOREM TypeCorrect == Spec => []TypeOK
<1>1. IInv => TypeOK
  BY DEF IInv
<1>. QED  BY <1>1, SpecIInv, PTL

\* No interleaving of the tick with Task_Delay loses a wake-up.
THEOREM WakeupsKept == Spec => []NoLostWakeup
<1>1. IInv => NoLostWakeup
  BY DEF IInv
<1>. QED  BY <1>1, SpecIInv, PTL

\* Task_Delay never returns before its ticks have passed.
THEOREM DelaysSlept == Spec => []NoEarlyReturn
<1>1. IInv => NoEarlyReturn
  <2>. SUFFICES ASSUME IInv, NEW t \in Task, Executes(t), pc[t] = "return"
                PROVE  state[t] = "RUNNING" /\ delay_ticks[t] = 0
    BY DEF NoEarlyReturn
  <2>1. state[t] = "RUNNING"
    BY DEF IInv, CurrentIsRunning, Executes
  <2>. QED  BY <2>1 DEF IInv, TypeOK, NoLostWakeup
<1>. QED  BY <1>1, SpecIInv, PTL

\* The index, the TCB pointer and the task states always agree.
THEOREM SingleRunning == Spec => []OneRunning
<1>1. IInv => OneRunning
  BY DEF IInv
<1>. QED  BY <1>1, SpecIInv, PTL

\* No READY task waits for more than N - 1 switches.
THEOREM RoundRobinBound == Spec => []BoundedOvertaking
<1>1. IInv => BoundedOvertaking
  <2>. SUFFICES ASSUME IInv, NEW t \in Task PROVE overtaken[t] <= N - 1
    BY DEF BoundedOvertaking
  <2>1. RingDist(current_task_idx, t) \in 1 .. N
    BY RingDistBounds DEF IInv, TypeOK
  <2>. QED  BY <2>1, KernelAssumption DEF IInv, TypeOK, OvertakenByDistance
<1>. QED  BY <1>1, SpecIInv, PTL

\* The kernel implements the promise of DelayService: its steps are calls,
\* ticks and dispatches of that service, or leave it unchanged.
THEOREM KeepsDelayPromise == Spec => DelayPromise
<1>. DEFINE Left == [t \in Task |-> IF state[t] = "BLOCKED" THEN delay_ticks[t] ELSE 0]
<1>1. Init => Promise!Init
  BY DEF Init, Promise!Init
<1>2. IInv /\ [Next]_vars => [Promise!Next]_(Promise!vars)
  <2>. SUFFICES ASSUME IInv, [Next]_vars
                PROVE  [Promise!Next]_(Promise!vars)
    OBVIOUS
  <2>1. ASSUME NEW t \in Task, NEW n \in Delays, DelayArm(t, n)
        PROVE  UNCHANGED Promise!vars
    <3>1. Left' = Left
      BY <2>1 DEF IInv, TypeOK, DelayArm, At, NoLostWakeup
    <3>. QED  BY <3>1, <2>1 DEF Promise!vars, DelayArm
  <2>2. ASSUME NEW t \in Task, DelayBlock(t)
        PROVE  \E n \in Delays : Promise!Sleep(n)
    <3>1. t = current_tcb /\ pc[t] = "armed" /\ state[t] # "BLOCKED"
      BY <2>2 DEF IInv, DelayBlock, At, Executes, NoLostWakeup
    <3>2. delay_ticks[t] \in Delays
      BY <3>1 DEF IInv, ArmedAsAsked
    <3>3. Left' = [Left EXCEPT ![current_tcb] = delay_ticks[t]]
      BY <3>1, <2>2 DEF IInv, TypeOK, DelayBlock
    <3>4. Left[current_tcb] = 0
      BY <3>1
    <3>. QED  BY <3>2, <3>3, <3>4, <2>2 DEF Promise!Sleep, DelayBlock
  <2>3. ASSUME NEW t \in Task, DelayYield(t) \/ DelayReturn(t) \/ Yield(t)
        PROVE  UNCHANGED Promise!vars
    BY <2>3 DEF Promise!vars, DelayYield, DelayReturn, Yield
  <2>4. CASE SysTick
    <3>1. Left' = [t \in Task |-> IF Left[t] > 0 THEN Left[t] - 1 ELSE 0]
      BY <2>4 DEF IInv, TypeOK, NoLostWakeup, SysTick, UpdateDelays, Wakes
    <3>2. Promise!Tick
      BY <3>1, <2>4 DEF Promise!Tick, SysTick
    <3>. QED  BY <3>2 DEF Promise!Next
  <2>5. CASE PendSV
    <3>1. PICK next \in Task :
            /\ Selects(next)
            /\ state' = [t \in Task |->
                 CASE t = next -> "RUNNING"
                   [] t # next /\ t = current_tcb /\ state[t] = "RUNNING" -> "READY"
                   [] OTHER -> state[t]]
            /\ current_tcb' = next
            /\ UNCHANGED delay_ticks
      BY <2>5 DEF PendSV, StatesAfter
    <3>2. state[next] # "BLOCKED"
      BY <3>1, SelectedIsAwake
    <3>3. Left' = Left
      BY <3>1, <3>2 DEF IInv, TypeOK
    <3>4. \E t \in Task : Promise!Dispatch(t)
      BY <3>1, <3>2, <3>3 DEF Promise!Dispatch
    <3>. QED  BY <3>4 DEF Promise!Next
  <2>6. CASE UNCHANGED vars
    BY <2>6 DEF vars, Promise!vars
  <2>. QED
    BY <2>1, <2>2, <2>3, <2>4, <2>5, <2>6 DEF Next, TaskStep, Promise!Next, Promise!vars
<1>. QED  BY <1>1, <1>2, SpecIInv, PTL DEF Spec, DelayPromise, Promise!Spec

-----------------------------------------------------------------------------
(* The tasks of the application on the kernel, and the watchdog.           *)

\* The task table, the places of the loops and the counters have their types.
AppTypeOK == /\ code \in Tables
             /\ line \in [Task -> Nat]
             /\ iwdg \in Nat
             /\ ran \in 0 .. SliceSteps

\* Every step of an application task is one of the kernel, or none.
LEMMA AppStepOfKernel ==
  ASSUME AppTypeOK, AppNext
  PROVE  [Next]_vars
<1>1. ASSUME NEW t \in Task, CodeStep(t) PROVE UNCHANGED vars
  BY <1>1 DEF CodeStep, Does, Refresh, Acquire, Send, PrintLine, KeepBusy, Store, Copy, Filter, Pack
<1>2. ASSUME NEW t \in Task, AppDelay(t) PROVE [Next]_vars
  <2>1. Interval[code[t]] \in Delays
    BY AppAssumption DEF AppTypeOK
  <2>. QED  BY <1>2, <2>1 DEF AppDelay, Next, TaskStep
<1>3. AppTick \/ AppSwitch => Next
  BY DEF AppTick, AppSwitch, Next
<1>. QED  BY <1>1, <1>2, <1>3 DEF AppNext

\* The types are kept.
LEMMA AppStepTypes ==
  ASSUME AppTypeOK, [AppNext]_allvars
  PROVE  AppTypeOK'
<1>1. ASSUME NEW t \in Task, CodeStep(t) PROVE AppTypeOK'
  <2>1. code' = code /\ (iwdg' = iwdg \/ iwdg' = 0) /\ (line' = line \/ Advance(t)) /\ Step
    BY <1>1 DEF CodeStep, Does, Refresh, Acquire, Send, PrintLine, KeepBusy, Store, Copy,
       Filter, Pack
  <2>2. line' \in [Task -> Nat]
    BY <2>1 DEF AppTypeOK, Advance
  <2>3. iwdg' \in Nat /\ ran' \in 0 .. SliceSteps
    BY <2>1, AppAssumption DEF AppTypeOK, Step
  <2>4. code' \in Tables
    BY <2>1 DEF AppTypeOK
  <2>. QED  BY <2>2, <2>3, <2>4 DEF AppTypeOK
<1>2. ASSUME NEW t \in Task, AppDelay(t) PROVE AppTypeOK'
  BY <1>2, AppAssumption DEF AppTypeOK, AppDelay, Step
<1>3. CASE AppTick
  BY <1>3, AppAssumption DEF AppTypeOK, AppTick
<1>4. CASE AppSwitch
  BY <1>4, AppAssumption DEF AppTypeOK, AppSwitch
<1>5. CASE UNCHANGED allvars
  BY <1>5 DEF AppTypeOK, allvars, appvars
<1>. QED  BY <1>1, <1>2, <1>3, <1>4, <1>5 DEF AppNext

\* The kernel's invariant holds of the tasks as they are programmed.
LEMMA AppSpecIInv == AppSpec => [](AppTypeOK /\ IInv)
<1>1. AppInit => AppTypeOK /\ IInv
  BY InitIInv, AppAssumption DEF AppInit, AppTypeOK
<1>2. AppTypeOK /\ IInv /\ [AppNext]_allvars => (AppTypeOK /\ IInv)'
  BY AppStepOfKernel, AppStepTypes, NextIInv DEF allvars
<1>. QED  BY <1>1, <1>2, PTL DEF AppSpec

\* The loops of the application tasks call the kernel as its model expects: what
\* is proved of the kernel holds of the tasks of every table.
THEOREM TasksOnKernel == AppSpec => Spec
<1>1. AppInit => Init
  BY DEF AppInit
<1>2. AppTypeOK /\ [AppNext]_allvars => [Next]_vars
  BY AppStepOfKernel DEF allvars
<1>. QED  BY <1>1, <1>2, AppSpecIInv, PTL DEF AppSpec, Spec

-----------------------------------------------------------------------------
(* The watchdog task is served by the round robin.                         *)
(*                                                                         *)
(* The watchdog task is the first one created and Idle the last, so it is  *)
(* always dispatched after Idle, which only a tick interrupts: its slice   *)
(* begins with the tick, and no other task uses up any of it.  Three steps *)
(* are what it needs from the return of Task_Delay to the refresh and the  *)
(* store of the next delay, and from there to its yield.  In between it    *)
(* waits for its turn, while each task in front of it takes a tick at      *)
(* most.  The worst case: it is preempted after it has stored its delay,   *)
(* waits one round to block and another one after it was woken.            *)

\* Ticks that can come before the search of Task_SelectNext reaches t: one for
\* each task in front of it, and one for the task on the processor unless its
\* slice has been ended by a tick already.
RoundLeft(t) ==
  RingDist(current_task_idx, t) - (IF pendsv /\ ran < SliceSteps THEN 1 ELSE 0)

\* Task t is on the processor and has executed k steps of its slice at most, so
\* that no tick comes before it goes on.
InSlice(t, k) == current_tcb = t /\ ~pendsv /\ ran <= k

\* Task t waits for its turn, and the watchdog counts no further than to bound
\* before t has it.
InTurn(t, bound) == /\ current_tcb = t => pendsv
                    /\ iwdg + RoundLeft(t) <= bound

Pause == Interval["watchdog"]

\* What the watchdog counter never exceeds.
LatestRefresh == Pause + 2 * N - 1

\* It has been refreshed and no tick has come since.
JustRefreshed(t) == current_tcb = t /\ ~pendsv /\ iwdg = 0

\* How far the counter is, for each place of the watchdog task.
BeforeRefresh(t) == \/ JustRefreshed(t)
                    \/ InSlice(t, 1) /\ iwdg <= LatestRefresh
                    \/ InTurn(t, LatestRefresh)

ArmedInTime(t, k) == \/ JustRefreshed(t)
                     \/ InSlice(t, k) /\ iwdg <= N
                     \/ InTurn(t, N)

AsleepInTime(t) == \/ iwdg + delay_ticks[t] <= Pause
                   \/ InSlice(t, 2) /\ iwdg + delay_ticks[t] <= Pause + N

WokenBeforeYield(t) == \/ InSlice(t, 0) /\ iwdg <= Pause + N - 1
                       \/ InTurn(t, Pause + N - 1)

SleepsInTime(t) == iwdg + delay_ticks[t] <= Pause + N

ReturnsInTime(t) == \/ InSlice(t, 0) /\ iwdg <= LatestRefresh
                    \/ InTurn(t, LatestRefresh)

Watched(t) ==
  /\ line[t] \in {1, 2}
  /\ line[t] = 1 => pc[t] = "code" /\ BeforeRefresh(t)
  /\ line[t] = 2 /\ pc[t] = "code" => ArmedInTime(t, 0)
  /\ pc[t] = "armed" => delay_ticks[t] = Pause /\ ArmedInTime(t, 1)
  /\ pc[t] = "asleep" => IF delay_ticks[t] > 0 THEN AsleepInTime(t) ELSE WokenBeforeYield(t)
  /\ pc[t] = "return" => IF delay_ticks[t] > 0 THEN SleepsInTime(t) ELSE ReturnsInTime(t)

\* A task that runs the loop of the watchdog.
Watchdogs == {t \in Task \ {Idle} : code[t] = "watchdog"}

\* While Idle runs no step is taken; what ends it is a tick.
IdleEndsWithTick == current_tcb = Idle => ran = IF pendsv THEN 0 ELSE SliceSteps

\* The tables of AppTasks_Init: the watchdog task is created first, Idle last.
WatchdogFirst == \A table \in Tables :
  table[Idle] = "idle" /\ \A t \in Task : table[t] = "watchdog" => t = 0

WatchdogInv == /\ AppTypeOK /\ IInv
               /\ N >= 2 => IdleEndsWithTick
               /\ \A t \in Watchdogs : t = 0 /\ Watched(t)

\* The numbers of the invariant.
LEMMA WatchdogNumbers ==
  ASSUME AppTypeOK, IInv, NEW t \in Task \ {Idle}
  PROVE  /\ N \in Nat /\ N >= 2
         /\ Pause \in Nat /\ Pause >= 1
         /\ iwdg \in Nat /\ delay_ticks[t] \in Nat
         /\ ran \in Nat /\ SliceSteps \in Nat
         /\ RingDist(current_task_idx, t) \in 1 .. N
         /\ RoundLeft(t) \in 0 .. N
<1>1. N \in Nat /\ N >= 2
  BY KernelAssumption DEF Task, Idle
<1>2. Pause \in Nat /\ Pause >= 1
  <2>1. "watchdog" \in DOMAIN Code
    BY DEF Code
  <2>2. Pause \in Delays
    BY <2>1, AppAssumption DEF Pause
  <2>. QED  BY <2>2, KernelAssumption
<1>3. RingDist(current_task_idx, t) \in 1 .. N
  BY RingDistBounds DEF IInv, TypeOK
<1>4. RoundLeft(t) \in 0 .. N
  BY <1>1, <1>3 DEF RoundLeft
<1>. QED  BY <1>1, <1>2, <1>3, <1>4, AppAssumption DEF AppTypeOK, IInv, TypeOK

\* A step of another task brings the turn of t no further away.
LEMMA OtherTaskStep ==
  ASSUME WatchdogInv, AppTypeOK', IInv', NEW t \in Watchdogs, NEW u \in Task, u # t,
         CodeStep(u) \/ AppDelay(u)
  PROVE  Watched(t)'
<1>1. /\ current_tcb = u /\ ~pendsv /\ current_tcb' = current_tcb
      /\ current_task_idx' = current_task_idx
      /\ state'[t] = state[t] /\ pc'[t] = pc[t] /\ line'[t] = line[t]
      /\ delay_ticks'[t] = delay_ticks[t]
      /\ iwdg' = iwdg \/ iwdg' = 0
  <2>1. CASE CodeStep(u)
    <3>1. \E op : Does(u, op)
      BY <2>1 DEF CodeStep, Refresh, Acquire, Send, PrintLine, KeepBusy, Store, Copy, Filter, Pack
    <3>2. Executes(u) /\ UNCHANGED vars
      BY <3>1 DEF Does
    <3>3. (iwdg' = iwdg \/ iwdg' = 0) /\ (line' = line \/ Advance(u))
      BY <2>1 DEF CodeStep, Refresh, Acquire, Send, PrintLine, KeepBusy, Store, Copy, Filter, Pack
    <3>4. line'[t] = line[t]
      BY <3>3 DEF Advance, Watchdogs, WatchdogInv, AppTypeOK
    <3>. QED  BY <3>2, <3>3, <3>4 DEF Executes, vars
  <2>2. CASE AppDelay(u)
    BY <2>2 DEF AppDelay, DelayArm, DelayBlock, DelayYield, DelayReturn, At, Executes,
       Watchdogs, WatchdogInv, AppTypeOK, IInv, TypeOK
  <2>. QED  BY <2>1, <2>2
<1>2. t \in Task \ {Idle} /\ AppTypeOK /\ IInv /\ Watched(t)
  BY DEF Watchdogs, WatchdogInv
<1>3. RoundLeft(t)' <= RoundLeft(t)
  <2>1. RoundLeft(t) = RingDist(current_task_idx, t)
    BY <1>1, <1>2, WatchdogNumbers DEF RoundLeft
  <2>2. RingDist(current_task_idx, t)' = RingDist(current_task_idx, t)
    BY <1>1 DEF RingDist
  <2>. QED  BY <1>2, <2>1, <2>2, WatchdogNumbers DEF RoundLeft
<1>4. \A bound \in Nat : InTurn(t, bound) => InTurn(t, bound)'
  <2>1. RoundLeft(t) \in Nat /\ RoundLeft(t)' \in Nat /\ iwdg \in Nat /\ iwdg' \in Nat
    BY <1>2, <1>1, WatchdogNumbers DEF RoundLeft, RingDist, AppTypeOK
  <2>. QED  BY <1>1, <1>3, <2>1 DEF InTurn
<1>5. ~InSlice(t, 0) /\ ~InSlice(t, 1) /\ ~InSlice(t, 2) /\ current_tcb # t
  BY <1>1 DEF InSlice
<1>6. /\ LatestRefresh \in Nat /\ N \in Nat /\ Pause \in Nat /\ Pause + N - 1 \in Nat
      /\ iwdg \in Nat /\ delay_ticks[t] \in Nat
  BY <1>2, WatchdogNumbers DEF LatestRefresh
<1>. QED  BY <1>1, <1>2, <1>4, <1>5, <1>6 DEF Watched, BeforeRefresh, JustRefreshed,
             ArmedInTime, AsleepInTime, WokenBeforeYield, SleepsInTime, ReturnsInTime

\* The steps of the watchdog task itself.
LEMMA OwnStep ==
  ASSUME WatchdogInv, AppTypeOK', IInv', NEW t \in Watchdogs, SliceSteps >= 3,
         CodeStep(t) \/ AppDelay(t)
  PROVE  Watched(t)'
<1>0. /\ t \in Task \ {Idle} /\ AppTypeOK /\ IInv /\ Watched(t)
      /\ code[t] = "watchdog" /\ t \in Task /\ t # Idle
  BY DEF Watchdogs, WatchdogInv
<1>1. /\ N \in Nat /\ N >= 2 /\ Pause \in Nat /\ Pause >= 1
      /\ iwdg \in Nat /\ delay_ticks[t] \in Nat /\ ran \in Nat /\ SliceSteps \in Nat
  BY <1>0, WatchdogNumbers
<1>2. Len(Code[code[t]]) = 1 /\ Code[code[t]][1] = <<"refresh">>
  BY <1>0 DEF Code
<1>3. line \in [Task -> Nat] /\ pc \in [Task -> Place] /\ delay_ticks \in [Task -> Nat]
  BY <1>0 DEF AppTypeOK, IInv, TypeOK
<1>4. Executes(t) => \A bound : ~InTurn(t, bound)
  BY DEF Executes, InTurn
<1>5. CASE CodeStep(t)
  <2>1. Refresh(t) /\ line[t] = 1
    <3>1. PICK op : Does(t, op)
      BY <1>5 DEF CodeStep, Refresh, Acquire, Send, PrintLine, KeepBusy, Store, Copy, Filter, Pack
    <3>2. line[t] = 1 /\ Code[code[t]][line[t]] = <<"refresh">>
      BY <3>1, <1>0, <1>2 DEF Does, Watched
    <3>3. \A f : /\ <<"refresh">> # <<"store", f>> /\ <<"refresh">> # <<"copy", f>>
                 /\ <<"refresh">> # <<"filter", f>> /\ <<"refresh">> # <<"pack", f>>
      OBVIOUS
    <3>4. <<"refresh">> \notin {<<"acquire">>, <<"send">>, <<"print">>, <<"busy">>}
      OBVIOUS
    <3>. QED  BY <1>5, <3>2, <3>3, <3>4
              DEF CodeStep, Does, Acquire, Send, PrintLine, KeepBusy, Store, Copy, Filter, Pack
  <2>2. /\ Executes(t) /\ pc[t] = "code" /\ UNCHANGED vars /\ Step
        /\ line' = [line EXCEPT ![t] = @ + 1] /\ iwdg' = 0
    BY <2>1 DEF Refresh, Does, Advance
  <2>4. JustRefreshed(t)'
    BY <2>2 DEF JustRefreshed, Executes, vars
  <2>5. line'[t] = 2 /\ pc'[t] = "code"
    BY <1>0, <1>3, <2>1, <2>2 DEF vars
  <2>. QED  BY <2>4, <2>5 DEF Watched, ArmedInTime
<1>6. CASE AppDelay(t)
  <2>0. Step /\ iwdg' = iwdg
    BY <1>6 DEF AppDelay
  <2>1. CASE line[t] > 1 /\ DelayArm(t, Interval[code[t]]) /\ line' = line
    <3>1. /\ Executes(t) /\ pc[t] = "code" /\ line[t] = 2
          /\ JustRefreshed(t) \/ (InSlice(t, 0) /\ iwdg <= N)
      BY <1>0, <1>3, <1>4, <2>1 DEF DelayArm, At, Watched, ArmedInTime
    <3>2. pc'[t] = "armed" /\ delay_ticks'[t] = Pause
      BY <1>0, <1>3, <2>1 DEF DelayArm, At, Pause
    <3>3. current_tcb' = t /\ ~pendsv'
      BY <2>1, <3>1 DEF DelayArm, Executes
    <3>4. InSlice(t, 0) => InSlice(t, 1)'
      BY <1>1, <2>0, <3>3 DEF InSlice, Step
    <3>5. ArmedInTime(t, 1)'
      BY <2>0, <3>1, <3>3, <3>4 DEF ArmedInTime, JustRefreshed
    <3>. QED  BY <2>1, <3>1, <3>2, <3>5 DEF Watched
  <2>2. CASE DelayBlock(t) /\ line' = line
    <3>1. Executes(t) /\ pc[t] = "armed" /\ pc'[t] = "asleep" /\ delay_ticks' = delay_ticks
      BY <1>0, <1>3, <2>2 DEF DelayBlock, At
    <3>2. line[t] = 2 /\ delay_ticks[t] = Pause /\ (iwdg = 0 \/ (InSlice(t, 1) /\ iwdg <= N))
      BY <1>0, <1>4, <3>1 DEF Watched, ArmedInTime, JustRefreshed
    <3>3. InSlice(t, 1) => InSlice(t, 2)'
      BY <1>1, <2>0, <2>2 DEF InSlice, Step, DelayBlock
    <3>4. AsleepInTime(t)'
      BY <1>1, <2>0, <3>1, <3>2, <3>3 DEF AsleepInTime
    <3>. QED  BY <1>1, <2>2, <3>1, <3>2, <3>4 DEF Watched
  <2>3. CASE DelayYield(t) /\ line' = line
    <3>1. /\ Executes(t) /\ pc[t] = "asleep" /\ pc'[t] = "return" /\ delay_ticks' = delay_ticks
          /\ pendsv' = TRUE /\ current_tcb' = t /\ current_task_idx' = current_task_idx
      BY <1>0, <1>3, <2>3 DEF DelayYield, At, Executes
    <3>2. line[t] = 2
      BY <1>0, <3>1 DEF Watched
    <3>3. ASSUME delay_ticks[t] > 0 PROVE SleepsInTime(t)'
      <4>1. AsleepInTime(t)
        BY <1>0, <3>1, <3>3 DEF Watched
      <4>. QED  BY <1>1, <2>0, <3>1, <4>1 DEF AsleepInTime, SleepsInTime
    <3>4. ASSUME delay_ticks[t] = 0 PROVE ReturnsInTime(t)'
      <4>1. ran = 0 /\ iwdg <= Pause + N - 1
        BY <1>0, <1>1, <1>4, <3>1, <3>4 DEF Watched, WokenBeforeYield, InSlice
      <4>2. ran' < SliceSteps
        BY <1>1, <2>0, <4>1 DEF Step
      <4>3. RingDist(current_task_idx, t)' = N
        BY <1>0, <1>1, <3>1 DEF IInv, OneRunning, Executes, RingDist, Task
      <4>4. RoundLeft(t)' = N - 1
        BY <3>1, <4>2, <4>3 DEF RoundLeft
      <4>5. InTurn(t, LatestRefresh)'
        BY <1>1, <2>0, <3>1, <4>1, <4>4 DEF InTurn, LatestRefresh, Pause
      <4>. QED  BY <4>5 DEF ReturnsInTime
    <3>. QED  BY <1>1, <2>3, <3>1, <3>2, <3>3, <3>4 DEF Watched
  <2>4. CASE DelayReturn(t) /\ line' = [line EXCEPT ![t] = 1]
    <3>1. /\ Executes(t) /\ pc[t] = "return" /\ pc'[t] = "code" /\ line'[t] = 1
          /\ pendsv' = pendsv /\ current_tcb' = current_tcb
      BY <1>0, <1>3, <2>4 DEF DelayReturn, At
    <3>2. delay_ticks[t] = 0
      BY <1>0, <1>1, <3>1 DEF IInv, CurrentIsRunning, NoLostWakeup, Executes
    <3>3. InSlice(t, 0) /\ iwdg <= LatestRefresh
      BY <1>0, <1>4, <3>1, <3>2 DEF Watched, ReturnsInTime
    <3>4. InSlice(t, 1)'
      BY <1>1, <2>0, <3>1, <3>3 DEF InSlice, Step
    <3>5. BeforeRefresh(t)'
      BY <2>0, <3>3, <3>4 DEF BeforeRefresh, LatestRefresh, Pause
    <3>. QED  BY <3>1, <3>5 DEF Watched
  <2>. QED  BY <1>2, <1>6, <2>1, <2>2, <2>3, <2>4 DEF AppDelay
<1>. QED  BY <1>5, <1>6

\* The tick: what the counter gains, the turn of a task that waits loses.
LEMMA WatchdogTick ==
  ASSUME WatchdogInv, AppTypeOK', IInv', NEW t \in Watchdogs, SliceSteps >= 3, AppTick
  PROVE  Watched(t)'
<1>0. /\ t \in Task \ {Idle} /\ AppTypeOK /\ IInv /\ Watched(t) /\ t \in Task
  BY DEF Watchdogs, WatchdogInv
<1>1. /\ N \in Nat /\ N >= 2 /\ Pause \in Nat /\ Pause >= 1
      /\ iwdg \in Nat /\ delay_ticks[t] \in Nat /\ ran \in Nat /\ SliceSteps \in Nat
  BY <1>0, WatchdogNumbers
<1>d. RingDist(current_task_idx, t) \in 1 .. N
  BY <1>0, WatchdogNumbers
<1>2. /\ ran = SliceSteps /\ ran' = 0 /\ pendsv'
      /\ current_tcb' = current_tcb /\ current_task_idx' = current_task_idx
      /\ pc' = pc /\ line' = line
      /\ iwdg' = iwdg \/ iwdg' = iwdg + 1
  BY DEF AppTick, SysTick
<1>3. delay_ticks'[t] = IF state[t] = "BLOCKED" /\ delay_ticks[t] > 0
                        THEN delay_ticks[t] - 1 ELSE delay_ticks[t]
  BY <1>0 DEF AppTick, SysTick, UpdateDelays
<1>4. state[t] = "BLOCKED" <=> pc[t] \in {"asleep", "return"} /\ delay_ticks[t] > 0
  BY <1>0 DEF IInv, NoLostWakeup
<1>5. ~InSlice(t, 0) /\ ~InSlice(t, 1) /\ ~InSlice(t, 2)
  BY <1>1, <1>2 DEF InSlice
<1>6. RoundLeft(t)' = RingDist(current_task_idx, t) - 1
  BY <1>1, <1>d, <1>2 DEF RoundLeft, RingDist
<1>7. RoundLeft(t) = RingDist(current_task_idx, t)
  BY <1>1, <1>d, <1>2 DEF RoundLeft
<1>8. \A bound \in Nat : InTurn(t, bound) => InTurn(t, bound)'
  BY <1>1, <1>d, <1>2, <1>6, <1>7 DEF InTurn
<1>9. \A bound \in Nat : iwdg' + N - 1 <= bound => InTurn(t, bound)'
  <2>1. iwdg' \in Nat /\ RoundLeft(t)' <= N - 1 /\ RoundLeft(t)' \in Nat
    BY <1>1, <1>d, <1>2, <1>6
  <2>2. ASSUME NEW bound \in Nat, iwdg' + N - 1 <= bound
        PROVE  iwdg' + RoundLeft(t)' <= bound
    <3>1. \A i, r \in Nat : r <= N - 1 /\ i + N - 1 <= bound => i + r <= bound
      BY <1>1
    <3>. QED  BY <2>1, <2>2, <3>1
  <2>. QED  BY <1>2, <2>2 DEF InTurn
<1>10. LatestRefresh \in Nat /\ Pause + N - 1 \in Nat /\ LatestRefresh = Pause + 2 * N - 1
  BY <1>1 DEF LatestRefresh
<1>11. line'[t] \in {1, 2} /\ (line'[t] = 1 => pc'[t] = "code" /\ BeforeRefresh(t)')
  <2>1. ASSUME JustRefreshed(t) PROVE InTurn(t, LatestRefresh)'
    <3>1. iwdg' = 0 \/ iwdg' = 1
      BY <1>2, <2>1 DEF JustRefreshed
    <3>2. iwdg' + N - 1 <= LatestRefresh
      BY <1>1, <1>10, <3>1
    <3>. QED  BY <1>9, <1>10, <3>2
  <2>. QED  BY <1>0, <1>2, <1>5, <1>8, <1>10, <2>1 DEF Watched, BeforeRefresh
<1>12. \A k \in {0, 1} : ArmedInTime(t, k) => ArmedInTime(t, k)'
  <2>1. JustRefreshed(t) => InTurn(t, N)'
    <3>1. iwdg = 0 => iwdg' + N - 1 <= N
      <4>1. iwdg = 0 => iwdg' = 0 \/ iwdg' = 1
        BY <1>2
      <4>. QED  BY <1>1, <4>1
    <3>. QED  BY <1>1, <1>9, <3>1 DEF JustRefreshed
  <2>2. InTurn(t, N) => InTurn(t, N)'
    BY <1>1, <1>8
  <2>. QED  BY <1>5, <2>1, <2>2 DEF ArmedInTime
<1>13. /\ pc[t] = "armed" => delay_ticks'[t] = Pause /\ ArmedInTime(t, 1)'
       /\ line[t] = 2 /\ pc[t] = "code" => ArmedInTime(t, 0)'
  BY <1>0, <1>3, <1>4, <1>12 DEF Watched
<1>14. ASSUME pc[t] = "asleep", delay_ticks[t] > 0
       PROVE  IF delay_ticks'[t] > 0 THEN AsleepInTime(t)' ELSE WokenBeforeYield(t)'
  <2>1. iwdg + delay_ticks[t] <= Pause
    BY <1>0, <1>5, <1>14 DEF Watched, AsleepInTime
  <2>2. delay_ticks'[t] = delay_ticks[t] - 1
    BY <1>3, <1>4, <1>14
  <2>3. iwdg' + delay_ticks'[t] <= Pause
    BY <1>1, <1>2, <2>1, <2>2
  <2>4. delay_ticks'[t] = 0 => InTurn(t, Pause + N - 1)'
    <3>1. iwdg' \in Nat
      BY <1>1, <1>2
    <3>2. delay_ticks'[t] = 0 => iwdg' <= Pause
      BY <2>3, <3>1
    <3>3. iwdg' <= Pause => iwdg' + N - 1 <= Pause + N - 1
      <4>1. \A i, p, n \in Nat : i <= p => i + n - 1 <= p + n - 1
        OBVIOUS
      <4>. QED  BY <1>1, <3>1, <4>1
    <3>. QED  BY <1>9, <1>10, <3>2, <3>3
  <2>. QED  BY <1>1, <1>14, <2>2, <2>3, <2>4 DEF AsleepInTime, WokenBeforeYield, Pause
<1>15. ASSUME pc[t] = "asleep", ~(delay_ticks[t] > 0)
       PROVE  ~(delay_ticks'[t] > 0) /\ WokenBeforeYield(t)'
  BY <1>0, <1>3, <1>5, <1>8, <1>10, <1>15 DEF Watched, WokenBeforeYield, Pause
<1>16. ASSUME pc[t] = "return", delay_ticks[t] > 0
       PROVE  IF delay_ticks'[t] > 0 THEN SleepsInTime(t)' ELSE ReturnsInTime(t)'
  <2>1. delay_ticks'[t] = delay_ticks[t] - 1
    BY <1>3, <1>4, <1>16
  <2>2. iwdg' + delay_ticks'[t] <= Pause + N
    BY <1>0, <1>1, <1>2, <1>16, <2>1 DEF Watched, SleepsInTime
  <2>3. delay_ticks'[t] = 0 => InTurn(t, LatestRefresh)'
    <3>1. iwdg' \in Nat
      BY <1>1, <1>2
    <3>2. delay_ticks'[t] = 0 => iwdg' <= Pause + N
      <4>1. \A i, d, b \in Nat : d = 0 /\ i + d <= b => i <= b
        OBVIOUS
      <4>2. delay_ticks'[t] \in Nat /\ Pause + N \in Nat
        BY <1>1, <1>16, <2>1
      <4>. QED  BY <2>2, <3>1, <4>1, <4>2
    <3>3. iwdg' <= Pause + N => iwdg' + N - 1 <= LatestRefresh
      <4>1. \A i, p, n \in Nat : i <= p + n => i + n - 1 <= p + 2 * n - 1
        OBVIOUS
      <4>. QED  BY <1>1, <1>10, <3>1, <4>1
    <3>. QED  BY <1>9, <1>10, <3>2, <3>3
  <2>4. delay_ticks'[t] \in Nat
    BY <1>1, <1>16, <2>1
  <2>. QED  BY <2>2, <2>3, <2>4 DEF SleepsInTime, ReturnsInTime, Pause, LatestRefresh
<1>17. ASSUME pc[t] = "return", ~(delay_ticks[t] > 0)
       PROVE  ~(delay_ticks'[t] > 0) /\ ReturnsInTime(t)'
  BY <1>0, <1>3, <1>5, <1>8, <1>10, <1>17 DEF Watched, ReturnsInTime, LatestRefresh, Pause
<1>. QED  BY <1>2, <1>11, <1>13, <1>14, <1>15, <1>16, <1>17 DEF Watched

\* Idle is always awake, so the search of Task_SelectNext gets to task 0 from
\* Idle only.
LEMMA FirstAfterIdle ==
  ASSUME IInv, N >= 2, Selects(0)
  PROVE  current_tcb = Idle
<1>1. /\ N \in Nat /\ Idle \in Task /\ 0 \in Task /\ Idle # 0
      /\ current_tcb \in Task /\ current_task_idx = current_tcb
  BY KernelAssumption DEF IInv, TypeOK, OneRunning, Task, Idle
<1>2. state[Idle] \in {"READY", "RUNNING"}
  BY <1>1 DEF IInv, TypeOK, NoLostWakeup, IdleNeverSleeps
<1>3. SUFFICES ASSUME current_tcb # Idle PROVE FALSE
  OBVIOUS
<1>4. state[Idle] = "READY"
  BY <1>1, <1>2, <1>3 DEF IInv, OneRunning
<1>5. RingDist(current_tcb, 0) <= RingDist(current_tcb, Idle)
  BY <1>1, <1>4 DEF Selects
<1>. QED  BY <1>1, <1>3, <1>5 DEF RingDist, Task, Idle

\* Steps of other tasks are none while Idle runs, and what begins or ends its
\* slice keeps the count.
LEMMA IdleSteps ==
  ASSUME AppTypeOK, IInv, N >= 2, IdleEndsWithTick, [AppNext]_allvars
  PROVE  IdleEndsWithTick'
<1>1. ASSUME NEW u \in Task, CodeStep(u) PROVE IdleEndsWithTick'
  <2>1. \E op : Does(u, op)
    BY <1>1 DEF CodeStep, Refresh, Acquire, Send, PrintLine, KeepBusy, Store, Copy, Filter, Pack
  <2>2. current_tcb = u /\ u # Idle /\ current_tcb' = current_tcb
    BY <2>1 DEF Does, Executes, vars
  <2>. QED  BY <2>2 DEF IdleEndsWithTick
<1>2. ASSUME NEW u \in Task, AppDelay(u) PROVE IdleEndsWithTick'
  <2>1. current_tcb = u /\ u # Idle /\ current_tcb' = current_tcb
    BY <1>2 DEF AppDelay, DelayArm, DelayBlock, DelayYield, DelayReturn, At, Executes
  <2>. QED  BY <2>1 DEF IdleEndsWithTick
<1>3. CASE AppTick
  BY <1>3 DEF AppTick, SysTick, IdleEndsWithTick
<1>4. CASE AppSwitch
  BY <1>4 DEF AppSwitch, PendSV, IdleEndsWithTick
<1>5. CASE UNCHANGED allvars
  BY <1>5 DEF allvars, vars, appvars, IdleEndsWithTick
<1>. QED  BY <1>1, <1>2, <1>3, <1>4, <1>5 DEF AppNext

\* The switch: it dispatches t, or brings its turn nearer.
LEMMA WatchdogSwitch ==
  ASSUME WatchdogInv, AppTypeOK', IInv', NEW t \in Watchdogs, SliceSteps >= 3, AppSwitch
  PROVE  Watched(t)'
<1>0. /\ t \in Task \ {Idle} /\ AppTypeOK /\ IInv /\ Watched(t) /\ t \in Task /\ t # Idle
  BY DEF Watchdogs, WatchdogInv
<1>1. /\ N \in Nat /\ N >= 2 /\ Pause \in Nat /\ Pause >= 1
      /\ iwdg \in Nat /\ delay_ticks[t] \in Nat /\ ran \in Nat /\ SliceSteps \in Nat
      /\ RingDist(current_task_idx, t) \in 1 .. N /\ RoundLeft(t) \in 0 .. N
  BY <1>0, WatchdogNumbers
<1>2. PICK next \in Task : /\ pendsv /\ pendsv' = FALSE /\ Selects(next)
                           /\ current_task_idx' = next /\ current_tcb' = next
                           /\ UNCHANGED <<delay_ticks, pc>>
  BY DEF AppSwitch, PendSV
<1>3. /\ ran' = IF current_tcb' = Idle THEN SliceSteps ELSE ran
      /\ line' = line /\ iwdg' = iwdg
  BY DEF AppSwitch
<1>4. state[t] = "BLOCKED" <=> pc[t] \in {"asleep", "return"} /\ delay_ticks[t] > 0
  BY <1>0 DEF IInv, NoLostWakeup
<1>5. ~InSlice(t, 0) /\ ~InSlice(t, 1) /\ ~InSlice(t, 2) /\ ~JustRefreshed(t)
  BY <1>2 DEF InSlice, JustRefreshed
<1>6. LatestRefresh \in Nat /\ Pause + N - 1 \in Nat
  BY <1>1 DEF LatestRefresh
<1>7. CASE next = t
  <2>0. current_tcb = Idle
    BY <1>0, <1>1, <1>2, <1>7, FirstAfterIdle DEF WatchdogInv
  <2>1. InSlice(t, 0)' /\ InSlice(t, 1)'
    BY <1>0, <1>1, <1>2, <1>3, <1>7, <2>0 DEF InSlice, WatchdogInv, IdleEndsWithTick
  <2>2. \A bound \in Nat : InTurn(t, bound) => iwdg' <= bound
    BY <1>1, <1>3 DEF InTurn
  <2>3. ~(pc[t] \in {"asleep", "return"} /\ delay_ticks[t] > 0)
    BY <1>0, <1>2, <1>4, <1>7, SelectedIsAwake
  <2>4. line[t] = 1 => BeforeRefresh(t)'
    BY <1>0, <1>5, <1>6, <2>1, <2>2 DEF Watched, BeforeRefresh, LatestRefresh, Pause
  <2>5. /\ line[t] = 2 /\ pc[t] = "code" => ArmedInTime(t, 0)'
        /\ pc[t] = "armed" => ArmedInTime(t, 1)'
    BY <1>0, <1>1, <1>2, <1>5, <2>1, <2>2 DEF Watched, ArmedInTime
  <2>7. pc[t] = "asleep" => WokenBeforeYield(t)'
    BY <1>0, <1>5, <1>6, <2>1, <2>2, <2>3 DEF Watched, WokenBeforeYield, Pause
  <2>8. pc[t] = "return" => ReturnsInTime(t)'
    BY <1>0, <1>5, <1>6, <2>1, <2>2, <2>3 DEF Watched, ReturnsInTime, LatestRefresh, Pause
  <2>. QED  BY <1>0, <1>2, <1>3, <2>3, <2>4, <2>5, <2>7, <2>8 DEF Watched
<1>8. CASE next # t
  <2>1. RingDist(next, t) \in 1 .. N - 1
    BY <1>0, <1>1, <1>8, RingDistBounds
  <2>2. RoundLeft(t)' = RingDist(next, t)
    BY <1>2, <2>1 DEF RoundLeft, RingDist
  <2>3. ASSUME state[t] # "BLOCKED"
        PROVE  RingDist(next, t) <= RoundLeft(t)
    <3>1. CASE state[t] = "READY"
      <4>1. RingDist(current_task_idx, next) <= RingDist(current_task_idx, t)
        BY <1>0, <1>2, <3>1 DEF Selects
      <4>2. RingDist(next, t) < RingDist(current_task_idx, t)
        BY <1>0, <1>8, <4>1, RingDistShrinks DEF IInv, TypeOK
      <4>. QED  BY <1>1, <2>1, <4>2 DEF RoundLeft
    <3>2. CASE state[t] = "RUNNING"
      <4>1. RingDist(current_task_idx, t) = N
        BY <1>0, <1>1, <3>2 DEF IInv, OneRunning, RingDist, Task
      <4>. QED  BY <1>1, <2>1, <4>1 DEF RoundLeft
    <3>. QED  BY <1>0, <2>3, <3>1, <3>2 DEF IInv, TypeOK
  <2>4. ASSUME state[t] # "BLOCKED"
        PROVE  \A bound \in Nat : InTurn(t, bound) => InTurn(t, bound)'
    BY <1>1, <1>2, <1>3, <1>8, <2>1, <2>2, <2>3, <2>4 DEF InTurn
  <2>5. line[t] = 1 => BeforeRefresh(t)'
    BY <1>0, <1>4, <1>5, <1>6, <2>4 DEF Watched, BeforeRefresh
  <2>7. /\ line[t] = 2 /\ pc[t] = "code" => ArmedInTime(t, 0)'
        /\ pc[t] = "armed" => ArmedInTime(t, 1)'
    BY <1>0, <1>1, <1>2, <1>4, <1>5, <2>4 DEF Watched, ArmedInTime
  <2>8. pc[t] = "asleep" /\ delay_ticks[t] > 0 => AsleepInTime(t)'
    BY <1>0, <1>2, <1>3, <1>5 DEF Watched, AsleepInTime, Pause
  <2>9. pc[t] = "asleep" /\ ~(delay_ticks[t] > 0) => WokenBeforeYield(t)'
    BY <1>0, <1>4, <1>5, <1>6, <2>4 DEF Watched, WokenBeforeYield
  <2>10. pc[t] = "return" /\ delay_ticks[t] > 0 => SleepsInTime(t)'
    BY <1>0, <1>2, <1>3 DEF Watched, SleepsInTime, Pause
  <2>11. pc[t] = "return" /\ ~(delay_ticks[t] > 0) => ReturnsInTime(t)'
    BY <1>0, <1>4, <1>5, <1>6, <2>4 DEF Watched, ReturnsInTime
  <2>. QED  BY <1>0, <1>2, <1>3, <2>5, <2>7, <2>8, <2>9, <2>10, <2>11 DEF Watched
<1>. QED  BY <1>7, <1>8

\* The inductive invariant holds throughout.
LEMMA WatchdogSpecInv ==
  ASSUME SliceSteps >= 3, WatchdogFirst
  PROVE  AppSpec => []WatchdogInv
<1>1. AppInit => WatchdogInv
  <2>. SUFFICES ASSUME AppInit PROVE WatchdogInv
    OBVIOUS
  <2>1. AppTypeOK /\ IInv
    BY InitIInv, AppAssumption DEF AppInit, AppTypeOK
  <2>2. ASSUME NEW t \in Watchdogs PROVE Watched(t)
    <3>1. t \in Task \ {Idle} /\ t \in Task
      BY DEF Watchdogs
    <3>2. line[t] = 1 /\ pc[t] = "code" /\ iwdg = 0 /\ ~pendsv
      BY <3>1 DEF AppInit, Init
    <3>3. LatestRefresh \in Nat /\ N <= LatestRefresh /\ RoundLeft(t) \in 0 .. N
      BY <2>1, <3>1, WatchdogNumbers DEF LatestRefresh
    <3>4. BeforeRefresh(t)
      <4>1. CASE t = 0
        BY <3>2, <3>3, <4>1 DEF AppInit, Init, BeforeRefresh, JustRefreshed
      <4>2. CASE t # 0
        <5>1. current_tcb # t
          BY <4>2 DEF AppInit, Init
        <5>2. iwdg + RoundLeft(t) <= LatestRefresh
          <6>1. N \in Nat
            BY KernelAssumption
          <6>. QED  BY <3>2, <3>3, <6>1
        <5>. QED  BY <5>1, <5>2 DEF BeforeRefresh, InTurn
      <4>. QED  BY <4>1, <4>2
    <3>. QED  BY <3>2, <3>4 DEF Watched
  <2>3. \A t \in Watchdogs : t = 0
    BY <2>1 DEF Watchdogs, WatchdogFirst, AppTypeOK
  <2>4. N >= 2 => IdleEndsWithTick
    BY KernelAssumption DEF AppInit, Init, IdleEndsWithTick, Idle
  <2>. QED  BY <2>1, <2>2, <2>3, <2>4 DEF WatchdogInv
<1>2. ASSUME WatchdogInv, [AppNext]_allvars PROVE WatchdogInv'
  <2>1. AppTypeOK' /\ IInv'
    BY <1>2, AppStepOfKernel, AppStepTypes, NextIInv DEF WatchdogInv, allvars
  <2>2. code' = code /\ Watchdogs' = Watchdogs
    <3>1. ASSUME NEW u \in Task, CodeStep(u) PROVE code' = code
      <4>1. PICK op : Does(u, op)
        BY <3>1 DEF CodeStep, Refresh, Acquire, Send, PrintLine, KeepBusy, Store, Copy, Filter, Pack
      <4>. QED  BY <4>1 DEF Does
    <3>2. code' = code
      BY <1>2, <3>1 DEF AppNext, AppDelay, AppTick, AppSwitch, allvars, appvars
    <3>. QED  BY <3>2 DEF Watchdogs
  <2>3. ASSUME NEW t \in Watchdogs PROVE Watched(t)'
    <3>1. ASSUME NEW u \in Task, CodeStep(u) \/ AppDelay(u) PROVE Watched(t)'
      BY <1>2, <2>1, <3>1, OtherTaskStep, OwnStep
    <3>2. CASE AppTick
      BY <1>2, <2>1, <3>2, WatchdogTick
    <3>3. CASE AppSwitch
      BY <1>2, <2>1, <3>3, WatchdogSwitch
    <3>4. CASE UNCHANGED allvars
      <4>1. Watched(t)
        BY <1>2 DEF WatchdogInv
      <4>. QED  BY <3>4, <4>1 DEF allvars, vars, appvars, Watched, BeforeRefresh, JustRefreshed,
                ArmedInTime, AsleepInTime, WokenBeforeYield, SleepsInTime, ReturnsInTime,
                InSlice, InTurn, RoundLeft, RingDist
    <3>. QED  BY <1>2, <3>1, <3>2, <3>3, <3>4 DEF AppNext
  <2>4. N >= 2 => IdleEndsWithTick'
    BY <1>2, IdleSteps DEF WatchdogInv
  <2>5. \A t \in Watchdogs : t = 0
    BY <1>2 DEF WatchdogInv
  <2>. QED  BY <2>1, <2>2, <2>3, <2>4, <2>5 DEF WatchdogInv
<1>. QED  BY <1>1, <1>2, PTL DEF AppSpec

\* The IWDG is refreshed in time whatever the other tasks do, for any number of
\* them: it need only outlast the delay of the watchdog task and two rounds of
\* the others.  No step takes longer than a third of a tick, the watchdog task
\* is the first of a table and Idle the last, as AppTasks_Init creates them.
THEOREM WatchdogServed ==
  ASSUME SliceSteps >= 3, WatchdogFirst,
         Reload >= Interval["watchdog"] + 2 * N
  PROVE  AppSpec => []NoWatchdogReset
<1>1. WatchdogInv => NoWatchdogReset
  <2>. SUFFICES ASSUME WatchdogInv, NEW t \in Task, code[t] = "watchdog"
                PROVE  iwdg < Reload
    BY DEF NoWatchdogReset, Runs
  <2>1. t # Idle
    BY DEF WatchdogInv, AppTypeOK, WatchdogFirst
  <2>2. t \in Watchdogs /\ t \in Task \ {Idle} /\ Watched(t) /\ AppTypeOK /\ IInv
    BY <2>1 DEF Watchdogs, WatchdogInv
  <2>3. /\ N \in Nat /\ N >= 2 /\ Pause \in Nat /\ Pause >= 1
        /\ iwdg \in Nat /\ delay_ticks[t] \in Nat /\ Reload \in Nat
    BY <2>2, WatchdogNumbers, AppAssumption
  <2>4. RoundLeft(t) \in Nat
    BY <2>2, WatchdogNumbers
  <2>5. \A bound \in Nat : InTurn(t, bound) => iwdg <= bound
    BY <2>3, <2>4 DEF InTurn
  <2>6. /\ LatestRefresh \in Nat /\ Pause + N - 1 \in Nat /\ Pause + N <= LatestRefresh
        /\ N <= LatestRefresh /\ Pause <= LatestRefresh /\ Pause + N - 1 <= LatestRefresh
    BY <2>3 DEF LatestRefresh
  <2>7. iwdg <= LatestRefresh
    <3>1. pc[t] \in Place /\ line[t] \in {1, 2}
      BY <2>2 DEF IInv, TypeOK, Watched
    <3>2. CASE line[t] = 1
      BY <2>2, <2>3, <2>5, <2>6, <3>2 DEF Watched, BeforeRefresh, JustRefreshed
    <3>3. CASE line[t] = 2 /\ pc[t] = "code"
      BY <2>2, <2>3, <2>5, <2>6, <3>3 DEF Watched, ArmedInTime, JustRefreshed
    <3>4. CASE pc[t] = "armed"
      BY <2>2, <2>3, <2>5, <2>6, <3>4 DEF Watched, ArmedInTime, JustRefreshed
    <3>5. CASE pc[t] = "asleep"
      <4>1. CASE delay_ticks[t] > 0
        <5>1. iwdg + delay_ticks[t] <= Pause + N
          BY <2>2, <2>3, <3>5, <4>1 DEF Watched, AsleepInTime
        <5>. QED  BY <2>3, <2>6, <5>1
      <4>2. CASE ~(delay_ticks[t] > 0)
        <5>1. iwdg <= Pause + N - 1
          BY <2>2, <2>5, <2>6, <3>5, <4>2 DEF Watched, WokenBeforeYield
        <5>. QED  BY <2>3, <2>6, <5>1
      <4>. QED  BY <4>1, <4>2
    <3>6. CASE pc[t] = "return"
      <4>1. CASE delay_ticks[t] > 0
        <5>1. iwdg + delay_ticks[t] <= Pause + N
          BY <2>2, <2>3, <3>6, <4>1 DEF Watched, SleepsInTime
        <5>. QED  BY <2>3, <2>6, <5>1
      <4>2. CASE ~(delay_ticks[t] > 0)
        BY <2>2, <2>5, <2>6, <3>6, <4>2 DEF Watched, ReturnsInTime
      <4>. QED  BY <4>1, <4>2
    <3>. QED  BY <3>1, <3>2, <3>3, <3>4, <3>5, <3>6 DEF Place
  <2>8. LatestRefresh < Reload
    BY <2>3 DEF LatestRefresh, Pause
  <2>. QED  BY <2>3, <2>6, <2>7, <2>8
<1>. QED  BY <1>1, WatchdogSpecInv, PTL

=============================================================================
