------------------------- MODULE CooperativeScheduler -------------------------
(***************************************************************************)
(* The cooperative scheduler, Src/rtos/scheduler.c, with the millisecond   *)
(* counter of Src/drivers/delay.c.  One loop reads the time once, then     *)
(* runs each task whose interval has elapsed since the reading at which it *)
(* was last run.  The tick interrupts the loop and the tasks anywhere, and *)
(* the counter wraps: TickSpan stands for 2^32.                            *)
(***************************************************************************)
EXTENDS Integers, Sequences

CONSTANTS TickSpan,        \* the counter is taken modulo TickSpan
          MaxSchedTasks,   \* MAX_TASKS
          Intervals,       \* intervals that are asked for
          MaxRun           \* ticks that a task may take

\* A pass of the loop lasts at most MaxPass ticks: its tasks, and one tick for
\* the loop itself, which takes far less than a millisecond.
MaxPass == MaxSchedTasks * MaxRun + 1

\* Ticks after which a task has been run again.
Latest(interval) == interval + 2 * MaxPass

\* No task holds up the loop for as long as it takes the counter to wrap.
ASSUME SchedAssumption ==
  /\ {TickSpan, MaxSchedTasks, MaxRun} \subseteq Nat \ {0}
  /\ Intervals \subseteq Nat
  /\ \A interval \in Intervals : Latest(interval) < TickSpan

VARIABLES ms_ticks,
          sched_tasks,     \* interval_ms and last_run_ms of each task
          current_time,    \* what Scheduler_Run read at the top of its loop
          sched_i,         \* the task it looks at
          sched_pc,        \* where it stands
          run_ticks,       \* ticks in the task that runs
          overhead,        \* ticks in this pass but outside of tasks
          elapsed,         \* history: ticks since the reading each task last ran at
          drift,           \* history: ticks since the reading of this pass
          gap              \* history: ticks between the readings of the last two runs

sched_time == <<ms_ticks, run_ticks, overhead>>
schedvars == <<sched_time, sched_tasks, current_time, sched_i, sched_pc, elapsed, drift, gap>>

\* Scheduler_Init, at any time: the counter runs since SysTick_Init.
SchedInit == /\ ms_ticks \in 0 .. TickSpan - 1
             /\ sched_tasks = <<>> /\ elapsed = <<>>
             /\ current_time = 0 /\ sched_i = 1 /\ sched_pc = "setup"
             /\ run_ticks = 0 /\ overhead = 0 /\ drift = 0 /\ gap = 0

\* Scheduler_AddTask; a full table takes no more.
Scheduler_AddTask(interval) ==
  /\ sched_pc = "setup" /\ Len(sched_tasks) < MaxSchedTasks
  /\ sched_tasks' = Append(sched_tasks, [interval_ms |-> interval, last_run_ms |-> ms_ticks])
  /\ elapsed' = Append(elapsed, 0)
  /\ UNCHANGED <<sched_time, current_time, sched_i, sched_pc, drift, gap>>

\* The top of the loop of Scheduler_Run.
ReadTime == /\ \/ sched_pc = "setup" /\ sched_tasks # <<>>
               \/ sched_pc = "test" /\ sched_i > Len(sched_tasks)
            /\ current_time' = ms_ticks
            /\ sched_pc' = "test" /\ sched_i' = 1
            /\ overhead' = 0 /\ drift' = 0
            /\ UNCHANGED <<ms_ticks, run_ticks, sched_tasks, elapsed, gap>>

\* Seeded fault: the time of the next run is computed and compared, which fails
\* where the counter wraps.
DueByDeadline(task) == current_time >= (task.last_run_ms + task.interval_ms) % TickSpan

\* "(current_time - last_run_ms) >= interval_ms" in 32 bits.
Due(task) == (current_time - task.last_run_ms) % TickSpan >= task.interval_ms

SkipTask == /\ sched_pc = "test" /\ sched_i <= Len(sched_tasks)
            /\ ~Due(sched_tasks[sched_i])
            /\ sched_i' = sched_i + 1
            /\ UNCHANGED <<sched_time, sched_tasks, current_time, sched_pc, elapsed, drift, gap>>

StartTask == /\ sched_pc = "test" /\ sched_i <= Len(sched_tasks)
             /\ Due(sched_tasks[sched_i])
             /\ sched_pc' = "task"
             /\ sched_tasks' = [sched_tasks EXCEPT ![sched_i].last_run_ms = current_time]
             /\ gap' = elapsed[sched_i] - drift
             /\ elapsed' = [elapsed EXCEPT ![sched_i] = drift]
             /\ UNCHANGED <<sched_time, current_time, sched_i, drift>>

EndTask == /\ sched_pc = "task"
           /\ sched_pc' = "test" /\ sched_i' = sched_i + 1
           /\ run_ticks' = 0
           /\ UNCHANGED <<ms_ticks, overhead, sched_tasks, current_time, elapsed, drift, gap>>

\* SysTick_Handler, as often as the bounds on tasks and loop let it.
SchedTick == /\ IF sched_pc = "task"
                THEN run_ticks < MaxRun /\ run_ticks' = run_ticks + 1 /\ UNCHANGED overhead
                ELSE overhead < 1 /\ overhead' = overhead + 1 /\ UNCHANGED run_ticks
             /\ ms_ticks' = (ms_ticks + 1) % TickSpan
             /\ elapsed' = [t \in DOMAIN elapsed |-> elapsed[t] + 1]
             /\ drift' = drift + 1
             /\ UNCHANGED <<sched_tasks, current_time, sched_i, sched_pc, gap>>

SchedNext == \/ \E interval \in Intervals : Scheduler_AddTask(interval)
             \/ ReadTime \/ SkipTask \/ StartTask \/ EndTask \/ SchedTick

SchedSpec == SchedInit /\ [][SchedNext]_schedvars

-----------------------------------------------------------------------------
\* A task runs once per interval, counted between the readings of the time:
\* never before its interval is over, and no later than two passes after it,
\* also when the counter wraps and when other tasks use up time.
EveryInterval ==
  /\ sched_pc = "task" => gap \in sched_tasks[sched_i].interval_ms
                                  .. sched_tasks[sched_i].interval_ms + MaxPass
  /\ \A t \in DOMAIN elapsed : elapsed[t] <= Latest(sched_tasks[t].interval_ms)
=============================================================================
