------------------------------ MODULE MCTasks -------------------------------
(***************************************************************************)
(* Model checking the tasks: the application's on the kernel, or arbitrary *)
(* threads that use one service of the RTOS.  One behaviour exercises one  *)
(* of these subjects; they share no state, and each service uses the       *)
(* processor in the same way.                                              *)
(***************************************************************************)
EXTENDS MCAppTasks,
        Mutex, Semaphore, Queue, EventGroup, Heap, SoftTimers, CooperativeScheduler

VARIABLE subject   \* what this behaviour exercises

Blocking == {"mutex", "semaphore", "queue", "events", "heap"}
Subject == Blocking \cup {"timers", "scheduler", "application"}

\* A waiter for one bit that consumes it, one for both bits, one that looks.
MCWaitArgs == {[bits |-> {1}, all |-> FALSE, clear |-> TRUE],
               [bits |-> {1, 2}, all |-> TRUE, clear |-> TRUE],
               [bits |-> {1, 2}, all |-> FALSE, clear |-> FALSE]}

\* What is not exercised starts from one of its initial states.
TasksInit ==
  /\ subject \in Subject
  /\ CpuInit /\ MutexInit /\ SemInit /\ QueueInit /\ HeapInit
  /\ EventInit /\ TimersInit /\ SchedInit /\ AppInit
  /\ subject \notin Blocking => on_cpu = CHOOSE t \in Thread : TRUE
  /\ subject # "events" => \A t, u \in Thread : request[t] = request[u]
  /\ subject # "events" => \A t \in Thread : request[t].clear /\ request[t].all
  /\ subject # "timers" => \A x \in Timer : period[x] = 1 /\ auto_reload[x]
  /\ subject # "scheduler" => ms_ticks = 0
  /\ subject # "application" => code = DataPath /\ ran = 0

Mutexes == /\ subject = "mutex" /\ MutexNext
           /\ UNCHANGED <<subject, allvars, semvars, queuevars, eventvars, heapvars,
                          timervars, schedvars>>
Semaphores == /\ subject = "semaphore" /\ SemNext
              /\ UNCHANGED <<subject, allvars, mutexvars, queuevars, eventvars, heapvars,
                             timervars, schedvars>>
Queues == /\ subject = "queue" /\ QueueNext
          /\ UNCHANGED <<subject, allvars, mutexvars, semvars, eventvars, heapvars,
                         timervars, schedvars>>
Events == /\ subject = "events" /\ EventNext
          /\ UNCHANGED <<subject, allvars, mutexvars, semvars, queuevars, heapvars,
                         timervars, schedvars>>
Allocation == /\ subject = "heap" /\ HeapNext
              /\ UNCHANGED <<subject, allvars, mutexvars, semvars, queuevars, eventvars,
                             timervars, schedvars>>
Timers == /\ subject = "timers" /\ TimersNext
          /\ UNCHANGED <<subject, allvars, cpuvars, mutexvars, semvars, queuevars,
                         eventvars, heapvars, schedvars>>
Cooperative == /\ subject = "scheduler" /\ SchedNext
               /\ UNCHANGED <<subject, allvars, cpuvars, mutexvars, semvars, queuevars,
                              eventvars, heapvars, timervars>>
Application == /\ subject = "application" /\ AppNext
               /\ UNCHANGED <<subject, cpuvars, mutexvars, semvars, queuevars, eventvars,
                              heapvars, timervars, schedvars>>

TasksNext == Mutexes \/ Semaphores \/ Queues \/ Events \/ Allocation \/ Timers
             \/ Cooperative \/ Application

TasksSpec ==
  TasksInit /\ [][TasksNext]_<<subject, allvars, cpuvars, mutexvars, semvars, queuevars,
                               eventvars, heapvars, timervars, schedvars>>
=============================================================================
