----------------------------- MODULE SoftTimers -----------------------------
(***************************************************************************)
(* The software timers (Src/rtos/timer.c): an array of active timers,      *)
(* Timer_Start that appends, Timer_Stop that moves the last entry into the *)
(* hole, and Timer_SystemTickUpdate, which walks the array, calls the      *)
(* callbacks and re-reads the slot after each callback.  Start and Stop    *)
(* run with interrupts masked and the walk runs in the tick, so tasks act  *)
(* between walks and callbacks within one.  No source file calls           *)
(* Timer_SystemTickUpdate: the model says what it does once it is called.  *)
(***************************************************************************)
EXTENDS Integers, FiniteSets

CONSTANTS Timer,        \* the Timer_t objects
          NoTimer,      \* an array slot never written
          MaxTimers,    \* MAX_TIMERS
          Periods       \* the period_ticks given to Timer_Init

ASSUME TimersAssumption == /\ NoTimer \notin Timer
                           /\ MaxTimers \in Nat \ {0}
                           /\ Periods \subseteq Nat

TimerSlot == 0 .. MaxTimers - 1

VARIABLES active_timers, timer_count,       \* the array and its length
          active, remaining,                \* fields of each Timer_t
          period, auto_reload,              \* fields fixed by Timer_Init
          at,                               \* i in Timer_SystemTickUpdate
          stage,                            \* where the walk stands
          visited,                          \* history: timers this walk ticked
          meddled                           \* history: a callback of this walk
                                            \* has stopped a timer

timervars == <<active_timers, timer_count, active, remaining, period,
               auto_reload, at, stage, visited, meddled>>

TimersInit == /\ active_timers = [s \in TimerSlot |-> NoTimer]
              /\ timer_count = 0
              /\ active = [x \in Timer |-> FALSE]
              /\ period \in [Timer -> Periods]
              /\ remaining = period
              /\ auto_reload \in [Timer -> BOOLEAN]
              /\ at = 0
              /\ stage = "tasks"
              /\ visited = {}
              /\ meddled = FALSE

\* Timer_Start: nothing happens to a timer that is active, or with a full array.
Timer_Start(x) ==
  IF ~active[x] /\ timer_count < MaxTimers
  THEN /\ active_timers' = [active_timers EXCEPT ![timer_count] = x]
       /\ timer_count' = timer_count + 1
       /\ active' = [active EXCEPT ![x] = TRUE]
       /\ remaining' = [remaining EXCEPT ![x] = period[x]]
  ELSE UNCHANGED <<active_timers, timer_count, active, remaining>>

\* Seeded fault: entries are moved but the last one is not taken off the count.
StopKeepsCount(x) ==
  IF active[x]
  THEN \E s \in 0 .. timer_count - 1 :
         /\ active_timers[s] = x
         /\ active_timers' = [active_timers EXCEPT ![s] = active_timers[timer_count - 1]]
         /\ active' = [active EXCEPT ![x] = FALSE]
         /\ UNCHANGED timer_count
  ELSE UNCHANGED <<active_timers, timer_count, active>>

\* Timer_Stop: the last entry fills the hole; the slot behind keeps its value.
Timer_Stop(x) ==
  IF active[x]
  THEN \E s \in 0 .. timer_count - 1 :
         /\ active_timers[s] = x
         /\ active_timers' = [active_timers EXCEPT ![s] = active_timers[timer_count - 1]]
         /\ timer_count' = timer_count - 1
         /\ active' = [active EXCEPT ![x] = FALSE]
  ELSE UNCHANGED <<active_timers, timer_count, active>>

-----------------------------------------------------------------------------
(* Tasks call Start and Stop between walks.                                *)

TaskStarts(x) == /\ stage = "tasks"
                 /\ Timer_Start(x)
                 /\ UNCHANGED <<period, auto_reload, at, stage, visited, meddled>>

TaskStops(x) == /\ stage = "tasks"
                /\ Timer_Stop(x)
                /\ UNCHANGED <<remaining, period, auto_reload, at, stage, visited,
                               meddled>>

-----------------------------------------------------------------------------
(* Timer_SystemTickUpdate.                                                 *)

WalkBegin == /\ stage = "tasks"
             /\ stage' = "walk"
             /\ at' = 0
             /\ visited' = {}
             /\ meddled' = FALSE
             /\ UNCHANGED <<active_timers, timer_count, active, remaining, period,
                            auto_reload>>

WalkEnd == /\ stage = "walk"
           /\ at >= timer_count
           /\ stage' = "tasks"
           /\ UNCHANGED <<active_timers, timer_count, active, remaining, period,
                          auto_reload, at, visited, meddled>>

\* One entry: it counts down and, at zero, its callback is next.
WalkEntry ==
  LET x == active_timers[at]
      left == IF remaining[x] > 0 THEN remaining[x] - 1 ELSE 0
  IN  /\ stage = "walk"
      /\ at < timer_count
      /\ visited' = visited \cup {x}
      /\ remaining' = [remaining EXCEPT ![x] = left]
      /\ IF remaining[x] > 0 /\ left = 0
         THEN stage' = "callback" /\ at' = at
         ELSE stage' = "walk" /\ at' = at + 1
      /\ UNCHANGED <<active_timers, timer_count, active, period, auto_reload,
                     meddled>>

\* The callback may be absent or call nothing, or start or stop a timer.
Callback ==
  /\ stage = "callback"
  /\ stage' = "called"
  /\ \/ UNCHANGED <<active_timers, timer_count, active, remaining, meddled>>
     \/ /\ \E x \in Timer : Timer_Start(x)
        /\ UNCHANGED meddled
     \/ /\ \E x \in Timer : Timer_Stop(x)
        /\ meddled' = TRUE
        /\ UNCHANGED remaining
  /\ UNCHANGED <<period, auto_reload, at, visited>>

\* Seeded fault: the index moves on past the entry that filled the hole.
WalkNextSkips ==
  LET x == active_timers[at]
  IN  /\ stage = "called"
      /\ stage' = "walk"
      /\ at' = at + 1
      /\ IF auto_reload[x]
         THEN /\ remaining' = [remaining EXCEPT ![x] = period[x]]
              /\ UNCHANGED <<active_timers, timer_count, active>>
         ELSE /\ Timer_Stop(x)
              /\ UNCHANGED remaining
      /\ UNCHANGED <<period, auto_reload, visited, meddled>>

\* After the callback the slot is read again: reload it, or stop it and visit
\* the entry that was moved into the hole.
WalkNext ==
  LET x == active_timers[at]
  IN  /\ stage = "called"
      /\ stage' = "walk"
      /\ IF auto_reload[x]
         THEN /\ remaining' = [remaining EXCEPT ![x] = period[x]]
              /\ at' = at + 1
              /\ UNCHANGED <<active_timers, timer_count, active>>
         ELSE /\ Timer_Stop(x)
              /\ UNCHANGED <<at, remaining>>
      /\ UNCHANGED <<period, auto_reload, visited, meddled>>

TimersNext == \/ \E x \in Timer : TaskStarts(x) \/ TaskStops(x)
              \/ WalkBegin \/ WalkEnd \/ WalkEntry \/ Callback \/ WalkNext

TimersSpec == TimersInit /\ [][TimersNext]_timervars

-----------------------------------------------------------------------------
\* The array lists each active timer once and no other, whatever callbacks
\* start and stop while the array is being walked.
ListedOnce == \A x \in Timer :
  Cardinality({s \in 0 .. timer_count - 1 : active_timers[s] = x})
    = IF active[x] THEN 1 ELSE 0

\* A walk ticks every active timer, and takes out only timers that have run
\* out: removing one from the middle of the array makes the walk skip no other,
\* as long as callbacks stop none.
WalkExact ==
  [][~meddled =>
       /\ stage = "walk" /\ stage' = "tasks" => \A x \in Timer : active[x] => x \in visited
       /\ stage = "called" => \A x \in Timer : active[x] /\ ~active'[x] => remaining[x] = 0
    ]_timervars
=============================================================================
