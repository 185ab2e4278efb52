---------------------------- MODULE TimerProofs -----------------------------
(***************************************************************************)
(* What the two parts that keep time for tasks promise: the software       *)
(* timers, for any set of timers, periods and length of the array, and the *)
(* cooperative scheduler, for any table, intervals and span of the counter *)
(* that the assumption on its constants allows.                            *)
(***************************************************************************)
EXTENDS SoftTimers, CooperativeScheduler, FiniteSetTheorems, TLAPS

-----------------------------------------------------------------------------
(* The software timers.                                                    *)
(*                                                                         *)
(* While no callback stops a timer, the entries in front of the index are  *)
(* timers this walk has ticked, and the entry at the index is, from the    *)
(* call of its callback until the slot is read again, the timer that ran   *)
(* out.  A callback that stops a timer breaks both, which is why the code  *)
(* reads the slot again; the array itself stays in order even then.        *)

InUse == 0 .. timer_count - 1

TimersTypeOK == /\ active_timers \in [TimerSlot -> Timer \cup {NoTimer}]
                /\ timer_count \in 0 .. MaxTimers
                /\ active \in [Timer -> BOOLEAN]
                /\ remaining \in [Timer -> Nat]
                /\ period \in [Timer -> Nat]
                /\ auto_reload \in [Timer -> BOOLEAN]
                /\ at \in Nat
                /\ stage \in {"tasks", "walk", "callback", "called"}
                /\ visited \subseteq Timer
                /\ meddled \in BOOLEAN

\* The entries in use are active timers, each listed once.
Listed == /\ \A s \in InUse : active_timers[s] \in Timer /\ active[active_timers[s]]
          /\ \A s, r \in InUse : active_timers[s] = active_timers[r] => s = r
          /\ \A x \in Timer : active[x] => \E s \in InUse : active_timers[s] = x

\* The slot that is read again after a callback has been written.
SlotWritten == stage \in {"callback", "called"} =>
                 at \in TimerSlot /\ active_timers[at] \in Timer

\* Without meddling, what is in front of the index has been ticked.
FrontTicked == stage # "tasks" /\ ~meddled =>
                 \A s \in InUse : s < at => active_timers[s] \in visited

\* Without meddling, the entry whose callback runs is in use and has run out.
EntryRanOut == stage \in {"callback", "called"} /\ ~meddled =>
                 /\ at \in InUse
                 /\ active_timers[at] \in visited
                 /\ remaining[active_timers[at]] = 0

TimersInv == TimersTypeOK /\ Listed /\ SlotWritten /\ FrontTicked /\ EntryRanOut

\* The initial state satisfies the inductive invariant.
LEMMA TimersInitInv == TimersInit => TimersInv
<1>. SUFFICES ASSUME TimersInit PROVE TimersInv
  OBVIOUS
<1>1. TimersTypeOK
  <2>1. period \in [Timer -> Nat]
    BY TimersAssumption DEF TimersInit
  <2>2. active_timers \in [TimerSlot -> Timer \cup {NoTimer}]
    BY DEF TimersInit
  <2>3. active \in [Timer -> BOOLEAN]
    BY DEF TimersInit
  <2>4. timer_count \in 0 .. MaxTimers /\ at \in Nat
    BY TimersAssumption DEF TimersInit
  <2>. QED  BY <2>1, <2>2, <2>3, <2>4 DEF TimersInit, TimersTypeOK
<1>2. InUse = {}
  BY DEF TimersInit, InUse
<1>. QED  BY <1>1, <1>2 DEF TimersInit, TimersInv, Listed, SlotWritten, FrontTicked,
                            EntryRanOut

\* Timer_Start keeps the array in order; what was in use stays where it was,
\* and only the timer that is started, which was not active, counts anew.
LEMMA StartKeepsListed ==
  ASSUME TimersTypeOK, Listed, NEW x \in Timer, Timer_Start(x)
  PROVE  /\ active_timers' \in [TimerSlot -> Timer \cup {NoTimer}]
         /\ timer_count' \in 0 .. MaxTimers
         /\ active' \in [Timer -> BOOLEAN]
         /\ remaining' \in [Timer -> Nat]
         /\ Listed'
         /\ timer_count' >= timer_count
         /\ \A s \in TimerSlot : active_timers'[s] # active_timers[s] =>
                                   s = timer_count /\ timer_count' = timer_count + 1
         /\ \A y \in Timer : active[y] => active'[y] /\ remaining'[y] = remaining[y]
         /\ \A s \in TimerSlot : active_timers[s] \in Timer => active_timers'[s] \in Timer
<1>. USE TimersAssumption DEF TimersTypeOK, TimerSlot, InUse
<1>1. CASE ~active[x] /\ timer_count < MaxTimers
  <2>1. /\ active_timers' = [active_timers EXCEPT ![timer_count] = x]
        /\ timer_count' = timer_count + 1
        /\ active' = [active EXCEPT ![x] = TRUE]
        /\ remaining' = [remaining EXCEPT ![x] = period[x]]
    BY <1>1 DEF Timer_Start
  <2>2. /\ active_timers' \in [TimerSlot -> Timer \cup {NoTimer}]
        /\ timer_count' \in 0 .. MaxTimers
        /\ active' \in [Timer -> BOOLEAN]
        /\ remaining' \in [Timer -> Nat]
    BY <1>1, <2>1
  <2>3. InUse' = InUse \cup {timer_count} /\ timer_count \notin InUse
    BY <1>1, <2>1
  <2>4. /\ active_timers'[timer_count] = x
        /\ \A s \in InUse : active_timers'[s] = active_timers[s] /\ active_timers[s] # x
    BY <1>1, <2>1 DEF Listed
  <2>5. \A s \in InUse' : active_timers'[s] \in Timer /\ active'[active_timers'[s]]
    BY <2>1, <2>3, <2>4 DEF Listed
  <2>6. \A s, r \in InUse' : active_timers'[s] = active_timers'[r] => s = r
    <3>. HIDE TimersAssumption DEF TimersTypeOK, TimerSlot, InUse
    <3>1. ASSUME NEW s \in InUse', NEW r \in InUse', active_timers'[s] = active_timers'[r]
          PROVE  s = r
      <4>1. CASE s \in InUse /\ r \in InUse
        BY <2>4, <3>1, <4>1 DEF Listed
      <4>2. CASE s = timer_count \/ r = timer_count
        BY <2>3, <2>4, <3>1, <4>2
      <4>. QED  BY <2>3, <4>1, <4>2
    <3>. QED  BY <3>1
  <2>7. ASSUME NEW y \in Timer, active'[y]
        PROVE  \E s \in InUse' : active_timers'[s] = y
    <3>1. y = x \/ active[y]
      BY <2>1, <2>7
    <3>. HIDE TimersAssumption DEF TimersTypeOK, TimerSlot, InUse
    <3>2. CASE y = x
      BY <2>3, <2>4, <3>2
    <3>3. CASE active[y]
      <4>1. PICK s \in InUse : active_timers[s] = y
        BY <3>3 DEF Listed
      <4>2. s \in InUse' /\ active_timers'[s] = y
        BY <2>3, <2>4, <4>1
      <4>. QED  BY <4>2
    <3>. QED  BY <3>1, <3>2, <3>3
  <2>8. Listed'
    BY <2>5, <2>6, <2>7 DEF Listed
  <2>9. \A s \in TimerSlot : s # timer_count => active_timers'[s] = active_timers[s]
    BY <2>1
  <2>10. \A y \in Timer : active[y] => active'[y] /\ remaining'[y] = remaining[y]
    BY <1>1, <2>1
  <2>. QED  BY <2>1, <2>2, <2>4, <2>8, <2>9, <2>10
<1>2. CASE ~(~active[x] /\ timer_count < MaxTimers)
  <2>1. UNCHANGED <<active_timers, timer_count, active, remaining>>
    BY <1>2 DEF Timer_Start
  <2>2. Listed'
    BY <2>1 DEF Listed
  <2>3. timer_count' >= timer_count
    BY <2>1
  <2>. QED  BY <2>1, <2>2, <2>3
<1>. QED  BY <1>1, <1>2

\* Timer_Stop keeps the array in order: the hole of an active timer, and no
\* other slot, is filled with the last entry, and no slot gets unwritten.
LEMMA StopKeepsListed ==
  ASSUME TimersTypeOK, Listed, NEW x \in Timer, Timer_Stop(x)
  PROVE  /\ active_timers' \in [TimerSlot -> Timer \cup {NoTimer}]
         /\ timer_count' \in 0 .. MaxTimers
         /\ active' \in [Timer -> BOOLEAN]
         /\ Listed'
         /\ timer_count' <= timer_count
         /\ \A s \in TimerSlot : active_timers'[s] # active_timers[s] =>
                                   s \in InUse /\ active_timers[s] = x
         /\ \A y \in Timer : y # x => active'[y] = active[y]
         /\ \A s \in TimerSlot : active_timers[s] \in Timer => active_timers'[s] \in Timer
<1>. USE TimersAssumption DEF TimersTypeOK, TimerSlot, InUse
<1>1. CASE active[x]
  <2>1. PICK h \in InUse :
          /\ active_timers[h] = x
          /\ active_timers' = [active_timers EXCEPT ![h] = active_timers[timer_count - 1]]
          /\ timer_count' = timer_count - 1
          /\ active' = [active EXCEPT ![x] = FALSE]
    BY <1>1 DEF Timer_Stop
  <2>2. timer_count - 1 \in InUse /\ \A s \in InUse : s \in TimerSlot
    BY <2>1
  <2>3. active_timers[timer_count - 1] \in Timer
    BY <2>2 DEF Listed
  <2>4. /\ active_timers' \in [TimerSlot -> Timer \cup {NoTimer}]
        /\ timer_count' \in 0 .. MaxTimers
        /\ active' \in [Timer -> BOOLEAN]
    BY <2>1, <2>2, <2>3
  <2>5. /\ \A s \in InUse' : s \in InUse /\ s # timer_count - 1
        /\ \A s \in InUse : s # timer_count - 1 => s \in InUse'
    BY <2>1
  <2>6. /\ active_timers'[h] = active_timers[timer_count - 1]
        /\ \A s \in TimerSlot : s # h => active_timers'[s] = active_timers[s]
    BY <2>1, <2>2
  <2>7. \A s \in InUse' : active_timers'[s] \in Timer /\ active_timers'[s] # x
    <3>1. ASSUME NEW s \in InUse', s = h
          PROVE  active_timers'[s] \in Timer /\ active_timers'[s] # x
      BY <2>1, <2>2, <2>3, <2>5, <2>6, <3>1 DEF Listed
    <3>2. ASSUME NEW s \in InUse', s # h
          PROVE  active_timers'[s] \in Timer /\ active_timers'[s] # x
      BY <2>1, <2>2, <2>5, <2>6, <3>2 DEF Listed
    <3>. QED  BY <3>1, <3>2
  <2>8. \A s \in InUse' : active[active_timers'[s]]
    <3>1. ASSUME NEW s \in InUse'
          PROVE  active[active_timers'[s]]
      BY <2>2, <2>5, <2>6 DEF Listed
    <3>. QED  BY <3>1
  <2>9. \A s \in InUse' : active'[active_timers'[s]]
    BY <2>1, <2>7, <2>8
  <2>10. \A s, r \in InUse' : active_timers'[s] = active_timers'[r] => s = r
    <3>1. ASSUME NEW s \in InUse', NEW r \in InUse', active_timers'[s] = active_timers'[r]
          PROVE  s = r
      <4>1. /\ s \in InUse /\ s \in TimerSlot /\ s # timer_count - 1
            /\ r \in InUse /\ r \in TimerSlot /\ r # timer_count - 1
        BY <2>2, <2>5
      <4>5. timer_count - 1 \in InUse
        BY <2>2
      <4>. HIDE TimersAssumption DEF TimersTypeOK, TimerSlot, InUse
      <4>2. CASE s = h
        BY <2>2, <2>6, <3>1, <4>1, <4>2, <4>5 DEF Listed
      <4>3. CASE r = h
        BY <2>2, <2>6, <3>1, <4>1, <4>3, <4>5 DEF Listed
      <4>4. CASE s # h /\ r # h
        BY <2>6, <3>1, <4>1, <4>4 DEF Listed
      <4>. QED  BY <4>2, <4>3, <4>4
    <3>. QED  BY <3>1
  <2>11. ASSUME NEW y \in Timer, active'[y]
         PROVE  \E s \in InUse' : active_timers'[s] = y
    <3>1. active[y] /\ y # x
      BY <2>1, <2>11
    <3>2. PICK s \in InUse : active_timers[s] = y
      BY <3>1 DEF Listed
    <3>3. CASE s = timer_count - 1
      BY <2>1, <2>2, <2>5, <2>6, <3>1, <3>2, <3>3
    <3>4. CASE s # timer_count - 1
      BY <2>1, <2>2, <2>5, <2>6, <3>1, <3>2, <3>4
    <3>. QED  BY <3>3, <3>4
  <2>12. Listed'
    BY <2>7, <2>9, <2>10, <2>11 DEF Listed
  <2>13. \A s \in TimerSlot : active_timers'[s] # active_timers[s] =>
                                s \in InUse /\ active_timers[s] = x
    BY <2>1, <2>6
  <2>14. \A s \in TimerSlot : active_timers[s] \in Timer => active_timers'[s] \in Timer
    BY <2>3, <2>6
  <2>15. timer_count' <= timer_count /\ \A y \in Timer : y # x => active'[y] = active[y]
    BY <2>1
  <2>. QED  BY <2>4, <2>12, <2>13, <2>14, <2>15
<1>2. CASE ~active[x]
  BY <1>2 DEF Timer_Stop, Listed
<1>. QED  BY <1>1, <1>2

\* A task that starts or stops a timer between two walks keeps the invariant.
LEMMA TaskStepInv ==
  ASSUME TimersInv, NEW x \in Timer, TaskStarts(x) \/ TaskStops(x)
  PROVE  TimersInv'
<1>. USE DEF TimersInv
<1>1. CASE TaskStarts(x)
  <2>1. stage = "tasks" /\ Timer_Start(x)
        /\ UNCHANGED <<period, auto_reload, at, stage, visited, meddled>>
    BY <1>1 DEF TaskStarts
  <2>2. TimersTypeOK' /\ Listed'
    BY <2>1, StartKeepsListed DEF TimersTypeOK
  <2>. QED  BY <2>1, <2>2 DEF SlotWritten, FrontTicked, EntryRanOut
<1>2. CASE TaskStops(x)
  <2>1. stage = "tasks" /\ Timer_Stop(x)
        /\ UNCHANGED <<remaining, period, auto_reload, at, stage, visited, meddled>>
    BY <1>2 DEF TaskStops
  <2>2. TimersTypeOK' /\ Listed'
    BY <2>1, StopKeepsListed DEF TimersTypeOK
  <2>. QED  BY <2>1, <2>2 DEF SlotWritten, FrontTicked, EntryRanOut
<1>. QED  BY <1>1, <1>2

\* The steps of the walk that touch no entry but the one at the index.
LEMMA WalkStepInv ==
  ASSUME TimersInv, WalkBegin \/ WalkEnd \/ WalkEntry
  PROVE  TimersInv'
<1>. USE DEF TimersInv
<1>1. CASE WalkBegin
  <2>1. TimersTypeOK' /\ Listed'
    BY <1>1 DEF WalkBegin, TimersTypeOK, Listed, InUse
  <2>2. SlotWritten' /\ FrontTicked' /\ EntryRanOut'
    BY <1>1 DEF WalkBegin, SlotWritten, FrontTicked, EntryRanOut, InUse
  <2>. QED  BY <2>1, <2>2
<1>2. CASE WalkEnd
  BY <1>2 DEF WalkEnd, TimersTypeOK, Listed, InUse, SlotWritten, FrontTicked, EntryRanOut
<1>3. CASE WalkEntry
  <2>. DEFINE x == active_timers[at]
              left == IF remaining[x] > 0 THEN remaining[x] - 1 ELSE 0
  <2>1. /\ stage = "walk" /\ at < timer_count
        /\ visited' = visited \cup {x}
        /\ remaining' = [remaining EXCEPT ![x] = left]
        /\ \/ stage' = "callback" /\ at' = at /\ left = 0
           \/ stage' = "walk" /\ at' = at + 1
        /\ UNCHANGED <<active_timers, timer_count, active, period, auto_reload, meddled>>
    BY <1>3 DEF WalkEntry
  <2>2. at \in InUse /\ at \in TimerSlot /\ x \in Timer
    BY <2>1, TimersAssumption DEF TimersTypeOK, Listed, InUse, TimerSlot
  <2>3. left \in Nat
    BY <2>2 DEF TimersTypeOK
  <2>4. TimersTypeOK'
    <3>. HIDE DEF x, left
    <3>. QED  BY <2>1, <2>2, <2>3 DEF TimersTypeOK
  <2>5. Listed'
    BY <2>1 DEF Listed, InUse
  <2>6. SlotWritten'
    BY <2>1, <2>2 DEF SlotWritten
  <2>7. FrontTicked'
    <3>1. ASSUME ~meddled, NEW s \in InUse, s < at'
          PROVE  active_timers[s] \in visited'
      <4>1. s < at \/ s = at
        BY <2>1, <2>2, <3>1 DEF TimersTypeOK, InUse
      <4>. QED  BY <2>1, <3>1, <4>1 DEF FrontTicked
    <3>. QED  BY <2>1, <3>1 DEF FrontTicked, InUse
  <2>8. EntryRanOut'
    <3>1. remaining'[x] = left
      BY <2>1, <2>2 DEF TimersTypeOK
    <3>. QED  BY <2>1, <2>2, <3>1 DEF EntryRanOut, InUse
  <2>. QED  BY <2>4, <2>5, <2>6, <2>7, <2>8
<1>. QED  BY <1>1, <1>2, <1>3

\* A callback keeps the invariant, whichever timer it starts or stops, its own
\* included.
LEMMA CallbackInv ==
  ASSUME TimersInv, Callback
  PROVE  TimersInv'
<1>. USE DEF TimersInv
<1>1. /\ stage = "callback" /\ stage' = "called"
      /\ UNCHANGED <<period, auto_reload, at, visited>>
  BY DEF Callback
<1>2. CASE UNCHANGED <<active_timers, timer_count, active, remaining, meddled>>
  <2>1. TimersTypeOK' /\ Listed'
    BY <1>1, <1>2 DEF TimersTypeOK, Listed, InUse
  <2>2. SlotWritten' /\ FrontTicked' /\ EntryRanOut'
    BY <1>1, <1>2 DEF InUse, SlotWritten, FrontTicked, EntryRanOut
  <2>. QED  BY <2>1, <2>2
<1>3. ASSUME NEW x \in Timer, Timer_Start(x), UNCHANGED meddled
      PROVE  TimersInv'
  <2>1. TimersTypeOK' /\ Listed' /\ SlotWritten'
    BY <1>1, <1>3, StartKeepsListed DEF TimersTypeOK, SlotWritten
  <2>2. at \in TimerSlot /\ active_timers[at] \in Timer
    BY <1>1 DEF SlotWritten
  <2>3. ASSUME NEW s \in TimerSlot, s < timer_count
        PROVE  /\ s \in InUse /\ s \in InUse'
               /\ active_timers'[s] = active_timers[s]
    BY <1>3, <2>3, StartKeepsListed DEF TimersTypeOK, InUse, TimerSlot
  <2>4. ASSUME ~meddled
        PROVE  /\ at < timer_count
               /\ active_timers[at] \in visited
               /\ remaining[active_timers[at]] = 0
               /\ active[active_timers[at]]
    BY <1>1, <2>2, <2>4 DEF EntryRanOut, Listed, InUse, TimersTypeOK
  <2>5. EntryRanOut'
    BY <1>1, <1>3, <2>2, <2>3, <2>4, StartKeepsListed DEF EntryRanOut
  <2>6. FrontTicked'
    <3>1. ASSUME ~meddled, NEW s \in InUse', s < at
          PROVE  active_timers'[s] \in visited
      <4>1. s \in TimerSlot /\ s < timer_count
        BY <2>1, <2>2, <2>4, <3>1, TimersAssumption DEF InUse, TimerSlot, TimersTypeOK
      <4>2. s \in InUse /\ active_timers'[s] = active_timers[s]
        BY <2>3, <4>1
      <4>3. \A r \in InUse : r < at => active_timers[r] \in visited
        BY <1>1, <3>1 DEF FrontTicked
      <4>. QED  BY <3>1, <4>2, <4>3
    <3>. QED  BY <1>1, <1>3, <3>1 DEF FrontTicked
  <2>. QED  BY <2>1, <2>5, <2>6
<1>4. ASSUME NEW x \in Timer, Timer_Stop(x), meddled' = TRUE, UNCHANGED remaining
      PROVE  TimersInv'
  <2>1. TimersTypeOK' /\ Listed' /\ SlotWritten'
    BY <1>1, <1>4, StopKeepsListed DEF TimersTypeOK, SlotWritten
  <2>. QED  BY <1>4, <2>1 DEF FrontTicked, EntryRanOut
<1>. QED  BY <1>2, <1>3, <1>4 DEF Callback

\* Reading the slot again, reloading or removing what is there, keeps it.
LEMMA WalkNextInv ==
  ASSUME TimersInv, WalkNext
  PROVE  TimersInv'
<1>. USE DEF TimersInv
<1>. DEFINE x == active_timers[at]
<1>1. /\ stage = "called" /\ stage' = "walk"
      /\ UNCHANGED <<period, auto_reload, visited, meddled>>
  BY DEF WalkNext
<1>2. at \in TimerSlot /\ x \in Timer
  BY <1>1 DEF SlotWritten
<1>3. SlotWritten' /\ EntryRanOut'
  BY <1>1 DEF SlotWritten, EntryRanOut
<1>4. CASE auto_reload[x]
  <2>1. /\ remaining' = [remaining EXCEPT ![x] = period[x]]
        /\ at' = at + 1
        /\ UNCHANGED <<active_timers, timer_count, active>>
    BY <1>4 DEF WalkNext
  <2>2. TimersTypeOK'
    <3>. HIDE DEF x
    <3>. QED  BY <1>1, <1>2, <2>1 DEF TimersTypeOK
  <2>3. Listed'
    BY <2>1 DEF Listed, InUse
  <2>4. FrontTicked'
    <3>1. ASSUME ~meddled, NEW s \in InUse, s < at'
          PROVE  active_timers[s] \in visited
      <4>1. s < at \/ s = at
        BY <2>1, <3>1 DEF TimersTypeOK, InUse
      <4>. QED  BY <1>1, <3>1, <4>1 DEF FrontTicked, EntryRanOut
    <3>. QED  BY <1>1, <2>1, <3>1 DEF FrontTicked, InUse
  <2>. QED  BY <1>3, <2>2, <2>3, <2>4
<1>5. CASE ~auto_reload[x]
  <2>1. Timer_Stop(x) /\ UNCHANGED <<at, remaining>>
    BY <1>5 DEF WalkNext
  <2>2. TimersTypeOK' /\ Listed'
    BY <1>1, <1>2, <2>1, StopKeepsListed DEF TimersTypeOK
  <2>3. FrontTicked'
    <3>1. ASSUME ~meddled, NEW s \in InUse', s < at
          PROVE  active_timers'[s] \in visited
      <4>1. s \in InUse /\ s \in TimerSlot /\ at \in InUse
        <5>1. timer_count' <= timer_count /\ timer_count' \in 0 .. MaxTimers
          BY <1>2, <2>1, StopKeepsListed
        <5>. QED  BY <1>1, <3>1, <5>1, TimersAssumption
                  DEF EntryRanOut, InUse, TimerSlot, TimersTypeOK
      <4>2. active_timers'[s] = active_timers[s]
        <5>1. active_timers[s] # x
          BY <3>1, <4>1 DEF Listed, InUse, TimersTypeOK
        <5>. QED  BY <1>2, <2>1, <4>1, <5>1, StopKeepsListed
      <4>. QED  BY <1>1, <3>1, <4>1, <4>2 DEF FrontTicked
    <3>. QED  BY <1>1, <2>1, <3>1 DEF FrontTicked
  <2>. QED  BY <1>3, <2>2, <2>3
<1>. QED  BY <1>4, <1>5

\* The inductive invariant holds throughout.
LEMMA TimersSpecInv == TimersSpec => []TimersInv
<1>1. ASSUME TimersInv, [TimersNext]_timervars
      PROVE  TimersInv'
  <2>1. CASE TimersNext
    BY <1>1, <2>1, TaskStepInv, WalkStepInv, CallbackInv, WalkNextInv DEF TimersNext
  <2>2. CASE UNCHANGED timervars
    BY <1>1, <2>2 DEF TimersInv, TimersTypeOK, Listed, InUse, SlotWritten, FrontTicked,
                      EntryRanOut, timervars
  <2>. QED  BY <1>1, <2>1, <2>2
<1>. QED  BY <1>1, TimersInitInv, PTL DEF TimersSpec

-----------------------------------------------------------------------------
\* The array lists each active timer once and no other, also in the middle of a
\* walk and after callbacks that stop timers.
THEOREM TimersListedOnce == TimersSpec => []ListedOnce
<1>1. ASSUME TimersInv
      PROVE  ListedOnce
  <2>1. ASSUME NEW x \in Timer
        PROVE  Cardinality({s \in 0 .. timer_count - 1 : active_timers[s] = x})
                 = IF active[x] THEN 1 ELSE 0
    <3>. DEFINE S == {s \in 0 .. timer_count - 1 : active_timers[s] = x}
    <3>1. CASE active[x]
      <4>1. PICK h \in InUse : active_timers[h] = x
        BY <1>1, <3>1 DEF TimersInv, Listed
      <4>2. S = {h}
        BY <1>1, <4>1 DEF TimersInv, Listed, InUse
      <4>. QED  BY <3>1, <4>2, FS_Singleton
    <3>2. CASE ~active[x]
      <4>1. S = {}
        BY <1>1, <3>2 DEF TimersInv, Listed, InUse
      <4>. QED  BY <3>2, <4>1, FS_EmptySet
    <3>. QED  BY <3>1, <3>2
  <2>. QED  BY <2>1 DEF ListedOnce
<1>. QED  BY <1>1, TimersSpecInv, PTL

\* A walk in which no callback stops a timer ticks every active timer, and takes
\* out only timers that have run out.
THEOREM TimersWalkExact == TimersSpec => WalkExact
<1>. DEFINE Exact ==
       ~meddled =>
         /\ stage = "walk" /\ stage' = "tasks" => \A x \in Timer : active[x] => x \in visited
         /\ stage = "called" => \A x \in Timer : active[x] /\ ~active'[x] => remaining[x] = 0
<1>1. ASSUME TimersInv, TimersNext, ~meddled, stage = "walk", stage' = "tasks",
             NEW x \in Timer, active[x]
      PROVE  x \in visited
  <2>1. WalkEnd
    BY <1>1 DEF TimersNext, TaskStarts, TaskStops, WalkBegin, WalkEntry, Callback, WalkNext
  <2>2. PICK s \in InUse : active_timers[s] = x
    BY <1>1 DEF TimersInv, Listed
  <2>3. s < at
    BY <1>1, <2>1 DEF WalkEnd, InUse, TimersInv, TimersTypeOK
  <2>. QED  BY <1>1, <2>2, <2>3 DEF TimersInv, FrontTicked
<1>2. ASSUME TimersInv, TimersNext, ~meddled, stage = "called",
             NEW x \in Timer, active[x], ~active'[x]
      PROVE  remaining[x] = 0
  <2>1. WalkNext
    BY <1>2 DEF TimersNext, TaskStarts, TaskStops, WalkBegin, WalkEntry, WalkEnd, Callback
  <2>2. at \in InUse /\ active_timers[at] \in Timer /\ remaining[active_timers[at]] = 0
    BY <1>2 DEF TimersInv, EntryRanOut, SlotWritten
  <2>3. CASE auto_reload[active_timers[at]]
    BY <1>2, <2>1, <2>3 DEF WalkNext
  <2>4. CASE ~auto_reload[active_timers[at]]
    BY <1>2, <2>1, <2>2, <2>4, StopKeepsListed DEF WalkNext, TimersInv
  <2>. QED  BY <2>3, <2>4
<1>3. TimersInv /\ [TimersNext]_timervars => [Exact]_timervars
  BY <1>1, <1>2
<1>. QED  BY <1>3, TimersSpecInv, PTL DEF TimersSpec, WalkExact
-----------------------------------------------------------------------------
(* The cooperative scheduler.                                              *)
(*                                                                         *)
(* The histories count true time; what the code computes from the wrapped  *)
(* counter agrees with them because no count reaches the span.  A pass is  *)
(* short, since its length is bounded by the tasks it has been past; so a  *)
(* task examined in a pass has waited for less than its interval and that  *)
(* pass, and one not yet examined for no more than a pass beyond that.     *)

Counter == 0 .. TickSpan - 1
TableIndex == 1 .. Len(sched_tasks)

\* The time that the tasks in front of the i-th may take.
Work(i) == (i - 1) * MaxRun

Examined(t) == t < sched_i \/ (t = sched_i /\ sched_pc = "task")

SchedTypeOK == /\ ms_ticks \in Counter /\ current_time \in Counter
               /\ sched_tasks \in Seq([interval_ms : Intervals, last_run_ms : Counter])
               /\ elapsed \in Seq(Nat) /\ Len(elapsed) = Len(sched_tasks)
               /\ Len(sched_tasks) <= MaxSchedTasks
               /\ sched_i \in Nat \ {0}
               /\ sched_pc \in {"setup", "test", "task"}
               /\ run_ticks \in 0 .. MaxRun /\ overhead \in 0 .. 1
               /\ drift \in Nat /\ gap \in Int

\* Where the loop stands in the table.
PlaceInTable == /\ sched_pc = "setup" => sched_i = 1
                /\ sched_pc = "test" => sched_i <= Len(sched_tasks) + 1 /\ sched_tasks # <<>>
                /\ sched_pc = "task" => sched_i <= Len(sched_tasks)
                /\ sched_pc # "task" => run_ticks = 0

\* How long the pass has taken.
PassShort == drift <= overhead + Work(sched_i) + run_ticks

\* Each reading lies as many ticks back on the counter as the history says.
ReadingsAgree ==
  /\ \A t \in TableIndex :
       sched_tasks[t].last_run_ms + elapsed[t] \in {ms_ticks, ms_ticks + TickSpan}
  /\ sched_pc # "setup" => current_time + drift \in {ms_ticks, ms_ticks + TickSpan}

\* How long each task has waited at the time the pass began.
Waited ==
  \A t \in TableIndex :
    IF sched_pc = "setup"
    THEN elapsed[t] <= overhead
    ELSE /\ elapsed[t] >= drift
         /\ elapsed[t] - drift <= sched_tasks[t].interval_ms
                                    + (IF Examined(t) THEN 0 ELSE MaxPass)

GapRight == sched_pc = "task" => gap \in sched_tasks[sched_i].interval_ms
                                         .. sched_tasks[sched_i].interval_ms + MaxPass

SchedInv == SchedTypeOK /\ PlaceInTable /\ PassShort /\ ReadingsAgree /\ Waited /\ GapRight

\* The length of a pass: the tasks up to any place in the table, and one tick.
LEMMA PassNumbers ==
  /\ MaxPass \in Nat /\ MaxPass >= 1
  /\ Work(1) = 0
  /\ \A i \in 1 .. MaxSchedTasks + 1 : Work(i) \in Nat /\ Work(i) + 1 <= MaxPass
  /\ \A i \in 1 .. MaxSchedTasks : Work(i + 1) = Work(i) + MaxRun
<1>. USE SchedAssumption
<1>1. \A m, r \in Nat : m * r \in Nat
  OBVIOUS
<1>2. MaxSchedTasks * MaxRun \in Nat
  BY <1>1
<1>3. Work(1) = 0
  BY DEF Work
<1>4. ASSUME NEW i \in 1 .. MaxSchedTasks + 1
      PROVE  Work(i) \in Nat /\ Work(i) + 1 <= MaxPass
  <2>1. i - 1 \in Nat /\ MaxSchedTasks - (i - 1) \in Nat
    OBVIOUS
  <2>2. Work(i) \in Nat /\ (MaxSchedTasks - (i - 1)) * MaxRun \in Nat
    BY <1>1, <2>1 DEF Work
  <2>3. MaxSchedTasks * MaxRun = Work(i) + (MaxSchedTasks - (i - 1)) * MaxRun
    BY <2>1 DEF Work
  <2>. QED  BY <1>2, <2>2, <2>3 DEF MaxPass
<1>5. ASSUME NEW i \in 1 .. MaxSchedTasks
      PROVE  Work(i + 1) = Work(i) + MaxRun
  BY DEF Work
<1>. QED  BY <1>2, <1>3, <1>4, <1>5 DEF MaxPass

\* What the table holds.
LEMMA TableFacts ==
  ASSUME SchedTypeOK, NEW t \in TableIndex
  PROVE  /\ sched_tasks[t] \in [interval_ms : Intervals, last_run_ms : Counter]
         /\ sched_tasks[t].interval_ms \in Nat
         /\ Latest(sched_tasks[t].interval_ms) < TickSpan
         /\ sched_tasks[t].last_run_ms \in Counter
         /\ elapsed[t] \in Nat
         /\ t \in DOMAIN elapsed /\ DOMAIN elapsed = TableIndex
<1>1. sched_tasks[t] \in [interval_ms : Intervals, last_run_ms : Counter]
  <2>. DEFINE Entries == [interval_ms : Intervals, last_run_ms : Counter]
  <2>1. sched_tasks \in Seq(Entries) /\ t \in 1 .. Len(sched_tasks)
    BY DEF SchedTypeOK, TableIndex
  <2>. HIDE DEF Entries
  <2>2. sched_tasks[t] \in Entries
    BY <2>1
  <2>. QED  BY <2>2 DEF Entries
<1>2. elapsed[t] \in Nat /\ t \in DOMAIN elapsed /\ DOMAIN elapsed = TableIndex
  BY DEF SchedTypeOK, TableIndex
<1>. QED  BY <1>1, <1>2, SchedAssumption

\* The time of the tasks in front of a place in the table, and of the one there.
LEMMA PlaceBounded ==
  ASSUME NEW n \in 0 .. MaxSchedTasks, NEW i \in Nat \ {0}, NEW r \in 0 .. MaxRun,
         NEW pc \in {"setup", "test", "task"},
         pc = "setup" => i = 1, pc = "test" => i <= n + 1, pc = "task" => i <= n,
         pc # "task" => r = 0
  PROVE  Work(i) \in Nat /\ Work(i) + r + 1 <= MaxPass
<1>. USE SchedAssumption
<1>1. CASE pc # "task"
  <2>1. i \in 1 .. MaxSchedTasks + 1
    BY <1>1
  <2>. QED  BY <1>1, <2>1, PassNumbers
<1>2. CASE pc = "task"
  <2>1. i \in 1 .. MaxSchedTasks /\ i \in 1 .. MaxSchedTasks + 1
        /\ i + 1 \in 1 .. MaxSchedTasks + 1
    BY <1>2
  <2>2. Work(i) \in Nat /\ Work(i + 1) = Work(i) + MaxRun /\ Work(i + 1) + 1 <= MaxPass
    BY <2>1, PassNumbers
  <2>. QED  BY <2>2, PassNumbers
<1>. QED  BY <1>1, <1>2

\* No pass lasts longer than the longest pass.
LEMMA PassBounded ==
  ASSUME SchedTypeOK, PlaceInTable, PassShort
  PROVE  drift \in Nat /\ drift <= MaxPass
<1>1. Len(sched_tasks) \in 0 .. MaxSchedTasks
  BY SchedAssumption DEF SchedTypeOK
<1>2. Work(sched_i) \in Nat /\ Work(sched_i) + run_ticks + 1 <= MaxPass
  BY <1>1, PlaceBounded DEF SchedTypeOK, PlaceInTable
<1>3. /\ drift \in Nat /\ overhead \in Nat /\ overhead <= 1 /\ run_ticks \in Nat
      /\ MaxPass \in Nat
  BY PassNumbers, SchedAssumption DEF SchedTypeOK
<1>. QED  BY <1>2, <1>3 DEF PassShort

\* No task has waited for as long as the counter takes to wrap.
LEMMA WaitBounded ==
  ASSUME SchedInv, NEW t \in TableIndex
  PROVE  elapsed[t] <= Latest(sched_tasks[t].interval_ms)
<1>. USE DEF SchedInv
<1>1. drift \in Nat /\ drift <= MaxPass
  BY PassBounded
<1>2. CASE sched_pc = "setup"
  <2>1. elapsed[t] <= overhead
    BY <1>2 DEF Waited
  <2>2. /\ elapsed[t] \in Nat /\ sched_tasks[t].interval_ms \in Nat
        /\ overhead \in Nat /\ overhead <= 1 /\ MaxPass \in Nat /\ MaxPass >= 1
    BY PassNumbers, TableFacts DEF SchedTypeOK
  <2>. QED  BY <2>1, <2>2 DEF Latest
<1>3. CASE sched_pc # "setup"
  BY <1>1, <1>3, PassNumbers, TableFacts DEF Waited, Latest
<1>. QED  BY <1>2, <1>3

\* Reduction modulo the span on the numbers that occur.
LEMMA SpanMod ==
  ASSUME NEW n \in Nat, n < TickSpan
  PROVE  /\ n % TickSpan = n
         /\ (n - TickSpan) % TickSpan = n
         /\ (n + 1) % TickSpan = IF n + 1 = TickSpan THEN 0 ELSE n + 1
<1>. USE SchedAssumption
<1>1. n % TickSpan = n
  OBVIOUS
<1>2. (n - TickSpan) % TickSpan = n
  OBVIOUS
<1>3. TickSpan % TickSpan = 0
  OBVIOUS
<1>4. n + 1 < TickSpan => (n + 1) % TickSpan = n + 1
  OBVIOUS
<1>. QED  BY <1>1, <1>2, <1>3, <1>4

\* What Scheduler_Run computes from two readings is the true time between them.
LEMMA SinceLast ==
  ASSUME SchedInv, sched_pc # "setup", NEW t \in TableIndex
  PROVE  (current_time - sched_tasks[t].last_run_ms) % TickSpan = elapsed[t] - drift
<1>. DEFINE last == sched_tasks[t].last_run_ms
            true == elapsed[t] - drift
<1>1. /\ last \in Counter /\ current_time \in Counter /\ ms_ticks \in Counter
      /\ elapsed[t] \in Nat /\ drift \in Nat /\ TickSpan \in Nat
  BY TableFacts, SchedAssumption DEF SchedInv, SchedTypeOK
<1>2. true \in Nat /\ true < TickSpan
  BY <1>1, WaitBounded, TableFacts, PassNumbers DEF SchedInv, Waited, Latest
<1>3. /\ last + elapsed[t] \in {ms_ticks, ms_ticks + TickSpan}
      /\ current_time + drift \in {ms_ticks, ms_ticks + TickSpan}
  BY DEF SchedInv, ReadingsAgree
<1>4. current_time - last \in {true, true - TickSpan}
  BY <1>1, <1>2, <1>3 DEF Counter
<1>. QED  BY <1>2, <1>4, SpanMod
\* The initial state satisfies the inductive invariant.
LEMMA SchedInitInv == SchedInit => SchedInv
<1>. SUFFICES ASSUME SchedInit PROVE SchedInv
  OBVIOUS
<1>. USE SchedAssumption DEF SchedInit
<1>1. SchedTypeOK
  BY DEF SchedTypeOK, Counter
<1>2. TableIndex = {}
  BY DEF TableIndex
<1>3. PlaceInTable /\ GapRight
  BY DEF PlaceInTable, GapRight
<1>4. PassShort
  BY PassNumbers DEF PassShort
<1>5. ReadingsAgree /\ Waited
  BY <1>2 DEF ReadingsAgree, Waited
<1>. QED  BY <1>1, <1>3, <1>4, <1>5 DEF SchedInv

\* A task that is added has waited for no time.
LEMMA AddTaskInv ==
  ASSUME SchedInv, NEW interval \in Intervals, Scheduler_AddTask(interval)
  PROVE  SchedInv'
<1>. USE DEF SchedInv
<1>. DEFINE n == Len(sched_tasks)
            entry == [interval_ms |-> interval, last_run_ms |-> ms_ticks]
<1>1. /\ sched_pc = "setup" /\ n < MaxSchedTasks
      /\ sched_tasks' = Append(sched_tasks, entry)
      /\ elapsed' = Append(elapsed, 0)
      /\ UNCHANGED <<ms_ticks, run_ticks, overhead, current_time, sched_i, sched_pc, drift, gap>>
  BY DEF Scheduler_AddTask, sched_time
<1>2. entry \in [interval_ms : Intervals, last_run_ms : Counter]
  BY DEF SchedTypeOK
<1>3. /\ n \in Nat /\ Len(sched_tasks') = n + 1
      /\ sched_tasks' \in Seq([interval_ms : Intervals, last_run_ms : Counter])
      /\ \A t \in TableIndex : sched_tasks'[t] = sched_tasks[t]
      /\ sched_tasks'[n + 1] = entry
  <2>. DEFINE Entries == [interval_ms : Intervals, last_run_ms : Counter]
  <2>1. sched_tasks \in Seq(Entries) /\ entry \in Entries
    BY <1>2 DEF SchedTypeOK
  <2>. HIDE DEF Entries, entry
  <2>2. /\ n \in Nat /\ Len(sched_tasks') = n + 1
        /\ sched_tasks' \in Seq(Entries)
        /\ \A t \in TableIndex : sched_tasks'[t] = sched_tasks[t]
        /\ sched_tasks'[n + 1] = entry
    BY <1>1, <2>1 DEF TableIndex
  <2>. QED  BY <2>2 DEF Entries
<1>4. /\ Len(elapsed') = n + 1
      /\ elapsed' \in Seq(Nat)
      /\ \A t \in TableIndex : elapsed'[t] = elapsed[t]
      /\ elapsed'[n + 1] = 0
  BY <1>1, <1>3 DEF SchedTypeOK, TableIndex
<1>5. \A t \in TableIndex' : t \in TableIndex \/ t = n + 1
  BY <1>3 DEF TableIndex
<1>6. SchedTypeOK'
  <2>1. Len(sched_tasks') <= MaxSchedTasks
    BY <1>1, <1>3, SchedAssumption
  <2>. QED  BY <1>1, <1>3, <1>4, <2>1 DEF SchedTypeOK, Counter
<1>7. PlaceInTable' /\ GapRight'
  BY <1>1 DEF PlaceInTable, GapRight
<1>8. PassShort'
  BY <1>1 DEF PassShort, Work
<1>9. ReadingsAgree'
  <2>1. ASSUME NEW t \in TableIndex'
        PROVE  sched_tasks'[t].last_run_ms + elapsed'[t]
                 \in {ms_ticks', ms_ticks' + TickSpan}
    <3>1. CASE t \in TableIndex
      BY <1>1, <1>3, <1>4, <3>1 DEF ReadingsAgree
    <3>2. CASE t = n + 1
      BY <1>1, <1>3, <1>4, <3>2 DEF SchedTypeOK, Counter
    <3>. QED  BY <1>5, <3>1, <3>2
  <2>. QED  BY <1>1, <2>1 DEF ReadingsAgree
<1>10. Waited'
  <2>1. ASSUME NEW t \in TableIndex'
        PROVE  elapsed'[t] <= overhead'
    <3>1. CASE t \in TableIndex
      BY <1>1, <1>4, <3>1 DEF Waited
    <3>2. CASE t = n + 1
      BY <1>1, <1>4, <3>2 DEF SchedTypeOK
    <3>. QED  BY <1>5, <3>1, <3>2
  <2>. QED  BY <1>1, <2>1 DEF Waited
<1>. QED  BY <1>6, <1>7, <1>8, <1>9, <1>10

\* A new pass begins when every task of the last one has been examined.
LEMMA ReadTimeInv ==
  ASSUME SchedInv, ReadTime
  PROVE  SchedInv'
<1>. USE DEF SchedInv
<1>1. /\ \/ sched_pc = "setup" /\ sched_tasks # <<>>
         \/ sched_pc = "test" /\ sched_i > Len(sched_tasks)
      /\ current_time' = ms_ticks
      /\ sched_pc' = "test" /\ sched_i' = 1 /\ overhead' = 0 /\ drift' = 0
      /\ UNCHANGED <<ms_ticks, run_ticks, sched_tasks, elapsed, gap>>
  BY DEF ReadTime
<1>2. SchedTypeOK' /\ Len(sched_tasks) \in Nat /\ sched_tasks # <<>>
  BY <1>1 DEF SchedTypeOK, PlaceInTable
<1>3. PlaceInTable' /\ GapRight'
  BY <1>1, <1>2 DEF PlaceInTable, GapRight
<1>4. PassShort'
  <2>1. Work(1) = 0 /\ run_ticks \in Nat
    BY PassNumbers, SchedAssumption DEF SchedTypeOK
  <2>. QED  BY <1>1, <2>1 DEF PassShort, Work
<1>5. ReadingsAgree'
  BY <1>1 DEF ReadingsAgree, TableIndex, SchedTypeOK, Counter
<1>6. Waited'
  <2>1. ASSUME NEW t \in TableIndex
        PROVE  elapsed[t] >= 0 /\ elapsed[t] <= sched_tasks[t].interval_ms + MaxPass
    <3>1. /\ elapsed[t] \in Nat /\ sched_tasks[t].interval_ms \in Nat
          /\ MaxPass \in Nat /\ MaxPass >= 1 /\ drift \in Nat /\ drift <= MaxPass
      BY TableFacts, PassNumbers, PassBounded
    <3>2. CASE sched_pc = "setup"
      <4>1. elapsed[t] <= overhead
        BY <3>2 DEF Waited
      <4>2. overhead \in Nat /\ overhead <= 1
        BY DEF SchedTypeOK
      <4>. QED  BY <3>1, <4>1, <4>2
    <3>3. CASE sched_pc = "test" /\ sched_i > Len(sched_tasks)
      <4>1. Examined(t)
        BY <1>2, <3>3 DEF Examined, TableIndex, SchedTypeOK
      <4>. QED  BY <3>1, <3>3, <4>1 DEF Waited
    <3>. QED  BY <1>1, <3>2, <3>3
  <2>2. ASSUME NEW t \in TableIndex
        PROVE  elapsed[t] \in Nat /\ ~Examined(t)'
    BY <1>1, TableFacts DEF Examined, TableIndex
  <2>. QED  BY <1>1, <2>1, <2>2 DEF Waited, TableIndex, Examined
<1>. QED  BY <1>2, <1>3, <1>4, <1>5, <1>6

\* A task that is not due has waited for less than its interval.
LEMMA SkipTaskInv ==
  ASSUME SchedInv, SkipTask
  PROVE  SchedInv'
<1>. USE DEF SchedInv
<1>1. /\ sched_pc = "test" /\ sched_i <= Len(sched_tasks) /\ sched_i' = sched_i + 1
      /\ UNCHANGED <<ms_ticks, run_ticks, overhead, sched_tasks, current_time, sched_pc,
                     elapsed, drift, gap>>
  BY DEF SkipTask, sched_time
<1>2. /\ sched_i \in TableIndex /\ sched_i \in 1 .. MaxSchedTasks
      /\ Len(sched_tasks) \in Nat
  BY <1>1, SchedAssumption DEF SchedTypeOK, TableIndex
<1>3. SchedTypeOK' /\ PlaceInTable' /\ GapRight'
  BY <1>1, <1>2 DEF SchedTypeOK, PlaceInTable, GapRight, Counter
<1>4. PassShort'
  <2>1. Work(sched_i + 1) = Work(sched_i) + MaxRun /\ Work(sched_i) \in Nat /\ MaxRun \in Nat
    BY <1>2, PassNumbers, SchedAssumption
  <2>2. Work(sched_i)' = Work(sched_i + 1)
    BY <1>1 DEF Work
  <2>3. drift \in Nat /\ overhead \in Nat /\ run_ticks \in Nat
    BY SchedAssumption DEF SchedTypeOK
  <2>4. drift <= overhead + Work(sched_i + 1) + run_ticks
    BY <2>1, <2>3 DEF PassShort
  <2>. QED  BY <1>1, <2>2, <2>4 DEF PassShort
<1>5. ReadingsAgree'
  BY <1>1 DEF ReadingsAgree, TableIndex
<1>6. Waited'
  <2>1. elapsed[sched_i] - drift < sched_tasks[sched_i].interval_ms
    <3>1. (current_time - sched_tasks[sched_i].last_run_ms) % TickSpan
            = elapsed[sched_i] - drift
      BY <1>1, <1>2, SinceLast
    <3>2. /\ elapsed[sched_i] \in Nat /\ drift \in Nat
          /\ sched_tasks[sched_i].interval_ms \in Nat
      BY <1>2, TableFacts DEF SchedTypeOK
    <3>. QED  BY <3>1, <3>2 DEF SkipTask, Due
  <2>2. ASSUME NEW t \in TableIndex
        PROVE  /\ elapsed[t] >= drift
               /\ elapsed[t] - drift <= sched_tasks[t].interval_ms
                                          + (IF Examined(t)' THEN 0 ELSE MaxPass)
    <3>1. /\ elapsed[t] \in Nat /\ drift \in Nat /\ MaxPass \in Nat
          /\ sched_tasks[t].interval_ms \in Nat
      BY TableFacts, PassNumbers DEF SchedTypeOK
    <3>2. CASE t = sched_i
      BY <1>1, <2>1, <3>1, <3>2 DEF Waited
    <3>3. CASE t # sched_i
      <4>1. Examined(t)' <=> Examined(t)
        BY <1>1, <3>3 DEF Examined, TableIndex, SchedTypeOK
      <4>. QED  BY <1>1, <3>1, <4>1 DEF Waited
    <3>. QED  BY <3>2, <3>3
  <2>. QED  BY <1>1, <2>2 DEF Waited, TableIndex
<1>. QED  BY <1>3, <1>4, <1>5, <1>6

\* A task that is due has waited for its interval, and a pass at most beyond it.
LEMMA StartTaskInv ==
  ASSUME SchedInv, StartTask
  PROVE  SchedInv'
<1>. USE DEF SchedInv
<1>1. /\ sched_pc = "test" /\ sched_pc' = "task"
      /\ sched_tasks' = [sched_tasks EXCEPT ![sched_i].last_run_ms = current_time]
      /\ gap' = elapsed[sched_i] - drift
      /\ elapsed' = [elapsed EXCEPT ![sched_i] = drift]
      /\ UNCHANGED <<ms_ticks, run_ticks, overhead, current_time, sched_i, drift>>
  BY DEF StartTask, sched_time
<1>2. sched_i \in TableIndex /\ sched_i <= Len(sched_tasks)
  BY DEF StartTask, SchedTypeOK, TableIndex
<1>3. /\ sched_tasks[sched_i] \in [interval_ms : Intervals, last_run_ms : Counter]
      /\ current_time \in Counter /\ drift \in Nat
      /\ sched_tasks[sched_i].interval_ms \in Nat
      /\ elapsed[sched_i] \in Nat /\ MaxPass \in Nat
  BY <1>2, TableFacts, PassNumbers DEF SchedTypeOK
<1>4. /\ sched_tasks' \in Seq([interval_ms : Intervals, last_run_ms : Counter])
      /\ Len(sched_tasks') = Len(sched_tasks)
      /\ \A t \in TableIndex :
           /\ sched_tasks'[t].interval_ms = sched_tasks[t].interval_ms
           /\ sched_tasks'[t].last_run_ms = IF t = sched_i THEN current_time
                                            ELSE sched_tasks[t].last_run_ms
  <2>. DEFINE Entries == [interval_ms : Intervals, last_run_ms : Counter]
              entry == [sched_tasks[sched_i] EXCEPT !.last_run_ms = current_time]
  <2>1. sched_tasks \in Seq(Entries) /\ entry \in Entries
    BY <1>3 DEF SchedTypeOK
  <2>2. sched_tasks' = [sched_tasks EXCEPT ![sched_i] = entry]
    BY <1>1
  <2>3. /\ entry.interval_ms = sched_tasks[sched_i].interval_ms
        /\ entry.last_run_ms = current_time
    BY <1>3
  <2>. HIDE DEF Entries, entry
  <2>4. /\ sched_tasks' \in Seq(Entries)
        /\ Len(sched_tasks') = Len(sched_tasks)
        /\ \A t \in TableIndex : sched_tasks'[t] = IF t = sched_i THEN entry ELSE sched_tasks[t]
    BY <1>2, <2>1, <2>2 DEF TableIndex
  <2>. QED  BY <2>3, <2>4 DEF Entries
<1>5. /\ elapsed' \in Seq(Nat)
      /\ Len(elapsed') = Len(elapsed)
      /\ \A t \in TableIndex : elapsed'[t] = IF t = sched_i THEN drift ELSE elapsed[t]
  <2>1. elapsed \in Seq(Nat) /\ TableIndex = 1 .. Len(elapsed)
    BY DEF SchedTypeOK, TableIndex
  <2>2. elapsed' = [elapsed EXCEPT ![sched_i] = drift]
    BY <1>1
  <2>. QED  BY <1>2, <1>3, <2>1, <2>2
<1>6. TableIndex' = TableIndex
  BY <1>4 DEF TableIndex
<1>7. SchedTypeOK'
  <2>1. Len(elapsed') = Len(sched_tasks') /\ Len(sched_tasks') <= MaxSchedTasks
    BY <1>4, <1>5 DEF SchedTypeOK
  <2>2. gap' \in Int
    BY <1>1, <1>3
  <2>3. sched_pc' \in {"setup", "test", "task"}
    BY <1>1
  <2>. QED  BY <1>1, <1>4, <1>5, <2>1, <2>2, <2>3 DEF SchedTypeOK, Counter
<1>8. PlaceInTable'
  BY <1>1, <1>2, <1>4 DEF PlaceInTable
<1>9. PassShort'
  BY <1>1 DEF PassShort, Work
<1>10. GapRight'
  <2>1. (current_time - sched_tasks[sched_i].last_run_ms) % TickSpan
          = elapsed[sched_i] - drift
    BY <1>1, <1>2, SinceLast
  <2>2. elapsed[sched_i] - drift >= sched_tasks[sched_i].interval_ms
    BY <2>1 DEF StartTask, Due
  <2>3. elapsed[sched_i] - drift <= sched_tasks[sched_i].interval_ms + MaxPass
    BY <1>1, <1>2, <1>3 DEF Waited
  <2>4. sched_tasks'[sched_i].interval_ms = sched_tasks[sched_i].interval_ms
    BY <1>2, <1>4
  <2>. QED  BY <1>1, <1>3, <2>2, <2>3, <2>4 DEF GapRight
<1>11. ReadingsAgree'
  <2>1. current_time + drift \in {ms_ticks, ms_ticks + TickSpan}
    BY <1>1 DEF ReadingsAgree
  <2>2. ASSUME NEW t \in TableIndex
        PROVE  sched_tasks'[t].last_run_ms + elapsed'[t]
                 \in {ms_ticks', ms_ticks' + TickSpan}
    BY <1>1, <1>4, <1>5, <2>1 DEF ReadingsAgree
  <2>. QED  BY <1>1, <1>6, <2>1, <2>2 DEF ReadingsAgree
<1>12. Waited'
  <2>1. ASSUME NEW t \in TableIndex
        PROVE  /\ elapsed'[t] >= drift
               /\ elapsed'[t] - drift <= sched_tasks'[t].interval_ms
                                           + (IF Examined(t)' THEN 0 ELSE MaxPass)
    <3>1. /\ elapsed[t] \in Nat /\ sched_tasks[t].interval_ms \in Nat
          /\ sched_tasks'[t].interval_ms = sched_tasks[t].interval_ms
      BY <1>4, TableFacts
    <3>2. CASE t = sched_i
      <4>1. elapsed'[t] = drift
        BY <1>5, <3>2
      <4>. QED  BY <1>3, <3>1, <4>1
    <3>3. CASE t # sched_i
      <4>1. Examined(t)' <=> Examined(t)
        BY <1>1, <3>3 DEF Examined
      <4>2. elapsed'[t] = elapsed[t]
        BY <1>5, <3>3
      <4>3. /\ elapsed[t] >= drift
            /\ elapsed[t] - drift <= sched_tasks[t].interval_ms
                                       + (IF Examined(t) THEN 0 ELSE MaxPass)
        BY <1>1 DEF Waited
      <4>. QED  BY <3>1, <4>1, <4>2, <4>3
    <3>. QED  BY <3>2, <3>3
  <2>. QED  BY <1>1, <1>6, <2>1 DEF Waited
<1>. QED  BY <1>7, <1>8, <1>9, <1>10, <1>11, <1>12

\* A task that ends has been examined.
LEMMA EndTaskInv ==
  ASSUME SchedInv, EndTask
  PROVE  SchedInv'
<1>. USE DEF SchedInv
<1>1. /\ sched_pc = "task" /\ sched_pc' = "test" /\ sched_i' = sched_i + 1
      /\ run_ticks' = 0
      /\ UNCHANGED <<ms_ticks, overhead, sched_tasks, current_time, elapsed, drift, gap>>
  BY DEF EndTask
<1>2. /\ sched_i \in TableIndex /\ sched_i \in 1 .. MaxSchedTasks
      /\ Len(sched_tasks) \in Nat /\ sched_tasks # <<>>
  BY <1>1, SchedAssumption DEF SchedTypeOK, PlaceInTable, TableIndex
<1>3. SchedTypeOK' /\ PlaceInTable' /\ GapRight'
  BY <1>1, <1>2, SchedAssumption DEF SchedTypeOK, PlaceInTable, GapRight, Counter
<1>4. PassShort'
  <2>1. Work(sched_i + 1) = Work(sched_i) + MaxRun /\ Work(sched_i) \in Nat /\ MaxRun \in Nat
    BY <1>2, PassNumbers, SchedAssumption
  <2>2. Work(sched_i)' = Work(sched_i + 1)
    BY <1>1 DEF Work
  <2>. QED  BY <1>1, <2>1, <2>2, SchedAssumption DEF PassShort, SchedTypeOK
<1>5. ReadingsAgree'
  BY <1>1 DEF ReadingsAgree, TableIndex
<1>6. Waited'
  <2>1. \A t \in TableIndex : Examined(t)' <=> Examined(t)
    BY <1>1 DEF Examined, TableIndex, SchedTypeOK
  <2>. QED  BY <1>1, <2>1 DEF Waited, TableIndex
<1>. QED  BY <1>3, <1>4, <1>5, <1>6

\* A tick lets every count go on by one, and no count reaches the span.
LEMMA SchedTickInv ==
  ASSUME SchedInv, SchedTick
  PROVE  SchedInv'
<1>. USE DEF SchedInv
<1>1. /\ ms_ticks' = (ms_ticks + 1) % TickSpan
      /\ elapsed' = [t \in DOMAIN elapsed |-> elapsed[t] + 1]
      /\ drift' = drift + 1
      /\ UNCHANGED <<sched_tasks, current_time, sched_i, sched_pc, gap>>
  BY DEF SchedTick
<1>2. /\ run_ticks' \in 0 .. MaxRun /\ overhead' \in 0 .. 1
      /\ overhead' + run_ticks' = overhead + run_ticks + 1
      /\ overhead' >= overhead
      /\ sched_pc = "setup" => overhead' = overhead + 1
      /\ sched_pc # "task" => run_ticks' = run_ticks
  BY SchedAssumption DEF SchedTick, SchedTypeOK
<1>3. /\ ms_ticks \in Nat /\ ms_ticks < TickSpan /\ drift \in Nat /\ TickSpan \in Nat
      /\ run_ticks \in Nat /\ overhead \in Nat
  BY SchedAssumption DEF SchedTypeOK, Counter
<1>4. ms_ticks' = IF ms_ticks + 1 = TickSpan THEN 0 ELSE ms_ticks + 1
  BY <1>1, <1>3, SpanMod
<1>5. /\ elapsed' \in Seq(Nat) /\ Len(elapsed') = Len(elapsed)
      /\ \A t \in TableIndex : elapsed'[t] = elapsed[t] + 1
  <2>1. DOMAIN elapsed = 1 .. Len(elapsed) /\ Len(elapsed) \in Nat
        /\ \A t \in 1 .. Len(elapsed) : elapsed[t] \in Nat
    BY DEF SchedTypeOK
  <2>2. elapsed' = [t \in 1 .. Len(elapsed) |-> elapsed[t] + 1]
    BY <1>1, <2>1
  <2>3. elapsed' \in [1 .. Len(elapsed) -> Nat]
    BY <2>1, <2>2
  <2>4. elapsed' \in Seq(Nat) /\ Len(elapsed') = Len(elapsed)
    BY <2>1, <2>3
  <2>5. \A t \in 1 .. Len(elapsed) : elapsed'[t] = elapsed[t] + 1
    BY <2>2
  <2>. QED  BY <2>4, <2>5 DEF SchedTypeOK, TableIndex
<1>6. SchedTypeOK'
  <2>1. ms_ticks' \in Counter
    BY <1>3, <1>4 DEF Counter
  <2>. QED  BY <1>1, <1>2, <1>3, <1>5, <2>1 DEF SchedTypeOK, Counter
<1>7. PlaceInTable' /\ GapRight'
  BY <1>1, <1>2 DEF PlaceInTable, GapRight
<1>8. PassShort'
  <2>1. sched_i \in 1 .. MaxSchedTasks + 1
    BY SchedAssumption DEF SchedTypeOK, PlaceInTable
  <2>2. Work(sched_i) \in Nat /\ Work(sched_i)' = Work(sched_i)
    BY <1>1, <2>1, PassNumbers DEF Work
  <2>3. drift <= overhead + Work(sched_i) + run_ticks
    BY DEF PassShort
  <2>4. overhead' \in Nat /\ run_ticks' \in Nat
    BY <1>2, SchedAssumption
  <2>5. drift + 1 <= overhead' + Work(sched_i) + run_ticks'
    <3>1. \A d, o, w, r, p, q \in Nat : d <= o + w + r /\ p + q = o + r + 1 => d + 1 <= p + w + q
      OBVIOUS
    <3>2. Work(sched_i) \in Nat /\ overhead' + run_ticks' = overhead + run_ticks + 1
      BY <1>2, <2>2
    <3>. QED  BY <1>3, <2>3, <2>4, <3>1, <3>2
  <2>. QED  BY <1>1, <2>2, <2>5 DEF PassShort
<1>9. Waited'
  <2>1. ASSUME NEW t \in TableIndex
        PROVE  /\ sched_pc = "setup" => elapsed'[t] <= overhead'
               /\ sched_pc # "setup" =>
                    /\ elapsed'[t] >= drift'
                    /\ elapsed'[t] - drift' <= sched_tasks[t].interval_ms
                                                 + (IF Examined(t) THEN 0 ELSE MaxPass)
    <3>1. elapsed[t] \in Nat /\ elapsed'[t] = elapsed[t] + 1
      BY <1>5, TableFacts
    <3>2. elapsed'[t] - drift' = elapsed[t] - drift
      BY <1>1, <1>3, <3>1
    <3>. QED  BY <1>1, <1>2, <1>3, <3>1, <3>2 DEF Waited
  <2>2. \A t \in TableIndex : Examined(t)' <=> Examined(t)
    BY <1>1 DEF Examined
  <2>. QED  BY <1>1, <2>1, <2>2 DEF Waited, TableIndex
<1>10. drift' \in Nat /\ drift' <= MaxPass
  <2>1. Len(sched_tasks) \in 0 .. MaxSchedTasks
    BY SchedAssumption DEF SchedTypeOK
  <2>2. Work(sched_i) \in Nat /\ Work(sched_i) + run_ticks' + 1 <= MaxPass
    BY <1>2, <2>1, PlaceBounded DEF SchedTypeOK, PlaceInTable
  <2>3. drift' <= overhead' + Work(sched_i) + run_ticks'
    BY <1>1, <1>8 DEF PassShort, Work
  <2>. QED  BY <1>1, <1>2, <1>3, <2>2, <2>3, PassNumbers, SchedAssumption
<1>11. ReadingsAgree'
  <2>1. ASSUME NEW t \in TableIndex
        PROVE  sched_tasks[t].last_run_ms + elapsed'[t]
                 \in {ms_ticks', ms_ticks' + TickSpan}
    <3>1. /\ elapsed[t] \in Nat /\ elapsed'[t] = elapsed[t] + 1
          /\ sched_tasks[t].last_run_ms \in Counter
          /\ sched_tasks[t].interval_ms \in Nat
          /\ sched_tasks[t].interval_ms + 2 * MaxPass < TickSpan
      BY <1>5, TableFacts DEF Latest
    <3>2. elapsed'[t] < TickSpan
      <4>1. CASE sched_pc = "setup"
        <5>1. elapsed'[t] <= overhead' /\ overhead' <= MaxPass
          BY <1>1, <1>2, <1>5, <1>9, <4>1, PassNumbers DEF Waited, TableIndex
        <5>. QED  BY <1>2, <1>3, <3>1, <5>1, PassNumbers
      <4>2. CASE sched_pc # "setup"
        <5>1. /\ elapsed'[t] - drift' = elapsed[t] - drift
              /\ elapsed[t] - drift <= sched_tasks[t].interval_ms + MaxPass
          BY <1>1, <1>3, <3>1, <4>2, PassNumbers DEF Waited
        <5>. QED  BY <1>3, <1>10, <3>1, <5>1, PassNumbers
      <4>. QED  BY <4>1, <4>2
    <3>3. sched_tasks[t].last_run_ms + elapsed[t] \in {ms_ticks, ms_ticks + TickSpan}
      BY DEF ReadingsAgree
    <3>. QED  BY <1>3, <1>4, <3>1, <3>2, <3>3 DEF Counter
  <2>2. ASSUME sched_pc # "setup"
        PROVE  current_time + drift' \in {ms_ticks', ms_ticks' + TickSpan}
    <3>1. PICK t \in TableIndex : TRUE
      <4>1. Len(sched_tasks) \in Nat \ {0}
        BY <2>2 DEF PlaceInTable, SchedTypeOK
      <4>2. 1 \in TableIndex
        BY <4>1 DEF TableIndex
      <4>. QED  BY <4>2
    <3>2. drift' < TickSpan
      <4>1. /\ sched_tasks[t].interval_ms \in Nat
            /\ sched_tasks[t].interval_ms + 2 * MaxPass < TickSpan
        BY TableFacts DEF Latest
      <4>. QED  BY <1>3, <1>10, <4>1, PassNumbers
    <3>3. current_time + drift \in {ms_ticks, ms_ticks + TickSpan}
      BY <2>2 DEF ReadingsAgree
    <3>4. current_time \in Nat /\ current_time < TickSpan
      BY <1>3 DEF SchedTypeOK, Counter
    <3>. QED  BY <1>1, <1>3, <1>4, <3>2, <3>3, <3>4
  <2>. QED  BY <1>1, <2>1, <2>2 DEF ReadingsAgree, TableIndex
<1>. QED  BY <1>6, <1>7, <1>8, <1>9, <1>11

\* The inductive invariant holds throughout.
LEMMA SchedSpecInv == SchedSpec => []SchedInv
<1>1. ASSUME SchedInv, [SchedNext]_schedvars
      PROVE  SchedInv'
  <2>1. CASE SchedNext
    BY <1>1, <2>1, AddTaskInv, ReadTimeInv, SkipTaskInv, StartTaskInv, EndTaskInv,
       SchedTickInv DEF SchedNext
  <2>2. CASE UNCHANGED schedvars
    <3>1. UNCHANGED <<ms_ticks, run_ticks, overhead, sched_tasks, current_time, sched_i,
                      sched_pc, elapsed, drift, gap>>
      BY <2>2 DEF schedvars, sched_time
    <3>2. SchedTypeOK' /\ PlaceInTable' /\ GapRight' /\ PassShort'
      BY <1>1, <3>1 DEF SchedInv, SchedTypeOK, PlaceInTable, GapRight, PassShort, Work, Counter
    <3>3. ReadingsAgree' /\ Waited'
      BY <1>1, <3>1 DEF SchedInv, ReadingsAgree, Waited, TableIndex, Examined
    <3>. QED  BY <3>2, <3>3 DEF SchedInv
  <2>. QED  BY <1>1, <2>1, <2>2
<1>. QED  BY <1>1, SchedInitInv, PTL DEF SchedSpec

-----------------------------------------------------------------------------
\* Each task runs once per interval, and no later than two passes after it, also
\* when the counter wraps between two readings.
THEOREM SchedEveryInterval == SchedSpec => []EveryInterval
<1>1. ASSUME SchedInv
      PROVE  EveryInterval
  <2>1. DOMAIN elapsed = TableIndex
    BY <1>1 DEF SchedInv, SchedTypeOK, TableIndex
  <2>2. \A t \in TableIndex : elapsed[t] <= Latest(sched_tasks[t].interval_ms)
    BY <1>1, WaitBounded
  <2>. QED  BY <1>1, <2>1, <2>2 DEF SchedInv, GapRight, EveryInterval
<1>. QED  BY <1>1, SchedSpecInv, PTL
=============================================================================
