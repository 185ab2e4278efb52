----------------------------- MODULE Semaphore ------------------------------
(***************************************************************************)
(* Semaphore_Take and Semaphore_Give (Src/rtos/semaphore.c).  Threads take *)
(* a permit before a section and give it back after it; a thread outside   *)
(* may also give, as a signaller does, and a give on a full semaphore is   *)
(* dropped.                                                                *)
(***************************************************************************)
EXTENDS Cpu, Integers, FiniteSets

CONSTANTS InitialCount, MaxCount   \* the arguments of Semaphore_Init

ASSUME SemaphoreAssumption == /\ InitialCount \in Nat
                              /\ MaxCount \in Nat
                              /\ InitialCount <= MaxCount

VARIABLES count,    \* sem->count
          loaded,   \* the count as the thread read it for its update
          spc,      \* where each thread stands
          issued    \* history: permits in circulation, in the count or in use

semvars == <<count, loaded, spc, issued>>

SemPlace == {"out", "test", "retry", "take", "in", "give", "signal",
             "returned", "signalled"}

SemInit == /\ count = InitialCount
           /\ loaded = [t \in Thread |-> 0]
           /\ spc = [t \in Thread |-> "out"]
           /\ issued = InitialCount

SGoto(t, from, to) == /\ on_cpu = t
                      /\ spc[t] \in from
                      /\ spc' = [spc EXCEPT ![t] = to]

TakeMask(t) == /\ SGoto(t, {"out", "retry"}, "test")
               /\ Mask
               /\ UNCHANGED <<count, loaded, issued>>

TakeSpin(t) == /\ count = 0
               /\ SGoto(t, {"test"}, "retry")
               /\ UnmaskAndYield
               /\ UNCHANGED <<count, loaded, issued>>

\* The update of the count is a load and a store.
TakeLoad(t) == /\ count # 0
               /\ SGoto(t, {"test"}, "take")
               /\ loaded' = [loaded EXCEPT ![t] = count]
               /\ UNCHANGED <<count, issued, on_cpu, primask>>

TakeStore(t) == /\ SGoto(t, {"take"}, "in")
                /\ count' = loaded[t] - 1
                /\ Unmask
                /\ UNCHANGED <<loaded, issued>>

\* Semaphore_Give by a thread in its section, and by a signaller.
GiveMask(t) == /\ \/ SGoto(t, {"in"}, "give")
                  \/ SGoto(t, {"out"}, "signal")
               /\ Mask
               /\ UNCHANGED <<count, loaded, issued>>

GiveLoad(t) == /\ count < MaxCount
               /\ \/ SGoto(t, {"give"}, "returned")
                  \/ SGoto(t, {"signal"}, "signalled")
               /\ loaded' = [loaded EXCEPT ![t] = count]
               /\ UNCHANGED <<count, issued, on_cpu, primask>>

\* A signal puts one more permit into circulation.
GiveStore(t) == /\ SGoto(t, {"returned", "signalled"}, "out")
                /\ count' = loaded[t] + 1
                /\ issued' = IF spc[t] = "signalled" THEN issued + 1 ELSE issued
                /\ Unmask
                /\ UNCHANGED loaded

\* The count is at max_count: the give is dropped, and with it the permit of
\* a thread that leaves its section.
GiveFull(t) == /\ count >= MaxCount
               /\ SGoto(t, {"give", "signal"}, "out")
               /\ issued' = IF spc[t] = "give" THEN issued - 1 ELSE issued
               /\ Unmask
               /\ UNCHANGED <<count, loaded>>

SemStep(t) == \/ TakeMask(t) \/ TakeSpin(t) \/ TakeLoad(t) \/ TakeStore(t)
              \/ GiveMask(t) \/ GiveLoad(t) \/ GiveStore(t) \/ GiveFull(t)

SemNext == \/ \E t \in Thread : SemStep(t)
           \/ Switch /\ UNCHANGED semvars

SemSpec == CpuInit /\ SemInit /\ [][SemNext]_<<cpuvars, semvars>>

-----------------------------------------------------------------------------
\* The threads that hold a permit.
Holders == {t \in Thread : spc[t] \in {"in", "give", "returned"}}

\* Permits are neither duplicated nor lost by the loads and stores of several
\* threads: what the count holds and what threads use is what was issued.
PermitsConserved == issued = count + Cardinality(Holders)

\* The count stays between zero (no wrap of the unsigned decrement when two
\* takers see the last permit) and max_count.
CountInRange == 0 <= count /\ count <= MaxCount
=============================================================================
