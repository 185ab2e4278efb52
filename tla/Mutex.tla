------------------------------- MODULE Mutex --------------------------------
(***************************************************************************)
(* Mutex_Lock and Mutex_Unlock (Src/rtos/mutex.c): a flag and an owner     *)
(* updated with interrupts masked, and a spin that unmasks and yields.     *)
(* Threads lock and unlock in turn; any thread may also call Mutex_Unlock  *)
(* on a mutex it does not hold, a call the code guards against.            *)
(***************************************************************************)
EXTENDS Cpu

CONSTANT NoOwner   \* the NULL owner

ASSUME MutexAssumption == NoOwner \notin Thread

VARIABLES locked, owner,   \* Mutex_t
          mpc              \* where each thread stands

mutexvars == <<locked, owner, mpc>>

\* "test": interrupts masked, the loop condition is next; "retry": back from
\* Task_Yield; "store": the flag was free; "unlock": masked in Mutex_Unlock.
MutexPlace == {"out", "test", "retry", "store", "in", "unlock"}

MutexInit == /\ locked = FALSE
             /\ owner = NoOwner
             /\ mpc = [t \in Thread |-> "out"]

MGoto(t, from, to) == /\ on_cpu = t
                      /\ mpc[t] \in from
                      /\ mpc' = [mpc EXCEPT ![t] = to]

\* Entry of Mutex_Lock, and the "cpsid i" that follows the yield.
LockMask(t) == /\ MGoto(t, {"out", "retry"}, "test")
               /\ Mask
               /\ UNCHANGED <<locked, owner>>

LockSpin(t) == /\ locked
               /\ MGoto(t, {"test"}, "retry")
               /\ UnmaskAndYield
               /\ UNCHANGED <<locked, owner>>

LockFree(t) == /\ ~locked
               /\ MGoto(t, {"test"}, "store")
               /\ UNCHANGED <<locked, owner, on_cpu, primask>>

LockTake(t) == /\ MGoto(t, {"store"}, "in")
               /\ locked' = TRUE
               /\ owner' = t
               /\ Unmask

UnlockMask(t) == /\ MGoto(t, {"in", "out"}, "unlock")
                 /\ Mask
                 /\ UNCHANGED <<locked, owner>>

\* Seeded fault: Mutex_Unlock does not compare the owner.
UnlockAnyone(t) == /\ MGoto(t, {"unlock"}, "out")
                   /\ locked' = FALSE
                   /\ owner' = NoOwner
                   /\ Unmask

UnlockStore(t) == /\ MGoto(t, {"unlock"}, "out")
                  /\ IF locked /\ owner = t
                     THEN locked' = FALSE /\ owner' = NoOwner
                     ELSE UNCHANGED <<locked, owner>>
                  /\ Unmask

LockStep(t) == LockMask(t) \/ LockSpin(t) \/ LockFree(t) \/ LockTake(t)

MutexStep(t) == LockStep(t) \/ UnlockMask(t) \/ UnlockStore(t)

MutexNext == \/ \E t \in Thread : MutexStep(t)
             \/ Switch /\ UNCHANGED mutexvars

MutexSpec == CpuInit /\ MutexInit /\ [][MutexNext]_<<cpuvars, mutexvars>>

-----------------------------------------------------------------------------
MutexTypeOK == /\ CpuTypeOK
               /\ locked \in BOOLEAN
               /\ owner \in Thread \cup {NoOwner}
               /\ mpc \in [Thread -> MutexPlace]

\* Two threads are never both between Mutex_Lock and Mutex_Unlock, although
\* every waiter tests the flag and stores it in two steps.
MutualExclusion == \A t, u \in Thread :
                     mpc[t] = "in" /\ mpc[u] = "in" => t = u

\* The flag and the owner say who is inside: a thread in its section owns the
\* mutex, which a Mutex_Unlock by another thread, at whatever moment, never
\* takes away, and a locked mutex has an owner that will still unlock it.
OwnerInside == /\ \A t \in Thread : mpc[t] = "in" => locked /\ owner = t
               /\ locked => owner \in Thread /\ mpc[owner] \in {"in", "unlock"}
=============================================================================
