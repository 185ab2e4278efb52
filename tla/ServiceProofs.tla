--------------------------- MODULE ServiceProofs ----------------------------
(***************************************************************************)
(* The safety of the mutex, the semaphore, the event group and the heap,   *)
(* for any set of threads, finite or not, and any values of the other      *)
(* constants.                                                              *)
(*                                                                         *)
(* All four arguments start from the same fact, which none of the          *)
(* properties states: a thread between "cpsid i" and "cpsie i" has         *)
(* interrupts disabled and the processor, so it is the only one there, and *)
(* what it has read of the service's words is still so when it writes.     *)
(***************************************************************************)
EXTENDS Mutex, Semaphore, EventGroup, Heap, FiniteSetTheorems, TLAPS

-----------------------------------------------------------------------------
(* The mutex.                                                              *)

\* A thread inside a critical section has masked interrupts and runs.
MutexMaskHeld == \A t \in Thread :
  mpc[t] \in {"test", "store", "unlock"} => primask /\ on_cpu = t

\* What a thread has seen free is free until it takes it.
FreeUntilStored == \A t \in Thread : mpc[t] = "store" => ~locked

MutexInv == MutexTypeOK /\ MutexMaskHeld /\ FreeUntilStored /\ OwnerInside

\* The initial state satisfies the inductive invariant.
LEMMA MutexInitInv == CpuInit /\ MutexInit => MutexInv
BY DEF CpuInit, MutexInit, MutexInv, MutexTypeOK, CpuTypeOK, MutexMaskHeld, FreeUntilStored,
       OwnerInside, MutexPlace

\* Each step of Mutex_Lock keeps the inductive invariant.
LEMMA LockStepInv ==
  ASSUME MutexInv, NEW t \in Thread, LockStep(t)
  PROVE  MutexInv'
<1>. USE DEF MutexInv, MutexTypeOK, CpuTypeOK, MutexMaskHeld, FreeUntilStored, OwnerInside,
             MutexPlace, MGoto
<1>1. CASE LockMask(t)
  BY <1>1 DEF LockMask, Mask
<1>2. CASE LockSpin(t)
  BY <1>2 DEF LockSpin, UnmaskAndYield
<1>3. CASE LockFree(t)
  BY <1>3 DEF LockFree
<1>4. CASE LockTake(t)
  BY <1>4 DEF LockTake, Unmask
<1>. QED  BY <1>1, <1>2, <1>3, <1>4 DEF LockStep

\* Each step of Mutex_Unlock, by the owner or by any other thread, keeps it.
LEMMA UnlockInv ==
  ASSUME MutexInv, NEW t \in Thread, UnlockMask(t) \/ UnlockStore(t)
  PROVE  MutexInv'
<1>. USE MutexAssumption
     DEF MutexInv, MutexTypeOK, CpuTypeOK, MutexMaskHeld, FreeUntilStored, OwnerInside,
         MutexPlace, MGoto
<1>1. CASE UnlockMask(t)
  BY <1>1 DEF UnlockMask, Mask
<1>2. CASE UnlockStore(t)
  <2>1. CASE locked /\ owner = t
    BY <1>2, <2>1 DEF UnlockStore, Unmask
  <2>2. CASE ~(locked /\ owner = t)
    BY <1>2, <2>2 DEF UnlockStore, Unmask
  <2>. QED  BY <2>1, <2>2
<1>. QED  BY <1>1, <1>2

\* A PendSV switch finds no thread in a critical section.
LEMMA MutexSwitchInv ==
  ASSUME MutexInv, Switch, UNCHANGED mutexvars
  PROVE  MutexInv'
BY DEF MutexInv, MutexTypeOK, CpuTypeOK, MutexMaskHeld, FreeUntilStored, OwnerInside, Switch,
       mutexvars

\* The inductive invariant holds throughout.
LEMMA MutexSpecInv == MutexSpec => []MutexInv
<1>1. ASSUME MutexInv, [MutexNext]_<<cpuvars, mutexvars>>
      PROVE  MutexInv'
  <2>1. CASE \E t \in Thread : MutexStep(t)
    BY <1>1, <2>1, LockStepInv, UnlockInv DEF MutexStep
  <2>2. CASE Switch /\ UNCHANGED mutexvars
    BY <1>1, <2>2, MutexSwitchInv
  <2>3. CASE UNCHANGED <<cpuvars, mutexvars>>
    BY <1>1, <2>3 DEF MutexInv, MutexTypeOK, CpuTypeOK, MutexMaskHeld, FreeUntilStored,
                      OwnerInside, cpuvars, mutexvars
  <2>. QED  BY <1>1, <2>1, <2>2, <2>3 DEF MutexNext
<1>. QED  BY <1>1, MutexInitInv, PTL DEF MutexSpec

-----------------------------------------------------------------------------
\* A thread inside owns the locked mutex, and a locked mutex has an owner that
\* will unlock it, whatever calls of Mutex_Unlock other threads make.
THEOREM MutexOwned == MutexSpec => []OwnerInside
<1>1. MutexInv => OwnerInside
  BY DEF MutexInv
<1>. QED  BY <1>1, MutexSpecInv, PTL

\* At most one thread is between Mutex_Lock and Mutex_Unlock.
THEOREM MutexExcludes == MutexSpec => []MutualExclusion
<1>1. MutexInv => MutualExclusion
  BY DEF MutexInv, OwnerInside, MutualExclusion
<1>. QED  BY <1>1, MutexSpecInv, PTL

-----------------------------------------------------------------------------
(* The semaphore.  Threads need not be finite in number: those that hold a *)
(* permit are.                                                             *)

\* A thread inside a critical section has masked interrupts and runs.
SemMaskHeld == \A t \in Thread :
  spc[t] \in {"test", "take", "give", "signal", "returned", "signalled"} =>
    primask /\ on_cpu = t

\* What is about to be stored was computed from the count as it is.
LoadedIsCount == \A t \in Thread :
  /\ spc[t] \in {"take", "returned", "signalled"} => loaded[t] = count
  /\ spc[t] = "take" => count # 0
  /\ spc[t] \in {"returned", "signalled"} => count < MaxCount

SemControl == CpuTypeOK /\ spc \in [Thread -> SemPlace] /\ SemMaskHeld

SemNumbers == /\ count \in Int /\ loaded \in [Thread -> Int] /\ issued \in Int
           /\ LoadedIsCount /\ CountInRange

SemInv == SemControl /\ SemNumbers /\ IsFiniteSet(Holders) /\ PermitsConserved

\* The initial state: nobody holds a permit.
LEMMA SemInitInv == CpuInit /\ SemInit => SemInv
<1>. SUFFICES ASSUME CpuInit, SemInit PROVE SemInv
  OBVIOUS
<1>1. SemControl
  BY DEF CpuInit, SemInit, SemControl, CpuTypeOK, SemPlace, SemMaskHeld
<1>2. SemNumbers
  BY SemaphoreAssumption DEF SemInit, SemNumbers, LoadedIsCount, CountInRange
<1>3. Holders = {}
  BY DEF SemInit, Holders
<1>4. IsFiniteSet(Holders) /\ Cardinality(Holders) = 0
  BY <1>3, FS_EmptySet
<1>. QED  BY <1>1, <1>2, <1>4, SemaphoreAssumption DEF SemInv, PermitsConserved, SemInit

\* A thread enters and leaves a critical section with the mask.
LEMMA SemStepControl ==
  ASSUME SemControl, NEW t \in Thread, SemStep(t)
  PROVE  SemControl'
<1>. USE DEF SemControl, CpuTypeOK, SemPlace, SemMaskHeld, SGoto
<1>1. CASE TakeMask(t) \/ GiveMask(t)
  BY <1>1 DEF TakeMask, GiveMask, Mask
<1>2. CASE TakeSpin(t)
  BY <1>2 DEF TakeSpin, UnmaskAndYield
<1>3. CASE TakeLoad(t) \/ GiveLoad(t)
  BY <1>3 DEF TakeLoad, GiveLoad
<1>4. CASE TakeStore(t)
  BY <1>4 DEF TakeStore, Unmask
<1>5. CASE GiveStore(t)
  BY <1>5 DEF GiveStore, Unmask
<1>6. CASE GiveFull(t)
  BY <1>6 DEF GiveFull, Unmask
<1>. QED  BY <1>1, <1>2, <1>3, <1>4, <1>5, <1>6 DEF SemStep

\* The thread that runs is alone in a critical section: no other thread has
\* loaded the count it changes.
LEMMA AloneLoaded ==
  ASSUME SemControl, NEW t \in Thread, on_cpu = t, NEW u \in Thread, u # t
  PROVE  spc[u] \notin {"take", "returned", "signalled"}
BY DEF SemControl, SemMaskHeld

\* Every step of Semaphore_Take and Semaphore_Give keeps the numbers right.
LEMMA SemStepNumbers ==
  ASSUME SemInv, NEW t \in Thread, SemStep(t)
  PROVE  SemNumbers'
<1>0. /\ on_cpu = t /\ SemNumbers /\ spc \in [Thread -> SemPlace]
      /\ \A u \in Thread : u # t => spc[u] \notin {"take", "returned", "signalled"}
  BY AloneLoaded DEF SemInv, SemControl, SemStep, TakeMask, TakeSpin, TakeLoad, TakeStore,
     GiveMask, GiveLoad, GiveStore, GiveFull, SGoto
<1>. USE <1>0, SemaphoreAssumption DEF SemNumbers, LoadedIsCount, CountInRange, SGoto, SemPlace
<1>1. CASE TakeMask(t) \/ TakeSpin(t) \/ GiveMask(t)
  BY <1>1 DEF TakeMask, TakeSpin, GiveMask
<1>2. CASE TakeLoad(t)
  BY <1>2 DEF TakeLoad
<1>3. CASE GiveLoad(t)
  BY <1>3 DEF GiveLoad
<1>4. CASE TakeStore(t)
  BY <1>4 DEF TakeStore
<1>5. CASE GiveStore(t)
  BY <1>5 DEF GiveStore
<1>6. CASE GiveFull(t)
  BY <1>6 DEF GiveFull
<1>. QED  BY <1>1, <1>2, <1>3, <1>4, <1>5, <1>6 DEF SemStep

\* A step that neither gives nor takes away a permit keeps the sum.
LEMMA SameHolders ==
  ASSUME SemInv, Holders' = Holders, UNCHANGED <<count, issued>>
  PROVE  IsFiniteSet(Holders)' /\ PermitsConserved'
BY DEF SemInv, PermitsConserved

\* Every step keeps the sum of the permits in the count and in use.
LEMMA SemStepSum ==
  ASSUME SemInv, NEW t \in Thread, SemStep(t)
  PROVE  IsFiniteSet(Holders)' /\ PermitsConserved'
<1>0. /\ IsFiniteSet(Holders) /\ Cardinality(Holders) \in Nat
      /\ count \in Int /\ issued \in Int /\ spc \in [Thread -> SemPlace]
      /\ issued = count + Cardinality(Holders)
  BY FS_CardinalityType DEF SemInv, SemControl, SemNumbers, PermitsConserved
<1>1. CASE TakeMask(t) \/ TakeSpin(t) \/ TakeLoad(t) \/ GiveMask(t) \/ GiveLoad(t)
  <2>1. Holders' = Holders /\ UNCHANGED <<count, issued>>
    BY <1>0, <1>1 DEF TakeMask, TakeSpin, TakeLoad, GiveMask, GiveLoad, SGoto, Holders
  <2>. QED  BY <2>1, SameHolders
<1>2. CASE TakeStore(t)
  <2>1. t \notin Holders /\ Holders' = Holders \cup {t}
    BY <1>0, <1>2 DEF TakeStore, SGoto, Holders
  <2>2. IsFiniteSet(Holders') /\ Cardinality(Holders') = Cardinality(Holders) + 1
    BY <1>0, <2>1, FS_AddElement
  <2>3. count' = count - 1 /\ issued' = issued
    BY <1>2 DEF TakeStore, SGoto, SemInv, SemNumbers, LoadedIsCount
  <2>. QED  BY <1>0, <2>2, <2>3 DEF PermitsConserved
<1>3. CASE GiveStore(t) /\ spc[t] = "returned"
  <2>1. t \in Holders /\ Holders' = Holders \ {t}
    BY <1>0, <1>3 DEF GiveStore, SGoto, Holders
  <2>2. IsFiniteSet(Holders') /\ Cardinality(Holders') = Cardinality(Holders) - 1
    BY <1>0, <2>1, FS_RemoveElement
  <2>3. count' = count + 1 /\ issued' = issued
    BY <1>3 DEF GiveStore, SGoto, SemInv, SemNumbers, LoadedIsCount
  <2>. QED  BY <1>0, <2>2, <2>3 DEF PermitsConserved
<1>4. CASE GiveStore(t) /\ spc[t] = "signalled"
  <2>1. Holders' = Holders
    BY <1>0, <1>4 DEF GiveStore, SGoto, Holders
  <2>2. count' = count + 1 /\ issued' = issued + 1
    BY <1>4 DEF GiveStore, SGoto, SemInv, SemNumbers, LoadedIsCount
  <2>. QED  BY <1>0, <2>1, <2>2 DEF PermitsConserved
<1>5. CASE GiveFull(t) /\ spc[t] = "give"
  <2>1. t \in Holders /\ Holders' = Holders \ {t}
    BY <1>0, <1>5 DEF GiveFull, SGoto, Holders
  <2>2. IsFiniteSet(Holders') /\ Cardinality(Holders') = Cardinality(Holders) - 1
    BY <1>0, <2>1, FS_RemoveElement
  <2>3. count' = count /\ issued' = issued - 1
    BY <1>5 DEF GiveFull
  <2>. QED  BY <1>0, <2>2, <2>3 DEF PermitsConserved
<1>6. CASE GiveFull(t) /\ spc[t] = "signal"
  <2>1. Holders' = Holders /\ UNCHANGED <<count, issued>>
    BY <1>0, <1>6 DEF GiveFull, SGoto, Holders
  <2>. QED  BY <2>1, SameHolders
<1>7. /\ GiveStore(t) => spc[t] \in {"returned", "signalled"}
      /\ GiveFull(t) => spc[t] \in {"give", "signal"}
  BY DEF GiveStore, GiveFull, SGoto
<1>. QED  BY <1>1, <1>2, <1>3, <1>4, <1>5, <1>6, <1>7 DEF SemStep

\* A step of the kernel, or of nobody.
LEMMA SemOthersInv ==
  ASSUME SemInv, UNCHANGED semvars, Switch \/ UNCHANGED cpuvars
  PROVE  SemInv'
<1>1. SemControl' /\ SemNumbers'
  BY DEF SemInv, SemControl, SemNumbers, CpuTypeOK, SemMaskHeld, LoadedIsCount, CountInRange,
     Switch, semvars, cpuvars
<1>2. Holders' = Holders
  BY DEF Holders, semvars
<1>. QED  BY <1>1, <1>2, SameHolders DEF SemInv, semvars

\* The inductive invariant holds throughout.
LEMMA SemSpecInv == SemSpec => []SemInv
<1>1. ASSUME SemInv, [SemNext]_<<cpuvars, semvars>>
      PROVE  SemInv'
  BY <1>1, SemStepControl, SemStepNumbers, SemStepSum, SemOthersInv DEF SemNext, SemInv
<1>. QED  BY <1>1, SemInitInv, PTL DEF SemSpec

-----------------------------------------------------------------------------
\* Permits are neither lost nor duplicated by Semaphore_Take and
\* Semaphore_Give, however their loads and stores are interleaved.
THEOREM SemaphoreConserves == SemSpec => []PermitsConserved
<1>1. SemInv => PermitsConserved
  BY DEF SemInv
<1>. QED  BY <1>1, SemSpecInv, PTL

\* The count neither wraps below zero nor passes max_count.
THEOREM SemaphoreInRange == SemSpec => []CountInRange
<1>1. SemInv => CountInRange
  BY DEF SemInv, SemNumbers
<1>. QED  BY <1>1, SemSpecInv, PTL

-----------------------------------------------------------------------------
(* The event group.                                                        *)

\* A thread between "cpsid i" and "cpsie i" has masked interrupts and runs.
EventMaskHeld == \A t \in Thread :
  epc[t] \in {"set", "poll", "leave"} => primask /\ on_cpu = t

EventPlace == {"out", "set", "poll", "repoll", "leave"}

EventInv == CpuTypeOK /\ epc \in [Thread -> EventPlace] /\ EventMaskHeld
            /\ BitsNotConsumedTwice

\* Each step of SetBits and WaitBits keeps the invariant: the one thread that
\* may be between its poll and its return is the one that changes the flags.
LEMMA EventStepInv ==
  ASSUME EventInv, NEW t \in Thread, EventStep(t)
  PROVE  EventInv'
<1>0. /\ epc \in [Thread -> EventPlace] /\ on_cpu = t
      /\ \A u \in Thread : u # t => epc[u] \notin {"set", "poll", "leave"}
  BY DEF EventInv, EventMaskHeld, EventStep, SetMask, SetBits, WaitMask, PollAgain, PollMet,
     Leave, EGoto
<1>. USE <1>0 DEF EventInv, CpuTypeOK, EventPlace, EventMaskHeld, BitsNotConsumedTwice, EGoto
<1>1. CASE SetMask(t)
  BY <1>1 DEF SetMask, Mask, Met
<1>2. ASSUME NEW bits, SetBits(t, bits) PROVE EventInv'
  BY <1>2 DEF SetBits, Unmask, Met
<1>3. CASE WaitMask(t)
  BY <1>3 DEF WaitMask, Mask, Met
<1>4. CASE PollAgain(t)
  BY <1>4 DEF PollAgain, UnmaskAndYield, Met
<1>5. CASE PollMet(t)
  BY <1>5 DEF PollMet, Met
<1>6. CASE Leave(t)
  BY <1>6 DEF Leave, Unmask, Met
<1>. QED  BY <1>1, <1>2, <1>3, <1>4, <1>5, <1>6 DEF EventStep

\* The invariant holds throughout.
LEMMA EventSpecInv == EventSpec => []EventInv
<1>. USE DEF EventInv, CpuTypeOK, EventPlace, EventMaskHeld, BitsNotConsumedTwice
<1>1. CpuInit /\ EventInit => EventInv
  BY DEF CpuInit, EventInit
<1>2. ASSUME EventInv, [EventNext]_<<cpuvars, eventvars>>
      PROVE  EventInv'
  <2>1. CASE \E t \in Thread : EventStep(t)
    BY <1>2, <2>1, EventStepInv
  <2>2. CASE Switch /\ UNCHANGED eventvars
    BY <1>2, <2>2 DEF Switch, eventvars, Met
  <2>3. CASE UNCHANGED <<cpuvars, eventvars>>
    BY <1>2, <2>3 DEF cpuvars, eventvars, Met
  <2>. QED  BY <1>2, <2>1, <2>2, <2>3 DEF EventNext
<1>. QED  BY <1>1, <1>2, PTL DEF EventSpec

\* One SetBits is never consumed twice: a waiter leaves EventGroup_WaitBits
\* with its condition still met, for any threads, bits and arguments.
THEOREM EventsConsumedOnce == EventSpec => []BitsNotConsumedTwice
<1>1. EventInv => BitsNotConsumedTwice
  BY DEF EventInv
<1>. QED  BY <1>1, EventSpecInv, PTL

-----------------------------------------------------------------------------
(* The heap.  Blocks end below heap_allocated, which only grows, by a      *)
(* multiple of 8, in a critical section.                                   *)

\* A thread between "cpsid i" and "cpsie i" has masked interrupts and runs.
HeapMaskHeld == \A t \in Thread :
  hpc[t] \in {"test", "bump", "fail"} => primask /\ on_cpu = t

\* What a thread is about to be given was rounded up to a multiple of 8 and,
\* once tested, fits.
RoundedUp == \A t \in Thread :
  /\ hpc[t] \in {"aligned", "test", "bump", "fail"} =>
       rounded[t] % 8 = 0 /\ size[t] <= rounded[t] /\ rounded[t] <= size[t] + 7
  /\ hpc[t] \in {"aligned", "test", "bump", "fail"} => size[t] \in Requests
  /\ hpc[t] = "bump" => heap_allocated + rounded[t] <= HeapSize

\* The bytes handed out so far are a multiple of 8 and inside the heap.
HeapLevel == heap_allocated % 8 = 0 /\ heap_allocated <= HeapSize

\* Blocks are aligned and end below the level.
BlocksBelow == \A b \in blocks : b.start % 8 = 0 /\ b.start + b.size <= heap_allocated

NoOverlap == \A b, c \in blocks : b # c => ~Overlap(b, c)

HeapInv == HeapTypeOK /\ HeapMaskHeld /\ RoundedUp /\ HeapLevel /\ BlocksBelow /\ NoOverlap

-----------------------------------------------------------------------------
\* Arithmetic in size_t below its span is arithmetic in Nat.
LEMMA SmallMod ==
  ASSUME NEW n \in Nat, NEW m \in Nat, n < m
  PROVE  n % m = n
OBVIOUS

\* The rounding of Heap_Malloc gives a multiple of 8, not below the size and
\* less than 8 above it, for every request that does not wrap.
LEMMA Align8Rounds ==
  ASSUME RequestsDoNotWrap, NEW n \in Requests
  PROVE  /\ Align8(n) \in Nat
         /\ Align8(n) % 8 = 0
         /\ n <= Align8(n)
         /\ Align8(n) <= n + 7
<1>1. n \in Nat /\ n + 7 < SizeSpan /\ SizeSpan \in Nat
  BY HeapAssumption DEF RequestsDoNotWrap
<1>2. (n + 7) % SizeSpan = n + 7
  BY <1>1, SmallMod
<1>3. Align8(n) = (n + 7) - ((n + 7) % 8)
  BY <1>2 DEF Align8
<1>. QED  BY <1>1, <1>3

\* What the assumption on the constants says of a request and of the spans.
LEMMA Sizes ==
  /\ HeapSize \in Nat
  /\ SizeSpan \in Nat
  /\ \A n \in Requests : n \in Nat
  /\ RequestsDoNotWrap => \A n \in Requests : n + 7 + HeapSize < SizeSpan
BY HeapAssumption DEF RequestsDoNotWrap

\* The fields of a block.
LEMMA BlockFields ==
  ASSUME HeapTypeOK, NEW b \in blocks
  PROVE  b.start \in Nat /\ b.size \in Nat
<1>1. b \in [start : Nat, size : Requests, to : Thread]
  BY DEF HeapTypeOK
<1>. QED  BY <1>1, Sizes

\* The initial state satisfies the inductive invariant.
LEMMA HeapInitInv == CpuInit /\ HeapInit => HeapInv
<1>1. 0 % 8 = 0
  OBVIOUS
<1>2. CpuInit /\ HeapInit => HeapTypeOK
  <2>1. HeapInit => blocks \subseteq [start : Nat, size : Requests, to : Thread]
    BY DEF HeapInit
  <2>2. HeapInit => /\ heap_allocated \in Nat
                    /\ rounded \in [Thread -> Nat]
                    /\ size \in [Thread -> Requests \cup {0}]
                    /\ hpc \in [Thread -> {"out", "aligned", "test", "bump", "fail"}]
    BY DEF HeapInit
  <2>. QED  BY <2>1, <2>2 DEF CpuInit, CpuTypeOK, HeapTypeOK
<1>3. CpuInit /\ HeapInit => HeapLevel
  BY <1>1, Sizes DEF HeapInit, HeapLevel
<1>4. CpuInit /\ HeapInit => HeapMaskHeld /\ RoundedUp
  BY DEF HeapInit, HeapMaskHeld, RoundedUp
<1>5. CpuInit /\ HeapInit => BlocksBelow /\ NoOverlap
  BY DEF HeapInit, BlocksBelow, NoOverlap
<1>. QED  BY <1>2, <1>3, <1>4, <1>5 DEF HeapInv

\* The call computes the rounded size before the critical section.
LEMMA MallocCallInv ==
  ASSUME RequestsDoNotWrap, HeapInv, NEW t \in Thread, NEW n \in Requests, MallocCall(t, n)
  PROVE  HeapInv'
<1>. USE DEF HeapInv, HeapTypeOK, CpuTypeOK, MallocCall, HGoto
<1>1. HeapTypeOK'
  BY Align8Rounds
<1>2. HeapMaskHeld'
  BY DEF HeapMaskHeld
<1>3. RoundedUp'
  BY Align8Rounds DEF RoundedUp
<1>4. heap_allocated' = heap_allocated /\ blocks' = blocks
  OBVIOUS
<1>5. HeapLevel' /\ BlocksBelow' /\ NoOverlap'
  BY <1>4 DEF HeapLevel, BlocksBelow, NoOverlap, Overlap
<1>. QED  BY <1>1, <1>2, <1>3, <1>5

\* Masking, the test and the failing return change no block.
LEMMA MallocTestInv ==
  ASSUME RequestsDoNotWrap, HeapInv, NEW t \in Thread,
         MallocMask(t) \/ MallocTest(t) \/ MallocFail(t)
  PROVE  HeapInv'
<1>. USE DEF HeapInv, HeapTypeOK, CpuTypeOK, HGoto
<1>1. HeapLevel' /\ BlocksBelow' /\ NoOverlap'
  BY DEF HeapLevel, BlocksBelow, NoOverlap, Overlap, MallocMask, MallocTest, MallocFail
<1>2. CASE MallocMask(t)
  BY <1>1, <1>2 DEF MallocMask, Mask, HeapMaskHeld, RoundedUp
<1>3. CASE MallocTest(t)
  <2>1. hpc[t] = "test" /\ UNCHANGED <<heap_allocated, rounded, size, blocks, on_cpu, primask>>
    BY <1>3 DEF MallocTest
  <2>2. Fits(t) => heap_allocated + rounded[t] <= HeapSize
    <3>1. size[t] \in Requests /\ rounded[t] <= size[t] + 7
      BY <2>1 DEF RoundedUp
    <3>2. heap_allocated \in Nat /\ rounded[t] \in Nat /\ heap_allocated <= HeapSize
      BY DEF HeapLevel
    <3>3. heap_allocated + rounded[t] < SizeSpan
      BY <3>1, <3>2, Sizes
    <3>4. (heap_allocated + rounded[t]) % SizeSpan = heap_allocated + rounded[t]
      BY <3>2, <3>3, Sizes, SmallMod
    <3>. QED  BY <3>4 DEF Fits
  <2>3. hpc' = [hpc EXCEPT ![t] = IF Fits(t) THEN "bump" ELSE "fail"]
    BY <1>3 DEF MallocTest
  <2>4. HeapTypeOK'
    BY <2>1, <2>3
  <2>5. HeapMaskHeld'
    BY <2>1, <2>3 DEF HeapMaskHeld
  <2>6. RoundedUp'
    BY <2>1, <2>2, <2>3 DEF RoundedUp
  <2>. QED  BY <1>1, <2>4, <2>5, <2>6
<1>4. CASE MallocFail(t)
  BY <1>1, <1>4 DEF MallocFail, Unmask, HeapMaskHeld, RoundedUp
<1>. QED  BY <1>2, <1>3, <1>4

\* The new block starts at the level, where no other block reaches.
LEMMA MallocBumpInv ==
  ASSUME RequestsDoNotWrap, HeapInv, NEW t \in Thread, MallocBump(t)
  PROVE  HeapInv'
<1>. DEFINE new == [start |-> heap_allocated, size |-> size[t], to |-> t]
<1>. USE DEF HeapInv, HeapTypeOK, CpuTypeOK
<1>1. /\ hpc[t] = "bump" /\ hpc' = [hpc EXCEPT ![t] = "out"]
      /\ blocks' = blocks \cup {new}
      /\ primask' = FALSE
      /\ UNCHANGED <<rounded, size, on_cpu>>
  BY DEF MallocBump, HGoto, Unmask
<1>2. /\ size[t] \in Requests
      /\ size[t] <= rounded[t]
      /\ rounded[t] % 8 = 0
      /\ heap_allocated + rounded[t] <= HeapSize
  BY <1>1 DEF RoundedUp
<1>3. heap_allocated \in Nat /\ rounded[t] \in Nat /\ size[t] \in Nat
  BY <1>2, Sizes
<1>4. heap_allocated' = heap_allocated + rounded[t]
  <2>1. heap_allocated + rounded[t] < SizeSpan
    BY <1>2, <1>3, Sizes
  <2>2. (heap_allocated + rounded[t]) % SizeSpan = heap_allocated + rounded[t]
    BY <1>3, <2>1, Sizes, SmallMod
  <2>. QED  BY <2>2 DEF MallocBump
<1>5. HeapLevel'
  <2>1. heap_allocated % 8 = 0
    BY DEF HeapLevel
  <2>2. (heap_allocated + rounded[t]) % 8 = 0
    BY <1>2, <1>3, <2>1
  <2>. QED  BY <1>2, <1>4, <2>2 DEF HeapLevel
<1>6. HeapTypeOK'
  <2>1. new \in [start : Nat, size : Requests, to : Thread]
    BY <1>2, <1>3
  <2>2. blocks' \subseteq [start : Nat, size : Requests, to : Thread]
    BY <1>1, <2>1
  <2>3. heap_allocated' \in Nat
    BY <1>3, <1>4
  <2>4. CpuTypeOK'
    BY <1>1
  <2>5. /\ rounded' \in [Thread -> Nat]
        /\ size' \in [Thread -> Requests \cup {0}]
        /\ hpc' \in [Thread -> {"out", "aligned", "test", "bump", "fail"}]
    BY <1>1
  <2>. QED  BY <2>2, <2>3, <2>4, <2>5
<1>7. HeapMaskHeld'
  BY <1>1 DEF HeapMaskHeld
<1>8. RoundedUp'
  <2>1. \A u \in Thread : u # t => hpc[u] # "bump"
    BY <1>1 DEF HeapMaskHeld
  <2>. QED  BY <1>1, <2>1 DEF RoundedUp
<1>9. new.start = heap_allocated /\ new.size = size[t]
  OBVIOUS
<1>10. BlocksBelow'
  <2>1. ASSUME NEW b \in blocks
        PROVE  b.start % 8 = 0 /\ b.start + b.size <= heap_allocated'
    <3>1. b.start % 8 = 0 /\ b.start + b.size <= heap_allocated
      BY DEF BlocksBelow
    <3>. QED  BY <1>3, <1>4, <3>1, BlockFields
  <2>2. new.start % 8 = 0 /\ new.start + new.size <= heap_allocated'
    BY <1>2, <1>3, <1>4, <1>9 DEF HeapLevel
  <2>. QED  BY <1>1, <2>1, <2>2 DEF BlocksBelow
<1>11. NoOverlap'
  <2>1. ASSUME NEW b \in blocks
        PROVE  ~Overlap(b, new) /\ ~Overlap(new, b)
    <3>1. b.start + b.size <= heap_allocated
      BY DEF BlocksBelow
    <3>2. b.start \in Nat /\ b.size \in Nat
      BY BlockFields
    <3>. QED  BY <1>3, <1>9, <3>1, <3>2 DEF Overlap
  <2>2. \A b, c \in blocks : b # c => ~Overlap(b, c)
    BY DEF NoOverlap
  <2>3. \A b, c \in blocks \cup {new} : b # c => ~Overlap(b, c)
    BY <2>1, <2>2
  <2>. QED  BY <1>1, <2>3 DEF NoOverlap, Overlap
<1>. QED  BY <1>5, <1>6, <1>7, <1>8, <1>10, <1>11

\* The inductive invariant holds throughout.
LEMMA HeapSpecInv ==
  ASSUME RequestsDoNotWrap
  PROVE  HeapSpec => []HeapInv
<1>1. ASSUME HeapInv, [HeapNext]_<<cpuvars, heapvars>>
      PROVE  HeapInv'
  <2>1. CASE \E t \in Thread : HeapStep(t)
    BY <1>1, <2>1, MallocCallInv, MallocTestInv, MallocBumpInv DEF HeapStep
  <2>2. CASE Switch /\ UNCHANGED heapvars
    BY <1>1, <2>2 DEF HeapInv, HeapTypeOK, CpuTypeOK, HeapMaskHeld, RoundedUp, HeapLevel,
                      BlocksBelow, NoOverlap, Overlap, Switch, heapvars
  <2>3. CASE UNCHANGED <<cpuvars, heapvars>>
    BY <1>1, <2>3 DEF HeapInv, HeapTypeOK, CpuTypeOK, HeapMaskHeld, RoundedUp, HeapLevel,
                      BlocksBelow, NoOverlap, Overlap, cpuvars, heapvars
  <2>. QED  BY <1>1, <2>1, <2>2, <2>3 DEF HeapNext
<1>. QED  BY <1>1, HeapInitInv, PTL DEF HeapSpec

-----------------------------------------------------------------------------
\* Blocks are inside the heap, aligned and disjoint, unless a request wraps.
THEOREM HeapBlocksDisjoint == HeapSpec => []BlocksDisjoint
<1>1. CASE RequestsDoNotWrap
  <2>1. HeapInv => BlocksDisjoint
    <3>1. ASSUME HeapInv, NEW b \in blocks
          PROVE  b.start % 8 = 0 /\ b.start + b.size <= HeapSize
      <4>1. b.start \in Nat /\ b.size \in Nat
        BY <3>1, BlockFields DEF HeapInv
      <4>2. /\ heap_allocated \in Nat /\ heap_allocated <= HeapSize
            /\ b.start % 8 = 0 /\ b.start + b.size <= heap_allocated
        BY <3>1 DEF HeapInv, HeapTypeOK, HeapLevel, BlocksBelow
      <4>. QED  BY <4>1, <4>2, Sizes
    <3>. QED  BY <3>1 DEF HeapInv, NoOverlap, BlocksDisjoint
  <2>. QED  BY <1>1, <2>1, HeapSpecInv, PTL
<1>2. CASE ~RequestsDoNotWrap
  <2>1. BlocksDisjoint
    BY <1>2 DEF BlocksDisjoint
  <2>. QED  BY <2>1, PTL
<1>. QED  BY <1>1, <1>2
=============================================================================
