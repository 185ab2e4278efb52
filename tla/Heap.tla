-------------------------------- MODULE Heap --------------------------------
(***************************************************************************)
(* Heap_Malloc (Src/rtos/heap.c): a bump allocator.  The rounded size is   *)
(* computed before the critical section, in size_t arithmetic that wraps   *)
(* at 2^32; the test and the bump run with interrupts masked.  Heap_Free   *)
(* does nothing, so it is no action.                                       *)
(***************************************************************************)
EXTENDS Cpu, Integers

CONSTANTS HeapSize,   \* HEAP_SIZE
          SizeSpan,   \* number of values of size_t, 2^32 in the code
          Requests    \* the sizes tasks ask for

ASSUME HeapAssumption == /\ HeapSize \in Nat
                         /\ SizeSpan \in Nat \ {0}
                         /\ Requests \subseteq 0 .. SizeSpan - 1

VARIABLES heap_allocated,   \* bytes handed out so far
          rounded,          \* aligned_size of each thread's call
          size,             \* the argument of each thread's call
          hpc,              \* where each thread stands
          blocks            \* history: the blocks returned: start, size, caller

heapvars == <<heap_allocated, rounded, size, hpc, blocks>>

HeapInit == /\ heap_allocated = 0
            /\ rounded = [t \in Thread |-> 0]
            /\ size = [t \in Thread |-> 0]
            /\ hpc = [t \in Thread |-> "out"]
            /\ blocks = {}

HGoto(t, from, to) == /\ on_cpu = t
                      /\ hpc[t] = from
                      /\ hpc' = [hpc EXCEPT ![t] = to]

\* Seeded fault: the size is rounded down.
Truncate8(n) == n - (n % 8)

\* (size + 7) & ~7 in size_t.
Align8(n) == LET up == (n + 7) % SizeSpan IN up - (up % 8)

MallocCall(t, n) == /\ HGoto(t, "out", "aligned")
                    /\ size' = [size EXCEPT ![t] = n]
                    /\ rounded' = [rounded EXCEPT ![t] = Align8(n)]
                    /\ UNCHANGED <<heap_allocated, blocks, on_cpu, primask>>

MallocMask(t) == /\ HGoto(t, "aligned", "test")
                 /\ Mask
                 /\ UNCHANGED <<heap_allocated, rounded, size, blocks>>

Fits(t) == (heap_allocated + rounded[t]) % SizeSpan <= HeapSize

MallocTest(t) == /\ IF Fits(t) THEN HGoto(t, "test", "bump")
                               ELSE HGoto(t, "test", "fail")
                 /\ UNCHANGED <<heap_allocated, rounded, size, blocks, on_cpu, primask>>

MallocBump(t) == /\ HGoto(t, "bump", "out")
                 /\ blocks' = blocks \cup {[start |-> heap_allocated, size |-> size[t], to |-> t]}
                 /\ heap_allocated' = (heap_allocated + rounded[t]) % SizeSpan
                 /\ Unmask
                 /\ UNCHANGED <<rounded, size>>

\* ptr is NULL.
MallocFail(t) == /\ HGoto(t, "fail", "out")
                 /\ Unmask
                 /\ UNCHANGED <<heap_allocated, rounded, size, blocks>>

HeapStep(t) == \/ \E n \in Requests : MallocCall(t, n)
               \/ MallocMask(t) \/ MallocTest(t) \/ MallocBump(t) \/ MallocFail(t)

HeapNext == \/ \E t \in Thread : HeapStep(t)
            \/ Switch /\ UNCHANGED heapvars

HeapSpec == CpuInit /\ HeapInit /\ [][HeapNext]_<<cpuvars, heapvars>>

-----------------------------------------------------------------------------
HeapTypeOK == /\ CpuTypeOK
              /\ heap_allocated \in Nat
              /\ rounded \in [Thread -> Nat]
              /\ size \in [Thread -> Requests \cup {0}]
              /\ hpc \in [Thread -> {"out", "aligned", "test", "bump", "fail"}]
              /\ blocks \subseteq [start : Nat, size : Requests, to : Thread]

\* No request is so large that rounding it up, or adding it to the bytes
\* handed out, wraps size_t.
RequestsDoNotWrap == \A n \in Requests : n + 7 + HeapSize < SizeSpan

Overlap(b, c) == b.start < c.start + c.size /\ c.start < b.start + b.size

\* "Thread-safe allocation": blocks lie inside the heap, start on a multiple
\* of 8 of it and do not overlap, whichever threads race for the last bytes,
\* as long as no request wraps size_t.
BlocksDisjoint ==
  RequestsDoNotWrap =>
    /\ \A b \in blocks : b.start % 8 = 0 /\ b.start + b.size <= HeapSize
    /\ \A b, c \in blocks : b # c => ~Overlap(b, c)
=============================================================================
