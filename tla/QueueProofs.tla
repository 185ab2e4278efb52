---------------------------- MODULE QueueProofs -----------------------------
(***************************************************************************)
(* Queue.tla implements BoundedFifo.tla for any capacity, threads and      *)
(* items.  Three facts carry the refinement: a thread that has seen room,  *)
(* or an item, has interrupts disabled and still finds it; the count is    *)
(* the distance between the indices; and so the slot that is written is    *)
(* none of those that hold an item.                                        *)
(***************************************************************************)
EXTENDS Queue, SequenceTheorems, TLAPS

\* A thread inside a critical section has masked interrupts and runs.
QueueMaskHeld == \A t \in Thread :
  qpc[t] \in {"send", "put", "receive", "get"} => primask /\ on_cpu = t

Control == CpuTypeOK /\ qpc \in [Thread -> QueuePlace] /\ QueueMaskHeld

\* What was seen of the count still holds, and a sender has its item in hand.
SeenStillTrue == \A t \in Thread :
  /\ qpc[t] = "put" => fill # Capacity
  /\ qpc[t] = "get" => fill # 0
  /\ qpc[t] \in {"send", "sendretry", "put"} => sending[t] \in Item

Ring == /\ buffer \in [Slot -> Item \cup {NoItem}]
        /\ head \in Slot /\ tail \in Slot /\ fill \in Int
        /\ sending \in [Thread -> Item \cup {NoItem}]
        /\ received \in [Thread -> Item \cup {NoItem}]
        /\ RingConsistent
        /\ SeenStillTrue

IInv == Control /\ Ring

-----------------------------------------------------------------------------
(* Arithmetic of the indices and of sequences.                             *)

\* An index is taken modulo the capacity at most one turn ahead.
LEMMA ModOneTurn ==
  ASSUME NEW n \in 0 .. 2 * Capacity - 1
  PROVE  n % Capacity = IF n < Capacity THEN n ELSE n - Capacity
<1>1. CASE n < Capacity
  BY <1>1, QueueAssumption
<1>2. CASE n >= Capacity
  <2>1. n - Capacity \in 0 .. Capacity - 1
    BY <1>2, QueueAssumption
  <2>2. ((n - Capacity) + Capacity) % Capacity = n - Capacity
    BY <2>1, QueueAssumption
  <2>. QED  BY <1>2, <2>2, QueueAssumption
<1>. QED  BY <1>1, <1>2, QueueAssumption

\* Writing behind the last item and advancing tail.
LEMMA TailAdvances ==
  ASSUME NEW h \in Slot, NEW n \in 0 .. Capacity - 1
  PROVE  /\ (h + n) % Capacity \in Slot
         /\ (((h + n) % Capacity) + 1) % Capacity = (h + n + 1) % Capacity
         /\ \A i \in 1 .. n : /\ (h + i - 1) % Capacity \in Slot
                              /\ (h + i - 1) % Capacity # (h + n) % Capacity
<1>. USE QueueAssumption DEF Slot
<1>1. (h + n) % Capacity = IF h + n < Capacity THEN h + n ELSE h + n - Capacity
  BY ModOneTurn
<1>2. (h + n + 1) % Capacity = IF h + n + 1 < Capacity THEN h + n + 1
                               ELSE h + n + 1 - Capacity
  BY ModOneTurn
<1>3. ((h + n) % Capacity) + 1 \in 0 .. 2 * Capacity - 1
  BY <1>1
<1>4. (((h + n) % Capacity) + 1) % Capacity = (h + n + 1) % Capacity
  <2>. DEFINE m == ((h + n) % Capacity) + 1
  <2>1. m % Capacity = IF m < Capacity THEN m ELSE m - Capacity
    BY <1>3, ModOneTurn
  <2>. QED  BY <1>1, <1>2, <2>1
<1>5. ASSUME NEW i \in 1 .. n
      PROVE  /\ (h + i - 1) % Capacity \in Slot
             /\ (h + i - 1) % Capacity # (h + n) % Capacity
  <2>1. (h + i - 1) % Capacity = IF h + i - 1 < Capacity THEN h + i - 1
                                 ELSE h + i - 1 - Capacity
    BY ModOneTurn
  <2>. QED  BY <1>1, <2>1
<1>. QED  BY <1>1, <1>4, <1>5

\* Advancing head renumbers the items.
LEMMA HeadAdvances ==
  ASSUME NEW h \in Slot, NEW n \in 1 .. Capacity
  PROVE  /\ (h + 1) % Capacity \in Slot
         /\ h % Capacity = h
         /\ \A i \in 0 .. n - 1 :
              (((h + 1) % Capacity) + i) % Capacity = (h + i + 1) % Capacity
<1>. USE QueueAssumption DEF Slot
<1>1. (h + 1) % Capacity = IF h + 1 < Capacity THEN h + 1 ELSE h + 1 - Capacity
  BY ModOneTurn
<1>2. ASSUME NEW i \in 0 .. n - 1
      PROVE  (((h + 1) % Capacity) + i) % Capacity = (h + i + 1) % Capacity
  <2>. DEFINE m == ((h + 1) % Capacity) + i
  <2>1. m \in 0 .. 2 * Capacity - 1
    BY <1>1
  <2>2. m % Capacity = IF m < Capacity THEN m ELSE m - Capacity
    BY <2>1, ModOneTurn
  <2>3. (h + i + 1) % Capacity = IF h + i + 1 < Capacity THEN h + i + 1
                                 ELSE h + i + 1 - Capacity
    BY ModOneTurn
  <2>. QED  BY <1>1, <2>2, <2>3
<1>3. h % Capacity = h
  BY ModOneTurn
<1>. QED  BY <1>1, <1>2, <1>3

\* The rest of a sequence that is given by a function of the place.
LEMMA TailByPlace ==
  ASSUME NEW F, NEW n \in Nat, n # 0
  PROVE  Tail([i \in 1 .. n |-> F[i]]) = [i \in 1 .. n - 1 |-> F[i + 1]]
<1>. DEFINE S == {F[k] : k \in Int}
            s == [i \in 1 .. n |-> F[i]]
            r == [i \in 1 .. n - 1 |-> F[i + 1]]
<1>1. /\ s \in Seq(S) /\ Len(s) = n /\ s # <<>>
      /\ r \in Seq(S) /\ Len(r) = n - 1
  OBVIOUS
<1>2. \A i \in 1 .. n - 1 : r[i] = s[i + 1]
  OBVIOUS
<1>. HIDE DEF S, s, r
<1>3. /\ Tail(s) \in Seq(S) /\ Len(Tail(s)) = n - 1
      /\ \A i \in 1 .. n - 1 : Tail(s)[i] = s[i + 1]
  BY <1>1, HeadTailProperties
<1>4. Tail(s) = r
  BY <1>1, <1>2, <1>3, SeqEqual
<1>. QED  BY <1>4 DEF s, r

\* Contents as a sequence.
LEMMA ContentsIsSequence ==
  ASSUME fill \in Nat
  PROVE  /\ Len(Contents) = fill
         /\ fill = 0 => Contents = <<>>
         /\ fill # 0 => Contents # <<>> /\ Head(Contents) = buffer[(head + 1 - 1) % Capacity]
BY DEF Contents

-----------------------------------------------------------------------------
LEMMA QueueInitIInv == CpuInit /\ QueueInit => IInv
<1>. SUFFICES ASSUME CpuInit, QueueInit PROVE IInv
  OBVIOUS
<1>1. Control
  BY DEF CpuInit, QueueInit, Control, CpuTypeOK, QueuePlace, QueueMaskHeld
<1>2. 0 \in Slot /\ 0 % Capacity = 0
  BY QueueAssumption, ModOneTurn DEF Slot
<1>3. Ring
  BY <1>2, QueueAssumption DEF QueueInit, Ring, RingConsistent, SeenStillTrue
<1>. QED  BY <1>1, <1>3 DEF IInv

\* A thread enters and leaves a critical section with the mask.
LEMMA QueueControl ==
  ASSUME Control, NEW t \in Thread, QueueCall(t) \/ QueueStep(t)
  PROVE  Control'
<1>. USE DEF Control, CpuTypeOK, QueuePlace, QueueMaskHeld, QGoto
<1>1. CASE QueueCall(t)
  BY <1>1 DEF QueueCall, SendCall, ReceiveCall, Mask
<1>2. CASE QueueRetry(t)
  BY <1>2 DEF QueueRetry, Mask
<1>3. CASE QueueSpin(t)
  BY <1>3 DEF QueueSpin, UnmaskAndYield
<1>4. CASE QueueReady(t)
  BY <1>4 DEF QueueReady
<1>5. CASE SendPut(t)
  BY <1>5 DEF SendPut, Unmask
<1>6. CASE ReceiveGet(t)
  BY <1>6 DEF ReceiveGet, Unmask
<1>. QED  BY <1>1, <1>2, <1>3, <1>4, <1>5, <1>6 DEF QueueStep

\* The thread that runs is alone: no other thread is about to put or to get.
LEMMA AloneInRing ==
  ASSUME Control, NEW t \in Thread, on_cpu = t, NEW u \in Thread, u # t
  PROVE  qpc[u] \notin {"put", "get"}
BY DEF Control, QueueMaskHeld

\* Steps that do not touch the ring keep the facts about it.
LEMMA RingUntouched ==
  ASSUME IInv, NEW t \in Thread,
         QueueCall(t) \/ QueueRetry(t) \/ QueueSpin(t) \/ QueueReady(t)
  PROVE  Ring' /\ UNCHANGED <<Contents, received>>
<1>. USE DEF IInv, Control, Ring, RingConsistent, SeenStillTrue, QGoto, QueuePlace, ring
<1>1. CASE QueueCall(t)
  BY <1>1 DEF QueueCall, SendCall, ReceiveCall, Contents
<1>2. CASE QueueRetry(t)
  BY <1>2 DEF QueueRetry, Contents
<1>3. CASE QueueSpin(t)
  BY <1>3 DEF QueueSpin, Contents
<1>4. CASE QueueReady(t)
  BY <1>4 DEF QueueReady, Contents
<1>. QED  BY <1>1, <1>2, <1>3, <1>4

\* Queue_Send appends its item.
LEMMA SendAppends ==
  ASSUME IInv, NEW t \in Thread, SendPut(t)
  PROVE  /\ Ring'
         /\ sending[t] \in Item /\ fill < Capacity
         /\ Contents' = Append(Contents, sending[t])
         /\ UNCHANGED received
<1>1. /\ qpc[t] = "put" /\ on_cpu = t
      /\ qpc' = [qpc EXCEPT ![t] = "out"]
      /\ buffer' = [buffer EXCEPT ![tail] = sending[t]]
      /\ tail' = (tail + 1) % Capacity /\ fill' = fill + 1 /\ head' = head
      /\ sending' = [sending EXCEPT ![t] = NoItem]
      /\ received' = received
  BY DEF SendPut, QGoto
<1>2. /\ fill \in 0 .. Capacity - 1 /\ sending[t] \in Item
      /\ head \in Slot /\ tail \in Slot /\ tail = (head + fill) % Capacity
      /\ buffer \in [Slot -> Item \cup {NoItem}]
  BY <1>1, QueueAssumption DEF IInv, Ring, RingConsistent, SeenStillTrue
<1>3. /\ tail' \in Slot
      /\ tail' = (head + fill + 1) % Capacity
      /\ \A i \in 1 .. fill : /\ (head + i - 1) % Capacity \in Slot
                              /\ (head + i - 1) % Capacity # tail
  <2>1. /\ tail' = (head + fill + 1) % Capacity
        /\ \A i \in 1 .. fill : /\ (head + i - 1) % Capacity \in Slot
                                /\ (head + i - 1) % Capacity # tail
    BY <1>1, <1>2, TailAdvances
  <2>2. tail' \in Slot
    BY <1>1, <1>2, ModOneTurn, QueueAssumption DEF Slot
  <2>. QED  BY <2>1, <2>2
<1>4. RingConsistent'
  <2>1. head + (fill + 1) = head + fill + 1 /\ head + fill + 1 \in Int
    BY <1>2, QueueAssumption DEF Slot
  <2>. QED  BY <1>1, <1>2, <1>3, <2>1, QueueAssumption DEF RingConsistent
<1>5. SeenStillTrue'
  BY <1>1, <1>2, AloneInRing DEF IInv, Control, Ring, SeenStillTrue
<1>6. Ring'
  BY <1>1, <1>2, <1>3, <1>4, <1>5 DEF IInv, Ring
<1>7. Contents' = Append(Contents, sending[t])
  <2>1. \A i \in 1 .. fill :
          buffer'[(head + i - 1) % Capacity] = buffer[(head + i - 1) % Capacity]
    BY <1>1, <1>2, <1>3
  <2>2. buffer'[(head + (fill + 1) - 1) % Capacity] = sending[t]
    <3>1. head + (fill + 1) - 1 = head + fill
      BY <1>2, QueueAssumption DEF Slot
    <3>. QED  BY <1>1, <1>2, <3>1
  <2>. DEFINE old(i) == buffer[(head + i - 1) % Capacity]
              new(i) == buffer'[(head + i - 1) % Capacity]
  <2>3. Contents = [i \in 1 .. fill |-> old(i)] /\ fill \in Nat
    BY <1>2, QueueAssumption DEF Contents
  <2>4. Contents' = [i \in 1 .. fill + 1 |-> new(i)]
    BY <1>1 DEF Contents
  <2>5. (\A i \in 1 .. fill : new(i) = old(i)) /\ new(fill + 1) = sending[t]
    BY <2>1, <2>2
  <2>. HIDE DEF old, new
  <2>. QED  BY <2>3, <2>4, <2>5
<1>. QED  BY <1>1, <1>2, <1>6, <1>7, QueueAssumption

\* Queue_Receive takes the oldest item.
LEMMA ReceiveTakes ==
  ASSUME IInv, NEW t \in Thread, ReceiveGet(t)
  PROVE  /\ Ring'
         /\ Contents # <<>>
         /\ received' = [received EXCEPT ![t] = Head(Contents)]
         /\ Contents' = Tail(Contents)
<1>1. /\ qpc[t] = "get" /\ on_cpu = t
      /\ qpc' = [qpc EXCEPT ![t] = "out"]
      /\ received' = [received EXCEPT ![t] = buffer[head]]
      /\ head' = (head + 1) % Capacity /\ fill' = fill - 1
      /\ buffer' = buffer /\ tail' = tail /\ sending' = sending
  BY DEF ReceiveGet, QGoto
<1>2. /\ fill \in 1 .. Capacity
      /\ head \in Slot /\ tail \in Slot /\ tail = (head + fill) % Capacity
      /\ buffer \in [Slot -> Item \cup {NoItem}]
  BY <1>1, QueueAssumption DEF IInv, Ring, RingConsistent, SeenStillTrue
<1>3. /\ head' \in Slot /\ head % Capacity = head
      /\ \A i \in 0 .. fill - 1 : (head' + i) % Capacity = (head + i + 1) % Capacity
  BY <1>1, <1>2, HeadAdvances
<1>4. RingConsistent'
  <2>1. (head' + (fill - 1)) % Capacity = (head + (fill - 1) + 1) % Capacity
    BY <1>2, <1>3
  <2>2. head + (fill - 1) + 1 = head + fill
    BY <1>2, QueueAssumption DEF Slot
  <2>. QED  BY <1>1, <1>2, <2>1, <2>2, QueueAssumption DEF RingConsistent
<1>5. SeenStillTrue'
  BY <1>1, <1>2, AloneInRing DEF IInv, Control, Ring, SeenStillTrue
<1>6. received' \in [Thread -> Item \cup {NoItem}]
  BY <1>1, <1>2 DEF IInv, Ring
<1>7. Ring'
  BY <1>1, <1>2, <1>3, <1>4, <1>5, <1>6 DEF IInv, Ring
<1>8. Contents # <<>> /\ Head(Contents) = buffer[head]
  <2>1. head + 1 - 1 = head
    BY <1>2, QueueAssumption DEF Slot
  <2>. QED  BY <1>2, <1>3, <2>1, ContentsIsSequence
<1>9. Contents' = Tail(Contents)
  <2>1. \A i \in 1 .. fill - 1 :
          buffer'[(head' + i - 1) % Capacity] = buffer[(head + (i + 1) - 1) % Capacity]
    <3>1. SUFFICES ASSUME NEW i \in 1 .. fill - 1
                   PROVE  (head' + i - 1) % Capacity = (head + (i + 1) - 1) % Capacity
      BY <1>1
    <3>2. (head' + (i - 1)) % Capacity = (head + (i - 1) + 1) % Capacity
      BY <1>2, <1>3
    <3>3. head' + (i - 1) = head' + i - 1 /\ head + (i - 1) + 1 = head + (i + 1) - 1
      BY <1>2, <1>3, QueueAssumption DEF Slot
    <3>. QED  BY <3>2, <3>3
  <2>. DEFINE At == [i \in Int |-> buffer[(head + i - 1) % Capacity]]
  <2>2. /\ Contents = [i \in 1 .. fill |-> At[i]]
        /\ Contents' = [i \in 1 .. fill - 1 |-> At[i + 1]]
    BY <1>1, <2>1 DEF Contents
  <2>. HIDE DEF At
  <2>. QED  BY <1>2, <2>2, TailByPlace
<1>. QED  BY <1>1, <1>7, <1>8, <1>9

\* The inductive invariant holds throughout.
LEMMA QueueSpecIInv == QueueSpec => []IInv
<1>1. ASSUME IInv, [QueueNext]_<<cpuvars, queuevars>>
      PROVE  IInv'
  <2>1. ASSUME NEW t \in Thread, QueueCall(t) \/ QueueStep(t)
        PROVE  IInv'
    BY <1>1, <2>1, QueueControl, RingUntouched, SendAppends, ReceiveTakes DEF QueueStep, IInv
  <2>2. CASE UNCHANGED queuevars /\ (Switch \/ UNCHANGED cpuvars)
    BY <1>1, <2>2 DEF IInv, Control, CpuTypeOK, QueueMaskHeld, Ring, RingConsistent,
       SeenStillTrue, Switch, queuevars, cpuvars
  <2>. QED  BY <1>1, <2>1, <2>2 DEF QueueNext
<1>. QED  BY <1>1, QueueInitIInv, PTL DEF QueueSpec

-----------------------------------------------------------------------------
\* The count is the distance between the indices, within the capacity.
THEOREM RingStaysConsistent == QueueSpec => []RingConsistent
<1>1. IInv => RingConsistent
  BY DEF IInv, Ring
<1>. QED  BY <1>1, QueueSpecIInv, PTL

\* Queue_Send and Queue_Receive implement a bounded FIFO: every step is a send,
\* a receive or no step of the abstract channel.
THEOREM ImplementsFifo == QueueSpec => FifoOrder
<1>1. CpuInit /\ QueueInit => Fifo!Init
  BY ContentsIsSequence DEF QueueInit, Fifo!Init
<1>2. ASSUME IInv, [QueueNext]_<<cpuvars, queuevars>>
      PROVE  [Fifo!Next]_Fifo!vars
  <2>1. ASSUME NEW t \in Thread, SendPut(t)
        PROVE  Fifo!Next
    <3>1. Len(Contents) = fill
      BY <1>2, ContentsIsSequence DEF IInv, Ring, RingConsistent
    <3>. QED  BY <1>2, <2>1, <3>1, SendAppends DEF Fifo!Next, Fifo!Send
  <2>2. ASSUME NEW t \in Thread, ReceiveGet(t)
        PROVE  Fifo!Next
    BY <1>2, <2>2, ReceiveTakes DEF Fifo!Next, Fifo!Receive
  <2>3. ASSUME NEW t \in Thread,
               QueueCall(t) \/ QueueRetry(t) \/ QueueSpin(t) \/ QueueReady(t)
        PROVE  UNCHANGED Fifo!vars
    BY <1>2, <2>3, RingUntouched DEF Fifo!vars
  <2>4. CASE UNCHANGED queuevars
    BY <2>4 DEF queuevars, Fifo!vars, Contents
  <2>. QED  BY <1>2, <2>1, <2>2, <2>3, <2>4 DEF QueueNext, QueueStep
<1>. QED  BY <1>1, <1>2, QueueSpecIInv, PTL DEF QueueSpec, FifoOrder, Fifo!Spec
=============================================================================
