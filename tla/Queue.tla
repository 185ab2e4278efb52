------------------------------- MODULE Queue --------------------------------
(***************************************************************************)
(* Queue_Send and Queue_Receive (Src/rtos/queue.c): a ring buffer with     *)
(* head, tail and count, updated with interrupts masked.  Slots are        *)
(* numbered from 0, as in the code; an item is copied by memcpy inside the *)
(* critical section, so the copy and the index updates are one step.       *)
(***************************************************************************)
EXTENDS Cpu, Integers, Sequences

CONSTANTS Item,       \* the items tasks exchange
          NoItem,     \* what memory holds before an item is written to it
          Capacity    \* q->capacity

ASSUME QueueAssumption == Capacity \in Nat \ {0}

Slot == 0 .. Capacity - 1

VARIABLES buffer, head, tail, fill,   \* Queue_t (fill is q->count)
          sending,                    \* the item of each thread's Queue_Send, NoItem outside
          received,                   \* where each thread's Queue_Receive copies to
          qpc                         \* where each thread stands

queuevars == <<buffer, head, tail, fill, sending, received, qpc>>

QueuePlace == {"out", "send", "sendretry", "put", "receive", "receiveretry", "get"}

QueueInit == /\ buffer = [s \in Slot |-> NoItem]
             /\ head = 0 /\ tail = 0 /\ fill = 0
             /\ sending = [t \in Thread |-> NoItem]
             /\ received = [t \in Thread |-> NoItem]
             /\ qpc = [t \in Thread |-> "out"]

QGoto(t, from, to) == /\ on_cpu = t
                      /\ qpc[t] \in from
                      /\ qpc' = [qpc EXCEPT ![t] = to]

ring == <<buffer, head, tail, fill>>

SendCall(t, v) == /\ QGoto(t, {"out"}, "send")
                  /\ sending' = [sending EXCEPT ![t] = v]
                  /\ Mask
                  /\ UNCHANGED <<ring, received>>

ReceiveCall(t) == /\ QGoto(t, {"out"}, "receive")
                  /\ Mask
                  /\ UNCHANGED <<ring, sending, received>>

\* The "cpsid i" after the yield.
QueueRetry(t) == /\ \/ QGoto(t, {"sendretry"}, "send")
                    \/ QGoto(t, {"receiveretry"}, "receive")
                 /\ Mask
                 /\ UNCHANGED <<ring, sending, received>>

\* The loop condition holds: the queue is full, or empty.
QueueSpin(t) == /\ \/ fill = Capacity /\ QGoto(t, {"send"}, "sendretry")
                   \/ fill = 0 /\ QGoto(t, {"receive"}, "receiveretry")
                /\ UnmaskAndYield
                /\ UNCHANGED <<ring, sending, received>>

QueueReady(t) == /\ \/ fill # Capacity /\ QGoto(t, {"send"}, "put")
                    \/ fill # 0 /\ QGoto(t, {"receive"}, "get")
                 /\ UNCHANGED <<ring, sending, received, on_cpu, primask>>

SendPut(t) == /\ QGoto(t, {"put"}, "out")
              /\ buffer' = [buffer EXCEPT ![tail] = sending[t]]
              /\ tail' = (tail + 1) % Capacity
              /\ fill' = fill + 1
              /\ sending' = [sending EXCEPT ![t] = NoItem]
              /\ Unmask
              /\ UNCHANGED <<head, received>>

\* Seeded fault: the read index is advanced before the item is copied.
GetAfterAdvance(t) == /\ QGoto(t, {"get"}, "out")
                      /\ received' = [received EXCEPT ![t] = buffer[(head + 1) % Capacity]]
                      /\ head' = (head + 1) % Capacity
                      /\ fill' = fill - 1
                      /\ Unmask
                      /\ UNCHANGED <<buffer, tail, sending>>

ReceiveGet(t) == /\ QGoto(t, {"get"}, "out")
                 /\ received' = [received EXCEPT ![t] = buffer[head]]
                 /\ head' = (head + 1) % Capacity
                 /\ fill' = fill - 1
                 /\ Unmask
                 /\ UNCHANGED <<buffer, tail, sending>>

QueueStep(t) == \/ QueueRetry(t) \/ QueueSpin(t) \/ QueueReady(t)
                \/ SendPut(t) \/ ReceiveGet(t)

QueueCall(t) == (\E v \in Item : SendCall(t, v)) \/ ReceiveCall(t)

QueueNext == \/ \E t \in Thread : QueueCall(t) \/ QueueStep(t)
             \/ Switch /\ UNCHANGED queuevars

QueueSpec == CpuInit /\ QueueInit /\ [][QueueNext]_<<cpuvars, queuevars>>

-----------------------------------------------------------------------------
\* The count never passes the capacity nor goes below zero, and it is the
\* distance between the two indices: two senders that both saw room, or two
\* receivers that both saw an item, would break it.
RingConsistent == /\ 0 <= fill /\ fill <= Capacity
                  /\ (head + fill) % Capacity = tail

\* The items in the queue, the oldest first.
Contents == [i \in 1 .. fill |-> buffer[(head + i - 1) % Capacity]]

\* Seen from its callers the queue is a bounded FIFO: in whatever order the
\* threads are switched and however the indices wrap, each item sent is
\* received once, in the order of the sends.
Fifo == INSTANCE BoundedFifo WITH fifo <- Contents, got <- received
FifoOrder == Fifo!Spec
=============================================================================
