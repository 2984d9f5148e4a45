----------------------------- MODULE MessageQueue -----------------------------
(***************************************************************************)
(* One queue of the message bus (src/src/bus/message_bus.c): a ring buffer *)
(* that doubles when it is full, guarded by one mutex, with a condition    *)
(* variable on which receivers sleep.  The bus is three of these queues    *)
(* (inbound, outbound, internal) that share nothing.                       *)
(*                                                                         *)
(* Each critical section of the mutex is one action.  A receiver that      *)
(* finds the queue empty sleeps in pthread_cond_wait, and takes the mutex  *)
(* again in a later action.                                                *)
(***************************************************************************)
EXTENDS Integers, Sequences, FiniteSets

CONSTANTS Producers,          \* threads that send
          Blocking,           \* threads that call message_queue_receive in a loop
          Polling,            \* threads that call message_queue_receive_timed in a loop
          InitialCapacity,    \* slots allocated by message_queue_init (16)
          MaxSends,           \* bound: messages each producer offers
          Garbage             \* content of a slot that was never written

ASSUME CapacityAssumption == InitialCapacity \in Nat \ {0}
ASSUME BoundAssumption == MaxSends \in Nat
ASSUME ThreadsAssumption ==
    /\ Blocking \cap Polling = {}
    /\ IsFiniteSet(Blocking \cup Polling)
    /\ Garbage \notin Producers \X (1..MaxSends)

Consumers == Blocking \cup Polling

\* A message is told apart by its sender and its number among that sender's.
Message == Producers \X (1..MaxSends)

VARIABLES items, front, rear, capacity, closed,   \* struct MessageQueue
          freed,      \* message_queue_free has run
          consumer,   \* where each receiver is
          sent,       \* messages each producer has offered
          refused,    \* messages freed by the queue instead of being received
          accepted,   \* history: messages stored, in order
          delivered   \* history: messages returned, in order

ring == <<items, front, rear, capacity>>
vars == <<items, front, rear, capacity, closed, freed, consumer, sent,
          refused, accepted, delivered>>

-----------------------------------------------------------------------------
(* The ring buffer.  One slot always stays free: front = rear is "empty".  *)

Empty == front = rear
\* Mutant: the write index runs past the last slot.
NextRearNoWrap == rear + 1

NextRear == (rear + 1) % capacity
Full == NextRear = front

\* Messages held, and the slot of the i-th of them, counting from 0.
Count == (rear + capacity - front) % capacity
Slot(i) == (front + i) % capacity

Init ==
    /\ capacity = InitialCapacity
    /\ items = [i \in 0..InitialCapacity - 1 |-> Garbage]
    /\ front = 0
    /\ rear = 0
    /\ closed = FALSE
    /\ freed = FALSE
    /\ consumer = [c \in Consumers |-> "idle"]
    /\ sent = [p \in Producers |-> 0]
    /\ refused = {}
    /\ accepted = << >>
    /\ delivered = << >>

-----------------------------------------------------------------------------
(* Sleeping receivers.                                                     *)

Waiting == {c \in Consumers : consumer[c] = "waiting"}
Woken == {c \in Consumers : consumer[c] = "woken"}

\* Mutant: a send that wakes nobody.
SignalForgotten == consumer' = consumer

\* pthread_cond_signal: one sleeper, if there is one, will compete for the mutex.
Signal ==
    IF Waiting = {}
    THEN consumer' = consumer
    ELSE \E c \in Waiting : consumer' = [consumer EXCEPT ![c] = "woken"]

\* pthread_cond_broadcast
Broadcast ==
    consumer' = [c \in Consumers |-> IF c \in Waiting THEN "woken" ELSE consumer[c]]

-----------------------------------------------------------------------------
(* message_queue_send: the branches that store the message.                *)

\* Store into a ring that has room.
StoreInPlace(m) ==
    /\ ~Full
    /\ items' = [items EXCEPT ![rear] = m]
    /\ rear' = NextRear
    /\ UNCHANGED <<front, capacity>>

\* Mutant: the larger ring is filled from slot 0 of the old one, not from front.
StoreGrownUnrotated(m) ==
    /\ Full
    /\ capacity' = 2 * capacity
    /\ items' = [i \in 0..2 * capacity - 1 |->
                    IF i < Count THEN items[i]
                    ELSE IF i = Count THEN m ELSE Garbage]
    /\ front' = 0
    /\ rear' = (Count + 1) % (2 * capacity)

\* A full ring is copied, oldest first, to the start of one twice as large.
StoreGrown(m) ==
    /\ Full
    /\ capacity' = 2 * capacity
    /\ items' = [i \in 0..2 * capacity - 1 |->
                    IF i < Count THEN items[Slot(i)]
                    ELSE IF i = Count THEN m ELSE Garbage]
    /\ front' = 0
    /\ rear' = (Count + 1) % (2 * capacity)

\* Mutant: the refusing path forgets to free the message.
RefuseLeaks(m) ==
    /\ closed \/ Full
    /\ UNCHANGED <<items, front, rear, capacity, consumer, accepted, refused>>

\* A message refused because the queue is closed, or because the larger ring
\* cannot be allocated, is freed at once.
Refuse(m) ==
    /\ closed \/ Full
    /\ refused' = refused \cup {m}
    /\ UNCHANGED <<items, front, rear, capacity, consumer, accepted>>

\* Mutant: the closed flag is not tested.
StoreUnchecked(m) ==
    /\ StoreInPlace(m) \/ StoreGrown(m)
    /\ Signal
    /\ accepted' = Append(accepted, m)
    /\ UNCHANGED refused

\* Store the message in an open queue and wake a receiver.
Store(m) ==
    /\ ~closed
    /\ StoreInPlace(m) \/ StoreGrown(m)
    /\ Signal
    /\ accepted' = Append(accepted, m)
    /\ UNCHANGED refused

Send(p) ==
    LET m == <<p, sent[p] + 1>>
    IN  /\ ~freed
        /\ sent[p] < MaxSends
        /\ sent' = [sent EXCEPT ![p] = @ + 1]
        /\ Refuse(m) \/ Store(m)
        /\ UNCHANGED <<closed, freed, delivered>>

-----------------------------------------------------------------------------
(* message_queue_receive and message_queue_receive_timed.                  *)

\* Take the oldest message and return it.
Take(c) ==
    /\ ~Empty
    /\ delivered' = Append(delivered, items[front])
    /\ front' = (front + 1) % capacity
    /\ consumer' = [consumer EXCEPT ![c] = "idle"]
    /\ UNCHANGED <<items, rear, capacity>>

\* Return NULL.  The outbound thread then sees the queue closed and leaves its
\* loop; a polling thread comes back later.
ReturnNull(c) ==
    /\ Empty
    /\ closed
    /\ consumer' = [consumer EXCEPT ![c] = IF c \in Blocking THEN "done" ELSE "idle"]
    /\ UNCHANGED <<items, front, rear, capacity, delivered>>

Sleep(c) ==
    /\ Empty
    /\ ~closed
    /\ consumer' = [consumer EXCEPT ![c] = "waiting"]
    /\ UNCHANGED <<items, front, rear, capacity, delivered>>

\* Mutant: a closed queue is taken for an empty one.
ReceiveOpenOnly(c) ==
    /\ ~freed
    /\ consumer[c] \in {"idle", "woken"}
    /\ \/ ~closed /\ (Take(c) \/ Sleep(c))
       \/ /\ closed
          /\ consumer' = [consumer EXCEPT ![c] = IF c \in Blocking THEN "done" ELSE "idle"]
          /\ UNCHANGED <<items, front, rear, capacity, delivered>>
    /\ UNCHANGED <<closed, freed, sent, refused, accepted>>

\* A receiver that holds the mutex, on entry or on return from the wait.
Receive(c) ==
    /\ ~freed
    /\ consumer[c] \in {"idle", "woken"}
    /\ Take(c) \/ ReturnNull(c) \/ Sleep(c)
    /\ UNCHANGED <<closed, freed, sent, refused, accepted>>

\* pthread_cond_timedwait returns ETIMEDOUT and the call returns NULL without
\* another look at the queue.
TimeOut(c) ==
    /\ c \in Polling
    /\ consumer[c] = "waiting"
    /\ consumer' = [consumer EXCEPT ![c] = "idle"]
    /\ UNCHANGED <<items, front, rear, capacity, closed, freed, sent, refused,
                   accepted, delivered>>

\* A wait may end without a signal; the loop around it tests again.
SpuriousWake(c) ==
    /\ consumer[c] = "waiting"
    /\ consumer' = [consumer EXCEPT ![c] = "woken"]
    /\ UNCHANGED <<items, front, rear, capacity, closed, freed, sent, refused,
                   accepted, delivered>>

-----------------------------------------------------------------------------
(* message_queue_close, and message_queue_free.                            *)

\* Mutant: closing without waking the sleepers.
CloseSilently ==
    /\ ~freed
    /\ closed' = TRUE
    /\ UNCHANGED <<items, front, rear, capacity, freed, consumer, sent, refused,
                   accepted, delivered>>

Close ==
    /\ ~freed
    /\ closed' = TRUE
    /\ Broadcast
    /\ UNCHANGED <<items, front, rear, capacity, freed, sent, refused, accepted,
                   delivered>>

\* The owner frees the queue when no thread is inside a call on it: the threads
\* have been joined.  What is left in the ring is freed with it.
Free ==
    /\ ~freed
    /\ \A c \in Consumers : consumer[c] \in {"idle", "done"}
    /\ closed' = TRUE
    /\ freed' = TRUE
    /\ refused' = refused \cup {items[Slot(i)] : i \in 0..Count - 1}
    /\ items' = [i \in {} |-> Garbage]
    /\ capacity' = 0
    /\ front' = 0
    /\ rear' = 0
    /\ UNCHANGED <<consumer, sent, accepted, delivered>>

\* Nothing is called on a queue that is gone.
Gone == freed /\ UNCHANGED vars

Next ==
    \/ \E p \in Producers : Send(p)
    \/ \E c \in Consumers : Receive(c) \/ TimeOut(c) \/ SpuriousWake(c)
    \/ Close
    \/ Free
    \/ Gone

Spec == Init /\ [][Next]_vars

\* A receiving thread calls again and again and gets the mutex when it wants it,
\* and a timed wait ends.  Nothing forces a send, a close or the release.
Fairness == \A c \in Consumers : WF_vars(Receive(c)) /\ WF_vars(TimeOut(c))

FairSpec == Spec /\ Fairness

-----------------------------------------------------------------------------
(* Properties.                                                             *)

\* Types of the variables.  The indices stay inside the allocated slots while
\* the queue exists.
TypeOK ==
    /\ capacity \in Nat
    /\ items \in [0..capacity - 1 -> Message \cup {Garbage}]
    /\ ~freed => capacity > 0 /\ front \in 0..capacity - 1 /\ rear \in 0..capacity - 1
    /\ closed \in BOOLEAN
    /\ freed \in BOOLEAN
    /\ consumer \in [Consumers -> {"idle", "waiting", "woken", "done"}]
    /\ sent \in [Producers -> 0..MaxSends]
    /\ refused \subseteq Message \cup {Garbage}
    /\ accepted \in Seq(Message)
    /\ delivered \in Seq(Message \cup {Garbage})

\* Across wrap-around and growth the ring holds exactly the messages accepted
\* and not yet delivered, in the order they were sent: none is lost, repeated,
\* overwritten or replaced by an uninitialised slot
\* (message_queue_send, message_queue_receive).
FifoInv ==
    /\ Len(delivered) <= Len(accepted)
    /\ \A i \in 1..Len(delivered) : delivered[i] = accepted[i]
    /\ ~freed => /\ Len(accepted) = Len(delivered) + Count
                 /\ \A i \in 0..Count - 1 :
                        items[Slot(i)] = accepted[Len(delivered) + i + 1]

\* No wake-up is lost: if a receiver sleeps, every message in the ring has a
\* woken receiver on its way to the mutex to fetch it; and nobody sleeps on a
\* closed queue (pthread_cond_signal in send, broadcast in close).
NoLostWakeup ==
    ~freed /\ Waiting # {} => ~closed /\ Count <= Cardinality(Woken)

\* Every message offered is owned by exactly one place: the ring, a receiver
\* that must free it, or the queue that has freed it.  Owned twice is a double
\* free, owned nowhere a leak (message_free_by_kind on every refusing path).
OwnedOnce ==
    \A p \in Producers : \A n \in 1..MaxSends :
        LET m == <<p, n>>
            inRing == ~freed /\ \E i \in 0..Count - 1 : items[Slot(i)] = m
            received == \E i \in 1..Len(delivered) : delivered[i] = m
        IN  IF n > sent[p]
            THEN ~inRing /\ ~received /\ m \notin refused
            ELSE /\ inRing \/ received \/ m \in refused
                 /\ ~(inRing /\ received)
                 /\ m \in refused => ~inRing /\ ~received

\* The queue behaves as an unbounded FIFO channel.
Fifo == INSTANCE FifoChannel WITH released <- freed
ImplementsFifo == Fifo!Spec

\* A message that was accepted is received in the end, or freed with the queue:
\* a sleeping receiver is woken for it, and closing does not strand it.
AcceptedIsConsumed ==
    \A m \in Message :
        (\E i \in 1..Len(accepted) : accepted[i] = m)
            ~> (freed \/ \E i \in 1..Len(delivered) : delivered[i] = m)

\* Once the queue is closed every outbound thread leaves its loop: main's
\* pthread_join(outbound_tid) after message_bus_close returns.
CloseEndsReceivers ==
    closed ~> (freed \/ \A c \in Blocking : consumer[c] = "done")

\* No message and no receiver is left waiting.
QueueLive == AcceptedIsConsumed /\ CloseEndsReceivers
=============================================================================
