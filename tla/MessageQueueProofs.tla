-------------------------- MODULE MessageQueueProofs --------------------------
(***************************************************************************)
(* For every number of producers and receivers, every initial capacity and *)
(* every number of sends, the ring buffer of the message bus is a FIFO     *)
(* channel.                                                                *)
(***************************************************************************)
EXTENDS MessageQueue, FiniteSetTheorems, TLAPS

\* The number of slots from f up to r, going round a ring of c slots.
LEMMA WrapDistance ==
    ASSUME NEW c \in Nat \ {0}, NEW f \in 0..c - 1, NEW r \in 0..c - 1
    PROVE  (r + c - f) % c = IF f <= r THEN r - f ELSE r + c - f
<1>1. CASE f <= r
  BY <1>1
<1>2. CASE f > r
  BY <1>2
<1> QED
  BY <1>1, <1>2

\* The slot i places after f, going round a ring of c slots.
LEMMA WrapStep ==
    ASSUME NEW c \in Nat \ {0}, NEW f \in 0..c - 1, NEW i \in 0..c - 1
    PROVE  (f + i) % c = IF f + i < c THEN f + i ELSE f + i - c
<1>1. CASE f + i < c
  BY <1>1
<1>2. CASE f + i >= c
  BY <1>2
<1> QED
  BY <1>1, <1>2

\* The ring of a queue in use, with every % resolved.
RingFacts ==
           /\ capacity \in Nat \ {0}
           /\ front \in 0..capacity - 1
           /\ rear \in 0..capacity - 1
           /\ Count = IF front <= rear THEN rear - front ELSE rear + capacity - front
           /\ Count \in 0..capacity - 1
           /\ NextRear = IF rear + 1 = capacity THEN 0 ELSE rear + 1
           /\ Full <=> Count = capacity - 1
           /\ Empty <=> Count = 0
           /\ (front + 1) % capacity = IF front + 1 = capacity THEN 0 ELSE front + 1
           /\ \A i \in 0..capacity - 1 :
                 Slot(i) = IF front + i < capacity THEN front + i ELSE front + i - capacity

\* While the queue exists the ring's operators have their values in linear arithmetic.
LEMMA RingArithmetic == TypeOK /\ ~freed => RingFacts
<1> SUFFICES ASSUME TypeOK, ~freed PROVE RingFacts
  OBVIOUS
<1>1. /\ capacity \in Nat \ {0}
      /\ front \in 0..capacity - 1
      /\ rear \in 0..capacity - 1
  BY DEF TypeOK
<1>2. Count = IF front <= rear THEN rear - front ELSE rear + capacity - front
  BY <1>1, WrapDistance DEF Count
<1>3. Count \in 0..capacity - 1
  BY <1>1, <1>2
<1>4. NextRear = IF rear + 1 = capacity THEN 0 ELSE rear + 1
  <2>1. CASE rear + 1 = capacity
    BY <1>1, <2>1 DEF NextRear
  <2>2. CASE rear + 1 # capacity
    BY <1>1, <2>2 DEF NextRear
  <2> QED
    BY <2>1, <2>2
<1>5. (front + 1) % capacity = IF front + 1 = capacity THEN 0 ELSE front + 1
  <2>1. CASE front + 1 = capacity
    BY <1>1, <2>1
  <2>2. CASE front + 1 # capacity
    BY <1>1, <2>2
  <2> QED
    BY <2>1, <2>2
<1>6. ASSUME NEW i \in 0..capacity - 1
      PROVE  Slot(i) = IF front + i < capacity THEN front + i ELSE front + i - capacity
  BY <1>1, WrapStep DEF Slot
<1>7. (Full <=> Count = capacity - 1) /\ (Empty <=> Count = 0)
  BY <1>1, <1>2, <1>4 DEF Full, Empty
<1> QED
  BY <1>1, <1>2, <1>3, <1>4, <1>5, <1>6, <1>7 DEF RingFacts

-----------------------------------------------------------------------------

\* The invariant that is inductive: types and FIFO order need each other.
IInv == TypeOK /\ FifoInv

\* An empty ring of InitialCapacity slots satisfies the inductive invariant.
LEMMA InitIInv == Init => IInv
<1> SUFFICES ASSUME Init PROVE IInv
  OBVIOUS
<1>1. TypeOK
  <2>1. items \in [0..capacity - 1 -> Message \cup {Garbage}]
    BY DEF Init
  <2>2. sent \in [Producers -> 0..MaxSends]
    BY BoundAssumption DEF Init
  <2>3. consumer \in [Consumers -> {"idle", "waiting", "woken", "done"}]
    BY DEF Init
  <2>4. capacity \in Nat /\ capacity > 0 /\ front \in 0..capacity - 1 /\ rear \in 0..capacity - 1
    BY CapacityAssumption DEF Init
  <2>5. closed \in BOOLEAN /\ freed \in BOOLEAN /\ refused \subseteq Message \cup {Garbage}
    BY DEF Init
  <2>6. accepted \in Seq(Message) /\ delivered \in Seq(Message \cup {Garbage})
    BY DEF Init
  <2> QED
    BY <2>1, <2>2, <2>3, <2>4, <2>5, <2>6 DEF TypeOK
<1>2. ~freed /\ Count = 0
  BY <1>1, RingArithmetic DEF Init, RingFacts
<1>3. FifoInv
  BY <1>2 DEF Init, FifoInv
<1> QED
  BY <1>1, <1>3 DEF IInv

\* Storing a message makes it the last of the ring's contents.
LEMMA StorePreserves ==
    ASSUME IInv, ~freed, freed' = freed, NEW m \in Message,
           StoreInPlace(m) \/ StoreGrown(m),
           accepted' = Append(accepted, m), UNCHANGED delivered
    PROVE  /\ capacity' \in Nat \ {0}
           /\ items' \in [0..capacity' - 1 -> Message \cup {Garbage}]
           /\ front' \in 0..capacity' - 1
           /\ rear' \in 0..capacity' - 1
           /\ accepted' \in Seq(Message)
           /\ FifoInv'
<1>0. RingFacts /\ FifoInv /\ items \in [0..capacity - 1 -> Message \cup {Garbage}]
  BY RingArithmetic DEF IInv, TypeOK
<1>a. /\ Len(accepted) = Len(delivered) + Count
      /\ delivered' = delivered
      /\ Count \in Nat /\ Len(delivered) \in Nat /\ Len(accepted) \in Nat
  BY <1>0 DEF FifoInv, RingFacts, IInv, TypeOK
<1>1. accepted \in Seq(Message) /\ delivered \in Seq(Message \cup {Garbage})
  BY DEF IInv, TypeOK
<1>2. /\ accepted' \in Seq(Message)
      /\ Len(accepted') = Len(accepted) + 1
      /\ accepted'[Len(accepted) + 1] = m
      /\ \A i \in 1..Len(accepted) : accepted'[i] = accepted[i]
  BY <1>1
<1>3. CASE StoreInPlace(m)
  <2>1. /\ capacity' = capacity /\ front' = front
        /\ rear' = NextRear
        /\ items' = [items EXCEPT ![rear] = m]
        /\ Count # capacity - 1
    BY <1>0, <1>3 DEF StoreInPlace, RingFacts
  <2>2. /\ capacity' \in Nat \ {0}
        /\ front' \in 0..capacity' - 1
        /\ rear' \in 0..capacity' - 1
        /\ items' \in [0..capacity' - 1 -> Message \cup {Garbage}]
    BY <1>0, <2>1 DEF RingFacts
  <2>3. Count' = Count + 1
    <3>1. Count' = IF front' <= rear' THEN rear' - front' ELSE rear' + capacity' - front'
      BY <2>2, WrapDistance DEF Count
    <3> QED
      BY <1>0, <2>1, <3>1 DEF RingFacts
  <2>4. ASSUME NEW i \in 0..Count
        PROVE  items'[Slot(i)'] = accepted'[Len(delivered) + i + 1]
    <3>1. Slot(i)' = Slot(i)
      BY <2>1 DEF Slot
    <3>2. i \in 0..capacity - 1
      BY <1>0 DEF RingFacts
    <3>3. Slot(i) \in 0..capacity - 1 /\ (Slot(i) = rear <=> i = Count)
      <4>1. Slot(i) = IF front + i < capacity THEN front + i ELSE front + i - capacity
        BY <1>0, <3>2 DEF RingFacts
      <4>2. /\ Count = IF front <= rear THEN rear - front ELSE rear + capacity - front
            /\ front \in 0..capacity - 1 /\ rear \in 0..capacity - 1 /\ capacity \in Nat
        BY <1>0 DEF RingFacts
      <4> QED
        BY <4>1, <4>2, <3>2
    <3>4. CASE i = Count
      BY <1>0, <2>1, <3>1, <3>3, <3>4, <1>1, <1>2 DEF FifoInv, RingFacts
    <3>5. CASE i # Count
      <4>1. i \in 0..Count - 1
        BY <1>0, <3>5 DEF RingFacts
      <4>2. items[Slot(i)] = accepted[Len(delivered) + i + 1]
        BY <1>0, <4>1 DEF FifoInv, RingFacts
      <4>3. items'[Slot(i)] = items[Slot(i)]
        BY <1>0, <2>1, <3>3, <3>5 DEF RingFacts
      <4>4. Len(delivered) + i + 1 \in 1..Len(accepted)
        BY <1>0, <4>1, <1>1, SMTT(20) DEF FifoInv, RingFacts
      <4> QED
        BY <4>2, <4>3, <4>4, <3>1, <1>2
    <3> QED
      BY <3>4, <3>5
  <2>5. FifoInv'
    <3>1. Len(accepted') = Len(delivered') + Count'
      BY <1>a, <2>3, <1>2
    <3>2. \A i \in 0..Count' - 1 : items'[Slot(i)'] = accepted'[Len(delivered') + i + 1]
      BY <1>a, <2>3, <2>4
    <3>3. /\ Len(delivered') <= Len(accepted')
          /\ \A i \in 1..Len(delivered') : delivered'[i] = accepted'[i]
      BY <1>0, <1>1, <1>2 DEF FifoInv
    <3> QED
      BY <3>1, <3>2, <3>3 DEF FifoInv, Slot
  <2> QED
    BY <2>2, <2>5, <1>2
<1>4. CASE StoreGrown(m)
  <2>1. /\ capacity' = 2 * capacity /\ front' = 0
        /\ rear' = (Count + 1) % (2 * capacity)
        /\ Count = capacity - 1
    BY <1>0, <1>4 DEF StoreGrown, RingFacts
  <2>2. rear' = capacity
    <3>1. Count + 1 = capacity /\ capacity \in Nat \ {0}
      BY <1>0, <2>1 DEF RingFacts
    <3> QED
      BY <2>1, <3>1
  <2>3. \A i \in 0..Count : Slot(i) \in 0..capacity - 1
    BY <1>0, <2>1 DEF RingFacts
  <2>4. items' = [i \in 0..2 * capacity - 1 |->
                    IF i < Count THEN items[Slot(i)] ELSE IF i = Count THEN m ELSE Garbage]
    BY <1>0, <1>4 DEF StoreGrown, RingFacts
  <2>5. items' \in [0..capacity' - 1 -> Message \cup {Garbage}]
    <3>1. \A i \in 0..Count : items[Slot(i)] \in Message \cup {Garbage}
      BY <1>0, <2>3
    <3>2. \A i \in 0..2 * capacity - 1 : i < Count => i \in 0..Count
      BY <1>a
    <3> QED
      BY <2>1, <2>4, <3>1, <3>2
  <2>6. /\ capacity' \in Nat \ {0}
        /\ front' \in 0..capacity' - 1
        /\ rear' \in 0..capacity' - 1
    BY <1>0, <2>1, <2>2 DEF RingFacts
  <2>7. Count' = Count + 1
    <3>1. front' <= rear'
      BY <1>0, <2>1, <2>2 DEF RingFacts
    <3>2. Count' = IF front' <= rear' THEN rear' - front' ELSE rear' + capacity' - front'
      BY <2>6, WrapDistance DEF Count
    <3> QED
      BY <1>0, <2>1, <2>2, <3>1, <3>2 DEF RingFacts
  <2>8. ASSUME NEW i \in 0..Count
        PROVE  items'[Slot(i)'] = accepted'[Len(delivered) + i + 1]
    <3>1. Slot(i)' = i
      <4>1. i \in 0..capacity' - 1
        BY <1>0, <2>1 DEF RingFacts
      <4>2. Slot(i)' = IF front' + i < capacity' THEN front' + i ELSE front' + i - capacity'
        BY <4>1, <2>6, WrapStep DEF Slot
      <4> QED
        BY <4>1, <4>2, <2>1, <2>6
    <3>2. i \in 0..2 * capacity - 1
      BY <1>0, <2>1 DEF RingFacts
    <3>3. CASE i = Count
      <4>1. items'[i] = m
        BY <1>0, <2>4, <3>2, <3>3 DEF RingFacts
      <4> QED
        BY <1>0, <4>1, <3>1, <3>3, <1>1, <1>2 DEF FifoInv, RingFacts
    <3>4. CASE i # Count
      <4>1. i \in 0..Count - 1
        BY <1>0, <3>4 DEF RingFacts
      <4>2. items[Slot(i)] = accepted[Len(delivered) + i + 1]
        BY <1>0, <4>1 DEF FifoInv, RingFacts
      <4>3. items'[i] = items[Slot(i)]
        BY <1>0, <2>4, <3>2, <4>1 DEF RingFacts
      <4>4. Len(delivered) + i + 1 \in 1..Len(accepted)
        BY <1>0, <4>1, <1>1, SMTT(20) DEF FifoInv, RingFacts
      <4> QED
        BY <4>2, <4>3, <4>4, <3>1, <1>2
    <3> QED
      BY <3>3, <3>4
  <2>9. FifoInv'
    <3>1. Len(accepted') = Len(delivered') + Count'
      BY <1>a, <2>7, <1>2
    <3>2. \A i \in 0..Count' - 1 : items'[Slot(i)'] = accepted'[Len(delivered') + i + 1]
      BY <1>a, <2>7, <2>8
    <3>3. /\ Len(delivered') <= Len(accepted')
          /\ \A i \in 1..Len(delivered') : delivered'[i] = accepted'[i]
      BY <1>0, <1>1, <1>2 DEF FifoInv
    <3> QED
      BY <3>1, <3>2, <3>3 DEF FifoInv, Slot
  <2> QED
    BY <2>5, <2>6, <2>9, <1>2
<1> QED
  BY <1>3, <1>4

\* Taking a message makes it the next of the delivered ones.
LEMMA TakePreserves ==
    ASSUME IInv, ~freed, freed' = freed, NEW c \in Consumers, Take(c), UNCHANGED accepted
    PROVE  /\ front' \in 0..capacity - 1
           /\ delivered' = Append(delivered, accepted[Len(delivered) + 1])
           /\ delivered' \in Seq(Message \cup {Garbage})
           /\ Len(delivered) < Len(accepted)
           /\ FifoInv'
<1>1. /\ RingFacts /\ FifoInv
      /\ accepted \in Seq(Message)
      /\ delivered \in Seq(Message \cup {Garbage})
      /\ items \in [0..capacity - 1 -> Message \cup {Garbage}]
  BY RingArithmetic DEF IInv, TypeOK
<1>2. /\ Len(accepted) = Len(delivered) + Count
      /\ Count \in Nat /\ Len(delivered) \in Nat /\ Len(accepted) \in Nat
  BY <1>1 DEF FifoInv, RingFacts
<1>3. Count > 0 /\ Count \in 0..capacity - 1 /\ capacity \in Nat
  BY <1>1, <1>2 DEF Take, RingFacts
<1>4. /\ front' = IF front + 1 = capacity THEN 0 ELSE front + 1
      /\ rear' = rear /\ capacity' = capacity /\ items' = items
  BY <1>1 DEF Take, RingFacts
<1>5. /\ capacity' \in Nat \ {0}
      /\ front' \in 0..capacity' - 1
      /\ rear' \in 0..capacity' - 1
  BY <1>1, <1>4 DEF RingFacts
<1>6. Count' = Count - 1
  <2>1. Count' = IF front' <= rear' THEN rear' - front' ELSE rear' + capacity' - front'
    BY <1>5, WrapDistance DEF Count
  <2>2. /\ Count = IF front <= rear THEN rear - front ELSE rear + capacity - front
        /\ front \in 0..capacity - 1 /\ rear \in 0..capacity - 1
    BY <1>1 DEF RingFacts
  <2> QED
    BY <2>1, <2>2, <1>3, <1>4
<1>7. items[front] = accepted[Len(delivered) + 1]
  <2>1. 0 \in 0..Count - 1
    BY <1>3
  <2>2. Slot(0) = front
    BY <1>1, <1>3 DEF RingFacts
  <2>3. items[Slot(0)] = accepted[Len(delivered) + 0 + 1]
    BY <1>1, <2>1 DEF FifoInv
  <2> QED
    BY <1>2, <2>2, <2>3
<1>8. delivered' = Append(delivered, accepted[Len(delivered) + 1])
  BY <1>7 DEF Take
<1>9. accepted[Len(delivered) + 1] \in Message /\ Len(delivered) < Len(accepted)
  BY <1>1, <1>2, <1>3
<1>10. /\ delivered' \in Seq(Message \cup {Garbage})
       /\ Len(delivered') = Len(delivered) + 1
       /\ delivered'[Len(delivered) + 1] = accepted[Len(delivered) + 1]
       /\ \A i \in 1..Len(delivered) : delivered'[i] = delivered[i]
  BY <1>1, <1>8, <1>9
<1>11. ASSUME NEW i \in 0..Count' - 1
       PROVE  items'[Slot(i)'] = accepted'[Len(delivered') + i + 1]
  <2>1. i \in 0..capacity' - 1 /\ i + 1 \in 0..capacity - 1 /\ i + 1 \in 0..Count - 1
    BY <1>3, <1>4, <1>6
  <2>2. Slot(i)' = IF front' + i < capacity' THEN front' + i ELSE front' + i - capacity'
    BY <2>1, <1>5, WrapStep DEF Slot
  <2>3. Slot(i + 1) = IF front + (i + 1) < capacity THEN front + (i + 1) ELSE front + (i + 1) - capacity
    BY <2>1, <1>1 DEF RingFacts
  <2>a. front \in 0..capacity - 1 /\ capacity \in Nat
    BY <1>1 DEF RingFacts
  <2>4. Slot(i)' = Slot(i + 1)
    BY <2>1, <2>2, <2>3, <2>a, <1>4
  <2>5. items[Slot(i + 1)] = accepted[Len(delivered) + (i + 1) + 1]
    BY <2>1, <1>1 DEF FifoInv
  <2> QED
    BY <2>1, <2>4, <2>5, <1>2, <1>4, <1>10
<1>12. FifoInv'
  <2>1. Len(accepted') = Len(delivered') + Count'
    BY <1>2, <1>6, <1>10
  <2>2. Len(delivered') <= Len(accepted')
    BY <1>2, <1>9, <1>10
  <2>3. \A i \in 1..Len(delivered') : delivered'[i] = accepted'[i]
    <3>1. \A i \in 1..Len(delivered) : delivered[i] = accepted[i]
      BY <1>1 DEF FifoInv
    <3> QED
      BY <3>1, <1>2, <1>10
  <2>4. \A i \in 0..Count' - 1 : items'[Slot(i)'] = accepted'[Len(delivered') + i + 1]
    BY <1>11
  <2> QED
    BY <2>1, <2>2, <2>3, <2>4 DEF FifoInv, Slot
<1> QED
  BY <1>4, <1>5, <1>8, <1>9, <1>10, <1>12

-----------------------------------------------------------------------------

\* Steps of the condition variable keep every receiver in a known place.
LEMMA SignalType ==
    ASSUME consumer \in [Consumers -> {"idle", "waiting", "woken", "done"}],
           Signal \/ Broadcast
    PROVE  consumer' \in [Consumers -> {"idle", "waiting", "woken", "done"}]
  BY DEF Signal, Broadcast, Waiting

\* Every critical section of the queue preserves the inductive invariant.
LEMMA NextIInv == IInv /\ [Next]_vars => IInv'
<1> SUFFICES ASSUME IInv, [Next]_vars PROVE IInv'
  OBVIOUS
<1>0. TypeOK /\ FifoInv
  BY DEF IInv
<1>1. ASSUME NEW p \in Producers, Send(p) PROVE IInv'
  <2> DEFINE m == <<p, sent[p] + 1>>
  <2>1. /\ m \in Message
        /\ sent' \in [Producers -> 0..MaxSends]
        /\ ~freed /\ UNCHANGED <<closed, freed, delivered>>
    BY <1>0, <1>1, BoundAssumption DEF Send, TypeOK, Message
  <2>2. CASE Refuse(m)
    BY <1>0, <2>1, <2>2 DEF IInv, Refuse, TypeOK, FifoInv, Count, Slot
  <2>3. CASE Store(m)
    <3>1. StoreInPlace(m) \/ StoreGrown(m)
      BY <2>3 DEF Store
    <3>2. accepted' = Append(accepted, m) /\ UNCHANGED refused /\ Signal
      BY <2>3 DEF Store
    <3> HIDE DEF m
    <3>3. /\ capacity' \in Nat \ {0}
          /\ items' \in [0..capacity' - 1 -> Message \cup {Garbage}]
          /\ front' \in 0..capacity' - 1
          /\ rear' \in 0..capacity' - 1
          /\ accepted' \in Seq(Message)
          /\ FifoInv'
      BY <2>1, <3>1, <3>2, StorePreserves
    <3>4. consumer' \in [Consumers -> {"idle", "waiting", "woken", "done"}]
      BY <1>0, <3>2, SignalType DEF TypeOK
    <3>5. /\ closed' \in BOOLEAN /\ freed' \in BOOLEAN
          /\ refused' \subseteq Message \cup {Garbage}
          /\ delivered' \in Seq(Message \cup {Garbage})
      BY <1>0, <2>1, <3>2 DEF TypeOK
    <3>6. capacity' \in Nat /\ capacity' > 0
      BY <3>3
    <3>7. TypeOK'
      <4>1. sent' \in [Producers -> 0..MaxSends]
        BY <2>1
      <4> QED
        BY <3>3, <3>4, <3>5, <3>6, <4>1 DEF TypeOK
    <3> QED
      BY <3>3, <3>7 DEF IInv
  <2> QED
    BY <1>1, <2>2, <2>3 DEF Send
<1>2. ASSUME NEW c \in Consumers, Receive(c) PROVE IInv'
  <2>1. ~freed /\ UNCHANGED <<closed, freed, sent, refused, accepted>>
    BY <1>2 DEF Receive
  <2>2. CASE Take(c)
    <3>1. /\ front' \in 0..capacity - 1
          /\ delivered' \in Seq(Message \cup {Garbage})
          /\ FifoInv'
      BY <2>1, <2>2, TakePreserves
    <3>2. /\ UNCHANGED <<items, rear, capacity>>
          /\ consumer' \in [Consumers -> {"idle", "waiting", "woken", "done"}]
      BY <1>0, <2>2 DEF Take, TypeOK
    <3> QED
      BY <1>0, <2>1, <3>1, <3>2 DEF IInv, TypeOK
  <2>3. CASE ReturnNull(c)
    BY <1>0, <2>1, <2>3 DEF ReturnNull, IInv, TypeOK, FifoInv, Count, Slot
  <2>4. CASE Sleep(c)
    BY <1>0, <2>1, <2>4 DEF Sleep, IInv, TypeOK, FifoInv, Count, Slot
  <2> QED
    BY <1>2, <2>2, <2>3, <2>4 DEF Receive
<1>3. ASSUME NEW c \in Consumers, TimeOut(c) \/ SpuriousWake(c) PROVE IInv'
  BY <1>0, <1>3 DEF TimeOut, SpuriousWake, IInv, TypeOK, FifoInv, Count, Slot
<1>4. CASE Close
  <2>1. consumer' \in [Consumers -> {"idle", "waiting", "woken", "done"}]
    BY <1>0, <1>4, SignalType DEF Close, TypeOK
  <2> QED
    BY <1>0, <1>4, <2>1 DEF Close, IInv, TypeOK, FifoInv, Count, Slot
<1>5. CASE Free
  <2>1. RingFacts
    BY <1>0, <1>5, RingArithmetic DEF Free
  <2>2. \A i \in 0..Count - 1 : items[Slot(i)] \in Message \cup {Garbage}
    <3>1. \A i \in 0..Count - 1 : Slot(i) \in 0..capacity - 1
      BY <2>1 DEF RingFacts
    <3> QED
      BY <1>0, <3>1 DEF TypeOK
  <2>3. refused' \subseteq Message \cup {Garbage}
    BY <1>0, <1>5, <2>2 DEF Free, TypeOK
  <2>4. items' \in [0..capacity' - 1 -> Message \cup {Garbage}] /\ capacity' \in Nat
    BY <1>5 DEF Free
  <2> QED
    BY <1>0, <1>5, <2>3, <2>4 DEF Free, IInv, TypeOK, FifoInv
<1>6. CASE UNCHANGED vars
  BY <1>0, <1>6 DEF vars, IInv, TypeOK, FifoInv, Count, Slot
<1> QED
  BY <1>1, <1>2, <1>3, <1>4, <1>5, <1>6 DEF Next, Gone

\* Every index stays inside the allocated ring and every variable keeps its type,
\* for every initial capacity and any number of threads and messages.
THEOREM TypeCorrect == Spec => []TypeOK
<1>1. IInv => TypeOK
  BY DEF IInv
<1> QED
  BY <1>1, InitIInv, NextIInv, PTL DEF Spec

\* The ring buffer loses, repeats and reorders nothing, whatever the interleaving
\* of senders and receivers and however often it wraps and grows.
THEOREM FifoOrder == Spec => []FifoInv
<1>1. IInv => FifoInv
  BY DEF IInv
<1> QED
  BY <1>1, InitIInv, NextIInv, PTL DEF Spec

\* Each step of the queue is a step of the FIFO channel or leaves it alone.
\* Refused sends, sleeping, time-outs and wake-ups are invisible to it.
THEOREM ImplementsFifoChannel == Spec => ImplementsFifo
<1>1. Init => Fifo!Init
  BY DEF Init, Fifo!Init
<1>2. IInv /\ [Next]_vars => [Fifo!Next]_(Fifo!fifoVars)
  <2> SUFFICES ASSUME IInv, [Next]_vars
               PROVE  Fifo!Next \/ UNCHANGED Fifo!fifoVars
    BY DEF Fifo!fifoVars
  <2>0. TypeOK /\ FifoInv
    BY DEF IInv
  <2>1. ASSUME NEW p \in Producers, Send(p)
        PROVE  Fifo!Next \/ UNCHANGED Fifo!fifoVars
    <3> DEFINE m == <<p, sent[p] + 1>>
    <3>1. m \in Message
      BY <2>0, <2>1, BoundAssumption DEF Send, TypeOK, Message
    <3>2. CASE Refuse(m)
      BY <2>1, <3>2 DEF Send, Refuse, Fifo!fifoVars
    <3>3. CASE Store(m)
      <4>1. Fifo!Accept(m)
        BY <2>1, <3>3 DEF Send, Store, Fifo!Accept
      <4> QED
        BY <3>1, <4>1 DEF Fifo!Next
    <3> QED
      BY <2>1, <3>2, <3>3 DEF Send
  <2>2. ASSUME NEW c \in Consumers, Receive(c)
        PROVE  Fifo!Next \/ UNCHANGED Fifo!fifoVars
    <3>1. CASE Take(c)
      <4>1. /\ delivered' = Append(delivered, accepted[Len(delivered) + 1])
            /\ Len(delivered) < Len(accepted)
        BY <2>2, <3>1, TakePreserves DEF Receive
      <4>2. Fifo!Deliver
        BY <2>2, <4>1 DEF Receive, Fifo!Deliver
      <4> QED
        BY <4>2 DEF Fifo!Next
    <3>2. CASE ReturnNull(c) \/ Sleep(c)
      BY <2>2, <3>2 DEF Receive, ReturnNull, Sleep, Fifo!fifoVars
    <3> QED
      BY <2>2, <3>1, <3>2 DEF Receive
  <2>3. ASSUME NEW c \in Consumers, TimeOut(c) \/ SpuriousWake(c)
        PROVE  UNCHANGED Fifo!fifoVars
    BY <2>3 DEF TimeOut, SpuriousWake, Fifo!fifoVars
  <2>4. CASE Close
    BY <2>4 DEF Close, Fifo!Close, Fifo!Next
  <2>5. CASE Free
    BY <2>5 DEF Free, Fifo!Release, Fifo!Next
  <2>6. CASE UNCHANGED vars
    BY <2>6 DEF vars, Fifo!fifoVars
  <2> QED
    BY <2>1, <2>2, <2>3, <2>4, <2>5, <2>6 DEF Next, Gone
<1> QED
  BY <1>1, <1>2, InitIInv, NextIInv, PTL DEF Spec, ImplementsFifo, Fifo!Spec

-----------------------------------------------------------------------------

\* The ring's content is what separates the two histories, before a step and after it.
CountFacts ==
    /\ Count = Len(accepted) - Len(delivered)
    /\ Count \in Nat /\ Len(accepted) \in Nat /\ Len(delivered) \in Nat

\* So it is in every state of the inductive invariant.
LEMMA CountIsDifference == IInv /\ ~freed => CountFacts
<1> SUFFICES ASSUME IInv, ~freed PROVE CountFacts
  OBVIOUS
<1>1. RingFacts /\ FifoInv
  BY RingArithmetic DEF IInv
<1>2. Len(accepted) \in Nat /\ Len(delivered) \in Nat
  BY DEF IInv, TypeOK
<1> QED
  BY <1>1, <1>2 DEF FifoInv, RingFacts, CountFacts

\* There are finitely many woken receivers.
LEMMA WokenFinite == IsFiniteSet(Woken) /\ Cardinality(Woken) \in Nat
<1>1. IsFiniteSet(Consumers)
  BY ThreadsAssumption DEF Consumers
<1>2. Woken \subseteq Consumers
  BY DEF Woken
<1>3. IsFiniteSet(Woken)
  BY <1>1, <1>2, FS_Subset
<1> QED
  BY <1>3, FS_CardinalityType

\* A sleeper that is woken is one woken receiver more and one sleeper less.
LEMMA WakeOne ==
    ASSUME consumer \in [Consumers -> {"idle", "waiting", "woken", "done"}],
           NEW c \in Waiting,
           consumer' = [consumer EXCEPT ![c] = "woken"]
    PROVE  /\ Waiting' = Waiting \ {c}
           /\ Cardinality(Woken') = Cardinality(Woken) + 1
<1>1. Waiting' = Waiting \ {c} /\ Woken' = Woken \cup {c} /\ c \notin Woken
  BY DEF Waiting, Woken
<1>2. IsFiniteSet(Woken)
  BY WokenFinite
<1>3. Cardinality(Woken \cup {c}) = Cardinality(Woken) + 1
  BY <1>1, <1>2, FS_AddElement
<1> QED
  BY <1>1, <1>3

\* The wake-ups in flight are enough after every step: a send adds a message and,
\* if somebody sleeps, a woken receiver; a receive takes at most one of each.
LEMMA NextWakeup == IInv /\ NoLostWakeup /\ [Next]_vars => NoLostWakeup'
<1> SUFFICES ASSUME IInv, NoLostWakeup, [Next]_vars, ~freed', Waiting' # {}
             PROVE  ~closed' /\ Count' <= Cardinality(Woken')
  BY DEF NoLostWakeup
<1>0. IInv'
  BY NextIInv
<1>a. consumer \in [Consumers -> {"idle", "waiting", "woken", "done"}]
  BY DEF IInv, TypeOK
<1>b. /\ Count' = Len(accepted') - Len(delivered')
      /\ Count' \in Nat /\ Len(accepted') \in Nat /\ Len(delivered') \in Nat
  <2>1. CountFacts'
    BY <1>0, CountIsDifference, PTL
  <2> QED
    BY <2>1 DEF CountFacts
<1>c. Cardinality(Woken) \in Nat /\ Cardinality(Woken') \in Nat
  <2>1. (IsFiniteSet(Woken) /\ Cardinality(Woken) \in Nat)'
    BY WokenFinite, PTL
  <2> QED
    BY <2>1, WokenFinite
<1>d. ~freed => /\ Count = Len(accepted) - Len(delivered)
                /\ Count \in Nat /\ Len(accepted) \in Nat /\ Len(delivered) \in Nat
  BY CountIsDifference DEF CountFacts
<1>1. ASSUME NEW p \in Producers, Send(p) PROVE ~closed' /\ Count' <= Cardinality(Woken')
  <2> DEFINE m == <<p, sent[p] + 1>>
  <2>1. ~freed /\ UNCHANGED <<closed, freed, delivered>> /\ (Refuse(m) \/ Store(m))
    BY <1>1 DEF Send
  <2>2. CASE Refuse(m)
    <3>1. Waiting' = Waiting /\ Woken' = Woken /\ Count' = Count
      BY <2>2 DEF Refuse, Waiting, Woken, Count
    <3> QED
      BY <2>1, <3>1 DEF NoLostWakeup
  <2>3. CASE Store(m)
    <3>1. accepted' = Append(accepted, m) /\ accepted \in Seq(Message) /\ Signal
      BY <2>3 DEF Store, IInv, TypeOK
    <3>2. Len(accepted') = Len(accepted) + 1
      BY <3>1
    <3>3. Count' = Count + 1
      BY <1>b, <1>d, <2>1, <3>2
    <3>4. Waiting # {}
      <4>1. Waiting = {} => Waiting' = {}
        BY <3>1 DEF Signal, Waiting
      <4> QED
        BY <4>1
    <3>5. PICK c \in Waiting : consumer' = [consumer EXCEPT ![c] = "woken"]
      BY <3>1, <3>4 DEF Signal
    <3>6. Cardinality(Woken') = Cardinality(Woken) + 1
      BY <1>a, <3>5, WakeOne
    <3>7. ~closed /\ Count <= Cardinality(Woken)
      BY <2>1, <3>4 DEF NoLostWakeup
    <3> QED
      BY <1>c, <1>d, <2>1, <3>3, <3>6, <3>7
  <2> QED
    BY <2>1, <2>2, <2>3
<1>2. ASSUME NEW c \in Consumers, Receive(c) PROVE ~closed' /\ Count' <= Cardinality(Woken')
  <2>1. ~freed /\ UNCHANGED <<closed, freed, sent, refused, accepted>>
    BY <1>2 DEF Receive
  <2>2. CASE Take(c)
    <3>1. Waiting' = Waiting /\ Woken' = Woken \ {c}
      BY <1>a, <1>2, <2>2 DEF Receive, Take, Waiting, Woken
    <3>2. Cardinality(Woken') >= Cardinality(Woken) - 1
      <4>1. IsFiniteSet(Woken)
        BY WokenFinite
      <4>2. CASE c \in Woken
        <5>1. Cardinality(Woken \ {c}) = Cardinality(Woken) - 1
          BY <4>1, <4>2, FS_RemoveElement
        <5> QED
          BY <1>c, <3>1, <5>1
      <4>3. CASE c \notin Woken
        <5>1. Woken' = Woken
          BY <3>1, <4>3
        <5> QED
          BY <5>1, <1>c
      <4> QED
        BY <4>2, <4>3
    <3>3. Len(delivered') = Len(delivered) + 1
      <4>1. delivered' = Append(delivered, items[front]) /\ delivered \in Seq(Message \cup {Garbage})
        BY <2>2 DEF Take, IInv, TypeOK
      <4> QED
        BY <4>1
    <3>4. ~closed /\ Count <= Cardinality(Woken)
      BY <2>1, <3>1 DEF NoLostWakeup
    <3> QED
      BY <1>b, <1>c, <1>d, <2>1, <3>2, <3>3, <3>4
  <2>3. CASE ReturnNull(c)
    <3>1. Waiting' = {}
      BY <1>a, <2>1, <2>3 DEF ReturnNull, Waiting, NoLostWakeup
    <3> QED
      BY <3>1
  <2>4. CASE Sleep(c)
    <3>1. Empty' /\ ~closed'
      BY <2>1, <2>4 DEF Sleep, Empty
    <3>2. Count' = 0
      <4>1. TypeOK'
        BY <1>0 DEF IInv
      <4>2. RingFacts'
        BY <4>1, RingArithmetic, PTL
      <4> QED
        BY <3>1, <4>2 DEF RingFacts
    <3> QED
      BY <1>c, <3>1, <3>2
  <2> QED
    BY <1>2, <2>2, <2>3, <2>4 DEF Receive
<1>3. ASSUME NEW c \in Consumers, TimeOut(c) PROVE ~closed' /\ Count' <= Cardinality(Woken')
  <2>1. Woken' = Woken /\ Waiting # {} /\ ~freed /\ Count' = Count /\ closed' = closed
    BY <1>a, <1>3 DEF TimeOut, Waiting, Woken, Count
  <2> QED
    BY <2>1 DEF NoLostWakeup
<1>4. ASSUME NEW c \in Consumers, SpuriousWake(c) PROVE ~closed' /\ Count' <= Cardinality(Woken')
  <2>1. c \in Waiting /\ ~freed /\ Count' = Count /\ closed' = closed
    BY <1>4 DEF SpuriousWake, Waiting, Count
  <2>2. Cardinality(Woken') = Cardinality(Woken) + 1
    BY <1>a, <1>4, <2>1, WakeOne DEF SpuriousWake
  <2>3. ~closed /\ Count <= Cardinality(Woken)
    BY <2>1 DEF NoLostWakeup
  <2> QED
    BY <1>c, <1>d, <2>1, <2>2, <2>3
<1>5. CASE Close
  <2>1. Waiting' = {}
    BY <1>a, <1>5 DEF Close, Broadcast, Waiting
  <2> QED
    BY <2>1
<1>6. CASE Free
  BY <1>6 DEF Free
<1>7. CASE UNCHANGED vars
  <2>1. Waiting' = Waiting /\ Woken' = Woken /\ Count' = Count /\ ~freed /\ closed' = closed
    BY <1>7 DEF vars, Waiting, Woken, Count
  <2> QED
    BY <2>1 DEF NoLostWakeup
<1> QED
  BY <1>1, <1>2, <1>3, <1>4, <1>5, <1>6, <1>7 DEF Next, Gone

\* No receiver sleeps past a message or past the closing of the queue, for any
\* number of receivers, blocking and polling, and any sequence of time-outs and
\* spurious wake-ups.
THEOREM WakeupsSuffice == Spec => []NoLostWakeup
<1>1. Init => NoLostWakeup
  BY DEF Init, NoLostWakeup, Waiting
<1> QED
  BY <1>1, InitIInv, NextIInv, NextWakeup, PTL DEF Spec

-----------------------------------------------------------------------------

\* Who owns a message, said of the histories instead of the ring: no message is
\* accepted twice or before it is offered, every one offered is accepted or
\* refused, and one that is refused was neither received nor, while the queue
\* exists, accepted.  Freeing the queue refuses what was accepted and not received.
OwnInv ==
    /\ \A i, j \in 1..Len(accepted) : accepted[i] = accepted[j] => i = j
    /\ \A i \in 1..Len(accepted) : accepted[i][2] <= sent[accepted[i][1]]
    /\ \A p \in Producers : \A n \in 1..sent[p] :
          <<p, n>> \in refused \/ \E i \in 1..Len(accepted) : accepted[i] = <<p, n>>
    /\ \A m \in refused : m \in Message /\ m[2] <= sent[m[1]]
    /\ \A i \in 1..Len(delivered) : accepted[i] \notin refused
    /\ ~freed => \A i \in 1..Len(accepted) : accepted[i] \notin refused
    /\ freed => \A i \in Len(delivered) + 1..Len(accepted) : accepted[i] \in refused

\* Ownership by the histories is preserved by every step.
LEMMA NextOwnInv == IInv /\ OwnInv /\ [Next]_vars => OwnInv'
<1> SUFFICES ASSUME IInv, OwnInv, [Next]_vars PROVE OwnInv'
  OBVIOUS
<1>0. /\ accepted \in Seq(Message) /\ delivered \in Seq(Message \cup {Garbage})
      /\ sent \in [Producers -> 0..MaxSends]
      /\ Len(delivered) <= Len(accepted)
      /\ Len(delivered) \in Nat /\ Len(accepted) \in Nat
      /\ MaxSends \in Nat
  BY BoundAssumption DEF IInv, TypeOK, FifoInv
<1>a. \A i \in 1..Len(accepted) : /\ accepted[i] \in Message
                                  /\ accepted[i][1] \in Producers
                                  /\ accepted[i][2] \in 1..MaxSends
  <2>1. \A i \in 1..Len(accepted) : accepted[i] \in Message
    BY <1>0
  <2> QED
    BY <2>1 DEF Message
<1>1. ASSUME NEW p \in Producers, Send(p) PROVE OwnInv'
  <2> DEFINE m == <<p, sent[p] + 1>>
  <2>1. /\ m \in Message /\ m[1] = p /\ m[2] = sent[p] + 1
        /\ sent' = [sent EXCEPT ![p] = @ + 1]
        /\ ~freed /\ UNCHANGED <<closed, freed, delivered>>
    BY <1>0, <1>1 DEF Send, Message
  <2>2. m \notin refused /\ \A i \in 1..Len(accepted) : accepted[i] # m
    BY <1>0, <2>1 DEF OwnInv
  <2>3. sent' \in [Producers -> Nat] /\ \A q \in Producers : sent'[q] = IF q = p THEN sent[p] + 1 ELSE sent[q]
    BY <1>0, <2>1
  <2>4. \A q \in Producers : \A n \in 1..sent'[q] : n \in 1..sent[q] \/ <<q, n>> = m
    BY <1>0, <2>3
  <2>b. \A x \in Message : x[2] <= sent[x[1]] => x[2] <= sent'[x[1]]
    <3> SUFFICES ASSUME NEW x \in Message, x[2] <= sent[x[1]] PROVE x[2] <= sent'[x[1]]
      OBVIOUS
    <3>1. x[1] \in Producers /\ x[2] \in Nat
      BY <1>0 DEF Message
    <3>2. sent[x[1]] \in Nat /\ sent'[x[1]] \in Nat /\ sent[x[1]] <= sent'[x[1]]
      BY <1>0, <2>3, <3>1, SMTT(20)
    <3> QED
      BY <3>1, <3>2
  <2>5. CASE Refuse(m)
    <3>1. refused' = refused \cup {m} /\ accepted' = accepted
      BY <2>5 DEF Refuse
    <3> HIDE DEF m
    <3>2. \A i \in 1..Len(accepted') : accepted'[i][2] <= sent'[accepted'[i][1]]
      BY <1>a, <2>b, <3>1 DEF OwnInv
    <3>3. \A q \in Producers : \A n \in 1..sent'[q] :
            <<q, n>> \in refused' \/ \E i \in 1..Len(accepted') : accepted'[i] = <<q, n>>
      BY <2>4, <3>1 DEF OwnInv
    <3>4. \A x \in refused' : x \in Message /\ x[2] <= sent'[x[1]]
      <4>1. \A x \in refused : x \in Message /\ x[2] <= sent[x[1]]
        BY DEF OwnInv
      <4>2. \A x \in refused : x[2] <= sent'[x[1]]
        BY <2>b, <4>1
      <4>3. m[2] <= sent'[m[1]]
        BY <1>0, <2>1, <2>3
      <4> QED
        BY <2>1, <3>1, <4>1, <4>2, <4>3
    <3>5. /\ \A i \in 1..Len(delivered') : accepted'[i] \notin refused'
          /\ \A i \in 1..Len(accepted') : accepted'[i] \notin refused'
      BY <1>0, <2>1, <2>2, <3>1 DEF OwnInv
    <3> QED
      BY <2>1, <3>1, <3>2, <3>3, <3>4, <3>5 DEF OwnInv
  <2>6. CASE Store(m)
    <3>1. accepted' = Append(accepted, m) /\ refused' = refused
      BY <2>6 DEF Store
    <3> HIDE DEF m
    <3>2. /\ Len(accepted') = Len(accepted) + 1
          /\ accepted'[Len(accepted) + 1] = m
          /\ \A i \in 1..Len(accepted) : accepted'[i] = accepted[i]
      BY <1>0, <2>1, <3>1
    <3>a. \A i \in 1..Len(accepted') : i \in 1..Len(accepted) \/ i = Len(accepted) + 1
      BY <1>0, <3>2
    <3>3. \A i, j \in 1..Len(accepted') : accepted'[i] = accepted'[j] => i = j
      BY <2>2, <3>2, <3>a DEF OwnInv
    <3>4. \A i \in 1..Len(accepted') : accepted'[i][2] <= sent'[accepted'[i][1]]
      <4>1. \A i \in 1..Len(accepted) : accepted[i][2] <= sent'[accepted[i][1]]
        BY <1>a, <2>b DEF OwnInv
      <4>2. m[2] <= sent'[m[1]]
        BY <1>0, <2>1, <2>3
      <4> QED
        BY <3>2, <3>a, <4>1, <4>2
    <3>5. \A q \in Producers : \A n \in 1..sent'[q] :
            <<q, n>> \in refused' \/ \E i \in 1..Len(accepted') : accepted'[i] = <<q, n>>
      <4>1. /\ 1..Len(accepted) \subseteq 1..Len(accepted')
            /\ Len(accepted) + 1 \in 1..Len(accepted')
        BY <1>0, <3>2
      <4>2. \A q \in Producers : \A n \in 1..sent[q] :
               <<q, n>> \in refused \/ \E i \in 1..Len(accepted) : accepted[i] = <<q, n>>
        BY DEF OwnInv
      <4> QED
        BY <2>4, <3>1, <3>2, <4>1, <4>2
    <3>6. \A x \in refused' : x \in Message /\ x[2] <= sent'[x[1]]
      <4>1. \A x \in refused : x \in Message /\ x[2] <= sent[x[1]]
        BY DEF OwnInv
      <4> QED
        BY <2>b, <3>1, <4>1
    <3>7. \A i \in 1..Len(accepted') : accepted'[i] \notin refused'
      BY <2>1, <2>2, <3>1, <3>2, <3>a DEF OwnInv
    <3>8. \A i \in 1..Len(delivered') : accepted'[i] \notin refused'
      <4>1. 1..Len(delivered') \subseteq 1..Len(accepted')
        BY <1>0, <2>1, <3>2
      <4> QED
        BY <3>7, <4>1
    <3> QED
      BY <2>1, <3>3, <3>4, <3>5, <3>6, <3>7, <3>8 DEF OwnInv
  <2> QED
    BY <1>1, <2>5, <2>6 DEF Send
<1>2. ASSUME NEW c \in Consumers, Receive(c) PROVE OwnInv'
  <2>1. ~freed /\ UNCHANGED <<closed, freed, sent, refused, accepted>>
    BY <1>2 DEF Receive
  <2>2. 1..Len(delivered') \subseteq 1..Len(accepted)
    <3>1. IInv'
      BY NextIInv
    <3>2. Len(delivered') <= Len(accepted') /\ Len(delivered') \in Nat
      BY <3>1 DEF IInv, FifoInv, TypeOK
    <3> QED
      BY <1>0, <2>1, <3>2
  <2> QED
    BY <2>1, <2>2 DEF OwnInv
<1>3. ASSUME NEW c \in Consumers, TimeOut(c) \/ SpuriousWake(c) PROVE OwnInv'
  <2>1. UNCHANGED <<freed, sent, refused, accepted, delivered>>
    BY <1>3 DEF TimeOut, SpuriousWake
  <2> QED
    BY <2>1 DEF OwnInv
<1>4. CASE Close
  BY <1>4 DEF Close, OwnInv
<1>5. CASE Free
  <2>1. /\ ~freed /\ freed' /\ UNCHANGED <<sent, accepted, delivered>>
        /\ refused' = refused \cup {items[Slot(i)] : i \in 0..Count - 1}
    BY <1>5 DEF Free
  <2>2. CountFacts
    BY <2>1, CountIsDifference
  <2>3. \A i \in 0..Count - 1 : items[Slot(i)] = accepted[Len(delivered) + i + 1]
    BY <2>1 DEF IInv, FifoInv
  <2>4. \A x \in refused' : \/ x \in refused
                            \/ \E j \in Len(delivered) + 1..Len(accepted) : x = accepted[j]
    <3>1. \A i \in 0..Count - 1 : Len(delivered) + i + 1 \in Len(delivered) + 1..Len(accepted)
      BY <2>2 DEF CountFacts
    <3> QED
      BY <2>1, <2>3, <3>1
  <2>5. \A j \in Len(delivered) + 1..Len(accepted) : accepted[j] \in refused'
    <3> SUFFICES ASSUME NEW j \in Len(delivered) + 1..Len(accepted)
                 PROVE  accepted[j] \in refused'
      OBVIOUS
    <3>1. PICK i \in 0..Count - 1 : j = Len(delivered) + i + 1
      <4>1. j - Len(delivered) - 1 \in 0..Count - 1
        BY <2>2 DEF CountFacts
      <4>2. j = Len(delivered) + (j - Len(delivered) - 1) + 1
        BY <2>2 DEF CountFacts
      <4> QED
        BY <4>1, <4>2
    <3>2. items[Slot(i)] = accepted[j]
      BY <2>3, <3>1
    <3> QED
      BY <2>1, <3>2
  <2>6. \A x \in refused' : x \in Message /\ x[2] <= sent[x[1]]
    <3>1. Len(delivered) + 1..Len(accepted) \subseteq 1..Len(accepted)
      BY <1>0
    <3> QED
      BY <1>a, <2>4, <3>1 DEF OwnInv
  <2>7. \A i \in 1..Len(delivered) : accepted[i] \notin refused'
    <3>1. \A i \in 1..Len(delivered) :
             /\ i \in 1..Len(accepted) /\ i \notin Len(delivered) + 1..Len(accepted)
      BY <1>0
    <3>2. Len(delivered) + 1..Len(accepted) \subseteq 1..Len(accepted)
      BY <1>0
    <3> QED
      BY <2>4, <3>1, <3>2 DEF OwnInv
  <2>8. refused \subseteq refused'
    BY <2>1
  <2>9. \A p \in Producers : \A n \in 1..sent[p] :
          <<p, n>> \in refused' \/ \E i \in 1..Len(accepted) : accepted[i] = <<p, n>>
    BY <2>8 DEF OwnInv
  <2> QED
    BY <2>1, <2>5, <2>6, <2>7, <2>9 DEF OwnInv
<1>6. CASE UNCHANGED vars
  BY <1>6 DEF vars, OwnInv
<1> QED
  BY <1>1, <1>2, <1>3, <1>4, <1>5, <1>6 DEF Next, Gone

\* Read through the ring, ownership by the histories is ownership by one place.
LEMMA OwnInvGivesOwnedOnce == IInv /\ OwnInv => OwnedOnce
<1> SUFFICES ASSUME IInv, OwnInv, NEW p \in Producers, NEW n \in 1..MaxSends
             PROVE  LET m == <<p, n>>
                        inRing == ~freed /\ \E i \in 0..Count - 1 : items[Slot(i)] = m
                        received == \E i \in 1..Len(delivered) : delivered[i] = m
                    IN  IF n > sent[p]
                        THEN ~inRing /\ ~received /\ m \notin refused
                        ELSE /\ inRing \/ received \/ m \in refused
                             /\ ~(inRing /\ received)
                             /\ m \in refused => ~inRing /\ ~received
  BY DEF OwnedOnce
<1> DEFINE m == <<p, n>>
           inRing == ~freed /\ \E i \in 0..Count - 1 : items[Slot(i)] = m
           received == \E i \in 1..Len(delivered) : delivered[i] = m
           early == \E i \in 1..Len(delivered) : accepted[i] = m
           late == \E i \in Len(delivered) + 1..Len(accepted) : accepted[i] = m
<1>0. /\ Len(delivered) <= Len(accepted)
      /\ Len(delivered) \in Nat /\ Len(accepted) \in Nat
      /\ sent[p] \in Nat /\ n \in Nat /\ n >= 1 /\ MaxSends \in Nat
  BY BoundAssumption DEF IInv, TypeOK, FifoInv
<1>1. received <=> early
  BY DEF IInv, FifoInv
<1>2. inRing <=> ~freed /\ late
  <2> SUFFICES ASSUME ~freed
               PROVE  (\E i \in 0..Count - 1 : items[Slot(i)] = m) <=> late
    OBVIOUS
  <2>1. CountFacts
    BY CountIsDifference
  <2>2. \A i \in 0..Count - 1 : items[Slot(i)] = accepted[Len(delivered) + i + 1]
    BY DEF IInv, FifoInv
  <2>3. \A i \in 0..Count - 1 : Len(delivered) + i + 1 \in Len(delivered) + 1..Len(accepted)
    BY <2>1 DEF CountFacts
  <2>4. \A j \in Len(delivered) + 1..Len(accepted) :
           /\ j - Len(delivered) - 1 \in 0..Count - 1
           /\ j = Len(delivered) + (j - Len(delivered) - 1) + 1
    BY <2>1 DEF CountFacts
  <2> HIDE DEF m
  <2>5. ASSUME NEW i \in 0..Count - 1, items[Slot(i)] = m PROVE late
    BY <2>2, <2>3, <2>5
  <2>6. ASSUME NEW j \in Len(delivered) + 1..Len(accepted), accepted[j] = m
        PROVE  \E i \in 0..Count - 1 : items[Slot(i)] = m
    BY <2>2, <2>4, <2>6
  <2> QED
    BY <2>5, <2>6
<1>3. m[1] = p /\ m[2] = n
  OBVIOUS
<1>4. \A i \in 1..Len(accepted) : i \in 1..Len(delivered) \/ i \in Len(delivered) + 1..Len(accepted)
  BY <1>0
<1>5. /\ 1..Len(delivered) \subseteq 1..Len(accepted)
      /\ Len(delivered) + 1..Len(accepted) \subseteq 1..Len(accepted)
      /\ \A i \in 1..Len(delivered) : i \notin Len(delivered) + 1..Len(accepted)
  BY <1>0
<1>6. ~(early /\ late)
  BY <1>5 DEF OwnInv
<1>7. n > sent[p] => ~early /\ ~late /\ m \notin refused
  <2>1. \A i \in 1..Len(accepted) : accepted[i] = m => n <= sent[p]
    BY <1>3 DEF OwnInv
  <2>2. m \in refused => n <= sent[p]
    BY <1>3 DEF OwnInv
  <2> QED
    BY <1>0, <1>5, <2>1, <2>2, SMTT(20)
<1>8. ~(n > sent[p]) => early \/ late \/ m \in refused
  <2>1. ~(n > sent[p]) => n \in 1..sent[p]
    BY <1>0
  <2> HIDE DEF m
  <2>2. ~(n > sent[p]) => m \in refused \/ \E i \in 1..Len(accepted) : accepted[i] = m
    BY <2>1 DEF OwnInv, m
  <2> QED
    BY <1>4, <2>2
<1>9. m \in refused => ~early /\ (late => freed)
  BY <1>5 DEF OwnInv
<1>10. late /\ freed => m \in refused
  BY DEF OwnInv
<1> HIDE DEF m, inRing, received, early, late
<1>11. IF n > sent[p]
       THEN ~inRing /\ ~received /\ m \notin refused
       ELSE /\ inRing \/ received \/ m \in refused
            /\ ~(inRing /\ received)
            /\ m \in refused => ~inRing /\ ~received
  BY <1>1, <1>2, <1>6, <1>7, <1>8, <1>9, <1>10
<1> QED
  BY <1>11 DEF m, inRing, received

\* No message is freed twice and none is leaked, for any number of threads and
\* messages: refused, received and freed with the queue are exclusive, and one of
\* them comes true of every message offered.
THEOREM EveryMessageOwnedOnce == Spec => []OwnedOnce
<1>1. Init => OwnInv
  BY DEF Init, OwnInv
<1> QED
  BY <1>1, InitIInv, NextIInv, NextOwnInv, OwnInvGivesOwnedOnce, PTL DEF Spec
=============================================================================
