--------------------------- MODULE SpscQueueProofs ---------------------------
(***************************************************************************)
(* Machine-checked proofs about SpscQueue for every capacity and every     *)
(* number of items.  IInv is the inductive invariant; the four invariants  *)
(* the runs check follow from it.                                          *)
(***************************************************************************)
EXTENDS SpscQueue, TLAPS

\* size() without the remainder, and the slot j places after the oldest item.
Count == IF head <= tail THEN tail - head ELSE tail + Slots - head
Slot(i) == IF i < Slots THEN i ELSE i - Slots

\* The producer is between taking up an item and publishing it.
Pushing == ppc \in {"load", "write", "publish", "lock", "check", "full", "stopped",
                    "asleep", "woken"}

\* The mutex is held exactly while a thread evaluates its wait condition.
LockInv == /\ lock = "producer" <=> ppc \in {"check", "full", "stopped"}
           /\ lock = "consumer" <=> cpc \in {"check", "empty", "stopped"}

\* The ghost counters agree with the indices; a push past its check has a free
\* slot and a pop past its check has an item.
RingInv == /\ sent = received + Count
           /\ ppc \in {"write", "publish"} => Succ(tail) # head
           /\ cpc \in {"read", "release"} => head # tail

\* The item being pushed is the next one to be published, and the slots from
\* head to tail hold the published items in order.
ContentInv == /\ Pushing => offered = sent + 1
              /\ ppc \in {"idle", "sync", "notify"} => offered = sent
              /\ ppc = "publish" => buffer[tail] = offered
              /\ \A j \in 0 .. Slots - 1 :
                    j < Count => buffer[Slot(head + j)] = received + 1 + j
              /\ cpc = "release" => item = received + 1

\* A thread decides to sleep under the mutex, and whoever makes its condition
\* true afterwards still has to pass the mutex before it notifies.
WakeInv == /\ cpc \in {"asleep", "stopped"} /\ head # tail
                => ppc = "sync" \/ (ppc = "notify" /\ cpc = "asleep")
           /\ ppc \in {"asleep", "stopped"} /\ Succ(tail) # head
                => cpc = "sync" \/ (cpc = "notify" /\ ppc = "asleep")
           /\ stop <=> spc # "idle"
           /\ spc = "done" => ppc # "asleep" /\ cpc # "asleep"

IInv == TypeOK /\ LockInv /\ RingInv /\ ContentInv /\ WakeInv

-----------------------------------------------------------------------------
\* The remainder by which the code advances an index, without the remainder.
LEMMA SuccIs ==
    ASSUME NEW i \in 0 .. Slots - 1
    PROVE  Succ(i) = IF i = Capacity THEN 0 ELSE i + 1
<1>1. Capacity \in Nat /\ Capacity > 0 /\ Slots = Capacity + 1
  BY CapacityAssumption DEF Slots
<1>2. CASE i = Capacity
  BY <1>1, <1>2 DEF Succ
<1>3. CASE i # Capacity
  BY <1>1, <1>3 DEF Succ
<1>4. QED
  BY <1>2, <1>3

\* Where the live items are: the slots from head on, one after the other, all
\* of them in the ring and none of them the slot the producer writes next.
LEMMA LiveSlots ==
    ASSUME TypeOK
    PROVE  /\ Count \in 0 .. Capacity
           /\ Count = 0 <=> head = tail
           /\ Count = Capacity <=> Succ(tail) = head
           /\ Slot(head + Count) = tail
           /\ Slot(head + 0) = head
           /\ \A j \in 0 .. Slots - 1 :
                j < Count => /\ Slot(head + j) \in 0 .. Slots - 1
                             /\ Slot(head + j) # tail
<1>1. Capacity \in Nat /\ Capacity > 0 /\ Slots = Capacity + 1
  BY CapacityAssumption DEF Slots
<1>2. head \in 0 .. Slots - 1 /\ tail \in 0 .. Slots - 1
  BY DEF TypeOK
<1>3. Succ(tail) = IF tail = Capacity THEN 0 ELSE tail + 1
  BY <1>2, SuccIs
<1>4. QED
  BY <1>1, <1>2, <1>3 DEF Count, Slot

\* Every step of every thread preserves the invariant.  The four steps that
\* touch the ring are worked out; the others only move control.
LEMMA Step ==
    ASSUME IInv, [Next]_vars
    PROVE  IInv'
<1> USE CapacityAssumption, MaxItemsAssumption DEF None
<1>a. /\ Slots \in Nat /\ Slots = Capacity + 1 /\ Capacity > 0
      /\ TypeOK /\ LockInv /\ RingInv /\ ContentInv /\ WakeInv
  BY DEF IInv, Slots
<1>PushWait. CASE PushWait
  BY <1>a, <1>PushWait, SuccIs
  DEF PushWait, ring, IInv, TypeOK, LockInv, RingInv, ContentInv, WakeInv, Count, Slot,
      Pushing, Full, Empty, Wake, ProducerSteps, ConsumerSteps, StopperSteps
<1>PushNotify. CASE PushNotify
  BY <1>a, <1>PushNotify, SuccIs
  DEF PushNotify, ring, IInv, TypeOK, LockInv, RingInv, ContentInv, WakeInv, Count, Slot,
      Pushing, Full, Empty, Wake, ProducerSteps, ConsumerSteps, StopperSteps
<1>PushLoad. CASE PushLoad
  BY <1>a, <1>PushLoad, SuccIs
  DEF PushLoad, ring, IInv, TypeOK, LockInv, RingInv, ContentInv, WakeInv, Count, Slot,
      Pushing, Full, Empty, Wake, ProducerSteps, ConsumerSteps, StopperSteps
<1>PushWrite. CASE PushWrite
  <2>1. /\ buffer' = [buffer EXCEPT ![tail] = offered]
        /\ ppc' = "publish"
        /\ UNCHANGED <<head, tail, stop, lock, cpc, spc, offered, item, sent, received>>
    BY <1>PushWrite DEF PushWrite
  <2>2. Count' = Count
    BY <2>1 DEF Count
  <2>3. ASSUME NEW j \in 0 .. Slots - 1, j < Count
        PROVE  buffer'[Slot(head + j)] = received + 1 + j
    <3>1. Slot(head + j) \in 0 .. Slots - 1 /\ Slot(head + j) # tail
      BY <1>a, <2>3, LiveSlots
    <3>2. buffer'[Slot(head + j)] = buffer[Slot(head + j)]
      BY <1>a, <2>1, <3>1 DEF TypeOK
    <3>3. QED
      BY <1>a, <2>3, <3>2 DEF ContentInv
  <2>4. TypeOK'
    BY <1>a, <2>1 DEF TypeOK, ProducerSteps
  <2>5. LockInv' /\ RingInv' /\ WakeInv'
    BY <1>a, <1>PushWrite, <2>1, <2>2 DEF PushWrite, LockInv, RingInv, WakeInv, Succ
  <2>6. (buffer[tail])' = offered'
    BY <1>a, <2>1 DEF TypeOK
  <2>7. ContentInv'
    BY <1>a, <1>PushWrite, <2>1, <2>2, <2>3, <2>6
    DEF PushWrite, ContentInv, Pushing, Slot
  <2>8. QED
    BY <2>4, <2>5, <2>7 DEF IInv
<1>PushPublish. CASE PushPublish
  <2>1. /\ ppc = "publish" /\ ppc' = "sync"
        /\ tail' = Succ(tail)
        /\ sent' = sent + 1
        /\ UNCHANGED <<head, buffer, stop, lock, cpc, spc, offered, item, received>>
    BY <1>PushPublish DEF PushPublish
  <2>2. Succ(tail) = IF tail = Capacity THEN 0 ELSE tail + 1
    BY <1>a, SuccIs DEF TypeOK
  <2>3. TypeOK'
    BY <1>a, <2>1, <2>2 DEF TypeOK, ProducerSteps
  <2>4. Count' = Count + 1
    BY <1>a, <2>1, <2>2 DEF Count, TypeOK, RingInv
  <2>5. ASSUME NEW j \in 0 .. Slots - 1, j < Count + 1
        PROVE  buffer[Slot(head + j)] = received + 1 + j
    <3>1. CASE j < Count
      BY <1>a, <3>1 DEF ContentInv
    <3>2. CASE j = Count
      <4>1. Slot(head + j) = tail
        BY <1>a, <3>2, LiveSlots
      <4>2. buffer[tail] = sent + 1
        BY <1>a, <2>1 DEF ContentInv, Pushing
      <4>3. QED
        BY <1>a, <3>2, <4>1, <4>2 DEF RingInv, TypeOK
    <3>3. Count \in 0 .. Capacity
      BY <1>a, LiveSlots
    <3>4. QED
      BY <1>a, <2>5, <3>1, <3>2, <3>3
  <2>6. ContentInv'
    <3>1. offered' = sent'
      BY <1>a, <2>1 DEF ContentInv, Pushing
    <3>2. \A j \in 0 .. Slots - 1 :
            j < Count' => buffer'[Slot(head' + j)] = received' + 1 + j
      BY <2>1, <2>4, <2>5
    <3>3. cpc' = "release" => item' = received' + 1
      BY <1>a, <2>1 DEF ContentInv
    <3>4. QED
      BY <2>1, <3>1, <3>2, <3>3 DEF ContentInv, Pushing, Slot
  <2>7. RingInv'
    BY <1>a, <2>1, <2>2, <2>4, LiveSlots DEF RingInv, TypeOK, Count
  <2>8. LockInv' /\ WakeInv'
    BY <1>a, <2>1, <2>2 DEF LockInv, WakeInv, RingInv, TypeOK
  <2>9. QED
    BY <2>3, <2>6, <2>7, <2>8 DEF IInv
<1>PushSync. CASE PushSync
  BY <1>a, <1>PushSync, SuccIs
  DEF PushSync, ring, IInv, TypeOK, LockInv, RingInv, ContentInv, WakeInv, Count, Slot,
      Pushing, Full, Empty, Wake, ProducerSteps, ConsumerSteps, StopperSteps
<1>PushWake. CASE PushWake
  BY <1>a, <1>PushWake, SuccIs
  DEF PushWake, ring, IInv, TypeOK, LockInv, RingInv, ContentInv, WakeInv, Count, Slot,
      Pushing, Full, Empty, Wake, ProducerSteps, ConsumerSteps, StopperSteps
<1>PushLock. CASE PushLock
  BY <1>a, <1>PushLock, SuccIs
  DEF PushLock, ring, IInv, TypeOK, LockInv, RingInv, ContentInv, WakeInv, Count, Slot,
      Pushing, Full, Empty, Wake, ProducerSteps, ConsumerSteps, StopperSteps
<1>PushCheck. CASE PushCheck
  BY <1>a, <1>PushCheck, SuccIs
  DEF PushCheck, ring, IInv, TypeOK, LockInv, RingInv, ContentInv, WakeInv, Count, Slot,
      Pushing, Full, Empty, Wake, ProducerSteps, ConsumerSteps, StopperSteps
<1>PushWaitFull. CASE PushWaitFull
  BY <1>a, <1>PushWaitFull, SuccIs
  DEF PushWaitFull, ring, IInv, TypeOK, LockInv, RingInv, ContentInv, WakeInv, Count, Slot,
      Pushing, Full, Empty, Wake, ProducerSteps, ConsumerSteps, StopperSteps
<1>PushWaitStopped. CASE PushWaitStopped
  BY <1>a, <1>PushWaitStopped, SuccIs
  DEF PushWaitStopped, ring, IInv, TypeOK, LockInv, RingInv, ContentInv, WakeInv, Count, Slot,
      Pushing, Full, Empty, Wake, ProducerSteps, ConsumerSteps, StopperSteps
<1>PushRelock. CASE PushRelock
  BY <1>a, <1>PushRelock, SuccIs
  DEF PushRelock, ring, IInv, TypeOK, LockInv, RingInv, ContentInv, WakeInv, Count, Slot,
      Pushing, Full, Empty, Wake, ProducerSteps, ConsumerSteps, StopperSteps
<1>ProducerDone. CASE ProducerDone
  BY <1>a, <1>ProducerDone, SuccIs
  DEF ProducerDone, ring, IInv, TypeOK, LockInv, RingInv, ContentInv, WakeInv, Count, Slot,
      Pushing, Full, Empty, Wake, ProducerSteps, ConsumerSteps, StopperSteps
<1>PopLoad. CASE PopLoad
  BY <1>a, <1>PopLoad, SuccIs
  DEF PopLoad, ring, IInv, TypeOK, LockInv, RingInv, ContentInv, WakeInv, Count, Slot,
      Pushing, Full, Empty, Wake, ProducerSteps, ConsumerSteps, StopperSteps
<1>PopRead. CASE PopRead
  <2>1. /\ cpc = "read" /\ cpc' = "release"
        /\ item' = buffer[head]
        /\ UNCHANGED <<head, tail, buffer, sent, received, stop, lock, ppc, spc, offered>>
    BY <1>PopRead DEF PopRead, ring
  <2>2. buffer[head] = received + 1
    <3>1. 0 < Count /\ Slot(head + 0) = head
      BY <1>a, <2>1, LiveSlots DEF RingInv
    <3>2. buffer[Slot(head + 0)] = received + 1 + 0
      BY <1>a, <3>1 DEF ContentInv
    <3>3. QED
      BY <1>a, <3>1, <3>2 DEF TypeOK
  <2>3. TypeOK'
    BY <1>a, <2>1 DEF TypeOK, ConsumerSteps
  <2>4. LockInv' /\ WakeInv'
    BY <1>a, <2>1 DEF LockInv, WakeInv, Succ
  <2>5. RingInv' /\ ContentInv'
    BY <1>a, <2>1, <2>2 DEF RingInv, ContentInv, Pushing, Count, Slot, Succ
  <2>6. QED
    BY <2>3, <2>4, <2>5 DEF IInv
<1>PopRelease. CASE PopRelease
  <2>1. /\ cpc = "release" /\ cpc' = "sync"
        /\ head' = Succ(head)
        /\ received' = received + 1
        /\ UNCHANGED <<tail, buffer, stop, lock, ppc, spc, offered, item, sent>>
    BY <1>PopRelease DEF PopRelease
  <2>2. Succ(head) = IF head = Capacity THEN 0 ELSE head + 1
    BY <1>a, SuccIs DEF TypeOK
  <2>3. Succ(tail) = IF tail = Capacity THEN 0 ELSE tail + 1
    BY <1>a, SuccIs DEF TypeOK
  <2>4. TypeOK'
    BY <1>a, <2>1, <2>2 DEF TypeOK, ConsumerSteps
  <2>5. Count' = Count - 1
    BY <1>a, <2>1, <2>2 DEF Count, TypeOK, RingInv
  <2>6. ASSUME NEW j \in 0 .. Slots - 1, j < Count - 1
        PROVE  buffer[Slot(Succ(head) + j)] = received + 1 + 1 + j
    <3>1. Count \in 0 .. Capacity
      BY <1>a, LiveSlots
    <3>2. j + 1 \in 0 .. Slots - 1 /\ j + 1 < Count
      BY <1>a, <2>6, <3>1
    <3>3. buffer[Slot(head + (j + 1))] = received + 1 + (j + 1)
      BY <1>a, <3>2 DEF ContentInv
    <3>4. Slot(Succ(head) + j) = Slot(head + (j + 1))
      BY <1>a, <2>2, <3>2 DEF Slot, TypeOK
    <3>5. QED
      BY <1>a, <3>3, <3>4 DEF TypeOK
  <2>7. ContentInv'
    <3>1. \A j \in 0 .. Slots - 1 :
            j < Count' => buffer'[Slot(head' + j)] = received' + 1 + j
      BY <2>1, <2>5, <2>6
    <3>2. QED
      BY <1>a, <2>1, <3>1 DEF ContentInv, Pushing, Slot
  <2>8. RingInv'
    <3>1. Succ(tail)' = Succ(tail) /\ head # tail
      BY <1>a, <2>1 DEF Succ, RingInv
    <3>2. Succ(tail) # Succ(head)
      BY <1>a, <2>2, <2>3, <3>1 DEF TypeOK
    <3>3. sent = received + 1 + (Count - 1)
      BY <1>a, LiveSlots DEF RingInv, TypeOK
    <3>4. QED
      BY <2>1, <2>5, <3>1, <3>2, <3>3 DEF RingInv
  <2>9. LockInv' /\ WakeInv'
    BY <1>a, <2>1, <2>2, <2>3 DEF LockInv, WakeInv, RingInv, TypeOK, Succ
  <2>10. QED
    BY <2>4, <2>7, <2>8, <2>9 DEF IInv
<1>PopSync. CASE PopSync
  BY <1>a, <1>PopSync, SuccIs
  DEF PopSync, ring, IInv, TypeOK, LockInv, RingInv, ContentInv, WakeInv, Count, Slot,
      Pushing, Full, Empty, Wake, ProducerSteps, ConsumerSteps, StopperSteps
<1>PopWake. CASE PopWake
  BY <1>a, <1>PopWake, SuccIs
  DEF PopWake, ring, IInv, TypeOK, LockInv, RingInv, ContentInv, WakeInv, Count, Slot,
      Pushing, Full, Empty, Wake, ProducerSteps, ConsumerSteps, StopperSteps
<1>PopLock. CASE PopLock
  BY <1>a, <1>PopLock, SuccIs
  DEF PopLock, ring, IInv, TypeOK, LockInv, RingInv, ContentInv, WakeInv, Count, Slot,
      Pushing, Full, Empty, Wake, ProducerSteps, ConsumerSteps, StopperSteps
<1>PopCheck. CASE PopCheck
  BY <1>a, <1>PopCheck, SuccIs
  DEF PopCheck, ring, IInv, TypeOK, LockInv, RingInv, ContentInv, WakeInv, Count, Slot,
      Pushing, Full, Empty, Wake, ProducerSteps, ConsumerSteps, StopperSteps
<1>PopWaitEmpty. CASE PopWaitEmpty
  BY <1>a, <1>PopWaitEmpty, SuccIs
  DEF PopWaitEmpty, ring, IInv, TypeOK, LockInv, RingInv, ContentInv, WakeInv, Count, Slot,
      Pushing, Full, Empty, Wake, ProducerSteps, ConsumerSteps, StopperSteps
<1>PopWaitStopped. CASE PopWaitStopped
  BY <1>a, <1>PopWaitStopped, SuccIs
  DEF PopWaitStopped, ring, IInv, TypeOK, LockInv, RingInv, ContentInv, WakeInv, Count, Slot,
      Pushing, Full, Empty, Wake, ProducerSteps, ConsumerSteps, StopperSteps
<1>PopRelock. CASE PopRelock
  BY <1>a, <1>PopRelock, SuccIs
  DEF PopRelock, ring, IInv, TypeOK, LockInv, RingInv, ContentInv, WakeInv, Count, Slot,
      Pushing, Full, Empty, Wake, ProducerSteps, ConsumerSteps, StopperSteps
<1>StopSet. CASE StopSet
  BY <1>a, <1>StopSet, SuccIs
  DEF StopSet, ring, IInv, TypeOK, LockInv, RingInv, ContentInv, WakeInv, Count, Slot,
      Pushing, Full, Empty, Wake, ProducerSteps, ConsumerSteps, StopperSteps
<1>StopNotify. CASE StopNotify
  BY <1>a, <1>StopNotify, SuccIs
  DEF StopNotify, ring, IInv, TypeOK, LockInv, RingInv, ContentInv, WakeInv, Count, Slot,
      Pushing, Full, Empty, Wake, ProducerSteps, ConsumerSteps, StopperSteps
<1>SpuriousWake. CASE SpuriousWake
  BY <1>a, <1>SpuriousWake, SuccIs
  DEF SpuriousWake, ring, IInv, TypeOK, LockInv, RingInv, ContentInv, WakeInv, Count, Slot,
      Pushing, Full, Empty, Wake, ProducerSteps, ConsumerSteps, StopperSteps
<1>v. CASE UNCHANGED vars
  BY <1>a, <1>v
  DEF vars, IInv, TypeOK, LockInv, RingInv, ContentInv, WakeInv, Count, Slot, Pushing, Succ
<1> QED
  BY <1>v, <1>PushWait, <1>PushNotify, <1>PushLoad, <1>PushWrite, <1>PushPublish,
     <1>PushSync, <1>PushWake, <1>PushLock, <1>PushCheck, <1>PushWaitFull,
     <1>PushWaitStopped, <1>PushRelock, <1>ProducerDone, <1>PopLoad,
     <1>PopRead, <1>PopRelease, <1>PopSync, <1>PopWake, <1>PopLock,
     <1>PopCheck, <1>PopWaitEmpty, <1>PopWaitStopped, <1>PopRelock,
     <1>StopSet, <1>StopNotify, <1>SpuriousWake
  DEF Next, Push, Pop

LEMMA Initial == Init => IInv
<1>1. Capacity \in Nat /\ Capacity > 0 /\ Slots = Capacity + 1
  BY CapacityAssumption DEF Slots
<1>2. SUFFICES ASSUME Init PROVE IInv
  OBVIOUS
<1>3. TypeOK
  <2>1. buffer \in [0 .. Slots - 1 -> 0 .. MaxItems]
    BY <1>1, <1>2, MaxItemsAssumption DEF Init
  <2>2. /\ head \in 0 .. Slots - 1 /\ tail \in 0 .. Slots - 1
        /\ offered \in 0 .. MaxItems /\ item \in 0 .. MaxItems
        /\ sent \in Nat /\ received \in Nat
    BY <1>1, <1>2, MaxItemsAssumption DEF Init
  <2>3. /\ stop \in BOOLEAN /\ lock \in {None, "producer", "consumer"}
        /\ ppc \in ProducerSteps /\ cpc \in ConsumerSteps /\ spc \in StopperSteps
    BY <1>2 DEF Init, ProducerSteps, ConsumerSteps, StopperSteps
  <2>4. QED
    BY <2>1, <2>2, <2>3 DEF TypeOK
<1>4. Count = 0
  BY <1>2 DEF Init, Count
<1>5. LockInv /\ WakeInv
  BY <1>2, SMT DEF Init, LockInv, WakeInv, None
<1>6. RingInv /\ ContentInv
  BY <1>2, <1>4 DEF Init, RingInv, ContentInv, Pushing
<1>7. QED
  BY <1>3, <1>5, <1>6 DEF IInv

LEMMA Invariance == Spec => []IInv
<1>1. IInv /\ [Next]_vars => IInv'
  BY Step
<1>2. QED
  BY Initial, <1>1, PTL DEF Spec

-----------------------------------------------------------------------------
\* For every capacity, the ring indices stay inside the buffer and every
\* variable in its type.
THEOREM TypeCorrect == Spec => []TypeOK
<1>1. IInv => TypeOK
  BY DEF IInv
<1>2. QED
  BY Invariance, <1>1, PTL

\* For every capacity, a push never writes the slot a pop is reading: the two
\* threads never race on an element of buffer_.
THEOREM NoDataRace == Spec => []SlotExclusion
<1>1. IInv => SlotExclusion
  <2>1. SUFFICES ASSUME IInv, ppc = "write"
                 PROVE  ~Full /\ (cpc \in {"read", "release"} => tail # head)
    BY DEF SlotExclusion
  <2>2. QED
    BY <2>1 DEF IInv, RingInv, Full
<1>2. QED
  BY Invariance, <1>1, PTL

\* For every capacity and any number of items, the consumer gets the items in
\* the order of the pushes, each exactly once.
THEOREM InOrder == Spec => []FifoOrder
<1>1. IInv => FifoOrder
  BY DEF IInv, ContentInv, FifoOrder
<1>2. QED
  BY Invariance, <1>1, PTL

\* For every capacity, no thread sleeps through the event it waits for.
THEOREM WakeupsArrive == Spec => []NoLostWakeup
<1>1. IInv => NoLostWakeup
  BY DEF IInv, TypeOK, WakeInv, NoLostWakeup, Empty, Full, StopperSteps
<1>2. QED
  BY Invariance, <1>1, PTL

-----------------------------------------------------------------------------
\* The remainders of size() and of the ring positions, without the remainder.
LEMMA RemainderIs ==
    ASSUME NEW i \in 0 .. 2 * Slots - 1
    PROVE  i % Slots = Slot(i)
<1>1. Capacity \in Nat /\ Capacity > 0 /\ Slots = Capacity + 1
  BY CapacityAssumption DEF Slots
<1>2. CASE i < Slots
  BY <1>1, <1>2 DEF Slot
<1>3. CASE ~(i < Slots)
  <2>1. i - Slots \in 0 .. Slots - 1 /\ i = Slots + (i - Slots)
    BY <1>1, <1>3
  <2>2. i % Slots = i - Slots
    BY <1>1, <2>1
  <2>3. QED
    BY <1>1, <1>3, <2>2 DEF Slot
<1>4. QED
  BY <1>2, <1>3

\* Under the invariant the ring holds the consecutive items after the last one
\* handed out.
LEMMA ContentsAre == IInv => Contents = [j \in 1 .. Count |-> received + j]
<1> SUFFICES ASSUME IInv
             PROVE  Contents = [j \in 1 .. Count |-> received + j]
  OBVIOUS
<1>1. /\ Capacity \in Nat /\ Capacity > 0 /\ Slots = Capacity + 1
      /\ head \in 0 .. Slots - 1 /\ tail \in 0 .. Slots - 1
      /\ received \in Nat /\ Count \in 0 .. Capacity
  BY CapacityAssumption, LiveSlots DEF Slots, IInv, TypeOK
<1>2. Size = Count
  <2>1. tail + Slots - head \in 0 .. 2 * Slots - 1
    BY <1>1
  <2>2. Size = Slot(tail + Slots - head)
    BY <2>1, RemainderIs DEF Size
  <2>3. QED
    BY <1>1, <2>2 DEF Slot, Count
<1>3. ASSUME NEW j \in 1 .. Count
      PROVE  buffer[(head + j - 1) % Slots] = received + j
  <2>1. /\ j - 1 \in 0 .. Slots - 1 /\ j - 1 < Count
        /\ head + j - 1 \in 0 .. 2 * Slots - 1
        /\ head + j - 1 = head + (j - 1)
    BY <1>1
  <2>2. (head + j - 1) % Slots = Slot(head + (j - 1))
    BY <2>1, RemainderIs
  <2>3. buffer[Slot(head + (j - 1))] = received + 1 + (j - 1)
    BY <2>1 DEF IInv, ContentInv
  <2>4. QED
    BY <1>1, <2>2, <2>3
<1>4. QED
  BY <1>2, <1>3 DEF Contents

\* For every capacity, the lock-free ring with its condition variables
\* implements a bounded FIFO channel: publishing the tail index is the moment
\* an item enters, releasing the head index the moment it leaves, and every
\* other step leaves the channel as it is.
THEOREM Refinement == Spec => FifoSpec
<1>1. Init => Fifo!Init
  <2>1. SUFFICES ASSUME Init PROVE Contents = <<>>
    BY DEF Init, Fifo!Init
  <2>2. Contents = [j \in 1 .. Count |-> received + j] /\ Count = 0
    BY <2>1, Initial, ContentsAre DEF Init, Count
  <2>3. QED
    BY <2>2
<1>2. IInv /\ [Next]_vars => [Fifo!Next]_(Fifo!fifoVars)
  <2> SUFFICES ASSUME IInv, [Next]_vars
               PROVE  [Fifo!Next]_(Fifo!fifoVars)
    OBVIOUS
  <2>1. /\ Contents = [j \in 1 .. Count |-> received + j]
        /\ Contents' = [j \in 1 .. Count' |-> received' + j]
    <3>1. IInv'
      BY Step
    <3>2. (IInv => Contents = [j \in 1 .. Count |-> received + j])'
      BY ContentsAre, PTL
    <3>3. QED
      BY <3>1, <3>2, ContentsAre
  <2>2. /\ Capacity \in Nat /\ Slots = Capacity + 1 /\ Count \in 0 .. Capacity
        /\ sent = received + Count /\ sent \in Nat /\ received \in Nat
    BY CapacityAssumption, LiveSlots DEF Slots, IInv, TypeOK, RingInv
  <2>3. CASE PushPublish
    <3>1. /\ sent' = sent + 1 /\ received' = received
          /\ Count < Capacity /\ Count' = Count + 1
      <4>1. /\ sent' = sent + 1 /\ received' = received /\ ppc = "publish"
            /\ head' = head /\ tail' = Succ(tail)
        BY <2>3 DEF PushPublish
      <4>2. /\ head \in 0 .. Slots - 1 /\ tail \in 0 .. Slots - 1
            /\ Succ(tail) = IF tail = Capacity THEN 0 ELSE tail + 1
            /\ Succ(tail) # head
        BY <4>1, SuccIs DEF IInv, TypeOK, RingInv
      <4>3. Count < Capacity
        BY <2>2, <4>2, LiveSlots DEF IInv
      <4>4. Count' = Count + 1
        BY <2>2, <4>1, <4>2 DEF Count
      <4>5. QED
        BY <4>1, <4>3, <4>4
    <3>2. Len(Contents) = Count
      BY <2>1, <2>2
    <3>3. Contents' = Append(Contents, sent + 1)
      BY <2>1, <2>2, <3>1
    <3>4. QED
      BY <3>1, <3>2, <3>3 DEF Fifo!Next, Fifo!Put
  <2>4. CASE PopRelease
    <3>1. /\ sent' = sent /\ received' = received + 1
          /\ Count > 0 /\ Count' = Count - 1
      <4>1. /\ sent' = sent /\ received' = received + 1 /\ cpc = "release"
            /\ head' = Succ(head) /\ tail' = tail
        BY <2>4 DEF PopRelease
      <4>2. /\ head \in 0 .. Slots - 1 /\ tail \in 0 .. Slots - 1
            /\ Succ(head) = IF head = Capacity THEN 0 ELSE head + 1
            /\ head # tail
        BY <4>1, SuccIs DEF IInv, TypeOK, RingInv
      <4>3. Count > 0 /\ Count' = Count - 1
        BY <2>2, <4>1, <4>2 DEF Count
      <4>4. QED
        BY <4>1, <4>3
    <3>2. Contents # <<>> /\ Head(Contents) = received + 1
      BY <2>1, <2>2, <3>1
    <3>3. Contents' = Tail(Contents)
      BY <2>1, <2>2, <3>1
    <3>4. QED
      BY <3>1, <3>2, <3>3 DEF Fifo!Next, Fifo!Take
  <2>5. ASSUME UNCHANGED <<head, tail, sent, received>>
        PROVE  UNCHANGED Fifo!fifoVars
    <3>1. Count' = Count
      BY <2>5 DEF Count
    <3>2. QED
      BY <2>1, <2>5, <3>1 DEF Fifo!fifoVars
  <2>6. QED
    BY <2>3, <2>4, <2>5
    DEF Next, Push, Pop, vars, ring, PushWait, PushNotify, PushLoad, PushWrite,
        PushSync, PushWake, PushLock, PushCheck, PushWaitFull, PushWaitStopped,
        PushRelock, ProducerDone, PopLoad, PopRead, PopSync, PopWake, PopLock,
        PopCheck, PopWaitEmpty, PopWaitStopped, PopRelock, StopSet, StopNotify,
        SpuriousWake
<1>3. QED
  BY <1>1, <1>2, Invariance, PTL DEF Spec, FifoSpec, Fifo!Spec
=============================================================================
