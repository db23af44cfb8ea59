------------------------------ MODULE SpscQueue ------------------------------
(***************************************************************************)
(* core/runtime/include/archerfish/runtime/spsc_queue.hpp at the           *)
(* granularity of its atomic operations: the lock-free ring buffer, the    *)
(* condition-variable methods push_wait, push_notify, pop_wait and         *)
(* notify_all built on it, and the three roles that use one queue:         *)
(*   producer  the thread that renders blocks (push_wait or push_notify),  *)
(*   consumer  the thread that transmits them (pop_wait until nullopt),    *)
(*   stopper   a thread that runs request_stop: it sets the stop flag and  *)
(*             then calls notify_all.                                      *)
(* Item number k is the k-th item the producer offers.                     *)
(***************************************************************************)
EXTENDS Naturals, Sequences

CONSTANTS Capacity,   \* the constructor's argument
          MaxItems    \* bound: how many items the producer offers

ASSUME CapacityAssumption == Capacity \in Nat \ {0}
ASSUME MaxItemsAssumption == MaxItems \in Nat

None == "none"

VARIABLES
    head, tail,       \* head_, tail_: ring indices
    buffer,           \* buffer_: the slots of the ring
    stop,             \* the stop flag shared through the stop_token
    lock,             \* the holder of cv_mutex_
    ppc, cpc, spc,    \* where producer, consumer and stopper are
    offered,          \* the item the producer is pushing, or offered last
    item,             \* the item the consumer read
    sent, received    \* ghost: items published, items handed out

ring == <<head, tail, buffer, sent, received>>
vars == <<head, tail, buffer, stop, lock, ppc, cpc, spc, offered, item,
          sent, received>>

-----------------------------------------------------------------------------
\* checked_storage_capacity: one slot more than the capacity stays free.
Slots == Capacity + 1

\* Mutant: the index does not wrap around.
SuccUnwrapped(i) == i + 1

Succ(i) == (i + 1) % Slots

Empty == head = tail
Size  == (tail + Slots - head) % Slots

\* Mutant: off by one, the slot that stays free is used too.
FullTooLate == Size = Slots

Full  == Succ(tail) = head

\* The items in the ring, oldest first.
Contents == [j \in 1 .. Size |-> buffer[(head + j - 1) % Slots]]

ProducerSteps == {"idle", "load", "write", "publish", "sync", "notify", "lock", "check",
                  "full", "stopped", "asleep", "woken", "done"}
ConsumerSteps == {"load", "read", "release", "sync", "notify", "lock", "check",
                  "empty", "stopped", "asleep", "woken", "done"}
StopperSteps == {"idle", "notify", "done"}

\* notify_one and notify_all on a condition variable with one possible waiter.
Wake(pc) == IF pc = "asleep" THEN "woken" ELSE pc

Init == /\ head = 0 /\ tail = 0
        /\ buffer = [i \in 0 .. Slots - 1 |-> 0]
        /\ stop = FALSE
        /\ lock = None
        /\ ppc = "idle" /\ cpc = "load" /\ spc = "idle"
        /\ offered = 0 /\ item = 0
        /\ sent = 0 /\ received = 0

-----------------------------------------------------------------------------
(* The producer. *)

\* push_wait is called with the next item.
PushWait == /\ ppc = "idle"
            /\ offered < MaxItems
            /\ offered' = offered + 1
            /\ ppc' = "load"
            /\ UNCHANGED <<ring, stop, lock, cpc, spc, item>>

\* push_notify is called with the next item and finds room; on a full ring it
\* returns false and changes nothing.
PushNotify == /\ ppc = "idle"
              /\ offered < MaxItems
              /\ ~Full
              /\ offered' = offered + 1
              /\ ppc' = "write"
              /\ UNCHANGED <<ring, stop, lock, cpc, spc, item>>

\* push: own tail_, then head_ with acquire.
PushLoad == /\ ppc = "load"
            /\ ppc' = IF Full THEN "lock" ELSE "write"
            /\ UNCHANGED <<ring, stop, lock, cpc, spc, offered, item>>

\* Mutant: the index is advanced before the slot is written.
PushWriteAhead == /\ ppc = "write"
                  /\ buffer' = [buffer EXCEPT ![Succ(tail)] = offered]
                  /\ ppc' = "publish"
                  /\ UNCHANGED <<head, tail, stop, lock, cpc, spc, offered, item, sent, received>>

\* buffer_[tail] = std::move(item)
PushWrite == /\ ppc = "write"
             /\ buffer' = [buffer EXCEPT ![tail] = offered]
             /\ ppc' = "publish"
             /\ UNCHANGED <<head, tail, stop, lock, cpc, spc, offered, item, sent, received>>

\* tail_.store(next_tail, release)
PushPublish == /\ ppc = "publish"
               /\ tail' = Succ(tail)
               /\ sent' = sent + 1
               /\ ppc' = "sync"
               /\ UNCHANGED <<head, buffer, stop, lock, cpc, spc, offered, item, received>>

\* Mutant: notify without having taken the mutex.
PushSyncUnlocked == /\ ppc = "sync"
                    /\ ppc' = "notify"
                    /\ UNCHANGED <<ring, stop, lock, cpc, spc, offered, item>>

\* The empty critical section between the store and the notification.
PushSync == /\ ppc = "sync"
            /\ lock = None
            /\ ppc' = "notify"
            /\ UNCHANGED <<ring, stop, lock, cpc, spc, offered, item>>

\* Mutant: the notification is forgotten.
PushWakeForgotten == /\ ppc = "notify"
                     /\ ppc' = "idle"
                     /\ UNCHANGED <<ring, stop, lock, cpc, spc, offered, item>>

\* cv_not_empty_.notify_one(); the push returns true.
PushWake == /\ ppc = "notify"
            /\ cpc' = Wake(cpc)
            /\ ppc' = "idle"
            /\ UNCHANGED <<ring, stop, lock, spc, offered, item>>

PushLock == /\ ppc = "lock"
            /\ lock = None
            /\ lock' = "producer"
            /\ ppc' = "check"
            /\ UNCHANGED <<ring, stop, cpc, spc, offered, item>>

\* if (stoken.stop_requested()) return false: the producer gives up.
PushCheck == /\ ppc = "check"
             /\ ppc' = IF stop THEN "done" ELSE "full"
             /\ lock' = IF stop THEN None ELSE lock
             /\ UNCHANGED <<ring, stop, cpc, spc, offered, item>>

\* The predicate of cv_not_full_.wait, !full() || stop_requested(), one atomic
\* load after the other; wait releases the mutex as it puts the thread to sleep.
PushWaitFull == /\ ppc = "full"
                /\ ppc' = IF Full THEN "stopped" ELSE "load"
                /\ lock' = IF Full THEN lock ELSE None
                /\ UNCHANGED <<ring, stop, cpc, spc, offered, item>>

PushWaitStopped == /\ ppc = "stopped"
                   /\ ppc' = IF stop THEN "load" ELSE "asleep"
                   /\ lock' = None
                   /\ UNCHANGED <<ring, stop, cpc, spc, offered, item>>

\* A woken waiter takes the mutex again and evaluates the predicate.
PushRelock == /\ ppc = "woken"
              /\ lock = None
              /\ lock' = "producer"
              /\ ppc' = "full"
              /\ UNCHANGED <<ring, stop, cpc, spc, offered, item>>

\* The caller stops producing: everything is pushed, or it saw the stop flag.
ProducerDone == /\ ppc = "idle"
                /\ stop \/ offered = MaxItems
                /\ ppc' = "done"
                /\ UNCHANGED <<ring, stop, lock, cpc, spc, offered, item>>

-----------------------------------------------------------------------------
(* The consumer: pop_wait, called again until it returns nullopt. *)

\* Mutant: pop does not look whether the ring is empty.
PopLoadUnchecked == /\ cpc = "load"
                    /\ cpc' = "read"
                    /\ UNCHANGED <<ring, stop, lock, ppc, spc, offered, item>>

\* pop: own head_, then tail_ with acquire.
PopLoad == /\ cpc = "load"
           /\ cpc' = IF Empty THEN "lock" ELSE "read"
           /\ UNCHANGED <<ring, stop, lock, ppc, spc, offered, item>>

\* auto item = std::move(buffer_[head])
PopRead == /\ cpc = "read"
           /\ item' = buffer[head]
           /\ cpc' = "release"
           /\ UNCHANGED <<ring, stop, lock, ppc, spc, offered>>

\* head_.store(head + 1, release)
PopRelease == /\ cpc = "release"
              /\ head' = Succ(head)
              /\ received' = received + 1
              /\ cpc' = "sync"
              /\ UNCHANGED <<tail, buffer, stop, lock, ppc, spc, offered, item, sent>>

PopSync == /\ cpc = "sync"
           /\ lock = None
           /\ cpc' = "notify"
           /\ UNCHANGED <<ring, stop, lock, ppc, spc, offered, item>>

\* cv_not_full_.notify_one(); pop_wait returns the item.
PopWake == /\ cpc = "notify"
           /\ ppc' = Wake(ppc)
           /\ cpc' = "load"
           /\ UNCHANGED <<ring, stop, lock, spc, offered, item>>

PopLock == /\ cpc = "lock"
           /\ lock = None
           /\ lock' = "consumer"
           /\ cpc' = "check"
           /\ UNCHANGED <<ring, stop, ppc, spc, offered, item>>

\* if (stoken.stop_requested()) return std::nullopt
PopCheck == /\ cpc = "check"
            /\ cpc' = IF stop THEN "done" ELSE "empty"
            /\ lock' = IF stop THEN None ELSE lock
            /\ UNCHANGED <<ring, stop, ppc, spc, offered, item>>

\* The predicate of cv_not_empty_.wait: !empty() || stop_requested().
PopWaitEmpty == /\ cpc = "empty"
                /\ cpc' = IF Empty THEN "stopped" ELSE "load"
                /\ lock' = IF Empty THEN lock ELSE None
                /\ UNCHANGED <<ring, stop, ppc, spc, offered, item>>

PopWaitStopped == /\ cpc = "stopped"
                  /\ cpc' = IF stop THEN "load" ELSE "asleep"
                  /\ lock' = None
                  /\ UNCHANGED <<ring, stop, ppc, spc, offered, item>>

PopRelock == /\ cpc = "woken"
             /\ lock = None
             /\ lock' = "consumer"
             /\ cpc' = "empty"
             /\ UNCHANGED <<ring, stop, ppc, spc, offered, item>>

-----------------------------------------------------------------------------
(* The stopper, and the condition variables' licence to wake for no reason. *)

\* stop_source_.request_stop(), outside the mutex.
StopSet == /\ spc = "idle"
           /\ stop' = TRUE
           /\ spc' = "notify"
           /\ UNCHANGED <<ring, lock, ppc, cpc, offered, item>>

\* Mutant: only the waiters of cv_not_empty_ are notified.
StopNotifyConsumer == /\ spc = "notify"
                      /\ lock = None
                      /\ cpc' = Wake(cpc)
                      /\ spc' = "done"
                      /\ UNCHANGED <<ring, stop, lock, ppc, offered, item>>

\* notify_all under the mutex.
StopNotify == /\ spc = "notify"
              /\ lock = None
              /\ ppc' = Wake(ppc)
              /\ cpc' = Wake(cpc)
              /\ spc' = "done"
              /\ UNCHANGED <<ring, stop, lock, offered, item>>

SpuriousWake == /\ \/ ppc = "asleep" /\ ppc' = "woken" /\ UNCHANGED cpc
                   \/ cpc = "asleep" /\ cpc' = "woken" /\ UNCHANGED ppc
                /\ UNCHANGED <<ring, stop, lock, spc, offered, item>>

-----------------------------------------------------------------------------
Push == \/ PushWait \/ PushNotify \/ PushLoad \/ PushWrite \/ PushPublish
        \/ PushSync \/ PushWake \/ PushLock \/ PushCheck
        \/ PushWaitFull \/ PushWaitStopped \/ PushRelock \/ ProducerDone

Pop == \/ PopLoad \/ PopRead \/ PopRelease \/ PopSync \/ PopWake \/ PopLock
       \/ PopCheck \/ PopWaitEmpty \/ PopWaitStopped \/ PopRelock

Next == Push \/ Pop \/ StopSet \/ StopNotify \/ SpuriousWake

Spec == Init /\ [][Next]_vars

\* A thread that can run runs, a mutex that keeps becoming free is granted, and
\* a stopper that set the flag goes on to notify_all.  Nothing obliges anybody
\* to request a stop or to wake up spuriously.
Fairness == /\ SF_vars(Push)
            /\ SF_vars(Pop)
            /\ SF_vars(StopNotify)

FairSpec == Spec /\ Fairness

-----------------------------------------------------------------------------
(* Properties. *)

\* Every variable stays in its range, the ring indices in particular.
TypeOK == /\ head \in 0 .. Slots - 1 /\ tail \in 0 .. Slots - 1
          /\ buffer \in [0 .. Slots - 1 -> 0 .. MaxItems]
          /\ stop \in BOOLEAN
          /\ lock \in {None, "producer", "consumer"}
          /\ ppc \in ProducerSteps /\ cpc \in ConsumerSteps /\ spc \in StopperSteps
          /\ offered \in 0 .. MaxItems /\ item \in 0 .. MaxItems
          /\ sent \in Nat /\ received \in Nat

\* The slot a push writes is never a slot that holds an item still to be
\* popped, nor the one the consumer is reading: buffer_ itself is not atomic,
\* so either would be a data race.
SlotExclusion ==
    ppc = "write" => /\ ~Full
                     /\ cpc \in {"read", "release"} => tail # head

\* What the consumer read is the next item in the producer's order: no item is
\* lost, repeated, overtaken or overwritten before its slot is released.
FifoOrder == cpc = "release" => item = received + 1

\* No lost wakeup: a thread asleep in push_wait or pop_wait although its wait
\* condition holds has a notification still on its way.
NoLostWakeup ==
    /\ cpc = "asleep" /\ ~Empty => ppc \in {"sync", "notify"}
    /\ ppc = "asleep" /\ ~Full  => cpc \in {"sync", "notify"}
    /\ stop /\ "asleep" \in {ppc, cpc} => spc = "notify"

\* request_stop followed by notify_all ends both blocking calls, whatever they
\* were waiting for.
StopReleases == (spc = "done") ~> (ppc = "done" /\ cpc = "done")

\* An item that was published is handed out, unless the queue is being stopped.
ItemsArrive == \A k \in 1 .. MaxItems : (sent >= k) ~> (received >= k \/ stop)

\* The ring buffer with its condition variables is a bounded FIFO channel.
Fifo == INSTANCE BoundedFifo
        WITH q <- Contents, accepted <- sent, delivered <- received
FifoSpec == Fifo!Spec
=============================================================================
