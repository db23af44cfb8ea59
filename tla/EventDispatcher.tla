--------------------------- MODULE EventDispatcher ---------------------------
(***************************************************************************)
(* core/runtime/src/event_dispatcher.cpp: timed callbacks run by one       *)
(* dispatcher thread, and the thread that owns the dispatcher and calls    *)
(* schedule, start, wait_complete and cancel (the destructor is cancel).   *)
(* Time is a discrete clock.  The wait of run() is split where the mutex   *)
(* of the condition variable does not help: cancel never takes it.         *)
(***************************************************************************)
EXTENDS Naturals, Sequences

CONSTANTS MaxDelay,    \* event times are 0 .. MaxDelay after the start
          Horizon,     \* bound: the clock stops here
          MaxEvents,   \* bound: how many events are scheduled
          MaxStarts    \* bound: how often the owner calls start

ASSUME DispatcherBounds ==
    /\ MaxDelay \in Nat /\ Horizon \in Nat /\ MaxDelay <= Horizon
    /\ MaxEvents \in Nat /\ MaxStarts \in Nat

VARIABLES
    now,          \* std::chrono::steady_clock
    events,       \* events_: the times of the scheduled events
    order,        \* the order start() sorted them into
    epoch,        \* epoch_
    cancelled,    \* cancelled_
    opc,          \* where the owner is
    dpc,          \* where run() is; "none" when thread_ is not joinable
    next,         \* the position in order that run() works on
    dispatched, failed,   \* dispatched_count_, failed_count_
    starts,       \* ghost: how many times start() ran
    fired         \* ghost: the callbacks that ran, oldest first

api == <<events, order, epoch, starts>>
counts == <<dispatched, failed, fired>>
vars == <<now, events, order, epoch, cancelled, opc, dpc, next, dispatched,
          failed, starts, fired>>

DispatcherSteps == {"none", "check", "test", "block", "asleep", "recheck",
                    "callback", "done"}
OwnerSteps == {"idle", "wait", "notify", "join"}

Init == /\ now = 0 /\ epoch = 0
        /\ events = <<>> /\ order = <<>>
        /\ cancelled = FALSE
        /\ opc = "idle" /\ dpc = "none"
        /\ next = 1
        /\ dispatched = 0 /\ failed = 0 /\ starts = 0
        /\ fired = <<>>

Due(k) == epoch + events[order[k]]

-----------------------------------------------------------------------------
(* The owner. *)

\* A valid call of schedule(); an invalid one throws and changes nothing.  The
\* owner does not schedule while the thread runs over the list.
Schedule(t) == /\ opc = "idle" /\ dpc = "none"
               /\ Len(events) < MaxEvents
               /\ events' = Append(events, t)
               /\ UNCHANGED <<now, order, epoch, cancelled, opc, dpc, next, counts, starts>>

\* Mutant: the events are not sorted.
Unsorted(s) == {p \in [DOMAIN s -> DOMAIN s] : \A i, j \in DOMAIN s : i # j => p[i] # p[j]}

\* std::sort is not stable: events with equal times come in any order.
Sortings(s) == {p \in [DOMAIN s -> DOMAIN s] :
                  /\ \A i, j \in DOMAIN s : i # j => p[i] # p[j]
                  /\ \A i, j \in DOMAIN s : i < j => s[p[i]] <= s[p[j]]}

Start == /\ opc = "idle" /\ dpc = "none"
         /\ starts < MaxStarts /\ now + MaxDelay <= Horizon
         /\ order' \in Sortings(events)
         /\ cancelled' = FALSE
         /\ epoch' = now
         /\ dpc' = "check"
         /\ next' = 1
         /\ starts' = starts + 1
         /\ UNCHANGED <<now, events, opc, counts>>

WaitComplete == /\ opc = "idle"
                /\ opc' = "wait"
                /\ UNCHANGED <<now, api, cancelled, dpc, next, counts>>

\* cancelled_.store(true), without mutex_.
CancelSet == /\ opc = "idle"
             /\ cancelled' = TRUE
             /\ opc' = "notify"
             /\ UNCHANGED <<now, api, dpc, next, counts>>

\* cv_.notify_all(): wakes run() only if it is blocked already.
CancelNotify == /\ opc = "notify"
                /\ dpc' = IF dpc = "asleep" THEN "test" ELSE dpc
                /\ opc' = "join"
                /\ UNCHANGED <<now, api, cancelled, next, counts>>

\* Mutant: the call returns without joining the thread.
JoinForgotten == /\ opc \in {"wait", "join"}
                 /\ dpc' = IF dpc = "done" THEN "none" ELSE dpc
                 /\ opc' = "idle"
                 /\ UNCHANGED <<now, api, cancelled, next, counts>>

\* Mutant: join is called although no thread is joinable.
JoinAlways == /\ opc \in {"wait", "join"}
              /\ dpc = "done"
              /\ dpc' = "none"
              /\ opc' = "idle"
              /\ UNCHANGED <<now, api, cancelled, next, counts>>

\* thread_.join() at the end of wait_complete and cancel, if it is joinable.
Join == /\ opc \in {"wait", "join"}
        /\ dpc \in {"none", "done"}
        /\ dpc' = "none"
        /\ opc' = "idle"
        /\ UNCHANGED <<now, api, cancelled, next, counts>>

-----------------------------------------------------------------------------
(* The dispatcher thread. *)

Goto(step) == /\ dpc' = step
              /\ UNCHANGED <<now, api, cancelled, opc, next, counts>>

\* The head of the loop.
Check == /\ dpc = "check"
         /\ Goto(IF next > Len(order) \/ cancelled THEN "done" ELSE "test")

\* wait_until evaluates its predicate, then the deadline.
Test == /\ dpc = "test"
        /\ Goto(IF cancelled THEN "recheck" ELSE "block")

\* The thread blocks, or finds the deadline already past.
Block == /\ dpc = "block"
         /\ Goto(IF now >= Due(next) THEN "recheck" ELSE "asleep")

Timeout == /\ dpc = "asleep"
           /\ now >= Due(next)
           /\ Goto("recheck")

\* Mutant: a wait without its predicate takes any wakeup for the deadline.
SpuriousWakeTaken == dpc = "asleep" /\ Goto("recheck")

SpuriousWake == dpc = "asleep" /\ Goto("test")

\* if (!cancelled_) run the callback; otherwise on to the next event.
Recheck == /\ dpc = "recheck"
           /\ dpc' = IF cancelled THEN "check" ELSE "callback"
           /\ next' = IF cancelled THEN next + 1 ELSE next
           /\ UNCHANGED <<now, api, cancelled, opc, counts>>

\* Mutant: the event after the one that fired is skipped.
CallbackSkips(ok) ==
    /\ dpc = "callback"
    /\ fired' = Append(fired, [event |-> order[next], run |-> starts,
                               due |-> Due(next), at |-> now, late |-> cancelled])
    /\ dispatched' = IF ok THEN dispatched + 1 ELSE dispatched
    /\ failed' = IF ok THEN failed ELSE failed + 1
    /\ next' = next + 2
    /\ dpc' = "check"
    /\ UNCHANGED <<now, api, cancelled, opc>>

\* Mutant: a callback that throws ends the thread.
CallbackEnds(ok) ==
    /\ dpc = "callback"
    /\ fired' = Append(fired, [event |-> order[next], run |-> starts,
                               due |-> Due(next), at |-> now, late |-> cancelled])
    /\ dispatched' = IF ok THEN dispatched + 1 ELSE dispatched
    /\ failed' = IF ok THEN failed ELSE failed + 1
    /\ next' = next + 1
    /\ dpc' = IF ok THEN "check" ELSE "done"
    /\ UNCHANGED <<now, api, cancelled, opc>>

\* The callback returns or throws.
Callback(ok) ==
    /\ dpc = "callback"
    /\ fired' = Append(fired, [event |-> order[next], run |-> starts,
                               due |-> Due(next), at |-> now, late |-> cancelled])
    /\ dispatched' = IF ok THEN dispatched + 1 ELSE dispatched
    /\ failed' = IF ok THEN failed ELSE failed + 1
    /\ next' = next + 1
    /\ dpc' = "check"
    /\ UNCHANGED <<now, api, cancelled, opc>>

Tick == /\ now < Horizon
        /\ now' = now + 1
        /\ UNCHANGED <<api, cancelled, opc, dpc, next, counts>>

-----------------------------------------------------------------------------
Dispatch == \/ Check \/ Test \/ Block \/ Timeout \/ Recheck
            \/ \E ok \in BOOLEAN : Callback(ok)

Next == \/ \E t \in 0 .. MaxDelay : Schedule(t)
        \/ Start \/ WaitComplete \/ CancelSet \/ CancelNotify \/ Join
        \/ Dispatch \/ SpuriousWake
        \/ Tick

Spec == Init /\ [][Next]_vars

\* The clock advances, the dispatcher thread runs when it can, and a call the
\* owner has begun goes on; the owner need not call anything.
FairSpec == /\ Spec
            /\ WF_vars(Tick)
            /\ WF_vars(Dispatch)
            /\ WF_vars(CancelNotify \/ Join)

-----------------------------------------------------------------------------
(* Properties. *)

TypeOK == /\ now \in 0 .. Horizon /\ epoch \in 0 .. Horizon
          /\ events \in Seq(0 .. MaxDelay) /\ Len(events) <= MaxEvents
          /\ Len(order) <= Len(events)
          /\ cancelled \in BOOLEAN
          /\ opc \in OwnerSteps /\ dpc \in DispatcherSteps
          /\ next \in 1 .. Len(events) + 1
          /\ dispatched \in Nat /\ failed \in Nat
          /\ starts \in 0 .. MaxStarts

\* What fired since the last start().
FiredNow == {i \in DOMAIN fired : fired[i].run = starts}

\* No event fires before its time, whatever wakes the wait up: a spurious
\* wakeup, or the notification of a cancel.
NeverEarly == \A i \in DOMAIN fired : fired[i].at >= fired[i].due

\* Within one start, events fire in time order and none fires twice.
TimeOrder ==
    \A i, j \in FiredNow :
        i < j => /\ fired[i].due <= fired[j].due
                 /\ fired[i].event # fired[j].event

\* Setting cancelled_ lets at most the one callback through that run() had
\* already decided on, and once cancel() has returned no callback can run: what
\* the callbacks captured may be destroyed.
CancelBounds ==
    /\ \A i, j \in FiredNow : fired[i].late /\ fired[j].late => i = j
    /\ cancelled /\ opc = "idle" => dpc = "none"

\* When an uncancelled run() ends, every event was dispatched or counted failed.
Accounted ==
    /\ dispatched + failed = Len(fired)
    /\ dpc = "done" /\ ~cancelled =>
          \A e \in DOMAIN events : \E i \in FiredNow : fired[i].event = e

\* wait_complete and cancel return: at the latest when the last event is due.
CallsReturn == (opc # "idle") ~> (opc = "idle")

\* cancel ends the wait of run() at once: once it has notified and is joining
\* the thread, the thread is not blocked until some event time in the future.
\* (This is what the test of the destructor expects.)
CancelPrompt == opc = "join" => ~(dpc = "asleep" /\ now < Due(next))
=============================================================================
