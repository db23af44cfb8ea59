------------------------------- MODULE Workers -------------------------------
(***************************************************************************)
(* The two worker threads of a transmission and the queue between them:    *)
(* RenderWorker::run (core/runtime/src/render_worker.cpp) produces blocks, *)
(* TxWorker::run (core/runtime/src/tx_worker.cpp) sends them to the        *)
(* device.  Each channel has its own queue and workers; the stop flag is   *)
(* shared by all of them.                                                  *)
(*                                                                         *)
(* A push or a pop is one step, which the refinement of BoundedFifo by     *)
(* SpscQueue justifies; its notification is a later step; and the part of  *)
(* pop_wait and push_wait that runs under the mutex, from the stop check   *)
(* to the sleep, is one step, because every notification takes the mutex.  *)
(* The threads asleep on a condition variable are a set.  A third thread,  *)
(* "main", starts and joins the workers; it may push blocks itself (feed). *)
(***************************************************************************)
EXTENDS Naturals, Sequences, FiniteSets

CONSTANTS Channel,     \* the channels sent on: those of the plan, or config_.channel
          Capacity,    \* config_.queue_capacity
          BlockSize,   \* config_.block_size: samples per block
          RenderThrows \* whether render_block or an impairment may throw

ASSUME WorkersAssumption == /\ IsFiniteSet(Channel) /\ Channel # {}
                            /\ Capacity \in Nat \ {0}
                            /\ BlockSize \in Nat \ {0}
                            /\ RenderThrows \in BOOLEAN

VARIABLES
    stop,      \* stop_source_.stop_requested()
    queue,     \* per channel: the items and the threads asleep on each cv
    render,    \* per channel: the RenderWorker
    tx,        \* per channel: the TxWorker
    device,    \* per channel: TX on or off; ghost: a stop_tx threw, samples sent, burst
    feed       \* per channel: a push_wait called by the main thread

workerVars == <<stop, queue, render, tx, device, feed>>

-----------------------------------------------------------------------------
\* Mutants: every block ends the burst, or begins one.
BlockAlwaysEnds(n, sob, eob) == [n |-> n, sob |-> sob, eob |-> TRUE]
BlockAlwaysBegins(n, sob, eob) == [n |-> n, sob |-> TRUE, eob |-> eob]

\* SampleBlock: how many samples, and the burst boundaries.
Block(n, sob, eob) == [n |-> n, sob |-> sob, eob |-> eob]
Sentinel == Block(0, FALSE, TRUE)

NewQueue == [items |-> <<>>, notEmpty |-> {}, notFull |-> {}]

\* A RenderWorker with its counters, and a TxWorker with its metrics.
RenderWorker(pc, target) ==
    [pc |-> pc, target |-> target, block |-> Sentinel, first |-> TRUE,
     rendered |-> 0, failed |-> FALSE, complete |-> FALSE]
TxWorker(pc) == [pc |-> pc, block |-> Sentinel, sent |-> 0, blocks |-> 0,
                 underruns |-> 0, failed |-> FALSE]

WorkersInit ==
    /\ stop = FALSE
    /\ queue = [c \in Channel |-> NewQueue]
    /\ render = [c \in Channel |-> RenderWorker("none", 0)]
    /\ tx = [c \in Channel |-> TxWorker("none")]
    /\ device = [c \in Channel |-> [on |-> FALSE, stuck |-> FALSE, air |-> 0,
                                 burst |-> "closed"]]
    /\ feed = [c \in Channel |-> [pc |-> "idle", block |-> Sentinel]]

\* Mutant: the last block is as long as the others.
LeastIgnored(m, n) == n

\* std::min
Least(m, n) == IF m < n THEN m ELSE n

\* notify_one wakes some thread of the set, notify_all every thread.
AfterNotifyOne(S) == IF S = {} THEN {{}} ELSE {S \ {t} : t \in S}
NotifyAll(c) == queue' = [queue EXCEPT ![c].notEmpty = {}, ![c].notFull = {}]

Items(c) == queue[c].items

IsFull(c) == Len(Items(c)) >= Capacity

\* A successful push or pop, before its notification.
PushItem(c, b) == /\ ~IsFull(c)
                  /\ queue' = [queue EXCEPT ![c].items = Append(@, b)]
PopItem(c) == /\ Items(c) # <<>>
              /\ queue' = [queue EXCEPT ![c].items = Tail(@)]

SleepNotEmpty(c, t) == queue' = [queue EXCEPT ![c].notEmpty = @ \cup {t}]
SleepNotFull(c, t) == queue' = [queue EXCEPT ![c].notFull = @ \cup {t}]

\* Mutant: the notification of a push is forgotten.
WakeForgotten(c) == UNCHANGED queue

WakeNotEmpty(c) == \E S \in AfterNotifyOne(queue[c].notEmpty) :
                        queue' = [queue EXCEPT ![c].notEmpty = S]
WakeNotFull(c) == \E S \in AfterNotifyOne(queue[c].notFull) :
                        queue' = [queue EXCEPT ![c].notFull = S]

-----------------------------------------------------------------------------
(* RenderWorker::run *)

\* samples_rendered() == 0
NothingRendered(c) == render[c].rendered = 0

RenderGoto(c, step) == render' = [render EXCEPT ![c].pc = step]
RenderFail(c) == render' = [render EXCEPT ![c].failed = TRUE, ![c].pc = "complete"]

\* Checks of the job, creation of source and impairments: they may fail or throw.
RenderStart(c) == /\ render[c].pc = "start"
                  /\ RenderGoto(c, "loop") \/ RenderFail(c)
                  /\ UNCHANGED <<stop, queue, tx, device>>

\* One turn of the loop up to the push: the stop flag, then render_block, which
\* produces up to a block of samples, or nothing, or throws.
RenderLoop(c) ==
    LET r == render[c]
        left == r.target - r.rendered
    IN  /\ r.pc = "loop"
        /\ \/ /\ left = 0 \/ stop
              /\ RenderGoto(c, "after")
           \/ /\ left > 0 /\ ~stop
              /\ \/ RenderGoto(c, "after")
                 \/ RenderThrows /\ RenderFail(c)
                 \/ \E n \in 1 .. Least(left, BlockSize) :
                      render' = [render EXCEPT ![c].block = Block(n, r.first, n = left),
                                               ![c].first = FALSE,
                                               ![c].pc = "push"]
        /\ UNCHANGED <<stop, queue, tx, device>>

RenderPush(c) == /\ render[c].pc = "push"
                 /\ \/ PushItem(c, render[c].block) /\ RenderGoto(c, "pushed")
                    \/ IsFull(c) /\ RenderGoto(c, "full") /\ UNCHANGED queue
                 /\ UNCHANGED <<stop, tx, device>>

\* The notification of push_wait, then the count; the sentinel ends the loop.
RenderPushed(c) ==
    /\ render[c].pc = "pushed"
    /\ WakeNotEmpty(c)
    /\ render' = [render EXCEPT
                    ![c].rendered = @ + render[c].block.n,
                    ![c].pc = IF render[c].block = Sentinel THEN "complete" ELSE "loop"]
    /\ UNCHANGED <<stop, tx, device>>

\* push_wait under the mutex: a stop makes it return false, which breaks the
\* loop; a full queue puts the thread to sleep.
RenderWait(c) ==
    /\ render[c].pc = "full"
    /\ \/ /\ stop
          /\ RenderGoto(c, IF render[c].block = Sentinel THEN "complete" ELSE "after")
          /\ UNCHANGED queue
       \/ ~stop /\ ~IsFull(c) /\ RenderGoto(c, "push") /\ UNCHANGED queue
       \/ ~stop /\ IsFull(c) /\ RenderGoto(c, "asleep") /\ SleepNotFull(c, "render")
    /\ UNCHANGED <<stop, tx, device>>

RenderAwake(c) ==
    /\ render[c].pc = "asleep" /\ "render" \notin queue[c].notFull
    /\ IF stop \/ ~IsFull(c)
       THEN RenderGoto(c, "push") /\ UNCHANGED queue
       ELSE SleepNotFull(c, "render") /\ UNCHANGED render
    /\ UNCHANGED <<stop, tx, device>>

\* A render that fell short without a stop has failed, and ends its burst with
\* a sentinel if it began one.
RenderAfter(c) ==
    LET r == render[c]
        short == ~stop /\ r.rendered < r.target
    IN  /\ r.pc = "after"
        /\ render' = [render EXCEPT
                        ![c].failed = @ \/ short,
                        ![c].block = Sentinel,
                        ![c].pc = IF short /\ ~r.first THEN "push" ELSE "complete"]
        /\ UNCHANGED <<stop, queue, tx, device>>

\* finish: complete_ = true, then notify_all.
RenderComplete(c) == /\ render[c].pc = "complete"
                     /\ render' = [render EXCEPT ![c].complete = TRUE, ![c].pc = "finish"]
                     /\ UNCHANGED <<stop, queue, tx, device>>

RenderFinish(c) == /\ render[c].pc = "finish"
                   /\ NotifyAll(c)
                   /\ RenderGoto(c, "done")
                   /\ UNCHANGED <<stop, tx, device>>

RenderStep(c) == /\ \/ RenderStart(c) \/ RenderLoop(c) \/ RenderPush(c)
                    \/ RenderPushed(c) \/ RenderWait(c) \/ RenderAwake(c)
                    \/ RenderAfter(c) \/ RenderComplete(c) \/ RenderFinish(c)
                 /\ UNCHANGED feed

-----------------------------------------------------------------------------
(* TxWorker::run *)

TxGoto(c, step) == tx' = [tx EXCEPT ![c].pc = step]

TxPop(c) ==
    /\ tx[c].pc = "pop"
    /\ \/ /\ PopItem(c)
          /\ tx' = [tx EXCEPT ![c].block = Head(Items(c)), ![c].pc = "popped"]
       \/ Items(c) = <<>> /\ TxGoto(c, "empty") /\ UNCHANGED queue
    /\ UNCHANGED <<stop, render, device>>

\* The notification of pop_wait, which then returns the block.
TxPopped(c) == /\ tx[c].pc = "popped"
               /\ WakeNotFull(c)
               /\ TxGoto(c, "send")
               /\ UNCHANGED <<stop, render, device>>

\* pop_wait under the mutex: a stop makes it return nullopt, which ends the
\* thread; an empty queue puts it to sleep.
TxWait(c) ==
    /\ tx[c].pc = "empty"
    /\ \/ stop /\ TxGoto(c, "done") /\ UNCHANGED queue
       \/ ~stop /\ Items(c) # <<>> /\ TxGoto(c, "pop") /\ UNCHANGED queue
       \/ ~stop /\ Items(c) = <<>> /\ TxGoto(c, "asleep") /\ SleepNotEmpty(c, "tx")
    /\ UNCHANGED <<stop, render, device>>

TxAwake(c) ==
    /\ tx[c].pc = "asleep" /\ "tx" \notin queue[c].notEmpty
    /\ IF stop \/ Items(c) # <<>>
       THEN TxGoto(c, "pop") /\ UNCHANGED queue
       ELSE SleepNotEmpty(c, "tx") /\ UNCHANGED tx
    /\ UNCHANGED <<stop, render, device>>

\* How the device's view of the burst changes with a block it takes in full.
BurstAfter(burst, b) ==
    CASE b.sob /\ burst = "open"     -> "broken"
      [] ~b.sob /\ burst = "closed"  -> "broken"
      [] burst = "broken"            -> "broken"
      [] OTHER                       -> IF b.eob THEN "closed" ELSE "open"

\* A sentinel has no samples and is not sent, but it is counted as a block.
TxSkip(c) ==
    /\ tx[c].pc = "send" /\ tx[c].block.n = 0
    /\ tx' = [tx EXCEPT ![c].blocks = @ + 1,
                        ![c].pc = IF tx[c].block.eob THEN "done" ELSE "pop"]
    /\ UNCHANGED <<stop, queue, render, device>>

\* send_samples takes n samples: all of them, or fewer (none when TX is off on
\* the channel), which is an underrun and a failure.
TxSend(c, n) ==
    LET b == tx[c].block
        partial == n < b.n
    IN  /\ tx[c].pc = "send" /\ b.n > 0
        /\ n \in IF device[c].on THEN 0 .. b.n ELSE {0}
        /\ device' = [device EXCEPT
                        ![c].air = @ + n,
                        ![c].burst = IF partial THEN @ ELSE BurstAfter(@, b)]
        /\ tx' = [tx EXCEPT
                    ![c].underruns = IF partial THEN @ + 1 ELSE @,
                    ![c].failed = @ \/ partial,
                    ![c].sent = @ + n,
                    ![c].blocks = @ + 1,
                    ![c].pc = IF partial THEN "stop"
                              ELSE IF b.eob THEN "done" ELSE "pop"]
        /\ UNCHANGED <<stop, queue, render>>

\* send_samples throws: nothing is counted.
TxThrow(c) == /\ tx[c].pc = "send" /\ tx[c].block.n > 0
              /\ tx' = [tx EXCEPT ![c].failed = TRUE, ![c].pc = "stop"]
              /\ UNCHANGED <<stop, queue, render, device>>

\* request_stop of a failed worker: the shared flag, then its own queue.
TxStop(c) == /\ tx[c].pc = "stop"
             /\ stop' = TRUE
             /\ TxGoto(c, "notify")
             /\ UNCHANGED <<queue, render, device>>

TxNotify(c) == /\ tx[c].pc = "notify"
               /\ NotifyAll(c)
               /\ TxGoto(c, "done")
               /\ UNCHANGED <<stop, render, device>>

TxStep(c) == /\ \/ TxPop(c) \/ TxPopped(c) \/ TxWait(c) \/ TxAwake(c) \/ TxSkip(c)
                \/ \E n \in 0 .. BlockSize : TxSend(c, n)
                \/ TxThrow(c) \/ TxStop(c) \/ TxNotify(c)
             /\ UNCHANGED feed

-----------------------------------------------------------------------------
(* push_wait called by the main thread: it sets feed to "push" and goes on   *)
(* when feed is "ok" (the call returned true) or "stopped" (false).          *)

FeedGoto(c, step) == feed' = [feed EXCEPT ![c].pc = step]
StartFeed(c, b) == feed' = [feed EXCEPT ![c] = [pc |-> "push", block |-> b]]
EndFeed(c) == FeedGoto(c, "idle")
Fed(c) == feed[c].pc \in {"ok", "stopped"}

FeedPush(c) == /\ feed[c].pc = "push"
               /\ \/ PushItem(c, feed[c].block) /\ FeedGoto(c, "pushed")
                  \/ IsFull(c) /\ FeedGoto(c, "full") /\ UNCHANGED queue

FeedPushed(c) == /\ feed[c].pc = "pushed"
                 /\ WakeNotEmpty(c)
                 /\ FeedGoto(c, "ok")

FeedWait(c) ==
    /\ feed[c].pc = "full"
    /\ \/ stop /\ FeedGoto(c, "stopped") /\ UNCHANGED queue
       \/ ~stop /\ ~IsFull(c) /\ FeedGoto(c, "push") /\ UNCHANGED queue
       \/ ~stop /\ IsFull(c) /\ FeedGoto(c, "asleep") /\ SleepNotFull(c, "main")

FeedAwake(c) ==
    /\ feed[c].pc = "asleep" /\ "main" \notin queue[c].notFull
    /\ IF stop \/ ~IsFull(c)
       THEN FeedGoto(c, "push") /\ UNCHANGED queue
       ELSE SleepNotFull(c, "main") /\ UNCHANGED feed

FeedStep(c) == /\ FeedPush(c) \/ FeedPushed(c) \/ FeedWait(c) \/ FeedAwake(c)
               /\ UNCHANGED <<stop, render, tx, device>>

-----------------------------------------------------------------------------
(* IHalDevice::start_tx and stop_tx, the latter through stop_tx_noexcept.     *)

StartTx(c) == device' = [device EXCEPT ![c].on = TRUE]
StopTx(c, ok) == device' = [device EXCEPT ![c].on = @ /\ ~ok, ![c].stuck = @ \/ ~ok]

-----------------------------------------------------------------------------
Threads == {"render", "tx", "main"}
RenderSteps == {"none", "start", "loop", "push", "pushed", "full", "asleep", "after",
                "complete", "finish", "done"}
TxSteps == {"none", "pop", "popped", "empty", "asleep", "send", "stop", "notify", "done"}
FeedSteps == {"idle", "push", "pushed", "full", "asleep", "ok", "stopped"}
BlockType == [n : 0 .. BlockSize, sob : BOOLEAN, eob : BOOLEAN]
QueueType == [items : Seq(BlockType), notEmpty : SUBSET Threads, notFull : SUBSET Threads]
RenderType == [pc : RenderSteps, target : Nat, block : BlockType, first : BOOLEAN,
               rendered : Nat, failed : BOOLEAN, complete : BOOLEAN]
TxType == [pc : TxSteps, block : BlockType, sent : Nat, blocks : Nat, underruns : Nat,
           failed : BOOLEAN]
DeviceType == [on : BOOLEAN, stuck : BOOLEAN, air : Nat, burst : {"closed", "open", "broken"}]
FeedType == [pc : FeedSteps, block : BlockType]

QueueTypeOK == queue \in [Channel -> QueueType] /\ \A c \in Channel : Len(Items(c)) <= Capacity
RenderTypeOK == /\ render \in [Channel -> RenderType]
                /\ \A c \in Channel : render[c].rendered <= render[c].target

WorkersTypeOK ==
    /\ stop \in BOOLEAN
    /\ QueueTypeOK
    /\ RenderTypeOK
    /\ tx \in [Channel -> TxType]
    /\ device \in [Channel -> DeviceType]
    /\ feed \in [Channel -> FeedType]
=============================================================================
