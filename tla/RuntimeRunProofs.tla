--------------------------- MODULE RuntimeRunProofs ---------------------------
(***************************************************************************)
(* What RuntimeRun keeps true for any number of channels, any schedules,   *)
(* blocks and queues of any size, in the three kinds of run.               *)
(*                                                                         *)
(* The inductive invariant IInv says of each channel which of its workers  *)
(* may run at which step of the thread that has started them (Owned), on   *)
(* which channels TX may be on and who will stop it (Begun), and that once *)
(* abort() has passed a channel of the plan only sentinels are on the way  *)
(* to its device (Silenced).  A step concerns one channel: a lemma per     *)
(* kind of step shows that it leaves the others alone (Beside) and what it *)
(* does to its own; OneMove, Goto, RunMove and StopMove join the parts.    *)
(* The second part follows the samples of a run (FlowInv), the third shows *)
(* that none of its channels is ever stuck (LiveInv).                      *)
(***************************************************************************)
EXTENDS RuntimeRun, Induction, FiniteSetTheorems

(* The inductive invariant. *)

RunRecord == [pc : RunSteps, started : SUBSET Channel, eventFailed : BOOLEAN,
              stopFailed : BOOLEAN, result : BOOLEAN]
AbortRecord == [pc : AbortSteps, left : SUBSET Channel]

ControlTypes ==
    /\ state \in RuntimeState
    /\ run \in RunRecord
    /\ active \subseteq Channel
    /\ txLock \in {"none", "run", "abort"}
    /\ abort \in AbortRecord
    /\ mode \in Modes
    /\ bound \in {{}, Channel}

Locks == /\ txLock = "abort" <=> abort.pc = "join"
         /\ IsSingle => LockHeldToMove
         /\ IsReplay => LockHeldToJoin

\* What a RenderWorker is about to push it has still to render.
Filling == \A c \in Channel :
    render[c].pc \in {"push", "pushed", "full", "asleep"} =>
        render[c].rendered + render[c].block.n <= render[c].target

WorkersInv == WorkersTypeOK /\ Filling

\* A thread that is at a job has one.
AtAJob == \A c \in Channel :
    mode = "realtime" /\ main[c].pc \notin {"next", "ended"} => main[c].job <= Len(jobs[c])

JobsInv == JobsTypeOK /\ AtAJob

Gone == {"none", "done"}
Before == {"next", "delay", "begin"}
Moving == {"stop", "notify", "renderSentinel", "move"}
HasTx == {"joinRender", "decide", "stop", "notify", "renderSentinel", "move", "mix", "mixPush",
          "sentinel", "take", "joinTx"}

\* Which steps of the thread have workers beside them.
Owned(c) ==
    /\ render[c].pc \notin Gone => /\ main[c].pc \in {"prime", "primeAsleep", "create", "joinRender"}
                                  /\ TheJob(c).kind = "render"
                                  /\ mode = "realtime"
    /\ tx[c].pc \notin Gone \/ c \in active => main[c].pc \in HasTx
    /\ mode = "realtime" /\ main[c].pc = "joinTx" => c \notin active
    /\ ~IsMulti /\ main[c].pc \in {"joinRender", "decide", "mix", "mixPush", "sentinel", "take"}
          => c \in active \/ tx[c].pc = "done"

\* A channel on which nothing has happened yet.
Fresh(c) == Items(c) = <<>> /\ render[c].pc = "none" /\ tx[c].pc = "none" /\ feed[c].pc = "idle"

\* On which channels TX may be on, and who has started it.
Begun(c) ==
    /\ device[c].on => c \in run.started \/ device[c].stuck
    /\ run.pc \in {"called", "entering", "start"} => main[c].pc = "next" /\ Fresh(c)
    /\ ~IsMulti /\ run.pc = "jobs" /\ main[c].pc \in {"next", "delay", "begin"} =>
           c \in run.started \/ Fresh(c)
    /\ IsSingle /\ run.pc = "jobs" /\ main[c].pc \notin {"next", "delay", "begin", "ended"} =>
           c \in run.started
    /\ IsReplay /\ main[c].pc \in {"next", "begin"} => c \notin run.started

Control ==
    /\ abort.pc # "idle" => stop
    /\ abort.pc = "write" => abort.left = bound
    /\ run.pc \in {"called", "entering", "completing", "failing", "fail", "returned"} =>
           run.started = {}
    /\ IsMulti => active = {}

\* No samples are on the way to the device.
Silent(c) ==
    /\ \A i \in DOMAIN Items(c) : Items(c)[i].n = 0
    /\ render[c].pc \in {"push", "pushed", "full", "asleep"} => render[c].block.n = 0
    /\ tx[c].pc \in {"popped", "send"} => tx[c].block.n = 0
    /\ feed[c].pc \in {"push", "full", "asleep"} => feed[c].block.n = 0

\* TX that was started after abort() had stopped it stays silent.
AbortPassed(c) == \/ abort.pc \in {"join", "returned"}
                  \/ abort.pc = "stopTx" /\ c \notin abort.left
Silenced(c) == c \in bound /\ AbortPassed(c) /\ device[c].on /\ ~device[c].stuck => Silent(c)

IInv == /\ WorkersInv /\ JobsInv /\ ControlTypes /\ Locks /\ Control
        /\ \A c \in Channel : Owned(c) /\ Begun(c) /\ Silenced(c)

-----------------------------------------------------------------------------
(* The sums of a schedule. *)

IsSum(f, schedule, k) ==
    /\ f \in [0 .. k -> Nat] /\ f[0] = 0
    /\ \A n \in 1 .. k : f[n] = f[n - 1] + schedule[n].target

LEMMA TargetsAreNat ==
    ASSUME NEW schedule \in Seq(Job)
    PROVE  Len(schedule) \in Nat /\ \A n \in 1 .. Len(schedule) : schedule[n].target \in Nat
<1>1. \A job \in Job : job.target \in Nat
  BY DEF Job
<1>2. \A n \in 1 .. Len(schedule) : schedule[n] \in Job
  OBVIOUS
<1>3. QED
  BY <1>1, <1>2

LEMMA SumExists ==
    ASSUME NEW schedule \in Seq(Job)
    PROVE  \E f : IsSum(f, schedule, Len(schedule))
<1> DEFINE Summed == {k \in 0 .. Len(schedule) : \E f : IsSum(f, schedule, k)}
<1>1. Len(schedule) \in Nat /\ \A n \in 1 .. Len(schedule) : schedule[n].target \in Nat
  BY TargetsAreNat
<1>2. 0 \in Summed
  <2>1. IsSum([n \in 0 .. 0 |-> 0], schedule, 0)
    BY DEF IsSum
  <2>2. QED
    BY <1>1, <2>1
<1>3. ASSUME NEW k \in Summed, k < Len(schedule) PROVE k + 1 \in Summed
  <2>1. PICK f : IsSum(f, schedule, k)
    OBVIOUS
  <2> DEFINE g == [n \in 0 .. k + 1 |-> IF n = k + 1 THEN f[k] + schedule[k + 1].target ELSE f[n]]
  <2>2. k \in Nat /\ f[k] \in Nat /\ f \in [0 .. k -> Nat] /\ schedule[k + 1].target \in Nat
    BY <1>1, <1>3, <2>1 DEF IsSum
  <2>3. g \in [0 .. k + 1 -> Nat] /\ g[0] = 0
    BY <2>1, <2>2 DEF IsSum
  <2>4. ASSUME NEW n \in 1 .. k + 1 PROVE g[n] = g[n - 1] + schedule[n].target
    <3>1. n - 1 \in 0 .. k /\ g[n - 1] = f[n - 1]
      BY <2>2
    <3>2. n <= k => f[n] = f[n - 1] + schedule[n].target
      BY <2>1, <2>2 DEF IsSum
    <3>3. QED
      BY <2>2, <3>1, <3>2
  <2>5. IsSum(g, schedule, k + 1)
    BY <2>3, <2>4 DEF IsSum
  <2>6. QED
    BY <1>1, <1>3, <2>5
<1> HIDE DEF Summed
<1>4. Len(schedule) \in Summed
  <2>1. \A k \in 0 .. Len(schedule) : k \in Summed /\ k < Len(schedule) => k + 1 \in Summed
    BY <1>3
  <2>2. 0 .. Len(schedule) \subseteq Summed
    BY <1>1, <1>2, <2>1, UpToBound
  <2>3. QED
    BY <1>1, <2>2
<1>5. QED
  BY <1>4 DEF Summed

\* What UpTo computes.
LEMMA UpToIsSum ==
    ASSUME NEW schedule \in Seq(Job)
    PROVE  IsSum(UpTo(schedule), schedule, Len(schedule))
<1> DEFINE sum == UpTo(schedule)
<1>1. Len(schedule) \in Nat /\ \A n \in 1 .. Len(schedule) : schedule[n].target \in Nat
  BY TargetsAreNat
<1>2. sum = [n \in 0 .. Len(schedule) |-> IF n = 0 THEN 0 ELSE sum[n - 1] + schedule[n].target]
  <2>1. PICK f : IsSum(f, schedule, Len(schedule))
    BY SumExists
  <2>2. f = [n \in 0 .. Len(schedule) |-> IF n = 0 THEN 0 ELSE f[n - 1] + schedule[n].target]
    BY <2>1 DEF IsSum
  <2>3. QED
    BY <2>2 DEF UpTo
<1> HIDE DEF sum
<1>3. sum[0] = 0 /\ \A n \in 1 .. Len(schedule) : sum[n] = sum[n - 1] + schedule[n].target
  BY <1>1, <1>2
<1> DEFINE Numbers == {n \in 0 .. Len(schedule) : sum[n] \in Nat}
<1>4. 0 \in Numbers /\ \A n \in 0 .. Len(schedule) : n \in Numbers /\ n < Len(schedule) => n + 1 \in Numbers
  <2>1. ASSUME NEW n \in 0 .. Len(schedule), sum[n] \in Nat, n < Len(schedule) PROVE sum[n + 1] \in Nat
    <3>1. n + 1 \in 1 .. Len(schedule) /\ n + 1 - 1 = n
      BY <1>1, <2>1
    <3>2. QED
      BY <1>1, <1>3, <2>1, <3>1
  <2>2. QED
    BY <1>1, <1>3, <2>1
<1>5. 0 .. Len(schedule) \subseteq Numbers
  <2> HIDE DEF Numbers
  <2>1. QED
    BY <1>1, <1>4, UpToBound
<1>6. sum \in [0 .. Len(schedule) -> Nat]
  BY <1>2, <1>5
<1>7. QED
  BY <1>3, <1>6 DEF IsSum, sum

LEMMA TotalIsNat ==
    ASSUME NEW schedule \in Seq(Job)
    PROVE  Total(schedule) \in Nat
BY UpToIsSum DEF Total, IsSum

-----------------------------------------------------------------------------
(* The types of the workers. *)

\* The blocks the threads make.
LEMMA BlockFacts ==
    /\ Sentinel \in BlockType /\ Sentinel.n = 0
    /\ \A left \in Nat, first, last \in BOOLEAN : left > 0 =>
          /\ Block(Least(left, BlockSize), first, last) \in BlockType
          /\ \A n \in 1 .. Least(left, BlockSize) :
                /\ Block(n, first, last) \in BlockType
                /\ Block(n, first, last).n = n /\ n \in Nat /\ n <= left
BY WorkersAssumption DEF Sentinel, Block, BlockType, Least

LEMMA BlockNumbers == \A b \in BlockType : b.n \in Nat /\ b.n <= BlockSize
BY WorkersAssumption DEF BlockType

\* A queue that is replaced by one of its type.
LEMMA QueueSet ==
    ASSUME QueueTypeOK, NEW c \in Channel, NEW q \in QueueType, Len(q.items) <= Capacity,
           queue' = [queue EXCEPT ![c] = q]
    PROVE  QueueTypeOK'
BY DEF QueueTypeOK, Items

LEMMA ItemsSet ==
    ASSUME QueueTypeOK, NEW c \in Channel, NEW items \in Seq(BlockType), Len(items) <= Capacity,
           queue' = [queue EXCEPT ![c] = [queue[c] EXCEPT !.items = items]]
    PROVE  QueueTypeOK'
<1>1. [queue[c] EXCEPT !.items = items] \in QueueType
  BY DEF QueueTypeOK, QueueType
<1>2. [queue[c] EXCEPT !.items = items].items = items
  BY DEF QueueTypeOK, QueueType
<1>3. QED
  BY <1>1, <1>2, QueueSet

\* Every operation on a queue keeps its type, and its length within the capacity.
LEMMA QueueOps ==
    ASSUME QueueTypeOK, NEW c \in Channel,
           \/ \E b \in BlockType : PushItem(c, b)
           \/ PopItem(c) \/ NotifyAll(c) \/ WakeNotEmpty(c) \/ WakeNotFull(c)
           \/ \E t \in Threads : SleepNotEmpty(c, t) \/ SleepNotFull(c, t)
           \/ queue' = [queue EXCEPT ![c] = NewQueue]
           \/ UNCHANGED queue
    PROVE  QueueTypeOK'
<1> DEFINE q == queue[c]
<1>1. /\ queue \in [Channel -> QueueType] /\ q \in QueueType /\ Items(c) = q.items
      /\ Len(q.items) <= Capacity /\ q.items \in Seq(BlockType) /\ Capacity \in Nat
      /\ q.notEmpty \subseteq Threads /\ q.notFull \subseteq Threads
  BY WorkersAssumption DEF QueueTypeOK, QueueType, Items
<1>2. ASSUME NEW b \in BlockType, PushItem(c, b) PROVE QueueTypeOK'
  <2>1. Append(q.items, b) \in Seq(BlockType) /\ Len(Append(q.items, b)) = Len(q.items) + 1 /\ Len(q.items) \in Nat
    BY <1>1, <1>2
  <2>2. Len(Append(q.items, b)) <= Capacity
    BY <1>1, <1>2, <2>1 DEF PushItem, IsFull
  <2>3. queue' = [queue EXCEPT ![c] = [q EXCEPT !.items = Append(q.items, b)]]
    BY <1>1, <1>2 DEF PushItem, QueueType, Items
  <2>4. QED
    BY <1>1, <2>1, <2>2, <2>3, ItemsSet
<1>3. CASE PopItem(c)
  <2>1. q.items # <<>>
    BY <1>1, <1>3 DEF PopItem
  <2>2. Tail(q.items) \in Seq(BlockType) /\ Len(Tail(q.items)) <= Len(q.items) /\ Len(q.items) \in Nat /\ Len(Tail(q.items)) \in Nat
    BY <1>1, <2>1
  <2>3. queue' = [queue EXCEPT ![c] = [q EXCEPT !.items = Tail(q.items)]]
    BY <1>1, <1>3 DEF PopItem, QueueType
  <2>4. Len(Tail(q.items)) <= Capacity
    BY <1>1, <2>2
  <2>5. QED
    BY <2>2, <2>3, <2>4, ItemsSet
<1>4. ASSUME NEW S \in SUBSET Threads, NEW T \in SUBSET Threads,
             \/ queue' = [queue EXCEPT ![c].notEmpty = S]
             \/ queue' = [queue EXCEPT ![c].notFull = T]
             \/ queue' = [queue EXCEPT ![c].notEmpty = S, ![c].notFull = T]
      PROVE  QueueTypeOK'
  <2>1. PICK new \in {[q EXCEPT !.notEmpty = S], [q EXCEPT !.notFull = T],
                      [q EXCEPT !.notEmpty = S, !.notFull = T]} :
            queue' = [queue EXCEPT ![c] = new]
    BY <1>1, <1>4 DEF QueueType
  <2>2. new \in QueueType /\ new.items = q.items
    BY <1>1 DEF QueueType
  <2>3. QED
    BY <1>1, <2>1, <2>2, QueueSet
<1>5. CASE NotifyAll(c)
  <2>1. {} \in SUBSET Threads
    OBVIOUS
  <2>2. QED
    BY <1>4, <1>5, <2>1 DEF NotifyAll
<1>6. CASE WakeNotEmpty(c) \/ WakeNotFull(c)
  <2>1. \A T \in SUBSET Threads : \A S \in AfterNotifyOne(T) : S \subseteq Threads
    BY DEF AfterNotifyOne
  <2>2. QED
    BY <1>1, <1>4, <1>6, <2>1 DEF WakeNotEmpty, WakeNotFull
<1>7. ASSUME NEW t \in Threads, SleepNotEmpty(c, t) \/ SleepNotFull(c, t) PROVE QueueTypeOK'
  <2>1. q.notEmpty \cup {t} \subseteq Threads /\ q.notFull \cup {t} \subseteq Threads
    BY <1>1
  <2>2. QED
    BY <1>4, <1>7, <2>1 DEF SleepNotEmpty, SleepNotFull
<1>8. CASE queue' = [queue EXCEPT ![c] = NewQueue]
  <2>1. NewQueue \in QueueType /\ NewQueue.items = <<>> /\ Len(<<>>) = 0 /\ 0 <= Capacity
    BY WorkersAssumption DEF NewQueue, QueueType
  <2>2. QED
    BY <1>8, <2>1, QueueSet
<1>9. CASE UNCHANGED queue
  BY <1>9 DEF QueueTypeOK, Items
<1>10. QED
  BY <1>2, <1>3, <1>5, <1>6, <1>7, <1>8, <1>9

\* A RenderWorker that is replaced by one of its type.
LEMMA RenderSet ==
    ASSUME RenderTypeOK, Filling, NEW c \in Channel, NEW r \in RenderType,
           render' = [render EXCEPT ![c] = r], r.rendered <= r.target,
           r.pc \in {"push", "pushed", "full", "asleep"} => r.rendered + r.block.n <= r.target
    PROVE  RenderTypeOK' /\ Filling'
BY DEF RenderTypeOK, Filling

\* No step of a RenderWorker renders more than its target.
LEMMA RenderTypes ==
    ASSUME RenderTypeOK, Filling, NEW c \in Channel, RenderStep(c)
    PROVE  RenderTypeOK' /\ Filling'
<1> DEFINE r == render[c]
<1>1. /\ render \in [Channel -> RenderType] /\ r \in RenderType /\ r.block \in BlockType
      /\ r.target \in Nat /\ r.rendered \in Nat /\ r.rendered <= r.target
      /\ r.pc \in {"push", "pushed", "full", "asleep"} => r.rendered + r.block.n <= r.target
  BY DEF RenderTypeOK, RenderType, Filling
<1>2. ASSUME NEW step \in RenderSteps, RenderGoto(c, step),
             step \in {"push", "pushed", "full", "asleep"} => r.rendered + r.block.n <= r.target
      PROVE  RenderTypeOK' /\ Filling'
  <2>1. [r EXCEPT !.pc = step] \in RenderType
    BY <1>1 DEF RenderType
  <2>2. render' = [render EXCEPT ![c] = [r EXCEPT !.pc = step]]
    BY <1>1, <1>2 DEF RenderGoto, RenderType
  <2>3. QED
    BY <1>1, <1>2, <2>1, <2>2, RenderSet DEF RenderType
<1>3. CASE RenderFail(c)
  <2>1. [r EXCEPT !.failed = TRUE, !.pc = "complete"] \in RenderType
    BY <1>1 DEF RenderType, RenderSteps
  <2>2. render' = [render EXCEPT ![c] = [r EXCEPT !.failed = TRUE, !.pc = "complete"]]
    BY <1>1, <1>3 DEF RenderFail, RenderType
  <2>3. QED
    BY <1>1, <2>1, <2>2, RenderSet DEF RenderType
<1>4. CASE RenderLoop(c)
  <2> DEFINE left == r.target - r.rendered
  <2>1. left \in Nat
    BY <1>1
  <2>2. ASSUME left > 0, NEW n \in 1 .. Least(left, BlockSize),
               render' = [render EXCEPT ![c].block = Block(n, r.first, n = left),
                                        ![c].first = FALSE, ![c].pc = "push"]
        PROVE  RenderTypeOK' /\ Filling'
    <3> DEFINE b == Block(n, r.first, n = left)
               new == [r EXCEPT !.block = b, !.first = FALSE, !.pc = "push"]
    <3>1. b \in BlockType /\ b.n = n /\ n \in Nat /\ n <= left
      BY <1>1, <2>1, <2>2, BlockFacts DEF RenderType
    <3> HIDE DEF b
    <3>2. new \in RenderType /\ new.rendered = r.rendered /\ new.target = r.target /\ new.block = b
      BY <1>1, <3>1 DEF RenderType, RenderSteps
    <3>3. render' = [render EXCEPT ![c] = new]
      BY <1>1, <2>2 DEF RenderType, b
    <3>4. r.rendered + n <= r.target
      BY <1>1, <3>1
    <3> HIDE DEF new
    <3>5. QED
      BY <1>1, <3>1, <3>2, <3>3, <3>4, RenderSet
  <2>3. QED
    BY <1>2, <1>3, <1>4, <2>1, <2>2 DEF RenderLoop, RenderSteps
<1>5. CASE RenderPushed(c)
  <2> DEFINE new == [r EXCEPT !.rendered = r.rendered + r.block.n,
                              !.pc = IF r.block = Sentinel THEN "complete" ELSE "loop"]
  <2>1. r.rendered + r.block.n \in Nat /\ r.rendered + r.block.n <= r.target
    BY <1>1, <1>5, BlockNumbers DEF RenderPushed
  <2>2. /\ new \in RenderType /\ new.rendered = r.rendered + r.block.n /\ new.target = r.target
        /\ new.pc \in {"complete", "loop"}
    BY <1>1, <2>1 DEF RenderType, RenderSteps
  <2>3. render' = [render EXCEPT ![c] = new]
    BY <1>1, <1>5 DEF RenderPushed, RenderType
  <2> HIDE DEF new
  <2>4. QED
    BY <1>1, <2>1, <2>2, <2>3, RenderSet
<1>6. CASE RenderAfter(c)
  <2>1. PICK failed \in BOOLEAN, step \in {"push", "complete"} :
            render' = [render EXCEPT ![c] = [r EXCEPT !.failed = failed, !.block = Sentinel, !.pc = step]]
    BY <1>1, <1>6 DEF RenderAfter, RenderType
  <2> DEFINE new == [r EXCEPT !.failed = failed, !.block = Sentinel, !.pc = step]
  <2>2. new \in RenderType /\ new.rendered = r.rendered /\ new.target = r.target /\ new.block = Sentinel
    BY <1>1, BlockFacts DEF RenderType, RenderSteps
  <2>3. r.rendered + Sentinel.n <= r.target
    BY <1>1, BlockFacts
  <2>4. QED
    BY <1>1, <2>1, <2>2, <2>3, RenderSet
<1>7. CASE RenderComplete(c)
  <2>1. [r EXCEPT !.complete = TRUE, !.pc = "finish"] \in RenderType
    BY <1>1 DEF RenderType, RenderSteps
  <2>2. render' = [render EXCEPT ![c] = [r EXCEPT !.complete = TRUE, !.pc = "finish"]]
    BY <1>1, <1>7 DEF RenderComplete, RenderType
  <2>3. QED
    BY <1>1, <2>1, <2>2, RenderSet DEF RenderType
<1>8. CASE UNCHANGED render
  BY <1>8 DEF RenderTypeOK, Filling
<1>9. CASE RenderStart(c) \/ RenderPush(c) \/ RenderFinish(c)
  BY <1>1, <1>2, <1>3, <1>9 DEF RenderStart, RenderPush, RenderFinish, RenderSteps
<1>10. CASE RenderWait(c) \/ RenderAwake(c)
  BY <1>1, <1>2, <1>8, <1>10 DEF RenderWait, RenderAwake, RenderSteps
<1>11. QED
  BY <1>4, <1>5, <1>6, <1>7, <1>9, <1>10 DEF RenderStep

\* What is written into the queue by a step of the RenderWorker.
LEMMA RenderQueue ==
    ASSUME WorkersTypeOK, NEW c \in Channel, RenderStep(c)
    PROVE  QueueTypeOK'
<1>1. render[c].block \in BlockType /\ QueueTypeOK /\ "render" \in Threads
  BY DEF WorkersTypeOK, RenderTypeOK, RenderType, Threads
<1>2. CASE RenderPush(c)
  BY <1>1, <1>2, QueueOps DEF RenderPush
<1>3. CASE RenderPushed(c) \/ RenderFinish(c)
  BY <1>1, <1>3, QueueOps DEF RenderPushed, RenderFinish
<1>4. CASE RenderWait(c) \/ RenderAwake(c)
  BY <1>1, <1>4, QueueOps DEF RenderWait, RenderAwake
<1>5. CASE RenderStart(c) \/ RenderLoop(c) \/ RenderAfter(c) \/ RenderComplete(c)
  BY <1>1, <1>5, QueueOps DEF RenderStart, RenderLoop, RenderAfter, RenderComplete
<1>6. QED
  BY <1>2, <1>3, <1>4, <1>5 DEF RenderStep

LEMMA TxSet ==
    ASSUME tx \in [Channel -> TxType], NEW c \in Channel, NEW t \in TxType,
           tx' = [tx EXCEPT ![c] = t]
    PROVE  tx' \in [Channel -> TxType]
OBVIOUS

\* What a step of the TxWorker writes.
LEMMA TxTypes ==
    ASSUME WorkersTypeOK, NEW c \in Channel, TxStep(c)
    PROVE  tx' \in [Channel -> TxType] /\ QueueTypeOK' /\ device' \in [Channel -> DeviceType] /\ stop' \in BOOLEAN
<1> DEFINE t == tx[c]
<1>1. /\ QueueTypeOK /\ tx \in [Channel -> TxType] /\ t \in TxType /\ "tx" \in Threads
      /\ t.block \in BlockType /\ t.block.n \in Nat /\ t.sent \in Nat /\ t.blocks \in Nat /\ t.underruns \in Nat
      /\ device \in [Channel -> DeviceType] /\ stop \in BOOLEAN
  BY BlockNumbers DEF WorkersTypeOK, TxType, Threads
<1>2. ASSUME NEW step \in TxSteps, TxGoto(c, step) PROVE tx' \in [Channel -> TxType]
  BY <1>1, <1>2 DEF TxGoto, TxType
<1>3. CASE TxPop(c)
  <2>1. CASE PopItem(c) /\ tx' = [tx EXCEPT ![c].block = Head(Items(c)), ![c].pc = "popped"]
    <3>1. Items(c) \in Seq(BlockType) /\ Items(c) # <<>>
      BY <1>1, <2>1 DEF QueueTypeOK, QueueType, Items, PopItem
    <3>2. Head(Items(c)) \in BlockType
      BY <3>1
    <3>3. QED
      BY <1>1, <1>3, <2>1, <3>2, QueueOps DEF TxPop, TxType, TxSteps
  <2>2. QED
    BY <1>1, <1>2, <1>3, <2>1, QueueOps DEF TxPop, TxSteps
<1>4. CASE TxPopped(c) \/ TxNotify(c)
  BY <1>1, <1>2, <1>4, QueueOps DEF TxPopped, TxNotify, TxSteps
<1>5. CASE TxWait(c)
  BY <1>1, <1>2, <1>5, QueueOps DEF TxWait, TxSteps
<1>6. CASE TxAwake(c)
  BY <1>1, <1>2, <1>6, QueueOps DEF TxAwake, TxSteps
<1>7. CASE TxSkip(c)
  <2>1. t.blocks + 1 \in Nat
    BY <1>1
  <2>2. QED
    BY <1>1, <1>7, <2>1, QueueOps DEF TxSkip, TxType, TxSteps
<1>8. ASSUME NEW n \in 0 .. BlockSize, TxSend(c, n) PROVE tx' \in [Channel -> TxType] /\ device' \in [Channel -> DeviceType] /\ QueueTypeOK' /\ stop' = stop
  <2>1. n \in Nat
    BY WorkersAssumption
  <2>2. t.sent + n \in Nat /\ t.blocks + 1 \in Nat /\ t.underruns + 1 \in Nat /\ device[c].air + n \in Nat
    BY <1>1, <2>1 DEF DeviceType
  <2>3. tx' \in [Channel -> TxType]
    BY <1>1, <1>8, <2>2 DEF TxSend, TxType, TxSteps
  <2>4. \A burst \in {"closed", "open", "broken"}, b \in BlockType : BurstAfter(burst, b) \in {"closed", "open", "broken"}
    BY DEF BurstAfter, BlockType
  <2>5. device' \in [Channel -> DeviceType]
    BY <1>1, <1>8, <2>2, <2>4 DEF TxSend, DeviceType
  <2>6. QED
    BY <1>1, <1>8, <2>3, <2>5, QueueOps DEF TxSend
<1>9. CASE TxThrow(c)
  BY <1>1, <1>9, QueueOps DEF TxThrow, TxType, TxSteps
<1>10. CASE TxStop(c)
  BY <1>1, <1>2, <1>10, QueueOps DEF TxStop, TxSteps
<1>11. QED
  BY <1>1, <1>3, <1>4, <1>5, <1>6, <1>7, <1>8, <1>9, <1>10 DEF TxStep, TxPop, TxPopped, TxNotify, TxWait, TxAwake, TxSkip, TxThrow, TxStop

\* What a step of a push_wait of the main thread writes.
LEMMA FeedTypes ==
    ASSUME WorkersTypeOK, NEW c \in Channel, FeedStep(c)
    PROVE  feed' \in [Channel -> FeedType] /\ QueueTypeOK'
<1>1. /\ QueueTypeOK /\ feed \in [Channel -> FeedType] /\ "main" \in Threads /\ feed[c].block \in BlockType
  BY DEF WorkersTypeOK, FeedType, Threads
<1>2. ASSUME NEW step \in FeedSteps, FeedGoto(c, step) PROVE feed' \in [Channel -> FeedType]
  BY <1>1, <1>2 DEF FeedGoto, FeedType
<1>3. CASE FeedPush(c) \/ FeedPushed(c)
  BY <1>1, <1>2, <1>3, QueueOps DEF FeedPush, FeedPushed, FeedSteps
<1>4. CASE FeedWait(c) \/ FeedAwake(c)
  BY <1>1, <1>2, <1>4, QueueOps DEF FeedWait, FeedAwake, FeedSteps
<1>5. QED
  BY <1>3, <1>4 DEF FeedStep

\* The worker threads and the pushes of the main thread.
LEMMA WorkersTyped ==
    ASSUME WorkersInv, NEW c \in Channel,
           \/ RenderStep(c)
           \/ TxStep(c)
           \/ FeedStep(c)
    PROVE  WorkersInv'
<1>1. WorkersTypeOK /\ Filling
  BY DEF WorkersInv
<1>2. CASE RenderStep(c)
  <2>1. UNCHANGED <<stop, tx, device, feed>>
    BY <1>2 DEF RenderStep, RenderStart, RenderLoop, RenderPush, RenderPushed, RenderWait, RenderAwake, RenderAfter, RenderComplete, RenderFinish
  <2>2. QED
    BY <1>1, <1>2, <2>1, RenderTypes, RenderQueue DEF WorkersInv, WorkersTypeOK
<1>3. CASE TxStep(c)
  <2>1. UNCHANGED <<render, feed>>
    BY <1>3 DEF TxStep, TxPop, TxPopped, TxNotify, TxWait, TxAwake, TxSkip, TxSend, TxThrow, TxStop
  <2>2. QED
    BY <1>1, <1>3, <2>1, TxTypes DEF WorkersInv, WorkersTypeOK, RenderTypeOK, Filling
<1>4. CASE FeedStep(c)
  BY <1>1, <1>4, FeedTypes DEF FeedStep, WorkersInv, WorkersTypeOK, RenderTypeOK, Filling
<1>5. QED
  BY <1>2, <1>3, <1>4

-----------------------------------------------------------------------------
(* What the other steps do to the workers, the queues and the device. *)

WorkersChange(c) ==
    /\ stop' = stop \/ stop' = TRUE
    /\ \/ UNCHANGED queue
       \/ queue' = [queue EXCEPT ![c] = NewQueue]
       \/ NotifyAll(c) \/ SleepNotEmpty(c, "main")
    /\ UNCHANGED render \/ \E n \in Nat : render' = [render EXCEPT ![c] = RenderWorker("start", n)]
    /\ UNCHANGED tx \/ tx' = [tx EXCEPT ![c] = TxWorker("pop")]
    /\ UNCHANGED feed \/ EndFeed(c) \/ \E b \in BlockType : StartFeed(c, b)
    /\ UNCHANGED device \/ StartTx(c) \/ \E ok \in BOOLEAN : StopTx(c, ok)

LEMMA WorkersChanged ==
    ASSUME WorkersInv, NEW c \in Channel, WorkersChange(c)
    PROVE  WorkersInv'
<1>1. /\ QueueTypeOK /\ RenderTypeOK /\ Filling /\ stop \in BOOLEAN
      /\ tx \in [Channel -> TxType] /\ feed \in [Channel -> FeedType]
      /\ device \in [Channel -> DeviceType]
  BY DEF WorkersInv, WorkersTypeOK
<1>2. stop' \in BOOLEAN
  BY <1>1 DEF WorkersChange
<1>3. QueueTypeOK'
  BY <1>1, QueueOps DEF WorkersChange, Threads
<1>4. RenderTypeOK' /\ Filling'
  <2>1. ASSUME NEW n \in Nat, render' = [render EXCEPT ![c] = RenderWorker("start", n)]
        PROVE  RenderTypeOK' /\ Filling'
    <3> DEFINE r == RenderWorker("start", n)
    <3>1. r \in RenderType /\ r.rendered <= r.target /\ r.pc = "start"
      BY BlockFacts DEF RenderWorker, RenderType, RenderSteps
    <3> HIDE DEF r
    <3>2. render' = [render EXCEPT ![c] = r]
      BY <2>1 DEF r
    <3>3. QED
      BY <1>1, <3>1, <3>2, RenderSet
  <2>2. CASE UNCHANGED render
    BY <1>1, <2>2 DEF RenderTypeOK, Filling
  <2>3. QED
    BY <2>1, <2>2 DEF WorkersChange
<1>5. tx' \in [Channel -> TxType]
  <2>1. TxWorker("pop") \in TxType
    BY BlockFacts DEF TxWorker, TxType, TxSteps
  <2>2. QED
    BY <1>1, <2>1 DEF WorkersChange
<1>6. feed' \in [Channel -> FeedType]
  <2>1. CASE EndFeed(c)
    BY <1>1, <2>1 DEF EndFeed, FeedGoto, FeedType, FeedSteps
  <2>2. ASSUME NEW b \in BlockType, StartFeed(c, b) PROVE feed' \in [Channel -> FeedType]
    BY <1>1, <2>2 DEF StartFeed, FeedType, FeedSteps
  <2>3. QED
    BY <1>1, <2>1, <2>2 DEF WorkersChange
<1>7. device' \in [Channel -> DeviceType]
  <2>1. CASE StartTx(c)
    BY <1>1, <2>1 DEF StartTx, DeviceType
  <2>2. ASSUME NEW ok \in BOOLEAN, StopTx(c, ok) PROVE device' \in [Channel -> DeviceType]
    <3> DEFINE on == device[c].on /\ ~ok
               stuck == device[c].stuck \/ ~ok
    <3>1. on \in BOOLEAN /\ stuck \in BOOLEAN
      OBVIOUS
    <3>2. device' = [device EXCEPT ![c].on = on, ![c].stuck = stuck]
      BY <2>2 DEF StopTx
    <3> HIDE DEF on, stuck
    <3>3. QED
      BY <1>1, <3>1, <3>2 DEF DeviceType
  <2>3. QED
    BY <1>1, <2>1, <2>2 DEF WorkersChange
<1>8. QED
  BY <1>2, <1>3, <1>4, <1>5, <1>6, <1>7 DEF WorkersInv, WorkersTypeOK

\* The other channels are left alone.
Beside(c) == \A d \in Channel \ {c} :
    /\ queue'[d] = queue[d] /\ render'[d] = render[d] /\ tx'[d] = tx[d]
    /\ device'[d] = device[d] /\ feed'[d] = feed[d] /\ main'[d] = main[d]

LEMMA ChangeBeside ==
    ASSUME WorkersInv, JobsInv, NEW c \in Channel, WorkersChange(c),
           NEW m \in MainType, main' = [main EXCEPT ![c] = m]
    PROVE  Beside(c)
<1>1. /\ queue \in [Channel -> QueueType] /\ render \in [Channel -> RenderType]
      /\ tx \in [Channel -> TxType] /\ feed \in [Channel -> FeedType]
      /\ device \in [Channel -> DeviceType] /\ main \in [Channel -> MainType]
  BY DEF WorkersInv, WorkersTypeOK, QueueTypeOK, RenderTypeOK, JobsInv, JobsTypeOK
<1>2. \A d \in Channel \ {c} : queue'[d] = queue[d]
  BY <1>1 DEF WorkersChange, NotifyAll, SleepNotEmpty
<1>3. \A d \in Channel \ {c} : render'[d] = render[d] /\ tx'[d] = tx[d]
  BY <1>1 DEF WorkersChange
<1>4. \A d \in Channel \ {c} : feed'[d] = feed[d]
  BY <1>1 DEF WorkersChange, EndFeed, FeedGoto, StartFeed
<1>5. \A d \in Channel \ {c} : device'[d] = device[d]
  BY <1>1 DEF WorkersChange, StartTx, StopTx
<1>6. QED
  BY <1>1, <1>2, <1>3, <1>4, <1>5 DEF Beside

-----------------------------------------------------------------------------
(* The steps of the threads that work through the schedules. *)

\* The thread of a channel goes on, within its schedule.
LEMMA JobsSet ==
    ASSUME JobsInv, NEW c \in Channel, NEW m \in MainType, main' = [main EXCEPT ![c] = m],
           UNCHANGED <<jobs, mode, bound>>, m.job \in 1 .. Len(jobs[c]) + 1,
           mode = "realtime" /\ m.pc \notin {"next", "ended"} => m.job <= Len(jobs[c])
    PROVE  JobsInv'
BY DEF JobsInv, JobsTypeOK, AtAJob

\* What a step says of its own channel, it need not say of the others.
LEMMA MainMove ==
    ASSUME IInv, WorkersInv', NEW c \in Channel, Beside(c), run.pc = "jobs",
           NEW m \in MainType, main' = [main EXCEPT ![c] = m],
           UNCHANGED <<jobs, controlVars, mode, bound>>, stop => stop',
           m.job \in 1 .. Len(jobs[c]) + 1,
           mode = "realtime" /\ m.pc \notin {"next", "ended"} => m.job <= Len(jobs[c]),
           IsSingle => (main[c].pc \in Moving <=> m.pc \in Moving),
           IsReplay => main[c].pc # "joinTx" /\ m.pc # "joinTx",
           Owned(c)', Begun(c)', stop /\ Silent(c) => Silent(c)',
           device'[c].on = device[c].on, device'[c].stuck = device[c].stuck
    PROVE  IInv'
<1>1. WorkersInv' /\ JobsInv'
  BY JobsSet DEF IInv
<1>2. ControlTypes' /\ Control'
  BY DEF IInv, ControlTypes, Control, controlVars, IsMulti, OnOneChannel
<1>3. main \in [Channel -> MainType] /\ main'[c] = m /\ \A d \in Channel \ {c} : main'[d] = main[d]
  BY DEF IInv, JobsInv, JobsTypeOK
<1>4. Locks'
  <2>1. UNCHANGED <<txLock, abort, mode, bound>> /\ Locks
    BY DEF IInv, controlVars
  <2>2. (IsSingle => LockHeldToMove)'
    BY <1>3, <2>1 DEF Locks, LockHeldToMove, IsSingle, OnOneChannel, Moving
  <2>3. (IsReplay => LockHeldToJoin)'
    BY <1>3, <2>1 DEF Locks, LockHeldToJoin, IsReplay, OnOneChannel
  <2>4. QED
    BY <2>1, <2>2, <2>3 DEF Locks
<1>5. Silenced(c)'
  BY DEF IInv, Silenced, AbortPassed, Control, controlVars
<1>6. ASSUME NEW d \in Channel \ {c} PROVE (Owned(d) /\ Begun(d) /\ Silenced(d))'
  <2>1. Owned(d)'
    BY DEF IInv, Owned, Beside, controlVars, TheJob, IsMulti, OnOneChannel
  <2>2. Begun(d)'
    BY DEF IInv, Begun, Beside, controlVars, Fresh, Items, IsMulti, IsSingle, IsReplay, OnOneChannel
  <2>3. Silenced(d)'
    BY DEF IInv, Silenced, AbortPassed, Silent, Beside, controlVars, Items
  <2>4. QED
    BY <2>1, <2>2, <2>3
<1>7. QED
  BY <1>1, <1>2, <1>4, <1>5, <1>6 DEF IInv

\* A new queue, new workers and a sentinel bring no samples on the way.
LEMMA StaysSilent ==
    ASSUME WorkersInv, NEW c \in Channel, WorkersChange(c), Silent(c),
           UNCHANGED feed \/ EndFeed(c) \/ StartFeed(c, Sentinel)
    PROVE  Silent(c)'
<1>1. /\ queue \in [Channel -> QueueType] /\ render \in [Channel -> RenderType]
      /\ tx \in [Channel -> TxType] /\ feed \in [Channel -> FeedType]
  BY DEF WorkersInv, WorkersTypeOK, QueueTypeOK, RenderTypeOK
<1>2. queue'[c].items = queue[c].items \/ queue'[c].items = <<>>
  BY <1>1 DEF WorkersChange, NotifyAll, SleepNotEmpty, NewQueue, QueueType
<1>3. render'[c] = render[c] \/ render'[c].pc = "start"
  BY <1>1 DEF WorkersChange, RenderWorker
<1>4. tx'[c] = tx[c] \/ tx'[c].pc = "pop"
  BY <1>1 DEF WorkersChange, TxWorker
<1>5. feed'[c] = feed[c] \/ feed'[c].pc = "idle" \/ feed'[c].block.n = 0
  BY <1>1, BlockFacts DEF EndFeed, FeedGoto, StartFeed, FeedType
<1>6. QED
  BY <1>2, <1>3, <1>4, <1>5 DEF Silent, Items

\* The thread goes on in a step that starts no TX and takes no lock.
LEMMA Goto ==
    ASSUME IInv, NEW c \in Channel, run.pc = "jobs", WorkersChange(c), UNCHANGED device,
           NEW m \in MainType, main' = [main EXCEPT ![c] = m],
           UNCHANGED <<jobs, controlVars, mode, bound>>,
           m.job \in 1 .. Len(jobs[c]) + 1,
           mode = "realtime" /\ m.pc \notin {"next", "ended"} => m.job <= Len(jobs[c]),
           IsSingle => (main[c].pc \in Moving <=> m.pc \in Moving),
           main[c].pc # "ended", IsSingle \/ IsMulti \/ IsReplay,
           IsSingle /\ main[c].pc \in Before => m.pc \in Before \cup {"ended"},
           IsReplay => main[c].pc # "joinTx" /\ m.pc \notin {"joinTx", "next", "delay", "begin"},
           main[c].pc \in Before => UNCHANGED workerVars,
           Owned(c)', stop => UNCHANGED feed \/ EndFeed(c) \/ StartFeed(c, Sentinel)
    PROVE  IInv'
<1>1. WorkersInv' /\ Beside(c)
  BY WorkersChanged, ChangeBeside DEF IInv
<1>2. stop => stop'
  BY DEF WorkersChange
<1>3. stop /\ Silent(c) => Silent(c)'
  BY StaysSilent DEF IInv
<1>4. main'[c] = m /\ IsSingle' = IsSingle /\ IsReplay' = IsReplay /\ IsMulti' = IsMulti
  BY DEF IInv, JobsInv, JobsTypeOK, IsSingle, IsReplay, IsMulti, OnOneChannel
<1>5. mode \in {"realtime", "replay"}
  BY ModesAssumption DEF IInv, ControlTypes
<1>6. Begun(c)'
  <2>1. Begun(c) /\ run' = run /\ device' = device
    BY DEF IInv, controlVars
  <2>2. main[c].pc \in Before /\ Fresh(c) => Fresh(c)'
    BY DEF workerVars, Fresh, Items
  <2>3. ~IsMulti /\ m.pc \in Before => c \in run.started \/ Fresh(c)'
    BY <1>5, <2>1, <2>2 DEF Begun, Before, IsSingle, IsReplay, IsMulti
  <2>4. IsSingle /\ m.pc \notin Before \cup {"ended"} => c \in run.started
    BY <2>1 DEF Begun, Before
  <2>5. QED
    BY <1>4, <2>1, <2>3, <2>4 DEF Begun, Before
<1>7. QED
  BY <1>1, <1>2, <1>3, <1>6, MainMove

\* What the invariant says of one channel.
LEMMA Here ==
    ASSUME IInv, NEW c \in Channel
    PROVE  /\ main \in [Channel -> MainType] /\ main[c] \in MainType /\ main[c].job \in Nat
           /\ jobs[c] \in Seq(Job) /\ Len(jobs[c]) \in Nat /\ main[c].job \in 1 .. Len(jobs[c]) + 1
           /\ mode = "realtime" /\ main[c].pc \notin {"next", "ended"} => main[c].job <= Len(jobs[c])
           /\ queue \in [Channel -> QueueType] /\ render \in [Channel -> RenderType]
           /\ tx \in [Channel -> TxType] /\ device \in [Channel -> DeviceType]
           /\ feed \in [Channel -> FeedType]
           /\ Owned(c) /\ Begun(c) /\ Silenced(c)
<1>1. jobs \in [Channel -> Seq(Job)]
  BY JobsAssumption DEF IInv, JobsInv, JobsTypeOK
<1>2. QED
  BY <1>1 DEF IInv, JobsInv, JobsTypeOK, AtAJob, MainType, WorkersInv, WorkersTypeOK,
              QueueTypeOK, RenderTypeOK

LEMMA JobAtHand ==
    ASSUME IInv, NEW c \in Channel, main[c].job <= Len(jobs[c])
    PROVE  TheJob(c) \in Job /\ TheJob(c).target \in Nat
<1>1. jobs[c] \in Seq(Job) /\ main[c].job \in 1 .. Len(jobs[c])
  BY Here
<1>2. TheJob(c) \in Job
  BY <1>1 DEF TheJob
<1>3. QED
  BY <1>2 DEF Job

\* The thread goes on to another step, and the job stays.
LEMMA GotoStep ==
    ASSUME IInv, NEW c \in Channel, run.pc = "jobs", WorkersChange(c), UNCHANGED device,
           NEW step \in MainSteps, MainGoto(c, step), UNCHANGED <<jobs, controlVars, mode, bound>>,
           main[c].pc = "next" /\ step # "ended" => main[c].job <= Len(jobs[c]),
           IsSingle => (main[c].pc \in Moving <=> step \in Moving),
           main[c].pc # "ended", IsSingle \/ IsMulti \/ IsReplay,
           IsSingle /\ main[c].pc \in Before => step \in Before \cup {"ended"},
           IsReplay => main[c].pc # "joinTx" /\ step \notin {"joinTx", "next", "delay", "begin"},
           main[c].pc \in Before => UNCHANGED workerVars,
           Owned(c)', stop => UNCHANGED feed \/ EndFeed(c) \/ StartFeed(c, Sentinel)
    PROVE  IInv'
<1> DEFINE m == [main[c] EXCEPT !.pc = step]
<1>1. m \in MainType /\ m.pc = step /\ m.job = main[c].job
  BY Here DEF MainType
<1>2. main' = [main EXCEPT ![c] = m]
  BY Here DEF MainGoto, MainType
<1> HIDE DEF m
<1>3. QED
  BY <1>1, <1>2, Here, Goto

\* Where the thread of a channel is after a step.
LEMMA Moved ==
    ASSUME IInv, NEW c \in Channel, NEW step, MainGoto(c, step)
    PROVE  main'[c].pc = step /\ main'[c].job = main[c].job
BY Here DEF MainGoto, MainType

\* The thread goes on to the next job, and has no workers any more.
LEMMA NextJobStep ==
    ASSUME IInv, NEW c \in Channel, run.pc = "jobs", WorkersChange(c), UNCHANGED <<device, feed>>,
           NEW m \in MainType, main' = [main EXCEPT ![c] = m], m.pc = "next", m.job = main[c].job + 1,
           UNCHANGED <<jobs, controlVars, mode, bound>>, IsSingle \/ IsMulti,
           main[c].pc \notin Moving \cup Before \cup {"ended"},
           render'[c].pc \in Gone, tx'[c].pc \in Gone, c \notin active
    PROVE  IInv'
<1>1. main[c].job <= Len(jobs[c])
  BY Here DEF IsSingle, IsMulti, Before
<1>2. m.job \in 1 .. Len(jobs[c]) + 1 /\ main'[c] = m
  BY <1>1, Here
<1>3. Owned(c)'
  BY <1>2 DEF Owned, HasTx, controlVars
<1>4. ~IsReplay
  BY DEF IsSingle, IsMulti, IsReplay
<1>5. QED
  BY <1>2, <1>3, <1>4, Goto DEF Before, Moving

\* The steps of a render job, and what comes before any job.
LEMMA JobMoves ==
    ASSUME IInv, NEW c \in Channel, run.pc = "jobs", IsSingle \/ IsMulti,
           UNCHANGED <<controlVars, mode, bound>>,
           LoopHead(c) \/ Delay(c) \/ LaunchRender(c) \/ Prime(c) \/ PrepareMix(c)
    PROVE  IInv'
<1> USE Here
<1>1. ~IsReplay /\ mode = "realtime"
  BY DEF IsSingle, IsMulti, IsReplay
<1>2. ASSUME UNCHANGED workerVars PROVE WorkersChange(c)
  BY <1>2 DEF WorkersChange, workerVars
<1>3. CASE LoopHead(c)
  <2>1. PICK step \in {"ended", "delay", "begin"} :
            /\ MainGoto(c, step)
            /\ step # "ended" => main[c].job <= Len(jobs[c])
    BY <1>3 DEF LoopHead
  <2>2. Owned(c)'
    BY <1>3, <2>1, Moved DEF LoopHead, Owned, HasTx, controlVars, workerVars
  <2>3. QED
    BY <1>1, <1>2, <1>3, <2>1, <2>2, GotoStep DEF LoopHead, MainSteps, Before, Moving, workerVars
<1>4. CASE Delay(c)
  <2>1. PICK step \in {"ended", "begin"} : MainGoto(c, step)
    BY <1>4 DEF Delay
  <2>2. Owned(c)'
    BY <1>4, <2>1, Moved DEF Delay, Owned, HasTx, controlVars, workerVars
  <2>3. QED
    BY <1>1, <1>2, <1>4, <2>1, <2>2, GotoStep DEF Delay, MainSteps, Before, Moving, workerVars
<1>5. CASE LaunchRender(c)
  <2>1. MainGoto(c, "prime") /\ UNCHANGED <<stop, tx, device, feed, jobs>>
    BY <1>5 DEF LaunchRender
  <2>2. main[c].pc = "launch" /\ TheJob(c).target \in Nat
    BY <1>1, <1>5, JobAtHand DEF LaunchRender
  <2>3. WorkersChange(c)
    BY <1>5, <2>2 DEF LaunchRender, WorkersChange
  <2>4. Owned(c)'
    <3>1. /\ main'[c].pc = "prime" /\ TheJob(c)' = TheJob(c) /\ TheJob(c).kind = "render"
          /\ mode' = mode /\ active' = active
      BY <1>5, <2>1, Moved DEF controlVars, LaunchRender, TheJob
    <3>2. tx[c].pc \in Gone /\ c \notin active
      BY <2>2 DEF Owned, HasTx
    <3>3. QED
      BY <1>1, <2>1, <3>1, <3>2 DEF Owned, HasTx
  <2>5. QED
    BY <1>1, <2>1, <2>2, <2>3, <2>4, GotoStep DEF MainSteps, Before, Moving
<1>6. CASE Prime(c)
  <2>1. PICK step \in {"create", "primeAsleep"} : MainGoto(c, step)
    BY <1>6 DEF Prime
  <2>2. UNCHANGED <<stop, render, tx, device, feed, jobs>> /\ main[c].pc \in {"prime", "primeAsleep"}
    BY <1>6 DEF Prime
  <2>3. WorkersChange(c)
    BY <1>6, <2>2 DEF Prime, WorkersChange
  <2>4. Owned(c)'
    BY <2>1, <2>2, Moved DEF Owned, HasTx, controlVars, TheJob
  <2>5. QED
    BY <1>1, <2>1, <2>2, <2>3, <2>4, GotoStep DEF MainSteps, Before, Moving
<1>7. CASE PrepareMix(c)
  <2>1. main[c].pc = "launch" /\ UNCHANGED <<stop, render, tx, device, feed, jobs>>
    BY <1>7 DEF PrepareMix
  <2>2. WorkersChange(c)
    BY <1>7, <2>1 DEF PrepareMix, WorkersChange
  <2>3. render[c].pc \in Gone /\ tx[c].pc \in Gone /\ c \notin active
    BY <2>1 DEF Owned, HasTx
  <2>4. CASE main' = [main EXCEPT ![c].failed = TRUE, ![c].pc = "next", ![c].job = @ + 1]
    <3> DEFINE m == [main[c] EXCEPT !.failed = TRUE, !.pc = "next", !.job = main[c].job + 1]
    <3>1. main[c] \in MainType /\ main[c].job + 1 \in Nat
      BY Here
    <3>2. m \in MainType /\ m.pc = "next" /\ m.job = main[c].job + 1
      BY <3>1 DEF MainType, MainSteps
    <3>3. main' = [main EXCEPT ![c] = m]
      BY <2>4 DEF MainType
    <3> HIDE DEF m
    <3>4. QED
      BY <2>1, <2>2, <2>3, <3>2, <3>3, NextJobStep DEF Moving, Before
  <2>5. CASE main' = [main EXCEPT ![c].off = 0, ![c].pc = "create"]
    <3> DEFINE m == [main[c] EXCEPT !.off = 0, !.pc = "create"]
    <3>1. m \in MainType /\ m.pc = "create" /\ m.job = main[c].job
      BY DEF MainType, MainSteps
    <3>2. main' = [main EXCEPT ![c] = m]
      BY <2>5 DEF MainType
    <3> HIDE DEF m
    <3>3. Owned(c)'
      BY <2>1, <2>3, <3>1, <3>2 DEF Owned, HasTx, controlVars
    <3>4. QED
      BY <1>1, <2>1, <2>2, <3>1, <3>2, <3>3, Goto DEF Moving, Before
  <2>6. QED
    BY <1>7, <2>4, <2>5 DEF PrepareMix
<1>8. QED
  BY <1>3, <1>4, <1>5, <1>6, <1>7

\* The thread feeds a block, or the sentinel.
LEMMA FeedMoves ==
    ASSUME IInv, NEW c \in Channel, run.pc = "jobs", IsSingle \/ IsMulti \/ IsReplay,
           UNCHANGED <<controlVars, mode, bound>>,
           \/ ~IsReplay /\ MixLoop(c)
           \/ IsReplay /\ ReplayLoop(c)
           \/ MixPushed(c)
    PROVE  IInv'
<1> USE Here
<1>1. mode = "realtime" <=> ~IsReplay
  BY ModesAssumption DEF IInv, ControlTypes, IsSingle, IsMulti, IsReplay
<1>2. ASSUME NEW off \in Nat, NEW total \in Nat, total - off > 0, NEW last \in BOOLEAN
      PROVE  Block(Least(total - off, BlockSize), off = 0, last) \in BlockType
  <2>1. total - off \in Nat /\ (off = 0) \in BOOLEAN
    BY <1>2
  <2>2. QED
    BY <1>2, <2>1, BlockFacts
<1>3. main[c].off \in Nat
  BY DEF MainType
<1>4. ASSUME main[c].pc \in {"mix", "mixPush"}, UNCHANGED <<stop, queue, render, tx, device, jobs>>,
             NEW step \in {"mix", "mixPush", "sentinel", "take"}, NEW off \in Nat,
             main' = [main EXCEPT ![c].off = off, ![c].pc = step],
             \/ UNCHANGED feed
             \/ EndFeed(c)
             \/ \E b \in BlockType : StartFeed(c, b) /\ (~stop \/ b = Sentinel)
      PROVE  IInv'
  <2> DEFINE m == [main[c] EXCEPT !.off = off, !.pc = step]
  <2>1. m \in MainType /\ m.pc = step /\ m.job = main[c].job
    BY <1>4 DEF MainType, MainSteps
  <2>2. main' = [main EXCEPT ![c] = m]
    BY <1>4 DEF MainType
  <2> HIDE DEF m
  <2>3. WorkersChange(c)
    BY <1>4 DEF WorkersChange
  <2>4. Owned(c)'
    <3>1. /\ main'[c] = m /\ Owned(c) /\ render'[c] = render[c] /\ tx'[c] = tx[c]
          /\ active' = active /\ mode' = mode /\ IsMulti' = IsMulti
      BY <1>4, <2>2, Here DEF controlVars, IsMulti, OnOneChannel
    <3>2. render[c].pc \in Gone /\ m.pc # "joinTx"
      BY <1>4, <2>1, <3>1 DEF Owned
    <3>3. QED
      BY <1>4, <2>1, <3>1, <3>2 DEF Owned, HasTx
  <2>5. QED
    BY <1>1, <1>4, <2>1, <2>2, <2>3, <2>4, Goto DEF Moving, Before
<1>5. ASSUME NEW step \in {"mix", "mixPush", "sentinel", "take"}, MainGoto(c, step)
      PROVE  main' = [main EXCEPT ![c].off = main[c].off, ![c].pc = step]
  BY <1>5 DEF MainGoto, MainType
<1>6. CASE ~IsReplay /\ MixLoop(c)
  <2>1. TheJob(c).target \in Nat
    BY <1>1, <1>6, JobAtHand DEF MixLoop
  <2>2. \A last \in BOOLEAN : TheJob(c).target - main[c].off > 0 =>
           Block(Least(TheJob(c).target - main[c].off, BlockSize), main[c].off = 0, last) \in BlockType
    BY <1>2, <1>3, <2>1
  <2>3. CASE StartFeed(c, Sentinel) /\ MainGoto(c, "sentinel")
    BY <1>3, <1>4, <1>5, <1>6, <2>3, BlockFacts DEF MixLoop
  <2>4. ASSUME TheJob(c).target - main[c].off > 0, ~stop, NEW b \in BlockType,
               StartFeed(c, b) /\ MainGoto(c, "mixPush")
        PROVE  IInv'
    BY <1>3, <1>4, <1>5, <1>6, <2>4 DEF MixLoop
  <2>5. QED
    BY <1>6, <2>2, <2>3, <2>4 DEF MixLoop
<1>7. CASE IsReplay /\ ReplayLoop(c)
  <2>1. Scheduled(c) \in Nat
    BY Here, TotalIsNat DEF Scheduled
  <2>2. \A last \in BOOLEAN : Scheduled(c) - main[c].off > 0 =>
           Block(Least(Scheduled(c) - main[c].off, BlockSize), main[c].off = 0, last) \in BlockType
    BY <1>2, <1>3, <2>1
  <2>3. CASE StartFeed(c, Sentinel) /\ MainGoto(c, "sentinel")
    BY <1>3, <1>4, <1>5, <1>7, <2>3, BlockFacts DEF ReplayLoop
  <2>4. CASE MainGoto(c, "take") /\ UNCHANGED feed
    BY <1>3, <1>4, <1>5, <1>7, <2>4 DEF ReplayLoop
  <2>5. ASSUME Scheduled(c) - main[c].off > 0, ~stop, NEW b \in BlockType,
               StartFeed(c, b) /\ MainGoto(c, "mixPush")
        PROVE  IInv'
    BY <1>3, <1>4, <1>5, <1>7, <2>5 DEF ReplayLoop
  <2>6. QED
    BY <1>7, <2>2, <2>3, <2>4, <2>5 DEF ReplayLoop
<1>8. CASE MixPushed(c)
  <2>1. main[c].off + feed[c].block.n \in Nat
    BY <1>3, BlockNumbers DEF FeedType
  <2>2. CASE main' = [main EXCEPT ![c].off = @ + feed[c].block.n, ![c].pc = "mix"] /\ EndFeed(c)
    BY <1>4, <1>8, <2>1, <2>2 DEF MixPushed
  <2>3. CASE StartFeed(c, Sentinel) /\ MainGoto(c, "sentinel")
    BY <1>3, <1>4, <1>5, <1>8, <2>3, BlockFacts DEF MixPushed
  <2>4. QED
    BY <1>8, <2>2, <2>3 DEF MixPushed
<1>9. QED
  BY <1>6, <1>7, <1>8

\* What follows a pushed sentinel, a notification or a stop.
LEMMA StopMoves ==
    ASSUME IInv, NEW c \in Channel, run.pc = "jobs", IsSingle \/ IsMulti \/ IsReplay,
           UNCHANGED <<controlVars, mode, bound>>,
           \/ ~IsMulti /\ MixSentinelPushed(c, "take")
           \/ IsMulti /\ MixSentinelPushed(c, "joinTx")
           \/ IsSingle /\ (RenderSentinelPushed(c, "move") \/ NotifyTx(c, "move"))
           \/ IsMulti /\ (RenderSentinelPushed(c, "joinTx") \/ NotifyTx(c, "joinTx"))
           \/ ~IsReplay /\ StopAll(c)
    PROVE  IInv'
<1>1. Owned(c) /\ (IsMulti => active = {})
  BY Here DEF IInv, Control
<1>2. UNCHANGED <<render, tx, device, jobs>> /\ WorkersChange(c)
  BY DEF MixSentinelPushed, RenderSentinelPushed, NotifyTx, StopAll, WorkersChange
<1>3. ~(IsSingle /\ IsMulti) /\ ~(IsReplay /\ IsMulti) /\ ~(IsSingle /\ IsReplay)
  BY DEF IsSingle, IsMulti, IsReplay
<1>4. UNCHANGED feed \/ EndFeed(c)
  BY DEF MixSentinelPushed, RenderSentinelPushed, NotifyTx, StopAll
<1>5. ASSUME NEW step \in {"take", "joinTx", "move", "notify"}, MainGoto(c, step),
             main[c].pc \in Moving \cup {"sentinel"},
             IsSingle => step # "joinTx" /\ (main[c].pc \in Moving <=> step \in Moving),
             IsMulti => step \in {"joinTx", "notify"},
             IsReplay => step = "take",
             step = "take" => main[c].pc = "sentinel"
      PROVE  IInv'
  <2>1. /\ main'[c].pc = step /\ render'[c] = render[c] /\ tx'[c] = tx[c] /\ active' = active
        /\ mode' = mode /\ IsMulti' = IsMulti
    BY <1>2, <1>5, Moved DEF controlVars, IsMulti, OnOneChannel
  <2>2. render[c].pc \in Gone
    BY <1>1, <1>5 DEF Owned, Moving
  <2>3. mode = "realtime" /\ step = "joinTx" => c \notin active
    BY <1>1, <1>5 DEF IsSingle, IsMulti
  <2>4. ~IsMulti /\ step = "take" => c \in active \/ tx[c].pc = "done"
    BY <1>1, <1>5 DEF Owned
  <2>5. Owned(c)'
    BY <1>1, <1>5, <2>1, <2>2, <2>3, <2>4 DEF Owned, HasTx
  <2>6. step \in MainSteps
    BY DEF MainSteps
  <2>7. QED
    BY <1>2, <1>4, <1>5, <2>5, <2>6, GotoStep DEF Before, Moving
<1>6. CASE ~IsMulti /\ MixSentinelPushed(c, "take")
  BY <1>5, <1>6 DEF MixSentinelPushed, Moving
<1>7. CASE IsMulti /\ (MixSentinelPushed(c, "joinTx") \/ RenderSentinelPushed(c, "joinTx") \/ NotifyTx(c, "joinTx"))
  BY <1>3, <1>5, <1>7 DEF MixSentinelPushed, RenderSentinelPushed, NotifyTx, Moving
<1>8. CASE IsSingle /\ (RenderSentinelPushed(c, "move") \/ NotifyTx(c, "move"))
  BY <1>3, <1>5, <1>8 DEF RenderSentinelPushed, NotifyTx, Moving
<1>9. CASE ~IsReplay /\ StopAll(c)
  BY <1>5, <1>9 DEF StopAll, Moving
<1>10. QED
  BY <1>6, <1>7, <1>8, <1>9

\* The TxWorker is joined, and the next job begins.
LEMMA CollectMoves ==
    ASSUME IInv, NEW c \in Channel, run.pc = "jobs", IsSingle \/ IsMulti,
           UNCHANGED <<controlVars, mode, bound>>, CollectTx(c)
    PROVE  IInv'
<1>1. /\ main[c].pc = "joinTx" /\ tx[c].pc = "done" /\ UNCHANGED <<workerVars, jobs>>
      /\ tx[c].sent \in Nat /\ tx[c].blocks \in Nat /\ tx[c].underruns \in Nat /\ tx[c].failed \in BOOLEAN
      /\ main[c] \in MainType /\ main \in [Channel -> MainType] /\ main[c].failed \in BOOLEAN
  BY Here DEF CollectTx, TxType, MainType
<1>2. PICK failed \in BOOLEAN :
          main' = [main EXCEPT ![c].sent = @ + tx[c].sent, ![c].blocks = @ + tx[c].blocks,
                               ![c].underruns = @ + tx[c].underruns, ![c].failed = failed,
                               ![c].pc = "next", ![c].job = @ + 1]
  BY <1>1 DEF CollectTx
<1> DEFINE m == [main[c] EXCEPT !.sent = main[c].sent + tx[c].sent,
                                !.blocks = main[c].blocks + tx[c].blocks,
                                !.underruns = main[c].underruns + tx[c].underruns,
                                !.failed = failed, !.pc = "next", !.job = main[c].job + 1]
<1>3. m \in MainType /\ m.pc = "next" /\ m.job = main[c].job + 1
  <2>1. /\ main[c].sent + tx[c].sent \in Nat /\ main[c].blocks + tx[c].blocks \in Nat
        /\ main[c].underruns + tx[c].underruns \in Nat /\ main[c].job + 1 \in Nat
    BY <1>1 DEF MainType
  <2>2. QED
    BY <1>1, <2>1 DEF MainType, MainSteps
<1>4. main' = [main EXCEPT ![c] = m]
  BY <1>1, <1>2 DEF MainType
<1> HIDE DEF m
<1>5. render[c].pc \in Gone /\ c \notin active
  BY <1>1, Here DEF Owned, IsSingle, IsMulti
<1>6. WorkersChange(c)
  BY <1>1 DEF WorkersChange, workerVars
<1>7. QED
  BY <1>1, <1>3, <1>4, <1>5, <1>6, NextJobStep DEF Moving, Before, Gone, workerVars

\* The RenderWorker is joined, by the thread of run() or by that of the channel.
LEMMA JoinMoves ==
    ASSUME IInv, NEW c \in Channel, run.pc = "jobs",
           (IsSingle /\ JoinRenderWorker(c)) \/ (IsMulti /\ ChannelJoinRender(c)),
           UNCHANGED <<controlVars, mode, bound>>
    PROVE  IInv'
<1>1. /\ main[c].pc = "joinRender" /\ render[c].pc = "done" /\ UNCHANGED <<stop, queue, render, tx, device, jobs>>
      /\ main[c] \in MainType /\ main \in [Channel -> MainType] /\ main[c].failed \in BOOLEAN
      /\ Owned(c) /\ (IsMulti => active = {})
  BY Here DEF JoinRenderWorker, ChannelJoinRender, workerVars, MainType, IInv, Control
<1>2. PICK failed \in BOOLEAN, step \in {"decide", "stop", "renderSentinel", "joinTx"} :
          /\ main' = [main EXCEPT ![c].failed = failed, ![c].pc = step]
          /\ step = "decide" <=> IsSingle
  <2>1. ASSUME NEW step \in {"stop", "renderSentinel", "joinTx"}, MainGoto(c, step)
        PROVE  main' = [main EXCEPT ![c].failed = main[c].failed, ![c].pc = step]
    BY <1>1, <2>1 DEF MainGoto, MainType
  <2>2. QED
    BY <1>1, <2>1 DEF JoinRenderWorker, ChannelJoinRender, IsSingle, IsMulti
<1> DEFINE m == [main[c] EXCEPT !.failed = failed, !.pc = step]
<1>3. m \in MainType /\ m.pc = step /\ m.job = main[c].job
  BY <1>1 DEF MainType, MainSteps
<1>4. main' = [main EXCEPT ![c] = m]
  BY <1>1, <1>2 DEF MainType
<1> HIDE DEF m
<1>5. UNCHANGED feed \/ StartFeed(c, Sentinel)
  BY DEF JoinRenderWorker, ChannelJoinRender, workerVars
<1>6. WorkersChange(c)
  BY <1>1, <1>5, BlockFacts DEF WorkersChange
<1>7. Owned(c)'
  <2>1. /\ main'[c] = m /\ render'[c] = render[c] /\ tx'[c] = tx[c] /\ active' = active
        /\ mode' = mode /\ IsMulti' = IsMulti /\ ~(IsSingle /\ IsMulti)
    BY <1>1, <1>4 DEF controlVars, IsMulti, IsSingle, OnOneChannel
  <2>2. QED
    BY <1>1, <1>2, <1>3, <2>1 DEF Owned, HasTx, Gone
<1>8. ~IsReplay /\ (IsSingle \/ IsMulti)
  BY DEF IsSingle, IsMulti, IsReplay
<1>9. main[c].job <= Len(jobs[c])
  BY <1>1, Here DEF IsSingle, IsMulti
<1>10. /\ m.job \in 1 .. Len(jobs[c]) + 1 /\ m.job <= Len(jobs[c])
       /\ main[c].pc \notin Moving \cup Before \cup {"ended"}
       /\ IsSingle => m.pc \notin Moving
  BY <1>1, <1>2, <1>3, <1>9, Here DEF Moving, Before
<1>11. QED
  BY <1>1, <1>3, <1>4, <1>5, <1>6, <1>7, <1>8, <1>10, Goto

\* The steps of the thread of a channel that start TX workers.
LEMMA ChannelMoves ==
    ASSUME IInv, NEW c \in Channel, run.pc = "jobs", IsMulti, UNCHANGED <<controlVars, mode, bound>>,
           ChannelBegin(c) \/ StartTxOfJob(c)
    PROVE  IInv'
<1>1. Owned(c) /\ active = {} /\ ~IsReplay /\ ~IsSingle
  BY Here DEF IInv, Control, IsSingle, IsMulti, IsReplay
<1>2. CASE ChannelBegin(c)
  <2>1. main[c].pc = "begin" /\ MainGoto(c, "launch") /\ UNCHANGED <<workerVars, jobs>>
    BY <1>2 DEF ChannelBegin
  <2>2. WorkersChange(c)
    BY <2>1 DEF WorkersChange, workerVars
  <2>3. Owned(c)'
    BY <1>1, <2>1, Moved DEF Owned, HasTx, controlVars, workerVars
  <2>4. QED
    BY <1>1, <2>1, <2>2, <2>3, GotoStep DEF MainSteps, Moving, Before, workerVars
<1>3. CASE StartTxOfJob(c)
  <2>1. PICK step \in {"joinRender", "mix"} :
            /\ MainGoto(c, step)
            /\ step = "joinRender" <=> TheJob(c).kind = "render"
            /\ main[c].pc = "create" /\ tx' = [tx EXCEPT ![c] = TxWorker("pop")]
            /\ UNCHANGED <<stop, queue, render, device, feed, jobs>>
    BY <1>3 DEF StartTxOfJob, StartTxWorker
  <2>2. WorkersChange(c)
    BY <2>1 DEF WorkersChange
  <2>3. Owned(c)'
    BY <1>1, <2>1, Moved DEF Owned, HasTx, controlVars, TheJob, IsMulti, OnOneChannel
  <2>4. QED
    BY <1>1, <2>1, <2>2, <2>3, GotoStep DEF MainSteps, Moving, Before
<1>4. QED
  BY <1>2, <1>3

-----------------------------------------------------------------------------
(* The steps of the workers, and of a push_wait. *)

QuietItems(c) == \A i \in DOMAIN Items(c) : Items(c)[i].n = 0

\* A queue without samples stays so when only sentinels are pushed.
LEMMA QueueEffect ==
    ASSUME queue \in [Channel -> QueueType], NEW c \in Channel,
           \/ \E b \in BlockType : PushItem(c, b) /\ b.n = 0
           \/ PopItem(c) \/ NotifyAll(c) \/ WakeNotEmpty(c) \/ WakeNotFull(c)
           \/ \E t \in Threads : SleepNotEmpty(c, t) \/ SleepNotFull(c, t)
           \/ UNCHANGED queue
    PROVE  QuietItems(c) => QuietItems(c)'
<1>1. queue[c].items \in Seq(BlockType)
  BY DEF QueueType
<1>2. CASE queue'[c].items = queue[c].items
  BY <1>2 DEF QuietItems, Items
<1>3. ASSUME NEW b \in BlockType, PushItem(c, b), b.n = 0 PROVE QuietItems(c) => QuietItems(c)'
  <2>1. queue'[c].items = Append(queue[c].items, b)
    BY <1>3 DEF PushItem, QueueType
  <2>2. QED
    BY <1>1, <1>3, <2>1 DEF QuietItems, Items
<1>4. CASE PopItem(c)
  <2>1. queue'[c].items = Tail(queue[c].items) /\ queue[c].items # <<>>
    BY <1>4 DEF PopItem, QueueType, Items
  <2>2. QED
    BY <1>1, <2>1 DEF QuietItems, Items
<1>5. NotifyAll(c) => queue'[c].items = queue[c].items
  BY DEF NotifyAll, QueueType
<1>6. WakeNotEmpty(c) \/ WakeNotFull(c) => queue'[c].items = queue[c].items
  BY DEF WakeNotEmpty, WakeNotFull, QueueType
<1>7. \A t \in Threads : SleepNotEmpty(c, t) \/ SleepNotFull(c, t) => queue'[c].items = queue[c].items
  BY DEF SleepNotEmpty, SleepNotFull, QueueType
<1>8. QED
  BY <1>2, <1>3, <1>4, <1>5, <1>6, <1>7

\* A push, a pop or a notification on one queue changes no other.
LEMMA QueueBeside ==
    ASSUME queue \in [Channel -> QueueType], NEW c \in Channel,
           \/ \E b \in BlockType : PushItem(c, b)
           \/ PopItem(c) \/ NotifyAll(c) \/ WakeNotEmpty(c) \/ WakeNotFull(c)
           \/ \E t \in Threads : SleepNotEmpty(c, t) \/ SleepNotFull(c, t)
           \/ UNCHANGED queue
    PROVE  \A d \in Channel \ {c} : queue'[d] = queue[d]
BY DEF PushItem, PopItem, NotifyAll, WakeNotEmpty, WakeNotFull, SleepNotEmpty, SleepNotFull

\* What a RenderWorker can change.  After a stop it renders nothing more.
LEMMA RenderEffect ==
    ASSUME IInv, NEW c \in Channel, RenderStep(c)
    PROVE  /\ render[c].pc \notin Gone
           /\ UNCHANGED <<stop, tx, device, feed>>
           /\ \A d \in Channel \ {c} : render'[d] = render[d] /\ queue'[d] = queue[d]
           /\ stop /\ Silent(c) => Silent(c)'
<1> DEFINE r == render[c]
<1>1. /\ render \in [Channel -> RenderType] /\ queue \in [Channel -> QueueType]
      /\ r.block \in BlockType /\ "render" \in Threads
  BY Here DEF RenderType, Threads
<1>2. r.pc \notin Gone /\ UNCHANGED <<stop, tx, device, feed>>
  BY DEF RenderStep, RenderStart, RenderLoop, RenderPush, RenderPushed, RenderWait, RenderAwake,
         RenderAfter, RenderComplete, RenderFinish, Gone
<1>3. \A d \in Channel \ {c} : render'[d] = render[d]
  BY <1>1 DEF RenderStep, RenderStart, RenderLoop, RenderPush, RenderPushed, RenderWait,
         RenderAwake, RenderAfter, RenderComplete, RenderFinish, RenderGoto, RenderFail
<1>4. \/ PushItem(c, r.block) /\ r.pc = "push"
      \/ WakeNotEmpty(c) \/ NotifyAll(c) \/ SleepNotFull(c, "render") \/ UNCHANGED queue
  BY DEF RenderStep, RenderStart, RenderLoop, RenderPush, RenderPushed, RenderWait, RenderAwake,
         RenderAfter, RenderComplete, RenderFinish
<1>5. \A d \in Channel \ {c} : queue'[d] = queue[d]
  BY <1>1, <1>4, QueueBeside
<1>6. ASSUME stop, Silent(c) PROVE Silent(c)'
  <2>1. QuietItems(c)'
    <3>1. QuietItems(c) /\ (r.pc = "push" => r.block.n = 0)
      BY <1>6 DEF Silent, QuietItems
    <3>2. QED
      BY <1>1, <1>4, <3>1, QueueEffect
  <2>2. render'[c].pc \in {"push", "pushed", "full", "asleep"} => render'[c].block.n = 0
    <3> DEFINE Kept == \/ render'[c].block = r.block /\ r.pc \in {"push", "pushed", "full", "asleep"}
                       \/ render'[c].pc \notin {"push", "pushed", "full", "asleep"}
                       \/ render'[c].block = Sentinel
    <3>1. ASSUME RenderStart(c) \/ RenderFinish(c) PROVE Kept
      BY <1>1, <3>1 DEF RenderStart, RenderFinish, RenderGoto, RenderFail, RenderType
    <3>2. ASSUME RenderLoop(c) PROVE Kept
      BY <1>1, <1>6, <3>2 DEF RenderLoop, RenderGoto, RenderFail, RenderType
    <3>3. ASSUME RenderPush(c) \/ RenderPushed(c) PROVE Kept
      BY <1>1, <3>3 DEF RenderPush, RenderPushed, RenderGoto, RenderType
    <3>4. ASSUME RenderWait(c) \/ RenderAwake(c) PROVE Kept
      BY <1>1, <3>4 DEF RenderWait, RenderAwake, RenderGoto, RenderType
    <3>5. ASSUME RenderAfter(c) \/ RenderComplete(c) PROVE Kept
      BY <1>1, <3>5 DEF RenderAfter, RenderComplete, RenderType
    <3>6. Kept
      BY <3>1, <3>2, <3>3, <3>4, <3>5 DEF RenderStep
    <3>7. QED
      BY <1>6, <3>6, BlockFacts DEF Silent
  <2>3. QED
    BY <1>2, <1>6, <2>1, <2>2 DEF Silent, QuietItems, Items
<1>7. QED
  BY <1>2, <1>3, <1>5, <1>6

\* What a TxWorker can change.  It sends only what it has popped, while TX is on.
LEMMA TxEffect ==
    ASSUME IInv, NEW c \in Channel, TxStep(c)
    PROVE  /\ tx[c].pc \notin Gone
           /\ UNCHANGED <<render, feed>> /\ (stop => stop')
           /\ \A d \in Channel \ {c} : tx'[d] = tx[d] /\ queue'[d] = queue[d] /\ device'[d] = device[d]
           /\ device'[c].on = device[c].on /\ device'[c].stuck = device[c].stuck
           /\ Silent(c) => Silent(c)'
           /\ \/ device'[c].air = device[c].air
              \/ device[c].on /\ tx[c].pc = "send" /\ tx[c].block.n # 0
<1> DEFINE t == tx[c]
<1>1. /\ tx \in [Channel -> TxType] /\ queue \in [Channel -> QueueType] /\ device \in [Channel -> DeviceType]
      /\ t.block \in BlockType /\ "tx" \in Threads
  BY Here DEF TxType, Threads
<1>2. t.pc \notin Gone /\ UNCHANGED <<render, feed>> /\ (stop => stop')
  <2>1. CASE TxPop(c) \/ TxPopped(c) \/ TxWait(c) \/ TxAwake(c)
    BY <2>1 DEF TxStep, TxPop, TxPopped, TxWait, TxAwake, Gone
  <2>2. CASE TxSkip(c) \/ TxThrow(c) \/ TxStop(c) \/ TxNotify(c)
    BY <2>2 DEF TxStep, TxSkip, TxThrow, TxStop, TxNotify, Gone
  <2>3. ASSUME NEW n \in 0 .. BlockSize, TxSend(c, n)
        PROVE  t.pc \notin Gone /\ UNCHANGED <<render, feed>> /\ (stop => stop')
    BY <2>3 DEF TxStep, TxSend, Gone
  <2>4. QED
    BY <2>1, <2>2, <2>3 DEF TxStep
<1>3. \A d \in Channel \ {c} : tx'[d] = tx[d]
  <2>1. CASE TxPop(c) \/ TxPopped(c) \/ TxWait(c) \/ TxAwake(c)
    BY <1>1, <2>1 DEF TxPop, TxPopped, TxWait, TxAwake, TxGoto
  <2>2. CASE TxSkip(c) \/ TxThrow(c) \/ TxStop(c) \/ TxNotify(c)
    BY <1>1, <2>2 DEF TxSkip, TxThrow, TxStop, TxNotify, TxGoto
  <2>3. ASSUME NEW n \in 0 .. BlockSize, TxSend(c, n) PROVE \A d \in Channel \ {c} : tx'[d] = tx[d]
    BY <1>1, <2>3 DEF TxSend
  <2>4. QED
    BY <2>1, <2>2, <2>3 DEF TxStep
<1>4. PopItem(c) \/ WakeNotFull(c) \/ NotifyAll(c) \/ SleepNotEmpty(c, "tx") \/ UNCHANGED queue
  BY DEF TxStep, TxPop, TxPopped, TxWait, TxAwake, TxSkip, TxSend, TxThrow, TxStop, TxNotify
<1>5. \A d \in Channel \ {c} : queue'[d] = queue[d]
  BY <1>1, <1>4, QueueBeside
<1>6. UNCHANGED device \/ \E n \in 0 .. BlockSize : TxSend(c, n)
  BY DEF TxStep, TxPop, TxPopped, TxWait, TxAwake, TxSkip, TxThrow, TxStop, TxNotify
<1>7. ASSUME NEW n \in 0 .. BlockSize, TxSend(c, n)
      PROVE  /\ \A d \in Channel \ {c} : device'[d] = device[d]
             /\ device'[c].on = device[c].on /\ device'[c].stuck = device[c].stuck
             /\ device'[c].air = device[c].air + n
             /\ t.pc = "send" /\ t.block.n # 0 /\ (device[c].on \/ n = 0)
  <2>1. t.pc = "send" /\ t.block.n > 0 /\ n \in IF device[c].on THEN 0 .. t.block.n ELSE {0}
    BY <1>7 DEF TxSend
  <2>2. PICK burst : device' = [device EXCEPT ![c].air = @ + n, ![c].burst = burst]
    BY <1>7 DEF TxSend
  <2>3. QED
    BY <1>1, <2>1, <2>2 DEF DeviceType
<1>8. ASSUME Silent(c) PROVE Silent(c)'
  <2>1. QuietItems(c) /\ QuietItems(c)'
    BY <1>1, <1>4, <1>8, QueueEffect DEF Silent, QuietItems
  <2>2. tx'[c].pc \in {"popped", "send"} => tx'[c].block.n = 0
    <3>1. CASE TxPop(c)
      <4>1. Items(c) # <<>> => Head(Items(c)).n = 0
        BY <1>1, <2>1 DEF QuietItems, QueueType, Items
      <4>2. QED
        BY <1>1, <3>1, <4>1 DEF TxPop, TxGoto, TxType, PopItem
    <3>2. CASE ~TxPop(c)
      <4> DEFINE Kept == \/ tx'[c].pc \notin {"popped", "send"}
                         \/ tx'[c].block = t.block /\ t.pc \in {"popped", "send"}
      <4>1. ASSUME TxPopped(c) \/ TxWait(c) \/ TxAwake(c) PROVE Kept
        BY <1>1, <4>1 DEF TxPopped, TxWait, TxAwake, TxGoto, TxType
      <4>2. ASSUME TxSkip(c) \/ TxThrow(c) \/ TxStop(c) \/ TxNotify(c) PROVE Kept
        BY <1>1, <4>2 DEF TxSkip, TxThrow, TxStop, TxNotify, TxGoto, TxType
      <4>3. ASSUME NEW n \in 0 .. BlockSize, TxSend(c, n) PROVE Kept
        BY <1>1, <4>3 DEF TxSend, TxType
      <4>4. Kept
        BY <3>2, <4>1, <4>2, <4>3 DEF TxStep
      <4>5. QED
        BY <1>8, <4>4 DEF Silent
    <3>3. QED
      BY <3>1, <3>2
  <2>3. QED
    BY <1>2, <1>8, <2>1, <2>2 DEF Silent, QuietItems, Items
<1>9. \A d \in Channel : device[d].air \in Nat /\ device[d].air + 0 = device[d].air
  BY <1>1 DEF DeviceType
<1>10. /\ \A d \in Channel \ {c} : device'[d] = device[d]
       /\ device'[c].on = device[c].on /\ device'[c].stuck = device[c].stuck
       /\ device'[c].air = device[c].air \/ (device[c].on /\ t.pc = "send" /\ t.block.n # 0)
  <2>1. CASE UNCHANGED device
    BY <2>1
  <2>2. ASSUME NEW n \in 0 .. BlockSize, TxSend(c, n)
        PROVE  device'[c].air = device[c].air \/ (device[c].on /\ t.pc = "send" /\ t.block.n # 0)
    BY <1>7, <1>9, <2>2
  <2>3. QED
    BY <1>6, <1>7, <2>1, <2>2
<1>11. QED
  BY <1>2, <1>3, <1>5, <1>8, <1>10

\* What a push_wait of the main thread can change.
LEMMA FeedEffect ==
    ASSUME IInv, NEW c \in Channel, FeedStep(c)
    PROVE  /\ feed[c].pc # "idle"
           /\ UNCHANGED <<stop, render, tx, device>>
           /\ \A d \in Channel \ {c} : feed'[d] = feed[d] /\ queue'[d] = queue[d]
           /\ Silent(c) => Silent(c)'
<1> DEFINE f == feed[c]
<1>1. /\ feed \in [Channel -> FeedType] /\ queue \in [Channel -> QueueType]
      /\ f.block \in BlockType /\ "main" \in Threads
  BY Here DEF FeedType, Threads
<1>2. f.pc # "idle" /\ UNCHANGED <<stop, render, tx, device>>
  BY DEF FeedStep, FeedPush, FeedPushed, FeedWait, FeedAwake
<1>3. \A d \in Channel \ {c} : feed'[d] = feed[d]
  BY <1>1 DEF FeedStep, FeedPush, FeedPushed, FeedWait, FeedAwake, FeedGoto
<1>4. \/ PushItem(c, f.block) /\ f.pc = "push"
      \/ WakeNotEmpty(c) \/ SleepNotFull(c, "main") \/ UNCHANGED queue
  BY DEF FeedStep, FeedPush, FeedPushed, FeedWait, FeedAwake
<1>5. \A d \in Channel \ {c} : queue'[d] = queue[d]
  BY <1>1, <1>4, QueueBeside
<1>6. ASSUME Silent(c) PROVE Silent(c)'
  <2>1. QuietItems(c)'
    <3>1. QuietItems(c) /\ (f.pc = "push" => f.block.n = 0)
      BY <1>6 DEF Silent, QuietItems
    <3>2. QED
      BY <1>1, <1>4, <3>1, QueueEffect
  <2>2. /\ feed'[c].block = f.block
        /\ feed'[c].pc \in {"push", "full", "asleep"} => f.pc \in {"push", "full", "asleep"}
    BY <1>1 DEF FeedStep, FeedPush, FeedPushed, FeedWait, FeedAwake, FeedGoto, FeedType
  <2>3. QED
    BY <1>2, <1>6, <2>1, <2>2 DEF Silent, QuietItems, Items
<1>7. QED
  BY <1>2, <1>3, <1>5, <1>6

LEMMA WorkerMoves ==
    ASSUME IInv, NEW c \in Channel, RenderStep(c) \/ TxStep(c) \/ FeedStep(c),
           UNCHANGED <<jobVars, controlVars, mode, bound>>
    PROVE  IInv'
<1>1. WorkersInv'
  BY WorkersTyped DEF IInv
<1>2. JobsInv' /\ ControlTypes' /\ Locks'
  BY DEF IInv, JobsInv, JobsTypeOK, AtAJob, ControlTypes, Locks, LockHeldToMove, LockHeldToJoin,
         jobVars, controlVars, IsSingle, IsReplay, OnOneChannel
<1>3. /\ render'[c].pc \notin Gone => render[c].pc \notin Gone
      /\ tx'[c].pc \notin Gone => tx[c].pc \notin Gone
      /\ tx[c].pc = "done" => tx'[c] = tx[c]
      /\ ~Fresh(c) /\ (stop => stop')
      /\ device'[c].on = device[c].on /\ device'[c].stuck = device[c].stuck
      /\ stop /\ Silent(c) => Silent(c)'
  <2>1. CASE RenderStep(c)
    BY <2>1, RenderEffect DEF Fresh, Gone
  <2>2. CASE TxStep(c)
    BY <2>2, TxEffect DEF Fresh, Gone
  <2>3. CASE FeedStep(c)
    BY <2>3, FeedEffect DEF Fresh, Gone
  <2>4. QED
    BY <2>1, <2>2, <2>3
<1>4. Beside(c)
  <2>1. CASE RenderStep(c)
    BY <2>1, RenderEffect DEF Beside, jobVars
  <2>2. CASE TxStep(c)
    BY <2>2, TxEffect DEF Beside, jobVars
  <2>3. CASE FeedStep(c)
    BY <2>3, FeedEffect DEF Beside, jobVars
  <2>4. QED
    BY <2>1, <2>2, <2>3
<1>5. Control'
  BY <1>3 DEF IInv, Control, controlVars, IsMulti, OnOneChannel
<1>6. Owned(c)' /\ Begun(c)' /\ Silenced(c)'
  <2>1. /\ Owned(c) /\ Begun(c) /\ Silenced(c) /\ Control
        /\ UNCHANGED <<main, jobs, run, active, abort, mode, bound>>
    BY DEF IInv, jobVars, controlVars
  <2>2. Owned(c)'
    BY <1>3, <2>1 DEF Owned, TheJob, IsMulti, OnOneChannel
  <2>3. Begun(c)'
    BY <1>3, <2>1 DEF Begun, IsMulti, IsSingle, IsReplay, OnOneChannel
  <2>4. Silenced(c)'
    BY <1>3, <2>1 DEF Silenced, AbortPassed, Control
  <2>5. QED
    BY <2>2, <2>3, <2>4
<1>7. ASSUME NEW d \in Channel \ {c} PROVE (Owned(d) /\ Begun(d) /\ Silenced(d))'
  <2>1. /\ Owned(d) /\ Begun(d) /\ Silenced(d)
        /\ UNCHANGED <<main, jobs, run, active, abort, mode, bound>>
    BY DEF IInv, jobVars, controlVars
  <2>2. Owned(d)'
    BY <1>4, <2>1 DEF Owned, Beside, TheJob, IsMulti, OnOneChannel
  <2>3. Begun(d)'
    BY <1>4, <2>1 DEF Begun, Beside, Fresh, Items, IsMulti, IsSingle, IsReplay, OnOneChannel
  <2>4. Silenced(d)'
    BY <1>4, <2>1 DEF Silenced, AbortPassed, Silent, Beside, Items
  <2>5. QED
    BY <2>2, <2>3, <2>4
<1>8. QED
  BY <1>1, <1>2, <1>5, <1>6, <1>7 DEF IInv
-----------------------------------------------------------------------------
(* The steps of the runs on one channel that take the lock, start TX or      *)
(* give the TxWorker to abort().                                             *)

AtRest == {"called", "entering", "completing", "failing", "fail", "returned"}

\* A single-channel run and a replay have one channel.
LEMMA OneChannel ==
    ASSUME IsSingle \/ IsReplay, NEW c \in Channel
    PROVE  /\ Channel = {c}
           /\ LockHeldToMove <=> (txLock = "run" <=> main[c].pc \in Moving)
           /\ LockHeldToJoin <=> (txLock = "run" <=> main[c].pc = "joinTx")
           /\ LockHeldToMove' <=> (txLock' = "run" <=> main'[c].pc \in Moving)
           /\ LockHeldToJoin' <=> (txLock' = "run" <=> main'[c].pc = "joinTx")
<1>1. Cardinality(Channel) = 1 /\ IsFiniteSet(Channel)
  BY WorkersAssumption DEF IsSingle, IsReplay, OnOneChannel
<1>2. PICK x : Channel = {x}
  BY <1>1, FS_Singleton
<1>3. Channel = {c}
  BY <1>2
<1>4. QED
  BY <1>3 DEF LockHeldToMove, LockHeldToJoin, Moving

\* A step on that channel that may also take or release the lock, or start TX.
LEMMA OneMove ==
    ASSUME IInv, IsSingle \/ IsReplay, NEW c \in Channel, WorkersChange(c),
           NEW m \in MainType, main' = [main EXCEPT ![c] = m],
           UNCHANGED <<jobs, state, abort, mode, bound>>,
           m.job \in 1 .. Len(jobs[c]) + 1,
           mode = "realtime" /\ m.pc \notin {"next", "ended"} => m.job <= Len(jobs[c]),
           run' \in RunRecord, run'.pc \in AtRest => run'.started = {},
           active' \subseteq Channel,
           txLock' \in {"none", "run", "abort"}, txLock' = "abort" <=> txLock = "abort",
           IsSingle => (txLock' = "run" <=> m.pc \in Moving),
           IsReplay => (txLock' = "run" <=> m.pc = "joinTx"),
           Owned(c)', Begun(c)', UNCHANGED device \/ Silent(c)',
           UNCHANGED feed \/ EndFeed(c) \/ StartFeed(c, Sentinel)
    PROVE  IInv'
<1>1. WorkersInv' /\ JobsInv'
  BY WorkersChanged, JobsSet DEF IInv
<1>2. ControlTypes'
  BY DEF IInv, ControlTypes, RunRecord
<1>3. main'[c] = m /\ IsSingle' = IsSingle /\ IsReplay' = IsReplay /\ ~IsMulti'
  BY Here DEF IsSingle, IsReplay, IsMulti, OnOneChannel
<1>4. Locks'
  BY <1>3, OneChannel DEF IInv, Locks
<1>5. Control'
  <2>1. stop => stop'
    BY DEF WorkersChange
  <2>2. QED
    BY <1>3, <2>1 DEF IInv, Control, AtRest
<1>6. Silenced(c)'
  <2>1. AbortPassed(c) => stop
    BY DEF IInv, Control, AbortPassed
  <2>2. CASE UNCHANGED device
    BY <2>1, <2>2, StaysSilent DEF IInv, Silenced, AbortPassed
  <2>3. CASE Silent(c)'
    BY <2>3 DEF Silenced
  <2>4. QED
    BY <2>2, <2>3
<1>7. QED
  BY <1>1, <1>2, <1>4, <1>5, <1>6, OneChannel DEF IInv

\* The same for a step that leaves the job, the run and the device alone.
LEMMA OneGoto ==
    ASSUME IInv, IsSingle \/ IsReplay, NEW c \in Channel, run.pc = "jobs", WorkersChange(c),
           NEW step \in MainSteps, MainGoto(c, step),
           main[c].pc \notin Before \cup {"ended"}, step \notin Before \cup {"next"},
           UNCHANGED <<device, jobs, state, run, abort, mode, bound>>,
           active' \subseteq Channel,
           txLock' \in {"none", "run", "abort"}, txLock' = "abort" <=> txLock = "abort",
           IsSingle => (txLock' = "run" <=> step \in Moving),
           IsReplay => (txLock' = "run" <=> step = "joinTx"),
           Owned(c)', UNCHANGED feed \/ EndFeed(c) \/ StartFeed(c, Sentinel)
    PROVE  IInv'
<1> DEFINE m == [main[c] EXCEPT !.pc = step]
<1>1. m \in MainType /\ m.pc = step /\ m.job = main[c].job
  BY Here DEF MainType
<1>2. main' = [main EXCEPT ![c] = m] /\ main'[c] = m
  BY Here DEF MainGoto, MainType
<1> HIDE DEF m
<1>3. run \in RunRecord /\ (run.pc \in AtRest => run.started = {})
  BY DEF IInv, ControlTypes, RunRecord, Control, AtRest
<1>4. Begun(c)'
  <2>1. Begun(c) /\ IsSingle' = IsSingle /\ IsReplay' = IsReplay /\ IsMulti' = IsMulti
    BY Here DEF IsSingle, IsReplay, IsMulti, OnOneChannel
  <2>2. QED
    BY <1>1, <1>2, <2>1 DEF Begun, Before
<1>5. m.job \in 1 .. Len(jobs[c]) + 1 /\ (mode = "realtime" => m.job <= Len(jobs[c]))
  BY <1>1, Here DEF Before
<1>6. QED
  BY <1>1, <1>2, <1>3, <1>4, <1>5, OneMove

\* A channel on which nothing has happened is silent, with TX or without.
LEMMA FreshIsSilent ==
    ASSUME NEW c \in Channel
    PROVE  /\ Fresh(c) => Silent(c)
           /\ Fresh(c)' => Silent(c)'
BY DEF Fresh, Silent

\* ensure_tx_started.
LEMMA EnsureMoves ==
    ASSUME IInv, IsSingle, NEW c \in Channel, run.pc = "jobs", EnsureTxStarted(c), UNCHANGED <<mode, bound>>
    PROVE  IInv'
<1> USE Here
<1>1. /\ main[c].pc = "begin" /\ UNCHANGED <<stop, queue, render, tx, feed, jobs, state, active, txLock, abort>>
      /\ Owned(c) /\ Begun(c) /\ main[c].job <= Len(jobs[c]) /\ ~IsReplay /\ ~IsMulti
      /\ run \in RunRecord /\ txLock \in {"none", "run", "abort"} /\ active \subseteq Channel
      /\ txLock # "run"
  BY OneChannel DEF EnsureTxStarted, OthersUnchanged, IsSingle, IsReplay, IsMulti, IInv,
     ControlTypes, RunRecord, Locks, Moving
<1>2. IsSingle' = IsSingle /\ IsReplay' = IsReplay /\ IsMulti' = IsMulti
  BY DEF IsSingle, IsReplay, IsMulti, OnOneChannel
<1>3. WorkersChange(c)
  BY <1>1 DEF EnsureTxStarted, WorkersChange
<1>4. ASSUME NEW step \in {"launch", "ended"}, MainGoto(c, step), NEW r \in RunRecord, run' = r,
             r.pc \in {"jobs", "failing"}, r.pc = "failing" => r.started = {},
             UNCHANGED device \/ Fresh(c), Begun(c)'
      PROVE  IInv'
  <2> DEFINE m == [main[c] EXCEPT !.pc = step]
  <2>1. m \in MainType /\ m.pc = step /\ m.job = main[c].job
    BY DEF MainType, MainSteps
  <2>2. main' = [main EXCEPT ![c] = m] /\ main'[c] = m
    BY <1>4 DEF MainGoto, MainType
  <2> HIDE DEF m
  <2>3. Owned(c)'
    BY <1>1, <2>1, <2>2 DEF Owned, HasTx
  <2>4. UNCHANGED device \/ Silent(c)'
    BY <1>1, <1>4, FreshIsSilent DEF Fresh, Silent, Items
  <2>5. m.pc \notin Moving /\ (r.pc \in AtRest => r.started = {})
    BY <1>4, <2>1 DEF Moving, AtRest
  <2>6. QED
    BY <1>1, <1>3, <1>4, <2>1, <2>2, <2>3, <2>4, <2>5, OneMove
<1>5. CASE c \in run.started /\ MainGoto(c, "launch") /\ UNCHANGED <<device, run>>
  <2>1. Begun(c)'
    BY <1>1, <1>2, <1>5, Moved DEF Begun
  <2>2. QED
    BY <1>1, <1>4, <1>5, <2>1
<1>6. ASSUME c \notin run.started PROVE Fresh(c) /\ run.started = {}
  <2>1. run.started \subseteq Channel
    BY <1>1 DEF RunRecord
  <2>2. QED
    BY <1>1, <1>6, <2>1, OneChannel DEF Begun
<1>7. CASE /\ c \notin run.started /\ StartTx(c) /\ MainGoto(c, "launch")
           /\ run' = [run EXCEPT !.started = @ \cup {c}]
  <2>1. [run EXCEPT !.started = run.started \cup {c}] \in RunRecord /\ run'.pc = "jobs" /\ c \in run'.started
    BY <1>1, <1>7 DEF RunRecord
  <2>2. Begun(c)'
    BY <1>1, <1>2, <1>7, <2>1, Moved DEF Begun
  <2>3. QED
    BY <1>4, <1>6, <1>7, <2>1, <2>2
<1>8. CASE c \notin run.started /\ RunGoto("failing") /\ MainGoto(c, "ended") /\ UNCHANGED device
  <2>1. [run EXCEPT !.pc = "failing"] \in RunRecord /\ run'.pc = "failing" /\ run'.started = run.started
    BY <1>1, <1>8 DEF RunRecord, RunSteps, RunGoto
  <2>2. Begun(c)'
    BY <1>1, <1>2, <1>8, <2>1, Moved DEF Begun
  <2>3. QED
    BY <1>4, <1>6, <1>8, <2>1, <2>2 DEF RunGoto
<1>9. QED
  BY <1>5, <1>7, <1>8 DEF EnsureTxStarted

\* The TxWorker is created, where abort() can reach it.
LEMMA CreateMoves ==
    ASSUME IInv, NEW c \in Channel, run.pc = "jobs", UNCHANGED <<mode, bound>>,
           (IsSingle /\ CreateActiveWorker(c)) \/ (IsReplay /\ CreateFedWorker(c))
    PROVE  IInv'
<1> USE Here
<1>1. PICK step \in {"joinRender", "mix"} :
          /\ MainGoto(c, step) /\ txLock = "none" /\ main[c].pc = "create"
          /\ IsSingle => (step = "joinRender" <=> TheJob(c).kind = "render")
          /\ tx' = [tx EXCEPT ![c] = TxWorker("pop")] /\ active' = {c}
          /\ UNCHANGED <<stop, queue, render, device, feed, jobs, state, run, txLock, abort>>
          /\ IsReplay => step = "mix"
  BY DEF CreateActiveWorker, CreateFedWorker, StartTxOfJob, StartTxWorker, IsSingle, IsReplay
<1>2. WorkersChange(c)
  BY <1>1 DEF WorkersChange
<1>3. Owned(c)'
  <2>1. /\ main'[c].pc = step /\ TheJob(c)' = TheJob(c) /\ c \in active'
        /\ render'[c] = render[c] /\ mode' = mode /\ (IsSingle \/ IsReplay) /\ Owned(c)
    BY <1>1, Moved DEF TheJob
  <2>2. render[c].pc \notin Gone =>
            step = "joinRender" /\ TheJob(c).kind = "render" /\ mode = "realtime"
    BY <1>1, <2>1 DEF Owned, IsReplay
  <2>3. QED
    BY <1>1, <2>1, <2>2 DEF Owned, HasTx
<1>4. QED
  BY <1>1, <1>2, <1>3, OneGoto DEF MainSteps, Moving, Before

\* After the join of the RenderWorker, under the lock.
LEMMA DecideMoves ==
    ASSUME IInv, IsSingle, NEW c \in Channel, run.pc = "jobs", UNCHANGED <<mode, bound>>, Decide(c)
    PROVE  IInv'
<1> USE Here
<1>1. /\ main[c].pc = "decide" /\ txLock = "none" /\ Owned(c) /\ active \subseteq Channel
      /\ UNCHANGED <<stop, queue, render, tx, device, jobs, state, run, active, abort>>
      /\ ~IsReplay /\ ~IsMulti
  BY DEF Decide, IInv, ControlTypes, IsSingle, IsReplay, IsMulti
<1>2. render[c].pc \in Gone
  BY <1>1 DEF Owned
<1>3. CASE c \notin active /\ NextJob(c) /\ UNCHANGED <<feed, txLock>>
  <2> DEFINE m == [main[c] EXCEPT !.pc = "next", !.job = main[c].job + 1]
  <2>1. m \in MainType /\ m.pc = "next" /\ m.job = main[c].job + 1
    <3>1. main[c] \in MainType /\ main[c].job + 1 \in Nat
      OBVIOUS
    <3>2. QED
      BY <3>1 DEF MainType, MainSteps
  <2>2. main' = [main EXCEPT ![c] = m]
    BY <1>3 DEF NextJob, MainType
  <2> HIDE DEF m
  <2>3. tx[c].pc \in Gone
    BY <1>1, <1>3 DEF Owned, Gone
  <2>4. WorkersChange(c) /\ UNCHANGED controlVars
    BY <1>1, <1>3 DEF WorkersChange, controlVars
  <2>5. QED
    BY <1>1, <1>2, <1>3, <2>1, <2>2, <2>3, <2>4, NextJobStep DEF Moving, Before
<1>4. CASE c \in active /\ txLock' = "run"
  <2>1. PICK step \in Moving : MainGoto(c, step) /\ (UNCHANGED feed \/ StartFeed(c, Sentinel))
    BY <1>1, <1>4 DEF Decide, Moving
  <2>2. WorkersChange(c)
    BY <1>1, <2>1, BlockFacts DEF WorkersChange
  <2>3. Owned(c)'
    BY <1>1, <1>2, <2>1, Moved DEF Owned, HasTx, Moving
  <2>4. step \in MainSteps \ ({"next"} \cup Before)
    BY DEF MainSteps, Moving, Before
  <2>5. main[c].pc \notin Before \cup {"ended"}
    BY <1>1 DEF Before
  <2>6. QED
    BY <1>1, <1>4, <2>1, <2>2, <2>3, <2>4, <2>5, OneGoto
<1>5. QED
  BY <1>3, <1>4 DEF Decide

\* The TxWorker is taken back from abort(), unless abort() has taken it.
LEMMA MoveMoves ==
    ASSUME IInv, IsSingle, NEW c \in Channel, run.pc = "jobs", UNCHANGED <<mode, bound>>,
           MoveWorker(c) \/ TakeWorker(c)
    PROVE  IInv'
<1> USE Here
<1>1. /\ main[c].pc \in {"move", "take"} /\ active' = {} /\ txLock' = "none" /\ Owned(c)
      /\ UNCHANGED <<workerVars, jobs, state, run, abort>>
      /\ ~IsReplay /\ ~IsMulti /\ mode = "realtime"
  BY DEF MoveWorker, TakeWorker, IsSingle, IsReplay, IsMulti
<1>2. txLock # "abort"
  <2>1. CASE MoveWorker(c)
    BY <2>1, OneChannel DEF IInv, Locks, MoveWorker, Moving
  <2>2. QED
    BY <2>1 DEF TakeWorker
<1>3. WorkersChange(c)
  BY <1>1 DEF WorkersChange, workerVars
<1>4. CASE MainGoto(c, "joinTx")
  <2>1. Owned(c)'
    BY <1>1, <1>4, Moved DEF Owned, HasTx, workerVars
  <2>2. QED
    BY <1>1, <1>2, <1>3, <1>4, <2>1, OneGoto DEF MainSteps, Moving, Before, workerVars
<1>5. CASE main[c].pc = "take" /\ txLock = "none" /\ c \notin active /\ NextJob(c)
  <2> DEFINE m == [main[c] EXCEPT !.pc = "next", !.job = main[c].job + 1]
  <2>1. m \in MainType /\ m.pc = "next" /\ m.job = main[c].job + 1
    <3>1. main[c] \in MainType /\ main[c].job + 1 \in Nat
      OBVIOUS
    <3>2. QED
      BY <3>1 DEF MainType, MainSteps
  <2>2. main' = [main EXCEPT ![c] = m]
    BY <1>5 DEF NextJob, MainType
  <2> HIDE DEF m
  <2>3. tx[c].pc \in Gone /\ render[c].pc \in Gone
    BY <1>1, <1>5 DEF Owned, Gone
  <2>4. active = {}
    BY <1>5, OneChannel DEF IInv, ControlTypes
  <2>5. UNCHANGED controlVars
    BY <1>1, <1>5, <2>4 DEF controlVars
  <2>6. QED
    BY <1>1, <1>3, <1>5, <2>1, <2>2, <2>3, <2>5, NextJobStep DEF Moving, Before, workerVars
<1>6. QED
  BY <1>4, <1>5 DEF MoveWorker, TakeWorker

\* The replay renders its buffer.
LEMMA RenderAllMoves ==
    ASSUME IInv, IsReplay, NEW c \in Channel, run.pc = "jobs", UNCHANGED <<mode, bound>>, RenderAll(c)
    PROVE  IInv'
<1> USE Here
<1>1. /\ main[c].pc = "next" /\ UNCHANGED <<workerVars, jobs, state, active, txLock, abort>>
      /\ Owned(c) /\ Begun(c) /\ mode = "replay" /\ ~IsSingle /\ ~IsMulti
      /\ run \in RunRecord /\ txLock \in {"none", "run", "abort"} /\ active \subseteq Channel
      /\ txLock # "run"
  BY OneChannel DEF RenderAll, OthersUnchanged, IsSingle, IsReplay, IsMulti, IInv, ControlTypes,
     RunRecord, Locks
<1>2. PICK step \in {"begin", "ended"} : MainGoto(c, step)
  BY DEF RenderAll
<1> DEFINE m == [main[c] EXCEPT !.pc = step]
<1>3. m \in MainType /\ m.pc = step /\ m.job = main[c].job
  BY DEF MainType, MainSteps
<1>4. main' = [main EXCEPT ![c] = m] /\ main'[c] = m
  BY <1>2 DEF MainGoto, MainType
<1> HIDE DEF m
<1>5. run.started = {} /\ c \notin run.started
  <2>1. run.started \subseteq Channel /\ c \notin run.started
    BY <1>1 DEF RunRecord, Begun
  <2>2. QED
    BY <2>1, OneChannel
<1>6. run' \in RunRecord /\ run'.started = {} /\ run'.pc \in {"jobs", "failing"}
  BY <1>1, <1>5 DEF RenderAll, RunGoto, RunRecord, RunSteps
<1>7. Owned(c)'
  BY <1>1, <1>3, <1>4 DEF Owned, HasTx, workerVars
<1>8. Begun(c)'
  <2>1. ~IsSingle' /\ UNCHANGED device /\ Fresh(c) /\ Fresh(c)'
    BY <1>1, <1>5 DEF Begun, IsSingle, OnOneChannel, workerVars, Fresh, Items
  <2>2. QED
    BY <1>1, <1>5, <1>6, <2>1 DEF Begun
<1>9. WorkersChange(c) /\ UNCHANGED <<device, feed>>
  BY <1>1 DEF WorkersChange, workerVars
<1>10. QED
  BY <1>1, <1>3, <1>4, <1>6, <1>7, <1>8, <1>9, OneMove

\* The replay starts TX and makes its queue.
LEMMA ReplayBeginMoves ==
    ASSUME IInv, IsReplay, NEW c \in Channel, run.pc = "jobs", UNCHANGED <<mode, bound>>, ReplayBegin(c)
    PROVE  IInv'
<1> USE Here
<1>1. /\ main[c].pc = "begin" /\ UNCHANGED <<stop, render, tx, feed, jobs, state, active, txLock, abort>>
      /\ Owned(c) /\ Begun(c) /\ mode = "replay" /\ ~IsSingle /\ ~IsMulti
      /\ run \in RunRecord /\ txLock \in {"none", "run", "abort"} /\ active \subseteq Channel
      /\ txLock # "run"
  BY OneChannel DEF ReplayBegin, OthersUnchanged, IsSingle, IsReplay, IsMulti, IInv, ControlTypes,
     RunRecord, Locks
<1>2. run.started = {} /\ c \notin run.started /\ Fresh(c)
  <2>1. run.started \subseteq Channel /\ c \notin run.started /\ Fresh(c)
    BY <1>1 DEF RunRecord, Begun
  <2>2. QED
    BY <2>1, OneChannel
<1>3. WorkersChange(c) /\ ~IsSingle' /\ ~IsMulti'
  BY <1>1 DEF ReplayBegin, WorkersChange, IsSingle, IsMulti, OnOneChannel
<1>4. Silent(c)'
  BY <1>3, <1>2, <1>1, FreshIsSilent, StaysSilent DEF IInv
<1>5. ASSUME NEW step \in {"create", "ended"}, MainGoto(c, step), run' \in RunRecord,
             run'.pc \in {"jobs", "failing"}, run'.pc = "failing" => run'.started = {},
             device'[c].on => c \in run'.started \/ device'[c].stuck
      PROVE  IInv'
  <2> DEFINE m == [main[c] EXCEPT !.pc = step]
  <2>1. m \in MainType /\ m.pc = step /\ m.job = main[c].job
    BY DEF MainType, MainSteps
  <2>2. main' = [main EXCEPT ![c] = m] /\ main'[c] = m
    BY <1>5 DEF MainGoto, MainType
  <2> HIDE DEF m
  <2>3. Owned(c)'
    BY <1>1, <2>1, <2>2 DEF Owned, HasTx
  <2>4. Begun(c)'
    BY <1>3, <1>5, <2>1, <2>2 DEF Begun
  <2>5. run'.pc \in AtRest => run'.started = {}
    BY <1>5 DEF AtRest
  <2>6. QED
    BY <1>1, <1>3, <1>4, <1>5, <2>1, <2>2, <2>3, <2>4, <2>5, OneMove
<1>6. CASE /\ StartTx(c) /\ run' = [run EXCEPT !.started = @ \cup {c}] /\ MainGoto(c, "create")
  <2>1. [run EXCEPT !.started = run.started \cup {c}] \in RunRecord /\ run'.pc = "jobs" /\ c \in run'.started
    BY <1>1, <1>6 DEF RunRecord
  <2>2. QED
    BY <1>5, <1>6, <2>1
<1>7. CASE RunGoto("failing") /\ MainGoto(c, "ended") /\ UNCHANGED device
  <2>1. [run EXCEPT !.pc = "failing"] \in RunRecord /\ run'.pc = "failing" /\ run'.started = run.started
    BY <1>1, <1>7 DEF RunRecord, RunSteps, RunGoto
  <2>2. device'[c].on => device'[c].stuck
    BY <1>1, <1>2, <1>7 DEF Begun
  <2>3. QED
    BY <1>2, <1>5, <1>7, <2>1, <2>2 DEF RunGoto
<1>8. QED
  BY <1>6, <1>7 DEF ReplayBegin

\* The replay takes the lock to join its TxWorker.
LEMMA TakeFedMoves ==
    ASSUME IInv, IsReplay, NEW c \in Channel, run.pc = "jobs", UNCHANGED <<mode, bound>>, TakeFedWorker(c)
    PROVE  IInv'
<1> USE Here
<1>1. /\ main[c].pc = "take" /\ txLock = "none" /\ UNCHANGED <<workerVars, jobs, state, run, active, abort>>
      /\ Owned(c) /\ mode = "replay" /\ ~IsSingle /\ ~IsMulti /\ active \subseteq Channel
  BY DEF TakeFedWorker, IsSingle, IsReplay, IsMulti, IInv, ControlTypes
<1>2. WorkersChange(c) /\ UNCHANGED <<device, feed>>
  BY <1>1 DEF WorkersChange, workerVars
<1>3. CASE MainGoto(c, "joinTx") /\ txLock' = "run"
  <2>1. Owned(c)'
    BY <1>1, <1>3, Moved DEF Owned, HasTx, workerVars
  <2>2. QED
    BY <1>1, <1>2, <1>3, <2>1, OneGoto DEF MainSteps, Before
<1>4. CASE c \notin active /\ MainGoto(c, "ended") /\ UNCHANGED txLock
  <2>1. tx[c].pc \in Gone /\ render[c].pc \in Gone
    BY <1>1, <1>4 DEF Owned, Gone
  <2>2. Owned(c)'
    BY <1>1, <1>4, <2>1, Moved DEF Owned, HasTx, workerVars
  <2>3. QED
    BY <1>1, <1>2, <1>4, <2>2, OneGoto DEF MainSteps, Before
<1>5. QED
  BY <1>3, <1>4 DEF TakeFedWorker

\* The replay has joined its TxWorker, and releases the lock.
LEMMA JoinTxMoves ==
    ASSUME IInv, IsReplay, NEW c \in Channel, run.pc = "jobs", UNCHANGED <<mode, bound>>, JoinTx(c)
    PROVE  IInv'
<1> USE Here
<1>1. /\ main[c].pc = "joinTx" /\ tx[c].pc = "done" /\ active' = {} /\ txLock' = "none"
      /\ UNCHANGED <<workerVars, jobs, state, run, abort>>
      /\ Owned(c) /\ Begun(c) /\ mode = "replay" /\ ~IsSingle /\ ~IsMulti
  BY DEF JoinTx, IsSingle, IsReplay, IsMulti
<1>2. txLock # "abort"
  BY <1>1, OneChannel DEF IInv, Locks
<1> DEFINE m == [main[c] EXCEPT !.sent = tx[c].sent, !.blocks = tx[c].blocks,
                                !.underruns = tx[c].underruns, !.failed = tx[c].failed,
                                !.pc = "ended"]
<1>3. m \in MainType /\ m.pc = "ended" /\ m.job = main[c].job
  <2>1. main[c] \in MainType /\ tx[c] \in TxType
    OBVIOUS
  <2>2. QED
    BY <2>1 DEF MainType, MainSteps, TxType
<1>4. main' = [main EXCEPT ![c] = m] /\ main'[c] = m
  BY DEF JoinTx, MainType
<1> HIDE DEF m
<1>5. Owned(c)'
  BY <1>1, <1>3, <1>4 DEF Owned, HasTx, Gone, workerVars
<1>6. Begun(c)'
  BY <1>1, <1>3, <1>4 DEF Begun, IsSingle, IsMulti, OnOneChannel, workerVars
<1>7. run \in RunRecord /\ (run.pc \in AtRest => run.started = {})
  BY DEF IInv, ControlTypes, RunRecord, Control, AtRest
<1>8. WorkersChange(c) /\ UNCHANGED <<device, feed>>
  BY <1>1 DEF WorkersChange, workerVars
<1>9. QED
  BY <1>1, <1>2, <1>3, <1>4, <1>5, <1>6, <1>7, <1>8, OneMove

-----------------------------------------------------------------------------
(* The steps of run() outside the schedules, and those of abort(). *)

\* A step of run() that leaves the workers, TX and abort() alone.
LEMMA RunMove ==
    ASSUME IInv, UNCHANGED <<workerVars, jobVars, active, txLock, abort, mode, bound>>,
           state' \in RuntimeState, run' \in RunRecord, run'.started = run.started,
           run'.pc \in AtRest => run.started = {},
           run'.pc \in {"called", "entering", "start"} => run.pc \in {"called", "entering", "start"},
           run'.pc = "jobs" => run.pc \in {"entering", "start", "jobs"}
    PROVE  IInv'
<1>1. WorkersInv' /\ JobsInv' /\ ControlTypes'
  BY DEF IInv, WorkersInv, WorkersTypeOK, QueueTypeOK, RenderTypeOK, Items, Filling, JobsInv,
         JobsTypeOK, AtAJob, ControlTypes, RunRecord, workerVars, jobVars
<1>2. Locks'
  BY DEF IInv, Locks, LockHeldToMove, LockHeldToJoin, jobVars, IsSingle, IsReplay, OnOneChannel
<1>3. Control'
  BY DEF IInv, Control, AtRest, workerVars, IsMulti, OnOneChannel
<1>4. ASSUME NEW c \in Channel PROVE Owned(c)' /\ Begun(c)' /\ Silenced(c)'
  <2>1. /\ Owned(c) /\ Begun(c) /\ Silenced(c)
        /\ IsSingle' = IsSingle /\ IsReplay' = IsReplay /\ IsMulti' = IsMulti
    BY DEF IInv, IsSingle, IsReplay, IsMulti, OnOneChannel
  <2>2. Owned(c)' /\ Silenced(c)'
    BY <2>1 DEF Owned, TheJob, Silenced, AbortPassed, Silent, Items, workerVars, jobVars
  <2>3. Fresh(c) = Fresh(c)'
    BY DEF Fresh, Items, workerVars
  <2>4. Begun(c)'
    BY <2>1, <2>3 DEF Begun, workerVars, jobVars
  <2>5. QED
    BY <2>2, <2>4
<1>5. QED
  BY <1>1, <1>2, <1>3, <1>4 DEF IInv

\* The steps of run() before and after the schedules.
LEMMA RunMoves ==
    ASSUME IInv, UNCHANGED <<mode, bound>>,
           \/ RunEnter \/ RunEntered("jobs") \/ RunEntered("start") \/ RunEntered("failing")
           \/ RunEvents \/ ReturnStep \/ LaunchThreads \/ Rethrow
    PROVE  IInv'
<1>1. /\ run \in RunRecord /\ state \in RuntimeState
      /\ run.pc \in AtRest => run.started = {}
      /\ {"Running", "Completed", "Failed"} \subseteq RuntimeState
  BY DEF IInv, ControlTypes, RunRecord, Control, AtRest, RuntimeState
<1>2. UNCHANGED <<workerVars, jobVars, active, txLock, abort, mode, bound>>
  BY DEF RunEnter, RunEntered, RunEvents, ReturnStep, RunFinish, RunComplete, RunFailing, RunFail,
         LaunchThreads, Rethrow, OthersUnchanged
<1>3. ASSUME NEW step \in RunSteps, RunGoto(step)
      PROVE  run' \in RunRecord /\ run'.started = run.started /\ run'.pc = step
  BY <1>1, <1>3 DEF RunGoto, RunRecord
<1>4. ASSUME NEW result \in BOOLEAN, Return(result)
      PROVE  run' \in RunRecord /\ run'.started = run.started /\ run'.pc = "returned"
  BY <1>1, <1>4 DEF Return, RunRecord, RunSteps
<1>5. CASE RunEnter
  <2>1. PICK step \in {"entering", "returned"} : RunGoto(step) /\ run.pc = "called" /\ state' = state
    BY <1>5 DEF RunEnter
  <2>2. step \in RunSteps
    BY DEF RunSteps
  <2>3. run' \in RunRecord /\ run'.started = run.started /\ run'.pc = step
    BY <1>3, <2>1, <2>2
  <2>4. QED
    BY <1>1, <1>2, <2>1, <2>3, RunMove DEF AtRest
<1>6. CASE RunEntered("jobs") \/ RunEntered("start") \/ RunEntered("failing")
  <2>1. PICK step \in {"jobs", "start", "failing"} : RunGoto(step) /\ run.pc = "entering" /\ state' = "Running"
    BY <1>6 DEF RunEntered
  <2>2. step \in RunSteps
    BY DEF RunSteps
  <2>3. run' \in RunRecord /\ run'.started = run.started /\ run'.pc = step
    BY <1>3, <2>1, <2>2
  <2>4. QED
    BY <1>1, <1>2, <2>1, <2>3, RunMove DEF AtRest
<1>7. CASE RunEvents
  <2>1. PICK failed \in BOOLEAN : run' = [run EXCEPT !.pc = "drain", !.eventFailed = failed]
    BY <1>7 DEF RunEvents
  <2>2. run' \in RunRecord /\ run'.started = run.started /\ run'.pc = "drain"
    BY <1>1, <2>1 DEF RunRecord, RunSteps
  <2>3. QED
    BY <1>1, <1>2, <1>7, <2>2, RunMove DEF AtRest, RunEvents
<1>8. CASE ReturnStep
  <2>1. run.started = {} /\ state' \in RuntimeState
    BY <1>1, <1>8 DEF ReturnStep, RunFinish, RunComplete, RunFailing, RunFail, AtRest
  <2>2. \/ \E step \in {"failing", "completing", "fail"} : RunGoto(step)
        \/ \E result \in BOOLEAN : Return(result)
    BY <1>8 DEF ReturnStep, RunFinish, RunComplete, RunFailing, RunFail
  <2>3. {"failing", "completing", "fail"} \subseteq RunSteps
    BY DEF RunSteps
  <2>4. /\ run' \in RunRecord /\ run'.started = run.started
        /\ run'.pc \in {"failing", "completing", "fail", "returned"}
    BY <1>3, <1>4, <2>2, <2>3
  <2>5. QED
    BY <1>1, <1>2, <2>1, <2>4, RunMove
<1>9. CASE LaunchThreads \/ Rethrow
  <2>1. PICK step \in {"jobs", "failing"} :
            /\ RunGoto(step) /\ state' = state
            /\ step = "jobs" => run.pc = "start"
            /\ step = "failing" => run.started = {}
    BY <1>9 DEF LaunchThreads, Rethrow
  <2>2. step \in RunSteps
    BY DEF RunSteps
  <2>3. run' \in RunRecord /\ run'.started = run.started /\ run'.pc = step
    BY <1>3, <2>1, <2>2
  <2>4. QED
    BY <1>1, <1>2, <2>1, <2>3, RunMove DEF AtRest
<1>10. QED
  BY <1>5, <1>6, <1>7, <1>8, <1>9

\* TX is stopped on a channel, by run() or by abort().
LEMMA StopMove ==
    ASSUME IInv, NEW c \in Channel, NEW ok \in BOOLEAN, StopTx(c, ok),
           UNCHANGED <<stop, queue, render, tx, feed, jobVars, state, active, txLock, mode, bound>>,
           run' \in RunRecord, run'.pc = run.pc, abort' \in AbortRecord, abort'.pc = abort.pc,
           run'.started \in {run.started, run.started \ {c}},
           abort'.left \in {abort.left, abort.left \ {c}},
           abort.pc = "write" => abort' = abort,
           run.pc = "start" => run' = run,
           run.pc = "jobs" => run' = run \/ (IsReplay /\ main[c].pc = "ended")
    PROVE  IInv'
<1>1. /\ device \in [Channel -> DeviceType]
      /\ IsSingle' = IsSingle /\ IsReplay' = IsReplay /\ IsMulti' = IsMulti
      /\ ~(IsReplay /\ (IsSingle \/ IsMulti))
  BY Here DEF IsSingle, IsReplay, IsMulti, OnOneChannel
<1>2. WorkersInv'
  <2>1. WorkersChange(c)
    BY DEF WorkersChange
  <2>2. QED
    BY <2>1, WorkersChanged DEF IInv
<1>3. JobsInv' /\ ControlTypes'
  BY DEF IInv, JobsInv, JobsTypeOK, AtAJob, ControlTypes, RunRecord, AbortRecord, jobVars
<1>4. Locks'
  BY DEF IInv, Locks, LockHeldToMove, LockHeldToJoin, jobVars, IsSingle, IsReplay, OnOneChannel
<1>5. Control'
  BY <1>1 DEF IInv, Control, AtRest
<1>6. device'[c].on => device'[c].stuck
  <2> DEFINE on == device[c].on /\ ~ok
             stuck == device[c].stuck \/ ~ok
  <2>1. device' = [device EXCEPT ![c].on = on, ![c].stuck = stuck] /\ (on => stuck)
    BY DEF StopTx
  <2> HIDE DEF on, stuck
  <2>2. QED
    BY <1>1, <2>1 DEF DeviceType
<1>7. \A d \in Channel \ {c} : device'[d] = device[d]
  BY <1>1 DEF StopTx
<1>8. ASSUME NEW d \in Channel PROVE Owned(d)' /\ Begun(d)' /\ Silenced(d)'
  <2>1. Owned(d) /\ Begun(d) /\ Silenced(d) /\ Control
    BY DEF IInv
  <2>2. Owned(d)'
    BY <1>1, <2>1 DEF Owned, TheJob, jobVars
  <2>3. Fresh(d) = Fresh(d)' /\ Silent(d) = Silent(d)'
    BY DEF Fresh, Silent, Items
  <2>4. /\ d # c => (d \in run'.started <=> d \in run.started)
        /\ d # c => (d \in abort'.left <=> d \in abort.left)
    OBVIOUS
  <2>5. /\ main' = main /\ mode' = mode
        /\ run.pc \in {"jobs", "start"} /\ d \in run.started /\ d \notin run'.started
              => IsReplay /\ main[d].pc = "ended"
        /\ d \in run'.started => d \in run.started
    BY DEF jobVars
  <2>6. Begun(d)'
    BY <1>1, <1>6, <1>7, <2>1, <2>3, <2>4, <2>5 DEF Begun
  <2>7. Silenced(d)'
    BY <1>6, <1>7, <2>1, <2>3, <2>4 DEF Silenced, AbortPassed
  <2>8. QED
    BY <2>2, <2>6, <2>7
<1>9. QED
  BY <1>2, <1>3, <1>4, <1>5, <1>8 DEF IInv

LEMMA StopTxMoves ==
    ASSUME IInv, UNCHANGED <<mode, bound>>, NEW c \in Channel,
           \/ run.pc = "drain" /\ RunStopTx(c)
           \/ IsReplay /\ run.pc = "jobs" /\ main[c].pc = "ended" /\ RunStopTx(c)
           \/ RollbackChannel(c)
           \/ AbortStopTx(c)
    PROVE  IInv'
<1>1. run \in RunRecord /\ abort \in AbortRecord
  BY DEF IInv, ControlTypes, RunRecord, AbortRecord
<1>2. CASE RunStopTx(c) /\ (run.pc = "drain" \/ (IsReplay /\ run.pc = "jobs" /\ main[c].pc = "ended"))
  <2>1. PICK ok \in BOOLEAN :
            StopTx(c, ok) /\ run' = [run EXCEPT !.started = @ \ {c}, !.stopFailed = @ \/ ~ok]
    BY <1>2 DEF RunStopTx
  <2> DEFINE failed == run.stopFailed \/ ~ok
  <2>2. failed \in BOOLEAN /\ run' = [run EXCEPT !.started = @ \ {c}, !.stopFailed = failed]
    BY <2>1
  <2> HIDE DEF failed
  <2>3. run' \in RunRecord /\ run'.pc = run.pc /\ run'.started = run.started \ {c}
    BY <1>1, <2>2 DEF RunRecord
  <2>4. UNCHANGED <<stop, queue, render, tx, feed, jobVars, state, active, txLock, mode, bound, abort>>
    BY <1>2 DEF RunStopTx, OthersUnchanged
  <2>5. QED
    BY <1>1, <1>2, <2>1, <2>3, <2>4, StopMove
<1>3. CASE RollbackChannel(c)
  <2>1. PICK ok \in BOOLEAN : StopTx(c, ok)
    BY <1>3 DEF RollbackChannel
  <2>2. run' \in RunRecord /\ run'.pc = run.pc /\ run'.started = run.started \ {c} /\ run.pc = "rollback"
    BY <1>1, <1>3 DEF RollbackChannel, RunRecord
  <2>3. UNCHANGED <<stop, queue, render, tx, feed, jobVars, state, active, txLock, mode, bound, abort>>
    BY <1>3 DEF RollbackChannel, OthersUnchanged
  <2>4. QED
    BY <1>1, <2>1, <2>2, <2>3, StopMove
<1>4. CASE AbortStopTx(c)
  <2>1. PICK ok \in BOOLEAN : StopTx(c, ok)
    BY <1>4 DEF AbortStopTx
  <2>2. abort' \in AbortRecord /\ abort'.pc = abort.pc /\ abort'.left = abort.left \ {c} /\ abort.pc = "stopTx"
    BY <1>1, <1>4 DEF AbortStopTx, AbortRecord
  <2>3. UNCHANGED <<stop, queue, render, tx, feed, jobVars, state, active, txLock, mode, bound, run>>
    BY <1>4 DEF AbortStopTx
  <2>4. QED
    BY <1>1, <2>1, <2>2, <2>3, StopMove
<1>5. QED
  BY <1>2, <1>3, <1>4

\* TX is started on a channel of many.
LEMMA StartMoves ==
    ASSUME IInv, IsMulti, NEW c \in Channel, StartChannel(c), UNCHANGED <<mode, bound>>
    PROVE  IInv'
<1>1. /\ run \in RunRecord /\ run.pc = "start" /\ device \in [Channel -> DeviceType] /\ Begun(c)
      /\ UNCHANGED <<stop, queue, render, tx, feed, jobVars, state, active, txLock, abort, mode, bound>>
      /\ IsSingle' = IsSingle /\ IsReplay' = IsReplay /\ IsMulti' = IsMulti
  BY Here DEF IInv, ControlTypes, RunRecord, StartChannel, OthersUnchanged, IsSingle, IsReplay,
          IsMulti, OnOneChannel
<1>2. CASE RunGoto("rollback") /\ UNCHANGED device
  <2>1. run' \in RunRecord /\ run'.started = run.started /\ run'.pc = "rollback"
    BY <1>1, <1>2 DEF RunGoto, RunRecord, RunSteps
  <2>2. state' \in RuntimeState
    BY <1>1 DEF IInv, ControlTypes
  <2>3. UNCHANGED workerVars
    BY <1>1, <1>2 DEF workerVars
  <2>4. QED
    BY <1>1, <2>1, <2>2, <2>3, RunMove DEF AtRest
<1>3. CASE StartTx(c) /\ run' = [run EXCEPT !.started = @ \cup {c}]
  <2>1. run' \in RunRecord /\ run'.started = run.started \cup {c} /\ run'.pc = "start"
    BY <1>1, <1>3 DEF RunRecord
  <2>2. WorkersInv'
    <3>1. WorkersChange(c)
      BY <1>1, <1>3 DEF WorkersChange
    <3>2. QED
      BY <3>1, WorkersChanged DEF IInv
  <2>3. JobsInv' /\ ControlTypes'
    BY <1>1, <2>1 DEF IInv, JobsInv, JobsTypeOK, AtAJob, ControlTypes, RunRecord, jobVars
  <2>4. Locks'
    BY <1>1 DEF IInv, Locks, LockHeldToMove, LockHeldToJoin, jobVars
  <2>5. Control'
    BY <1>1, <2>1 DEF IInv, Control
  <2>6. \A d \in Channel \ {c} : device'[d] = device[d]
    BY <1>1, <1>3 DEF StartTx
  <2>7. ASSUME NEW d \in Channel PROVE Owned(d)' /\ Begun(d)' /\ Silenced(d)'
    <3>1. Owned(d) /\ Begun(d) /\ Silenced(d) /\ main' = main /\ mode' = mode
      BY <1>1 DEF IInv, jobVars
    <3>2. Owned(d)'
      BY <1>1, <3>1 DEF Owned, TheJob, jobVars
    <3>3. Fresh(d) /\ Fresh(d)' /\ Silent(d)' /\ main[d].pc = "next"
      BY <1>1, <3>1, FreshIsSilent DEF Begun, Fresh, Items
    <3>4. Begun(d)'
      BY <1>1, <2>1, <2>6, <3>1, <3>3 DEF Begun, IsMulti, IsSingle, IsReplay
    <3>5. Silenced(d)'
      BY <3>3 DEF Silenced
    <3>6. QED
      BY <3>2, <3>4, <3>5
  <2>8. QED
    BY <2>2, <2>3, <2>4, <2>5, <2>7 DEF IInv
<1>4. QED
  BY <1>2, <1>3 DEF StartChannel

\* What abort() does to the flag, the queue of the active TxWorker, the lock and the state.
LEMMA AbortMoves ==
    ASSUME IInv, UNCHANGED <<mode, bound>>,
           AbortCall \/ AbortNotify \/ AbortCheck \/ AbortWrite \/ AbortLock \/ AbortJoin
    PROVE  IInv'
<1>1. /\ UNCHANGED <<render, tx, device, feed, jobVars, run, mode, bound>> /\ abort \in AbortRecord
      /\ IsSingle' = IsSingle /\ IsReplay' = IsReplay /\ IsMulti' = IsMulti
      /\ ControlTypes /\ JobsInv /\ WorkersInv /\ Locks /\ Control
  BY DEF AbortCall, AbortNotify, AbortCheck, AbortWrite, AbortLock, AbortJoin, workerVars, IInv,
         ControlTypes, AbortRecord, IsSingle, IsReplay, IsMulti, OnOneChannel
<1>2. /\ stop' = stop \/ stop' = TRUE
      /\ UNCHANGED queue \/ \E c \in Channel : NotifyAll(c)
  BY <1>1 DEF AbortCall, AbortNotify, AbortCheck, AbortWrite, AbortLock, AbortJoin, workerVars,
              ControlTypes
<1>3. WorkersInv'
  <2>1. CASE UNCHANGED queue
    BY <1>1, <1>2, <2>1 DEF WorkersInv, WorkersTypeOK, QueueTypeOK, RenderTypeOK, Items, Filling
  <2>2. ASSUME NEW c \in Channel, NotifyAll(c) PROVE WorkersInv'
    <3>1. WorkersChange(c)
      BY <1>1, <1>2, <2>2 DEF WorkersChange
    <3>2. QED
      BY <1>1, <3>1, WorkersChanged
  <2>3. QED
    BY <1>2, <2>1, <2>2
<1>4. JobsInv'
  BY <1>1 DEF JobsInv, JobsTypeOK, AtAJob, jobVars
<1>5. \A d \in Channel : Items(d)' = Items(d)
  <2>1. queue \in [Channel -> QueueType]
    BY <1>1 DEF WorkersInv, WorkersTypeOK, QueueTypeOK
  <2>2. ASSUME NEW c \in Channel, NotifyAll(c), NEW d \in Channel PROVE Items(d)' = Items(d)
    <3>1. queue[c] \in QueueType
      BY <2>1
    <3>2. QED
      BY <2>1, <2>2, <3>1 DEF NotifyAll, Items, QueueType
  <2>3. QED
    BY <1>2, <2>2 DEF Items
<1>6. ControlTypes'
  <2>1. {"notify", "check", "write", "stopTx", "join", "returned"} \subseteq AbortSteps
    BY DEF AbortSteps
  <2>2. abort' \in AbortRecord
    <3>1. bound \subseteq Channel
      BY <1>1 DEF ControlTypes
    <3>2. QED
      BY <1>1, <2>1, <3>1 DEF AbortCall, AbortNotify, AbortCheck, AbortWrite, AbortLock, AbortJoin, AbortGoto,
             AbortRecord
  <2>3. state' \in RuntimeState /\ active' \subseteq Channel /\ txLock' \in {"none", "run", "abort"}
    BY <1>1 DEF AbortCall, AbortNotify, AbortCheck, AbortWrite, AbortLock, AbortJoin, ControlTypes,
           RuntimeState
  <2>4. QED
    BY <1>1, <2>2, <2>3 DEF ControlTypes, AbortRecord
<1>7. Locks'
  <2>1. /\ txLock' = "run" <=> txLock = "run"
        /\ txLock' = "abort" <=> abort'.pc = "join"
    BY <1>1 DEF AbortCall, AbortNotify, AbortCheck, AbortWrite, AbortLock, AbortJoin, AbortGoto,
           AbortRecord, Locks
  <2>2. QED
    BY <1>1, <2>1 DEF Locks, LockHeldToMove, LockHeldToJoin, jobVars
<1>8. Control'
  BY <1>1 DEF AbortCall, AbortNotify, AbortCheck, AbortWrite, AbortLock, AbortJoin, AbortGoto,
         AbortRecord, Control, workerVars
<1>9. ASSUME NEW c \in Channel PROVE Owned(c)' /\ Begun(c)' /\ Silenced(c)'
  <2>1. Owned(c) /\ Begun(c) /\ Silenced(c)
    BY DEF IInv
  <2>2. /\ c \in active' => c \in active
        /\ c \in active => c \in active' \/ tx[c].pc = "done"
    BY <1>1 DEF AbortCall, AbortNotify, AbortCheck, AbortWrite, AbortLock, AbortJoin
  <2>3. Owned(c)'
    BY <1>1, <2>1, <2>2 DEF Owned, TheJob, jobVars
  <2>4. Fresh(c)' = Fresh(c) /\ Silent(c)' = Silent(c)
    BY <1>1, <1>5 DEF Fresh, Silent
  <2>5. Begun(c)'
    BY <1>1, <2>1, <2>4 DEF Begun, jobVars
  <2>6. c \in bound /\ AbortPassed(c)' => AbortPassed(c)
    BY <1>1 DEF AbortCall, AbortNotify, AbortCheck, AbortWrite, AbortLock, AbortJoin, AbortGoto,
           AbortRecord, AbortPassed, Control
  <2>7. Silenced(c)'
    BY <1>1, <2>1, <2>4, <2>6 DEF Silenced
  <2>8. QED
    BY <2>3, <2>5, <2>7
<1>10. QED
  BY <1>3, <1>4, <1>6, <1>7, <1>8, <1>9 DEF IInv

-----------------------------------------------------------------------------
(* Every step, and the theorems. *)

LEMMA JobStepMoves ==
    ASSUME IInv, NEW c \in Channel, run.pc = "jobs", IsSingle \/ IsMulti, JobStep(c),
           UNCHANGED <<controlVars, mode, bound>>
    PROVE  IInv'
<1>1. ~IsReplay
  BY DEF IsSingle, IsMulti, IsReplay
<1>2. QED
  BY <1>1, JobMoves, FeedMoves, StopMoves, CollectMoves, WorkerMoves DEF JobStep

LEMMA InitInv == RunInit => IInv
<1> SUFFICES ASSUME RunInit PROVE IInv
  OBVIOUS
<1>1. WorkersInv
  <2>1. /\ NewQueue \in QueueType /\ NewQueue.items = <<>> /\ Len(<<>>) = 0
        /\ RenderWorker("none", 0) \in RenderType /\ TxWorker("none") \in TxType
        /\ RenderWorker("none", 0).pc = "none" /\ RenderWorker("none", 0).rendered <= RenderWorker("none", 0).target
        /\ [on |-> FALSE, stuck |-> FALSE, air |-> 0, burst |-> "closed"] \in DeviceType
        /\ [pc |-> "idle", block |-> Sentinel] \in FeedType /\ 0 <= Capacity
    BY WorkersAssumption, BlockFacts DEF NewQueue, QueueType, RenderWorker, RenderType, TxWorker, TxType,
       DeviceType, FeedType, RenderSteps, TxSteps, FeedSteps
  <2>2. QueueTypeOK
    BY <2>1 DEF RunInit, Init, WorkersInit, QueueTypeOK, Items
  <2>3. RenderTypeOK /\ Filling
    BY <2>1 DEF RunInit, Init, WorkersInit, RenderTypeOK, Filling
  <2>4. stop \in BOOLEAN /\ tx \in [Channel -> TxType]
    BY <2>1 DEF RunInit, Init, WorkersInit
  <2>5. device \in [Channel -> DeviceType] /\ feed \in [Channel -> FeedType]
    BY <2>1 DEF RunInit, Init, WorkersInit
  <2>6. QED
    BY <2>2, <2>3, <2>4, <2>5 DEF WorkersInv, WorkersTypeOK
<1>2. JobsInv
  <2>1. jobs \in [Channel -> Seq(Job)]
    BY JobsAssumption DEF RunInit, Init, JobsInit
  <2>2. \A c \in Channel : Len(jobs[c]) \in Nat
    BY <2>1
  <2>3. QED
    BY <2>1, <2>2 DEF RunInit, Init, JobsInit, JobsInv, JobsTypeOK, AtAJob, MainType, MainSteps
<1>3. ControlTypes /\ Control
  BY DEF RunInit, Init, BindsNone, ControlTypes, Control, RuntimeState, RunSteps, AbortSteps, RunRecord, AbortRecord
<1>4. Locks
  BY DEF RunInit, Init, JobsInit, Locks, LockHeldToMove, LockHeldToJoin
<1>5. ASSUME NEW c \in Channel PROVE Owned(c) /\ Begun(c) /\ Silenced(c)
  <2>1. Fresh(c)
    BY DEF RunInit, Init, WorkersInit, Fresh, Items, NewQueue, RenderWorker, TxWorker
  <2>2. main[c].pc = "next" /\ run.pc = "called" /\ run.started = {} /\ active = {} /\ device[c].on = FALSE
    BY DEF RunInit, Init, WorkersInit, JobsInit
  <2>3. QED
    BY <2>1, <2>2 DEF Fresh, Owned, Begun, Silenced, Gone
<1>6. QED
  BY <1>1, <1>2, <1>3, <1>4, <1>5 DEF IInv

LEMMA StepInv == IInv /\ [RunNext]_runVars => IInv'
<1> SUFFICES ASSUME IInv, [RunNext]_runVars PROVE IInv'
  OBVIOUS
<1>1. CASE UNCHANGED runVars
  <2>1. /\ UNCHANGED <<workerVars, jobVars, active, txLock, abort, mode, bound>>
        /\ run' = run /\ state' = state /\ run'.pc = run.pc
    BY <1>1 DEF runVars, vars, controlVars
  <2>2. run \in RunRecord /\ state \in RuntimeState /\ (run.pc \in AtRest => run.started = {})
    BY DEF IInv, ControlTypes, RunRecord, Control, AtRest
  <2>3. /\ run' \in RunRecord /\ state' \in RuntimeState
        /\ run'.started = run.started /\ (run'.pc \in AtRest => run.started = {})
    BY <2>1, <2>2
  <2>4. QED
    BY <2>1, <2>3, RunMove
<1> SUFFICES ASSUME RunNext PROVE IInv'
  BY <1>1
<1> USE DEF RunNext
<1>2. CASE IsSingle /\ SingleRun
  <2>1. CASE RunEnter \/ RunEntered("jobs") \/ EventsThenStop \/ ReturnStep
    BY <2>1, RunMoves, StopTxMoves DEF EventsThenStop
  <2>2. ASSUME NEW c \in Channel, SingleStep(c) PROVE IInv'
    <3>1. run.pc = "jobs"
      BY <2>2 DEF SingleStep
    <3>2. CASE EnsureTxStarted(c) \/ CreateActiveWorker(c) \/ Decide(c) \/ MoveWorker(c) \/ TakeWorker(c)
      BY <1>2, <3>1, <3>2, EnsureMoves, CreateMoves, DecideMoves, MoveMoves
    <3>3. CASE JoinRenderWorker(c)
      BY <1>2, <3>1, <3>3, JoinMoves DEF JoinRenderWorker
    <3>4. CASE /\ \/ JobStep(c) \/ MixSentinelPushed(c, "take")
                  \/ RenderSentinelPushed(c, "move") \/ NotifyTx(c, "move")
               /\ UNCHANGED controlVars
      <4>1. ~IsMulti
        BY <1>2 DEF IsSingle, IsMulti
      <4>2. QED
        BY <1>2, <3>1, <3>4, <4>1, JobStepMoves, StopMoves
    <3>5. QED
      BY <2>2, <3>2, <3>3, <3>4 DEF SingleStep
  <2>3. QED
    BY <1>2, <2>1, <2>2 DEF SingleRun
<1>3. CASE IsMulti /\ MultiRun
  BY <1>3, RunMoves, StopTxMoves, StartMoves DEF MultiRun, EventsThenStop
<1>4. CASE IsReplay /\ ReplayRun
  <2>1. CASE RunEnter \/ RunEntered("jobs") \/ ReturnStep
    BY <2>1, RunMoves
  <2>2. CASE StopThenEvents
    BY <1>4, <2>2, RunMoves, StopTxMoves DEF StopThenEvents
  <2>3. ASSUME NEW c \in Channel, ReplayStep(c) PROVE IInv'
    <3>1. run.pc = "jobs" /\ ~IsMulti
      BY <1>4, <2>3 DEF ReplayStep, IsReplay, IsMulti
    <3>2. CASE RenderAll(c) \/ ReplayBegin(c) \/ CreateFedWorker(c) \/ TakeFedWorker(c) \/ JoinTx(c)
      BY <1>4, <3>1, <3>2, RenderAllMoves, ReplayBeginMoves, CreateMoves, TakeFedMoves, JoinTxMoves
    <3>3. CASE /\ \/ ReplayLoop(c) \/ MixPushed(c) \/ MixSentinelPushed(c, "take")
                  \/ FeedStep(c) /\ UNCHANGED jobVars
               /\ UNCHANGED controlVars
      BY <1>4, <3>1, <3>3, FeedMoves, StopMoves, WorkerMoves
    <3>4. QED
      BY <2>3, <3>2, <3>3 DEF ReplayStep
  <2>4. QED
    BY <1>4, <2>1, <2>2, <2>3 DEF ReplayRun
<1>5. CASE RefusedReplay
  BY <1>5, RunMoves DEF RefusedReplay
<1>6. CASE AbortCall \/ AbortStep
  BY <1>6, AbortMoves, StopTxMoves DEF AbortStep
<1>7. ASSUME NEW c \in Channel, ThreadOfChannel(c) PROVE IInv'
  <2>1. IsMulti /\ run.pc = "jobs" /\ UNCHANGED <<controlVars, mode, bound>>
    BY <1>7 DEF ThreadOfChannel, ChannelThread
  <2>2. QED
    BY <1>7, <2>1, JobStepMoves, ChannelMoves, JoinMoves, StopMoves DEF ThreadOfChannel, ChannelThread
<1>8. ASSUME NEW c \in Channel, WorkerStep(c) PROVE IInv'
  BY <1>8, WorkerMoves DEF WorkerStep
<1>9. CASE Finished
  BY <1>1, <1>9 DEF Finished, runVars
<1>10. QED
  BY <1>2, <1>3, <1>4, <1>5, <1>6, <1>7, <1>8, <1>9 DEF RunThread

LEMMA Invariant == Spec => []IInv
BY InitInv, StepInv, PTL DEF Spec

\* Whatever the threads do in which order, every variable stays in its type, no
\* RenderWorker renders more than its target, the queue never holds more than
\* its capacity, and active_tx_worker_mutex_ is held exactly where the code holds it.
THEOREM TypeCorrect == Spec => []TypeOK
<1>1. IInv => TypeOK
  BY DEF IInv, TypeOK, ControlTypeOK, ControlTypes, WorkersInv, JobsInv, Locks, RunRecord, AbortRecord
<1>2. QED
  BY <1>1, Invariant, PTL

\* The queue of a job is never replaced while a worker of the job before runs
\* on it or abort() can reach its TxWorker.
THEOREM QueuesOutliveTheirUsers == Spec => []QueueOutlivesItsUsers
<1>1. IInv => QueueOutlivesItsUsers
  BY DEF IInv, QueueOutlivesItsUsers, Owned, Gone, HasTx
<1>2. QED
  BY <1>1, Invariant, PTL

\* However a run ends, and wherever abort() is by then, it has stopped TX on
\* every channel on which it was started, unless a stop_tx threw.
THEOREM TxIsOffAtEnd == Spec => []TxOffAtEnd
<1>1. IInv => TxOffAtEnd
  BY DEF IInv, TxOffAtEnd, Begun, Control
<1>2. QED
  BY <1>1, Invariant, PTL

\* After abort() has returned no channel that the plan binds gets any more
\* samples, on which no stop_tx threw.
THEOREM AbortSilences == Spec => QuietAfterAbort
<1>1. ASSUME IInv, [RunNext]_runVars, NEW c \in bound, abort.pc = "returned", ~device[c].stuck
      PROVE  device'[c].air = device[c].air
  <2> c \in Channel
    BY <1>1 DEF IInv, ControlTypes
  <2>1. CASE UNCHANGED runVars
    BY <2>1 DEF runVars, vars, workerVars
  <2>2. ASSUME NEW d \in Channel, TxStep(d) PROVE device'[c].air = device[c].air
    <3>1. CASE d # c
      BY <1>1, <2>2, <3>1, TxEffect
    <3>2. CASE d = c
      <4>1. device[c].on => Silent(c)
        BY <1>1 DEF IInv, Silenced, AbortPassed
      <4>2. QED
        BY <1>1, <2>2, <3>2, <4>1, TxEffect DEF Silent
    <3>3. QED
      BY <3>1, <3>2
  <2>3. ASSUME NEW d \in Channel, NEW ok \in BOOLEAN, StartTx(d) \/ StopTx(d, ok)
        PROVE  device'[c].air = device[c].air
    <3>1. device \in [Channel -> DeviceType]
      BY <1>1, Here
    <3>2. QED
      BY <2>3, <3>1 DEF StartTx, StopTx, DeviceType
  <2>4. CASE UNCHANGED device
    BY <2>4
  <2>5. ASSUME NEW d \in Channel, JobStep(d) PROVE UNCHANGED device
    BY <2>5 DEF JobStep, LoopHead, Delay, LaunchRender, Prime, PrepareMix, MixLoop, MixPushed,
                StopAll, CollectTx, FeedStep, workerVars
  <2>6. ASSUME NEW d \in Channel, SingleStep(d) PROVE UNCHANGED device \/ StartTx(d)
    BY <2>5, <2>6 DEF SingleStep, EnsureTxStarted, CreateActiveWorker, StartTxOfJob, StartTxWorker,
       JoinRenderWorker, Decide, MoveWorker, TakeWorker, MixSentinelPushed, RenderSentinelPushed,
       NotifyTx, workerVars
  <2>7. ASSUME NEW d \in Channel, ReplayStep(d) PROVE UNCHANGED device \/ StartTx(d)
    BY <2>7 DEF ReplayStep, RenderAll, ReplayBegin, CreateFedWorker, StartTxWorker, TakeFedWorker,
       JoinTx, ReplayLoop, MixPushed, MixSentinelPushed, FeedStep, workerVars
  <2>8. ASSUME NEW d \in Channel, ChannelThread(d) PROVE UNCHANGED device
    BY <2>5, <2>8 DEF ChannelThread, ChannelBegin, StartTxOfJob, StartTxWorker, ChannelJoinRender,
       MixSentinelPushed, RenderSentinelPushed, NotifyTx, workerVars
  <2>9. ASSUME NEW d \in Channel, RunStopTx(d) \/ AbortStopTx(d) \/ StartChannel(d) \/ RollbackChannel(d)
        PROVE  device'[c].air = device[c].air
    BY <2>3, <2>4, <2>9 DEF RunStopTx, AbortStopTx, StartChannel, RollbackChannel
  <2>10. CASE \/ RunEnter \/ RunEntered("jobs") \/ RunEntered("start") \/ RunEntered("failing")
              \/ RunEvents \/ ReturnStep \/ LaunchThreads \/ Rethrow
    BY <2>10 DEF RunEnter, RunEntered, RunEvents, ReturnStep, RunFinish, RunComplete, RunFailing,
         RunFail, LaunchThreads, Rethrow, workerVars
  <2>11. CASE AbortCall \/ AbortNotify \/ AbortCheck \/ AbortWrite \/ AbortLock \/ AbortJoin
    BY <2>11 DEF AbortCall, AbortNotify, AbortCheck, AbortWrite, AbortLock, AbortJoin, workerVars
  <2>12. ASSUME NEW d \in Channel, WorkerStep(d) PROVE UNCHANGED device \/ TxStep(d)
    BY <2>12, RenderEffect, <1>1 DEF WorkerStep
  <2>13. CASE RunThread
    BY <2>3, <2>4, <2>6, <2>7, <2>9, <2>10, <2>13 DEF RunThread, SingleRun, MultiRun, ReplayRun,
       RefusedReplay, EventsThenStop, StopThenEvents
  <2>14. CASE AbortCall \/ AbortStep
    BY <2>9, <2>11, <2>14 DEF AbortStep
  <2>15. QED
    BY <1>1, <2>1, <2>2, <2>4, <2>8, <2>12, <2>13, <2>14 DEF RunNext, ThreadOfChannel, Finished,
       vars, workerVars
<1>2. IInv /\ [RunNext]_runVars =>
          [\A c \in bound : (abort.pc = "returned" /\ ~device[c].stuck)
                                => device'[c].air = device[c].air]_vars
  BY <1>1
<1>3. QED
  BY <1>2, Invariant, PTL DEF Spec, QuietAfterAbort

-----------------------------------------------------------------------------
(***************************************************************************)
(* What becomes of the samples of a run, for any number of channels, any   *)
(* schedules, and blocks and queues of any size: in a run that nobody      *)
(* stops and that returns true all of them are on the air, once and in     *)
(* whole bursts, and whatever happens no burst is broken into.             *)
(*                                                                         *)
(* The invariant follows the samples of the job at hand by their position  *)
(* in it.  What the device was given, the block in the hands of the        *)
(* TxWorker, those in the queue and those about to be pushed lie end to    *)
(* end (Chain), and every block has its burst boundaries where its         *)
(* position demands (Placed).                                              *)
(***************************************************************************)

(* The inductive invariant of the samples. *)

\* A block that starts at a position of a transmission of the given length: it
\* begins the burst exactly at the start and ends it exactly at the end.  A
\* sentinel stands where the transmission may end.
Placed(block, from, length, ends) ==
    /\ from + block.n <= length
    /\ block.n > 0 => (block.sob <=> from = 0) /\ (block.eob <=> from + block.n = length)
    /\ block.n = 0 => block = Sentinel /\ from \in ends

\* Blocks, the one after the other, from one position up to another.
Chain(blocks, from, to, length, ends) ==
    \E at \in [0 .. Len(blocks) -> 0 .. length] :
        /\ at[0] = from /\ at[Len(blocks)] = to
        /\ \A i \in 1 .. Len(blocks) : /\ Placed(blocks[i], at[i - 1], length, ends)
                                       /\ at[i] = at[i - 1] + blocks[i].n

AtRenderJob(c) == mode = "realtime" /\ TheJob(c).kind = "render"

\* How long the transmission of the job is, and where it may end: when it is
\* cut short, anywhere.
Length(c) == IF mode = "replay" THEN Scheduled(c) ELSE TheJob(c).target
Ends(c) == IF stop \/ (AtRenderJob(c) /\ render[c].failed) THEN 0 .. Length(c) ELSE {Length(c)}

\* How many of its samples were made, taken out of the queue and given to the device.
Made(c) == IF AtRenderJob(c)
           THEN render[c].rendered + IF render[c].pc = "pushed" THEN render[c].block.n ELSE 0
           ELSE main[c].off + IF feed[c].pc \in {"pushed", "ok"} THEN feed[c].block.n ELSE 0
Given(c) == IF main[c].pc \in HasTx THEN tx[c].sent ELSE 0
Holding(c) == main[c].pc \in HasTx /\ tx[c].pc \in {"popped", "send"}
Taken(c) == Given(c) + IF Holding(c) THEN tx[c].block.n ELSE 0
Spoilt(c) == main[c].pc \in HasTx /\ tx[c].failed

InJob == {"prime", "primeAsleep", "create"} \cup HasTx

\* The samples of a job are in the queue without a gap.
Queued(c) == main[c].pc \in InJob =>
    /\ Made(c) \in 0 .. Length(c)
    /\ ~Spoilt(c) => Chain(Items(c), Taken(c), Made(c), Length(c), Ends(c))

\* What the TxWorker knows, as long as it has not failed.
Sending(c) ==
    /\ Holding(c) => Placed(tx[c].block, tx[c].sent, Length(c), Ends(c))
    /\ Spoilt(c) => tx[c].pc \in {"stop", "notify", "done"}
    /\ main[c].pc \in HasTx /\ tx[c].pc \in {"stop", "notify"} => tx[c].failed
    /\ main[c].pc \in HasTx /\ ~tx[c].failed =>
          /\ tx[c].underruns = 0
          /\ tx[c].pc = "done" => tx[c].sent \in Ends(c)

\* What the RenderWorker knows.
Rendering(c) == main[c].pc \in InJob /\ AtRenderJob(c) =>
    /\ render[c].target = Length(c)
    /\ render[c].pc # "none"
    /\ render[c].pc \in {"start", "loop"} => (render[c].first <=> render[c].rendered = 0)
    /\ render[c].pc \in {"push", "pushed", "full", "asleep"} =>
          /\ Placed(render[c].block, render[c].rendered, Length(c), Ends(c))
          /\ render[c].block.n > 0 => ~render[c].first
    /\ render[c].pc \in {"complete", "finish", "done"} =>
          render[c].rendered \in Ends(c)

\* What the thread of the channel feeds.
Feeding(c) ==
    /\ feed[c].pc # "idle" => main[c].pc \in {"mixPush", "sentinel", "renderSentinel"}
    /\ feed[c].pc # "idle" /\ main[c].pc \in {"sentinel", "renderSentinel"} => feed[c].block = Sentinel
    /\ feed[c].pc \in {"push", "full", "asleep"} =>
          Placed(feed[c].block, Made(c), Length(c), Ends(c))
    /\ feed[c].pc = "stopped" => stop

\* Where the thread of the channel is, and that it learns of a failed render.
Working(c) ==
    /\ main[c].pc \in {"prime", "primeAsleep", "joinRender", "decide", "stop", "notify",
                       "renderSentinel", "move"} => AtRenderJob(c)
    /\ main[c].pc \in {"mix", "mixPush", "sentinel", "take"} => ~AtRenderJob(c)
    /\ main[c].pc \in {"decide", "stop", "notify", "renderSentinel", "move", "joinTx"}
          /\ AtRenderJob(c) /\ render[c].failed => stop \/ main[c].failed
    /\ ~IsMulti /\ ~stop /\ main[c].pc \in HasTx \ {"joinTx"} => c \in active
    /\ mode = "replay" /\ main[c].pc \in {"next", "begin"} =>
          main[c].off = 0 /\ device[c].burst = "closed"
    /\ mode = "replay" /\ main[c].pc # "ended" => ~main[c].failed

\* What the device has seen of the burst.
Burst(c) ==
    /\ device[c].burst # "broken"
    /\ main[c].pc \in {"delay", "begin", "launch"} => device[c].burst = "closed"
    /\ main[c].pc \in {"next", "ended"} /\ ~stop /\ ~main[c].failed => device[c].burst = "closed"
    /\ main[c].pc \in InJob /\ ~Spoilt(c) =>
          device[c].burst = IF Given(c) \in {0, Length(c)} THEN "closed" ELSE "open"

\* A run that may still return true.
OnCourse == run.pc \in {"called", "entering", "start", "jobs", "drain", "completing"}
            \/ (run.pc = "returned" /\ run.result)

\* What the jobs before add up to.
Base(c) == IF mode = "replay" THEN IF main[c].pc = "ended" THEN Scheduled(c) ELSE 0
           ELSE UpTo(jobs[c])[main[c].job - 1]

Accounts(c) == ~stop /\ ~main[c].failed /\ OnCourse =>
    /\ main[c].sent = Base(c) /\ main[c].underruns = 0
    /\ ~Spoilt(c) => device[c].air = Base(c) + Given(c)
    /\ main[c].pc = "ended" /\ mode = "realtime" => main[c].job = Len(jobs[c]) + 1

Outcome ==
    /\ run.result => run.pc = "returned"
    /\ run.pc \in {"drain", "completing"} \/ run.result => \A c \in Channel : main[c].pc = "ended"
    /\ run.pc = "completing" \/ run.result => \A c \in Channel : ~main[c].failed

Flow(c) == /\ Queued(c) /\ Sending(c) /\ Rendering(c) /\ Feeding(c)
           /\ Working(c) /\ Burst(c) /\ Accounts(c)

FlowInv == IInv /\ Outcome /\ \A c \in Channel : Flow(c)

-----------------------------------------------------------------------------
(* Blocks end to end. *)

LEMMA PlacedMore ==
    ASSUME NEW block, NEW from, NEW length, NEW ends, NEW more, ends \subseteq more,
           Placed(block, from, length, ends)
    PROVE  Placed(block, from, length, more)
BY DEF Placed

LEMMA ChainMore ==
    ASSUME NEW blocks, NEW from, NEW to, NEW length, NEW ends, NEW more, ends \subseteq more,
           Chain(blocks, from, to, length, ends)
    PROVE  Chain(blocks, from, to, length, more)
BY DEF Chain, Placed

LEMMA ChainNone ==
    ASSUME NEW length \in Nat, NEW from \in 0 .. length, NEW ends
    PROVE  Chain(<<>>, from, from, length, ends)
<1> DEFINE at == [i \in 0 .. 0 |-> from]
<1>1. Len(<<>>) = 0 /\ at \in [0 .. 0 -> 0 .. length] /\ at[0] = from
  OBVIOUS
<1>2. \A i \in 1 .. 0 : FALSE
  OBVIOUS
<1> HIDE DEF at
<1>3. QED
  BY <1>1, <1>2 DEF Chain

LEMMA ChainEnds ==
    ASSUME NEW blocks \in Seq(BlockType), NEW from, NEW to, NEW length \in Nat, NEW ends,
           Chain(blocks, from, to, length, ends)
    PROVE  from \in 0 .. length /\ to \in 0 .. length
BY DEF Chain

LEMMA ChainAppend ==
    ASSUME NEW blocks \in Seq(BlockType), NEW block \in BlockType, NEW from, NEW to,
           NEW length \in Nat, NEW ends,
           Chain(blocks, from, to, length, ends), Placed(block, to, length, ends)
    PROVE  Chain(Append(blocks, block), from, to + block.n, length, ends)
<1> DEFINE k == Len(blocks)
<1>1. PICK at \in [0 .. k -> 0 .. length] :
          /\ at[0] = from /\ at[k] = to
          /\ \A i \in 1 .. k : /\ Placed(blocks[i], at[i - 1], length, ends)
                               /\ at[i] = at[i - 1] + blocks[i].n
  BY DEF Chain
<1>2. /\ k \in Nat /\ to \in 0 .. length /\ block.n \in Nat /\ to + block.n \in 0 .. length
      /\ Len(Append(blocks, block)) = k + 1
      /\ \A i \in 1 .. k : Append(blocks, block)[i] = blocks[i]
      /\ Append(blocks, block)[k + 1] = block
  BY <1>1, BlockNumbers DEF Placed
<1> DEFINE next == [i \in 0 .. k + 1 |-> IF i = k + 1 THEN to + block.n ELSE at[i]]
<1>3. next \in [0 .. k + 1 -> 0 .. length] /\ next[0] = from /\ next[k + 1] = to + block.n
  BY <1>1, <1>2
<1>4. ASSUME NEW i \in 1 .. k + 1
      PROVE  /\ Placed(Append(blocks, block)[i], next[i - 1], length, ends)
             /\ next[i] = next[i - 1] + Append(blocks, block)[i].n
  <2>1. i - 1 \in 0 .. k /\ next[i - 1] = at[i - 1]
    BY <1>2
  <2>2. CASE i = k + 1
    BY <1>1, <1>2, <2>1, <2>2
  <2>3. CASE i # k + 1
    <3>1. i \in 1 .. k /\ next[i] = at[i]
      BY <1>2, <2>3
    <3>2. QED
      BY <1>1, <1>2, <2>1, <3>1
  <2>4. QED
    BY <2>2, <2>3
<1> HIDE DEF next
<1>5. QED
  BY <1>2, <1>3, <1>4 DEF Chain

LEMMA ChainTail ==
    ASSUME NEW blocks \in Seq(BlockType), blocks # <<>>, NEW from, NEW to,
           NEW length \in Nat, NEW ends, Chain(blocks, from, to, length, ends)
    PROVE  /\ Placed(Head(blocks), from, length, ends)
           /\ Chain(Tail(blocks), from + Head(blocks).n, to, length, ends)
<1> DEFINE k == Len(blocks)
<1>1. PICK at \in [0 .. k -> 0 .. length] :
          /\ at[0] = from /\ at[k] = to
          /\ \A i \in 1 .. k : /\ Placed(blocks[i], at[i - 1], length, ends)
                               /\ at[i] = at[i - 1] + blocks[i].n
  BY DEF Chain
<1>2. /\ k \in Nat /\ k > 0 /\ Head(blocks) = blocks[1] /\ Len(Tail(blocks)) = k - 1
      /\ \A i \in 1 .. k - 1 : Tail(blocks)[i] = blocks[i + 1]
  OBVIOUS
<1>3. Placed(Head(blocks), from, length, ends) /\ at[1] = from + Head(blocks).n
  BY <1>1, <1>2
<1> DEFINE next == [i \in 0 .. k - 1 |-> at[i + 1]]
<1>4. next \in [0 .. k - 1 -> 0 .. length] /\ next[0] = at[1] /\ next[k - 1] = to
  BY <1>1, <1>2
<1>5. ASSUME NEW i \in 1 .. k - 1
      PROVE  /\ Placed(Tail(blocks)[i], next[i - 1], length, ends)
             /\ next[i] = next[i - 1] + Tail(blocks)[i].n
  <2>1. i + 1 \in 1 .. k /\ i + 1 - 1 = i /\ next[i - 1] = at[i] /\ next[i] = at[i + 1]
    BY <1>2
  <2>2. QED
    BY <1>1, <1>2, <2>1
<1> HIDE DEF next
<1>6. QED
  BY <1>2, <1>3, <1>4, <1>5 DEF Chain

-----------------------------------------------------------------------------
(* What the invariants say of one channel. *)

LEMMA Modal ==
    ASSUME IInv
    PROVE  /\ mode \in {"realtime", "replay"} /\ stop \in BOOLEAN
           /\ mode' = mode => IsSingle' = IsSingle /\ IsMulti' = IsMulti /\ IsReplay' = IsReplay
BY ModesAssumption DEF IInv, ControlTypes, WorkersInv, WorkersTypeOK, IsSingle, IsMulti, IsReplay,
   OnOneChannel

\* How long a transmission is, is a number.
LEMMA LengthIsNat ==
    ASSUME IInv, NEW c \in Channel, main[c].pc \notin {"next", "ended"} \/ mode = "replay"
    PROVE  Length(c) \in Nat /\ Length(c) \in Ends(c) /\ Ends(c) \subseteq 0 .. Length(c)
<1>1. Length(c) \in Nat
  <2>1. CASE mode = "replay"
    BY <2>1, Here, TotalIsNat DEF Length, Scheduled
  <2>2. CASE mode = "realtime"
    BY <2>2, Here, JobAtHand DEF Length
  <2>3. QED
    BY <2>1, <2>2, Modal
<1>2. QED
  BY <1>1 DEF Ends

\* The parts of the state, with their types.
LEMMA Parts ==
    ASSUME IInv, NEW c \in Channel
    PROVE  /\ Items(c) \in Seq(BlockType)
           /\ render[c] \in RenderType /\ render[c].block \in BlockType
           /\ render[c].rendered \in Nat /\ render[c].target \in Nat
           /\ render[c].rendered <= render[c].target /\ render[c].block.n \in Nat
           /\ render[c].failed \in BOOLEAN /\ render[c].first \in BOOLEAN
           /\ tx[c] \in TxType /\ tx[c].block \in BlockType /\ tx[c].block.n \in Nat
           /\ tx[c].sent \in Nat /\ tx[c].failed \in BOOLEAN /\ tx[c].underruns \in Nat
           /\ feed[c] \in FeedType /\ feed[c].block \in BlockType /\ feed[c].block.n \in Nat
           /\ device[c] \in DeviceType /\ device[c].air \in Nat
           /\ main[c] \in MainType /\ main[c].off \in Nat /\ main[c].sent \in Nat
           /\ main[c].underruns \in Nat /\ main[c].failed \in BOOLEAN
<1>1. /\ queue[c] \in QueueType /\ render[c] \in RenderType /\ tx[c] \in TxType
      /\ feed[c] \in FeedType /\ device[c] \in DeviceType /\ main[c] \in MainType
  BY Here
<1>2. Items(c) \in Seq(BlockType)
  BY <1>1 DEF Items, QueueType
<1>3. render[c].rendered <= render[c].target
  BY DEF IInv, WorkersInv, WorkersTypeOK, RenderTypeOK
<1>4. QED
  BY <1>1, <1>2, <1>3, BlockNumbers DEF RenderType, TxType, FeedType, DeviceType, MainType

\* While the job stays and nothing is taken back, the transmission may only end
\* at more positions.
LEMMA EndsGrow ==
    ASSUME IInv, IInv', NEW c \in Channel, main[c].pc \in InJob,
           UNCHANGED <<jobs, mode, bound>>, main'[c].job = main[c].job, stop => stop',
           AtRenderJob(c) /\ render[c].failed => render'[c].failed
    PROVE  /\ Length(c)' = Length(c) /\ Length(c) \in Nat
           /\ AtRenderJob(c)' = AtRenderJob(c) /\ TheJob(c)' = TheJob(c)
           /\ Ends(c) \subseteq Ends(c)' /\ Ends(c)' \subseteq 0 .. Length(c)
           /\ Length(c) \in Ends(c) /\ Ends(c) \subseteq 0 .. Length(c)
<1>1. TheJob(c)' = TheJob(c) /\ Scheduled(c)' = Scheduled(c)
  BY DEF TheJob, Scheduled
<1>2. AtRenderJob(c)' = AtRenderJob(c) /\ Length(c)' = Length(c)
  BY <1>1 DEF AtRenderJob, Length
<1>3. Length(c) \in Nat /\ Length(c) \in Ends(c) /\ Ends(c) \subseteq 0 .. Length(c)
  BY LengthIsNat DEF InJob, HasTx
<1>4. QED
  BY <1>1, <1>2, <1>3 DEF Ends

-----------------------------------------------------------------------------
(* Steps that leave the samples of a channel where they are. *)

\* Within a job: the thread goes on, and what it and the TxWorker know is known.
LEMMA Within ==
    ASSUME IInv, IInv', NEW c \in Channel, Flow(c), main[c].pc \in InJob, main'[c].pc \in InJob,
           UNCHANGED <<jobs, mode, bound>>, stop => stop', OnCourse' => OnCourse,
           main'[c].job = main[c].job, main'[c].sent = main[c].sent,
           main'[c].underruns = main[c].underruns, main[c].failed => main'[c].failed,
           render'[c] = render[c], Items(c)' = Items(c), Made(c)' = Made(c),
           Given(c)' = Given(c), Taken(c)' = Taken(c), Spoilt(c)' = Spoilt(c),
           device'[c].air = device[c].air, device'[c].burst = device[c].burst,
           Sending(c)', Feeding(c)', Working(c)'
    PROVE  Flow(c)'
<1>1. /\ Length(c)' = Length(c) /\ Length(c) \in Nat /\ AtRenderJob(c)' = AtRenderJob(c)
      /\ Ends(c) \subseteq Ends(c)'
  BY EndsGrow
<1>2. main[c].pc \notin {"next", "ended", "delay", "begin", "launch"}
      /\ main'[c].pc \notin {"next", "ended", "delay", "begin", "launch"}
  BY DEF InJob, HasTx
<1>3. Queued(c)'
  <2>1. Made(c) \in 0 .. Length(c) /\ (~Spoilt(c) => Chain(Items(c), Taken(c), Made(c), Length(c), Ends(c)))
    BY DEF Flow, Queued
  <2>2. ~Spoilt(c) => Chain(Items(c), Taken(c), Made(c), Length(c), Ends(c)')
    BY <1>1, <2>1, ChainMore
  <2>3. QED
    BY <1>1, <2>1, <2>2 DEF Queued
<1>4. Rendering(c)'
  <2>1. AtRenderJob(c) => render[c].rendered \in Nat
    BY Parts
  <2>2. QED
    BY <1>1, PlacedMore DEF Flow, Rendering
<1>5. Burst(c)'
  BY <1>1, <1>2 DEF Flow, Burst
<1>6. Accounts(c)'
  <2>1. Base(c)' = Base(c)
    BY <1>2 DEF Base
  <2>2. QED
    BY <1>2, <2>1 DEF Flow, Accounts
<1>7. QED
  BY <1>3, <1>4, <1>5, <1>6 DEF Flow

\* Steps of other threads.
LEMMA Untouched ==
    ASSUME IInv, IInv', NEW c \in Channel, Flow(c),
           UNCHANGED <<jobs, mode, bound>>, stop => stop', OnCourse' => OnCourse,
           main'[c] = main[c], render'[c] = render[c], tx'[c] = tx[c], feed'[c] = feed[c],
           Items(c)' = Items(c),
           device'[c].air = device[c].air, device'[c].burst = device[c].burst,
           ~stop' /\ ~IsMulti /\ c \in active => c \in active'
    PROVE  Flow(c)'
<1>1. /\ Given(c)' = Given(c) /\ Holding(c)' = Holding(c) /\ Spoilt(c)' = Spoilt(c)
      /\ AtRenderJob(c)' = AtRenderJob(c)
  BY DEF Given, Holding, Spoilt, AtRenderJob, TheJob
<1>2. Taken(c)' = Taken(c) /\ Made(c)' = Made(c)
  BY <1>1 DEF Taken, Made
<1>3. main[c].pc \in InJob => /\ Length(c)' = Length(c) /\ Ends(c) \subseteq Ends(c)'
  BY EndsGrow
<1>4. HasTx \subseteq InJob
  BY DEF InJob
<1>5. Sending(c)'
  <2>1. Holding(c) => main[c].pc \in InJob
    BY <1>4 DEF Holding
  <2>2. Holding(c) => Placed(tx[c].block, tx[c].sent, Length(c), Ends(c)')
    BY <1>3, <2>1, PlacedMore DEF Flow, Sending
  <2>3. QED
    BY <1>1, <1>3, <1>4, <2>1, <2>2 DEF Flow, Sending
<1>6. Feeding(c)'
  <2>1. feed[c].pc # "idle" => main[c].pc \in InJob
    BY DEF Flow, Feeding, InJob, HasTx
  <2>2. feed[c].pc \in {"push", "full", "asleep"} => Placed(feed[c].block, Made(c), Length(c), Ends(c)')
    BY <1>3, <2>1, PlacedMore DEF Flow, Feeding
  <2>3. QED
    BY <1>2, <1>3, <2>1, <2>2 DEF Flow, Feeding
<1>7. Working(c)'
  BY <1>1, Modal DEF Flow, Working
<1>8. CASE main[c].pc \in InJob
  BY <1>1, <1>2, <1>5, <1>6, <1>7, <1>8, Within
<1>9. CASE main[c].pc \notin InJob
  <2>1. Queued(c)' /\ Rendering(c)'
    BY <1>9 DEF Queued, Rendering
  <2>2. Burst(c)'
    BY <1>9 DEF Flow, Burst
  <2>3. Accounts(c)'
    <3>1. Base(c)' = Base(c)
      BY DEF Base, Scheduled
    <3>2. QED
      BY <1>1, <3>1 DEF Flow, Accounts
  <2>4. QED
    BY <1>5, <1>6, <1>7, <2>1, <2>2, <2>3 DEF Flow
<1>10. QED
  BY <1>8, <1>9

-----------------------------------------------------------------------------
(* The steps of a RenderWorker. *)

\* It runs while nothing else fills the queue, at a render job.
LEMMA RenderBeside ==
    ASSUME IInv, NEW c \in Channel, Flow(c), render[c].pc \notin Gone
    PROVE  /\ main[c].pc \in {"prime", "primeAsleep", "create", "joinRender"}
           /\ main[c].pc \in InJob /\ AtRenderJob(c) /\ feed[c].pc = "idle"
<1>1. main[c].pc \in {"prime", "primeAsleep", "create", "joinRender"} /\ AtRenderJob(c)
  BY Here DEF Owned, AtRenderJob
<1>2. QED
  BY <1>1 DEF Flow, Feeding, InJob, HasTx

\* What is left to show for one of its steps.
LEMMA RenderKeeps ==
    ASSUME IInv, IInv', NEW c \in Channel, Flow(c), RenderStep(c),
           UNCHANGED <<jobVars, controlVars, mode, bound>>,
           render[c].failed => render'[c].failed,
           Rendering(c)', Queued(c)'
    PROVE  Flow(c)'
<1>1. /\ UNCHANGED <<stop, tx, device, feed, main, jobs, run, active>> /\ render[c].pc \notin Gone
  BY RenderEffect DEF jobVars, controlVars
<1>2. /\ main[c].pc \in {"prime", "primeAsleep", "create", "joinRender"}
      /\ main[c].pc \in InJob /\ AtRenderJob(c) /\ feed[c].pc = "idle"
  BY <1>1, RenderBeside
<1>3. /\ Length(c)' = Length(c) /\ AtRenderJob(c)' = AtRenderJob(c) /\ Ends(c) \subseteq Ends(c)'
  BY <1>1, <1>2, EndsGrow
<1>4. Given(c)' = Given(c) /\ Holding(c)' = Holding(c) /\ Spoilt(c)' = Spoilt(c) /\ OnCourse' = OnCourse
  BY <1>1 DEF Given, Holding, Spoilt, OnCourse
<1>5. Sending(c)'
  BY <1>1, <1>3, <1>4, PlacedMore DEF Flow, Sending
<1>6. Feeding(c)' /\ Working(c)'
  BY <1>1, <1>2, <1>3, Modal DEF Flow, Feeding, Working
<1>7. Burst(c)'
  BY <1>1, <1>3, <1>4 DEF Flow, Burst
<1>8. Accounts(c)'
  <2>1. Base(c)' = Base(c)
    BY <1>1 DEF Base, Scheduled
  <2>2. QED
    BY <1>1, <1>4, <2>1 DEF Flow, Accounts
<1>9. QED
  BY <1>5, <1>6, <1>7, <1>8 DEF Flow

\* As long as it makes no more samples, the queue is as it should be.
LEMMA RenderStays ==
    ASSUME IInv, IInv', NEW c \in Channel, Flow(c), RenderStep(c),
           UNCHANGED <<jobVars, controlVars, mode, bound>>,
           render[c].failed => render'[c].failed, Items(c)' = Items(c), Made(c)' = Made(c)
    PROVE  Queued(c)'
<1>1. /\ UNCHANGED <<stop, tx, main, jobs>> /\ render[c].pc \notin Gone
  BY RenderEffect DEF jobVars, controlVars
<1>2. main[c].pc \in InJob
  BY <1>1, RenderBeside
<1>3. /\ Length(c)' = Length(c) /\ Ends(c) \subseteq Ends(c)'
  BY <1>1, <1>2, EndsGrow
<1>4. Taken(c)' = Taken(c) /\ Spoilt(c)' = Spoilt(c)
  BY <1>1 DEF Taken, Given, Holding, Spoilt
<1>5. Made(c) \in 0 .. Length(c) /\ (~Spoilt(c) => Chain(Items(c), Taken(c), Made(c), Length(c), Ends(c)))
  BY <1>2 DEF Flow, Queued
<1>6. ~Spoilt(c) => Chain(Items(c), Taken(c), Made(c), Length(c), Ends(c)')
  BY <1>3, <1>5, ChainMore
<1>7. QED
  BY <1>3, <1>4, <1>5, <1>6 DEF Queued

LEMMA RenderFlow ==
    ASSUME IInv, IInv', NEW c \in Channel, Flow(c), RenderStep(c),
           UNCHANGED <<jobVars, controlVars, mode, bound>>
    PROVE  Flow(c)'
<1> DEFINE r == render[c]
<1>1. /\ UNCHANGED <<stop, tx, device, feed, main, jobs>> /\ r.pc \notin Gone
  BY RenderEffect DEF jobVars, controlVars
<1>2. main[c].pc \in InJob /\ AtRenderJob(c) /\ feed[c].pc = "idle"
  BY <1>1, RenderBeside
<1>3. /\ render \in [Channel -> RenderType] /\ queue \in [Channel -> QueueType]
      /\ r \in RenderType /\ r.block \in BlockType /\ r.rendered \in Nat /\ r.target \in Nat
      /\ r.rendered <= r.target /\ r.failed \in BOOLEAN /\ r.first \in BOOLEAN /\ stop \in BOOLEAN
      /\ r.block.n \in Nat /\ Items(c) \in Seq(BlockType)
  BY Here, Parts, Modal
<1>4. /\ r.target = Length(c) /\ r.pc # "none"
      /\ r.pc \in {"start", "loop"} => (r.first <=> r.rendered = 0)
      /\ r.pc \in {"push", "pushed", "full", "asleep"} =>
            Placed(r.block, r.rendered, Length(c), Ends(c)) /\ (r.block.n > 0 => ~r.first)
      /\ r.pc \in {"complete", "finish", "done"} => r.rendered \in Ends(c)
  BY <1>2 DEF Flow, Rendering
<1>5. ASSUME r.failed => render'[c].failed
      PROVE  /\ Length(c)' = Length(c) /\ Length(c) \in Nat /\ AtRenderJob(c)'
             /\ Ends(c) \subseteq Ends(c)' /\ Length(c) \in Ends(c)'
             /\ stop \/ render'[c].failed => Ends(c)' = 0 .. Length(c)
  <2>1. /\ Length(c)' = Length(c) /\ Length(c) \in Nat /\ AtRenderJob(c)'
        /\ Ends(c) \subseteq Ends(c)' /\ Length(c) \in Ends(c)
    BY <1>1, <1>2, <1>5, EndsGrow
  <2>2. QED
    BY <1>1, <2>1 DEF Ends
<1>6. Made(c) = r.rendered + IF r.pc = "pushed" THEN r.block.n ELSE 0
  BY <1>2 DEF Made
<1>7. AtRenderJob(c)' => Made(c)' = render'[c].rendered + IF render'[c].pc = "pushed" THEN render'[c].block.n ELSE 0
  BY DEF Made
\* A step that makes no samples and leaves the block alone.
<1>8. ASSUME r.failed => render'[c].failed, Items(c)' = Items(c), r.pc # "pushed",
             render'[c].pc # "pushed", render'[c].rendered = r.rendered, Rendering(c)'
      PROVE  Flow(c)'
  <2>1. Made(c)' = Made(c)
    BY <1>5, <1>6, <1>7, <1>8
  <2>2. QED
    BY <1>8, <2>1, RenderKeeps, RenderStays
<1>9. Items(c)' = Items(c) \/ RenderPush(c)
  <2>1. WakeNotEmpty(c) \/ NotifyAll(c) \/ SleepNotFull(c, "render") \/ UNCHANGED queue \/ RenderPush(c)
    BY DEF RenderStep, RenderStart, RenderLoop, RenderPushed, RenderWait, RenderAwake,
           RenderAfter, RenderComplete, RenderFinish
  <2>2. QED
    BY <1>3, <2>1 DEF WakeNotEmpty, NotifyAll, SleepNotFull, Items, QueueType
<1>10. ASSUME RenderFail(c), ~RenderPush(c), r.pc # "pushed" PROVE Flow(c)'
  <2>1. /\ render'[c].failed /\ render'[c].pc = "complete" /\ render'[c].rendered = r.rendered
        /\ render'[c].target = r.target
    BY <1>3, <1>10 DEF RenderFail, RenderType
  <2>2. r.rendered \in Ends(c)'
    BY <1>3, <1>4, <1>5, <2>1
  <2>3. Rendering(c)'
    BY <1>4, <1>5, <2>1, <2>2 DEF Rendering
  <2>4. QED
    BY <1>8, <1>9, <1>10, <2>1, <2>3
<1>11. CASE RenderStart(c)
  <2>1. CASE RenderGoto(c, "loop")
    <3>1. /\ render'[c].failed = r.failed /\ render'[c].pc = "loop" /\ render'[c].rendered = r.rendered
          /\ render'[c].target = r.target /\ render'[c].first = r.first /\ r.pc = "start"
      BY <1>3, <1>11, <2>1 DEF RenderStart, RenderGoto, RenderType
    <3>2. Rendering(c)'
      BY <1>4, <1>5, <3>1 DEF Rendering
    <3>3. QED
      BY <1>8, <1>9, <3>1, <3>2 DEF RenderPush
  <2>2. QED
    BY <1>10, <1>11, <2>1 DEF RenderStart, RenderPush
<1>12. CASE RenderLoop(c)
  <2>1. r.pc = "loop" /\ UNCHANGED queue
    BY <1>12 DEF RenderLoop
  <2>2. CASE RenderGoto(c, "after")
    <3>1. /\ render'[c].failed = r.failed /\ render'[c].pc = "after" /\ render'[c].rendered = r.rendered
          /\ render'[c].target = r.target
      BY <1>3, <2>2 DEF RenderGoto, RenderType
    <3>2. Rendering(c)'
      BY <1>4, <1>5, <3>1 DEF Rendering
    <3>3. QED
      BY <1>8, <1>9, <2>1, <3>1, <3>2 DEF RenderPush
  <2>3. ASSUME NEW n \in 1 .. Least(r.target - r.rendered, BlockSize), r.target - r.rendered > 0,
               render' = [render EXCEPT ![c].block = Block(n, r.first, n = r.target - r.rendered),
                                        ![c].first = FALSE, ![c].pc = "push"]
        PROVE  Flow(c)'
    <3> DEFINE b == Block(n, r.first, n = r.target - r.rendered)
    <3>1. /\ n \in Nat /\ n > 0 /\ n <= r.target - r.rendered
      BY <1>3, <2>3, WorkersAssumption DEF Least
    <3>2. b.n = n /\ (b.sob <=> r.first) /\ (b.eob <=> n = r.target - r.rendered)
      BY DEF Block
    <3>3. /\ render'[c].failed = r.failed /\ render'[c].pc = "push" /\ render'[c].rendered = r.rendered
          /\ render'[c].target = r.target /\ render'[c].block = b /\ ~render'[c].first
      BY <1>3, <2>3 DEF RenderType
    <3> HIDE DEF b
    <3>4. Placed(b, r.rendered, Length(c), Ends(c)')
      <4>1. (b.sob <=> r.rendered = 0) /\ (b.eob <=> r.rendered + b.n = r.target)
        BY <1>3, <1>4, <2>1, <3>1, <3>2
      <4>2. b.n > 0 /\ b.n # 0 /\ r.rendered + b.n <= r.target
        BY <1>3, <3>1, <3>2
      <4>3. QED
        BY <1>4, <4>1, <4>2 DEF Placed
    <3>5. Rendering(c)'
      BY <1>4, <1>5, <3>3, <3>4 DEF Rendering
    <3>6. QED
      BY <1>8, <1>9, <2>1, <3>3, <3>5 DEF RenderPush
  <2>4. QED
    BY <1>10, <1>12, <2>1, <2>2, <2>3 DEF RenderLoop, RenderPush
<1>13. CASE RenderPush(c)
  <2>1. r.pc = "push"
    BY <1>13 DEF RenderPush
  <2>2. CASE PushItem(c, r.block) /\ RenderGoto(c, "pushed")
    <3>1. /\ render'[c].failed = r.failed /\ render'[c].pc = "pushed" /\ render'[c].rendered = r.rendered
          /\ render'[c].target = r.target /\ render'[c].block = r.block /\ render'[c].first = r.first
          /\ Items(c)' = Append(Items(c), r.block)
      BY <1>3, <2>2 DEF RenderGoto, RenderType, PushItem, Items, QueueType
    <3>2. Rendering(c)'
      BY <1>4, <1>5, <2>1, <3>1, PlacedMore DEF Rendering
    <3>3. Queued(c)'
      <4>1. /\ Made(c) = r.rendered /\ Made(c)' = r.rendered + r.block.n
            /\ Placed(r.block, r.rendered, Length(c), Ends(c))
        BY <1>3, <1>4, <1>5, <1>6, <1>7, <2>1, <3>1
      <4>2. Made(c)' \in 0 .. Length(c)
        BY <1>3, <1>5, <3>1, <4>1 DEF Placed
      <4>3. Taken(c)' = Taken(c) /\ Spoilt(c)' = Spoilt(c)
        BY <1>1 DEF Taken, Given, Holding, Spoilt
      <4>4. ~Spoilt(c) => Chain(Items(c), Taken(c), r.rendered, Length(c), Ends(c))
        BY <1>2, <4>1 DEF Flow, Queued
      <4>5. ~Spoilt(c) => Chain(Items(c)', Taken(c), r.rendered + r.block.n, Length(c), Ends(c))
        BY <1>3, <1>5, <3>1, <4>1, <4>4, ChainAppend
      <4>6. ~Spoilt(c) => Chain(Items(c)', Taken(c), r.rendered + r.block.n, Length(c), Ends(c)')
        BY <1>5, <3>1, <4>5, ChainMore
      <4>7. QED
        BY <1>5, <3>1, <4>1, <4>2, <4>3, <4>6 DEF Queued
    <3>4. QED
      BY <3>1, <3>2, <3>3, RenderKeeps
  <2>3. CASE RenderGoto(c, "full") /\ UNCHANGED queue
    <3>1. /\ render'[c].failed = r.failed /\ render'[c].pc = "full" /\ render'[c].rendered = r.rendered
          /\ render'[c].target = r.target /\ render'[c].block = r.block /\ render'[c].first = r.first
          /\ Items(c)' = Items(c)
      BY <1>3, <2>3 DEF RenderGoto, RenderType, Items
    <3>2. Rendering(c)'
      BY <1>4, <1>5, <2>1, <3>1, PlacedMore DEF Rendering
    <3>3. QED
      BY <1>8, <2>1, <3>1, <3>2
  <2>4. QED
    BY <1>13, <2>2, <2>3 DEF RenderPush
<1>14. CASE RenderPushed(c)
  <2>1. /\ r.pc = "pushed" /\ render'[c].failed = r.failed
        /\ render'[c].pc = IF r.block = Sentinel THEN "complete" ELSE "loop"
        /\ render'[c].rendered = r.rendered + r.block.n
        /\ render'[c].target = r.target /\ render'[c].first = r.first
    BY <1>3, <1>14 DEF RenderPushed, RenderType
  <2>2. Placed(r.block, r.rendered, Length(c), Ends(c)')
    BY <1>4, <1>5, <2>1, PlacedMore
  <2>3. r.block = Sentinel => r.block.n = 0 /\ r.rendered + r.block.n \in Ends(c)'
    BY <1>3, <2>2, BlockFacts DEF Placed
  <2>4. r.block # Sentinel => r.block.n > 0 /\ ~r.first /\ r.rendered + r.block.n # 0
    BY <1>3, <1>4, <2>1, <2>2 DEF Placed
  <2>5. Rendering(c)'
    BY <1>4, <1>5, <2>1, <2>3, <2>4 DEF Rendering
  <2>6. Made(c)' = Made(c) /\ Items(c)' = Items(c)
    BY <1>3, <1>5, <1>6, <1>7, <1>9, <2>1 DEF RenderPush
  <2>7. QED
    BY <2>1, <2>5, <2>6, RenderKeeps, RenderStays
<1>15. CASE RenderWait(c) \/ RenderAwake(c)
  <2>1. /\ r.pc \in {"full", "asleep"} /\ render'[c].failed = r.failed
        /\ render'[c].pc \in {"push", "asleep", "after", "complete"}
        /\ render'[c].pc = "complete" => stop
        /\ render'[c].rendered = r.rendered
        /\ render'[c].target = r.target /\ render'[c].block = r.block /\ render'[c].first = r.first
    BY <1>3, <1>15 DEF RenderWait, RenderAwake, RenderGoto, RenderType
  <2>2. Rendering(c)'
    BY <1>3, <1>4, <1>5, <2>1, PlacedMore DEF Rendering
  <2>3. QED
    BY <1>8, <1>9, <2>1, <2>2 DEF RenderPush
<1>16. CASE RenderAfter(c)
  <2> DEFINE short == ~stop /\ r.rendered < r.target
  <2>1. /\ r.pc = "after" /\ (render'[c].failed <=> r.failed \/ short)
        /\ render'[c].pc = IF short /\ ~r.first THEN "push" ELSE "complete"
        /\ render'[c].rendered = r.rendered
        /\ render'[c].target = r.target /\ render'[c].block = Sentinel
    BY <1>3, <1>16 DEF RenderAfter, RenderType
  <2>2. r.rendered \in Ends(c)'
    BY <1>3, <1>4, <1>5, <2>1
  <2>3. Placed(Sentinel, r.rendered, Length(c), Ends(c)')
    BY <1>3, <1>4, <2>2, BlockFacts DEF Placed
  <2>4. Rendering(c)'
    BY <1>4, <1>5, <2>1, <2>2, <2>3, BlockFacts DEF Rendering
  <2>5. QED
    BY <1>8, <1>9, <2>1, <2>4 DEF RenderPush
<1>17. CASE RenderComplete(c) \/ RenderFinish(c)
  <2>1. /\ r.pc \in {"complete", "finish"} /\ render'[c].failed = r.failed
        /\ render'[c].pc \in {"finish", "done"} /\ render'[c].rendered = r.rendered
        /\ render'[c].target = r.target
    BY <1>3, <1>17 DEF RenderComplete, RenderFinish, RenderGoto, RenderType
  <2>2. Rendering(c)'
    BY <1>4, <1>5, <2>1 DEF Rendering
  <2>3. QED
    BY <1>8, <1>9, <2>1, <2>2 DEF RenderPush
<1>18. QED
  BY <1>11, <1>12, <1>13, <1>14, <1>15, <1>16, <1>17 DEF RenderStep

-----------------------------------------------------------------------------
(* The steps of a TxWorker. *)

\* A failure is not taken back.
LEMMA TxStaysSpoilt ==
    ASSUME IInv, NEW c \in Channel, TxStep(c), UNCHANGED main
    PROVE  Spoilt(c) => Spoilt(c)'
<1>1. tx \in [Channel -> TxType] /\ tx[c].failed \in BOOLEAN
  BY Here, Parts
<1>2. tx[c].failed => tx'[c].failed
  <2>1. CASE TxPop(c) \/ TxPopped(c) \/ TxWait(c) \/ TxAwake(c)
    BY <1>1, <2>1 DEF TxPop, TxPopped, TxWait, TxAwake, TxGoto, TxType
  <2>2. CASE TxSkip(c) \/ TxThrow(c) \/ TxStop(c) \/ TxNotify(c)
    BY <1>1, <2>2 DEF TxSkip, TxThrow, TxStop, TxNotify, TxGoto, TxType
  <2>3. ASSUME NEW n \in 0 .. BlockSize, TxSend(c, n) PROVE tx[c].failed => tx'[c].failed
    BY <1>1, <2>3 DEF TxSend, TxType
  <2>4. QED
    BY <2>1, <2>2, <2>3 DEF TxStep
<1>3. QED
  BY <1>2 DEF Spoilt

\* What is left to show for one of its steps.
LEMMA TxKeeps ==
    ASSUME IInv, IInv', NEW c \in Channel, Flow(c), TxStep(c),
           UNCHANGED <<jobVars, controlVars, mode, bound>>,
           Queued(c)', Sending(c)', Burst(c)',
           ~stop' => (~Spoilt(c)' => device'[c].air + Given(c) = device[c].air + Given(c)')
    PROVE  Flow(c)'
<1>1. /\ UNCHANGED <<render, feed, main, jobs, run, active>> /\ (stop => stop')
      /\ tx[c].pc \notin Gone
  BY TxEffect DEF jobVars, controlVars
<1>2. main[c].pc \in HasTx /\ main[c].pc \in InJob
  BY <1>1, Here DEF Owned, InJob
<1>3. /\ Length(c)' = Length(c) /\ AtRenderJob(c)' = AtRenderJob(c) /\ Ends(c) \subseteq Ends(c)'
  BY <1>1, <1>2, EndsGrow
<1>4. Made(c)' = Made(c) /\ OnCourse' = OnCourse
  BY <1>1, <1>3 DEF Made, OnCourse
<1>5. Rendering(c)'
  BY <1>1, <1>3, PlacedMore DEF Flow, Rendering
<1>6. Feeding(c)'
  BY <1>1, <1>3, <1>4, PlacedMore DEF Flow, Feeding
<1>7. Working(c)'
  <2>1. main[c].pc \notin {"next", "begin"}
    BY <1>2 DEF HasTx
  <2>2. QED
    BY <1>1, <1>3, <2>1, Modal DEF Flow, Working
<1>8. Accounts(c)'
  <2>1. Base(c)' = Base(c)
    BY <1>1 DEF Base, Scheduled
  <2>2. ASSUME ~stop', ~main[c].failed, OnCourse, ~Spoilt(c)'
        PROVE  device'[c].air = Base(c) + Given(c)'
    <3>1. ~Spoilt(c)
      BY <1>1, <2>2, TxStaysSpoilt
    <3>2. device[c].air = Base(c) + Given(c) /\ main[c].sent = Base(c)
      BY <1>1, <2>2, <3>1 DEF Flow, Accounts
    <3>3. Base(c) \in Nat /\ Given(c) \in Nat /\ Given(c)' \in Nat /\ device'[c].air \in Nat
      <4>1. tx' \in [Channel -> TxType] /\ device' \in [Channel -> DeviceType]
        BY DEF IInv, WorkersInv, WorkersTypeOK
      <4>2. tx'[c].sent \in Nat /\ device'[c].air \in Nat
        BY <4>1 DEF TxType, DeviceType
      <4>3. QED
        BY <3>2, <1>1, <1>2, <4>2, Parts DEF Given
    <3>4. QED
      BY <2>2, <3>2, <3>3
  <2>3. QED
    BY <1>1, <1>2, <1>4, <2>1, <2>2 DEF Flow, Accounts
<1>9. QED
  BY <1>5, <1>6, <1>7, <1>8 DEF Flow

\* As long as it takes no samples out of the queue and gives none to the device.
LEMMA TxStays ==
    ASSUME IInv, IInv', NEW c \in Channel, Flow(c), TxStep(c),
           UNCHANGED <<jobVars, controlVars, mode, bound, device>>, UNCHANGED Items(c),
           tx'[c].sent = tx[c].sent, ~Spoilt(c)' => Taken(c)' = Taken(c), Sending(c)'
    PROVE  Flow(c)'
<1>1. /\ UNCHANGED <<render, feed, main, jobs, run, active>> /\ (stop => stop')
      /\ tx[c].pc \notin Gone
  BY TxEffect DEF jobVars, controlVars
<1>2. main[c].pc \in HasTx /\ main[c].pc \in InJob
  BY <1>1, Here DEF Owned, InJob
<1>3. /\ Length(c)' = Length(c) /\ AtRenderJob(c)' = AtRenderJob(c) /\ Ends(c) \subseteq Ends(c)'
  BY <1>1, <1>2, EndsGrow
<1>4. Made(c)' = Made(c) /\ Given(c)' = Given(c) /\ (Spoilt(c) => Spoilt(c)')
  BY <1>1, <1>3, TxStaysSpoilt DEF Made, Given
<1>5. Queued(c)'
  <2>1. Made(c) \in 0 .. Length(c) /\ (~Spoilt(c) => Chain(Items(c), Taken(c), Made(c), Length(c), Ends(c)))
    BY <1>2 DEF Flow, Queued
  <2>2. ~Spoilt(c) => Chain(Items(c), Taken(c), Made(c), Length(c), Ends(c)')
    BY <1>3, <2>1, ChainMore
  <2>3. QED
    BY <1>3, <1>4, <2>1, <2>2 DEF Queued
<1>6. Burst(c)'
  BY <1>1, <1>2, <1>3, <1>4 DEF Flow, Burst, HasTx
<1>7. QED
  BY <1>4, <1>5, <1>6, TxKeeps

LEMMA TxFlow ==
    ASSUME IInv, IInv', NEW c \in Channel, Flow(c), TxStep(c),
           UNCHANGED <<jobVars, controlVars, mode, bound>>
    PROVE  Flow(c)'
<1> DEFINE t == tx[c]
<1>1. /\ UNCHANGED <<render, feed, main, jobs>> /\ (stop => stop') /\ t.pc \notin Gone
  BY TxEffect DEF jobVars, controlVars
<1>2. main[c].pc \in HasTx /\ main[c].pc \in InJob
  BY <1>1, Here DEF Owned, InJob
<1>3. /\ tx \in [Channel -> TxType] /\ queue \in [Channel -> QueueType]
      /\ device \in [Channel -> DeviceType] /\ device[c].air \in Nat
      /\ t \in TxType /\ t.block \in BlockType /\ t.block.n \in Nat /\ t.sent \in Nat
      /\ t.underruns \in Nat /\ t.failed \in BOOLEAN /\ Items(c) \in Seq(BlockType)
      /\ stop \in BOOLEAN
  BY Here, Parts, Modal
<1>4. /\ Length(c)' = Length(c) /\ Length(c) \in Nat /\ AtRenderJob(c)' = AtRenderJob(c)
      /\ Ends(c) \subseteq Ends(c)' /\ Length(c) \in Ends(c) /\ Length(c) \in Ends(c)'
      /\ stop => Ends(c) = 0 .. Length(c)
  <2>1. /\ Length(c)' = Length(c) /\ Length(c) \in Nat /\ AtRenderJob(c)' = AtRenderJob(c)
        /\ Ends(c) \subseteq Ends(c)' /\ Length(c) \in Ends(c)
    BY <1>1, <1>2, EndsGrow
  <2>2. QED
    BY <2>1 DEF Ends
\* What is known before, of a worker that has not failed or has a block.
<1>5. /\ Spoilt(c) <=> t.failed
      /\ Given(c) = t.sent /\ (Holding(c) <=> t.pc \in {"popped", "send"})
      /\ Taken(c) = t.sent + IF t.pc \in {"popped", "send"} THEN t.block.n ELSE 0
      /\ Spoilt(c)' <=> tx'[c].failed
      /\ Given(c)' = tx'[c].sent /\ (Holding(c)' <=> tx'[c].pc \in {"popped", "send"})
      /\ Taken(c)' = tx'[c].sent + IF tx'[c].pc \in {"popped", "send"} THEN tx'[c].block.n ELSE 0
      /\ Made(c)' = Made(c)
  BY <1>1, <1>2, <1>4 DEF Spoilt, Given, Holding, Taken, Made
<1>6. /\ t.pc \in {"popped", "send"} => Placed(t.block, t.sent, Length(c), Ends(c))
      /\ t.failed => t.pc \in {"stop", "notify", "done"}
      /\ t.pc \in {"stop", "notify"} => t.failed
      /\ ~t.failed => t.underruns = 0
  BY <1>2, <1>5 DEF Flow, Sending
<1>7. Made(c) \in 0 .. Length(c) /\ (~t.failed => Chain(Items(c), Taken(c), Made(c), Length(c), Ends(c)))
  BY <1>2, <1>5 DEF Flow, Queued
\* Steps that change nothing but where it is.
<1>8. ASSUME NEW step, TxGoto(c, step), UNCHANGED device, Items(c)' = Items(c),
             t.pc \in {"popped", "send"} <=> step \in {"popped", "send"},
             t.failed => step \in {"stop", "notify", "done"},
             step \in {"stop", "notify"} => t.failed,
             step = "done" /\ ~t.failed => t.sent \in Ends(c)
      PROVE  Flow(c)'
  <2>1. /\ tx'[c].pc = step /\ tx'[c].sent = t.sent /\ tx'[c].block = t.block
        /\ tx'[c].failed = t.failed /\ tx'[c].underruns = t.underruns
    BY <1>3, <1>8 DEF TxGoto, TxType
  <2>2. Sending(c)'
    BY <1>1, <1>2, <1>4, <1>5, <1>6, <1>8, <2>1, PlacedMore DEF Sending
  <2>3. QED
    BY <1>5, <1>8, <2>1, <2>2, TxStays
<1>9. ASSUME TxPop(c) PROVE Flow(c)'
  <2>1. t.pc = "pop" /\ ~t.failed /\ UNCHANGED <<stop, device>>
    BY <1>6, <1>9 DEF TxPop
  <2>2. CASE Items(c) = <<>> /\ TxGoto(c, "empty") /\ UNCHANGED queue
    BY <1>8, <2>1, <2>2 DEF Items
  <2>3. CASE PopItem(c) /\ tx' = [tx EXCEPT ![c].block = Head(Items(c)), ![c].pc = "popped"]
    <3>1. /\ tx'[c].pc = "popped" /\ tx'[c].sent = t.sent /\ tx'[c].block = Head(Items(c))
          /\ tx'[c].failed = t.failed /\ tx'[c].underruns = t.underruns
          /\ Items(c) # <<>> /\ Items(c)' = Tail(Items(c))
      BY <1>3, <2>3 DEF TxType, PopItem, Items, QueueType
    <3>2. Head(Items(c)).n \in Nat /\ t.sent + 0 = t.sent
      BY <1>3, <3>1, BlockNumbers
    <3>3. Chain(Items(c), t.sent, Made(c), Length(c), Ends(c))
      BY <1>5, <1>7, <2>1, <3>2
    <3>4. /\ Placed(Head(Items(c)), t.sent, Length(c), Ends(c))
          /\ Chain(Tail(Items(c)), t.sent + Head(Items(c)).n, Made(c), Length(c), Ends(c))
      BY <1>3, <1>4, <3>1, <3>3, ChainTail
    <3>5. /\ Placed(Head(Items(c)), t.sent, Length(c), Ends(c)')
          /\ Chain(Tail(Items(c)), t.sent + Head(Items(c)).n, Made(c), Length(c), Ends(c)')
      BY <1>4, <3>4, PlacedMore, ChainMore
    <3>6. Queued(c)' /\ Sending(c)'
      BY <1>1, <1>2, <1>4, <1>5, <1>6, <1>7, <2>1, <3>1, <3>5 DEF Queued, Sending
    <3>7. Burst(c)'
      BY <1>1, <1>2, <1>4, <1>5, <2>1, <3>1 DEF Flow, Burst, HasTx
    <3>8. QED
      BY <1>5, <2>1, <3>1, <3>6, <3>7, TxKeeps
  <2>4. QED
    BY <1>9, <2>2, <2>3 DEF TxPop
<1>10. ASSUME TxPopped(c) \/ TxNotify(c) PROVE Flow(c)'
  <2>1. UNCHANGED device /\ Items(c)' = Items(c)
    BY <1>3, <1>10 DEF TxPopped, TxNotify, WakeNotFull, NotifyAll, Items, QueueType
  <2>2. \/ t.pc = "popped" /\ TxGoto(c, "send")
        \/ t.pc = "notify" /\ TxGoto(c, "done")
    BY <1>10 DEF TxPopped, TxNotify
  <2>3. QED
    BY <1>6, <1>8, <2>1, <2>2
<1>11. ASSUME TxWait(c) \/ TxAwake(c) PROVE Flow(c)'
  <2>1. UNCHANGED device /\ Items(c)' = Items(c) /\ t.pc \in {"empty", "asleep"} /\ ~t.failed
    BY <1>3, <1>6, <1>11 DEF TxWait, TxAwake, SleepNotEmpty, Items, QueueType
  <2>2. t.sent \in 0 .. Length(c)
    BY <1>3, <1>4, <1>5, <1>7, <2>1, ChainEnds
  <2>3. \/ (stop /\ TxGoto(c, "done")) \/ TxGoto(c, "pop") \/ TxGoto(c, "asleep") \/ UNCHANGED tx
    BY <1>11 DEF TxWait, TxAwake
  <2>4. CASE UNCHANGED tx
    <3>1. Sending(c)'
      BY <1>1, <1>2, <1>4, <1>5, <2>1, <2>4, PlacedMore DEF Flow, Sending
    <3>2. QED
      BY <1>5, <2>1, <2>4, <3>1, TxStays
  <2>5. QED
    BY <1>4, <1>8, <2>1, <2>2, <2>3, <2>4
<1>12. ASSUME TxSkip(c) PROVE Flow(c)'
  <2>1. /\ t.pc = "send" /\ t.block.n = 0 /\ UNCHANGED <<stop, queue, device>> /\ ~t.failed
        /\ tx'[c].pc = IF t.block.eob THEN "done" ELSE "pop"
        /\ tx'[c].sent = t.sent /\ tx'[c].failed = t.failed /\ tx'[c].underruns = t.underruns
    BY <1>3, <1>6, <1>12 DEF TxSkip, TxType
  <2>2. t.sent \in Ends(c) /\ t.sent + 0 = t.sent
    BY <1>3, <1>6, <2>1 DEF Placed
  <2>3. Sending(c)'
    BY <1>1, <1>2, <1>4, <1>5, <1>6, <2>1, <2>2 DEF Sending
  <2>4. QED
    BY <1>5, <2>1, <2>2, <2>3, TxStays DEF Items
<1>13. ASSUME NEW n \in 0 .. BlockSize, TxSend(c, n) PROVE Flow(c)'
  <2> DEFINE b == t.block
  <2>1. /\ t.pc = "send" /\ b.n > 0 /\ UNCHANGED <<stop, queue>> /\ ~t.failed
        /\ n \in Nat /\ n <= b.n
    BY <1>3, <1>6, <1>13 DEF TxSend
  <2>2. Placed(b, t.sent, Length(c), Ends(c)) /\ t.sent + b.n <= Length(c)
        /\ (b.sob <=> t.sent = 0) /\ (b.eob <=> t.sent + b.n = Length(c))
    BY <1>6, <2>1 DEF Placed
  <2>3. /\ device'[c].air = device[c].air + n
        /\ device'[c].burst = IF n < b.n THEN device[c].burst ELSE BurstAfter(device[c].burst, b)
    BY <1>3, <1>13 DEF TxSend, DeviceType
  <2>4. /\ tx'[c].underruns = IF n < b.n THEN t.underruns + 1 ELSE t.underruns
        /\ tx'[c].failed = (n < b.n) /\ tx'[c].sent = t.sent + n
        /\ tx'[c].pc = IF n < b.n THEN "stop" ELSE IF b.eob THEN "done" ELSE "pop"
    BY <1>3, <1>13, <2>1 DEF TxSend, TxType
  <2>5. device[c].burst = IF t.sent \in {0, Length(c)} THEN "closed" ELSE "open"
    BY <1>2, <1>5, <2>1 DEF Flow, Burst
  <2>6. CASE n < b.n
    <3>1. Sending(c)' /\ Queued(c)'
      BY <1>2, <1>4, <1>5, <1>7, <2>4, <2>6 DEF Sending, Queued
    <3>2. Burst(c)'
      BY <1>1, <1>2, <1>5, <2>3, <2>4, <2>6 DEF Flow, Burst, HasTx
    <3>3. QED
      BY <1>5, <2>4, <2>6, <3>1, <3>2, TxKeeps
  <2>7. CASE n = b.n
    <3>1. /\ tx'[c].pc = (IF b.eob THEN "done" ELSE "pop") /\ tx'[c].sent = t.sent + b.n
          /\ ~tx'[c].failed /\ tx'[c].underruns = 0
      BY <1>3, <1>6, <2>1, <2>4, <2>7
    <3>2. Queued(c)'
      <4>1. Taken(c)' = Taken(c)
        BY <1>3, <1>5, <2>1, <3>1
      <4>2. Chain(Items(c), Taken(c), Made(c), Length(c), Ends(c)')
        BY <1>4, <1>7, <2>1, ChainMore
      <4>3. QED
        BY <1>4, <1>5, <1>7, <2>1, <4>1, <4>2 DEF Queued, Items
    <3>3. Sending(c)'
      BY <1>2, <1>4, <1>5, <2>2, <3>1 DEF Sending
    <3>4. device'[c].burst = IF t.sent + b.n = Length(c) THEN "closed" ELSE "open"
      BY <1>3, <1>4, <2>1, <2>2, <2>3, <2>5, <2>7 DEF BurstAfter
    <3>5. t.sent + b.n # 0
      BY <1>3, <2>1
    <3>6. Burst(c)'
      BY <1>1, <1>2, <1>4, <1>5, <3>1, <3>4, <3>5 DEF Burst, HasTx
    <3>7. device'[c].air + Given(c) = device[c].air + Given(c)'
      BY <1>3, <1>5, <2>1, <2>3, <2>7, <3>1
    <3>8. QED
      BY <3>2, <3>3, <3>6, <3>7, TxKeeps
  <2>8. QED
    BY <1>3, <2>1, <2>6, <2>7
<1>14. ASSUME TxThrow(c) PROVE Flow(c)'
  <2>1. /\ UNCHANGED <<stop, queue, device>> /\ tx'[c].pc = "stop" /\ tx'[c].failed
        /\ tx'[c].sent = t.sent
    BY <1>3, <1>14 DEF TxThrow, TxType
  <2>2. Sending(c)'
    BY <1>2, <1>5, <2>1 DEF Sending
  <2>3. QED
    BY <1>5, <2>1, <2>2, TxStays DEF Items
<1>15. ASSUME TxStop(c) PROVE Flow(c)'
  <2>1. t.pc = "stop" /\ TxGoto(c, "notify") /\ UNCHANGED <<queue, device>>
    BY <1>15 DEF TxStop
  <2>2. QED
    BY <1>6, <1>8, <2>1 DEF Items
<1>16. QED
  BY <1>9, <1>10, <1>11, <1>12, <1>13, <1>14, <1>15 DEF TxStep

-----------------------------------------------------------------------------
(* The steps of a push_wait of the thread of the channel. *)

\* It runs when the RenderWorker, if there was one, is gone.
LEMMA FeedBeside ==
    ASSUME IInv, NEW c \in Channel, Flow(c), feed[c].pc # "idle"
    PROVE  /\ main[c].pc \in {"mixPush", "sentinel", "renderSentinel"}
           /\ main[c].pc \in HasTx /\ main[c].pc \in InJob
           /\ AtRenderJob(c) <=> main[c].pc = "renderSentinel"
           /\ render[c].pc \in Gone
           /\ main[c].pc # "mixPush" => feed[c].block = Sentinel
<1>1. main[c].pc \in {"mixPush", "sentinel", "renderSentinel"}
  BY DEF Flow, Feeding
<1>2. AtRenderJob(c) <=> main[c].pc = "renderSentinel"
  BY <1>1 DEF Flow, Working
<1>3. render[c].pc \in Gone
  BY <1>1, Here DEF Owned
<1>4. QED
  BY <1>1, <1>2, <1>3 DEF Flow, Feeding, HasTx, InJob

\* What is left to show for one of its steps.
LEMMA FeedKeeps ==
    ASSUME IInv, IInv', NEW c \in Channel, Flow(c), FeedStep(c),
           UNCHANGED <<jobVars, controlVars, mode, bound>>,
           Feeding(c)', Queued(c)'
    PROVE  Flow(c)'
<1>1. /\ UNCHANGED <<stop, render, tx, device, main, jobs, run, active>> /\ feed[c].pc # "idle"
  BY FeedEffect DEF jobVars, controlVars
<1>2. main[c].pc \in InJob /\ main[c].pc \in HasTx
  BY <1>1, FeedBeside
<1>3. /\ Length(c)' = Length(c) /\ AtRenderJob(c)' = AtRenderJob(c) /\ Ends(c) \subseteq Ends(c)'
  BY <1>1, <1>2, EndsGrow
<1>4. Given(c)' = Given(c) /\ Holding(c)' = Holding(c) /\ Spoilt(c)' = Spoilt(c) /\ OnCourse' = OnCourse
  BY <1>1 DEF Given, Holding, Spoilt, OnCourse
<1>5. Sending(c)'
  BY <1>1, <1>3, <1>4, PlacedMore DEF Flow, Sending
<1>6. Rendering(c)'
  BY <1>1, <1>3, PlacedMore DEF Flow, Rendering
<1>7. Working(c)'
  BY <1>1, <1>3, Modal DEF Flow, Working
<1>8. Burst(c)'
  BY <1>1, <1>3, <1>4 DEF Flow, Burst
<1>9. Accounts(c)'
  <2>1. Base(c)' = Base(c)
    BY <1>1 DEF Base, Scheduled
  <2>2. QED
    BY <1>1, <1>4, <2>1 DEF Flow, Accounts
<1>10. QED
  BY <1>5, <1>6, <1>7, <1>8, <1>9 DEF Flow

LEMMA FeedFlow ==
    ASSUME IInv, IInv', NEW c \in Channel, Flow(c), FeedStep(c),
           UNCHANGED <<jobVars, controlVars, mode, bound>>
    PROVE  Flow(c)'
<1> DEFINE f == feed[c]
<1>1. /\ UNCHANGED <<stop, render, tx, device, main, jobs, run, active>> /\ f.pc # "idle"
  BY FeedEffect DEF jobVars, controlVars
<1>2. /\ main[c].pc \in {"mixPush", "sentinel", "renderSentinel"} /\ main[c].pc \in InJob
      /\ AtRenderJob(c) <=> main[c].pc = "renderSentinel"
      /\ render[c].pc \in Gone
      /\ main[c].pc # "mixPush" => f.block = Sentinel
  BY <1>1, FeedBeside
<1>3. /\ feed \in [Channel -> FeedType] /\ queue \in [Channel -> QueueType]
      /\ f \in FeedType /\ f.block \in BlockType /\ f.block.n \in Nat /\ Items(c) \in Seq(BlockType)
      /\ main[c].off \in Nat /\ render[c].rendered \in Nat
  BY Here, Parts
<1>4. /\ Length(c)' = Length(c) /\ Length(c) \in Nat /\ AtRenderJob(c)' = AtRenderJob(c)
      /\ Ends(c)' = Ends(c)
  BY <1>1, <1>2, EndsGrow DEF Ends, Length, TheJob, Scheduled
<1>5. /\ Taken(c)' = Taken(c) /\ Spoilt(c)' = Spoilt(c)
  BY <1>1 DEF Given, Holding, Spoilt, Taken
<1>6. Made(c) \in 0 .. Length(c) /\ (~Spoilt(c) => Chain(Items(c), Taken(c), Made(c), Length(c), Ends(c)))
  BY <1>2 DEF Flow, Queued
<1>7. f.pc \in {"push", "full", "asleep"} => Placed(f.block, Made(c), Length(c), Ends(c))
  BY DEF Flow, Feeding
\* Steps that push nothing.
<1>8. ASSUME NEW step, FeedGoto(c, step), Items(c)' = Items(c), step # "idle",
             f.pc \in {"pushed", "ok"} <=> step \in {"pushed", "ok"},
             step \in {"push", "full", "asleep"} => f.pc \in {"push", "full", "asleep"},
             step = "stopped" => stop
      PROVE  Flow(c)'
  <2>1. feed'[c].pc = step /\ feed'[c].block = f.block
    BY <1>3, <1>8 DEF FeedGoto, FeedType
  <2>2. Made(c)' = Made(c)
    BY <1>1, <1>4, <1>8, <2>1 DEF Made
  <2>3. Feeding(c)'
    BY <1>1, <1>2, <1>4, <1>7, <1>8, <2>1, <2>2 DEF Feeding
  <2>4. Queued(c)'
    BY <1>4, <1>5, <1>6, <1>8, <2>2 DEF Queued
  <2>5. QED
    BY <2>3, <2>4, FeedKeeps
<1>9. CASE FeedPush(c)
  <2>1. f.pc = "push"
    BY <1>9 DEF FeedPush
  <2>2. CASE PushItem(c, f.block) /\ FeedGoto(c, "pushed")
    <3>1. feed'[c].pc = "pushed" /\ feed'[c].block = f.block /\ Items(c)' = Append(Items(c), f.block)
      BY <1>3, <2>2 DEF FeedGoto, FeedType, PushItem, Items, QueueType
    <3>2. Made(c)' = Made(c) + f.block.n
      <4>1. CASE AtRenderJob(c)
        <5>1. f.block.n = 0 /\ Made(c)' = Made(c) /\ Made(c) = render[c].rendered
          BY <1>1, <1>2, <1>3, <1>4, <4>1, BlockFacts DEF Made, Gone
        <5>2. QED
          BY <1>3, <5>1
      <4>2. CASE ~AtRenderJob(c)
        BY <1>1, <1>3, <1>4, <2>1, <3>1, <4>2 DEF Made
      <4>3. QED
        BY <4>1, <4>2
    <3>3. Made(c) + f.block.n \in 0 .. Length(c)
      BY <1>3, <1>4, <1>6, <1>7, <2>1 DEF Placed
    <3>4. ~Spoilt(c) => Chain(Items(c)', Taken(c), Made(c) + f.block.n, Length(c), Ends(c))
      BY <1>3, <1>4, <1>6, <1>7, <2>1, <3>1, ChainAppend
    <3>5. Queued(c)'
      BY <1>4, <1>5, <3>2, <3>3, <3>4 DEF Queued
    <3>6. Feeding(c)'
      BY <1>1, <1>2, <3>1 DEF Feeding
    <3>7. QED
      BY <3>5, <3>6, FeedKeeps
  <2>3. QED
    BY <1>8, <1>9, <2>1, <2>2 DEF FeedPush, Items
<1>10. CASE FeedPushed(c)
  <2>1. Items(c)' = Items(c) /\ f.pc = "pushed" /\ FeedGoto(c, "ok")
    BY <1>3, <1>10 DEF FeedPushed, WakeNotEmpty, Items, QueueType
  <2>2. QED
    BY <1>8, <2>1
<1>11. CASE FeedWait(c) \/ FeedAwake(c)
  <2>1. Items(c)' = Items(c) /\ f.pc \in {"full", "asleep"}
    BY <1>3, <1>11 DEF FeedWait, FeedAwake, SleepNotFull, Items, QueueType
  <2>2. \/ stop /\ FeedGoto(c, "stopped")
        \/ FeedGoto(c, "push") \/ FeedGoto(c, "asleep") \/ UNCHANGED feed
    BY <1>11 DEF FeedWait, FeedAwake
  <2>3. UNCHANGED feed => FeedGoto(c, f.pc)
    BY <1>3 DEF FeedGoto, FeedType
  <2>4. QED
    BY <1>8, <2>1, <2>2, <2>3
<1>12. QED
  BY <1>9, <1>10, <1>11 DEF FeedStep

-----------------------------------------------------------------------------
(* The steps of the thread of a channel, by what they are to its samples. *)

\* What a step to another place leaves alone.
LEMMA Stepped ==
    ASSUME IInv, NEW c \in Channel, NEW step, MainGoto(c, step)
    PROVE  /\ main'[c].pc = step /\ main'[c].job = main[c].job /\ main'[c].off = main[c].off
           /\ main'[c].sent = main[c].sent /\ main'[c].underruns = main[c].underruns
           /\ main'[c].failed = main[c].failed
BY Here DEF MainGoto, MainType

\* Between two jobs there are no samples on the way.
LEMMA Between ==
    ASSUME IInv, IInv', NEW c \in Channel, main'[c].pc \notin InJob, feed'[c].pc = "idle",
           mode' = "replay" => main'[c].pc = "ended", Burst(c)', Accounts(c)'
    PROVE  Flow(c)'
<1>1. HasTx \subseteq InJob
  BY DEF InJob
<1>2. Queued(c)' /\ Rendering(c)' /\ Sending(c)' /\ Feeding(c)'
  BY <1>1 DEF Queued, Rendering, Sending, Feeding, Holding, Spoilt
<1>3. Working(c)'
  BY DEF Working, InJob, HasTx
<1>4. QED
  BY <1>2, <1>3 DEF Flow

\* On the way to a job, or to the end of the schedule.
LEMMA Approach ==
    ASSUME IInv, IInv', NEW c \in Channel, Flow(c), mode = "realtime",
           main[c].pc \in {"next", "delay", "begin"}, NEW step \in {"delay", "begin", "launch", "ended"},
           MainGoto(c, step), UNCHANGED <<jobs, mode, bound, stop, feed>>, OnCourse' => OnCourse,
           device'[c].air = device[c].air, device'[c].burst = device[c].burst,
           step # "ended" /\ main[c].pc = "next" => ~stop /\ ~main[c].failed,
           step = "ended" /\ OnCourse' /\ ~stop /\ ~main[c].failed => main[c].job > Len(jobs[c])
    PROVE  Flow(c)'
<1>1. /\ main'[c].pc = step /\ main'[c].job = main[c].job
      /\ main'[c].sent = main[c].sent /\ main'[c].underruns = main[c].underruns
      /\ main'[c].failed = main[c].failed
  BY Stepped
<1>2. /\ main[c].pc \notin InJob /\ main'[c].pc \notin InJob /\ main[c].pc \notin HasTx
      /\ main'[c].pc \notin HasTx
  BY <1>1 DEF InJob, HasTx
<1>3. feed[c].pc = "idle"
  BY DEF Flow, Feeding
<1>4. Burst(c)'
  BY <1>1, <1>2 DEF Flow, Burst
<1>5. Accounts(c)'
  <2>1. Base(c)' = Base(c) /\ Given(c)' = 0 /\ Given(c) = 0 /\ ~Spoilt(c)
    BY <1>1, <1>2 DEF Base, Given, Spoilt
  <2>2. main[c].job \in 1 .. Len(jobs[c]) + 1 /\ Len(jobs[c]) \in Nat
    BY Here
  <2>3. main[c].job > Len(jobs[c]) => main[c].job = Len(jobs[c]) + 1
    BY <2>2
  <2>4. QED
    BY <1>1, <2>1, <2>3 DEF Flow, Accounts
<1>6. QED
  BY <1>1, <1>2, <1>3, <1>4, <1>5, Between

\* A job begins with an empty queue.
LEMMA Begins ==
    ASSUME IInv, IInv', NEW c \in Channel, Flow(c),
           main[c].pc = "launch" \/ (mode = "replay" /\ main[c].pc = "begin"),
           main'[c].pc \in {"prime", "create"}, UNCHANGED <<jobs, mode, bound, stop, feed>>,
           OnCourse' => OnCourse, main'[c].job = main[c].job, main'[c].sent = main[c].sent,
           main'[c].underruns = main[c].underruns, main'[c].failed = main[c].failed,
           device'[c].air = device[c].air, device'[c].burst = device[c].burst,
           Items(c)' = <<>>, Made(c)' = 0, Rendering(c)', Working(c)'
    PROVE  Flow(c)'
<1>1. /\ main[c].pc \notin HasTx /\ main'[c].pc \notin HasTx /\ main'[c].pc \in InJob
      /\ feed[c].pc = "idle" /\ device[c].burst = "closed"
  BY DEF Flow, Feeding, Burst, InJob, HasTx
<1>2. /\ Given(c) = 0 /\ Given(c)' = 0 /\ ~Holding(c)' /\ Taken(c)' = 0 /\ ~Spoilt(c) /\ ~Spoilt(c)'
      /\ Base(c)' = Base(c)
  BY <1>1 DEF Given, Holding, Taken, Spoilt, Base
<1>3. Length(c) \in Nat /\ Length(c)' = Length(c)
  BY LengthIsNat DEF Length, TheJob, Scheduled
<1>4. Queued(c)'
  BY <1>2, <1>3, ChainNone DEF Queued
<1>5. Sending(c)' /\ Feeding(c)'
  BY <1>1, <1>2 DEF Sending, Feeding
<1>6. Burst(c)'
  BY <1>1, <1>2 DEF Burst, InJob, HasTx
<1>7. Accounts(c)'
  BY <1>2 DEF Flow, Accounts
<1>8. QED
  BY <1>4, <1>5, <1>6, <1>7 DEF Flow

\* The TxWorker starts.
LEMMA Created ==
    ASSUME IInv, IInv', NEW c \in Channel, Flow(c), NEW step \in {"joinRender", "mix"},
           StartTxWorker(c, step), UNCHANGED <<mode, bound, run>>,
           step = "joinRender" <=> AtRenderJob(c),
           IsMulti \/ active' = {c}
    PROVE  Flow(c)'
<1>1. /\ main[c].pc = "create" /\ MainGoto(c, step) /\ tx' = [tx EXCEPT ![c] = TxWorker("pop")]
      /\ UNCHANGED <<stop, queue, render, device, feed, jobs>>
  BY DEF StartTxWorker
<1>2. /\ main'[c].pc = step /\ main'[c].job = main[c].job /\ main'[c].off = main[c].off
      /\ main'[c].sent = main[c].sent /\ main'[c].underruns = main[c].underruns
      /\ main'[c].failed = main[c].failed
  BY <1>1, Stepped
<1>3. /\ tx'[c].pc = "pop" /\ tx'[c].sent = 0 /\ ~tx'[c].failed /\ tx'[c].underruns = 0
  BY <1>1, Here DEF TxWorker
<1>4. /\ main[c].pc \notin HasTx /\ main'[c].pc \in HasTx /\ main[c].pc \in InJob /\ main'[c].pc \in InJob
  BY <1>1, <1>2 DEF InJob, HasTx
<1>5. /\ Given(c)' = Given(c) /\ ~Holding(c) /\ ~Holding(c)' /\ Taken(c)' = Taken(c)
      /\ ~Spoilt(c) /\ ~Spoilt(c)' /\ Spoilt(c)' = Spoilt(c)
  BY <1>3, <1>4 DEF Given, Holding, Taken, Spoilt
<1>6. AtRenderJob(c)' = AtRenderJob(c) /\ Made(c)' = Made(c)
  BY <1>1, <1>2 DEF AtRenderJob, TheJob, Made
<1>7. Sending(c)'
  BY <1>3, <1>5 DEF Sending
<1>8. Feeding(c)'
  BY <1>1 DEF Flow, Feeding
<1>9. Working(c)'
  BY <1>1, <1>2, <1>6, Modal DEF Flow, Working
<1>10. OnCourse' = OnCourse /\ Items(c)' = Items(c)
  BY <1>1 DEF OnCourse, Items
<1>11. QED
  BY <1>1, <1>2, <1>4, <1>5, <1>6, <1>7, <1>8, <1>9, <1>10, Within

\* The thread goes on while the TxWorker works.
LEMMA Onward ==
    ASSUME IInv, IInv', NEW c \in Channel, Flow(c), main[c].pc \in HasTx, main'[c].pc \in HasTx,
           UNCHANGED <<jobs, mode, bound, render, tx, device, run>>, stop => stop', Items(c)' = Items(c),
           main'[c].job = main[c].job, main'[c].sent = main[c].sent,
           main'[c].underruns = main[c].underruns, main[c].failed => main'[c].failed,
           Made(c)' = Made(c), Feeding(c)', Working(c)'
    PROVE  Flow(c)'
<1>1. main[c].pc \in InJob /\ main'[c].pc \in InJob
  BY DEF InJob
<1>2. /\ Given(c)' = Given(c) /\ Holding(c)' = Holding(c) /\ Taken(c)' = Taken(c)
      /\ Spoilt(c)' = Spoilt(c)
  BY DEF Given, Holding, Taken, Spoilt
<1>3. Length(c)' = Length(c) /\ Ends(c) \subseteq Ends(c)'
  BY <1>1, EndsGrow
<1>4. Sending(c)'
  BY <1>2, <1>3, PlacedMore DEF Flow, Sending
<1>5. QED
  BY <1>1, <1>2, <1>4, Within DEF OnCourse

\* The job is left although its samples are not all sent, after a stop.
LEMMA Dropped ==
    ASSUME IInv, IInv', NEW c \in Channel, Flow(c), main'[c].pc \in {"next", "ended"}, stop',
           UNCHANGED <<mode, bound, device, feed>>, feed[c].pc = "idle",
           mode = "replay" => main'[c].pc = "ended"
    PROVE  Flow(c)'
<1>1. main'[c].pc \notin InJob
  BY DEF InJob, HasTx
<1>2. Burst(c)' /\ Accounts(c)'
  BY <1>1 DEF Flow, Burst, Accounts, InJob, HasTx
<1>3. QED
  BY <1>1, <1>2, Between

-----------------------------------------------------------------------------
(* The steps of the thread of a channel. *)

\* Where it feeds nothing.
LEMMA Idle ==
    ASSUME NEW c \in Channel, Flow(c), main[c].pc \notin {"mixPush", "sentinel", "renderSentinel"}
    PROVE  feed[c].pc = "idle"
BY DEF Flow, Feeding

\* The loop over the schedule, up to a job.
LEMMA ToJob ==
    ASSUME IInv, IInv', NEW c \in Channel, Flow(c), mode = "realtime", UNCHANGED <<mode, bound, run>>,
           LoopHead(c) \/ Delay(c) \/ ChannelBegin(c)
    PROVE  Flow(c)'
<1>1. UNCHANGED <<workerVars, jobs>>
  BY DEF LoopHead, Delay, ChannelBegin
<1>2. OnCourse' = OnCourse
  BY DEF OnCourse
<1>3. PICK step \in {"delay", "begin", "launch", "ended"} :
          /\ MainGoto(c, step) /\ main[c].pc \in {"next", "delay", "begin"}
          /\ step # "ended" /\ main[c].pc = "next" => ~stop /\ ~main[c].failed
          /\ step = "ended" /\ ~stop /\ ~main[c].failed => main[c].job > Len(jobs[c])
  BY DEF LoopHead, Delay, ChannelBegin
<1>4. QED
  BY <1>1, <1>2, <1>3, Approach DEF workerVars

\* A RenderWorker and a queue for it.
LEMMA ToRender ==
    ASSUME IInv, IInv', NEW c \in Channel, Flow(c), mode = "realtime", UNCHANGED <<mode, bound, run>>,
           LaunchRender(c)
    PROVE  Flow(c)'
<1>1. /\ main[c].pc = "launch" /\ TheJob(c).kind = "render" /\ MainGoto(c, "prime")
      /\ queue' = [queue EXCEPT ![c] = NewQueue]
      /\ render' = [render EXCEPT ![c] = RenderWorker("start", TheJob(c).target)]
      /\ UNCHANGED <<stop, tx, device, feed, jobs>>
  BY DEF LaunchRender
<1>2. /\ main'[c].pc = "prime" /\ main'[c].job = main[c].job
      /\ main'[c].sent = main[c].sent /\ main'[c].underruns = main[c].underruns
      /\ main'[c].failed = main[c].failed
  BY <1>1, Stepped
<1>3. /\ Items(c)' = <<>> /\ render'[c].pc = "start" /\ render'[c].target = TheJob(c).target
      /\ render'[c].first = TRUE /\ render'[c].rendered = 0
  BY <1>1, Here DEF Items, NewQueue, RenderWorker
<1>4. AtRenderJob(c)' /\ Length(c)' = TheJob(c).target
  BY <1>1, <1>2 DEF AtRenderJob, TheJob, Length
<1>5. Made(c)' = 0 /\ Rendering(c)' /\ OnCourse' = OnCourse
  BY <1>3, <1>4 DEF Made, Rendering, OnCourse
<1>6. Working(c)'
  BY <1>2, <1>4 DEF Working, HasTx
<1>7. QED
  BY <1>1, <1>2, <1>3, <1>5, <1>6, Begins

\* The members of a mix group, and a queue for them.
LEMMA ToMix ==
    ASSUME IInv, IInv', NEW c \in Channel, Flow(c), mode = "realtime", UNCHANGED <<mode, bound, run>>,
           PrepareMix(c)
    PROVE  Flow(c)'
<1>1. /\ main[c].pc = "launch" /\ TheJob(c).kind # "render" /\ feed[c].pc = "idle"
      /\ UNCHANGED <<stop, render, tx, device, feed, jobs>>
  BY Idle DEF PrepareMix
<1>2. CASE main' = [main EXCEPT ![c].failed = TRUE, ![c].pc = "next", ![c].job = @ + 1]
  <2>1. main'[c].pc = "next" /\ main'[c].failed = TRUE
    BY <1>2, Here DEF MainType
  <2>2. main'[c].pc \notin InJob
    BY <2>1 DEF InJob, HasTx
  <2>3. Burst(c)' /\ Accounts(c)'
    BY <1>1, <2>1, <2>2 DEF Flow, Burst, Accounts
  <2>4. QED
    BY <1>1, <2>1, <2>2, <2>3, Between
<1>3. CASE /\ main' = [main EXCEPT ![c].off = 0, ![c].pc = "create"]
           /\ queue' = [queue EXCEPT ![c] = NewQueue]
  <2>1. /\ main'[c].pc = "create" /\ main'[c].job = main[c].job /\ main'[c].off = 0
        /\ main'[c].sent = main[c].sent /\ main'[c].underruns = main[c].underruns
        /\ main'[c].failed = main[c].failed /\ Items(c)' = <<>>
    BY <1>3, Here DEF MainType, Items, NewQueue
  <2>2. ~AtRenderJob(c)'
    BY <1>1, <2>1 DEF AtRenderJob, TheJob
  <2>3. Made(c)' = 0 /\ Rendering(c)' /\ OnCourse' = OnCourse
    BY <1>1, <2>1, <2>2 DEF Made, Rendering, OnCourse
  <2>4. Working(c)'
    BY <2>1, <2>2 DEF Working, HasTx
  <2>5. QED
    BY <1>1, <2>1, <2>3, <2>4, Begins
<1>4. QED
  BY <1>2, <1>3 DEF PrepareMix

\* The wait for the first blocks.
LEMMA InPrime ==
    ASSUME IInv, IInv', NEW c \in Channel, Flow(c), mode = "realtime", UNCHANGED <<mode, bound, run>>,
           Prime(c)
    PROVE  Flow(c)'
<1>1. PICK step \in {"create", "primeAsleep"} :
          /\ main[c].pc \in {"prime", "primeAsleep"} /\ MainGoto(c, step)
          /\ UNCHANGED <<stop, render, tx, device, feed, jobs>>
          /\ UNCHANGED queue \/ SleepNotEmpty(c, "main")
  BY DEF Prime
<1>2. /\ main'[c].pc = step /\ main'[c].job = main[c].job /\ main'[c].off = main[c].off
      /\ main'[c].sent = main[c].sent /\ main'[c].underruns = main[c].underruns
      /\ main'[c].failed = main[c].failed
  BY <1>1, Stepped
<1>3. /\ Items(c)' = Items(c) /\ OnCourse' = OnCourse
  BY <1>1, Here DEF SleepNotEmpty, Items, QueueType, OnCourse
<1>4. /\ main[c].pc \notin HasTx /\ main'[c].pc \notin HasTx
      /\ main[c].pc \in InJob /\ main'[c].pc \in InJob
  BY <1>1, <1>2 DEF InJob, HasTx
<1>5. /\ Given(c)' = Given(c) /\ ~Holding(c) /\ ~Holding(c)' /\ Taken(c)' = Taken(c)
      /\ Spoilt(c)' = Spoilt(c) /\ ~Spoilt(c)'
  BY <1>4 DEF Given, Holding, Taken, Spoilt
<1>6. AtRenderJob(c)' = AtRenderJob(c) /\ Made(c)' = Made(c)
  BY <1>1, <1>2 DEF AtRenderJob, TheJob, Made
<1>7. Sending(c)' /\ Feeding(c)'
  BY <1>1, <1>4, <1>5, Idle DEF Sending, Feeding
<1>8. Working(c)'
  BY <1>1, <1>2, <1>4, <1>6 DEF Flow, Working
<1>9. QED
  BY <1>1, <1>2, <1>3, <1>4, <1>5, <1>6, <1>7, <1>8, Within

\* One turn of the loop that feeds a buffer.
LEMMA FeedTurn ==
    ASSUME IInv, IInv', NEW c \in Channel, Flow(c), main[c].pc = "mix", NEW left,
           left = Length(c) - main[c].off,
           UNCHANGED <<stop, queue, render, tx, device, jobs, mode, bound, run, active>>,
           \/ /\ left > 0 /\ ~stop
              /\ StartFeed(c, Block(Least(left, BlockSize), main[c].off = 0, Least(left, BlockSize) = left))
              /\ MainGoto(c, "mixPush")
           \/ /\ ~ (left > 0 /\ ~stop)
              /\ StartFeed(c, Sentinel) /\ MainGoto(c, "sentinel")
    PROVE  Flow(c)'
<1> DEFINE off == main[c].off
           n == Least(left, BlockSize)
           b == Block(n, off = 0, n = left)
<1>1. main[c].pc \in InJob /\ main[c].pc \in HasTx /\ feed[c].pc = "idle" /\ ~AtRenderJob(c)
  BY Idle DEF InJob, HasTx, Flow, Working
<1>2. PICK step \in {"mixPush", "sentinel"} : MainGoto(c, step)
  OBVIOUS
<1>3. /\ main'[c].pc = step /\ main'[c].job = main[c].job /\ main'[c].off = off
      /\ main'[c].sent = main[c].sent /\ main'[c].underruns = main[c].underruns
      /\ main'[c].failed = main[c].failed /\ main'[c].pc \in HasTx
  BY <1>2, Stepped DEF HasTx
<1>4. /\ Length(c)' = Length(c) /\ Length(c) \in Nat /\ Length(c) \in Ends(c)
      /\ AtRenderJob(c)' = AtRenderJob(c) /\ Ends(c) \subseteq Ends(c)'
      /\ stop => Ends(c) = 0 .. Length(c)
  BY <1>1, <1>3, EndsGrow DEF Ends
<1>5. Made(c) = off /\ off \in 0 .. Length(c)
  <2>1. Made(c) = off + 0 /\ Made(c) \in 0 .. Length(c) /\ off \in Nat
    BY <1>1, Parts DEF Made, Flow, Queued
  <2>2. QED
    BY <2>1
<1>6. feed'[c].pc = "push"
  BY Here DEF StartFeed
<1>7. Made(c)' = Made(c)
  <2>1. Made(c)' = off + 0
    BY <1>1, <1>3, <1>4, <1>6 DEF Made
  <2>2. QED
    BY <1>4, <1>5, <2>1
<1>8. Placed(feed'[c].block, off, Length(c), Ends(c)) /\ (step = "sentinel" => feed'[c].block = Sentinel)
  <2>1. CASE left > 0 /\ ~stop
    <3>1. n \in Nat /\ n > 0 /\ n <= left
      BY <1>4, <1>5, <2>1, WorkersAssumption DEF Least
    <3>2. b.n = n /\ (b.sob <=> off = 0) /\ (b.eob <=> n = left)
      BY DEF Block
    <3>3. feed'[c].block = b /\ main'[c].pc = "mixPush"
      BY <2>1, Here, Stepped DEF StartFeed
    <3> HIDE DEF b, n
    <3>4. (b.eob <=> off + b.n = Length(c)) /\ off + b.n <= Length(c) /\ b.n > 0 /\ b.n # 0
      BY <1>4, <1>5, <3>1, <3>2
    <3>5. QED
      BY <1>3, <3>2, <3>3, <3>4 DEF Placed
  <2>2. CASE ~ (left > 0 /\ ~stop)
    <3>1. feed'[c].block = Sentinel
      BY <2>2, Here DEF StartFeed
    <3>2. off \in Ends(c) /\ off + 0 <= Length(c)
      BY <1>4, <1>5, <2>2
    <3>3. QED
      BY <3>1, <3>2, BlockFacts DEF Placed
  <2>3. QED
    BY <2>1, <2>2
<1>9. Feeding(c)'
  <2>1. Placed(feed'[c].block, off, Length(c), Ends(c)')
    BY <1>4, <1>8, PlacedMore
  <2>2. QED
    BY <1>3, <1>4, <1>5, <1>6, <1>7, <1>8, <2>1 DEF Feeding
<1>10. Working(c)'
  BY <1>1, <1>3, <1>4, Modal DEF Flow, Working, HasTx
<1>11. QED
  BY <1>1, <1>3, <1>7, <1>9, <1>10, Onward DEF Items

\* A block of the buffer is in the queue; or a stop ended the push.
LEMMA FeedGoesOn ==
    ASSUME IInv, IInv', NEW c \in Channel, Flow(c), MixPushed(c), UNCHANGED <<mode, bound, run, active>>
    PROVE  Flow(c)'
<1>1. /\ main[c].pc = "mixPush" /\ feed[c].pc \in {"ok", "stopped"}
      /\ UNCHANGED <<stop, queue, render, tx, device, jobs>>
  BY DEF MixPushed, Fed
<1>2. main[c].pc \in InJob /\ main[c].pc \in HasTx /\ ~AtRenderJob(c)
  BY <1>1 DEF InJob, HasTx, Flow, Working
<1>3. /\ main'[c].job = main[c].job
      /\ main'[c].sent = main[c].sent /\ main'[c].underruns = main[c].underruns
      /\ main'[c].failed = main[c].failed
      /\ main'[c].pc = IF feed[c].pc = "ok" THEN "mix" ELSE "sentinel"
      /\ main'[c].off = main[c].off + IF feed[c].pc = "ok" THEN feed[c].block.n ELSE 0
      /\ feed'[c].pc = IF feed[c].pc = "ok" THEN "idle" ELSE "push"
      /\ feed[c].pc # "ok" => feed'[c].block = Sentinel
  <2>1. main \in [Channel -> MainType] /\ feed \in [Channel -> FeedType] /\ main[c].off \in Nat
    BY Here, Parts
  <2>2. CASE feed[c].pc = "ok"
    BY <2>1, <2>2 DEF MixPushed, MainType, EndFeed, FeedGoto, FeedType
  <2>3. CASE feed[c].pc = "stopped"
    BY <2>1, <2>3, Stepped DEF MixPushed, StartFeed
  <2>4. QED
    BY <1>1, <2>2, <2>3
<1>4. /\ Length(c)' = Length(c) /\ Length(c) \in Nat
      /\ AtRenderJob(c)' = AtRenderJob(c) /\ Ends(c) \subseteq Ends(c)'
      /\ stop => Ends(c) = 0 .. Length(c)
  BY <1>1, <1>2, <1>3, EndsGrow DEF Ends
<1>5. /\ Made(c) = main[c].off + IF feed[c].pc = "ok" THEN feed[c].block.n ELSE 0
      /\ Made(c) \in 0 .. Length(c)
  BY <1>1, <1>2 DEF Made, Flow, Queued
<1>6. Made(c)' = Made(c)
  <2>1. Made(c)' = main'[c].off + 0 /\ main'[c].off = Made(c)
    BY <1>2, <1>3, <1>4, <1>5 DEF Made
  <2>2. QED
    BY <1>4, <1>5, <2>1
<1>7. Feeding(c)'
  <2>1. CASE feed[c].pc = "ok"
    BY <1>3, <2>1 DEF Feeding
  <2>2. CASE feed[c].pc = "stopped"
    <3>1. stop
      BY <2>2 DEF Flow, Feeding
    <3>2. Placed(Sentinel, Made(c), Length(c), Ends(c)')
      BY <1>4, <1>5, <3>1, BlockFacts DEF Placed
    <3>3. QED
      BY <1>3, <1>4, <1>6, <2>2, <3>2 DEF Feeding
  <2>3. QED
    BY <1>1, <2>1, <2>2
<1>8. Working(c)' /\ main'[c].pc \in HasTx
  BY <1>1, <1>2, <1>3, <1>4, Modal DEF Flow, Working, HasTx
<1>9. QED
  BY <1>1, <1>2, <1>3, <1>6, <1>7, <1>8, Onward DEF Items

\* A sentinel is in the queue, or a stop ended its push.
LEMMA SentinelPushed ==
    ASSUME IInv, IInv', NEW c \in Channel, Flow(c), UNCHANGED <<mode, bound, run, active>>,
           \/ \E step \in {"take", "joinTx"} : MixSentinelPushed(c, step)
           \/ \E step \in {"move", "joinTx"} : RenderSentinelPushed(c, step)
    PROVE  Flow(c)'
<1>1. PICK step \in {"take", "move", "joinTx"} :
          /\ main[c].pc \in {"sentinel", "renderSentinel"} /\ Fed(c) /\ EndFeed(c) /\ MainGoto(c, step)
          /\ step = "take" => main[c].pc = "sentinel"
          /\ step = "move" => main[c].pc = "renderSentinel"
          /\ UNCHANGED <<stop, queue, render, tx, device, jobs>>
  BY DEF MixSentinelPushed, RenderSentinelPushed
<1>2. /\ main'[c].pc = step /\ main'[c].job = main[c].job /\ main'[c].off = main[c].off
      /\ main'[c].sent = main[c].sent /\ main'[c].underruns = main[c].underruns
      /\ main'[c].failed = main[c].failed
  BY <1>1, Stepped
<1>3. main[c].pc \in HasTx /\ main'[c].pc \in HasTx
  BY <1>1, <1>2 DEF HasTx
<1>4. AtRenderJob(c)' = AtRenderJob(c) /\ (AtRenderJob(c) <=> main[c].pc = "renderSentinel")
  BY <1>1, <1>2 DEF AtRenderJob, TheJob, Flow, Working
<1>5. feed'[c].pc = "idle"
  BY <1>1, Here DEF EndFeed, FeedGoto, FeedType
<1>6. Made(c)' = Made(c)
  <2>1. feed[c].block.n = 0
    BY <1>1, BlockFacts DEF Fed, Flow, Feeding
  <2>2. QED
    BY <1>1, <1>2, <1>4, <1>5, <2>1 DEF Made
<1>7. Feeding(c)'
  BY <1>5 DEF Feeding
<1>8. Working(c)'
  BY <1>1, <1>2, <1>3, <1>4, Modal DEF Flow, Working, HasTx
<1>9. QED
  BY <1>1, <1>2, <1>3, <1>6, <1>7, <1>8, Onward DEF Items

\* The RenderWorker is joined; a failure of it is the thread's.
LEMMA RenderJoined ==
    ASSUME IInv, IInv', NEW c \in Channel, Flow(c), UNCHANGED <<mode, bound, run, active>>,
           (IsSingle /\ JoinRenderWorker(c)) \/ (IsMulti /\ ChannelJoinRender(c))
    PROVE  Flow(c)'
<1>1. /\ main[c].pc = "joinRender" /\ render[c].pc = "done"
      /\ UNCHANGED <<stop, queue, render, tx, device, jobs>>
  BY DEF JoinRenderWorker, ChannelJoinRender, workerVars
<1>2. main[c].pc \in InJob /\ main[c].pc \in HasTx /\ AtRenderJob(c) /\ feed[c].pc = "idle"
  BY <1>1, Idle DEF InJob, HasTx, Flow, Working
<1>3. /\ main'[c].job = main[c].job /\ main'[c].off = main[c].off
      /\ main'[c].sent = main[c].sent /\ main'[c].underruns = main[c].underruns
      /\ main'[c].pc \in {"decide", "stop", "renderSentinel", "joinTx"}
      /\ main[c].failed => main'[c].failed
      /\ render[c].failed => stop \/ main'[c].failed
  <2>1. main \in [Channel -> MainType] /\ main[c].failed \in BOOLEAN
    BY Here, Parts
  <2>2. CASE JoinRenderWorker(c)
    BY <2>1, <2>2 DEF JoinRenderWorker, MainType
  <2>3. CASE ChannelJoinRender(c)
    <3>1. CASE main' = [main EXCEPT ![c].failed = TRUE, ![c].pc = "stop"]
      BY <2>1, <3>1 DEF MainType
    <3>2. CASE MainGoto(c, "renderSentinel") /\ ~ (~stop /\ render[c].failed)
      BY <3>2, Stepped
    <3>3. CASE MainGoto(c, "joinTx") /\ ~ (~stop /\ render[c].failed)
      BY <3>3, Stepped
    <3>4. QED
      BY <2>3, <3>1, <3>2, <3>3 DEF ChannelJoinRender
  <2>4. QED
    BY <2>2, <2>3
<1>4. main'[c].pc \in HasTx
  BY <1>3 DEF HasTx
<1>5. /\ Length(c)' = Length(c) /\ Length(c) \in Nat
      /\ AtRenderJob(c)' /\ Ends(c) \subseteq Ends(c)' /\ Ends(c) \subseteq 0 .. Length(c)
  BY <1>1, <1>2, <1>3, EndsGrow
<1>6. Made(c)' = Made(c) /\ Made(c) = render[c].rendered /\ Made(c) \in Ends(c)
  <2>1. Made(c) = render[c].rendered + 0 /\ Made(c)' = render[c].rendered + 0 /\ render[c].rendered \in Nat
    BY <1>1, <1>2, <1>5, Parts DEF Made
  <2>2. render[c].rendered \in Ends(c)
    BY <1>1, <1>2 DEF Flow, Rendering
  <2>3. QED
    BY <2>1, <2>2
<1>7. Feeding(c)'
  <2>1. CASE UNCHANGED feed
    BY <1>2, <2>1 DEF Feeding
  <2>2. CASE StartFeed(c, Sentinel) /\ MainGoto(c, "renderSentinel")
    <3>1. feed'[c].pc = "push" /\ feed'[c].block = Sentinel /\ main'[c].pc = "renderSentinel"
      BY <2>2, Here, Stepped DEF StartFeed
    <3>2. Made(c) + 0 <= Length(c) /\ Made(c) \in Ends(c)'
      BY <1>5, <1>6
    <3>3. Placed(Sentinel, Made(c), Length(c), Ends(c)')
      BY <3>2, BlockFacts DEF Placed
    <3>4. QED
      BY <1>5, <1>6, <3>1, <3>3 DEF Feeding
  <2>3. QED
    BY <2>1, <2>2 DEF JoinRenderWorker, ChannelJoinRender, workerVars
<1>8. Working(c)'
  <2>1. ~IsMulti => main'[c].pc = "decide"
    BY Stepped, Here DEF JoinRenderWorker, MainType
  <2>2. mode # "replay"
    BY DEF IsSingle, IsMulti
  <2>3. QED
    BY <1>1, <1>2, <1>3, <1>5, <2>1, <2>2, Modal DEF Flow, Working, HasTx
<1>9. QED
  BY <1>1, <1>2, <1>3, <1>4, <1>6, <1>7, <1>8, Onward DEF Items

\* What a single-channel run decides after the join.
LEMMA Decided ==
    ASSUME IInv, IInv', NEW c \in Channel, Flow(c), UNCHANGED <<mode, bound, run, active>>,
           IsSingle, Decide(c)
    PROVE  Flow(c)'
<1>1. /\ main[c].pc = "decide" /\ UNCHANGED <<stop, queue, render, tx, device, jobs>>
      /\ ~IsMulti /\ mode = "realtime"
  BY DEF Decide, IsSingle, IsMulti
<1>2. main[c].pc \in InJob /\ main[c].pc \in HasTx /\ AtRenderJob(c) /\ feed[c].pc = "idle"
  BY <1>1, Idle DEF InJob, HasTx, Flow, Working
<1>3. CASE c \notin active /\ NextJob(c) /\ UNCHANGED feed
  <2>1. stop
    BY <1>1, <1>2, <1>3 DEF Flow, Working
  <2>2. main'[c].pc = "next"
    BY <1>3, Here DEF NextJob, MainType
  <2>3. QED
    BY <1>1, <1>2, <1>3, <2>1, <2>2, Dropped
<1>4. ASSUME NEW step \in {"stop", "renderSentinel", "move"}, MainGoto(c, step),
             \/ UNCHANGED feed /\ step # "renderSentinel"
             \/ StartFeed(c, Sentinel) /\ step = "renderSentinel"
      PROVE  Flow(c)'
  <2>1. /\ main'[c].pc = step /\ main'[c].job = main[c].job /\ main'[c].off = main[c].off
        /\ main'[c].sent = main[c].sent /\ main'[c].underruns = main[c].underruns
        /\ main'[c].failed = main[c].failed /\ main'[c].pc \in HasTx
    BY <1>4, Stepped DEF HasTx
  <2>2. /\ Length(c)' = Length(c) /\ Length(c) \in Nat
        /\ AtRenderJob(c)' /\ Ends(c) \subseteq Ends(c)' /\ Ends(c) \subseteq 0 .. Length(c)
    BY <1>1, <1>2, <2>1, EndsGrow
  <2>3. Made(c)' = Made(c) /\ Made(c) \in Ends(c)
    <3>1. render[c].pc = "done"
      BY <1>1, <1>2, Here DEF Flow, Rendering, Owned, Gone
    <3>2. Made(c) = render[c].rendered + 0 /\ Made(c)' = render[c].rendered + 0 /\ render[c].rendered \in Nat
      BY <1>1, <1>2, <2>2, <3>1, Parts DEF Made
    <3>3. render[c].rendered \in Ends(c)
      BY <1>2, <3>1 DEF Flow, Rendering
    <3>4. QED
      BY <3>2, <3>3
  <2>4. Feeding(c)'
    <3>1. CASE UNCHANGED feed
      BY <1>2, <3>1 DEF Feeding
    <3>2. CASE StartFeed(c, Sentinel) /\ step = "renderSentinel"
      <4>1. feed'[c].pc = "push" /\ feed'[c].block = Sentinel
        BY <3>2, Here DEF StartFeed
      <4>2. Made(c) + 0 <= Length(c) /\ Made(c) \in Ends(c)'
        BY <2>2, <2>3
      <4>3. Placed(Sentinel, Made(c), Length(c), Ends(c)')
        BY <4>2, BlockFacts DEF Placed
      <4>4. QED
        BY <2>1, <2>2, <2>3, <3>2, <4>1, <4>3 DEF Feeding
    <3>3. QED
      BY <1>4, <3>1, <3>2
  <2>5. Working(c)'
    BY <1>1, <1>2, <2>1, <2>2, Modal DEF Flow, Working, HasTx
  <2>6. QED
    BY <1>1, <1>2, <2>1, <2>3, <2>4, <2>5, Onward DEF Items
<1>5. QED
  BY <1>3, <1>4 DEF Decide

\* The TxWorker is told to stop, notified, or becomes the thread's own.
LEMMA Shut ==
    ASSUME IInv, IInv', NEW c \in Channel, Flow(c), UNCHANGED <<mode, bound, run>>, mode = "realtime",
           \/ UNCHANGED active /\ StopAll(c)
           \/ UNCHANGED active /\ \E step \in {"move", "joinTx"} : NotifyTx(c, step)
           \/ MoveWorker(c)
    PROVE  Flow(c)'
<1>1. PICK step \in {"notify", "move", "joinTx"} :
          /\ main[c].pc \in {"stop", "notify", "move"} /\ MainGoto(c, step)
          /\ stop' = stop \/ stop' = TRUE
          /\ UNCHANGED queue \/ NotifyAll(c)
          /\ UNCHANGED <<render, tx, device, feed, jobs>>
          /\ step = "joinTx" \/ UNCHANGED active
  BY DEF StopAll, NotifyTx, MoveWorker, workerVars
<1>2. /\ main'[c].pc = step /\ main'[c].job = main[c].job /\ main'[c].off = main[c].off
      /\ main'[c].sent = main[c].sent /\ main'[c].underruns = main[c].underruns
      /\ main'[c].failed = main[c].failed
  BY <1>1, Stepped
<1>3. main[c].pc \in HasTx /\ main'[c].pc \in HasTx /\ feed[c].pc = "idle" /\ AtRenderJob(c)
  BY <1>1, <1>2, Idle DEF HasTx, Flow, Working
<1>4. /\ Items(c)' = Items(c) /\ (stop => stop') /\ AtRenderJob(c)' = AtRenderJob(c)
      /\ Made(c)' = Made(c)
  <2>1. Items(c)' = Items(c)
    BY <1>1, Here DEF NotifyAll, Items, QueueType
  <2>2. AtRenderJob(c)' = AtRenderJob(c)
    BY <1>1, <1>2 DEF AtRenderJob, TheJob
  <2>3. QED
    BY <1>1, <2>1, <2>2, <1>2 DEF Made
<1>5. Feeding(c)'
  BY <1>1, <1>3 DEF Feeding
<1>6. Working(c)'
  BY <1>1, <1>2, <1>3, <1>4, Modal DEF Flow, Working, HasTx
<1>7. QED
  BY <1>1, <1>2, <1>3, <1>4, <1>5, <1>6, Onward

\* After a buffer the TxWorker is taken, unless abort() has taken it.
LEMMA Taking ==
    ASSUME IInv, IInv', NEW c \in Channel, Flow(c), UNCHANGED <<mode, bound, run>>,
           (IsSingle /\ TakeWorker(c)) \/ (IsReplay /\ TakeFedWorker(c))
    PROVE  Flow(c)'
<1>1. /\ main[c].pc = "take" /\ ~IsMulti /\ UNCHANGED <<workerVars, jobs>>
  BY DEF TakeWorker, TakeFedWorker, IsSingle, IsMulti, IsReplay
<1>2. main[c].pc \in InJob /\ main[c].pc \in HasTx /\ ~AtRenderJob(c) /\ feed[c].pc = "idle"
  BY <1>1, Idle DEF InJob, HasTx, Flow, Working
<1>3. CASE c \notin active
  <2>1. stop
    BY <1>1, <1>2, <1>3 DEF Flow, Working
  <2>2. main'[c].pc \in {"next", "ended"} /\ (mode = "replay" => main'[c].pc = "ended")
    BY <1>3, Here, Stepped DEF TakeWorker, TakeFedWorker, NextJob, MainType, IsSingle
  <2>3. QED
    BY <1>1, <1>2, <2>1, <2>2, Dropped DEF workerVars
<1>4. CASE c \in active
  <2>1. MainGoto(c, "joinTx")
    BY <1>4 DEF TakeWorker, TakeFedWorker
  <2>2. /\ main'[c].pc = "joinTx" /\ main'[c].job = main[c].job /\ main'[c].off = main[c].off
        /\ main'[c].sent = main[c].sent /\ main'[c].underruns = main[c].underruns
        /\ main'[c].failed = main[c].failed /\ main'[c].pc \in HasTx
    BY <2>1, Stepped DEF HasTx
  <2>3. AtRenderJob(c)' = AtRenderJob(c) /\ Made(c)' = Made(c)
    BY <1>1, <2>2 DEF AtRenderJob, TheJob, Made, workerVars
  <2>4. Feeding(c)'
    BY <1>1, <1>2 DEF Feeding, workerVars
  <2>5. Working(c)'
    BY <1>1, <1>2, <2>2, <2>3, Modal DEF Flow, Working
  <2>6. QED
    BY <1>1, <1>2, <2>2, <2>3, <2>4, <2>5, Onward DEF workerVars, Items
<1>5. QED
  BY <1>3, <1>4

\* What a worker that has ended without a failure has sent, when nothing was stopped.
LEMMA AllSent ==
    ASSUME IInv, NEW c \in Channel, Flow(c), main[c].pc = "joinTx", tx[c].pc = "done",
           ~tx[c].failed, ~stop, ~main[c].failed
    PROVE  /\ tx[c].sent = Length(c) /\ tx[c].underruns = 0 /\ device[c].burst = "closed"
           /\ OnCourse => device[c].air = Base(c) + tx[c].sent
<1>1. main[c].pc \in HasTx /\ main[c].pc \in InJob /\ ~Spoilt(c) /\ Given(c) = tx[c].sent
  BY DEF HasTx, InJob, Spoilt, Given
<1>2. tx[c].sent \in Ends(c) /\ tx[c].underruns = 0
  BY <1>1 DEF Flow, Sending
<1>3. Ends(c) = {Length(c)}
  BY DEF Ends, Flow, Working
<1>4. device[c].burst = "closed"
  BY <1>1, <1>2, <1>3 DEF Flow, Burst
<1>5. OnCourse => device[c].air = Base(c) + tx[c].sent
  BY <1>1 DEF Flow, Accounts
<1>6. QED
  BY <1>2, <1>3, <1>4, <1>5

\* The metrics of a job are collected.
LEMMA Collected ==
    ASSUME IInv, IInv', NEW c \in Channel, Flow(c), UNCHANGED <<mode, bound, run>>, mode = "realtime",
           CollectTx(c)
    PROVE  Flow(c)'
<1>1. /\ main[c].pc = "joinTx" /\ tx[c].pc = "done" /\ UNCHANGED <<workerVars, jobs>>
      /\ feed[c].pc = "idle"
  BY Idle DEF CollectTx
<1>2. /\ main'[c].pc = "next" /\ main'[c].job = main[c].job + 1
      /\ main'[c].sent = main[c].sent + tx[c].sent
      /\ main'[c].underruns = main[c].underruns + tx[c].underruns
      /\ ~main'[c].failed => ~main[c].failed /\ ~tx[c].failed
  <2>1. main \in [Channel -> MainType]
    BY Here
  <2>2. QED
    BY <2>1 DEF CollectTx, MainType
<1>3. main'[c].pc \notin HasTx /\ main'[c].pc \notin InJob
  BY <1>2 DEF HasTx, InJob
<1>4. ASSUME ~stop, ~main'[c].failed
      PROVE  /\ tx[c].sent = TheJob(c).target /\ tx[c].underruns = 0 /\ device[c].burst = "closed"
             /\ OnCourse => device[c].air = Base(c) + tx[c].sent
  BY <1>1, <1>2, <1>4, AllSent DEF Length
<1>5. Burst(c)'
  BY <1>1, <1>2, <1>3, <1>4 DEF Flow, Burst, workerVars
<1>6. Accounts(c)'
  <2>1. Base(c)' = Base(c) + TheJob(c).target /\ Base(c)' \in Nat
    <3>1. /\ jobs[c] \in Seq(Job) /\ main[c].job \in Nat /\ Len(jobs[c]) \in Nat
          /\ main[c].job \in 1 .. Len(jobs[c]) + 1 /\ main[c].job <= Len(jobs[c])
      BY <1>1, Here
    <3>2. IsSum(UpTo(jobs[c]), jobs[c], Len(jobs[c])) /\ main[c].job \in 1 .. Len(jobs[c])
      BY <3>1, UpToIsSum
    <3>3. UpTo(jobs[c])[main[c].job] = UpTo(jobs[c])[main[c].job - 1] + jobs[c][main[c].job].target
          /\ UpTo(jobs[c])[main[c].job] \in Nat
      BY <3>1, <3>2 DEF IsSum
    <3>4. main'[c].job - 1 = main[c].job
      BY <1>2, <3>1
    <3>5. QED
      BY <1>1, <3>3, <3>4 DEF Base, TheJob
  <2>2. Given(c)' = 0 /\ ~Spoilt(c)' /\ OnCourse' = OnCourse
    BY <1>3 DEF Given, Spoilt, OnCourse
  <2>3. ASSUME ~stop, ~main'[c].failed, OnCourse
        PROVE  main'[c].sent = Base(c)' /\ main'[c].underruns = 0 /\ device[c].air = Base(c)' + 0
    <3>1. main[c].sent = Base(c) /\ main[c].underruns = 0
      BY <1>2, <2>3 DEF Flow, Accounts
    <3>2. QED
      BY <1>2, <1>4, <2>1, <2>3, <3>1
  <2>4. QED
    BY <1>1, <1>2, <2>2, <2>3 DEF Accounts, workerVars
<1>7. QED
  BY <1>1, <1>2, <1>3, <1>5, <1>6, Between DEF workerVars

-----------------------------------------------------------------------------
(* The steps that begin and end a run on one channel. *)

\* ensure_tx_started.
LEMMA Ensured ==
    ASSUME IInv, IInv', NEW c \in Channel, Flow(c), UNCHANGED <<mode, bound>>, mode = "realtime",
           EnsureTxStarted(c)
    PROVE  Flow(c)'
<1>1. /\ main[c].pc = "begin" /\ UNCHANGED <<jobs, stop, feed>>
      /\ device \in [Channel -> DeviceType] /\ run \in RunRecord
  BY Here DEF EnsureTxStarted, IInv, ControlTypes
<1>2. device'[c].air = device[c].air /\ device'[c].burst = device[c].burst
  BY <1>1 DEF EnsureTxStarted, StartTx, DeviceType
<1>3. CASE MainGoto(c, "launch") /\ run'.pc = run.pc /\ run'.result = run.result
  BY <1>1, <1>2, <1>3, Approach DEF OnCourse
<1>4. CASE RunGoto("failing") /\ MainGoto(c, "ended")
  <2>1. ~OnCourse'
    BY <1>1, <1>4 DEF RunGoto, RunRecord, OnCourse
  <2>2. QED
    BY <1>1, <1>2, <1>4, <2>1, Approach
<1>5. run' = [run EXCEPT !.started = @ \cup {c}] => run'.pc = run.pc /\ run'.result = run.result
  BY <1>1 DEF RunRecord
<1>6. QED
  BY <1>3, <1>4, <1>5 DEF EnsureTxStarted

\* A replay renders everything before it starts TX.
LEMMA Rendered ==
    ASSUME IInv, IInv', NEW c \in Channel, Flow(c), UNCHANGED <<mode, bound>>, mode = "replay", RenderAll(c)
    PROVE  Flow(c)'
<1>1. /\ main[c].pc = "next" /\ UNCHANGED <<workerVars, jobs>> /\ run \in RunRecord
      /\ feed[c].pc = "idle" /\ device[c].burst = "closed" /\ main[c].off = 0 /\ ~main[c].failed
  BY Idle DEF RenderAll, IInv, ControlTypes, Flow, Working
<1>2. PICK step \in {"begin", "ended"} :
          /\ MainGoto(c, step)
          /\ \/ run' = run /\ (step = "ended" => Scheduled(c) = 0)
             \/ RunGoto("failing")
  BY DEF RenderAll
<1>3. /\ main'[c].pc = step /\ main'[c].job = main[c].job /\ main'[c].off = main[c].off
      /\ main'[c].sent = main[c].sent /\ main'[c].underruns = main[c].underruns
      /\ main'[c].failed = main[c].failed
  BY <1>2, Stepped
<1>4. /\ main[c].pc \notin InJob /\ main'[c].pc \notin InJob /\ main[c].pc \notin HasTx
      /\ main'[c].pc \notin HasTx
  BY <1>1, <1>3 DEF InJob, HasTx
<1>5. Burst(c)'
  BY <1>1, <1>4 DEF Burst, workerVars
<1>6. OnCourse' => OnCourse /\ Base(c)' = Base(c)
  <2>1. RunGoto("failing") => ~OnCourse'
    BY <1>1 DEF RunGoto, RunRecord, OnCourse
  <2>2. run' = run => OnCourse' = OnCourse
    BY DEF OnCourse
  <2>3. step = "ended" /\ Scheduled(c) = 0 => Base(c)' = Base(c)
    BY <1>1, <1>3 DEF Base, Scheduled
  <2>4. step = "begin" => Base(c)' = Base(c)
    BY <1>1, <1>3 DEF Base
  <2>5. QED
    BY <1>2, <2>1, <2>2, <2>3, <2>4
<1>7. Accounts(c)'
  <2>1. Given(c) = 0 /\ Given(c)' = 0 /\ ~Spoilt(c)
    BY <1>4 DEF Given, Spoilt
  <2>2. QED
    BY <1>1, <1>3, <1>6, <2>1 DEF Flow, Accounts, workerVars
<1>8. CASE step = "ended"
  BY <1>1, <1>3, <1>4, <1>5, <1>7, <1>8, Between DEF workerVars
<1>9. CASE step = "begin"
  <2>1. Queued(c)' /\ Sending(c)' /\ Rendering(c)' /\ Feeding(c)'
    BY <1>1, <1>4 DEF Queued, Sending, Rendering, Feeding, Holding, Spoilt, workerVars
  <2>2. Working(c)'
    BY <1>1, <1>3, <1>9 DEF Working, HasTx, workerVars
  <2>3. QED
    BY <1>5, <1>7, <2>1, <2>2 DEF Flow
<1>10. QED
  BY <1>8, <1>9

\* It starts TX, with a queue for the whole of it.
LEMMA ReplayBegun ==
    ASSUME IInv, IInv', NEW c \in Channel, Flow(c), UNCHANGED <<mode, bound>>, mode = "replay", ReplayBegin(c)
    PROVE  Flow(c)'
<1>1. /\ main[c].pc = "begin" /\ UNCHANGED <<stop, render, tx, feed, jobs>> /\ run \in RunRecord
      /\ feed[c].pc = "idle" /\ device[c].burst = "closed" /\ main[c].off = 0 /\ ~main[c].failed
      /\ device \in [Channel -> DeviceType]
  BY Idle, Here DEF ReplayBegin, IInv, ControlTypes, Flow, Working
<1>2. CASE /\ StartTx(c) /\ run' = [run EXCEPT !.started = @ \cup {c}]
           /\ queue' = [queue EXCEPT ![c] = NewQueue] /\ MainGoto(c, "create")
  <2>1. /\ main'[c].pc = "create" /\ main'[c].job = main[c].job /\ main'[c].off = main[c].off
        /\ main'[c].sent = main[c].sent /\ main'[c].underruns = main[c].underruns
        /\ main'[c].failed = main[c].failed
    BY <1>2, Stepped
  <2>2. /\ device'[c].air = device[c].air /\ device'[c].burst = device[c].burst
        /\ Items(c)' = <<>> /\ OnCourse' = OnCourse
    BY <1>1, <1>2, Here DEF StartTx, DeviceType, Items, NewQueue, RunRecord, OnCourse
  <2>3. ~AtRenderJob(c)'
    BY DEF AtRenderJob
  <2>4. Made(c)' = 0 /\ Rendering(c)'
    BY <1>1, <2>1, <2>3 DEF Made, Rendering
  <2>5. Working(c)'
    BY <1>1, <2>1, <2>3 DEF Working, HasTx
  <2>6. QED
    BY <1>1, <2>1, <2>2, <2>4, <2>5, Begins
<1>3. CASE RunGoto("failing") /\ MainGoto(c, "ended") /\ UNCHANGED <<device, queue>>
  <2>1. ~OnCourse' /\ main'[c].pc = "ended"
    BY <1>1, <1>3, Stepped DEF RunGoto, RunRecord, OnCourse
  <2>2. main'[c].pc \notin InJob
    BY <2>1 DEF InJob, HasTx
  <2>3. Burst(c)' /\ Accounts(c)'
    BY <1>1, <1>3, <2>1, <2>2 DEF Burst, Accounts
  <2>4. QED
    BY <1>1, <2>1, <2>2, <2>3, Between
<1>4. QED
  BY <1>2, <1>3 DEF ReplayBegin

\* The TxWorker is joined, and its metrics are those of the run.
LEMMA ReplayJoined ==
    ASSUME IInv, IInv', NEW c \in Channel, Flow(c), UNCHANGED <<mode, bound, run>>, mode = "replay", JoinTx(c)
    PROVE  Flow(c)'
<1>1. /\ main[c].pc = "joinTx" /\ tx[c].pc = "done" /\ UNCHANGED <<workerVars, jobs>>
      /\ feed[c].pc = "idle" /\ ~main[c].failed
  BY Idle DEF JoinTx, Flow, Working
<1>2. /\ main'[c].pc = "ended" /\ main'[c].sent = tx[c].sent
      /\ main'[c].underruns = tx[c].underruns /\ main'[c].failed = tx[c].failed
  BY Here DEF JoinTx, MainType
<1>3. main'[c].pc \notin HasTx /\ main'[c].pc \notin InJob
  BY <1>2 DEF HasTx, InJob
<1>4. ASSUME ~stop, ~main'[c].failed
      PROVE  /\ tx[c].sent = Scheduled(c) /\ tx[c].underruns = 0 /\ device[c].burst = "closed"
             /\ OnCourse => device[c].air = Base(c) + tx[c].sent
  BY <1>1, <1>2, <1>4, AllSent DEF Length
<1>5. Burst(c)'
  BY <1>1, <1>2, <1>3, <1>4 DEF Flow, Burst, workerVars
<1>6. Accounts(c)'
  <2>1. Base(c) = 0 /\ Base(c)' = Scheduled(c)
    BY <1>1, <1>2 DEF Base, Scheduled
  <2>2. Given(c)' = 0 /\ OnCourse' = OnCourse /\ tx[c].sent \in Nat
    BY <1>3, Parts DEF Given, OnCourse
  <2>3. ASSUME ~stop, ~main'[c].failed, OnCourse PROVE device[c].air = tx[c].sent + 0
    BY <1>4, <2>1, <2>2, <2>3
  <2>4. QED
    BY <1>1, <1>2, <1>4, <2>1, <2>2, <2>3 DEF Accounts, workerVars
<1>7. QED
  BY <1>1, <1>2, <1>3, <1>5, <1>6, Between DEF workerVars

-----------------------------------------------------------------------------
(* The steps on one channel, all together. *)

\* What a step says of its own channel, it need not say of the others.
LEMMA Others ==
    ASSUME IInv, IInv', \A d \in Channel : Flow(d), NEW c \in Channel, Beside(c), Flow(c)',
           UNCHANGED <<jobs, mode, bound, active>>, stop => stop', OnCourse' => OnCourse
    PROVE  \A d \in Channel : Flow(d)'
<1> SUFFICES ASSUME NEW d \in Channel \ {c} PROVE Flow(d)'
  OBVIOUS
<1>1. /\ queue'[d] = queue[d] /\ render'[d] = render[d] /\ tx'[d] = tx[d]
      /\ device'[d] = device[d] /\ feed'[d] = feed[d] /\ main'[d] = main[d]
  BY DEF Beside
<1>2. Items(d)' = Items(d)
  BY <1>1 DEF Items
<1>3. QED
  BY <1>1, <1>2, Untouched

\* The steps both kinds of run by the clock have in common.
LEMMA JobFlow ==
    ASSUME IInv, IInv', NEW c \in Channel, Flow(c), mode = "realtime", JobStep(c),
           UNCHANGED <<controlVars, mode, bound>>
    PROVE  Flow(c)'
<1>1. UNCHANGED <<run, active>>
  BY DEF controlVars
<1>2. CASE LoopHead(c) \/ Delay(c) \/ LaunchRender(c) \/ Prime(c) \/ PrepareMix(c)
  BY <1>1, <1>2, ToJob, ToRender, InPrime, ToMix
<1>3. CASE MixLoop(c)
  <2>1. main[c].pc = "mix" /\ UNCHANGED <<stop, queue, render, tx, device, jobs>>
    BY <1>3 DEF MixLoop
  <2>2. TheJob(c).target - main[c].off = Length(c) - main[c].off
    BY DEF Length
  <2>3. QED
    BY <1>1, <1>3, <2>1, <2>2, FeedTurn DEF MixLoop
<1>4. CASE MixPushed(c) \/ StopAll(c) \/ CollectTx(c)
  BY <1>1, <1>4, FeedGoesOn, Shut, Collected
<1>5. CASE FeedStep(c) /\ UNCHANGED jobVars
  BY <1>5, FeedFlow
<1>6. QED
  BY <1>2, <1>3, <1>4, <1>5 DEF JobStep

LEMMA SingleFlow ==
    ASSUME IInv, IInv', NEW c \in Channel, Flow(c), IsSingle, SingleStep(c), UNCHANGED <<mode, bound>>
    PROVE  Flow(c)'
<1>1. mode = "realtime" /\ ~IsMulti
  BY DEF IsSingle, IsMulti
<1>2. CASE EnsureTxStarted(c)
  BY <1>1, <1>2, Ensured
<1>3. CASE CreateActiveWorker(c)
  <2>1. PICK step \in {"joinRender", "mix"} :
            StartTxWorker(c, step) /\ (step = "joinRender" <=> TheJob(c).kind = "render")
    BY <1>3 DEF CreateActiveWorker, StartTxOfJob
  <2>2. UNCHANGED run /\ active' = {c}
    BY <1>3 DEF CreateActiveWorker
  <2>3. QED
    BY <1>1, <2>1, <2>2, Created DEF AtRenderJob
<1>4. CASE JoinRenderWorker(c)
  BY <1>4, RenderJoined DEF JoinRenderWorker, controlVars
<1>5. CASE Decide(c)
  BY <1>5, Decided DEF Decide
<1>6. CASE MoveWorker(c)
  BY <1>1, <1>6, Shut DEF MoveWorker
<1>7. CASE TakeWorker(c)
  BY <1>7, Taking DEF TakeWorker
<1>8. CASE /\ \/ JobStep(c) \/ MixSentinelPushed(c, "take")
              \/ RenderSentinelPushed(c, "move") \/ NotifyTx(c, "move")
           /\ UNCHANGED controlVars
  BY <1>1, <1>8, JobFlow, SentinelPushed, Shut DEF controlVars
<1>9. QED
  BY <1>2, <1>3, <1>4, <1>5, <1>6, <1>7, <1>8 DEF SingleStep

LEMMA ThreadFlow ==
    ASSUME IInv, IInv', NEW c \in Channel, Flow(c), IsMulti, ChannelThread(c), UNCHANGED <<mode, bound>>
    PROVE  Flow(c)'
<1>1. mode = "realtime" /\ UNCHANGED controlVars /\ UNCHANGED <<run, active>>
  BY DEF IsMulti, ChannelThread, controlVars
<1>2. CASE StartTxOfJob(c)
  <2>1. PICK step \in {"joinRender", "mix"} :
            StartTxWorker(c, step) /\ (step = "joinRender" <=> TheJob(c).kind = "render")
    BY <1>2 DEF StartTxOfJob
  <2>2. QED
    BY <1>1, <2>1, Created DEF AtRenderJob
<1>3. QED
  BY <1>1, <1>2, JobFlow, ToJob, RenderJoined, SentinelPushed, Shut DEF ChannelThread

LEMMA ReplayFlow ==
    ASSUME IInv, IInv', NEW c \in Channel, Flow(c), IsReplay, ReplayStep(c), UNCHANGED <<mode, bound>>
    PROVE  Flow(c)'
<1>1. mode = "replay" /\ ~AtRenderJob(c)
  BY DEF IsReplay, AtRenderJob
<1>2. CASE RenderAll(c) \/ ReplayBegin(c)
  BY <1>1, <1>2, Rendered, ReplayBegun
<1>3. CASE CreateFedWorker(c)
  <2>1. StartTxWorker(c, "mix") /\ UNCHANGED run /\ active' = {c}
    BY <1>3 DEF CreateFedWorker
  <2>2. QED
    BY <1>1, <2>1, Created
<1>4. CASE TakeFedWorker(c) \/ JoinTx(c)
  BY <1>1, <1>4, Taking, ReplayJoined DEF TakeFedWorker, JoinTx
<1>5. CASE ReplayLoop(c) /\ UNCHANGED controlVars
  <2>1. main[c].pc = "mix" /\ UNCHANGED <<stop, queue, render, tx, device, jobs, run, active>>
    BY <1>5 DEF ReplayLoop, controlVars
  <2>2. Scheduled(c) = Length(c)
    BY <1>1 DEF Length
  <2>3. CASE \/ /\ Length(c) - main[c].off > 0 /\ ~stop
                /\ StartFeed(c, Block(Least(Length(c) - main[c].off, BlockSize), main[c].off = 0,
                                      Least(Length(c) - main[c].off, BlockSize) = Length(c) - main[c].off))
                /\ MainGoto(c, "mixPush")
             \/ stop /\ StartFeed(c, Sentinel) /\ MainGoto(c, "sentinel")
    BY <2>1, <2>3, FeedTurn
  <2>4. CASE ~stop /\ MainGoto(c, "take") /\ UNCHANGED feed
    <3>1. /\ main'[c].pc = "take" /\ main'[c].job = main[c].job /\ main'[c].off = main[c].off
          /\ main'[c].sent = main[c].sent /\ main'[c].underruns = main[c].underruns
          /\ main'[c].failed = main[c].failed /\ main[c].pc \in HasTx /\ main'[c].pc \in HasTx
      BY <2>1, <2>4, Stepped DEF HasTx
    <3>2. AtRenderJob(c)' = AtRenderJob(c) /\ Made(c)' = Made(c)
      BY <1>1, <2>1, <2>4, <3>1 DEF AtRenderJob, Made
    <3>3. Feeding(c)'
      BY <2>1, <2>4, Idle DEF Feeding
    <3>4. Working(c)'
      BY <1>1, <2>1, <2>4, <3>1, <3>2, Modal DEF Flow, Working, HasTx
    <3>5. QED
      BY <2>1, <3>1, <3>2, <3>3, <3>4, Onward DEF Items
  <2>5. QED
    BY <1>5, <2>2, <2>3, <2>4 DEF ReplayLoop
<1>6. CASE /\ MixPushed(c) \/ MixSentinelPushed(c, "take") \/ (FeedStep(c) /\ UNCHANGED jobVars)
           /\ UNCHANGED controlVars
  BY <1>6, FeedGoesOn, SentinelPushed, FeedFlow DEF controlVars
<1>7. QED
  BY <1>2, <1>3, <1>4, <1>5, <1>6 DEF ReplayStep

\* A thread of a channel leaves the other channels alone.
LEMMA ThreadBeside ==
    ASSUME IInv, NEW c \in Channel, ChannelThread(c)
    PROVE  Beside(c) /\ UNCHANGED jobs /\ (stop => stop')
<1>1. /\ queue \in [Channel -> QueueType] /\ render \in [Channel -> RenderType]
      /\ tx \in [Channel -> TxType] /\ device \in [Channel -> DeviceType]
      /\ feed \in [Channel -> FeedType] /\ main \in [Channel -> MainType]
  BY Here
<1>2. CASE FeedStep(c) /\ UNCHANGED jobVars
  BY <1>2, FeedEffect DEF Beside, jobVars
<1>3. CASE LoopHead(c) \/ Delay(c) \/ CollectTx(c) \/ ChannelBegin(c)
  BY <1>1, <1>3 DEF LoopHead, Delay, CollectTx, ChannelBegin, Beside, workerVars, MainGoto
<1>4. CASE LaunchRender(c) \/ PrepareMix(c)
  BY <1>1, <1>4 DEF LaunchRender, PrepareMix, Beside, MainGoto
<1>5. CASE Prime(c)
  BY <1>1, <1>5 DEF Prime, Beside, MainGoto, SleepNotEmpty
<1>6. CASE MixLoop(c) \/ MixPushed(c)
  BY <1>1, <1>6 DEF MixLoop, MixPushed, Beside, MainGoto, StartFeed, EndFeed, FeedGoto
<1>7. CASE StopAll(c) \/ StartTxOfJob(c) \/ NotifyTx(c, "joinTx")
  BY <1>1, <1>7 DEF StopAll, StartTxOfJob, StartTxWorker, NotifyTx, Beside, MainGoto, NotifyAll
<1>8. CASE ChannelJoinRender(c)
  BY <1>1, <1>8 DEF ChannelJoinRender, Beside, MainGoto, StartFeed
<1>9. CASE MixSentinelPushed(c, "joinTx") \/ RenderSentinelPushed(c, "joinTx")
  BY <1>1, <1>9 DEF MixSentinelPushed, RenderSentinelPushed, Beside, MainGoto, EndFeed, FeedGoto
<1>10. QED
  BY <1>2, <1>3, <1>4, <1>5, <1>6, <1>7, <1>8, <1>9 DEF ChannelThread, JobStep

\* A worker leaves the other channels alone.
LEMMA WorkerFlow ==
    ASSUME IInv, IInv', \A d \in Channel : Flow(d), NEW c \in Channel, WorkerStep(c), UNCHANGED <<mode, bound>>
    PROVE  \A d \in Channel : Flow(d)'
<1>1. UNCHANGED <<jobVars, controlVars, mode, bound>> /\ UNCHANGED <<jobs, mode, bound, active>> /\ OnCourse' = OnCourse
  BY DEF WorkerStep, jobVars, controlVars, OnCourse
<1>2. Beside(c) /\ (stop => stop') /\ Flow(c)'
  <2>1. CASE RenderStep(c)
    BY <1>1, <2>1, RenderEffect, RenderFlow DEF Beside, jobVars
  <2>2. CASE TxStep(c)
    BY <1>1, <2>2, TxEffect, TxFlow DEF Beside, jobVars
  <2>3. QED
    BY <2>1, <2>2 DEF WorkerStep
<1>3. QED
  BY <1>1, <1>2, Others

-----------------------------------------------------------------------------
(* The steps of run() outside the schedules, and those of abort(). *)

\* A step of theirs that leaves the channels alone, apart from TX on or off.
LEMMA Aside ==
    ASSUME IInv, IInv', \A c \in Channel : Flow(c), UNCHANGED <<render, tx, feed, jobVars, mode, bound>>,
           \A c \in Channel : /\ Items(c)' = Items(c)
                              /\ device'[c].air = device[c].air
                              /\ device'[c].burst = device[c].burst,
           stop => stop', OnCourse' => OnCourse, stop' \/ IsMulti \/ active' = active
    PROVE  \A c \in Channel : Flow(c)'
BY Untouched DEF jobVars

LEMMA Switched ==
    ASSUME IInv, NEW c \in Channel,
           StartTx(c) \/ (\E ok \in BOOLEAN : StopTx(c, ok)) \/ UNCHANGED device
    PROVE  \A d \in Channel : device'[d].air = device[d].air /\ device'[d].burst = device[d].burst
<1>1. device \in [Channel -> DeviceType]
  BY Here
<1>2. CASE StartTx(c)
  BY <1>1, <1>2 DEF StartTx, DeviceType
<1>3. ASSUME NEW ok \in BOOLEAN, StopTx(c, ok)
      PROVE  \A d \in Channel : device'[d].air = device[d].air /\ device'[d].burst = device[d].burst
  BY <1>1, <1>3 DEF StopTx, DeviceType
<1>4. QED
  BY <1>2, <1>3

\* While the schedules are worked through, no result is known.
LEMMA Undecided ==
    ASSUME Outcome, run.pc = "jobs", run'.pc \in {"jobs", "failing"}, run'.result = run.result
    PROVE  Outcome'
BY DEF Outcome

\* run() decides only when every thread has ended, and does not call a failure a success.
LEMMA Judged ==
    ASSUME IInv, IInv', Outcome, \A c \in Channel : Flow(c), UNCHANGED <<mode, bound>>,
           \/ RunEnter \/ RunEntered("jobs") \/ RunEntered("start") \/ RunEntered("failing")
           \/ RunEvents \/ ReturnStep \/ LaunchThreads \/ Rethrow
    PROVE  Outcome' /\ \A c \in Channel : Flow(c)'
<1>1. /\ UNCHANGED <<workerVars, jobVars, active, mode, bound>> /\ run \in RunRecord
      /\ run.pc # "returned" => ~run.result
  BY DEF RunEnter, RunEntered, RunEvents, ReturnStep, RunFinish, RunComplete, RunFailing, RunFail,
         LaunchThreads, Rethrow, OthersUnchanged, IInv, ControlTypes, Outcome
<1>2. \A step, result : /\ RunGoto(step) => run'.pc = step /\ run'.result = run.result
                        /\ Return(result) => run'.pc = "returned" /\ run'.result = result
  BY <1>1 DEF RunGoto, Return, RunRecord
<1>3. Outcome' /\ (OnCourse' => OnCourse)
  <2>1. CASE RunEnter \/ RunEntered("jobs") \/ RunEntered("start") \/ RunEntered("failing")
             \/ LaunchThreads \/ Rethrow
    BY <1>1, <1>2, <2>1 DEF RunEnter, RunEntered, LaunchThreads, Rethrow, Outcome, OnCourse
  <2>2. CASE RunEvents
    <3>1. run'.pc = "drain" /\ run'.result = run.result
      BY <1>1, <2>2 DEF RunEvents, RunRecord
    <3>2. QED
      BY <1>1, <2>2, <3>1 DEF RunEvents, Outcome, OnCourse, jobVars
  <2>3. CASE ReturnStep
    <3>1. CASE RunFinish
      <4>1. main' = main /\ run.pc = "drain" /\ \A c \in Channel : main[c].pc = "ended"
        BY <1>1, <3>1 DEF RunFinish, Outcome, jobVars
      <4>2. \/ run'.pc = "failing" /\ ~run'.result
            \/ run'.pc = "completing" /\ ~run'.result /\ \A c \in Channel : ~main[c].failed
            \/ run'.pc = "returned" /\ \A c \in Channel : ~main[c].failed
        BY <1>1, <1>2, <3>1 DEF RunFinish
      <4>3. QED
        BY <4>1, <4>2 DEF Outcome, OnCourse
    <3>2. CASE RunComplete
      <4>1. main' = main /\ run.pc = "completing" /\ run'.pc = "returned" /\ run'.result = TRUE
        BY <1>1, <1>2, <3>2 DEF RunComplete, jobVars
      <4>2. QED
        BY <4>1 DEF Outcome, OnCourse
    <3>3. CASE RunFailing \/ RunFail
      <4>1. run.pc \in {"failing", "fail"} /\ ~run'.result /\ run'.pc \in {"fail", "returned"}
        BY <1>1, <1>2, <3>3 DEF RunFailing, RunFail
      <4>2. QED
        BY <4>1 DEF Outcome, OnCourse
    <3>4. QED
      BY <2>3, <3>1, <3>2, <3>3 DEF ReturnStep
  <2>4. QED
    BY <2>1, <2>2, <2>3
<1>4. QED
  BY <1>1, <1>3, Aside DEF workerVars, Items

\* TX is started and stopped outside the schedules.
LEMMA SwitchFlow ==
    ASSUME IInv, IInv', Outcome, \A c \in Channel : Flow(c), UNCHANGED <<mode, bound>>, NEW c \in Channel,
           RunStopTx(c) \/ RollbackChannel(c) \/ StartChannel(c) \/ AbortStopTx(c)
    PROVE  Outcome' /\ \A d \in Channel : Flow(d)'
<1>1. UNCHANGED <<stop, queue, render, tx, feed, jobVars, active, mode, bound>> /\ run \in RunRecord
  BY DEF RunStopTx, RollbackChannel, StartChannel, AbortStopTx, OthersUnchanged, IInv, ControlTypes
<1>2. \A d \in Channel : device'[d].air = device[d].air /\ device'[d].burst = device[d].burst
  BY Switched DEF RunStopTx, RollbackChannel, StartChannel, AbortStopTx
<1>3. /\ run'.result = run.result
      /\ run'.pc = run.pc \/ (run.pc = "start" /\ run'.pc = "rollback")
  <2>1. CASE RunStopTx(c) \/ RollbackChannel(c) \/ AbortStopTx(c)
    BY <1>1, <2>1 DEF RunStopTx, RollbackChannel, AbortStopTx, RunRecord
  <2>2. CASE StartChannel(c)
    BY <1>1, <2>2 DEF StartChannel, RunGoto, RunRecord
  <2>3. QED
    BY <2>1, <2>2
<1>4. Outcome' /\ (OnCourse' => OnCourse)
  BY <1>1, <1>3 DEF Outcome, OnCourse, jobVars
<1>5. QED
  BY <1>1, <1>2, <1>4, Aside DEF Items

LEMMA AbortFlow ==
    ASSUME IInv, IInv', Outcome, \A c \in Channel : Flow(c), UNCHANGED <<mode, bound>>,
           AbortCall \/ AbortNotify \/ AbortCheck \/ AbortWrite \/ AbortLock \/ AbortJoin
    PROVE  Outcome' /\ \A c \in Channel : Flow(c)'
<1>1. /\ UNCHANGED <<render, tx, device, feed, jobVars, run, mode, bound>>
      /\ stop => stop'
      /\ stop' \/ active' = active
      /\ UNCHANGED queue \/ \E c \in Channel : NotifyAll(c)
  BY DEF AbortCall, AbortNotify, AbortCheck, AbortWrite, AbortLock, AbortJoin, workerVars, IInv,
         ControlTypes, Control
<1>2. \A d \in Channel : Items(d)' = Items(d)
  <2>1. queue \in [Channel -> QueueType]
    BY DEF IInv, WorkersInv, WorkersTypeOK, QueueTypeOK
  <2>2. ASSUME NEW c \in Channel, NotifyAll(c), NEW d \in Channel PROVE Items(d)' = Items(d)
    <3>1. queue[c] \in QueueType
      BY <2>1
    <3>2. QED
      BY <2>1, <2>2, <3>1 DEF NotifyAll, Items, QueueType
  <2>3. QED
    BY <1>1, <2>2 DEF Items
<1>3. Outcome' /\ OnCourse' = OnCourse
  BY <1>1 DEF Outcome, OnCourse, jobVars
<1>4. QED
  BY <1>1, <1>2, <1>3, Aside

-----------------------------------------------------------------------------
(* Every step, and the theorems. *)

LEMMA InitFlow == RunInit => FlowInv
<1> SUFFICES ASSUME RunInit PROVE FlowInv
  OBVIOUS
<1>1. IInv
  BY InitInv
<1>2. Outcome
  BY DEF RunInit, Init, Outcome
<1>3. ASSUME NEW c \in Channel PROVE Flow(c)
  <2>1. /\ main[c].pc = "next" /\ main[c].job = 1 /\ main[c].failed = FALSE /\ main[c].off = 0
        /\ main[c].sent = 0 /\ main[c].underruns = 0
        /\ feed[c].pc = "idle" /\ device[c].burst = "closed" /\ device[c].air = 0
    BY DEF RunInit, Init, WorkersInit, JobsInit
  <2>2. main[c].pc \notin InJob /\ main[c].pc \notin HasTx
    BY <2>1 DEF InJob, HasTx
  <2>3. Queued(c) /\ Sending(c) /\ Rendering(c) /\ Feeding(c) /\ Working(c) /\ Burst(c)
    BY <2>1, <2>2 DEF Queued, Sending, Rendering, Feeding, Working, Burst, Holding, Spoilt
  <2>4. Base(c) = 0
    <3>1. jobs[c] \in Seq(Job)
      BY <1>1, Here
    <3>2. UpTo(jobs[c])[0] = 0
      BY <3>1, UpToIsSum DEF IsSum
    <3>3. QED
      BY <2>1, <3>2 DEF Base
  <2>5. Accounts(c)
    BY <2>1, <2>2, <2>4 DEF Accounts, Given
  <2>6. QED
    BY <2>3, <2>5 DEF Flow
<1>4. QED
  BY <1>1, <1>2, <1>3 DEF FlowInv

LEMMA StepFlow == FlowInv /\ [RunNext]_runVars => FlowInv'
<1> SUFFICES ASSUME FlowInv, [RunNext]_runVars PROVE Outcome' /\ \A c \in Channel : Flow(c)'
  BY StepInv DEF FlowInv
<1>1. IInv /\ IInv' /\ Outcome /\ \A c \in Channel : Flow(c)
  BY StepInv DEF FlowInv
<1>2. ASSUME run.pc = "jobs", run'.pc \in {"jobs", "failing"}, run'.result = run.result
      PROVE  Outcome'
  BY <1>1, <1>2, Undecided
<1>3. CASE UNCHANGED runVars
  <2>1. UNCHANGED <<workerVars, jobVars, mode, bound, run, active>>
    BY <1>3 DEF runVars, vars, controlVars
  <2>2. Outcome' /\ OnCourse' = OnCourse
    BY <1>1, <2>1 DEF Outcome, OnCourse, jobVars
  <2>3. QED
    BY <1>1, <2>1, <2>2, Aside DEF workerVars, Items
<1> SUFFICES ASSUME RunNext PROVE Outcome' /\ \A c \in Channel : Flow(c)'
  BY <1>3
<1>4. UNCHANGED <<mode, bound>>
  BY DEF RunNext
<1>5. CASE \/ RunEnter \/ RunEntered("jobs") \/ RunEntered("start") \/ RunEntered("failing")
           \/ RunEvents \/ ReturnStep \/ LaunchThreads \/ Rethrow
  BY <1>1, <1>4, <1>5, Judged
<1>6. ASSUME NEW c \in Channel,
             RunStopTx(c) \/ RollbackChannel(c) \/ StartChannel(c) \/ AbortStopTx(c)
      PROVE  Outcome' /\ \A d \in Channel : Flow(d)'
  BY <1>1, <1>4, <1>6, SwitchFlow
<1>7. CASE AbortCall \/ AbortStep
  BY <1>1, <1>4, <1>6, <1>7, AbortFlow DEF AbortStep
<1>8. CASE IsSingle /\ SingleRun
  <2>1. ASSUME NEW c \in Channel, SingleStep(c) PROVE Outcome' /\ \A d \in Channel : Flow(d)'
    <3>1. \A d \in Channel : Flow(d)'
      BY <1>1, <1>4, <1>8, <2>1, SingleFlow, OneChannel
    <3>2. /\ run.pc = "jobs" /\ run \in RunRecord
          /\ \/ run' = run \/ run' = [run EXCEPT !.started = @ \cup {c}] \/ RunGoto("failing")
      BY <1>1, <2>1 DEF SingleStep, EnsureTxStarted, CreateActiveWorker, JoinRenderWorker, Decide,
         MoveWorker, TakeWorker, controlVars, IInv, ControlTypes
    <3>3. Outcome'
      BY <1>2, <3>2 DEF RunGoto, RunRecord
    <3>4. QED
      BY <3>1, <3>3
  <2>2. QED
    BY <1>5, <1>6, <1>8, <2>1 DEF SingleRun, EventsThenStop
<1>9. CASE IsMulti /\ MultiRun
  BY <1>5, <1>6, <1>9 DEF MultiRun, EventsThenStop
<1>10. CASE IsReplay /\ ReplayRun
  <2>1. ASSUME NEW c \in Channel, ReplayStep(c) PROVE Outcome' /\ \A d \in Channel : Flow(d)'
    <3>1. \A d \in Channel : Flow(d)'
      BY <1>1, <1>4, <1>10, <2>1, ReplayFlow, OneChannel
    <3>2. /\ run.pc = "jobs" /\ run \in RunRecord
          /\ \/ run' = run \/ run' = [run EXCEPT !.started = @ \cup {c}] \/ RunGoto("failing")
      BY <1>1, <2>1 DEF ReplayStep, RenderAll, ReplayBegin, CreateFedWorker, TakeFedWorker, JoinTx,
         controlVars, IInv, ControlTypes
    <3>3. Outcome'
      BY <1>2, <3>2 DEF RunGoto, RunRecord
    <3>4. QED
      BY <3>1, <3>3
  <2>2. QED
    BY <1>5, <1>6, <1>10, <2>1 DEF ReplayRun, StopThenEvents
<1>11. CASE RefusedReplay
  BY <1>5, <1>11 DEF RefusedReplay
<1>12. ASSUME NEW c \in Channel, ThreadOfChannel(c) PROVE Outcome' /\ \A d \in Channel : Flow(d)'
  <2>1. /\ IsMulti /\ ChannelThread(c) /\ run.pc = "jobs" /\ UNCHANGED controlVars
        /\ run' = run /\ active' = active
    BY <1>12 DEF ThreadOfChannel, ChannelThread, controlVars
  <2>2. Flow(c)' /\ Beside(c) /\ UNCHANGED jobs /\ (stop => stop')
    BY <1>1, <1>4, <2>1, ThreadFlow, ThreadBeside
  <2>3. OnCourse' = OnCourse
    BY <2>1 DEF OnCourse
  <2>4. \A d \in Channel : Flow(d)'
    BY <1>1, <1>4, <2>1, <2>2, <2>3, Others
  <2>5. QED
    BY <1>2, <2>1, <2>4
<1>13. ASSUME NEW c \in Channel, WorkerStep(c) PROVE Outcome' /\ \A d \in Channel : Flow(d)'
  <2>1. \A d \in Channel : Flow(d)'
    BY <1>1, <1>4, <1>13, WorkerFlow
  <2>2. main' = main /\ run' = run
    BY <1>13 DEF WorkerStep, jobVars, controlVars
  <2>3. QED
    BY <1>1, <2>1, <2>2 DEF Outcome
<1>14. CASE Finished
  BY <1>3, <1>4, <1>14 DEF Finished, runVars
<1>15. QED
  BY <1>7, <1>8, <1>9, <1>10, <1>11, <1>12, <1>13, <1>14 DEF RunNext, RunThread

LEMMA FlowInvariant == Spec => []FlowInv
BY InitFlow, StepFlow, PTL DEF Spec

\* A run that returns true and was not stopped has put all samples of the
\* schedule of every channel on the air, in complete bursts, and its metrics
\* say so: whatever the blocks, the capacity of the queues and the schedules,
\* no block is lost between the threads, none is sent twice, and no failure of
\* a worker goes unnoticed.
THEOREM AllSamplesSent == Spec => []SuccessMeansSent
<1>1. ASSUME FlowInv, run.pc = "returned", run.result, ~stop, NEW c \in Channel
      PROVE  /\ device[c].air = Scheduled(c) /\ device[c].burst = "closed"
             /\ main[c].sent = device[c].air /\ main[c].underruns = 0
  <2>1. IInv /\ Flow(c) /\ OnCourse /\ main[c].pc = "ended" /\ ~main[c].failed
    BY <1>1 DEF FlowInv, Outcome, OnCourse
  <2>2. main[c].pc \notin HasTx
    BY <2>1 DEF HasTx
  <2>3. Base(c) = Scheduled(c) /\ Scheduled(c) \in Nat
    <3>1. jobs[c] \in Seq(Job) /\ Scheduled(c) \in Nat /\ Len(jobs[c]) \in Nat
      BY <2>1, Here, TotalIsNat DEF Scheduled
    <3>2. CASE mode = "replay"
      BY <2>1, <3>1, <3>2 DEF Base
    <3>3. CASE mode = "realtime"
      <4>1. main[c].job - 1 = Len(jobs[c])
        BY <1>1, <2>1, <3>1, <3>3 DEF Flow, Accounts
      <4>2. QED
        BY <3>1, <3>3, <4>1 DEF Base, Scheduled, Total
    <3>4. QED
      BY <2>1, <3>2, <3>3, Modal
  <2>4. device[c].air = Base(c) + 0 /\ main[c].sent = Base(c) /\ main[c].underruns = 0
    BY <1>1, <2>1, <2>2 DEF Flow, Accounts, Spoilt, Given
  <2>5. device[c].burst = "closed"
    BY <1>1, <2>1 DEF Flow, Burst
  <2>6. QED
    BY <2>3, <2>4, <2>5
<1>2. FlowInv => SuccessMeansSent
  BY <1>1 DEF SuccessMeansSent
<1>3. QED
  BY <1>2, FlowInvariant, PTL

\* Whatever fails, falls short or is stopped, and whichever job follows, the
\* device never sees a burst begin inside another one or samples outside one.
THEOREM BurstsStayWhole == Spec => []BurstsWellFormed
<1>1. FlowInv => BurstsWellFormed
  BY DEF FlowInv, Flow, Burst, BurstsWellFormed
<1>2. QED
  BY <1>1, FlowInvariant, PTL

-----------------------------------------------------------------------------
(***************************************************************************)
(* That the channels of a run that nothing stops go on, for any number of  *)
(* channels, any schedules, and blocks and queues of any size.             *)
(*                                                                         *)
(* A thread that waits for a queue or for a worker goes on only because a  *)
(* worker does.  The invariant says who may be asleep and where (Asleep),  *)
(* that whoever sleeps although its wait is over is about to be woken      *)
(* (Woken), which workers there are and how they have ended (Staffed),     *)
(* that everything is fed before the sentinel (Providing), and how the     *)
(* TxWorker ends (Ending): once everything is sent, or by a sentinel, and  *)
(* there is one only when the thread, or a render that failed, has made    *)
(* it.  So a TxWorker that sleeps on an empty queue has something to come, *)
(* and where the queue is full it is awake.                                *)
(***************************************************************************)

\* Who is asleep, and where.
Asleep(c) ==
    /\ queue[c].notEmpty \subseteq {"tx", "main"}
    /\ queue[c].notFull \subseteq {"render", "main"}
    /\ "tx" \in queue[c].notEmpty => tx[c].pc = "asleep" /\ main[c].pc \in HasTx
    /\ "main" \in queue[c].notEmpty => main[c].pc = "primeAsleep"
    /\ "render" \in queue[c].notFull => render[c].pc = "asleep"
    /\ "main" \in queue[c].notFull => feed[c].pc = "asleep"

\* A thread that is asleep although its wait is over is about to be woken.
Woken(c) ==
    /\ "tx" \in queue[c].notEmpty /\ Items(c) # <<>> =>
           render[c].pc = "pushed" \/ feed[c].pc = "pushed"
    /\ "main" \in queue[c].notEmpty =>
           /\ Len(Items(c)) >= Capacity \div 2 => render[c].pc = "pushed"
           /\ render[c].complete => render[c].pc = "finish"
    /\ queue[c].notFull # {} /\ ~IsFull(c) => tx[c].pc = "popped"

\* Which workers there are, and that one which has failed stops the run.
Staffed(c) ==
    /\ main[c].pc # "notify"
    /\ main[c].pc \in HasTx => tx[c].pc # "none"
    /\ main[c].pc \in HasTx /\ tx[c].pc \in {"notify", "done"} => ~tx[c].failed
    /\ main[c].pc \in InJob /\ AtRenderJob(c) =>
          /\ render[c].pc \in {"finish", "done"} => render[c].complete
          /\ render[c].pc \in {"push", "pushed", "full", "asleep"} /\ render[c].block.n = 0
                => render[c].failed
          /\ main[c].pc \in {"renderSentinel", "move", "joinTx"} => ~render[c].failed

\* The thread that feeds the queue feeds all there is before the sentinel.
Providing(c) ==
    /\ mode = "replay" /\ main[c].pc \in {"begin"} \cup InJob => Length(c) > 0
    /\ main[c].pc = "mixPush" => feed[c].block.n > 0
    /\ main[c].pc \in {"sentinel", "take", "joinTx"} /\ ~AtRenderJob(c) => main[c].off = Length(c)

\* The thread has pushed a sentinel, or a worker that falls short has, or has
\* nothing to end.
SentinelFed(c) == \/ main[c].pc \in {"sentinel", "renderSentinel"} /\ feed[c].pc \in {"pushed", "ok"}
                  \/ main[c].pc \in {"move", "take", "joinTx"}
SentinelMade(c) == \/ SentinelFed(c)
                   \/ /\ AtRenderJob(c) /\ render[c].failed
                      /\ \/ render[c].pc = "pushed" /\ render[c].block.n = 0
                         \/ render[c].pc \in {"complete", "finish", "done"}

\* Without a sentinel the TxWorker ends only when everything is sent, and with
\* everything sent it ends; when there is nothing to send a sentinel ends it.
Ending(c) ==
    /\ main[c].pc \in InJob /\ ~SentinelMade(c) =>
          /\ \A i \in DOMAIN Items(c) : Items(c)[i].n > 0
          /\ Holding(c) => tx[c].block.n > 0
          /\ main[c].pc \in HasTx /\ tx[c].pc = "done" => Given(c) = Length(c)
    /\ main[c].pc \in HasTx /\ ~Spoilt(c) /\ tx[c].pc # "done" =>
          /\ Length(c) > 0 => Given(c) < Length(c)
          /\ Length(c) = 0 /\ SentinelFed(c) => Items(c) # <<>> \/ Holding(c)

Lively(c) == ~stop => /\ Asleep(c) /\ Woken(c) /\ Staffed(c)
                      /\ Providing(c) /\ Ending(c)

\* A schedule is worked through in one of the three kinds of run.
Underway == run.pc = "jobs" => IsSingle \/ IsMulti \/ IsReplay

LiveInv == FlowInv /\ Underway /\ \A c \in Channel : Lively(c)

-----------------------------------------------------------------------------
(* What a step on the queue does to it. *)

LEMMA QueueAt ==
    ASSUME IInv, NEW c \in Channel
    PROVE  /\ Len(Items(c)) \in Nat /\ Items(c) \in Seq(BlockType)
           /\ \A b \in BlockType : PushItem(c, b) =>
                 /\ ~IsFull(c) /\ Items(c)' = Append(Items(c), b)
                 /\ queue'[c].notEmpty = queue[c].notEmpty /\ queue'[c].notFull = queue[c].notFull
           /\ PopItem(c) =>
                 /\ Items(c) # <<>> /\ Items(c)' = Tail(Items(c))
                 /\ queue'[c].notEmpty = queue[c].notEmpty /\ queue'[c].notFull = queue[c].notFull
           /\ NotifyAll(c) =>
                 Items(c)' = Items(c) /\ queue'[c].notEmpty = {} /\ queue'[c].notFull = {}
           /\ WakeNotEmpty(c) =>
                 /\ Items(c)' = Items(c) /\ queue'[c].notFull = queue[c].notFull
                 /\ queue'[c].notEmpty \in AfterNotifyOne(queue[c].notEmpty)
           /\ WakeNotFull(c) =>
                 /\ Items(c)' = Items(c) /\ queue'[c].notEmpty = queue[c].notEmpty
                 /\ queue'[c].notFull \in AfterNotifyOne(queue[c].notFull)
           /\ \A t : SleepNotEmpty(c, t) =>
                 /\ Items(c)' = Items(c) /\ queue'[c].notFull = queue[c].notFull
                 /\ queue'[c].notEmpty = queue[c].notEmpty \cup {t}
           /\ \A t : SleepNotFull(c, t) =>
                 /\ Items(c)' = Items(c) /\ queue'[c].notEmpty = queue[c].notEmpty
                 /\ queue'[c].notFull = queue[c].notFull \cup {t}
           /\ queue' = [queue EXCEPT ![c] = NewQueue] =>
                 Items(c)' = <<>> /\ queue'[c].notEmpty = {} /\ queue'[c].notFull = {}
           /\ UNCHANGED queue =>
                 /\ Items(c)' = Items(c) /\ queue'[c].notEmpty = queue[c].notEmpty
                 /\ queue'[c].notFull = queue[c].notFull
<1>1. queue \in [Channel -> QueueType] /\ Items(c) \in Seq(BlockType)
  BY Here, Parts
<1>2. /\ \A b \in BlockType : PushItem(c, b) =>
                 /\ ~IsFull(c) /\ Items(c)' = Append(Items(c), b)
                 /\ queue'[c].notEmpty = queue[c].notEmpty /\ queue'[c].notFull = queue[c].notFull
      /\ PopItem(c) =>
                 /\ Items(c) # <<>> /\ Items(c)' = Tail(Items(c))
                 /\ queue'[c].notEmpty = queue[c].notEmpty /\ queue'[c].notFull = queue[c].notFull
  BY <1>1 DEF PushItem, PopItem, Items, QueueType
<1>3. /\ NotifyAll(c) =>
                 Items(c)' = Items(c) /\ queue'[c].notEmpty = {} /\ queue'[c].notFull = {}
      /\ WakeNotEmpty(c) =>
                 /\ Items(c)' = Items(c) /\ queue'[c].notFull = queue[c].notFull
                 /\ queue'[c].notEmpty \in AfterNotifyOne(queue[c].notEmpty)
      /\ WakeNotFull(c) =>
                 /\ Items(c)' = Items(c) /\ queue'[c].notEmpty = queue[c].notEmpty
                 /\ queue'[c].notFull \in AfterNotifyOne(queue[c].notFull)
  BY <1>1 DEF NotifyAll, WakeNotEmpty, WakeNotFull, Items, QueueType
<1>4. /\ \A t : SleepNotEmpty(c, t) =>
                 /\ Items(c)' = Items(c) /\ queue'[c].notFull = queue[c].notFull
                 /\ queue'[c].notEmpty = queue[c].notEmpty \cup {t}
      /\ \A t : SleepNotFull(c, t) =>
                 /\ Items(c)' = Items(c) /\ queue'[c].notEmpty = queue[c].notEmpty
                 /\ queue'[c].notFull = queue[c].notFull \cup {t}
  BY <1>1 DEF SleepNotEmpty, SleepNotFull, Items, QueueType
<1>5. /\ queue' = [queue EXCEPT ![c] = NewQueue] =>
                 Items(c)' = <<>> /\ queue'[c].notEmpty = {} /\ queue'[c].notFull = {}
      /\ UNCHANGED queue =>
                 /\ Items(c)' = Items(c) /\ queue'[c].notEmpty = queue[c].notEmpty
                 /\ queue'[c].notFull = queue[c].notFull
  BY <1>1 DEF NewQueue, Items
<1>6. Len(Items(c)) \in Nat
  BY <1>1
<1>7. QED
  BY <1>1, <1>2, <1>3, <1>4, <1>5, <1>6

\* A set with one thread in it is empty after a notification.
LEMMA OneIsWoken ==
    ASSUME NEW S, NEW t, S \subseteq {t}, NEW T \in AfterNotifyOne(S)
    PROVE  T = {}
BY DEF AfterNotifyOne

-----------------------------------------------------------------------------
(* While a thread waits. *)

\* A chain without sentinels goes up.
LEMMA ChainRises ==
    ASSUME NEW blocks \in Seq(BlockType), blocks # <<>>, NEW from, NEW to,
           NEW length \in Nat, NEW ends, Chain(blocks, from, to, length, ends),
           \A i \in DOMAIN blocks : blocks[i].n > 0
    PROVE  from < to
<1> DEFINE k == Len(blocks)
<1>1. PICK at \in [0 .. k -> 0 .. length] :
          /\ at[0] = from /\ at[k] = to
          /\ \A i \in 1 .. k : at[i] = at[i - 1] + blocks[i].n
  BY DEF Chain
<1>2. k \in Nat /\ k > 0 /\ \A i \in 1 .. k : blocks[i].n \in Nat /\ blocks[i].n > 0
  BY BlockNumbers
<1> DEFINE S == {n \in 0 .. k : from + n <= at[n]}
<1>3. 0 \in S
  <2>1. 0 \in 0 .. k
    BY <1>2
  <2>2. at[0] \in 0 .. length
    BY <1>1, <2>1
  <2>3. from + 0 <= at[0]
    BY <1>1, <2>2
  <2>4. QED
    BY <2>1, <2>3
<1>4. ASSUME NEW n \in 0 .. k, n \in S, n < k PROVE n + 1 \in S
  <2>1. n + 1 \in 1 .. k /\ n + 1 - 1 = n
    BY <1>2, <1>4
  <2>2. at[n + 1] = at[n] + blocks[n + 1].n /\ at[n] \in Nat /\ from \in Nat
    BY <1>1, <1>2, <2>1
  <2>3. QED
    BY <1>2, <1>4, <2>1, <2>2
<1>5. 0 .. k \subseteq S
  <2> HIDE DEF S, k
  <2>1. QED
    BY <1>2, <1>3, <1>4, UpToBound
<1>6. from + k <= to /\ from \in Nat /\ to \in Nat
  BY <1>1, <1>2, <1>5
<1>7. QED
  BY <1>2, <1>6

LEMMA LockIsFree ==
    ASSUME LiveInv, ~stop, run.pc = "jobs", NEW c \in Channel, ~IsMulti,
           main[c].pc \in {"create", "decide", "take"}
    PROVE  txLock = "none"
<1>1. IInv /\ (IsSingle \/ IsReplay)
  BY DEF LiveInv, FlowInv, Underway
<1>2. txLock # "abort"
  BY <1>1 DEF IInv, Locks, Control
<1>3. txLock # "run"
  BY <1>1, OneChannel DEF IInv, Locks, Moving
<1>4. QED
  BY <1>1, <1>2, <1>3 DEF IInv, ControlTypes

\* Whoever sleeps on a full queue has a TxWorker that is at work.
LEMMA FullIsEmptied ==
    ASSUME LiveInv, ~stop, NEW c \in Channel, queue[c].notFull # {}, main[c].pc \in HasTx,
           render[c].pc # "pushed", feed[c].pc # "pushed", ~SentinelMade(c)
    PROVE  TxRuns(c)
<1>1. IInv /\ Flow(c) /\ Asleep(c) /\ Woken(c) /\ Staffed(c) /\ Ending(c)
  BY DEF LiveInv, FlowInv, Lively
<1>2. CASE ~IsFull(c)
  <2>1. tx[c].pc = "popped"
    BY <1>1, <1>2 DEF Woken
  <2>2. QED
    BY <1>1, <2>1 DEF TxRuns, Asleep
<1>3. CASE IsFull(c)
  <2>1. Items(c) \in Seq(BlockType) /\ Items(c) # <<>> /\ tx[c].sent \in Nat
    BY <1>1, <1>3, Parts, WorkersAssumption DEF IsFull
  <2>2. "tx" \notin queue[c].notEmpty /\ tx[c].pc # "none"
    BY <1>1, <2>1 DEF Woken, Staffed
  <2>3. main[c].pc \in InJob
    BY DEF InJob
  <2>4. ASSUME tx[c].pc = "done" PROVE FALSE
    <3>1. ~Spoilt(c) /\ ~Holding(c) /\ Given(c) = Length(c)
      BY <1>1, <2>3, <2>4 DEF Staffed, Spoilt, Holding, Ending
    <3>2. /\ Made(c) \in 0 .. Length(c) /\ Chain(Items(c), Taken(c), Made(c), Length(c), Ends(c))
          /\ \A i \in DOMAIN Items(c) : Items(c)[i].n > 0
      BY <1>1, <2>3, <3>1 DEF Flow, Queued, Ending
    <3>3. Length(c) \in Nat
      BY <1>1, <2>3, LengthIsNat DEF InJob, HasTx
    <3>4. Taken(c) < Made(c)
      BY <2>1, <3>2, <3>3, ChainRises
    <3>5. Taken(c) = Length(c)
      BY <3>1, <3>3 DEF Taken
    <3>6. QED
      BY <3>2, <3>3, <3>4, <3>5
  <2>5. QED
    BY <2>2, <2>4 DEF TxRuns
<1>4. QED
  BY <1>2, <1>3

LEMMA RenderIsAwake ==
    ASSUME LiveInv, ~stop, NEW c \in Channel, main[c].pc = "primeAsleep", "main" \in queue[c].notEmpty
    PROVE  RenderRuns(c)
<1>1. IInv /\ Flow(c) /\ Asleep(c) /\ Woken(c) /\ Staffed(c)
  BY DEF LiveInv, FlowInv, Lively
<1>2. main[c].pc \in InJob /\ AtRenderJob(c)
  BY <1>1 DEF InJob, Flow, Working
<1>3. render[c].pc \notin {"none", "done"}
  BY <1>1, <1>2 DEF Flow, Rendering, Staffed, Woken
<1>4. ASSUME "render" \in queue[c].notFull PROVE FALSE
  <2>1. render[c].pc = "asleep" /\ tx[c].pc # "popped"
    BY <1>1, <1>4, Here DEF Asleep, Owned, Gone, HasTx
  <2>2. IsFull(c)
    BY <1>1, <1>4, <2>1 DEF Woken
  <2>3. Len(Items(c)) >= Capacity \div 2
    BY <1>1, <2>2, QueueAt, WorkersAssumption DEF IsFull
  <2>4. QED
    BY <1>1, <2>1, <2>3 DEF Woken
<1>5. QED
  BY <1>3, <1>4 DEF RenderRuns

LEMMA LastBlockIsSent ==
    ASSUME LiveInv, ~stop, NEW c \in Channel, main[c].pc = "joinTx", tx[c].pc # "done"
    PROVE  TxRuns(c)
<1>1. IInv /\ Flow(c) /\ Asleep(c) /\ Woken(c) /\ Staffed(c) /\ Providing(c) /\ Ending(c)
  BY DEF LiveInv, FlowInv, Lively
<1>2. main[c].pc \in InJob /\ main[c].pc \in HasTx
  BY DEF InJob, HasTx
<1>3. ASSUME "tx" \in queue[c].notEmpty PROVE FALSE
  <2>1. tx[c].pc = "asleep" /\ feed[c].pc = "idle" /\ render[c].pc \in Gone
    BY <1>1, <1>3, Here DEF Asleep, Flow, Feeding, Owned
  <2>2. Items(c) = <<>> /\ ~Spoilt(c) /\ ~Holding(c) /\ SentinelFed(c)
    BY <1>1, <1>3, <2>1 DEF Woken, Gone, Flow, Sending, Holding, SentinelFed
  <2>3. Length(c) \in Nat /\ tx[c].sent \in Nat
    BY <1>1, LengthIsNat, Parts
  <2>4. Made(c) = Length(c)
    <3>1. CASE AtRenderJob(c)
      <4>1. ~render[c].failed /\ render[c].pc = "done" /\ render[c].rendered \in Ends(c)
        BY <1>1, <1>2, <2>1, <3>1 DEF Staffed, Gone, Flow, Rendering
      <4>2. QED
        BY <1>1, <2>3, <3>1, <4>1, Parts DEF Ends, Made
    <3>2. CASE ~AtRenderJob(c)
      BY <1>1, <2>1, <2>3, <3>2, Parts DEF Made, Providing
    <3>3. QED
      BY <3>1, <3>2
  <2>5. Given(c) = Length(c)
    <3>1. Chain(<<>>, Taken(c), Made(c), Length(c), Ends(c))
      BY <1>1, <1>2, <2>2 DEF Flow, Queued
    <3>2. Taken(c) = Made(c)
      BY <3>1 DEF Chain
    <3>3. Taken(c) = Given(c)
      BY <1>2, <2>2, <2>3 DEF Taken, Given
    <3>4. QED
      BY <2>4, <3>2, <3>3
  <2>6. QED
    BY <1>1, <1>2, <2>1, <2>2, <2>3, <2>5 DEF Ending
<1>4. QED
  BY <1>1, <1>2, <1>3 DEF TxRuns, Staffed

LEMMA NobodyIsStuck == LiveInv => NeverStuck
<1> SUFFICES ASSUME LiveInv, ~stop, run.pc = "jobs", NEW c \in Channel, ThreadWaits(c)
             PROVE  RenderRuns(c) \/ TxRuns(c)
  BY DEF NeverStuck
<1>1. IInv /\ Flow(c) /\ Asleep(c) /\ Woken(c) /\ Staffed(c)
  BY DEF LiveInv, FlowInv, Lively
<1>2. CASE main[c].pc \in {"create", "decide", "take"} /\ ~IsMulti /\ txLock # "none"
  BY <1>2, LockIsFree
<1>3. CASE main[c].pc = "joinRender" /\ render[c].pc # "done"
  <2>1. main[c].pc \in HasTx /\ main[c].pc \in InJob /\ AtRenderJob(c) /\ feed[c].pc = "idle"
    BY <1>1, <1>3 DEF InJob, HasTx, Flow, Working, Feeding
  <2>2. render[c].pc \notin {"none", "done"}
    BY <1>1, <1>3, <2>1 DEF Flow, Rendering
  <2>3. CASE "render" \notin queue[c].notFull
    BY <2>2, <2>3 DEF RenderRuns
  <2>4. CASE "render" \in queue[c].notFull
    <3>1. render[c].pc = "asleep" /\ queue[c].notFull # {}
      BY <1>1, <2>4 DEF Asleep
    <3>2. ~SentinelMade(c)
      BY <1>3, <3>1 DEF SentinelMade, SentinelFed
    <3>3. QED
      BY <2>1, <3>1, <3>2, FullIsEmptied
  <2>5. QED
    BY <2>3, <2>4
<1>4. CASE main[c].pc = "joinTx" /\ tx[c].pc # "done"
  BY <1>4, LastBlockIsSent
<1>5. CASE main[c].pc = "primeAsleep" /\ "main" \in queue[c].notEmpty
  BY <1>5, RenderIsAwake
<1>6. CASE feed[c].pc = "asleep" /\ "main" \in queue[c].notFull
  <2>1. main[c].pc \in {"mixPush", "sentinel", "renderSentinel"} /\ main[c].pc \in HasTx
    BY <1>1, <1>6 DEF Flow, Feeding, HasTx
  <2>2. render[c].pc \in Gone /\ queue[c].notFull # {}
    BY <1>1, <1>6, <2>1, Here DEF Owned
  <2>3. ~SentinelMade(c)
    <3>1. ~SentinelFed(c)
      BY <1>6, <2>1 DEF SentinelFed
    <3>2. AtRenderJob(c) => ~render[c].failed
      BY <1>1, <2>1 DEF Flow, Working, Staffed, InJob, HasTx
    <3>3. QED
      BY <3>1, <3>2 DEF SentinelMade
  <2>4. QED
    BY <1>6, <2>1, <2>2, <2>3, FullIsEmptied DEF Gone
<1>7. QED
  BY <1>2, <1>3, <1>4, <1>5, <1>6 DEF ThreadWaits

-----------------------------------------------------------------------------
(* The steps of other threads, and those of the thread of a channel. *)

LEMMA Live ==
    ASSUME NEW c \in Channel, Lively(c), ~stop
    PROVE  Asleep(c) /\ Woken(c) /\ Staffed(c) /\ Providing(c) /\ Ending(c)
BY DEF Lively

LEMMA Elsewhere ==
    ASSUME NEW c \in Channel, Lively(c), ~stop, UNCHANGED <<jobs, mode, bound>>,
           main'[c] = main[c], render'[c] = render[c], tx'[c] = tx[c], feed'[c] = feed[c],
           queue'[c] = queue[c]
    PROVE  Lively(c)'
<1>1. Items(c)' = Items(c) /\ IsFull(c)' = IsFull(c)
  BY DEF Items, IsFull
<1>2. AtRenderJob(c)' = AtRenderJob(c) /\ Length(c)' = Length(c)
  BY DEF AtRenderJob, Length, TheJob, Scheduled
<1>3. Given(c)' = Given(c) /\ Holding(c)' = Holding(c) /\ Spoilt(c)' = Spoilt(c)
  BY DEF Given, Holding, Spoilt
<1>4. SentinelFed(c)' = SentinelFed(c) /\ SentinelMade(c)' = SentinelMade(c)
  BY <1>2 DEF SentinelFed, SentinelMade
<1>5. Asleep(c)' /\ Woken(c)'
  BY <1>1, Live DEF Asleep, Woken
<1>6. Staffed(c)' /\ Providing(c)'
  BY <1>2, Live DEF Staffed, Providing
<1>7. Ending(c)'
  BY <1>1, <1>2, <1>3, <1>4, Live DEF Ending
<1>8. QED
  BY <1>5, <1>6, <1>7 DEF Lively

\* Outside a job nobody is asleep but a thread that was left behind.
LEMMA Outside ==
    ASSUME NEW c \in Channel, Lively(c), ~stop,
           main'[c].pc \notin InJob, main'[c].pc \notin {"notify", "mixPush"},
           main[c].pc # "primeAsleep", tx[c].pc # "asleep" \/ main[c].pc \notin InJob,
           queue'[c] = queue[c], render'[c] = render[c], tx'[c] = tx[c], feed'[c] = feed[c],
           mode' = "replay" /\ main'[c].pc = "begin" => Length(c)' > 0
    PROVE  Lively(c)'
<1>1. Items(c)' = Items(c) /\ IsFull(c)' = IsFull(c)
  BY DEF Items, IsFull
<1>2. main'[c].pc \notin HasTx
  BY DEF InJob
<1>3. "tx" \notin queue[c].notEmpty /\ "main" \notin queue[c].notEmpty
  BY Live DEF Asleep, InJob
<1>4. Asleep(c)' /\ Woken(c)'
  BY <1>1, <1>3, Live DEF Asleep, Woken
<1>5. Staffed(c)' /\ Ending(c)'
  BY <1>2 DEF Staffed, Ending
<1>6. Providing(c)'
  BY <1>2 DEF Providing, HasTx
<1>7. QED
  BY <1>4, <1>5, <1>6 DEF Lively

\* A new queue.
LEMMA Anew ==
    ASSUME IInv, NEW c \in Channel, Flow(c), main[c].pc \notin InJob,
           main'[c].pc \in {"prime", "create"}, queue' = [queue EXCEPT ![c] = NewQueue],
           AtRenderJob(c)' => render'[c].pc = "start", mode' = "replay" => Length(c)' > 0
    PROVE  Lively(c)'
<1>1. Items(c)' = <<>> /\ queue'[c].notEmpty = {} /\ queue'[c].notFull = {}
  BY QueueAt
<1>2. main'[c].pc \notin HasTx
  BY DEF HasTx
<1>3. Asleep(c)' /\ Woken(c)'
  BY <1>1 DEF Asleep, Woken
<1>4. Staffed(c)' /\ Providing(c)'
  BY <1>2 DEF Staffed, Providing, HasTx
<1>5. Ending(c)'
  BY <1>1, <1>2 DEF Ending, Holding
<1>6. QED
  BY <1>3, <1>4, <1>5 DEF Lively

\* A TxWorker is started.
LEMMA Manned ==
    ASSUME IInv, NEW c \in Channel, Flow(c), Lively(c), ~stop, StartTxWorker(c, "joinRender") \/ StartTxWorker(c, "mix"),
           UNCHANGED <<mode, bound>>
    PROVE  Lively(c)'
<1>1. /\ main[c].pc = "create" /\ main'[c].pc \in {"joinRender", "mix"}
      /\ main'[c].job = main[c].job /\ main'[c].off = main[c].off
      /\ tx'[c].pc = "pop" /\ tx'[c].sent = 0 /\ tx'[c].failed = FALSE
      /\ UNCHANGED <<queue, render, feed, jobs, mode, bound>>
  <2>1. /\ main \in [Channel -> MainType] /\ tx \in [Channel -> TxType] /\ main[c] \in MainType
    BY Here
  <2>2. PICK step \in {"joinRender", "mix"} : StartTxWorker(c, step)
    OBVIOUS
  <2>3. /\ main' = [main EXCEPT ![c].pc = step] /\ tx' = [tx EXCEPT ![c] = TxWorker("pop")]
        /\ main[c].pc = "create" /\ UNCHANGED <<queue, render, feed, jobs>>
    BY <2>2 DEF StartTxWorker, MainGoto
  <2>4. main'[c].pc = step /\ main'[c].job = main[c].job /\ main'[c].off = main[c].off
    BY <2>1, <2>3 DEF MainType
  <2>5. tx'[c] = TxWorker("pop")
    BY <2>1, <2>3
  <2>6. QED
    BY <2>3, <2>4, <2>5 DEF TxWorker
<1>2. /\ Items(c)' = Items(c) /\ IsFull(c)' = IsFull(c) /\ AtRenderJob(c)' = AtRenderJob(c)
      /\ Length(c)' = Length(c)
  BY <1>1 DEF Items, IsFull, AtRenderJob, Length, TheJob, Scheduled
<1>3. tx[c].pc \in Gone /\ main[c].pc \in InJob /\ main'[c].pc \in InJob
  BY <1>1, Here DEF Owned, InJob, HasTx
<1>4. Asleep(c)' /\ Woken(c)'
  BY <1>1, <1>2, <1>3, Live DEF Asleep, Woken, Gone
<1>5. Staffed(c)' /\ Providing(c)'
  BY <1>1, <1>2, <1>3, Live DEF Staffed, Providing
<1>6. SentinelMade(c) => SentinelMade(c)'
  BY <1>1, <1>2 DEF SentinelMade, SentinelFed
<1>7. ~SentinelFed(c)' /\ ~Holding(c)' /\ Given(c)' = 0
  BY <1>1 DEF SentinelFed, Holding, Given
<1>8. Ending(c)'
  BY <1>1, <1>2, <1>3, <1>6, <1>7, Live DEF Ending
<1>9. QED
  BY <1>4, <1>5, <1>8 DEF Lively

\* A step beside a TxWorker that leaves the workers and the queue alone.
LEMMA Along ==
    ASSUME NEW c \in Channel, Lively(c), ~stop, UNCHANGED <<jobs, mode, bound>>,
           main[c].pc \in HasTx, main'[c].pc \in HasTx, main'[c].job = main[c].job,
           queue'[c] = queue[c], render'[c] = render[c], tx'[c] = tx[c],
           feed'[c] = feed[c] \/ feed[c].pc \notin {"pushed", "asleep"},
           SentinelFed(c) => SentinelFed(c)', SentinelFed(c)' => SentinelFed(c) \/ Length(c) > 0,
           main'[c].pc # "notify",
           main'[c].pc \in {"renderSentinel", "move", "joinTx"} /\ AtRenderJob(c) => ~render[c].failed,
           main'[c].pc = "mixPush" => feed'[c].block.n > 0,
           main'[c].pc \in {"sentinel", "take", "joinTx"} /\ ~AtRenderJob(c) =>
               main'[c].off = Length(c)
    PROVE  Lively(c)'
<1>1. /\ Items(c)' = Items(c) /\ IsFull(c)' = IsFull(c) /\ AtRenderJob(c)' = AtRenderJob(c)
      /\ Length(c)' = Length(c)
  BY DEF Items, IsFull, AtRenderJob, Length, TheJob, Scheduled
<1>2. main[c].pc \in InJob /\ main'[c].pc \in InJob
  BY DEF InJob
<1>3. Given(c)' = Given(c) /\ Holding(c)' = Holding(c) /\ Spoilt(c)' = Spoilt(c)
  BY DEF Given, Holding, Spoilt
<1>4. Asleep(c)' /\ Woken(c)'
  BY <1>1, Live DEF Asleep, Woken, HasTx
<1>5. Staffed(c)' /\ Providing(c)'
  BY <1>1, <1>2, Live DEF Staffed, Providing
<1>6. Ending(c)'
  <2>1. SentinelMade(c) => SentinelMade(c)'
    BY <1>1 DEF SentinelMade
  <2>2. QED
    BY <1>1, <1>2, <1>3, <2>1, Live DEF Ending
<1>7. QED
  BY <1>4, <1>5, <1>6 DEF Lively

-----------------------------------------------------------------------------
(* The steps of a push_wait. *)

LEMMA FeedLives ==
    ASSUME IInv, NEW c \in Channel, Flow(c), Lively(c), ~stop, FeedStep(c),
           UNCHANGED <<jobVars, mode, bound>>
    PROVE  Lively(c)'
<1> DEFINE f == feed[c]
<1>1. /\ f.pc \in {"push", "pushed", "full", "asleep"} /\ UNCHANGED <<stop, render, tx, main, jobs, mode, bound>>
  BY DEF FeedStep, FeedPush, FeedPushed, FeedWait, FeedAwake, jobVars
<1>2. main[c].pc \in {"mixPush", "sentinel", "renderSentinel"} /\ main[c].pc \in HasTx /\ main[c].pc \in InJob
  BY <1>1 DEF Flow, Feeding, InJob, HasTx
<1>3. /\ AtRenderJob(c)' = AtRenderJob(c) /\ Length(c)' = Length(c)
      /\ Given(c)' = Given(c) /\ Holding(c)' = Holding(c) /\ Spoilt(c)' = Spoilt(c)
  BY <1>1 DEF AtRenderJob, Length, TheJob, Scheduled, Given, Holding, Spoilt
<1>4. render[c].pc \in Gone
  BY <1>2, Here DEF Owned
<1>5. /\ queue[c].notEmpty \subseteq {"tx"} /\ queue[c].notFull \subseteq {"main"}
      /\ "main" \in queue[c].notFull => f.pc = "asleep"
      /\ "tx" \in queue[c].notEmpty => tx[c].pc = "asleep"
  BY <1>2, <1>4, Live DEF Asleep, Gone
<1>6. feed \in [Channel -> FeedType] /\ feed[c] \in FeedType /\ f.block \in BlockType
  BY Here, Parts
<1>7. /\ SentinelFed(c) <=> main[c].pc \in {"sentinel", "renderSentinel"} /\ f.pc = "pushed"
      /\ SentinelFed(c)' <=> main[c].pc \in {"sentinel", "renderSentinel"} /\ feed'[c].pc \in {"pushed", "ok"}
      /\ SentinelMade(c) <=> SentinelFed(c) \/ (AtRenderJob(c) /\ render[c].failed /\ render[c].pc = "done")
      /\ SentinelMade(c)' <=> SentinelFed(c)' \/ (AtRenderJob(c) /\ render[c].failed /\ render[c].pc = "done")
  <2>1. SentinelFed(c) <=> main[c].pc \in {"sentinel", "renderSentinel"} /\ f.pc = "pushed"
    BY <1>1, <1>2 DEF SentinelFed
  <2>2. SentinelFed(c)' <=> main[c].pc \in {"sentinel", "renderSentinel"} /\ feed'[c].pc \in {"pushed", "ok"}
    BY <1>1, <1>2 DEF SentinelFed
  <2>3. SentinelMade(c) <=> SentinelFed(c) \/ (AtRenderJob(c) /\ render[c].failed /\ render[c].pc = "done")
    BY <1>4 DEF SentinelMade, Gone
  <2>4. SentinelMade(c)' <=> SentinelFed(c)' \/ (AtRenderJob(c) /\ render[c].failed /\ render[c].pc = "done")
    BY <1>1, <1>3, <1>4 DEF SentinelMade, Gone
  <2>5. QED
    BY <2>1, <2>2, <2>3, <2>4
<1>8. ASSUME feed'[c].block = f.block, Asleep(c)', Woken(c)',
             \/ Items(c)' = Items(c) /\ (f.pc = "pushed" <=> feed'[c].pc \in {"pushed", "ok"})
             \/ f.pc = "push" /\ feed'[c].pc = "pushed" /\ Items(c)' = Append(Items(c), f.block)
      PROVE  Lively(c)'
  <2>1. Staffed(c)' /\ Providing(c)'
    BY <1>1, <1>3, <1>8, Live DEF Staffed, Providing
  <2>2. CASE Items(c)' = Items(c) /\ (f.pc = "pushed" <=> feed'[c].pc \in {"pushed", "ok"})
    <3>1. (SentinelFed(c)' <=> SentinelFed(c)) /\ (SentinelMade(c)' <=> SentinelMade(c))
      BY <1>7, <2>2
    <3>2. Ending(c)'
      BY <1>1, <1>2, <1>3, <2>2, <3>1, Live DEF Ending
    <3>3. QED
      BY <1>8, <2>1, <3>2 DEF Lively
  <2>3. CASE f.pc = "push" /\ feed'[c].pc = "pushed" /\ Items(c)' = Append(Items(c), f.block)
    <3>1. Items(c) \in Seq(BlockType) /\ Items(c)' # <<>>
      BY <1>6, <2>3, Parts
    <3>2. SentinelMade(c) => SentinelMade(c)'
      BY <1>7, <2>3
    <3>3. ASSUME ~SentinelMade(c)' PROVE \A i \in DOMAIN Items(c)' : Items(c)'[i].n > 0
      <4>1. f.block.n > 0
        BY <1>2, <1>7, <2>3, <3>3, Live DEF Providing
      <4>2. \A i \in DOMAIN Items(c) : Items(c)[i].n > 0
        BY <1>2, <3>2, <3>3, Live DEF Ending
      <4>3. QED
        BY <1>6, <2>3, <3>1, <4>1, <4>2
    <3>4. Ending(c)'
      BY <1>1, <1>2, <1>3, <3>1, <3>2, <3>3, Live DEF Ending
    <3>5. QED
      BY <1>8, <2>1, <3>4 DEF Lively
  <2>4. QED
    BY <1>8, <2>2, <2>3
<1>9. CASE FeedPush(c)
  <2>1. f.pc = "push" /\ "main" \notin queue[c].notFull
    BY <1>5, <1>9 DEF FeedPush
  <2>2. CASE PushItem(c, f.block) /\ FeedGoto(c, "pushed")
    <3>1. /\ feed'[c].pc = "pushed" /\ feed'[c].block = f.block
          /\ Items(c)' = Append(Items(c), f.block)
          /\ queue'[c].notEmpty = queue[c].notEmpty /\ queue'[c].notFull = queue[c].notFull
      BY <1>6, <2>2, QueueAt DEF FeedGoto, FeedType
    <3>2. Asleep(c)' /\ Woken(c)'
      BY <1>1, <1>2, <1>5, <2>1, <3>1 DEF Asleep, Woken
    <3>3. QED
      BY <1>8, <2>1, <3>1, <3>2
  <2>3. CASE IsFull(c) /\ FeedGoto(c, "full") /\ UNCHANGED queue
    <3>1. /\ feed'[c].pc = "full" /\ feed'[c].block = f.block
          /\ Items(c)' = Items(c)
          /\ queue'[c].notEmpty = queue[c].notEmpty /\ queue'[c].notFull = queue[c].notFull
      BY <1>6, <2>3, QueueAt DEF FeedGoto, FeedType
    <3>2. Asleep(c)' /\ Woken(c)'
      BY <1>1, <1>2, <1>4, <1>5, <2>1, <3>1, Live DEF Asleep, Woken, Gone
    <3>3. QED
      BY <1>8, <2>1, <3>1, <3>2
  <2>4. QED
    BY <1>9, <2>2, <2>3 DEF FeedPush
<1>10. CASE FeedPushed(c)
  <2>1. f.pc = "pushed" /\ "main" \notin queue[c].notFull
    BY <1>5, <1>10 DEF FeedPushed
  <2>2. /\ feed'[c].pc = "ok" /\ feed'[c].block = f.block /\ Items(c)' = Items(c)
        /\ queue'[c].notEmpty \in AfterNotifyOne(queue[c].notEmpty)
        /\ queue'[c].notFull = queue[c].notFull
    BY <1>6, <1>10, QueueAt DEF FeedPushed, FeedGoto, FeedType
  <2>3. queue'[c].notEmpty = {} /\ queue'[c].notFull = {}
    BY <1>5, <2>1, <2>2, OneIsWoken
  <2>4. Asleep(c)' /\ Woken(c)'
    BY <2>3 DEF Asleep, Woken
  <2>5. QED
    BY <1>8, <2>1, <2>2, <2>4
<1>11. CASE FeedWait(c)
  <2>1. f.pc = "full" /\ "main" \notin queue[c].notFull
    BY <1>5, <1>11 DEF FeedWait
  <2>2. CASE ~IsFull(c) /\ FeedGoto(c, "push") /\ UNCHANGED queue
    <3>1. /\ feed'[c].pc = "push" /\ feed'[c].block = f.block
          /\ Items(c)' = Items(c)
          /\ queue'[c].notEmpty = queue[c].notEmpty /\ queue'[c].notFull = queue[c].notFull
      BY <1>6, <2>2, QueueAt DEF FeedGoto, FeedType
    <3>2. Asleep(c)' /\ Woken(c)'
      BY <1>1, <1>2, <1>4, <1>5, <2>1, <3>1, Live DEF Asleep, Woken, Gone
    <3>3. QED
      BY <1>8, <2>1, <3>1, <3>2
  <2>3. CASE IsFull(c) /\ FeedGoto(c, "asleep") /\ SleepNotFull(c, "main")
    <3>1. /\ feed'[c].pc = "asleep" /\ feed'[c].block = f.block
          /\ Items(c)' = Items(c) /\ IsFull(c)' = IsFull(c)
          /\ queue'[c].notEmpty = queue[c].notEmpty /\ queue'[c].notFull = queue[c].notFull \cup {"main"}
      BY <1>6, <2>3, QueueAt DEF FeedGoto, FeedType, IsFull
    <3>2. Asleep(c)' /\ Woken(c)'
      BY <1>1, <1>2, <1>4, <1>5, <2>1, <2>3, <3>1, Live DEF Asleep, Woken, Gone
    <3>3. QED
      BY <1>8, <2>1, <3>1, <3>2
  <2>4. QED
    BY <1>11, <2>2, <2>3 DEF FeedWait
<1>12. CASE FeedAwake(c)
  <2>1. f.pc = "asleep" /\ queue[c].notFull = {}
    BY <1>5, <1>12 DEF FeedAwake
  <2>2. CASE ~IsFull(c)
    <3>1. /\ feed'[c].pc = "push" /\ feed'[c].block = f.block
          /\ Items(c)' = Items(c)
          /\ queue'[c].notEmpty = queue[c].notEmpty /\ queue'[c].notFull = {}
      BY <1>6, <1>12, <2>1, <2>2, QueueAt DEF FeedAwake, FeedGoto, FeedType
    <3>2. Asleep(c)' /\ Woken(c)'
      BY <1>1, <1>2, <1>4, <1>5, <2>1, <3>1, Live DEF Asleep, Woken, Gone
    <3>3. QED
      BY <1>8, <2>1, <3>1, <3>2
  <2>3. CASE IsFull(c)
    <3>1. /\ feed' = feed /\ Items(c)' = Items(c) /\ IsFull(c)' = IsFull(c)
          /\ queue'[c].notEmpty = queue[c].notEmpty /\ queue'[c].notFull = {"main"}
      BY <1>12, <2>1, <2>3, QueueAt DEF FeedAwake, IsFull
    <3>2. Asleep(c)' /\ Woken(c)'
      BY <1>1, <1>2, <1>4, <1>5, <2>1, <2>3, <3>1, Live DEF Asleep, Woken, Gone
    <3>3. QED
      BY <1>8, <2>1, <3>1, <3>2
  <2>4. QED
    BY <2>2, <2>3
<1>13. QED
  BY <1>9, <1>10, <1>11, <1>12 DEF FeedStep

-----------------------------------------------------------------------------
(* The steps of a RenderWorker. *)

LEMMA RenderLives ==
    ASSUME IInv, NEW c \in Channel, Flow(c), Lively(c), ~stop, RenderStep(c),
           UNCHANGED <<jobVars, mode, bound>>
    PROVE  Lively(c)'
<1> DEFINE r == render[c]
<1> DEFINE s == render'[c]
<1>1. r.pc \notin Gone /\ UNCHANGED <<stop, tx, feed, main, jobs, mode, bound>>
  BY RenderEffect DEF jobVars
<1>2. /\ main[c].pc \in {"prime", "primeAsleep", "create", "joinRender"}
      /\ main[c].pc \in InJob /\ AtRenderJob(c) /\ feed[c].pc = "idle"
  BY <1>1, RenderBeside
<1>3. /\ AtRenderJob(c)' = AtRenderJob(c) /\ Length(c)' = Length(c)
      /\ Given(c)' = Given(c) /\ Holding(c)' = Holding(c) /\ Spoilt(c)' = Spoilt(c)
  BY <1>1 DEF AtRenderJob, Length, TheJob, Scheduled, Given, Holding, Spoilt
<1>4. render \in [Channel -> RenderType] /\ r \in RenderType /\ r.block \in BlockType
  BY Here, Parts
<1>5. /\ queue[c].notFull \subseteq {"render"} /\ ("render" \in queue[c].notFull => r.pc = "asleep")
      /\ queue[c].notEmpty \subseteq {"tx", "main"}
      /\ "tx" \in queue[c].notEmpty => tx[c].pc = "asleep" /\ main[c].pc = "joinRender"
      /\ "main" \in queue[c].notEmpty => main[c].pc = "primeAsleep"
      /\ queue[c].notEmpty \subseteq {"tx"} \/ queue[c].notEmpty \subseteq {"main"}
  BY <1>2, Live DEF Asleep, HasTx
<1>6. /\ SentinelMade(c) <=> r.failed /\ \/ r.pc = "pushed" /\ r.block.n = 0
                                         \/ r.pc \in {"complete", "finish", "done"}
      /\ SentinelMade(c)' <=> s.failed /\ \/ s.pc = "pushed" /\ s.block.n = 0
                                          \/ s.pc \in {"complete", "finish", "done"}
      /\ ~SentinelFed(c) /\ ~SentinelFed(c)'
  <2>1. ~SentinelFed(c) /\ ~SentinelFed(c)'
    BY <1>1, <1>2 DEF SentinelFed
  <2>2. QED
    BY <1>2, <1>3, <2>1 DEF SentinelMade
<1>7. ASSUME Asleep(c)', Woken(c)', s.pc \in {"finish", "done"} => s.complete,
             s.pc \in {"push", "pushed", "full", "asleep"} /\ s.block.n = 0 => s.failed,
             \/ Items(c)' = Items(c) /\ (SentinelMade(c) => SentinelMade(c)')
             \/ /\ r.pc = "push" /\ s.pc = "pushed" /\ s.block = r.block
                /\ Items(c)' = Append(Items(c), r.block)
      PROVE  Lively(c)'
  <2>1. Staffed(c)' /\ Providing(c)'
    BY <1>1, <1>2, <1>3, <1>7, Live DEF Staffed, Providing
  <2>2. SentinelMade(c) => SentinelMade(c)'
    BY <1>6, <1>7
  <2>3. ASSUME ~SentinelMade(c)' PROVE \A i \in DOMAIN Items(c)' : Items(c)'[i].n > 0
    <3>1. \A i \in DOMAIN Items(c) : Items(c)[i].n > 0
      BY <1>2, <2>2, <2>3, Live DEF Ending
    <3>2. CASE s.pc = "pushed" /\ s.block = r.block /\ Items(c)' = Append(Items(c), r.block)
      <4>1. r.block.n > 0 /\ Items(c) \in Seq(BlockType)
        BY <1>6, <1>7, <2>3, <3>2, <1>4, Parts
      <4>2. QED
        BY <1>4, <3>1, <3>2, <4>1
    <3>3. QED
      BY <1>7, <3>1, <3>2
  <2>4. Ending(c)'
    BY <1>1, <1>2, <1>3, <1>6, <2>2, <2>3, Live DEF Ending
  <2>5. QED
    BY <1>7, <2>1, <2>4 DEF Lively
<1>8. ASSUME r.pc \in {"start", "loop", "push", "full", "after", "complete"}, UNCHANGED queue,
             s.complete = r.complete \/ s.pc = "finish"
      PROVE  Asleep(c)' /\ Woken(c)' /\ Items(c)' = Items(c)
  <2>1. Items(c)' = Items(c) /\ IsFull(c)' = IsFull(c) /\ queue'[c] = queue[c]
    BY <1>8 DEF Items, IsFull
  <2>2. "render" \notin queue[c].notFull
    BY <1>5, <1>8
  <2>3. QED
    BY <1>1, <1>2, <1>5, <1>8, <2>1, <2>2, Live DEF Asleep, Woken
<1>9. CASE RenderStart(c)
  <2>1. /\ r.pc = "start" /\ UNCHANGED queue /\ s.complete = r.complete
        /\ s.pc = "loop" \/ s.pc = "complete"
    BY <1>4, <1>9 DEF RenderStart, RenderGoto, RenderFail, RenderType
  <2>2. QED
    BY <1>6, <1>7, <1>8, <2>1
<1>10. CASE RenderLoop(c)
  <2>1. r.pc = "loop" /\ UNCHANGED queue
    BY <1>10 DEF RenderLoop
  <2>2. CASE RenderGoto(c, "after") \/ RenderFail(c)
    <3>1. s.complete = r.complete /\ s.pc \in {"after", "complete"}
      BY <1>4, <2>2 DEF RenderGoto, RenderFail, RenderType
    <3>2. QED
      BY <1>6, <1>7, <1>8, <2>1, <3>1
  <2>3. ASSUME NEW n \in 1 .. Least(r.target - r.rendered, BlockSize),
               render' = [render EXCEPT ![c].block = Block(n, r.first, n = r.target - r.rendered),
                                        ![c].first = FALSE, ![c].pc = "push"]
        PROVE  Lively(c)'
    <3>1. s.complete = r.complete /\ s.pc = "push" /\ s.block = Block(n, r.first, n = r.target - r.rendered)
      BY <1>4, <2>3 DEF RenderType
    <3>2. s.block.n > 0
      BY <3>1 DEF Block
    <3>3. QED
      BY <1>6, <1>7, <1>8, <2>1, <3>1, <3>2
  <2>4. QED
    BY <1>10, <2>2, <2>3 DEF RenderLoop
<1>11. ASSUME r.pc \in {"push", "pushed", "full", "asleep"}, r.block.n = 0 PROVE r.failed
  BY <1>2, <1>11, Live DEF Staffed
<1>12. CASE RenderPush(c)
  <2>1. r.pc = "push" /\ "render" \notin queue[c].notFull
    BY <1>5, <1>12 DEF RenderPush
  <2>2. CASE PushItem(c, r.block) /\ RenderGoto(c, "pushed")
    <3>1. /\ s.pc = "pushed" /\ s.block = r.block /\ s.failed = r.failed /\ s.complete = r.complete
          /\ Items(c)' = Append(Items(c), r.block)
          /\ queue'[c].notEmpty = queue[c].notEmpty /\ queue'[c].notFull = queue[c].notFull
      BY <1>4, <2>2, QueueAt DEF RenderGoto, RenderType
    <3>2. Asleep(c)' /\ Woken(c)'
      BY <1>1, <1>2, <1>5, <2>1, <3>1, Live DEF Asleep, Woken, HasTx
    <3>3. QED
      BY <1>7, <1>11, <2>1, <3>1, <3>2
  <2>3. CASE RenderGoto(c, "full") /\ UNCHANGED queue
    <3>1. /\ s.pc = "full" /\ s.block = r.block /\ s.failed = r.failed /\ s.complete = r.complete
      BY <1>4, <2>3 DEF RenderGoto, RenderType
    <3>2. QED
      BY <1>6, <1>7, <1>8, <1>11, <2>1, <2>3, <3>1
  <2>4. QED
    BY <1>12, <2>2, <2>3 DEF RenderPush
<1>13. CASE RenderPushed(c)
  <2>1. r.pc = "pushed" /\ WakeNotEmpty(c) /\ "render" \notin queue[c].notFull
    BY <1>5, <1>13 DEF RenderPushed
  <2>2. /\ s.pc = (IF r.block = Sentinel THEN "complete" ELSE "loop")
        /\ s.failed = r.failed
    BY <1>4, <1>13 DEF RenderPushed, RenderType
  <2>3. /\ Items(c)' = Items(c) /\ queue'[c].notFull = queue[c].notFull
        /\ queue'[c].notEmpty \in AfterNotifyOne(queue[c].notEmpty)
    BY <2>1, QueueAt
  <2>4. queue'[c].notEmpty = {} /\ queue'[c].notFull = {}
    BY <1>5, <2>1, <2>3, OneIsWoken
  <2>5. Asleep(c)' /\ Woken(c)'
    BY <2>4 DEF Asleep, Woken
  <2>6. r.block.n = 0 => r.block = Sentinel
    BY <1>2, <2>1 DEF Flow, Rendering, Placed
  <2>7. SentinelMade(c) => SentinelMade(c)'
    BY <1>6, <2>1, <2>2, <2>6
  <2>8. s.pc \in {"complete", "loop"}
    BY <2>2
  <2>9. QED
    BY <1>7, <2>3, <2>5, <2>7, <2>8
<1>14. CASE RenderWait(c)
  <2>1. r.pc = "full" /\ "render" \notin queue[c].notFull
    BY <1>5, <1>14 DEF RenderWait
  <2>2. CASE RenderGoto(c, "push") /\ UNCHANGED queue
    <3>1. /\ s.pc = "push" /\ s.block = r.block /\ s.failed = r.failed /\ s.complete = r.complete
      BY <1>4, <2>2 DEF RenderGoto, RenderType
    <3>2. QED
      BY <1>6, <1>7, <1>8, <1>11, <2>1, <2>2, <3>1
  <2>3. CASE IsFull(c) /\ RenderGoto(c, "asleep") /\ SleepNotFull(c, "render")
    <3>1. /\ s.pc = "asleep" /\ s.block = r.block /\ s.failed = r.failed /\ s.complete = r.complete
      BY <1>4, <2>3 DEF RenderGoto, RenderType
    <3>2. /\ Items(c)' = Items(c) /\ IsFull(c)' = IsFull(c)
          /\ queue'[c].notEmpty = queue[c].notEmpty /\ queue'[c].notFull = queue[c].notFull \cup {"render"}
      BY <2>3, QueueAt DEF IsFull
    <3>3. Asleep(c)' /\ Woken(c)'
      BY <1>1, <1>2, <1>5, <2>1, <2>3, <3>1, <3>2, Live DEF Asleep, Woken, HasTx
    <3>4. QED
      BY <1>6, <1>7, <1>11, <2>1, <3>1, <3>2, <3>3
  <2>4. QED
    BY <1>14, <2>2, <2>3 DEF RenderWait
<1>15. CASE RenderAwake(c)
  <2>1. r.pc = "asleep" /\ queue[c].notFull = {}
    BY <1>5, <1>15 DEF RenderAwake
  <2>2. CASE ~IsFull(c)
    <3>1. /\ s.pc = "push" /\ s.block = r.block /\ s.failed = r.failed /\ s.complete = r.complete
          /\ UNCHANGED queue
      BY <1>4, <1>15, <2>2 DEF RenderAwake, RenderGoto, RenderType
    <3>2. /\ Items(c)' = Items(c)
          /\ queue'[c].notEmpty = queue[c].notEmpty /\ queue'[c].notFull = {}
      BY <2>1, <3>1, QueueAt
    <3>3. Asleep(c)' /\ Woken(c)'
      BY <1>1, <1>2, <1>5, <2>1, <3>1, <3>2, Live DEF Asleep, Woken, HasTx
    <3>4. QED
      BY <1>6, <1>7, <1>11, <2>1, <3>1, <3>2, <3>3
  <2>3. CASE IsFull(c)
    <3>1. render' = render /\ SleepNotFull(c, "render")
      BY <1>15, <2>3 DEF RenderAwake
    <3>2. /\ Items(c)' = Items(c) /\ IsFull(c)' = IsFull(c)
          /\ queue'[c].notEmpty = queue[c].notEmpty /\ queue'[c].notFull = {"render"}
      BY <2>1, <3>1, QueueAt DEF IsFull
    <3>3. Asleep(c)' /\ Woken(c)'
      BY <1>1, <1>2, <1>5, <2>1, <2>3, <3>1, <3>2, Live DEF Asleep, Woken, HasTx
    <3>4. QED
      BY <1>6, <1>7, <1>11, <2>1, <3>1, <3>2, <3>3
  <2>4. QED
    BY <2>2, <2>3
<1>16. CASE RenderAfter(c)
  <2>1. r.pc = "after" /\ UNCHANGED queue
    BY <1>16 DEF RenderAfter
  <2>2. /\ s.complete = r.complete /\ s.block = Sentinel
        /\ s.failed = (r.failed \/ (~stop /\ r.rendered < r.target))
        /\ s.pc = IF (~stop /\ r.rendered < r.target) /\ ~r.first THEN "push" ELSE "complete"
    BY <1>4, <1>16 DEF RenderAfter, RenderType
  <2>3. s.pc \in {"push", "complete"} /\ (s.pc = "push" => s.failed)
    BY <2>2
  <2>4. QED
    BY <1>6, <1>7, <1>8, <2>1, <2>2, <2>3
<1>17. CASE RenderComplete(c)
  <2>1. /\ r.pc = "complete" /\ UNCHANGED queue
        /\ s.complete = TRUE /\ s.pc = "finish" /\ s.failed = r.failed
    BY <1>4, <1>17 DEF RenderComplete, RenderType
  <2>2. QED
    BY <1>6, <1>7, <1>8, <2>1
<1>18. CASE RenderFinish(c)
  <2>1. /\ r.pc = "finish" /\ NotifyAll(c)
        /\ s.complete = r.complete /\ s.pc = "done" /\ s.failed = r.failed
    BY <1>4, <1>18 DEF RenderFinish, RenderGoto, RenderType
  <2>2. r.complete
    BY <1>2, <2>1, Live DEF Staffed
  <2>3. Items(c)' = Items(c) /\ queue'[c].notEmpty = {} /\ queue'[c].notFull = {}
    BY <2>1, QueueAt
  <2>4. Asleep(c)' /\ Woken(c)'
    BY <2>3 DEF Asleep, Woken
  <2>5. QED
    BY <1>6, <1>7, <2>1, <2>2, <2>3, <2>4
<1>19. QED
  BY <1>9, <1>10, <1>12, <1>13, <1>14, <1>15, <1>16, <1>17, <1>18 DEF RenderStep

-----------------------------------------------------------------------------
(* The steps of a TxWorker. *)

LEMMA TxLives ==
    ASSUME IInv, NEW c \in Channel, Flow(c), Lively(c), ~stop, TxStep(c),
           UNCHANGED <<jobVars, mode, bound>>
    PROVE  Lively(c)'
<1> DEFINE t == tx[c]
<1> DEFINE u == tx'[c]
<1>1. t.pc \notin Gone /\ UNCHANGED <<render, feed, main, jobs, mode, bound>>
  BY TxEffect DEF jobVars
<1>2. main[c].pc \in HasTx /\ main[c].pc \in InJob /\ main[c].pc # "primeAsleep"
  BY <1>1, Here DEF Owned, InJob, HasTx
<1>3. /\ AtRenderJob(c)' = AtRenderJob(c) /\ Length(c)' = Length(c)
      /\ SentinelFed(c)' = SentinelFed(c) /\ SentinelMade(c)' = SentinelMade(c)
  BY <1>1 DEF AtRenderJob, Length, TheJob, Scheduled, SentinelFed, SentinelMade
<1>4. tx \in [Channel -> TxType] /\ t \in TxType /\ t.block \in BlockType /\ t.sent \in Nat /\ t.block.n \in Nat
  BY Here, Parts
<1>5. /\ Given(c) = t.sent /\ Given(c)' = u.sent /\ (Spoilt(c) <=> t.failed) /\ (Spoilt(c)' <=> u.failed)
      /\ Holding(c) <=> t.pc \in {"popped", "send"}
      /\ Holding(c)' <=> u.pc \in {"popped", "send"}
  <2>1. main'[c].pc \in HasTx
    BY <1>1, <1>2
  <2>2. Given(c) = t.sent /\ Given(c)' = u.sent
    BY <1>2, <2>1 DEF Given
  <2>3. (Spoilt(c) <=> t.failed) /\ (Spoilt(c)' <=> u.failed)
    BY <1>2, <2>1, Zenon DEF Spoilt
  <2>4. QED
    BY <1>2, <2>1, <2>2, <2>3 DEF Holding
<1>6. /\ queue[c].notEmpty \subseteq {"tx"} /\ ("tx" \in queue[c].notEmpty => t.pc = "asleep")
      /\ queue[c].notFull \subseteq {"render", "main"}
      /\ "render" \in queue[c].notFull => render[c].pc = "asleep"
      /\ "main" \in queue[c].notFull => feed[c].pc = "asleep"
      /\ queue[c].notFull \subseteq {"render"} \/ queue[c].notFull \subseteq {"main"}
  <2>1. render[c].pc = "asleep" => feed[c].pc = "idle"
    BY RenderBeside DEF Gone
  <2>2. QED
    BY <1>2, <2>1, Live DEF Asleep
<1>7. Length(c) \in Nat
  BY <1>2, LengthIsNat DEF HasTx
<1>8. t.pc \in {"popped", "send"} =>
          /\ t.sent + t.block.n <= Length(c)
          /\ t.block.n > 0 => (t.block.eob <=> t.sent + t.block.n = Length(c))
          /\ t.block.n = 0 => t.block = Sentinel
          /\ t.failed = FALSE
          /\ ~SentinelMade(c) => t.block.n > 0
  <2>1. Holding(c) => Placed(t.block, t.sent, Length(c), Ends(c)) /\ ~Spoilt(c)
    BY <1>5 DEF Flow, Sending
  <2>2. Holding(c) /\ ~SentinelMade(c) => t.block.n > 0
    BY <1>2, Live DEF Ending
  <2>3. t.failed \in BOOLEAN
    BY Parts
  <2>4. QED
    BY <1>5, <2>1, <2>2, <2>3 DEF Placed
<1>9. ASSUME Asleep(c)', Woken(c)', u.pc # "none", u.pc \in {"notify", "done"} => ~u.failed,
             ~SentinelMade(c) =>
                /\ \A i \in DOMAIN Items(c)' : Items(c)'[i].n > 0
                /\ u.pc \in {"popped", "send"} => u.block.n > 0
                /\ u.pc = "done" => u.sent = Length(c),
             ~u.failed /\ u.pc # "done" =>
                /\ Length(c) > 0 => u.sent < Length(c)
                /\ Length(c) = 0 /\ SentinelFed(c) => Items(c)' # <<>> \/ u.pc \in {"popped", "send"}
      PROVE  Lively(c)'
  <2>1. Staffed(c)' /\ Providing(c)'
    BY <1>1, <1>3, <1>9, Live DEF Staffed, Providing
  <2>2. Ending(c)'
    BY <1>1, <1>2, <1>3, <1>5, <1>9 DEF Ending
  <2>3. QED
    BY <1>9, <2>1, <2>2 DEF Lively
<1>10. /\ ~SentinelMade(c) =>
             /\ \A i \in DOMAIN Items(c) : Items(c)[i].n > 0
             /\ t.pc = "done" => t.sent = Length(c)
       /\ ~t.failed /\ t.pc # "done" =>
             /\ Length(c) > 0 => t.sent < Length(c)
             /\ Length(c) = 0 /\ SentinelFed(c) => Items(c) # <<>> \/ t.pc \in {"popped", "send"}
  BY <1>2, <1>5, Live DEF Ending
\* What does not touch the samples.
<1>11. ASSUME Items(c)' = Items(c), Asleep(c)', Woken(c)', u.sent = t.sent, u.failed = t.failed,
              u.block = t.block, u.pc \in {"pop", "popped", "empty", "asleep", "send"}, t.pc # "done",
              u.pc \in {"popped", "send"} <=> t.pc \in {"popped", "send"}
       PROVE  Lively(c)'
  BY <1>8, <1>9, <1>10, <1>11
<1>12. CASE TxPop(c)
  <2>1. t.pc = "pop" /\ queue[c].notEmpty = {}
    BY <1>6, <1>12 DEF TxPop
  <2>2. CASE PopItem(c) /\ tx' = [tx EXCEPT ![c].block = Head(Items(c)), ![c].pc = "popped"]
    <3>1. u.pc = "popped" /\ u.block = Head(Items(c)) /\ u.sent = t.sent /\ u.failed = t.failed
      BY <1>4, <2>2 DEF TxType
    <3>2. /\ Items(c) # <<>> /\ Items(c) \in Seq(BlockType) /\ Items(c)' = Tail(Items(c))
          /\ queue'[c].notEmpty = {} /\ queue'[c].notFull = queue[c].notFull
      BY <2>1, <2>2, QueueAt
    <3>3. Asleep(c)' /\ Woken(c)'
      BY <1>1, <1>6, <3>1, <3>2 DEF Asleep, Woken
    <3>4. ~SentinelMade(c) => Head(Items(c)).n > 0 /\ \A i \in DOMAIN Items(c)' : Items(c)'[i].n > 0
      BY <1>10, <3>2
    <3>5. QED
      BY <1>9, <1>10, <2>1, <3>1, <3>3, <3>4
  <2>3. CASE TxGoto(c, "empty") /\ UNCHANGED queue
    <3>1. u.pc = "empty" /\ u.block = t.block /\ u.sent = t.sent /\ u.failed = t.failed
      BY <1>4, <2>3 DEF TxGoto, TxType
    <3>2. /\ Items(c)' = Items(c) /\ IsFull(c)' = IsFull(c)
          /\ queue'[c].notEmpty = {} /\ queue'[c].notFull = queue[c].notFull
      BY <2>1, <2>3, QueueAt DEF IsFull
    <3>3. Asleep(c)' /\ Woken(c)'
      BY <1>1, <1>6, <2>1, <3>1, <3>2, Live DEF Asleep, Woken
    <3>4. QED
      BY <1>11, <2>1, <3>1, <3>2, <3>3
  <2>4. QED
    BY <1>12, <2>2, <2>3 DEF TxPop
<1>13. CASE TxPopped(c)
  <2>1. t.pc = "popped" /\ queue[c].notEmpty = {}
    BY <1>6, <1>13 DEF TxPopped
  <2>2. u.pc = "send" /\ u.block = t.block /\ u.sent = t.sent /\ u.failed = t.failed
    BY <1>4, <1>13 DEF TxPopped, TxGoto, TxType
  <2>3. /\ Items(c)' = Items(c) /\ queue'[c].notEmpty = {}
        /\ queue'[c].notFull \in AfterNotifyOne(queue[c].notFull)
    BY <1>13, <2>1, QueueAt DEF TxPopped
  <2>4. queue'[c].notFull = {}
    BY <1>6, <2>3, OneIsWoken
  <2>5. Asleep(c)' /\ Woken(c)'
    BY <2>3, <2>4 DEF Asleep, Woken
  <2>6. QED
    BY <1>11, <2>1, <2>2, <2>3, <2>5
<1>14. CASE TxWait(c)
  <2>1. t.pc = "empty" /\ queue[c].notEmpty = {}
    BY <1>6, <1>14 DEF TxWait
  <2>2. CASE TxGoto(c, "pop") /\ UNCHANGED queue
    <3>1. u.pc = "pop" /\ u.block = t.block /\ u.sent = t.sent /\ u.failed = t.failed
      BY <1>4, <2>2 DEF TxGoto, TxType
    <3>2. /\ Items(c)' = Items(c) /\ IsFull(c)' = IsFull(c)
          /\ queue'[c].notEmpty = {} /\ queue'[c].notFull = queue[c].notFull
      BY <2>1, <2>2, QueueAt DEF IsFull
    <3>3. Asleep(c)' /\ Woken(c)'
      BY <1>1, <1>6, <2>1, <3>1, <3>2, Live DEF Asleep, Woken
    <3>4. QED
      BY <1>11, <2>1, <3>1, <3>2, <3>3
  <2>3. CASE Items(c) = <<>> /\ TxGoto(c, "asleep") /\ SleepNotEmpty(c, "tx")
    <3>1. u.pc = "asleep" /\ u.block = t.block /\ u.sent = t.sent /\ u.failed = t.failed
      BY <1>4, <2>3 DEF TxGoto, TxType
    <3>2. /\ Items(c)' = Items(c) /\ IsFull(c)' = IsFull(c)
          /\ queue'[c].notEmpty = {"tx"} /\ queue'[c].notFull = queue[c].notFull
      BY <2>1, <2>3, QueueAt DEF IsFull
    <3>3. Asleep(c)' /\ Woken(c)'
      BY <1>1, <1>2, <1>6, <2>1, <2>3, <3>1, <3>2, Live DEF Asleep, Woken
    <3>4. QED
      BY <1>11, <2>1, <3>1, <3>2, <3>3
  <2>4. QED
    BY <1>14, <2>2, <2>3 DEF TxWait
<1>15. CASE TxAwake(c)
  <2>1. t.pc = "asleep" /\ queue[c].notEmpty = {}
    BY <1>6, <1>15 DEF TxAwake
  <2>2. CASE Items(c) # <<>>
    <3>1. UNCHANGED queue /\ u.pc = "pop" /\ u.block = t.block /\ u.sent = t.sent /\ u.failed = t.failed
      BY <1>4, <1>15, <2>2 DEF TxAwake, TxGoto, TxType
    <3>2. /\ Items(c)' = Items(c) /\ IsFull(c)' = IsFull(c)
          /\ queue'[c].notEmpty = {} /\ queue'[c].notFull = queue[c].notFull
      BY <2>1, <3>1, QueueAt DEF IsFull
    <3>3. Asleep(c)' /\ Woken(c)'
      BY <1>1, <1>6, <2>1, <3>1, <3>2, Live DEF Asleep, Woken
    <3>4. QED
      BY <1>11, <2>1, <3>1, <3>2, <3>3
  <2>3. CASE Items(c) = <<>>
    <3>1. tx' = tx /\ SleepNotEmpty(c, "tx")
      BY <1>15, <2>3 DEF TxAwake
    <3>2. /\ Items(c)' = Items(c) /\ IsFull(c)' = IsFull(c)
          /\ queue'[c].notEmpty = {"tx"} /\ queue'[c].notFull = queue[c].notFull
      BY <2>1, <3>1, QueueAt DEF IsFull
    <3>3. Asleep(c)' /\ Woken(c)'
      BY <1>1, <1>2, <1>6, <2>1, <2>3, <3>1, <3>2, Live DEF Asleep, Woken
    <3>4. QED
      BY <1>11, <2>1, <3>1, <3>2, <3>3
  <2>4. QED
    BY <2>2, <2>3
\* The steps that leave the queue alone.
<1>16. ASSUME UNCHANGED queue, t.pc \notin {"popped", "asleep"}
       PROVE  Asleep(c)' /\ Woken(c)' /\ Items(c)' = Items(c)
  <2>1. Items(c)' = Items(c) /\ IsFull(c)' = IsFull(c) /\ queue'[c] = queue[c]
    BY <1>16 DEF Items, IsFull
  <2>2. QED
    BY <1>1, <1>2, <1>6, <1>16, <2>1, Live DEF Asleep, Woken
<1>17. CASE TxSkip(c)
  <2>1. t.pc = "send" /\ t.block.n = 0 /\ UNCHANGED queue
    BY <1>17 DEF TxSkip
  <2>2. t.block = Sentinel /\ t.block.eob = TRUE /\ SentinelMade(c) /\ t.failed = FALSE
    BY <1>8, <2>1 DEF Sentinel, Block
  <2>3. u.pc = "done" /\ u.failed = t.failed
    BY <1>4, <1>17, <2>2 DEF TxSkip, TxType
  <2>4. QED
    BY <1>9, <1>16, <2>1, <2>2, <2>3
<1>18. ASSUME NEW n \in 0 .. BlockSize, TxSend(c, n) PROVE Lively(c)'
  <2>1. t.pc = "send" /\ t.block.n > 0 /\ UNCHANGED queue /\ n \in Nat /\ n <= t.block.n
    BY <1>4, <1>18, WorkersAssumption DEF TxSend
  <2>2. CASE n < t.block.n
    <3>1. u.pc = "stop" /\ u.failed = TRUE
      BY <1>4, <1>18, <2>2 DEF TxSend, TxType
    <3>2. QED
      BY <1>9, <1>10, <1>16, <2>1, <3>1
  <2>3. CASE n = t.block.n
    <3>1. ~(n < t.block.n)
      BY <2>1, <2>3
    <3>2. /\ u.sent = t.sent + n /\ u.failed = (t.failed \/ FALSE)
          /\ u.pc = IF t.block.eob THEN "done" ELSE "pop"
      BY <1>4, <1>18, <3>1 DEF TxSend, TxType
    <3>3. t.failed = FALSE /\ t.sent + t.block.n <= Length(c) /\ (t.block.eob <=> t.sent + t.block.n = Length(c))
      BY <1>8, <2>1
    <3>4. u.pc = "done" => u.sent = Length(c)
      BY <2>3, <3>2, <3>3
    <3>5. u.pc # "done" => u.sent < Length(c)
      BY <1>4, <1>7, <2>3, <3>2, <3>3
    <3>6. Length(c) > 0 /\ u.pc \in {"done", "pop"} /\ ~u.failed
      <4>1. Length(c) > 0
        BY <1>4, <1>7, <2>1, <3>3
      <4>2. u.pc \in {"done", "pop"}
        BY <3>2
      <4>3. ~u.failed
        BY <3>2, <3>3
      <4>4. QED
        BY <4>1, <4>2, <4>3
    <3>7. QED
      BY <1>7, <1>9, <1>10, <1>16, <2>1, <3>4, <3>5, <3>6
  <2>4. QED
    BY <2>1, <2>2, <2>3, <1>4
<1>19. CASE TxThrow(c)
  <2>1. t.pc = "send" /\ UNCHANGED queue /\ u.pc = "stop" /\ u.failed = TRUE
    BY <1>4, <1>19 DEF TxThrow, TxType
  <2>2. QED
    BY <1>9, <1>10, <1>16, <2>1
<1>20. CASE TxStop(c)
  BY <1>20 DEF TxStop, Lively
<1>21. CASE TxNotify(c)
  BY <1>2, <1>21, Live DEF TxNotify, Flow, Sending, Staffed
<1>22. QED
  BY <1>12, <1>13, <1>14, <1>15, <1>17, <1>18, <1>19, <1>20, <1>21 DEF TxStep

-----------------------------------------------------------------------------
(* The steps of the thread of a channel. *)

\* On the way to a job, and past the last one.
LEMMA ToJobLives ==
    ASSUME IInv, NEW c \in Channel, Lively(c), ~stop, NEW step \in {"delay", "begin", "launch", "ended"},
           main[c].pc \in {"next", "delay", "begin"}, MainGoto(c, step), UNCHANGED <<jobs, mode, bound>>,
           queue'[c] = queue[c], render'[c] = render[c], tx'[c] = tx[c], feed'[c] = feed[c],
           mode = "replay" /\ step = "begin" => Scheduled(c) > 0
    PROVE  Lively(c)'
<1>1. main'[c].pc = step /\ Scheduled(c)' = Scheduled(c)
  BY Stepped DEF Scheduled
<1>2. /\ main'[c].pc \notin InJob /\ main[c].pc \notin InJob
      /\ main'[c].pc \notin {"notify", "mixPush"} /\ main[c].pc # "primeAsleep"
  BY <1>1 DEF InJob, HasTx
<1>3. mode' = "replay" /\ main'[c].pc = "begin" => Length(c)' > 0
  BY <1>1 DEF Length
<1>4. QED
  BY <1>2, <1>3, Outside

LEMMA LaunchLives ==
    ASSUME IInv, NEW c \in Channel, Flow(c), Lively(c), ~stop, mode = "realtime", UNCHANGED <<mode, bound>>,
           LaunchRender(c) \/ PrepareMix(c)
    PROVE  Lively(c)'
<1>1. /\ main[c].pc = "launch" /\ UNCHANGED <<stop, tx, device, feed, jobs>> /\ main[c].pc \notin InJob
  BY DEF LaunchRender, PrepareMix, InJob, HasTx
<1>2. CASE LaunchRender(c)
  <2>1. /\ main'[c].pc = "prime" /\ render'[c].pc = "start"
        /\ queue' = [queue EXCEPT ![c] = NewQueue]
    BY <1>2, Stepped, Here DEF LaunchRender, RenderWorker
  <2>2. QED
    BY <1>1, <2>1, Anew
<1>3. CASE /\ main' = [main EXCEPT ![c].off = 0, ![c].pc = "create"]
           /\ queue' = [queue EXCEPT ![c] = NewQueue] /\ TheJob(c).kind = "mix"
  <2>1. main'[c].pc = "create" /\ main'[c].job = main[c].job
    BY <1>3, Here DEF MainType
  <2>2. ~AtRenderJob(c)'
    BY <1>1, <1>3, <2>1 DEF AtRenderJob, TheJob
  <2>3. QED
    BY <1>1, <1>3, <2>1, <2>2, Anew
<1>4. CASE /\ main' = [main EXCEPT ![c].failed = TRUE, ![c].pc = "next", ![c].job = @ + 1]
           /\ UNCHANGED <<queue, render>>
  <2>1. main'[c].pc = "next"
    BY <1>4, Here DEF MainType
  <2>2. main'[c].pc \notin InJob
    BY <2>1 DEF InJob, HasTx
  <2>3. QED
    BY <1>1, <1>4, <2>1, <2>2, Outside
<1>5. QED
  BY <1>2, <1>3, <1>4 DEF PrepareMix

LEMMA PrimeLives ==
    ASSUME IInv, NEW c \in Channel, Flow(c), Lively(c), ~stop, Prime(c), UNCHANGED <<mode, bound>>
    PROVE  Lively(c)'
<1>1. /\ main[c].pc \in {"prime", "primeAsleep"} /\ "main" \notin queue[c].notEmpty
      /\ UNCHANGED <<stop, render, tx, device, feed, jobs, mode, bound>>
  BY Live DEF Prime, Asleep
<1>2. main[c].pc \in InJob /\ main[c].pc \notin HasTx /\ AtRenderJob(c) /\ feed[c].pc = "idle"
  BY <1>1, Idle DEF InJob, HasTx, Flow, Working
<1>3. PICK step \in {"create", "primeAsleep"} : MainGoto(c, step)
  BY DEF Prime
<1>4. main'[c].pc = step /\ main'[c].job = main[c].job /\ main'[c].off = main[c].off
  BY <1>3, Stepped
<1>5. main'[c].pc \in InJob /\ main'[c].pc \notin HasTx
  BY <1>4 DEF InJob, HasTx
<1>6. AtRenderJob(c)' = AtRenderJob(c) /\ Length(c)' = Length(c)
  BY <1>1, <1>4 DEF AtRenderJob, Length, TheJob, Scheduled
<1>7. queue[c].notEmpty = {} /\ queue[c].notFull \subseteq {"render"}
  BY <1>1, <1>2, Live DEF Asleep
<1>8. CASE UNCHANGED queue
  <2>1. Items(c)' = Items(c) /\ IsFull(c)' = IsFull(c) /\ queue'[c] = queue[c]
    BY <1>8 DEF Items, IsFull
  <2>2. Asleep(c)' /\ Woken(c)'
    BY <1>1, <1>7, <2>1, Live DEF Asleep, Woken
  <2>3. Staffed(c)' /\ Providing(c)'
    BY <1>1, <1>2, <1>4, <1>5, <1>6, Live DEF Staffed, Providing
  <2>4. Ending(c)'
    <3>1. SentinelMade(c)' <=> SentinelMade(c)
      BY <1>1, <1>4, <1>6 DEF SentinelMade, SentinelFed
    <3>2. ~Holding(c)'
      BY <1>5 DEF Holding
    <3>3. QED
      BY <1>2, <1>5, <2>1, <3>1, <3>2, Live DEF Ending
  <2>5. QED
    BY <2>2, <2>3, <2>4 DEF Lively
<1>9. CASE /\ ~ (Len(Items(c)) >= Capacity \div 2 \/ render[c].complete)
           /\ SleepNotEmpty(c, "main") /\ MainGoto(c, "primeAsleep")
  <2>1. /\ Items(c)' = Items(c) /\ IsFull(c)' = IsFull(c) /\ main'[c].pc = "primeAsleep"
        /\ queue'[c].notEmpty = {"main"} /\ queue'[c].notFull = queue[c].notFull
    BY <1>7, <1>9, QueueAt, Stepped DEF IsFull
  <2>2. Asleep(c)' /\ Woken(c)'
    BY <1>1, <1>7, <1>9, <2>1, Live DEF Asleep, Woken
  <2>3. Staffed(c)' /\ Providing(c)'
    BY <1>1, <1>2, <1>4, <1>5, <1>6, <2>1, Live DEF Staffed, Providing
  <2>4. Ending(c)'
    <3>1. SentinelMade(c)' <=> SentinelMade(c)
      BY <1>1, <1>4, <1>6 DEF SentinelMade, SentinelFed
    <3>2. ~Holding(c)'
      BY <1>5 DEF Holding
    <3>3. QED
      BY <1>2, <1>5, <2>1, <3>1, <3>2, Live DEF Ending
  <2>5. QED
    BY <2>2, <2>3, <2>4 DEF Lively
<1>10. QED
  BY <1>8, <1>9 DEF Prime

\* What is left to feed.
LEMMA AtMix ==
    ASSUME IInv, NEW c \in Channel, Flow(c), main[c].pc = "mix"
    PROVE  /\ Length(c) \in Nat /\ main[c].off \in 0 .. Length(c) /\ ~AtRenderJob(c)
           /\ feed[c].pc = "idle" /\ main[c].pc \in HasTx
<1>1. main[c].pc \in InJob /\ main[c].pc \in HasTx /\ feed[c].pc = "idle" /\ ~AtRenderJob(c)
  BY Idle DEF InJob, HasTx, Flow, Working
<1>2. Made(c) = main[c].off + 0 /\ Made(c) \in 0 .. Length(c) /\ main[c].off \in Nat
  BY <1>1, Parts DEF Made, Flow, Queued
<1>3. Length(c) \in Nat
  BY LengthIsNat
<1>4. QED
  BY <1>1, <1>2, <1>3

LEMMA MixLives ==
    ASSUME IInv, NEW c \in Channel, Flow(c), Lively(c), ~stop, main[c].pc = "mix",
           UNCHANGED <<queue, render, tx, jobs, mode, bound>>, NEW left, left = Length(c) - main[c].off,
           \/ /\ left > 0 /\ MainGoto(c, "mixPush")
              /\ StartFeed(c, Block(Least(left, BlockSize), main[c].off = 0, Least(left, BlockSize) = left))
           \/ left <= 0 /\ StartFeed(c, Sentinel) /\ MainGoto(c, "sentinel")
           \/ left <= 0 /\ mode = "replay" /\ UNCHANGED feed /\ MainGoto(c, "take")
    PROVE  Lively(c)'
<1>1. /\ Length(c) \in Nat /\ main[c].off \in 0 .. Length(c) /\ ~AtRenderJob(c)
      /\ feed[c].pc = "idle" /\ main[c].pc \in HasTx
  BY AtMix
<1>2. PICK step \in {"mixPush", "sentinel", "take"} : MainGoto(c, step)
  OBVIOUS
<1>3. main'[c].pc = step /\ main'[c].job = main[c].job /\ main'[c].off = main[c].off
  BY <1>2, Stepped
<1>4. main'[c].pc \in HasTx
  BY <1>3 DEF HasTx
<1>5. ~SentinelFed(c)
  BY DEF SentinelFed
<1>6. SentinelFed(c)' => Length(c) > 0
  <2>1. CASE StartFeed(c, Sentinel) /\ MainGoto(c, "sentinel")
    <3>1. feed'[c].pc = "push" /\ main'[c].pc = "sentinel"
      BY <2>1, Stepped, Here DEF StartFeed
    <3>2. QED
      BY <3>1 DEF SentinelFed
  <2>2. CASE MainGoto(c, "mixPush")
    <3>1. main'[c].pc = "mixPush"
      BY <2>2, Stepped
    <3>2. QED
      BY <3>1 DEF SentinelFed
  <2>3. CASE mode = "replay"
    BY <2>3, Live DEF Providing, InJob, HasTx
  <2>4. QED
    BY <2>1, <2>2, <2>3
<1>7. main'[c].pc = "mixPush" => feed'[c].block.n > 0
  <2>1. SUFFICES ASSUME main'[c].pc = "mixPush" PROVE feed'[c].block.n > 0
    OBVIOUS
  <2>2. left > 0 /\ feed'[c].block = Block(Least(left, BlockSize), main[c].off = 0, Least(left, BlockSize) = left)
    BY <2>1, Stepped, Here DEF StartFeed
  <2>3. QED
    BY <1>1, <2>2, WorkersAssumption DEF Block, Least
<1>8. main'[c].pc \in {"sentinel", "take", "joinTx"} => main'[c].off = Length(c)
  BY <1>1, <1>3, Stepped
<1>9. main'[c].pc \notin {"notify", "renderSentinel", "move", "joinTx"}
  BY <1>3
<1>10. QED
  BY <1>1, <1>3, <1>4, <1>5, <1>6, <1>7, <1>8, <1>9, Along

\* A push_wait has returned, and nothing was stopped.
LEMMA FedLives ==
    ASSUME IInv, NEW c \in Channel, Flow(c), Lively(c), ~stop, UNCHANGED <<mode, bound>>,
           \/ MixPushed(c)
           \/ \E step \in {"take", "joinTx"} : MixSentinelPushed(c, step)
           \/ \E step \in {"move", "joinTx"} : RenderSentinelPushed(c, step)
    PROVE  Lively(c)'
<1>1. /\ main[c].pc \in {"mixPush", "sentinel", "renderSentinel"} /\ feed[c].pc \in {"ok", "stopped"}
      /\ UNCHANGED <<stop, queue, render, tx, device, jobs>>
  BY DEF MixPushed, MixSentinelPushed, RenderSentinelPushed, Fed
<1>2. feed[c].pc = "ok" /\ main[c].pc \in HasTx /\ main[c].pc \in InJob
  BY <1>1 DEF Flow, Feeding, HasTx, InJob
<1>3. CASE MixPushed(c)
  <2>1. main' = [main EXCEPT ![c].off = @ + feed[c].block.n, ![c].pc = "mix"] /\ main[c].pc = "mixPush"
    BY <1>2, <1>3 DEF MixPushed
  <2>2. main'[c].pc = "mix" /\ main'[c].job = main[c].job
    BY <2>1, Here DEF MainType
  <2>3. ~SentinelFed(c) /\ ~SentinelFed(c)' /\ main'[c].pc \in HasTx
    BY <2>1, <2>2 DEF SentinelFed, HasTx
  <2>4. QED
    BY <1>1, <1>2, <2>2, <2>3, Along
<1>4. ASSUME NEW step \in {"take", "joinTx"}, MixSentinelPushed(c, step) PROVE Lively(c)'
  <2>1. main[c].pc = "sentinel" /\ MainGoto(c, step)
    BY <1>4 DEF MixSentinelPushed
  <2>2. main'[c].pc = step /\ main'[c].job = main[c].job /\ main'[c].off = main[c].off
    BY <2>1, Stepped
  <2>3. SentinelFed(c) /\ SentinelFed(c)' /\ main'[c].pc \in HasTx
    BY <1>2, <2>1, <2>2 DEF SentinelFed, HasTx
  <2>4. ~AtRenderJob(c)
    BY <2>1 DEF Flow, Working
  <2>5. main[c].off = Length(c)
    BY <2>1, <2>4, Live DEF Providing
  <2>6. QED
    BY <1>1, <1>2, <2>2, <2>3, <2>4, <2>5, Along
<1>5. ASSUME NEW step \in {"move", "joinTx"}, RenderSentinelPushed(c, step) PROVE Lively(c)'
  <2>1. main[c].pc = "renderSentinel" /\ MainGoto(c, step)
    BY <1>5 DEF RenderSentinelPushed
  <2>2. main'[c].pc = step /\ main'[c].job = main[c].job
    BY <2>1, Stepped
  <2>3. SentinelFed(c) /\ SentinelFed(c)' /\ main'[c].pc \in HasTx
    BY <1>2, <2>1, <2>2 DEF SentinelFed, HasTx
  <2>4. AtRenderJob(c)
    BY <2>1 DEF Flow, Working
  <2>5. ~render[c].failed
    BY <1>2, <2>1, <2>4, Live DEF Staffed
  <2>6. QED
    BY <1>1, <1>2, <2>2, <2>3, <2>4, <2>5, Along
<1>6. QED
  BY <1>3, <1>4, <1>5

\* The RenderWorker is joined: after a failure all is stopped, and only then.
LEMMA JoinedLives ==
    ASSUME IInv, NEW c \in Channel, Flow(c), Lively(c), ~stop, UNCHANGED <<mode, bound>>,
           JoinRenderWorker(c) \/ (Decide(c) /\ ~IsMulti) \/ ChannelJoinRender(c)
    PROVE  Lively(c)'
<1>1. /\ main[c].pc \in {"joinRender", "decide"} /\ main[c].pc \in HasTx
      /\ UNCHANGED <<stop, queue, render, tx, device, jobs>>
  BY DEF JoinRenderWorker, Decide, ChannelJoinRender, HasTx, workerVars
<1>2. AtRenderJob(c) /\ feed[c].pc = "idle"
  BY <1>1, Idle DEF Flow, Working
<1>3. ~SentinelFed(c)
  BY <1>1 DEF SentinelFed
<1>4. main[c].pc = "decide" /\ ~IsMulti => c \in active
  BY <1>1 DEF Flow, Working
<1>5. NothingRendered(c) \/ Length(c) > 0
  <2>1. render[c].target = Length(c)
    BY <1>1, <1>2 DEF Flow, Rendering, InJob
  <2>2. QED
    BY <2>1, Parts DEF NothingRendered
<1>6. ASSUME NEW step, main'[c].pc = step, main'[c].job = main[c].job,
             \/ step \in {"decide", "stop"} /\ feed' = feed
             \/ step = "renderSentinel" /\ StartFeed(c, Sentinel) /\ ~render[c].failed
             \/ step \in {"move", "joinTx"} /\ feed' = feed /\ ~render[c].failed /\ ~NothingRendered(c)
      PROVE  Lively(c)'
  <2>1. main'[c].pc \in HasTx
    BY <1>6 DEF HasTx
  <2>2. StartFeed(c, Sentinel) => feed'[c].pc = "push"
    BY Here DEF StartFeed
  <2>3. SentinelFed(c)' => Length(c) > 0
    BY <1>5, <1>6, <2>2 DEF SentinelFed
  <2>4. QED
    BY <1>1, <1>2, <1>3, <1>6, <2>1, <2>3, Along
<1>7. CASE JoinRenderWorker(c)
  <2>1. main'[c].pc = "decide" /\ main'[c].job = main[c].job /\ feed' = feed
    BY <1>7, Here DEF JoinRenderWorker, workerVars, MainType
  <2>2. QED
    BY <1>6, <2>1
<1>8. CASE Decide(c) /\ ~IsMulti
  <2>1. PICK step \in {"stop", "renderSentinel", "move"} :
            /\ MainGoto(c, step)
            /\ step = "stop" => feed' = feed
            /\ step = "renderSentinel" => StartFeed(c, Sentinel) /\ ~render[c].failed
            /\ step = "move" => feed' = feed /\ ~render[c].failed /\ ~NothingRendered(c)
    BY <1>4, <1>8 DEF Decide
  <2>2. main'[c].pc = step /\ main'[c].job = main[c].job
    BY <2>1, Stepped
  <2>3. QED
    BY <1>6, <2>1, <2>2
<1>9. CASE ChannelJoinRender(c)
  <2>1. CASE main' = [main EXCEPT ![c].failed = TRUE, ![c].pc = "stop"] /\ feed' = feed
    <3>1. main'[c].pc = "stop" /\ main'[c].job = main[c].job
      BY <2>1, Here DEF MainType
    <3>2. QED
      BY <1>6, <2>1, <3>1
  <2>2. CASE ~render[c].failed /\ StartFeed(c, Sentinel) /\ MainGoto(c, "renderSentinel")
    <3>1. main'[c].pc = "renderSentinel" /\ main'[c].job = main[c].job
      BY <2>2, Stepped
    <3>2. QED
      BY <1>6, <2>2, <3>1
  <2>3. CASE ~render[c].failed /\ ~NothingRendered(c) /\ MainGoto(c, "joinTx") /\ feed' = feed
    <3>1. main'[c].pc = "joinTx" /\ main'[c].job = main[c].job
      BY <2>3, Stepped
    <3>2. QED
      BY <1>6, <2>3, <3>1
  <2>4. QED
    BY <1>9, <2>1, <2>2, <2>3 DEF ChannelJoinRender
<1>10. QED
  BY <1>7, <1>8, <1>9

\* The TxWorker is taken to be joined.
LEMMA TakenLives ==
    ASSUME IInv, NEW c \in Channel, Flow(c), Lively(c), ~stop, UNCHANGED <<mode, bound>>, ~IsMulti,
           MoveWorker(c) \/ TakeWorker(c) \/ TakeFedWorker(c)
    PROVE  Lively(c)'
<1>1. /\ main[c].pc \in {"move", "take"} /\ main[c].pc \in HasTx /\ main[c].pc \in InJob
      /\ UNCHANGED <<stop, queue, render, tx, feed, device, jobs>>
  BY DEF MoveWorker, TakeWorker, TakeFedWorker, HasTx, InJob, workerVars
<1>2. c \in active
  BY <1>1 DEF Flow, Working
<1>3. MainGoto(c, "joinTx")
  BY <1>2 DEF MoveWorker, TakeWorker, TakeFedWorker
<1>4. main'[c].pc = "joinTx" /\ main'[c].job = main[c].job /\ main'[c].off = main[c].off
  BY <1>3, Stepped
<1>5. SentinelFed(c) /\ SentinelFed(c)' /\ main'[c].pc \in HasTx
  BY <1>1, <1>4 DEF SentinelFed, HasTx
<1>6. AtRenderJob(c) => ~render[c].failed
  BY <1>1, Live DEF Flow, Working, Staffed
<1>7. ~AtRenderJob(c) => main[c].off = Length(c)
  BY <1>1, Live DEF Flow, Working, Providing
<1>8. QED
  BY <1>1, <1>4, <1>5, <1>6, <1>7, Along

\* The job is over.
LEMMA CollectedLives ==
    ASSUME IInv, NEW c \in Channel, Flow(c), Lively(c), ~stop, UNCHANGED <<mode, bound>>,
           CollectTx(c) \/ JoinTx(c)
    PROVE  Lively(c)'
<1>1. /\ main[c].pc = "joinTx" /\ tx[c].pc = "done"
      /\ UNCHANGED <<stop, queue, render, tx, feed, device, jobs>>
  BY DEF CollectTx, JoinTx, workerVars
<1>2. main'[c].pc \in {"next", "ended"}
  <2>1. main \in [Channel -> MainType]
    BY Here
  <2>2. CASE CollectTx(c)
    BY <2>1, <2>2 DEF CollectTx, MainType
  <2>3. CASE JoinTx(c)
    BY <2>1, <2>3 DEF JoinTx, MainType
  <2>4. QED
    BY <2>2, <2>3
<1>3. main'[c].pc \notin InJob
  BY <1>2 DEF InJob, HasTx
<1>4. QED
  BY <1>1, <1>2, <1>3, Outside

LEMMA JobLives ==
    ASSUME IInv, NEW c \in Channel, Flow(c), Lively(c), ~stop, mode = "realtime", UNCHANGED <<mode, bound>>,
           JobStep(c)
    PROVE  Lively(c)'
<1>1. CASE LoopHead(c) \/ Delay(c)
  <2>1. PICK step \in {"delay", "begin", "ended"} :
            main[c].pc \in {"next", "delay", "begin"} /\ MainGoto(c, step) /\ UNCHANGED <<workerVars, jobs>>
    BY <1>1 DEF LoopHead, Delay
  <2>2. QED
    BY <2>1, ToJobLives DEF workerVars
<1>2. CASE MixLoop(c)
  <2>1. main[c].pc = "mix" /\ UNCHANGED <<queue, render, tx, jobs>>
    BY <1>2 DEF MixLoop
  <2>2. TheJob(c).target - main[c].off = Length(c) - main[c].off
    BY DEF Length
  <2>3. Length(c) - main[c].off \in Int
    BY <2>1, AtMix
  <2>4. QED
    BY <1>2, <2>1, <2>2, <2>3, MixLives DEF MixLoop
<1>3. CASE StopAll(c)
  BY <1>3 DEF StopAll, Lively
<1>4. CASE FeedStep(c) /\ UNCHANGED jobVars
  BY <1>4, FeedLives
<1>5. QED
  BY <1>1, <1>2, <1>3, <1>4, LaunchLives, PrimeLives, FedLives, CollectedLives DEF JobStep

\* A step of a thread that stops the run needs no more.
LEMMA StopsAll ==
    ASSUME NEW c \in Channel, Lively(c), ~stop, \E step : NotifyTx(c, step)
    PROVE  FALSE
BY Live DEF NotifyTx, Staffed

LEMMA SingleLives ==
    ASSUME IInv, NEW c \in Channel, Flow(c), Lively(c), ~stop, IsSingle, SingleStep(c), UNCHANGED <<mode, bound>>
    PROVE  Lively(c)'
<1>1. mode = "realtime" /\ ~IsMulti
  BY DEF IsSingle, IsMulti
<1>2. CASE EnsureTxStarted(c)
  <2>1. PICK step \in {"launch", "ended"} : MainGoto(c, step) /\ main[c].pc = "begin"
    BY <1>2 DEF EnsureTxStarted
  <2>2. UNCHANGED <<queue, render, tx, feed, jobs>>
    BY <1>2 DEF EnsureTxStarted
  <2>3. QED
    BY <1>1, <2>1, <2>2, ToJobLives
<1>3. CASE CreateActiveWorker(c)
  BY <1>3, Manned DEF CreateActiveWorker, StartTxOfJob
<1>4. CASE JoinRenderWorker(c) \/ Decide(c)
  BY <1>1, <1>4, JoinedLives
<1>5. CASE MoveWorker(c) \/ TakeWorker(c)
  BY <1>1, <1>5, TakenLives
<1>6. CASE \/ JobStep(c) \/ MixSentinelPushed(c, "take")
           \/ RenderSentinelPushed(c, "move") \/ NotifyTx(c, "move")
  BY <1>1, <1>6, JobLives, FedLives, StopsAll
<1>7. QED
  BY <1>2, <1>3, <1>4, <1>5, <1>6 DEF SingleStep

LEMMA ThreadLives ==
    ASSUME IInv, NEW c \in Channel, Flow(c), Lively(c), ~stop, IsMulti, ChannelThread(c), UNCHANGED <<mode, bound>>
    PROVE  Lively(c)'
<1>1. mode = "realtime"
  BY DEF IsMulti
<1>2. CASE ChannelBegin(c)
  BY <1>1, <1>2, ToJobLives DEF ChannelBegin, workerVars
<1>3. CASE StartTxOfJob(c)
  BY <1>3, Manned DEF StartTxOfJob
<1>4. QED
  BY <1>1, <1>2, <1>3, JobLives, JoinedLives, FedLives, StopsAll DEF ChannelThread

LEMMA ReplayLives ==
    ASSUME IInv, NEW c \in Channel, Flow(c), Lively(c), ~stop, IsReplay, ReplayStep(c), UNCHANGED <<mode, bound>>
    PROVE  Lively(c)'
<1>1. mode = "replay" /\ ~AtRenderJob(c) /\ ~IsMulti /\ Length(c) = Scheduled(c)
  BY DEF IsReplay, AtRenderJob, IsMulti, Length
<1>2. CASE RenderAll(c)
  <2>1. PICK step \in {"begin", "ended"} :
            MainGoto(c, step) /\ main[c].pc = "next" /\ (step = "begin" => Scheduled(c) > 0)
    BY <1>2 DEF RenderAll
  <2>2. UNCHANGED <<queue, render, tx, feed, jobs>>
    BY <1>2 DEF RenderAll, workerVars
  <2>3. QED
    BY <2>1, <2>2, ToJobLives
<1>3. CASE ReplayBegin(c)
  <2>1. main[c].pc = "begin" /\ UNCHANGED <<render, tx, feed, jobs>> /\ main[c].pc \notin InJob
    BY <1>3 DEF ReplayBegin, InJob, HasTx
  <2>2. CASE queue' = [queue EXCEPT ![c] = NewQueue] /\ MainGoto(c, "create")
    <3>1. main'[c].pc = "create" /\ ~AtRenderJob(c)'
      BY <1>1, <2>2, Stepped DEF AtRenderJob
    <3>2. Length(c) > 0
      BY <1>1, <2>1, Live DEF Providing
    <3>3. Length(c)' > 0
      BY <1>1, <2>1, <3>2 DEF Length, Scheduled
    <3>4. QED
      BY <2>1, <2>2, <3>1, <3>3, Anew
  <2>3. CASE MainGoto(c, "ended") /\ UNCHANGED queue
    BY <2>1, <2>3, ToJobLives
  <2>4. QED
    BY <1>3, <2>2, <2>3 DEF ReplayBegin
<1>4. CASE CreateFedWorker(c)
  BY <1>4, Manned DEF CreateFedWorker
<1>5. CASE TakeFedWorker(c) \/ JoinTx(c)
  BY <1>1, <1>5, TakenLives, CollectedLives
<1>6. CASE ReplayLoop(c)
  <2>1. main[c].pc = "mix" /\ UNCHANGED <<queue, render, tx, jobs>>
    BY <1>6 DEF ReplayLoop
  <2>2. Length(c) \in Nat /\ main[c].off \in Nat
    BY <2>1, AtMix
  <2>3. QED
    BY <1>1, <1>6, <2>1, <2>2, MixLives DEF ReplayLoop
<1>7. CASE MixPushed(c) \/ MixSentinelPushed(c, "take")
  BY <1>7, FedLives
<1>8. CASE FeedStep(c) /\ UNCHANGED jobVars
  BY <1>8, FeedLives
<1>9. QED
  BY <1>2, <1>3, <1>4, <1>5, <1>6, <1>7, <1>8 DEF ReplayStep

-----------------------------------------------------------------------------
(* Every step. *)

LEMMA InitLives == RunInit => LiveInv
<1> SUFFICES ASSUME RunInit PROVE LiveInv
  OBVIOUS
<1>1. FlowInv
  BY InitFlow
<1>2. Underway
  BY DEF RunInit, Init, Underway
<1>3. ASSUME NEW c \in Channel PROVE Lively(c)
  <2>1. /\ main[c].pc = "next" /\ queue[c] = NewQueue
    BY DEF RunInit, Init, WorkersInit, JobsInit
  <2>2. main[c].pc \notin InJob /\ main[c].pc \notin HasTx
    BY <2>1 DEF InJob, HasTx
  <2>3. queue[c].notEmpty = {} /\ queue[c].notFull = {}
    BY <2>1 DEF NewQueue
  <2>4. Asleep(c) /\ Woken(c)
    BY <2>3 DEF Asleep, Woken
  <2>5. Staffed(c) /\ Providing(c) /\ Ending(c)
    BY <2>1, <2>2 DEF Staffed, Providing, Ending
  <2>6. QED
    BY <2>4, <2>5 DEF Lively
<1>4. QED
  BY <1>1, <1>2, <1>3 DEF LiveInv

\* A step of the thread or of a worker of one channel.
LEMMA OneLives ==
    ASSUME IInv, \A d \in Channel : Lively(d), ~stop, UNCHANGED <<jobs, mode, bound>>,
           NEW c \in Channel, Beside(c), Lively(c)'
    PROVE  \A d \in Channel : Lively(d)'
<1> SUFFICES ASSUME NEW d \in Channel \ {c} PROVE Lively(d)'
  OBVIOUS
<1>1. QED
  BY Elsewhere DEF Beside

\* Nothing takes a stop back.
LEMMA SingleKeepsStop ==
    ASSUME IInv, NEW c \in Channel, SingleStep(c)
    PROVE  stop => stop'
<1>1. CASE JobStep(c)
  BY <1>1, FeedEffect DEF JobStep, LoopHead, Delay, LaunchRender, Prime, PrepareMix, MixLoop, MixPushed,
     StopAll, CollectTx, workerVars
<1>2. QED
  BY <1>1 DEF SingleStep, EnsureTxStarted, CreateActiveWorker, StartTxOfJob, StartTxWorker,
     JoinRenderWorker, Decide, MoveWorker, TakeWorker, MixSentinelPushed, RenderSentinelPushed,
     NotifyTx, workerVars

LEMMA ReplayKeepsStop ==
    ASSUME IInv, NEW c \in Channel, ReplayStep(c)
    PROVE  stop => stop'
<1>1. CASE FeedStep(c)
  BY <1>1, FeedEffect
<1>2. QED
  BY <1>1 DEF ReplayStep, RenderAll, ReplayBegin, CreateFedWorker, StartTxWorker, TakeFedWorker,
     JoinTx, ReplayLoop, MixPushed, MixSentinelPushed, workerVars

LEMMA StepLives == LiveInv /\ [RunNext]_runVars => LiveInv'
<1> SUFFICES ASSUME LiveInv, [RunNext]_runVars PROVE LiveInv'
  OBVIOUS
<1>1. FlowInv /\ FlowInv' /\ IInv /\ Underway /\ \A c \in Channel : Flow(c) /\ Lively(c)
  BY StepFlow DEF LiveInv, FlowInv
<1>2. stop \in BOOLEAN /\ UNCHANGED <<mode, bound>> /\ (mode' = mode => IsSingle' = IsSingle /\ IsMulti' = IsMulti /\ IsReplay' = IsReplay)
  BY <1>1, Modal DEF RunNext, runVars
<1>3. ASSUME run'.pc = "jobs" => run.pc = "jobs" \/ IsSingle \/ IsMulti \/ IsReplay PROVE Underway'
  BY <1>1, <1>2, <1>3 DEF Underway
<1>4. ASSUME UNCHANGED <<queue, render, tx, feed, jobVars>>, stop => stop'
      PROVE  \A c \in Channel : Lively(c)'
  <2>1. CASE stop'
    BY <2>1 DEF Lively
  <2>2. CASE ~stop'
    BY <1>1, <1>2, <1>4, <2>2, Elsewhere DEF jobVars
  <2>3. QED
    BY <2>1, <2>2
<1>5. CASE UNCHANGED runVars
  <2>1. UNCHANGED <<queue, render, tx, feed, jobVars, stop, run>>
    BY <1>5 DEF runVars, vars, workerVars, controlVars
  <2>2. QED
    BY <1>1, <1>3, <1>4, <2>1 DEF LiveInv
<1> SUFFICES ASSUME RunNext PROVE Underway' /\ \A c \in Channel : Lively(c)'
  BY <1>1, <1>5 DEF LiveInv
<1>6. CASE \/ RunEnter \/ RunEvents \/ ReturnStep \/ Rethrow \/ RefusedReplay
  <2>1. UNCHANGED <<queue, render, tx, feed, jobVars, stop>>
    BY <1>6 DEF RunEnter, RunEvents, ReturnStep, RunFinish, RunComplete, RunFailing, RunFail, Rethrow,
       RefusedReplay, RunEntered, workerVars
  <2>2. run'.pc # "jobs"
    <3>1. run \in RunRecord
      BY <1>1 DEF IInv, ControlTypes
    <3>2. CASE RunFinish \/ RunComplete \/ RunFailing \/ RunFail
      BY <3>1, <3>2 DEF RunFinish, RunComplete, RunFailing, RunFail, RunGoto, Return, RunRecord
    <3>3. QED
      BY <1>6, <3>1, <3>2 DEF RunEnter, RunEvents, ReturnStep, Rethrow, RefusedReplay, RunEntered,
         RunGoto, RunRecord
  <2>3. QED
    BY <1>3, <1>4, <2>1, <2>2
<1>7. CASE /\ RunEntered("jobs") \/ RunEntered("start") \/ LaunchThreads
           /\ IsSingle \/ IsMulti \/ IsReplay
  <2>1. UNCHANGED <<queue, render, tx, feed, jobVars, stop>>
    BY <1>7 DEF RunEntered, LaunchThreads, workerVars
  <2>2. QED
    BY <1>3, <1>4, <1>7, <2>1
<1>8. ASSUME NEW c \in Channel, RunStopTx(c) \/ RollbackChannel(c) \/ StartChannel(c)
      PROVE  Underway' /\ \A d \in Channel : Lively(d)'
  <2>1. UNCHANGED <<queue, render, tx, feed, jobVars, stop>>
    BY <1>8 DEF RunStopTx, RollbackChannel, StartChannel
  <2>2. run'.pc = run.pc \/ run'.pc = "rollback"
    <3>1. run \in RunRecord
      BY <1>1 DEF IInv, ControlTypes
    <3>2. QED
      BY <1>8, <3>1 DEF RunStopTx, RollbackChannel, StartChannel, RunGoto, RunRecord
  <2>3. QED
    BY <1>1, <1>3, <1>4, <2>1, <2>2
<1>9. CASE AbortCall \/ AbortStep
  <2>1. stop' /\ run' = run
    <3>1. abort.pc # "idle" => stop
      BY <1>1 DEF IInv, Control
    <3>2. CASE AbortCall
      BY <3>2 DEF AbortCall
    <3>3. CASE AbortNotify
      BY <3>1, <3>3 DEF AbortNotify
    <3>4. CASE AbortCheck \/ AbortWrite \/ AbortLock \/ AbortJoin
      BY <3>1, <3>4 DEF AbortCheck, AbortWrite, AbortLock, AbortJoin, workerVars
    <3>5. CASE \E c \in Channel : AbortStopTx(c)
      BY <3>1, <3>5 DEF AbortStopTx
    <3>6. QED
      BY <1>9, <3>2, <3>3, <3>4, <3>5 DEF AbortStep
  <2>2. Underway'
    BY <1>1, <1>3, <2>1
  <2>3. QED
    BY <2>1, <2>2 DEF Lively
\* A step of one channel.
<1>10. ASSUME NEW c \in Channel, Beside(c), UNCHANGED jobs, stop => stop',
              ~stop /\ ~stop' => Lively(c)'
       PROVE  \A d \in Channel : Lively(d)'
  <2>1. CASE stop'
    BY <2>1 DEF Lively
  <2>2. CASE ~stop'
    BY <1>1, <1>2, <1>10, <2>2, OneLives
  <2>3. QED
    BY <2>1, <2>2
<1>11. CASE IsSingle /\ SingleRun
  <2>1. ASSUME NEW c \in Channel, SingleStep(c) PROVE Underway' /\ \A d \in Channel : Lively(d)'
    <3>1. Underway'
      BY <1>3, <2>1 DEF SingleStep
    <3>2. stop => stop'
      BY <1>1, <1>2, <2>1, SingleKeepsStop
    <3>3. ~stop => Lively(c)'
      BY <1>1, <1>2, <1>11, <2>1, SingleLives
    <3>4. Lively(c)'
      BY <1>2, <3>2, <3>3 DEF Lively
    <3>5. QED
      BY <1>11, <3>1, <3>4, OneChannel
  <2>2. QED
    BY <1>6, <1>7, <1>8, <1>11, <2>1 DEF SingleRun, EventsThenStop
<1>12. CASE IsMulti /\ MultiRun
  BY <1>6, <1>7, <1>8, <1>12 DEF MultiRun, EventsThenStop
<1>13. CASE IsReplay /\ ReplayRun
  <2>1. ASSUME NEW c \in Channel, ReplayStep(c) PROVE Underway' /\ \A d \in Channel : Lively(d)'
    <3>1. Underway'
      BY <1>3, <2>1 DEF ReplayStep
    <3>2. stop => stop'
      BY <1>1, <1>2, <2>1, ReplayKeepsStop
    <3>3. ~stop => Lively(c)'
      BY <1>1, <1>2, <1>13, <2>1, ReplayLives
    <3>4. Lively(c)'
      BY <1>2, <3>2, <3>3 DEF Lively
    <3>5. QED
      BY <1>13, <3>1, <3>4, OneChannel
  <2>2. QED
    BY <1>6, <1>7, <1>8, <1>13, <2>1 DEF ReplayRun, StopThenEvents
<1>14. ASSUME NEW c \in Channel, ThreadOfChannel(c) PROVE Underway' /\ \A d \in Channel : Lively(d)'
  <2>1. IsMulti /\ ChannelThread(c) /\ run.pc = "jobs"
    BY <1>14 DEF ThreadOfChannel, ChannelThread
  <2>2. Beside(c) /\ UNCHANGED jobs /\ (stop => stop')
    BY <1>1, <2>1, ThreadBeside
  <2>3. ~stop => Lively(c)'
    BY <1>1, <1>2, <2>1, ThreadLives
  <2>4. QED
    BY <1>3, <1>10, <2>1, <2>2, <2>3
<1>15. ASSUME NEW c \in Channel, WorkerStep(c) PROVE Underway' /\ \A d \in Channel : Lively(d)'
  <2>1. UNCHANGED jobVars /\ run' = run
    BY <1>15 DEF WorkerStep, controlVars
  <2>2. CASE RenderStep(c)
    <3>1. Beside(c) /\ stop' = stop
      BY <1>1, <2>1, <2>2, RenderEffect DEF Beside, jobVars
    <3>2. ~stop => Lively(c)'
      BY <1>1, <1>2, <2>1, <2>2, RenderLives
    <3>3. QED
      BY <1>1, <1>3, <1>10, <2>1, <3>1, <3>2 DEF jobVars
  <2>3. CASE TxStep(c)
    <3>1. Beside(c) /\ (stop => stop')
      BY <1>1, <2>1, <2>3, TxEffect DEF Beside, jobVars
    <3>2. ~stop => Lively(c)'
      BY <1>1, <1>2, <2>1, <2>3, TxLives
    <3>3. QED
      BY <1>1, <1>3, <1>10, <2>1, <3>1, <3>2 DEF jobVars
  <2>4. QED
    BY <1>15, <2>2, <2>3 DEF WorkerStep
<1>16. CASE mode = "replay" /\ ~OnOneChannel /\ RefusedReplay
  BY <1>6, <1>16
<1>17. CASE Finished
  BY <1>1, <1>2, <1>5, <1>17 DEF Finished, runVars, LiveInv
<1>18. QED
  BY <1>9, <1>11, <1>12, <1>13, <1>14, <1>15, <1>16, <1>17 DEF RunNext, RunThread

LEMMA LiveInvariant == Spec => []LiveInv
BY InitLives, StepLives, PTL DEF Spec

\* In a run that nothing stops no channel is ever stuck: whatever the schedules,
\* the blocks and the capacity of the queues, however long its threads have
\* waited and whichever of them were woken in vain, while the thread of a channel
\* waits for a queue or for a worker, one of its own workers is awake and at
\* work, and the mutex of the active TxWorker is free when it wants it.
THEOREM ChannelsGoOn == Spec => []NeverStuck
BY LiveInvariant, NobodyIsStuck, PTL
=============================================================================
