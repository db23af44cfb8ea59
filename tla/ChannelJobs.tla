----------------------------- MODULE ChannelJobs -----------------------------
(***************************************************************************)
(* The loop over the schedule of one channel, in the parts that are the    *)
(* same in Runtime::run_single_channel, where the calling thread runs it,  *)
(* and in Runtime::execute_channel_jobs, where a thread per channel does   *)
(* (core/runtime/src/runtime.cpp).  "main" is that thread.  A job is a     *)
(* render job, with a RenderWorker of its own, or a mix group, which the   *)
(* main thread mixes beforehand and feeds to the queue.                    *)
(***************************************************************************)
EXTENDS Workers

CONSTANT Schedules    \* the schedules there may be: per channel, a sequence of jobs

\* gap: the job starts later than the end of those before it.
Job == [kind : {"render", "mix"}, target : Nat, gap : BOOLEAN]

\* What the first n jobs of a schedule add up to, and all of them.
UpTo(schedule) ==
    LET sum[n \in 0 .. Len(schedule)] == IF n = 0 THEN 0 ELSE sum[n - 1] + schedule[n].target
    IN  sum
Total(schedule) == UpTo(schedule)[Len(schedule)]

ASSUME JobsAssumption == Schedules \subseteq [Channel -> Seq(Job)]

VARIABLES
    jobs,     \* per channel: the schedule, in order of start
    main      \* per channel: the thread that works through it, and its results

jobVars == <<jobs, main>>

JobsInit ==
    /\ jobs \in Schedules
    /\ main = [c \in Channel |-> [pc |-> "next", job |-> 1, failed |-> FALSE, off |-> 0,
                                  sent |-> 0, blocks |-> 0, underruns |-> 0]]

TheJob(c) == jobs[c][main[c].job]
MainGoto(c, step) == main' = [main EXCEPT ![c].pc = step]
NextJob(c) == main' = [main EXCEPT ![c].pc = "next", ![c].job = @ + 1]

\* The head of the loop: a stop, a failure or the end of the schedule ends it.
LoopHead(c) ==
    /\ main[c].pc = "next"
    /\ MainGoto(c, IF stop \/ main[c].failed \/ main[c].job > Len(jobs[c]) THEN "ended"
                   ELSE IF TheJob(c).gap THEN "delay" ELSE "begin")
    /\ UNCHANGED <<workerVars, jobs>>

\* wait_for on abort_cv_ until the start of the job; a stop breaks the loop.
Delay(c) == /\ main[c].pc = "delay"
            /\ MainGoto(c, IF stop THEN "ended" ELSE "begin")
            /\ UNCHANGED <<workerVars, jobs>>

\* A new queue and a running RenderWorker.
LaunchRender(c) ==
    /\ main[c].pc = "launch" /\ TheJob(c).kind = "render"
    /\ queue' = [queue EXCEPT ![c] = NewQueue]
    /\ render' = [render EXCEPT ![c] = RenderWorker("start", TheJob(c).target)]
    /\ MainGoto(c, "prime")
    /\ UNCHANGED <<stop, tx, device, feed, jobs>>

\* The wait for the queue to be half full or the render to be complete, before
\* the TxWorker exists.
Prime(c) ==
    /\ \/ main[c].pc = "prime"
       \/ main[c].pc = "primeAsleep" /\ "main" \notin queue[c].notEmpty
    /\ IF Len(Items(c)) >= Capacity \div 2 \/ render[c].complete
       THEN MainGoto(c, "create") /\ UNCHANGED queue
       ELSE MainGoto(c, "primeAsleep") /\ SleepNotEmpty(c, "main")
    /\ UNCHANGED <<stop, render, tx, device, feed, jobs>>

\* The members are rendered beforehand and added up; an invalid sample count or
\* offset or a member that cannot be rendered fails the run.  Then a new queue.
PrepareMix(c) ==
    /\ main[c].pc = "launch" /\ TheJob(c).kind = "mix"
    /\ \/ /\ main' = [main EXCEPT ![c].failed = TRUE, ![c].pc = "next", ![c].job = @ + 1]
          /\ UNCHANGED queue
       \/ /\ main' = [main EXCEPT ![c].off = 0, ![c].pc = "create"]
          /\ queue' = [queue EXCEPT ![c] = NewQueue]
    /\ UNCHANGED <<stop, render, tx, device, feed, jobs>>

\* A running TxWorker on the queue.
StartTxWorker(c, step) ==
    /\ main[c].pc = "create"
    /\ tx' = [tx EXCEPT ![c] = TxWorker("pop")]
    /\ MainGoto(c, step)
    /\ UNCHANGED <<stop, queue, render, device, feed, jobs>>

\* What comes after it: the join of the RenderWorker, or the feeding of the mix.
StartTxOfJob(c) == /\ main[c].pc = "create"
                   /\ StartTxWorker(c, IF TheJob(c).kind = "render" THEN "joinRender" ELSE "mix")

\* One turn of the loop that feeds the mixed buffer; when it ends, or sees a
\* stop, a sentinel follows.
MixLoop(c) ==
    LET off == main[c].off
        left == TheJob(c).target - off
        n == Least(left, BlockSize)
    IN  /\ main[c].pc = "mix"
        /\ IF left > 0 /\ ~stop
           THEN StartFeed(c, Block(n, off = 0, n = left)) /\ MainGoto(c, "mixPush")
           ELSE StartFeed(c, Sentinel) /\ MainGoto(c, "sentinel")
        /\ UNCHANGED <<stop, queue, render, tx, device, jobs>>

MixPushed(c) ==
    /\ main[c].pc = "mixPush" /\ Fed(c)
    /\ IF feed[c].pc = "ok"
       THEN /\ main' = [main EXCEPT ![c].off = @ + feed[c].block.n, ![c].pc = "mix"]
            /\ EndFeed(c)
       ELSE StartFeed(c, Sentinel) /\ MainGoto(c, "sentinel")
    /\ UNCHANGED <<stop, queue, render, tx, device, jobs>>

MixSentinelPushed(c, step) == /\ main[c].pc = "sentinel" /\ Fed(c)
                              /\ EndFeed(c)
                              /\ MainGoto(c, step)
                              /\ UNCHANGED <<stop, queue, render, tx, device, jobs>>

\* After a render that produced nothing the TxWorker gets a sentinel.
RenderSentinelPushed(c, step) == /\ main[c].pc = "renderSentinel" /\ Fed(c)
                                 /\ EndFeed(c)
                                 /\ MainGoto(c, step)
                                 /\ UNCHANGED <<stop, queue, render, tx, device, jobs>>

\* request_stop of the TxWorker, after a render that failed.
StopAll(c) == /\ main[c].pc = "stop"
              /\ stop' = TRUE
              /\ MainGoto(c, "notify")
              /\ UNCHANGED <<queue, render, tx, device, feed, jobs>>

NotifyTx(c, step) == /\ main[c].pc = "notify"
                     /\ NotifyAll(c)
                     /\ MainGoto(c, step)
                     /\ UNCHANGED <<stop, render, tx, device, feed, jobs>>

\* Mutant: the metrics are collected without joining the TxWorker.
CollectTxUnjoined(c) ==
    /\ main[c].pc = "joinTx"
    /\ main' = [main EXCEPT ![c].sent = @ + tx[c].sent, ![c].blocks = @ + tx[c].blocks,
                            ![c].pc = "next", ![c].job = @ + 1]
    /\ UNCHANGED <<workerVars, jobs>>

\* join the TxWorker and collect its metrics.  Its failure fails the run, and
\* so does a render job of which nothing was sent although nothing stopped it.
CollectTx(c) ==
    LET t == tx[c]
        nothing == /\ TheJob(c).kind = "render" /\ ~stop
                   /\ TheJob(c).target > 0 /\ t.sent = 0
    IN  /\ main[c].pc = "joinTx" /\ t.pc = "done"
        /\ main' = [main EXCEPT ![c].sent = @ + t.sent,
                                ![c].blocks = @ + t.blocks,
                                ![c].underruns = @ + t.underruns,
                                ![c].failed = @ \/ t.failed \/ nothing,
                                ![c].pc = "next",
                                ![c].job = @ + 1]
        /\ UNCHANGED <<workerVars, jobs>>

\* The steps that are the same in both functions.
JobStep(c) == \/ LoopHead(c) \/ Delay(c) \/ LaunchRender(c) \/ Prime(c) \/ PrepareMix(c)
              \/ MixLoop(c) \/ MixPushed(c) \/ StopAll(c) \/ CollectTx(c)
              \/ FeedStep(c) /\ UNCHANGED jobVars

-----------------------------------------------------------------------------
MainSteps == {"next", "delay", "begin", "launch", "prime", "primeAsleep", "create",
              "joinRender", "decide", "stop", "notify", "renderSentinel", "move",
              "mix", "mixPush", "sentinel", "take", "joinTx", "ended"}

MainType == [pc : MainSteps, job : Nat, failed : BOOLEAN, off : Nat, sent : Nat, blocks : Nat,
             underruns : Nat]

JobsTypeOK ==
    /\ jobs \in Schedules
    /\ main \in [Channel -> MainType]
    /\ \A c \in Channel : main[c].job \in 1 .. Len(jobs[c]) + 1

Scheduled(c) == Total(jobs[c])
=============================================================================
