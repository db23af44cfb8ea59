-------------------------------- MODULE Replay --------------------------------
(***************************************************************************)
(* Runtime::run_replay (core/runtime/src/runtime.cpp) next to a            *)
(* Runtime::abort.  Every render job is rendered beforehand into one       *)
(* buffer, which the thread of run() feeds to a single TxWorker.  The      *)
(* worker is joined while active_tx_worker_mutex_ is held.  The jobs are   *)
(* played one after the other, whenever they start and whatever is mixed.  *)
(***************************************************************************)
EXTENDS RuntimeControl

\* The jobs are rendered; one that cannot be fails the run.  Without samples
\* there is nothing to do but to wait for the events.
RenderAll(c) == /\ main[c].pc = "next"
                /\ \/ Scheduled(c) = 0 /\ MainGoto(c, "ended") /\ UNCHANGED run
                   \/ Scheduled(c) > 0 /\ MainGoto(c, "begin") /\ UNCHANGED run
                   \/ MainGoto(c, "ended") /\ RunGoto("failing")
                /\ UNCHANGED <<workerVars, jobs, state>> /\ OthersUnchanged

\* start_tx, which may throw; then a new queue.
ReplayBegin(c) == /\ main[c].pc = "begin"
                  /\ \/ /\ StartTx(c)
                        /\ run' = [run EXCEPT !.started = @ \cup {c}]
                        /\ queue' = [queue EXCEPT ![c] = NewQueue]
                        /\ MainGoto(c, "create")
                     \/ /\ RunGoto("failing")
                        /\ MainGoto(c, "ended")
                        /\ UNCHANGED <<device, queue>>
                  /\ UNCHANGED <<stop, render, tx, feed, jobs, state>> /\ OthersUnchanged

CreateFedWorker(c) == /\ txLock = "none"
                      /\ StartTxWorker(c, "mix")
                      /\ active' = {c}
                      /\ UNCHANGED <<state, run, txLock, abort>>

\* One turn of the loop that feeds the buffer; a sentinel follows a stop only.
ReplayLoop(c) ==
    LET off == main[c].off
        left == Scheduled(c) - off
        n == Least(left, BlockSize)
    IN  /\ main[c].pc = "mix"
        /\ \/ /\ left > 0 /\ ~stop
              /\ StartFeed(c, Block(n, off = 0, n = left))
              /\ MainGoto(c, "mixPush")
           \/ stop /\ StartFeed(c, Sentinel) /\ MainGoto(c, "sentinel")
           \/ left = 0 /\ ~stop /\ MainGoto(c, "take") /\ UNCHANGED feed
        /\ UNCHANGED <<stop, queue, render, tx, device, jobs>>

\* The mutex is taken to join the worker, unless abort() has taken it away.
TakeFedWorker(c) == /\ main[c].pc = "take" /\ txLock = "none"
                    /\ IF c \in active
                       THEN MainGoto(c, "joinTx") /\ txLock' = "run"
                       ELSE MainGoto(c, "ended") /\ UNCHANGED txLock
                    /\ UNCHANGED <<workerVars, jobs, state, run, active, abort>>

JoinTx(c) == /\ main[c].pc = "joinTx" /\ tx[c].pc = "done"
             /\ main' = [main EXCEPT ![c].sent = tx[c].sent,
                                     ![c].blocks = tx[c].blocks,
                                     ![c].underruns = tx[c].underruns,
                                     ![c].failed = tx[c].failed,
                                     ![c].pc = "ended"]
             /\ active' = {}
             /\ txLock' = "none"
             /\ UNCHANGED <<workerVars, jobs, state, run, abort>>

ReplayStep(c) ==
    /\ run.pc = "jobs"
    /\ \/ RenderAll(c) \/ ReplayBegin(c) \/ CreateFedWorker(c) \/ TakeFedWorker(c) \/ JoinTx(c)
       \/ /\ \/ ReplayLoop(c) \/ MixPushed(c) \/ MixSentinelPushed(c, "take")
             \/ FeedStep(c) /\ UNCHANGED jobVars
          /\ UNCHANGED controlVars

\* TX is stopped first; only then are the events waited for.
StopThenEvents ==
    /\ run.pc = "jobs"
    /\ \/ \E c \in Channel : main[c].pc = "ended" /\ RunStopTx(c)
       \/ run.started = {} /\ RunEvents

ReplayRun == \/ RunEnter \/ RunEntered("jobs") \/ StopThenEvents \/ ReturnStep
             \/ \E c \in Channel : ReplayStep(c)

\* The mutex is held for as long as the join takes.
LockHeldToJoin == txLock = "run" <=> \E c \in Channel : main[c].pc = "joinTx"
=============================================================================
