---------------------------- MODULE SingleChannel ----------------------------
(***************************************************************************)
(* Runtime::run_single_channel (core/runtime/src/runtime.cpp) next to a    *)
(* Runtime::abort.  The thread of run() works through the schedule itself. *)
(* The TxWorker of a job is active_tx_worker_ until that thread moves it   *)
(* out, under active_tx_worker_mutex_, to join it.                         *)
(***************************************************************************)
EXTENDS RuntimeControl

\* ensure_tx_started: a start_tx that throws ends the run.
EnsureTxStarted(c) ==
    /\ main[c].pc = "begin"
    /\ \/ c \in run.started /\ MainGoto(c, "launch") /\ UNCHANGED <<device, run>>
       \/ /\ c \notin run.started
          /\ StartTx(c)
          /\ run' = [run EXCEPT !.started = @ \cup {c}]
          /\ MainGoto(c, "launch")
       \/ /\ c \notin run.started
          /\ RunGoto("failing")
          /\ MainGoto(c, "ended")
          /\ UNCHANGED device
    /\ UNCHANGED <<stop, queue, render, tx, feed, jobs, state>> /\ OthersUnchanged

CreateActiveWorker(c) == /\ txLock = "none"
                         /\ StartTxOfJob(c)
                         /\ active' = {c}
                         /\ UNCHANGED <<state, run, txLock, abort>>

\* A render that failed and was not stopped fails the run.
JoinRenderWorker(c) == /\ main[c].pc = "joinRender" /\ render[c].pc = "done"
                       /\ main' = [main EXCEPT ![c].failed = @ \/ (~stop /\ render[c].failed),
                                               ![c].pc = "decide"]
                       /\ UNCHANGED <<workerVars, jobs, controlVars>>

\* The mutex is taken; unless abort() has taken the worker away, it is stopped
\* after a failure, and given a sentinel when nothing was rendered.
Decide(c) ==
    /\ main[c].pc = "decide" /\ txLock = "none"
    /\ \/ /\ c \notin active
          /\ NextJob(c)
          /\ UNCHANGED <<feed, txLock>>
       \/ /\ c \in active
          /\ txLock' = "run"
          /\ \/ render[c].failed /\ MainGoto(c, "stop") /\ UNCHANGED feed
             \/ /\ ~render[c].failed /\ NothingRendered(c)
                /\ StartFeed(c, Sentinel)
                /\ MainGoto(c, "renderSentinel")
             \/ /\ ~render[c].failed /\ ~NothingRendered(c)
                /\ MainGoto(c, "move")
                /\ UNCHANGED feed
    /\ UNCHANGED <<stop, queue, render, tx, device, jobs, state, run, active, abort>>

\* Mutant: the mutex is not released.
MoveWorkerLocked(c) == /\ main[c].pc = "move"
                       /\ active' = {}
                       /\ MainGoto(c, "joinTx")
                       /\ UNCHANGED <<workerVars, jobs, state, run, txLock, abort>>

\* The worker becomes the thread's own, and the mutex is released.
MoveWorker(c) == /\ main[c].pc = "move"
                 /\ active' = {}
                 /\ txLock' = "none"
                 /\ MainGoto(c, "joinTx")
                 /\ UNCHANGED <<workerVars, jobs, state, run, abort>>

\* The same after a mix group, which decides nothing.
TakeWorker(c) == /\ main[c].pc = "take" /\ txLock = "none"
                 /\ IF c \in active THEN MainGoto(c, "joinTx") ELSE NextJob(c)
                 /\ active' = {}
                 /\ UNCHANGED <<workerVars, jobs, state, run, txLock, abort>>

SingleStep(c) ==
    /\ run.pc = "jobs"
    /\ \/ EnsureTxStarted(c) \/ CreateActiveWorker(c) \/ JoinRenderWorker(c) \/ Decide(c) \/ MoveWorker(c)
       \/ TakeWorker(c)
       \/ /\ \/ JobStep(c) \/ MixSentinelPushed(c, "take")
             \/ RenderSentinelPushed(c, "move") \/ NotifyTx(c, "move")
          /\ UNCHANGED controlVars

SingleRun == \/ RunEnter \/ RunEntered("jobs") \/ EventsThenStop \/ ReturnStep
             \/ \E c \in Channel : SingleStep(c)

\* The mutex is held while the thread decides, up to the move.
LockHeldToMove == txLock = "run" <=> \E c \in Channel :
                main[c].pc \in {"stop", "notify", "renderSentinel", "move"}
=============================================================================
