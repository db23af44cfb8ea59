----------------------------- MODULE MultiChannel -----------------------------
(***************************************************************************)
(* Runtime::run_multi_channel and execute_channel_jobs                     *)
(* (core/runtime/src/runtime.cpp) next to a Runtime::abort.  TX is started *)
(* on every channel; then a thread per channel works through its schedule, *)
(* with TxWorkers of its own that abort() does not know of.                *)
(***************************************************************************)
EXTENDS RuntimeControl

\* start_tx on each channel in turn; one that throws rolls back those before.
StartChannel(c) ==
    /\ run.pc = "start" /\ c \notin run.started
    /\ \/ StartTx(c) /\ run' = [run EXCEPT !.started = @ \cup {c}]
       \/ RunGoto("rollback") /\ UNCHANGED device
    /\ UNCHANGED <<stop, queue, render, tx, feed, jobVars, state>> /\ OthersUnchanged

LaunchThreads == /\ run.pc = "start" /\ run.started = Channel
                 /\ RunGoto("jobs")
                 /\ UNCHANGED <<workerVars, jobVars, state>> /\ OthersUnchanged

\* Mutant: the channels that were started are forgotten.
RethrowAtOnce == /\ run.pc = "rollback"
                 /\ RunGoto("failing")
                 /\ UNCHANGED <<workerVars, jobVars, state>> /\ OthersUnchanged

RollbackChannel(c) ==
    /\ run.pc = "rollback" /\ c \in run.started
    /\ \E ok \in BOOLEAN : StopTx(c, ok)
    /\ run' = [run EXCEPT !.started = @ \ {c}]
    /\ UNCHANGED <<stop, queue, render, tx, feed, jobVars, state>> /\ OthersUnchanged

Rethrow == /\ run.pc = "rollback" /\ run.started = {}
           /\ RunGoto("failing")
           /\ UNCHANGED <<workerVars, jobVars, state>> /\ OthersUnchanged

MultiRun == \/ RunEnter \/ RunEntered("start") \/ LaunchThreads \/ Rethrow
            \/ EventsThenStop \/ ReturnStep
            \/ \E c \in Channel : StartChannel(c) \/ RollbackChannel(c)

-----------------------------------------------------------------------------
(* The thread of a channel, where it differs from the single-channel run. *)

ChannelBegin(c) == /\ main[c].pc = "begin"
                   /\ MainGoto(c, "launch")
                   /\ UNCHANGED <<workerVars, jobs>>

\* A render that failed without a stop stops everything; after one that
\* produced nothing the TxWorker gets a sentinel; otherwise it is joined.
ChannelJoinRender(c) ==
    LET failed == ~stop /\ render[c].failed
    IN  /\ main[c].pc = "joinRender" /\ render[c].pc = "done"
        /\ \/ /\ failed
              /\ main' = [main EXCEPT ![c].failed = TRUE, ![c].pc = "stop"]
              /\ UNCHANGED feed
           \/ ~failed /\ NothingRendered(c) /\ StartFeed(c, Sentinel) /\ MainGoto(c, "renderSentinel")
           \/ ~failed /\ ~NothingRendered(c) /\ MainGoto(c, "joinTx") /\ UNCHANGED feed
        /\ UNCHANGED <<stop, queue, render, tx, device, jobs>>

ChannelThread(c) ==
    /\ run.pc = "jobs"
    /\ \/ JobStep(c) \/ ChannelBegin(c) \/ StartTxOfJob(c) \/ ChannelJoinRender(c)
       \/ MixSentinelPushed(c, "joinTx") \/ RenderSentinelPushed(c, "joinTx")
       \/ NotifyTx(c, "joinTx")
    /\ UNCHANGED controlVars
=============================================================================
