------------------------------ MODULE RuntimeRun ------------------------------
(***************************************************************************)
(* Runtime::run (core/runtime/src/runtime.cpp) next to a Runtime::abort:   *)
(* the run mode and the number of active channels choose between           *)
(* run_single_channel, run_multi_channel and run_replay.                   *)
(***************************************************************************)
EXTENDS SingleChannel, MultiChannel, Replay

CONSTANT Modes   \* the run modes there may be, of the plan or of the runtime

ASSUME ModesAssumption == Modes \subseteq {"realtime", "replay"}

VARIABLE mode

runVars == <<vars, mode, bound>>

OnOneChannel == Cardinality(Channel) = 1

\* A plan that binds no channel is sent on config_.channel; arm refuses its mix
\* groups.
BindsNone == /\ bound = {} /\ OnOneChannel
             /\ \A c \in Channel : \A n \in DOMAIN jobs[c] : jobs[c][n].kind # "mix"

RunInit == /\ Init
           /\ mode \in Modes
           /\ bound = Channel \/ BindsNone
IsSingle == mode = "realtime" /\ OnOneChannel
IsMulti == mode = "realtime" /\ ~OnOneChannel
IsReplay == mode = "replay" /\ OnOneChannel

\* A replay is refused on more than one channel; the run has failed.
RefusedReplay == RunEnter \/ RunEntered("failing") \/ ReturnStep

RunThread == \/ IsSingle /\ SingleRun
             \/ IsMulti /\ MultiRun
             \/ IsReplay /\ ReplayRun
             \/ mode = "replay" /\ ~OnOneChannel /\ RefusedReplay

ThreadOfChannel(c) == IsMulti /\ ChannelThread(c)

RunNext == /\ \/ RunThread \/ AbortCall \/ AbortStep \/ Finished
              \/ \E c \in Channel : ThreadOfChannel(c) \/ WorkerStep(c)
           /\ UNCHANGED <<mode, bound>>

Spec == RunInit /\ [][RunNext]_runVars

\* Every thread that can take a step takes one; abort() may never be called.
FairSpec ==
    /\ Spec
    /\ WF_runVars(RunThread /\ UNCHANGED <<mode, bound>>)
    /\ WF_runVars(AbortStep /\ UNCHANGED <<mode, bound>>)
    /\ \A c \in Channel :
          /\ WF_runVars(ThreadOfChannel(c) /\ UNCHANGED <<mode, bound>>)
          /\ WF_runVars(RenderStep(c) /\ UNCHANGED <<jobVars, controlVars, mode, bound>>)
          /\ WF_runVars(TxStep(c) /\ UNCHANGED <<jobVars, controlVars, mode, bound>>)

-----------------------------------------------------------------------------
TypeOK == /\ ControlTypeOK
          /\ mode \in Modes
          /\ txLock = "abort" <=> abort.pc = "join"
          /\ IsSingle => LockHeldToMove
          /\ IsReplay => LockHeldToJoin

\* run() returns, and so does abort() once it is called: no wait of theirs, on
\* a queue, on a worker or on the mutex of the active one, is in vain.
CallsReturn == /\ <>(run.pc = "returned")
               /\ (abort.pc # "idle") ~> (abort.pc = "returned")

\* The thread that works through the schedule of a channel waits: for the mutex
\* of the active TxWorker, for a worker to end, for the queue to fill, or for
\* room in it.
ThreadWaits(c) ==
    \/ main[c].pc \in {"create", "decide", "take"} /\ ~IsMulti /\ txLock # "none"
    \/ main[c].pc = "joinRender" /\ render[c].pc # "done"
    \/ main[c].pc = "joinTx" /\ tx[c].pc # "done"
    \/ main[c].pc = "primeAsleep" /\ "main" \in queue[c].notEmpty
    \/ feed[c].pc = "asleep" /\ "main" \in queue[c].notFull

\* A worker that has work to do and is not asleep.
RenderRuns(c) == render[c].pc \notin {"none", "done"} /\ "render" \notin queue[c].notFull
TxRuns(c) == tx[c].pc \notin {"none", "done"} /\ "tx" \notin queue[c].notEmpty

\* In a run that nothing stops no channel is ever stuck: while its thread waits,
\* one of its own workers is awake and at work.
NeverStuck ==
    ~stop /\ run.pc = "jobs" =>
        \A c \in Channel : ThreadWaits(c) => RenderRuns(c) \/ TxRuns(c)

\* Joining a RenderWorker ends: it is not asleep on a full queue whose TxWorker
\* has ended, so that nobody will pop or notify any more.
JoinedRenderIsNotStranded ==
    \A c \in Channel : main[c].pc = "joinRender" =>
        ~ (tx[c].pc = "done" /\ "render" \in queue[c].notFull)
=============================================================================
