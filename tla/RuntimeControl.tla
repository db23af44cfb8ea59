---------------------------- MODULE RuntimeControl ----------------------------
(***************************************************************************)
(* Runtime::run and Runtime::abort (core/runtime/src/runtime.cpp), called  *)
(* once each on an armed Runtime by two threads.  What the kinds of run    *)
(* have in common is here; SingleChannel, MultiChannel and Replay add how  *)
(* each of them works through the schedule, and RuntimeRun puts them       *)
(* together.                                                               *)
(*                                                                         *)
(* The state of the StateMachine is a plain member that both threads read  *)
(* and write without a lock: transition_to is a step that checks and a     *)
(* later step that writes.  The waits on abort_cv_ are timed, so a thread  *)
(* in one of them may go on at any time.                                   *)
(***************************************************************************)
EXTENDS ChannelJobs, StateMachine

VARIABLES
    state,    \* state_machine_: a RuntimeState
    run,      \* the call of run(), its flags and the channels it has started
    active,   \* active_tx_worker_: the channel it transmits on, if there is one
    txLock,   \* active_tx_worker_mutex_: "none", "run" or "abort"
    abort,    \* the call of abort(), and the channels it still has to stop
    bound     \* the channels that current_plan_ binds

controlVars == <<state, run, active, txLock, abort>>
vars == <<workerVars, jobVars, controlVars>>

Init == /\ WorkersInit
        /\ JobsInit
        /\ state = "Armed"
        /\ run = [pc |-> "called", started |-> {}, eventFailed |-> FALSE,
                  stopFailed |-> FALSE, result |-> FALSE]
        /\ active = {}
        /\ txLock = "none"
        /\ abort = [pc |-> "idle", left |-> {}]

-----------------------------------------------------------------------------
(* Runtime::run *)

RunGoto(step) == run' = [run EXCEPT !.pc = step]
Return(result) == run' = [run EXCEPT !.pc = "returned", !.result = result]
OthersUnchanged == UNCHANGED <<active, txLock, abort>>

\* transition_to(Running): a run that may not start returns false.
RunEnter == /\ run.pc = "called"
            /\ RunGoto(IF IsValidTransition(state, "Running") THEN "entering" ELSE "returned")
            /\ UNCHANGED <<workerVars, jobVars, state>> /\ OthersUnchanged

RunEntered(step) == /\ run.pc = "entering"
                    /\ state' = "Running"
                    /\ RunGoto(step)
                    /\ UNCHANGED <<workerVars, jobVars>> /\ OthersUnchanged

\* The schedule is worked through; wait_complete and has_failed of the
\* dispatcher, whose callbacks may throw.
RunEvents == /\ run.pc = "jobs"
             /\ \A c \in Channel : main[c].pc = "ended"
             /\ \E failed \in BOOLEAN :
                    run' = [run EXCEPT !.pc = "drain", !.eventFailed = failed]
             /\ UNCHANGED <<workerVars, jobVars, state>> /\ OthersUnchanged

\* Mutant: the device is not told to stop.
RunStopTxForgotten(c) ==
    /\ c \in run.started
    /\ run' = [run EXCEPT !.started = @ \ {c}]
    /\ UNCHANGED <<workerVars, jobVars, state>> /\ OthersUnchanged

\* The wait for the samples to drain, then stop_tx of each channel that was
\* started, one after the other.
RunStopTx(c) == /\ c \in run.started
                /\ \E ok \in BOOLEAN :
                     /\ StopTx(c, ok)
                     /\ run' = [run EXCEPT !.started = @ \ {c}, !.stopFailed = @ \/ ~ok]
                /\ UNCHANGED <<stop, queue, render, tx, feed, jobVars, state>>
                /\ OthersUnchanged

\* The result; transition_to(Completed), whose own result is ignored.
RunFinish ==
    LET failed == \/ \E c \in Channel : main[c].failed
                  \/ run.stopFailed
                  \/ run.eventFailed
    IN  /\ run.pc = "drain" /\ run.started = {}
        /\ \/ failed /\ RunGoto("failing")
           \/ ~failed /\ IsValidTransition(state, "Completed") /\ RunGoto("completing")
           \/ ~failed /\ ~IsValidTransition(state, "Completed") /\ Return(TRUE)
        /\ UNCHANGED <<workerVars, jobVars, state>> /\ OthersUnchanged

RunComplete == /\ run.pc = "completing"
               /\ state' = "Completed"
               /\ Return(TRUE)
               /\ UNCHANGED <<workerVars, jobVars>> /\ OthersUnchanged

\* A run that failed, or threw: transition_to(Failed) unless it is Failed.
RunFailing == /\ run.pc = "failing"
              /\ IF IsValidTransition(state, "Failed") THEN RunGoto("fail") ELSE Return(FALSE)
              /\ UNCHANGED <<workerVars, jobVars, state>> /\ OthersUnchanged

RunFail == /\ run.pc = "fail"
           /\ state' = "Failed"
           /\ Return(FALSE)
           /\ UNCHANGED <<workerVars, jobVars>> /\ OthersUnchanged

ReturnStep == RunFinish \/ RunComplete \/ RunFailing \/ RunFail

\* The order of the single-channel and the multi-channel run: events first.
EventsThenStop == \/ RunEvents
                  \/ run.pc = "drain" /\ \E c \in Channel : RunStopTx(c)

-----------------------------------------------------------------------------
(* Runtime::abort *)

AbortGoto(step) == abort' = [abort EXCEPT !.pc = step]

AbortCall == /\ abort.pc = "idle"
             /\ stop' = TRUE
             /\ AbortGoto("notify")
             /\ UNCHANGED <<queue, render, tx, device, feed, jobVars, state, run, active, txLock>>

\* request_stop of the active TxWorker, under the mutex.
AbortNotify == /\ abort.pc = "notify" /\ txLock = "none"
               /\ \/ active = {} /\ UNCHANGED queue
                  \/ \E c \in active : NotifyAll(c)
               /\ AbortGoto("check")
               /\ UNCHANGED <<stop, render, tx, device, feed, jobVars, state, run, active, txLock>>

\* Mutant: TX is not stopped on any channel.
AbortWithoutStop == /\ abort.pc = "check"
                    /\ abort' = [pc |-> IF IsValidTransition(state, "Aborted")
                                       THEN "write" ELSE "stopTx", left |-> {}]
                    /\ UNCHANGED <<workerVars, jobVars, state, run, active, txLock>>

\* transition_to(Aborted).  What it will stop are the channels of the plan.
AbortCheck == /\ abort.pc = "check"
              /\ abort' = [pc |-> IF IsValidTransition(state, "Aborted") THEN "write" ELSE "stopTx",
                           left |-> bound]
              /\ UNCHANGED <<workerVars, jobVars, state, run, active, txLock>>

AbortWrite == /\ abort.pc = "write"
              /\ state' = "Aborted"
              /\ AbortGoto("stopTx")
              /\ UNCHANGED <<workerVars, jobVars, run, active, txLock>>

AbortStopTx(c) == /\ abort.pc = "stopTx" /\ c \in abort.left
                  /\ \E ok \in BOOLEAN : StopTx(c, ok)
                  /\ abort' = [abort EXCEPT !.left = @ \ {c}]
                  /\ UNCHANGED <<stop, queue, render, tx, feed, jobVars, state, run, active, txLock>>

\* The active TxWorker is joined while the mutex is held, and destroyed.
AbortLock == /\ abort.pc = "stopTx" /\ abort.left = {} /\ txLock = "none"
             /\ txLock' = "abort"
             /\ AbortGoto("join")
             /\ UNCHANGED <<workerVars, jobVars, state, run, active>>

AbortJoin == /\ abort.pc = "join"
             /\ \A c \in active : tx[c].pc = "done"
             /\ active' = {}
             /\ txLock' = "none"
             /\ AbortGoto("returned")
             /\ UNCHANGED <<workerVars, jobVars, state, run>>

\* What abort() does once it has been called.
AbortStep == \/ AbortNotify \/ AbortCheck \/ AbortWrite
             \/ (\E c \in Channel : AbortStopTx(c)) \/ AbortLock \/ AbortJoin

-----------------------------------------------------------------------------
(* The worker threads, and the end. *)

WorkerStep(c) == /\ RenderStep(c) \/ TxStep(c)
                 /\ UNCHANGED <<jobVars, controlVars>>

Finished == /\ run.pc = "returned" /\ abort.pc = "returned"
            /\ UNCHANGED vars

RunSteps == {"called", "entering", "start", "rollback", "jobs", "drain", "completing",
             "failing", "fail", "returned"}
AbortSteps == {"idle", "notify", "check", "write", "stopTx", "join", "returned"}

ControlTypeOK ==
    /\ WorkersTypeOK
    /\ JobsTypeOK
    /\ state \in RuntimeState
    /\ run \in [pc : RunSteps, started : SUBSET Channel, eventFailed : BOOLEAN,
                stopFailed : BOOLEAN, result : BOOLEAN]
    /\ active \subseteq Channel
    /\ txLock \in {"none", "run", "abort"}
    /\ bound \in {{}, Channel}
    /\ abort \in [pc : AbortSteps, left : SUBSET Channel]

-----------------------------------------------------------------------------
(* Properties of a run, whichever way it works through the schedule. *)

\* A run that returns true and was not stopped has put every sample of the
\* schedule on the air, in complete bursts, and its metrics say so: no block is
\* lost between the threads, none is sent twice, no failure goes unnoticed.
SuccessMeansSent ==
    (run.pc = "returned" /\ run.result /\ ~stop) =>
        \A c \in Channel : /\ device[c].air = Scheduled(c)
                           /\ device[c].burst = "closed"
                           /\ main[c].sent = device[c].air
                           /\ main[c].underruns = 0

\* The device never sees a burst begin inside another one or samples outside
\* one, whatever fails, falls short or is stopped before the next job.
BurstsWellFormed == \A c \in Channel : device[c].burst # "broken"

\* A job gets its new queue, which destroys the old one, only when no thread
\* of the job before still runs on it and abort() cannot reach its TxWorker.
QueueOutlivesItsUsers ==
    \A c \in Channel : main[c].pc = "launch" =>
        /\ render[c].pc \in {"none", "done"}
        /\ tx[c].pc \in {"none", "done"}
        /\ c \notin active

\* When run() has returned, however far abort() is, TX is off on every channel
\* on which no stop_tx threw.
TxOffAtEnd == run.pc = "returned" => \A c \in Channel : device[c].on => device[c].stuck

\* Once abort() has returned no sample goes on the air of a channel that the
\* plan binds, although run() may still be working and may even start TX after
\* it.  It does not hold on config_.channel, where a plan that binds none is
\* sent: abort() calls no stop_tx, and what is queued is still to be sent.
QuietAfterAbort ==
    [][\A c \in bound : (abort.pc = "returned" /\ ~device[c].stuck)
                            => device'[c].air = device[c].air]_vars

\* The lifecycle never leaves a terminal state.
TerminalIsFinal == [][(state \in Terminal) => (state' = state)]_vars
=============================================================================
