--------------------------- MODULE RuntimeLifecycle ---------------------------
(***************************************************************************)
(* The calls of one Runtime after the other on one device: prepare, arm    *)
(* and run by one thread in any order and with any plans, abort by another *)
(* at any time (core/runtime/src/runtime.cpp).  A run is taken as far as   *)
(* it acts on the device: its transmitter and its timed events; RuntimeRun *)
(* has its threads.  A transition is a step that checks and a step that    *)
(* writes, as the StateMachine has no lock.  That abort reads              *)
(* current_plan_ while prepare writes it is a race over containers, of     *)
(* which only the outcomes before and after are here.                      *)
(***************************************************************************)
EXTENDS Device, StateMachine, Naturals, FiniteSets, Sequences

CONSTANTS Plans,           \* what prepare may be called with
          DefaultChannel,  \* config_.channel
          MaxRuntimes      \* bound: the runtimes that use the device

NoPlan == [bindings |-> <<>>, accepted |-> TRUE, sound |-> TRUE, renders |-> FALSE,
           replay |-> FALSE, events |-> {}]

\* A binding gives a channel its settings; the frequency, the rate and the gain
\* are always given.
Binding == [channel : Channel, valid : BOOLEAN, rf : [Knob -> Value \cup {None}]]
Event == [channel : Channel, knob : {"freq", "gain"}, value : Value]

ASSUME LifecycleAssumption ==
    /\ DefaultChannel \in Channel /\ MaxRuntimes \in Nat
    /\ None \notin Value
    /\ \A p \in Plans :
        /\ p.bindings \in Seq(Binding) /\ p.events \subseteq Event
        /\ p.accepted => \A i, j \in DOMAIN p.bindings :
                            p.bindings[i].channel = p.bindings[j].channel => i = j
        /\ {p.accepted, p.sound, p.renders, p.replay} \subseteq BOOLEAN

VARIABLES
    device,   \* the device, which outlives the runtimes
    found,    \* ghost: its settings when the runtime was made
    state,    \* state_machine_
    plan,     \* current_plan_
    call,     \* the call of prepare, arm or run in progress
    before,   \* ghost: the plan and the settings when it was made
    onAir,    \* of a run: the channels it has started
    events,   \* of a run: the timed events that have not fired
    abort,    \* the call of abort, and the channels it still has to stop
    runtimes  \* how many runtimes were made

vars == <<device, found, state, plan, call, before, onAir, events, abort, runtimes>>

Idle == [op |-> "none", pc |-> "idle", arg |-> NoPlan, next |-> 1, result |-> TRUE]

Init ==
    /\ \E kind \in Kinds : device = NewDevice(kind)
    /\ found = device.setting
    /\ state = "Created" /\ plan = NoPlan
    /\ call = Idle
    /\ before = [plan |-> plan, setting |-> device.setting]
    /\ onAir = {} /\ events = {}
    /\ abort = [pc |-> "none", left |-> {}]
    /\ runtimes = 1

ChannelsOf(p) == {p.bindings[i].channel : i \in DOMAIN p.bindings}

\* The settings a plan gives a channel.
Given(p, c, knob) ==
    {p.bindings[i].rf[knob] : i \in {j \in DOMAIN p.bindings : p.bindings[j].channel = c}} \ {None}

-----------------------------------------------------------------------------
(* The calls of the controlling thread. *)

Goto(pc) == call' = [call EXCEPT !.pc = pc]
Return(result) == call' = [call EXCEPT !.pc = "returned", !.result = result]

ControlUnchanged == UNCHANGED <<found, before, abort, runtimes>>
RunUnchanged == UNCHANGED <<onAir, events>>

Call(op, p) ==
    /\ call.pc \in {"idle", "returned"}
    /\ call' = [op |-> op, pc |-> "called", arg |-> p, next |-> 1, result |-> TRUE]
    /\ before' = [plan |-> plan, setting |-> device.setting]
    /\ UNCHANGED <<device, found, state, plan, abort, runtimes>> /\ RunUnchanged

\* transition_to(target), checked; one that is not valid makes the call return
\* false.
Check(pc, target, next) ==
    /\ call.pc = pc
    /\ IF IsValidTransition(state, target) THEN Goto(next) ELSE Return(FALSE)
    /\ UNCHANGED <<device, state, plan>> /\ RunUnchanged /\ ControlUnchanged

\* transition_to(target), written.
Write(pc, target, next) ==
    /\ call.pc = pc
    /\ state' = target
    /\ Goto(next)
    /\ UNCHANGED <<device, plan>> /\ RunUnchanged /\ ControlUnchanged

\* fail_runtime; then the call returns false.
CheckFail ==
    /\ call.pc = "fail"
    /\ IF IsValidTransition(state, "Failed") THEN Goto("failing") ELSE Return(FALSE)
    /\ UNCHANGED <<device, state, plan>> /\ RunUnchanged /\ ControlUnchanged

WriteFail ==
    /\ call.pc = "failing"
    /\ state' = "Failed"
    /\ Return(FALSE)
    /\ UNCHANGED <<device, plan>> /\ RunUnchanged /\ ControlUnchanged

-----------------------------------------------------------------------------
(* prepare *)

\* Mutant: the plan is copied before its turn.
PrepareChecksAndCopies ==
    /\ call.op = "prepare" /\ call.pc = "called"
    /\ plan' = call.arg
    /\ Goto(IF call.arg.accepted THEN "validate" ELSE "fail")
    /\ UNCHANGED <<device, state>> /\ RunUnchanged /\ ControlUnchanged

\* Two bindings of a channel or two devices: refused, whatever the state is.
PrepareChecks ==
    /\ call.op = "prepare" /\ call.pc = "called"
    /\ Goto(IF call.arg.accepted THEN "validate" ELSE "fail")
    /\ UNCHANGED <<device, state, plan>> /\ RunUnchanged /\ ControlUnchanged

CopyPlan ==
    /\ call.pc = "copy"
    /\ plan' = call.arg
    /\ Goto("configure")
    /\ UNCHANGED <<device, state>> /\ RunUnchanged /\ ControlUnchanged

TheBinding == call.arg.bindings[call.next]

\* The first of the settings of a binding; what it leaves open stays.
Configured(dev, binding, upTo) ==
    [dev EXCEPT !.setting[binding.channel] =
        [k \in Knob |-> IF binding.rf[k] # None /\ \E i \in 1 .. upTo : Knobs[i] = k
                        THEN binding.rf[k] ELSE @[k]]]

Configure ==
    /\ call.pc = "configure" /\ call.next <= Len(call.arg.bindings) /\ TheBinding.valid
    /\ device' = Configured(device, TheBinding, Len(Knobs))
    /\ call' = [call EXCEPT !.next = @ + 1]
    /\ UNCHANGED <<state, plan>> /\ RunUnchanged /\ ControlUnchanged

\* Mutant: the state is not set to Failed.
ConfigureFailsQuietly ==
    /\ call.pc = "configure" /\ call.next <= Len(call.arg.bindings)
    /\ IF TheBinding.valid
       THEN MayThrow(device) /\ \E n \in 0 .. Len(Knobs) - 1 : device' = Configured(device, TheBinding, n)
       ELSE UNCHANGED device
    /\ Return(FALSE)
    /\ UNCHANGED <<state, plan>> /\ RunUnchanged /\ ControlUnchanged

\* The settings of the binding are invalid, or the device throws at one of them.
ConfigureFails ==
    /\ call.pc = "configure" /\ call.next <= Len(call.arg.bindings)
    /\ IF TheBinding.valid
       THEN MayThrow(device) /\ \E n \in 0 .. Len(Knobs) - 1 : device' = Configured(device, TheBinding, n)
       ELSE UNCHANGED device
    /\ Goto("fail")
    /\ UNCHANGED <<state, plan>> /\ RunUnchanged /\ ControlUnchanged

ConfigureEnds ==
    /\ call.pc = "configure" /\ call.next > Len(call.arg.bindings)
    /\ Goto("prepare")
    /\ UNCHANGED <<device, state, plan>> /\ RunUnchanged /\ ControlUnchanged

PrepareStep ==
    \/ PrepareChecks
    \/ Check("validate", "Validated", "validated") \/ Write("validated", "Validated", "plan")
    \/ Check("plan", "Planned", "planned") \/ Write("planned", "Planned", "copy")
    \/ CopyPlan \/ Configure \/ ConfigureFails \/ ConfigureEnds
    \/ Check("prepare", "Prepared", "prepared") \/ Write("prepared", "Prepared", "true")

-----------------------------------------------------------------------------
(* arm *)

\* A plan without instructions fails the runtime, whatever its state is.
ArmChecks ==
    /\ call.op = "arm" /\ call.pc = "called"
    /\ Goto(IF plan.renders THEN "arm" ELSE "fail")
    /\ UNCHANGED <<device, state, plan>> /\ RunUnchanged /\ ControlUnchanged

\* The jobs are made, unless something in the plan does not fit together; an
\* event's channel is a binding's.
ArmBuilds ==
    /\ call.pc = "build"
    /\ Goto(IF plan.sound /\ \A evt \in plan.events : evt.channel \in ChannelsOf(plan) THEN "true" ELSE "fail")
    /\ UNCHANGED <<device, state, plan>> /\ RunUnchanged /\ ControlUnchanged

ArmStep == ArmChecks \/ Check("arm", "Armed", "armed") \/ Write("armed", "Armed", "build") \/ ArmBuilds

-----------------------------------------------------------------------------
(* run *)

\* A plan without bindings is transmitted on the default channel.
TxChannels == IF plan.bindings = <<>> THEN {DefaultChannel} ELSE ChannelsOf(plan)

\* The mode is chosen; a replay of several channels fails.
RunBegins ==
    /\ call.pc = "choose"
    /\ IF plan.replay /\ Cardinality(TxChannels) > 1
       THEN Goto("fail") /\ UNCHANGED events
       ELSE Goto("running") /\ events' = plan.events
    /\ UNCHANGED <<device, state, plan, onAir>> /\ ControlUnchanged

\* ensure_tx_started, or the start of a channel's thread.
StartTx(c) ==
    /\ call.pc = "running" /\ c \in TxChannels \ onAir
    /\ device' = Started(device, c)
    /\ onAir' = onAir \cup {c}
    /\ UNCHANGED <<state, plan, call, events>> /\ ControlUnchanged

\* start_tx throws; of several channels, those that are started are stopped.
StartTxFails(c) ==
    /\ call.pc = "running" /\ c \in TxChannels \ onAir /\ MayThrow(device)
    /\ device' = StartFailed(device, c)
    /\ call' = [call EXCEPT !.pc = "rollback", !.result = FALSE]
    /\ UNCHANGED <<state, plan, onAir, events>> /\ ControlUnchanged

\* A timed event retunes its channel - or throws, which fails the run.  It
\* does so when an abort has stopped the transmission, too.
Fire(evt) ==
    /\ call.pc \in {"running", "stopping", "rollback"} /\ evt \in events
    /\ events' = events \ {evt}
    /\ \/ device' = Set(device, evt.channel, evt.knob, evt.value) /\ UNCHANGED call
       \/ MayThrow(device) /\ call' = [call EXCEPT !.result = FALSE] /\ UNCHANGED device
    /\ UNCHANGED <<state, plan, onAir>> /\ ControlUnchanged

\* The end of the schedule: everything was sent, or something failed.
ScheduleEnds ==
    /\ call.pc = "running"
    /\ \E sent \in BOOLEAN : call' = [call EXCEPT !.pc = "stopping", !.result = @ /\ sent]
    /\ UNCHANGED <<device, state, plan>> /\ RunUnchanged /\ ControlUnchanged

StopTx(c) ==
    /\ call.pc \in {"stopping", "rollback"} /\ c \in onAir
    /\ device' = Stopped(device, c)
    /\ onAir' = onAir \ {c}
    /\ UNCHANGED <<state, plan, call, events>> /\ ControlUnchanged

\* The run of a lone channel gives up without stop_tx: an exception, as for
\* want of memory; or a replay that cannot be rendered.
RunThrows ==
    /\ call.pc = "running" /\ Cardinality(TxChannels) = 1
    /\ onAir' = {}
    /\ call' = [call EXCEPT !.pc = "rollback", !.result = FALSE]
    /\ UNCHANGED <<device, state, plan, events>> /\ ControlUnchanged

\* The events are waited for, unless the run is given up: then the dispatcher
\* goes, and the events that have not fired with it.
RunEnds ==
    /\ onAir = {}
    /\ call.pc = "rollback" \/ (call.pc = "stopping" /\ events = {})
    /\ events' = {}
    /\ Goto(IF call.result THEN "complete" ELSE "fail")
    /\ UNCHANGED <<device, state, plan, onAir>> /\ ControlUnchanged

\* transition_to(Completed), of which the result is ignored.
CheckCompleted ==
    /\ call.pc = "complete"
    /\ Goto(IF IsValidTransition(state, "Completed") THEN "completing" ELSE "true")
    /\ UNCHANGED <<device, state, plan>> /\ RunUnchanged /\ ControlUnchanged

RunStep ==
    \/ call.op = "run" /\ Check("called", "Running", "entering")
    \/ Write("entering", "Running", "choose")
    \/ RunBegins \/ ScheduleEnds \/ RunThrows \/ RunEnds
    \/ \E c \in Channel : StartTx(c) \/ StartTxFails(c) \/ StopTx(c)
    \/ \E evt \in events : Fire(evt)
    \/ CheckCompleted \/ Write("completing", "Completed", "true")

ReturnTrue ==
    /\ call.pc = "true"
    /\ Return(TRUE)
    /\ UNCHANGED <<device, state, plan>> /\ RunUnchanged /\ ControlUnchanged

-----------------------------------------------------------------------------
(* abort, and the next runtime. *)

AbortUnchanged == UNCHANGED <<found, plan, call, before, onAir, events, runtimes>>

CallAbort ==
    /\ abort.pc = "none"
    /\ abort' = [abort EXCEPT !.pc = IF IsValidTransition(state, "Aborted") THEN "aborting" ELSE "channels"]
    /\ UNCHANGED <<device, state>> /\ AbortUnchanged

AbortWrites ==
    /\ abort.pc = "aborting"
    /\ state' = "Aborted"
    /\ abort' = [abort EXCEPT !.pc = "channels"]
    /\ UNCHANGED device /\ AbortUnchanged

AbortReads ==
    /\ abort.pc = "channels"
    /\ abort' = [pc |-> "stop", left |-> ChannelsOf(plan)]
    /\ UNCHANGED <<device, state>> /\ AbortUnchanged

AbortStops(c) ==
    /\ abort.pc = "stop" /\ c \in abort.left
    /\ device' = Stopped(device, c)
    /\ abort' = [abort EXCEPT !.left = @ \ {c}]
    /\ UNCHANGED state /\ AbortUnchanged

AbortStep == CallAbort \/ AbortWrites \/ AbortReads \/ \E c \in Channel : AbortStops(c)

\* A runtime is given up and another one made, between calls.
NewRuntime ==
    /\ runtimes < MaxRuntimes /\ call.pc \in {"idle", "returned"}
    /\ abort.pc = "none" \/ (abort.pc = "stop" /\ abort.left = {})
    /\ runtimes' = runtimes + 1
    /\ found' = device.setting
    /\ state' = "Created" /\ plan' = NoPlan /\ call' = Idle
    /\ before' = [plan |-> NoPlan, setting |-> device.setting]
    /\ abort' = [pc |-> "none", left |-> {}]
    /\ UNCHANGED device /\ RunUnchanged

Next == \/ \E p \in Plans : Call("prepare", p)
        \/ Call("arm", NoPlan) \/ Call("run", NoPlan)
        \/ PrepareStep \/ ArmStep \/ RunStep
        \/ CheckFail \/ WriteFail \/ ReturnTrue
        \/ AbortStep \/ NewRuntime

Spec == Init /\ [][Next]_vars

-----------------------------------------------------------------------------
(* The properties. *)

\* What a channel may be set to by the plan: what it gives, else what was found.
Planned(c, knob) == IF Given(plan, c, knob) = {} THEN {found[c][knob]} ELSE Given(plan, c, knob)

Retuned(c, knob) == {evt.value : evt \in {e \in plan.events : e.channel = c /\ e.knob = knob}}

\* Whatever was called before, a channel that a run has started is set as the
\* plan that was armed says, or as one of its events does (prepare,
\* schedule_timeline_event): no plan that was refused, no other call and no
\* earlier runtime has part in it, except where the plan leaves a setting open.
OnAirAsPlanned ==
    \A c \in onAir, knob \in Knob :
        device.setting[c][knob] \in Planned(c, knob) \cup Retuned(c, knob)

\* A call that returns false has failed the runtime for good, or has changed
\* neither its plan nor the device (prepare, arm, run); when prepare returns
\* true the device is set as the plan says.
ResultsAreTrue ==
    call.pc = "returned" =>
        /\ ~call.result => \/ state \in Terminal
                           \/ plan = before.plan /\ device.setting = before.setting
        /\ call.result /\ call.op = "prepare" =>
            \A c \in Channel, knob \in Knob : device.setting[c][knob] \in Planned(c, knob)
=============================================================================
