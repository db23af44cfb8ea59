------------------------ MODULE RuntimeLifecycleProofs ------------------------
(***************************************************************************)
(* For every set of plans, whatever the calls and whenever the abort: what *)
(* is on air is set as the armed plan says, and the results of the calls   *)
(* are true.  Both follow from what each state of the runtime and each     *)
(* step of a call know of the settings of the device.                      *)
(***************************************************************************)
EXTENDS RuntimeLifecycle, TLAPS

Settings == [Channel -> [Knob -> Value \cup {None}]]

Transmits == {"running", "stopping", "rollback"}
Prepares == {"validate", "validated", "plan", "planned", "copy", "configure", "prepare", "prepared"}
Others == {"idle", "called", "arm", "armed", "build", "entering", "choose", "complete", "completing",
           "fail", "failing", "true", "returned"}

TypeOK ==
    /\ device \in DeviceState /\ found \in Settings
    /\ state \in RuntimeState
    /\ plan \in Plans \cup {NoPlan}
    /\ call \in [op : {"none", "prepare", "arm", "run"}, pc : Prepares \cup Transmits \cup Others,
                 arg : Plans \cup {NoPlan}, next : Nat \ {0}, result : BOOLEAN]
    /\ onAir \subseteq Channel
    /\ abort \in [pc : {"none", "aborting", "channels", "stop"}, left : SUBSET Channel]

\* The settings are those the runtime found.
Fresh == device.setting = found

\* The settings are those of the plan, or of its events.
AtRest == \A c \in Channel, k \in Knob : device.setting[c][k] \in Planned(c, k)
AsRun == \A c \in Channel, k \in Knob : device.setting[c][k] \in Planned(c, k) \cup Retuned(c, k)

\* The steps belong to the calls.
Steps ==
    /\ call.op = "prepare" => call.arg \in Plans
    /\ call.pc \in Prepares => call.op = "prepare" /\ call.arg.accepted
    /\ call.pc \in {"called", "validate", "validated", "plan", "planned", "copy"} => call.next = 1
    /\ call.pc \in Transmits \cup {"arm", "armed", "build", "entering", "choose", "complete", "completing"}
          => call.op # "prepare"

\* The state in the midst of a call, which an abort alone may change.
States ==
    /\ call.pc \in {"plan", "planned"} => state \in {"Validated", "Aborted"}
    /\ call.pc \in {"copy", "configure", "prepare", "prepared"} => state \in {"Planned", "Aborted"}
    /\ call.pc \in Transmits \cup {"choose"} => state \in {"Running", "Aborted"}

\* The bindings before the next one are made, and nothing else.
Configuring ==
    /\ plan = call.arg
    /\ \A i \in DOMAIN plan.bindings, k \in Knob :
          i < call.next /\ plan.bindings[i].rf[k] # None =>
              device.setting[plan.bindings[i].channel][k] = plan.bindings[i].rf[k]
    /\ \A c \in Channel, k \in Knob :
          device.setting[c][k] = found[c][k] \/
          \E i \in DOMAIN plan.bindings :
              i < call.next /\ plan.bindings[i].channel = c /\ plan.bindings[i].rf[k] # None

\* What is known of the settings.
Known ==
    /\ state = "Created" \/ call.pc \in {"validated", "plan", "planned", "copy"} => Fresh
    /\ call.pc = "configure" => Configuring
    /\ state \in {"Prepared", "Armed"} \/ call.pc \in {"prepare", "prepared", "armed", "entering", "choose"}
          => AtRest
    /\ call.pc = "true" /\ call.op = "prepare" => AtRest
    /\ call.pc \in Transmits => AsRun /\ events \subseteq plan.events

OnAir == call.pc \notin Transmits => onAir = {}

\* A call that may still return false on account of the state alone.
Untouched ==
    call.pc \in {"called", "validate", "validated", "plan", "planned", "copy", "arm"} =>
        plan = before.plan /\ device.setting = before.setting

IInv == TypeOK /\ Steps /\ States /\ Known /\ OnAir /\ Untouched /\ ResultsAreTrue

-----------------------------------------------------------------------------
(* Lemmas about the data. *)

LEMMA PlanFacts ==
    ASSUME NEW p \in Plans \cup {NoPlan}
    PROVE  p.bindings \in Seq(Binding) /\ p.events \subseteq Event
<1>1. CASE p = NoPlan
  BY <1>1 DEF NoPlan
<1>2. CASE p \in Plans
  BY <1>2, LifecycleAssumption
<1>3. QED
  BY <1>1, <1>2

\* What the calls of the device do to its settings.
LEMMA DeviceFacts ==
    ASSUME NEW dev \in DeviceState, NEW c \in Channel
    PROVE  /\ Started(dev, c) \in DeviceState /\ Started(dev, c).setting = dev.setting
           /\ StartFailed(dev, c) \in DeviceState /\ StartFailed(dev, c).setting = dev.setting
           /\ Stopped(dev, c) \in DeviceState /\ Stopped(dev, c).setting = dev.setting
BY DEF DeviceState, Started, StartFailed, Stopped

LEMMA SetFacts ==
    ASSUME NEW dev \in DeviceState, NEW c \in Channel, NEW k \in Knob, NEW v \in Value
    PROVE  /\ Set(dev, c, k, v) \in DeviceState
           /\ Set(dev, c, k, v).setting[c][k] = v
           /\ \A d \in Channel, j \in Knob :
                 d # c \/ j # k => Set(dev, c, k, v).setting[d][j] = dev.setting[d][j]
BY DEF DeviceState, Set

LEMMA ConfiguredFacts ==
    ASSUME NEW dev \in DeviceState, NEW b \in Binding, NEW n \in 0 .. Len(Knobs)
    PROVE  /\ Configured(dev, b, n) \in DeviceState
           /\ \A d \in Channel, k \in Knob :
                 d # b.channel \/ b.rf[k] = None =>
                     Configured(dev, b, n).setting[d][k] = dev.setting[d][k]
           /\ n = Len(Knobs) => \A k \in Knob :
                 b.rf[k] # None => Configured(dev, b, n).setting[b.channel][k] = b.rf[k]
<1>1. \A k \in Knob : \E i \in 1 .. Len(Knobs) : Knobs[i] = k
  BY DEF Knob, Knobs
<1>2. b.channel \in Channel /\ b.rf \in [Knob -> Value \cup {None}]
  BY DEF Binding
<1>3. dev.setting \in [Channel -> [Knob -> Value \cup {None}]]
  BY DEF DeviceState
<1> DEFINE row == [k \in Knob |-> IF b.rf[k] # None /\ \E i \in 1 .. n : Knobs[i] = k
                                  THEN b.rf[k] ELSE dev.setting[b.channel][k]]
<1>4. row \in [Knob -> Value \cup {None}]
  BY <1>2, <1>3
<1>5. Configured(dev, b, n) = [dev EXCEPT !.setting[b.channel] = row]
  BY DEF Configured
<1>6. Configured(dev, b, n) \in DeviceState
  <2> HIDE DEF row
  <2>1. QED
    BY <1>2, <1>3, <1>4, <1>5 DEF DeviceState
<1>7. Configured(dev, b, n).setting = [dev.setting EXCEPT ![b.channel] = row]
  <2> HIDE DEF row
  <2>1. QED
    BY <1>5 DEF DeviceState
<1>8. QED
  BY <1>1, <1>2, <1>3, <1>6, <1>7

-----------------------------------------------------------------------------
(* What is known of the settings outlasts a step that changes none of them. *)

Quiet == device'.setting = device.setting /\ UNCHANGED <<found, plan>>

LEMMA Kept ==
    ASSUME Quiet
    PROVE  /\ AtRest' <=> AtRest
           /\ AsRun' <=> AsRun
           /\ Fresh' <=> Fresh
           /\ UNCHANGED <<call.arg, call.next>> => (Configuring' <=> Configuring)
BY DEF Quiet, AtRest, AsRun, Fresh, Configuring, Planned, Given, Retuned

Results ==
    call.pc = "returned" =>
        /\ ~call.result => \/ state \in Terminal
                           \/ plan = before.plan /\ device.setting = before.setting
        /\ call.result /\ call.op = "prepare" => AtRest

LEMMA ResultsAre == (ResultsAreTrue <=> Results) /\ (ResultsAreTrue <=> Results)'
BY DEF ResultsAreTrue, Results, AtRest

LEMMA Transitions ==
    ASSUME state \in RuntimeState
    PROVE  /\ IsValidTransition(state, "Validated") <=> state = "Created"
           /\ IsValidTransition(state, "Planned") <=> state = "Validated"
           /\ IsValidTransition(state, "Prepared") <=> state = "Planned"
           /\ IsValidTransition(state, "Armed") <=> state = "Prepared"
           /\ IsValidTransition(state, "Running") <=> state = "Armed"
           /\ IsValidTransition(state, "Failed") <=> state \notin Terminal
BY DEF RuntimeState, IsValidTransition, Terminal, Successor

-----------------------------------------------------------------------------
(* The steps, call by call. *)

LEMMA CallStep ==
    ASSUME IInv, NEW op \in {"prepare", "arm", "run"}, NEW p \in Plans \cup {NoPlan},
           op = "prepare" => p \in Plans, Call(op, p)
    PROVE  IInv'
<1>1. Quiet
  BY DEF Quiet, Call
<1>2. call' = [op |-> op, pc |-> "called", arg |-> p, next |-> 1, result |-> TRUE]
  BY DEF Call
<1>3. UNCHANGED <<device, found, state, plan, abort, onAir, events>>
  BY DEF Call, RunUnchanged
<1>4. TypeOK'
  BY <1>2, <1>3 DEF IInv, TypeOK, Others
<1>5. Steps' /\ States' /\ ResultsAreTrue'
  BY <1>2, <1>3 DEF Steps, States, Prepares, Transmits, ResultsAreTrue
<1>6. Known'
  <2>1. call'.pc = "called" /\ state' = state
    BY <1>2, <1>3
  <2>2. (AtRest' <=> AtRest) /\ (Fresh' <=> Fresh)
    BY <1>1, Kept
  <2>3. QED
    BY <2>1, <2>2 DEF IInv, Known, Transmits
<1>7. OnAir' /\ Untouched'
  BY <1>2, <1>3 DEF IInv, OnAir, Untouched, Transmits, Call
<1>8. QED
  BY <1>4, <1>5, <1>6, <1>7 DEF IInv

\* A step that moves on within a call, and writes the state at most.
Still == UNCHANGED <<device, found, plan, before, abort, onAir, events>>

LEMMA GotoFacts ==
    ASSUME IInv, Still, state' \in RuntimeState,
           NEW t \in Prepares \cup Transmits \cup Others, Goto(t),
           call.pc \in Transmits => t \in Transmits
    PROVE  /\ Quiet /\ TypeOK' /\ OnAir'
           /\ call'.pc = t /\ UNCHANGED <<call.op, call.arg, call.next, call.result>>
<1>1. Quiet
  BY DEF Still, Quiet
<1>2. call'.pc = t /\ UNCHANGED <<call.op, call.arg, call.next, call.result>>
  BY DEF IInv, TypeOK, Goto
<1>3. TypeOK'
  BY DEF IInv, TypeOK, Still, Goto
<1>4. OnAir'
  BY <1>2 DEF IInv, OnAir, Still
<1>5. QED
  BY <1>1, <1>2, <1>3, <1>4

LEMMA ReturnFacts ==
    ASSUME IInv, Still, state' \in RuntimeState,
           NEW r \in BOOLEAN, Return(r), call.pc \notin Transmits
    PROVE  /\ Quiet /\ TypeOK' /\ OnAir'
           /\ call'.pc = "returned" /\ call'.result = r /\ UNCHANGED <<call.op, call.arg, call.next>>
           /\ Steps' /\ States' /\ Untouched'
<1>1. Quiet
  BY DEF Still, Quiet
<1>2. call'.pc = "returned" /\ call'.result = r /\ UNCHANGED <<call.op, call.arg, call.next>>
  BY DEF IInv, TypeOK, Return
<1>3. TypeOK'
  BY DEF IInv, TypeOK, Still, Return, Others
<1>4. OnAir'
  BY <1>2 DEF IInv, OnAir, Still
<1>5. Steps' /\ States' /\ Untouched'
  BY <1>2 DEF IInv, Steps, States, Untouched, Prepares, Transmits
<1>6. QED
  BY <1>1, <1>2, <1>3, <1>4, <1>5

\* transition_to, checked.
LEMMA CheckStep ==
    ASSUME IInv,
           NEW pc, NEW target, NEW next, Check(pc, target, next),
           <<pc, target, next>> \in {<<"validate", "Validated", "validated">>,
               <<"plan", "Planned", "planned">>, <<"prepare", "Prepared", "prepared">>,
               <<"arm", "Armed", "armed">>, <<"called", "Running", "entering">>},
           pc = "called" => call.op = "run"
    PROVE  IInv'
<1>1. Still /\ state' = state /\ state \in RuntimeState /\ call.pc = pc
  BY DEF Check, ControlUnchanged, RunUnchanged, Still, IInv, TypeOK
<1>2. CASE IsValidTransition(state, target)
  <2>1. Goto(next)
    BY <1>2 DEF Check
  <2>2. /\ Quiet /\ TypeOK' /\ OnAir' /\ call'.pc = next
        /\ UNCHANGED <<call.op, call.arg, call.next, call.result>>
    BY <1>1, <2>1, GotoFacts DEF Prepares, Transmits, Others
  <2>3. Steps'
    BY <1>1, <2>2 DEF IInv, Steps, Prepares, Transmits
  <2>4. States'
    BY <1>1, <1>2, <2>2, Transitions DEF IInv, States, Transmits
  <2>5. Known'
    <3>1. (AtRest' <=> AtRest) /\ (Fresh' <=> Fresh)
      BY <2>2, Kept
    <3>2. QED
      BY <1>1, <1>2, <2>2, <3>1, Transitions DEF IInv, Known, Transmits
  <2>6. Untouched' /\ ResultsAreTrue'
    BY <1>1, <2>2 DEF IInv, Untouched, ResultsAreTrue, Still
  <2>7. QED
    BY <2>2, <2>3, <2>4, <2>5, <2>6 DEF IInv
<1>3. CASE ~IsValidTransition(state, target)
  <2>1. Return(FALSE)
    BY <1>3 DEF Check
  <2>2. /\ Quiet /\ TypeOK' /\ OnAir' /\ call'.pc = "returned" /\ call'.result = FALSE
        /\ Steps' /\ States' /\ Untouched'
    BY <1>1, <2>1, ReturnFacts DEF Transmits
  <2>3. Known'
    <3>1. (AtRest' <=> AtRest) /\ (Fresh' <=> Fresh)
      BY <2>2, Kept
    <3>2. QED
      BY <1>1, <2>2, <3>1 DEF IInv, Known, Transmits
  <2>4. state \in Terminal \/ (plan = before.plan /\ device.setting = before.setting)
    BY <1>1, <1>3, Transitions DEF IInv, States, Untouched, Terminal
  <2>5. ResultsAreTrue'
    BY <1>1, <2>2, <2>4 DEF ResultsAreTrue, Still
  <2>6. QED
    BY <2>2, <2>3, <2>5 DEF IInv
<1>4. QED
  BY <1>2, <1>3

\* transition_to, written.
LEMMA WriteStep ==
    ASSUME IInv,
           NEW pc, NEW target, NEW next, Write(pc, target, next),
           <<pc, target, next>> \in {<<"validated", "Validated", "plan">>,
               <<"planned", "Planned", "copy">>, <<"prepared", "Prepared", "true">>,
               <<"armed", "Armed", "build">>, <<"entering", "Running", "choose">>,
               <<"completing", "Completed", "true">>}
    PROVE  IInv'
<1>1. Still /\ state' = target /\ target \in RuntimeState /\ call.pc = pc /\ Goto(next)
  BY DEF Write, ControlUnchanged, RunUnchanged, Still, RuntimeState
<1>2. /\ Quiet /\ TypeOK' /\ OnAir' /\ call'.pc = next
      /\ UNCHANGED <<call.op, call.arg, call.next, call.result>>
  BY <1>1, GotoFacts DEF Prepares, Transmits, Others
<1>3. Steps' /\ States'
  BY <1>1, <1>2 DEF IInv, Steps, States, Prepares, Transmits
<1>4. Known'
  <2>1. (AtRest' <=> AtRest) /\ (Fresh' <=> Fresh)
    BY <1>2, Kept
  <2>2. QED
    BY <1>1, <1>2, <2>1 DEF IInv, Known, Steps, Transmits
<1>5. Untouched' /\ ResultsAreTrue'
  BY <1>1, <1>2 DEF IInv, Untouched, ResultsAreTrue, Still
<1>6. QED
  BY <1>2, <1>3, <1>4, <1>5 DEF IInv

\* fail_runtime and the other steps that only move on.
LEMMA FailStep ==
    ASSUME IInv, CheckFail \/ WriteFail
    PROVE  IInv'
<1>1. CASE CheckFail /\ IsValidTransition(state, "Failed")
  <2>1. Still /\ state' = state /\ state \in RuntimeState /\ call.pc = "fail" /\ Goto("failing")
    BY <1>1 DEF CheckFail, ControlUnchanged, RunUnchanged, Still, IInv, TypeOK
  <2>2. /\ Quiet /\ TypeOK' /\ OnAir' /\ call'.pc = "failing"
        /\ UNCHANGED <<call.op, call.arg, call.next, call.result>>
    BY <2>1, GotoFacts DEF Transmits, Others
  <2>3. Steps' /\ States' /\ Untouched' /\ ResultsAreTrue'
    BY <2>2 DEF IInv, Steps, States, Untouched, ResultsAreTrue, Prepares, Transmits
  <2>4. (AtRest' <=> AtRest) /\ (Fresh' <=> Fresh)
    BY <2>2, Kept
  <2>5. Known'
    BY <2>1, <2>2, <2>4 DEF IInv, Known, Transmits
  <2>6. QED
    BY <2>2, <2>3, <2>5 DEF IInv
<1>2. CASE WriteFail \/ (CheckFail /\ ~IsValidTransition(state, "Failed"))
  <2>1. /\ Still /\ state' \in Terminal /\ state' \in RuntimeState
        /\ call.pc \notin Transmits /\ Return(FALSE)
    BY <1>2, Transitions DEF CheckFail, WriteFail, ControlUnchanged, RunUnchanged, Still, IInv,
                             TypeOK, Terminal, RuntimeState, Transmits
  <2>2. /\ Quiet /\ TypeOK' /\ OnAir' /\ call'.pc = "returned" /\ call'.result = FALSE
        /\ Steps' /\ States' /\ Untouched'
    BY <2>1, ReturnFacts
  <2>3. Known' /\ ResultsAreTrue'
    BY <2>1, <2>2 DEF Known, ResultsAreTrue, Terminal, Transmits
  <2>4. QED
    BY <2>2, <2>3 DEF IInv
<1>3. QED
  BY <1>1, <1>2

LEMMA ReturnTrueStep ==
    ASSUME IInv, ReturnTrue
    PROVE  IInv'
<1>1. Still /\ state' = state /\ state \in RuntimeState /\ call.pc = "true" /\ Return(TRUE)
  BY DEF ReturnTrue, ControlUnchanged, RunUnchanged, Still, IInv, TypeOK
<1>2. /\ Quiet /\ TypeOK' /\ OnAir' /\ call'.pc = "returned" /\ call'.result = TRUE
      /\ UNCHANGED call.op /\ Steps' /\ States' /\ Untouched'
  BY <1>1, ReturnFacts DEF Transmits
<1>3. (AtRest' <=> AtRest) /\ (Fresh' <=> Fresh)
  BY <1>2, Kept
<1>4. Known'
  BY <1>1, <1>2, <1>3 DEF IInv, Known, Transmits
<1>5. Results'
  BY <1>1, <1>2, <1>3 DEF IInv, Known, Results
<1>6. QED
  BY <1>2, <1>4, <1>5, ResultsAre DEF IInv

\* The checks of prepare and of arm.
LEMMA ChecksStep ==
    ASSUME IInv, PrepareChecks \/ ArmChecks \/ ArmBuilds
    PROVE  IInv'
<1>1. /\ Still /\ state' = state /\ state \in RuntimeState
      /\ call.pc \in {"called", "build"} /\ Goto(call'.pc)
      /\ call'.pc \in {"validate", "arm", "true", "fail"}
      /\ call'.pc = "validate" => call.op = "prepare" /\ call.arg.accepted
      /\ call'.pc \in {"arm", "true"} => call.op # "prepare"
      /\ call'.pc \in {"arm", "validate"} => call.pc = "called"
  BY DEF PrepareChecks, ArmChecks, ArmBuilds, Goto, ControlUnchanged, RunUnchanged, Still, IInv,
         TypeOK, Steps
<1>2. /\ Quiet /\ TypeOK' /\ OnAir'
      /\ UNCHANGED <<call.op, call.arg, call.next, call.result>>
  BY <1>1, GotoFacts DEF Prepares, Transmits, Others
<1>3. Steps' /\ States'
  BY <1>1, <1>2 DEF IInv, Steps, States, Prepares, Transmits
<1>4. (AtRest' <=> AtRest) /\ (Fresh' <=> Fresh)
  BY <1>2, Kept
<1>5. Known'
  BY <1>1, <1>2, <1>4 DEF IInv, Known, Transmits
<1>6. Untouched' /\ ResultsAreTrue'
  BY <1>1, <1>2 DEF IInv, Untouched, ResultsAreTrue, Still
<1>7. QED
  BY <1>2, <1>3, <1>5, <1>6 DEF IInv

-----------------------------------------------------------------------------
(* The steps of prepare that make settings. *)

LEMMA CopyStep ==
    ASSUME IInv, CopyPlan
    PROVE  IInv'
<1>1. /\ call.pc = "copy" /\ plan' = call.arg /\ Goto("configure")
      /\ UNCHANGED <<device, found, state, before, abort, onAir, events>>
  BY DEF CopyPlan, ControlUnchanged, RunUnchanged
<1>2. call'.pc = "configure" /\ UNCHANGED <<call.op, call.arg, call.next, call.result>>
  BY <1>1 DEF IInv, TypeOK, Goto
<1>3. TypeOK'
  BY <1>1 DEF IInv, TypeOK, Goto, Prepares
<1>4. Steps' /\ States' /\ OnAir' /\ Untouched' /\ ResultsAreTrue'
  BY <1>1, <1>2
     DEF IInv, Steps, States, OnAir, Untouched, ResultsAreTrue, Prepares, Transmits
<1>5. Configuring'
  <2>1. device.setting = found
    BY <1>1 DEF IInv, Known, Fresh
  <2>2. call'.next = 1
    BY <1>1, <1>2 DEF IInv, Steps
  <2>3. plan'.bindings \in Seq(Binding)
    BY <1>3, PlanFacts DEF TypeOK
  <2>4. DOMAIN plan'.bindings = 1 .. Len(plan'.bindings)
    BY <2>3
  <2>5. QED
    BY <1>1, <1>2, <2>1, <2>2, <2>4 DEF Configuring
<1>6. QED
  BY <1>1, <1>2, <1>3, <1>4, <1>5 DEF IInv, Known, States, Transmits

\* The binding in turn is another channel's than those before.
LEMMA TheBindingFacts ==
    ASSUME IInv, call.pc = "configure", call.next <= Len(call.arg.bindings)
    PROVE  /\ plan = call.arg /\ plan \in Plans
           /\ plan.bindings \in Seq(Binding) /\ DOMAIN plan.bindings = 1 .. Len(plan.bindings)
           /\ call.next \in DOMAIN plan.bindings /\ TheBinding = plan.bindings[call.next]
           /\ TheBinding \in Binding
           /\ \A i \in DOMAIN plan.bindings :
                 i # call.next => plan.bindings[i].channel # TheBinding.channel
<1>1. plan = call.arg /\ plan \in Plans /\ plan.accepted /\ call.next \in Nat \ {0}
  BY DEF IInv, TypeOK, Steps, Known, Configuring, Prepares
<1>2. plan.bindings \in Seq(Binding)
  BY <1>1, PlanFacts
<1>3. DOMAIN plan.bindings = 1 .. Len(plan.bindings) /\ Len(plan.bindings) \in Nat
  BY <1>2
<1>4. call.next \in DOMAIN plan.bindings /\ TheBinding = plan.bindings[call.next]
  BY <1>1, <1>3 DEF TheBinding
<1>5. TheBinding \in Binding
  BY <1>2, <1>4
<1>6. \A i, j \in DOMAIN plan.bindings :
         plan.bindings[i].channel = plan.bindings[j].channel => i = j
  BY <1>1, LifecycleAssumption
<1>7. QED
  BY <1>1, <1>2, <1>3, <1>4, <1>5, <1>6

LEMMA ConfigureStep ==
    ASSUME IInv, Configure
    PROVE  IInv'
<1> DEFINE b == TheBinding
<1>1. /\ call.pc = "configure" /\ call.next <= Len(call.arg.bindings)
      /\ device' = Configured(device, b, Len(Knobs))
      /\ call' = [call EXCEPT !.next = @ + 1]
      /\ UNCHANGED <<found, state, plan, before, abort, onAir, events>>
  BY DEF Configure, ControlUnchanged, RunUnchanged
<1>2. /\ plan = call.arg /\ DOMAIN plan.bindings = 1 .. Len(plan.bindings)
      /\ call.next \in DOMAIN plan.bindings /\ b = plan.bindings[call.next] /\ b \in Binding
      /\ \A i \in DOMAIN plan.bindings : i # call.next => plan.bindings[i].channel # b.channel
      /\ plan.bindings \in Seq(Binding)
  BY <1>1, TheBindingFacts
<1> HIDE DEF b
<1>3. device \in DeviceState /\ Len(Knobs) \in 0 .. Len(Knobs)
  BY DEF IInv, TypeOK, Knobs
<1>4. /\ device' \in DeviceState
      /\ \A d \in Channel, k \in Knob :
            d # b.channel \/ b.rf[k] = None => device'.setting[d][k] = device.setting[d][k]
      /\ \A k \in Knob : b.rf[k] # None => device'.setting[b.channel][k] = b.rf[k]
  <2> DEFINE dev == Configured(device, b, Len(Knobs))
  <2>1. /\ dev \in DeviceState
        /\ \A d \in Channel, k \in Knob :
              d # b.channel \/ b.rf[k] = None => dev.setting[d][k] = device.setting[d][k]
        /\ \A k \in Knob : b.rf[k] # None => dev.setting[b.channel][k] = b.rf[k]
    BY <1>2, <1>3, ConfiguredFacts
  <2> HIDE DEF dev
  <2>2. device' = dev
    BY <1>1 DEF dev
  <2>3. QED
    BY <2>1, <2>2
<1>5. call'.next = call.next + 1 /\ UNCHANGED <<call.op, call.pc, call.arg, call.result>>
  BY <1>1 DEF IInv, TypeOK
<1>6. TypeOK'
  BY <1>1, <1>4 DEF IInv, TypeOK
<1>7. Configuring'
  <2>1. Configuring
    BY <1>1 DEF IInv, Known
  <2>2. ASSUME NEW i \in DOMAIN plan.bindings, NEW k \in Knob,
               i < call.next + 1, plan.bindings[i].rf[k] # None
        PROVE  device'.setting[plan.bindings[i].channel][k] = plan.bindings[i].rf[k]
    <3>1. CASE i = call.next
      BY <1>2, <1>4, <2>2, <3>1
    <3>2. CASE i # call.next
      <4>1. i < call.next
        BY <1>2, <2>2, <3>2
      <4>2. device.setting[plan.bindings[i].channel][k] = plan.bindings[i].rf[k]
        BY <2>1, <2>2, <4>1 DEF Configuring
      <4>3. plan.bindings[i] \in Binding
        BY <1>2
      <4>4. plan.bindings[i].channel \in Channel
        BY <4>3 DEF Binding
      <4>5. QED
        BY <1>2, <1>4, <3>2, <4>2, <4>4
    <3>3. QED
      BY <3>1, <3>2
  <2>3. ASSUME NEW c \in Channel, NEW k \in Knob
        PROVE  \/ device'.setting[c][k] = found[c][k]
               \/ \E i \in DOMAIN plan.bindings :
                     i < call.next + 1 /\ plan.bindings[i].channel = c /\ plan.bindings[i].rf[k] # None
    <3>1. CASE c = b.channel /\ b.rf[k] # None
      BY <1>2, <3>1
    <3>2. CASE ~(c = b.channel /\ b.rf[k] # None)
      <4>1. device'.setting[c][k] = device.setting[c][k]
        BY <1>4, <3>2
      <4>2. \/ device.setting[c][k] = found[c][k]
            \/ \E i \in DOMAIN plan.bindings :
                  i < call.next /\ plan.bindings[i].channel = c /\ plan.bindings[i].rf[k] # None
        BY <2>1 DEF Configuring
      <4>3. QED
        BY <1>2, <4>1, <4>2
    <3>3. QED
      BY <3>1, <3>2
  <2>4. QED
    BY <1>1, <1>5, <2>1, <2>2, <2>3 DEF Configuring
<1>8. Steps' /\ States' /\ OnAir' /\ Untouched' /\ ResultsAreTrue'
  BY <1>1, <1>5
     DEF IInv, Steps, States, OnAir, Untouched, ResultsAreTrue, Prepares, Transmits
<1>9. QED
  BY <1>1, <1>5, <1>6, <1>7, <1>8 DEF IInv, Known, States, Transmits

LEMMA ConfigureFailsStep ==
    ASSUME IInv, ConfigureFails
    PROVE  IInv'
<1>1. /\ call.pc = "configure" /\ Goto("fail")
      /\ UNCHANGED <<found, state, plan, before, abort, onAir, events>>
  BY DEF ConfigureFails, ControlUnchanged, RunUnchanged
<1>2. device' \in DeviceState
  <2>1. CASE TheBinding.valid
    <3>1. PICK n \in 0 .. Len(Knobs) - 1 : device' = Configured(device, TheBinding, n)
      BY <2>1 DEF ConfigureFails
    <3>2. n \in 0 .. Len(Knobs)
      BY <3>1 DEF Knobs
    <3>3. device \in DeviceState /\ TheBinding \in Binding
      BY TheBindingFacts DEF ConfigureFails, IInv, TypeOK
    <3>4. QED
      BY <3>1, <3>2, <3>3, ConfiguredFacts
  <2>2. CASE ~TheBinding.valid
    BY <2>2 DEF ConfigureFails, IInv, TypeOK
  <2>3. QED
    BY <2>1, <2>2
<1>3. call'.pc = "fail" /\ UNCHANGED <<call.op, call.arg>>
  BY <1>1 DEF IInv, TypeOK, Goto
<1>4. TypeOK'
  BY <1>1, <1>2 DEF IInv, TypeOK, Goto, Others
<1>5. QED
  BY <1>1, <1>3, <1>4
     DEF IInv, Steps, States, Known, OnAir, Untouched, ResultsAreTrue, Prepares, Transmits

\* All bindings are made: the settings are those of the plan.
LEMMA ConfigureEndsStep ==
    ASSUME IInv, ConfigureEnds
    PROVE  IInv'
<1>1. /\ Still /\ state' = state /\ state \in RuntimeState /\ call.pc = "configure"
      /\ Goto("prepare") /\ call.next > Len(call.arg.bindings)
  BY DEF ConfigureEnds, ControlUnchanged, RunUnchanged, Still, IInv, TypeOK
<1>2. /\ Quiet /\ TypeOK' /\ OnAir' /\ call'.pc = "prepare"
      /\ UNCHANGED <<call.op, call.arg, call.next, call.result>>
  BY <1>1, GotoFacts DEF Prepares, Transmits
<1>3. AtRest
  <2>1. Configuring
    BY <1>1 DEF IInv, Known
  <2>2. plan = call.arg /\ plan.bindings \in Seq(Binding) /\ call.next \in Nat
    BY <2>1, PlanFacts DEF IInv, TypeOK, Configuring
  <2>3. \A i \in DOMAIN plan.bindings : i < call.next
    BY <1>1, <2>2
  <2>4. ASSUME NEW c \in Channel, NEW k \in Knob
        PROVE  device.setting[c][k] \in Planned(c, k)
    <3>1. CASE \E i \in DOMAIN plan.bindings :
                  plan.bindings[i].channel = c /\ plan.bindings[i].rf[k] # None
      <4>1. PICK i \in DOMAIN plan.bindings :
                plan.bindings[i].channel = c /\ plan.bindings[i].rf[k] # None
        BY <3>1
      <4>2. device.setting[c][k] = plan.bindings[i].rf[k]
        BY <2>1, <2>3, <4>1 DEF Configuring
      <4>3. plan.bindings[i].rf[k] \in Given(plan, c, k)
        BY <4>1 DEF Given
      <4>4. QED
        BY <4>2, <4>3 DEF Planned
    <3>2. CASE ~ \E i \in DOMAIN plan.bindings :
                  plan.bindings[i].channel = c /\ plan.bindings[i].rf[k] # None
      <4>1. Given(plan, c, k) = {}
        BY <3>2 DEF Given
      <4>2. device.setting[c][k] = found[c][k]
        BY <2>1, <3>2 DEF Configuring
      <4>3. QED
        BY <4>1, <4>2 DEF Planned
    <3>3. QED
      BY <3>1, <3>2
  <2>5. QED
    BY <2>4 DEF AtRest
<1>4. (AtRest' <=> AtRest) /\ (Fresh' <=> Fresh)
  BY <1>2, Kept
<1>5. Known'
  BY <1>1, <1>2, <1>3, <1>4 DEF IInv, Known, Transmits
<1>6. Steps' /\ States' /\ Untouched' /\ ResultsAreTrue'
  BY <1>1, <1>2 DEF IInv, Steps, States, Untouched, ResultsAreTrue, Prepares, Transmits
<1>7. QED
  BY <1>2, <1>5, <1>6 DEF IInv

-----------------------------------------------------------------------------
(* The steps of run. *)

LEMMA RunBeginsStep ==
    ASSUME IInv, RunBegins
    PROVE  IInv'
<1>1. /\ call.pc = "choose" /\ UNCHANGED <<device, found, state, plan, before, abort, onAir>>
      /\ \/ Goto("fail") /\ UNCHANGED events
         \/ Goto("running") /\ events' = plan.events
  BY DEF RunBegins, ControlUnchanged
<1>2. /\ UNCHANGED <<call.op, call.arg, call.next, call.result>>
      /\ call'.pc = "fail" \/ (call'.pc = "running" /\ events' = plan.events)
  BY <1>1 DEF IInv, TypeOK, Goto
<1>3. TypeOK'
  BY <1>1 DEF IInv, TypeOK, Goto, Transmits, Others
<1>4. Quiet
  BY <1>1 DEF Quiet
<1>5. (AtRest' <=> AtRest) /\ (Fresh' <=> Fresh) /\ (AsRun' <=> AsRun)
  BY <1>4, Kept
<1>6. AtRest => AsRun
  BY DEF AtRest, AsRun
<1>7. Known'
  BY <1>1, <1>2, <1>5, <1>6 DEF IInv, Known, Transmits
<1>8. Steps' /\ States' /\ OnAir' /\ Untouched' /\ ResultsAreTrue'
  BY <1>1, <1>2
     DEF IInv, Steps, States, OnAir, Untouched, ResultsAreTrue, Prepares, Transmits
<1>9. QED
  BY <1>3, <1>7, <1>8 DEF IInv

\* What a run does as long as it transmits, timed events apart.
LEMMA TransmitStep ==
    ASSUME IInv,
           ScheduleEnds \/ RunThrows
             \/ \E c \in Channel : StartTx(c) \/ StartTxFails(c) \/ StopTx(c)
    PROVE  IInv'
<1>1. /\ call.pc \in Transmits /\ UNCHANGED <<found, state, plan, before, abort, events>>
      /\ call'.pc \in Transmits /\ call'.op = call.op /\ call'.arg = call.arg
      /\ call'.next = call.next
  BY DEF ScheduleEnds, RunThrows, StartTx, StartTxFails, StopTx, ControlUnchanged, RunUnchanged,
         Transmits, IInv, TypeOK
<1>2. device' \in DeviceState /\ device'.setting = device.setting
  <2>1. CASE UNCHANGED device
    BY <2>1 DEF IInv, TypeOK
  <2>2. ASSUME NEW c \in Channel, StartTx(c) \/ StartTxFails(c) \/ StopTx(c)
        PROVE  device' \in DeviceState /\ device'.setting = device.setting
    <3>1. device \in DeviceState
      BY DEF IInv, TypeOK
    <3>2. PICK dev \in {Started(device, c), StartFailed(device, c), Stopped(device, c)} : device' = dev
      BY <2>2 DEF StartTx, StartTxFails, StopTx
    <3>3. dev \in DeviceState /\ dev.setting = device.setting
      BY <3>1, DeviceFacts
    <3>4. QED
      BY <3>2, <3>3
  <2>3. QED
    BY <2>1, <2>2 DEF ScheduleEnds, RunThrows
<1>3. TypeOK'
  <2>1. call' \in [op : {"none", "prepare", "arm", "run"}, pc : Prepares \cup Transmits \cup Others,
                   arg : Plans \cup {NoPlan}, next : Nat \ {0}, result : BOOLEAN]
    BY DEF ScheduleEnds, RunThrows, StartTx, StartTxFails, StopTx, Transmits, IInv, TypeOK
  <2>2. onAir' \subseteq Channel
    BY DEF ScheduleEnds, RunThrows, StartTx, StartTxFails, StopTx, RunUnchanged, IInv, TypeOK
  <2>3. QED
    BY <1>1, <1>2, <2>1, <2>2 DEF IInv, TypeOK
<1>4. Quiet
  BY <1>1, <1>2 DEF Quiet
<1>5. AsRun' <=> AsRun
  BY <1>4, Kept
<1>6. Known'
  BY <1>1, <1>5 DEF IInv, Known, States, Transmits
<1>7. Steps' /\ States' /\ OnAir' /\ Untouched' /\ ResultsAreTrue'
  BY <1>1 DEF IInv, Steps, States, OnAir, Untouched, ResultsAreTrue, Prepares, Transmits
<1>8. QED
  BY <1>3, <1>6, <1>7 DEF IInv

\* A timed event makes a setting that is one of the plan's events.
LEMMA FireStep ==
    ASSUME IInv, NEW evt \in events, Fire(evt)
    PROVE  IInv'
<1>1. /\ call.pc \in Transmits /\ UNCHANGED <<found, state, plan, before, abort, onAir>>
      /\ events' = events \ {evt}
      /\ \/ device' = Set(device, evt.channel, evt.knob, evt.value) /\ UNCHANGED call
         \/ call' = [call EXCEPT !.result = FALSE] /\ UNCHANGED device
  BY DEF Fire, ControlUnchanged, Transmits
<1>2. AsRun /\ events \subseteq plan.events
  BY <1>1 DEF IInv, Known
<1>3. evt \in plan.events /\ evt \in Event
  BY <1>2, PlanFacts DEF IInv, TypeOK
<1>4. evt.channel \in Channel /\ evt.knob \in Knob /\ evt.value \in Value
  BY <1>3 DEF Event, Knob
<1>5. UNCHANGED <<call.op, call.pc, call.arg, call.next>>
  BY <1>1 DEF IInv, TypeOK
<1>6. device \in DeviceState
  BY DEF IInv, TypeOK
<1>7. device' \in DeviceState /\ AsRun'
  <2>1. CASE UNCHANGED device
    <3>1. Quiet
      BY <1>1, <2>1 DEF Quiet
    <3>2. QED
      BY <1>2, <1>6, <2>1, <3>1, Kept
  <2>2. CASE device' = Set(device, evt.channel, evt.knob, evt.value)
    <3>1. /\ device' \in DeviceState
          /\ device'.setting[evt.channel][evt.knob] = evt.value
          /\ \A d \in Channel, j \in Knob :
                d # evt.channel \/ j # evt.knob => device'.setting[d][j] = device.setting[d][j]
      <4> DEFINE dev == Set(device, evt.channel, evt.knob, evt.value)
      <4>1. /\ dev \in DeviceState
            /\ dev.setting[evt.channel][evt.knob] = evt.value
            /\ \A d \in Channel, j \in Knob :
                  d # evt.channel \/ j # evt.knob => dev.setting[d][j] = device.setting[d][j]
        BY <1>4, <1>6, SetFacts
      <4> HIDE DEF dev
      <4>2. device' = dev
        BY <2>2 DEF dev
      <4>3. QED
        BY <4>1, <4>2
    <3>2. ASSUME NEW c \in Channel, NEW k \in Knob
          PROVE  device'.setting[c][k] \in (Planned(c, k) \cup Retuned(c, k))'
      <4>1. (Planned(c, k) \cup Retuned(c, k))' = Planned(c, k) \cup Retuned(c, k)
        BY <1>1 DEF Planned, Given, Retuned
      <4>2. CASE c = evt.channel /\ k = evt.knob
        <5>1. evt.value \in Retuned(c, k)
          BY <1>3, <4>2 DEF Retuned
        <5>2. QED
          BY <3>1, <4>1, <4>2, <5>1
      <4>3. CASE ~(c = evt.channel /\ k = evt.knob)
        <5>1. device.setting[c][k] \in Planned(c, k) \cup Retuned(c, k)
          BY <1>2 DEF AsRun
        <5>2. QED
          BY <3>1, <4>1, <4>3, <5>1
      <4>4. QED
        BY <4>2, <4>3
    <3>3. QED
      BY <3>1, <3>2 DEF AsRun
  <2>3. QED
    BY <1>1, <2>1, <2>2
<1>8. TypeOK'
  BY <1>1, <1>7 DEF IInv, TypeOK
<1>9. Known'
  BY <1>1, <1>2, <1>5, <1>7 DEF IInv, Known, States, Transmits
<1>10. Steps' /\ States' /\ OnAir' /\ Untouched' /\ ResultsAreTrue'
  BY <1>1, <1>5 DEF IInv, Steps, States, OnAir, Untouched, ResultsAreTrue, Prepares, Transmits
<1>11. QED
  BY <1>8, <1>9, <1>10 DEF IInv

LEMMA RunEndsStep ==
    ASSUME IInv, RunEnds \/ CheckCompleted
    PROVE  IInv'
<1>1. /\ UNCHANGED <<device, found, state, plan, before, abort, onAir>>
      /\ call.pc \in Transmits \cup {"complete"}
      /\ call.pc \in Transmits => onAir = {}
      /\ call'.pc \in {"complete", "fail", "completing", "true"} /\ Goto(call'.pc)
  BY DEF RunEnds, CheckCompleted, Goto, ControlUnchanged, RunUnchanged, Transmits, IInv, TypeOK
<1>2. UNCHANGED <<call.op, call.arg, call.next, call.result>>
  BY <1>1 DEF IInv, TypeOK, Goto
<1>3. TypeOK'
  BY <1>1 DEF IInv, TypeOK, Goto, Others
<1>4. Quiet
  BY <1>1 DEF Quiet
<1>5. (AtRest' <=> AtRest) /\ (Fresh' <=> Fresh)
  BY <1>4, Kept
<1>6. Known'
  BY <1>1, <1>2, <1>5 DEF IInv, Known, Steps, Transmits
<1>7. Steps' /\ States' /\ OnAir' /\ Untouched' /\ ResultsAreTrue'
  BY <1>1, <1>2 DEF IInv, Steps, States, OnAir, Untouched, ResultsAreTrue, Prepares, Transmits
<1>8. QED
  BY <1>3, <1>6, <1>7 DEF IInv

-----------------------------------------------------------------------------
(* abort, and the next runtime. *)

LEMMA AbortMoves ==
    ASSUME IInv, AbortStep
    PROVE  IInv'
<1>1. /\ UNCHANGED <<found, plan, call, before, onAir, events>>
      /\ state' = state \/ state' = "Aborted"
  BY DEF AbortStep, CallAbort, AbortWrites, AbortReads, AbortStops, AbortUnchanged
<1>2. device' \in DeviceState /\ device'.setting = device.setting
  BY DeviceFacts DEF AbortStep, CallAbort, AbortWrites, AbortReads, AbortStops, IInv, TypeOK
<1>3. abort' \in [pc : {"none", "aborting", "channels", "stop"}, left : SUBSET Channel]
  <2>1. ChannelsOf(plan) \subseteq Channel
    <3>1. plan.bindings \in Seq(Binding)
      BY PlanFacts DEF IInv, TypeOK
    <3>2. \A i \in DOMAIN plan.bindings : plan.bindings[i] \in Binding
      BY <3>1
    <3>3. QED
      BY <3>2 DEF ChannelsOf, Binding
  <2>2. QED
    BY <2>1 DEF AbortStep, CallAbort, AbortWrites, AbortReads, AbortStops, IInv, TypeOK
<1>4. TypeOK'
  BY <1>1, <1>2, <1>3 DEF IInv, TypeOK, RuntimeState
<1>5. Quiet
  BY <1>1, <1>2 DEF Quiet
<1>6. /\ (AtRest' <=> AtRest) /\ (Fresh' <=> Fresh) /\ (AsRun' <=> AsRun)
      /\ (Configuring' <=> Configuring)
  BY <1>1, <1>5, Kept
<1>7. Known'
  BY <1>1, <1>6 DEF IInv, Known
<1>8. Results'
  BY <1>1, <1>2, <1>6, ResultsAre DEF IInv, Results, Terminal
<1>9. Steps' /\ States' /\ OnAir' /\ Untouched'
  BY <1>1, <1>2 DEF IInv, Steps, States, OnAir, Untouched
<1>10. QED
  BY <1>4, <1>7, <1>8, <1>9, ResultsAre DEF IInv

LEMMA NewRuntimeStep ==
    ASSUME IInv, NewRuntime
    PROVE  IInv'
<1>1. /\ call.pc \in {"idle", "returned"} /\ found' = device.setting /\ state' = "Created"
      /\ plan' = NoPlan /\ call' = Idle /\ abort' = [pc |-> "none", left |-> {}]
      /\ UNCHANGED <<device, onAir, events>>
  BY DEF NewRuntime, RunUnchanged
<1>2. TypeOK'
  BY <1>1 DEF IInv, TypeOK, Idle, Others, RuntimeState, DeviceState, Settings
<1>3. QED
  BY <1>1, <1>2
     DEF IInv, Steps, States, Known, Fresh, OnAir, Untouched, ResultsAreTrue, Idle, Prepares, Transmits

-----------------------------------------------------------------------------
LEMMA Initial == Init => IInv
<1>1. SUFFICES ASSUME Init PROVE IInv
  OBVIOUS
<1>2. PICK kind \in Kinds : device = NewDevice(kind)
  BY <1>1 DEF Init
<1>3. device \in DeviceState
  BY <1>2 DEF NewDevice, DeviceState
<1>4. TypeOK
  BY <1>1, <1>3 DEF Init, TypeOK, Idle, Others, RuntimeState, DeviceState, Settings
<1>5. QED
  BY <1>1, <1>4
     DEF Init, IInv, Steps, States, Known, Fresh, OnAir, Untouched, ResultsAreTrue, Idle, Prepares, Transmits

LEMMA Stutter == IInv /\ UNCHANGED vars => IInv'
<1>1. SUFFICES ASSUME IInv, UNCHANGED vars PROVE IInv'
  OBVIOUS
<1>2. UNCHANGED <<device, found, state, plan, call, before, onAir, events, abort>>
  BY <1>1 DEF vars
<1>3. Quiet
  BY <1>2 DEF Quiet
<1>4. /\ (AtRest' <=> AtRest) /\ (Fresh' <=> Fresh) /\ (AsRun' <=> AsRun)
      /\ (Configuring' <=> Configuring)
  BY <1>2, <1>3, Kept
<1>5. TypeOK' /\ Steps' /\ States' /\ OnAir' /\ Untouched'
  BY <1>1, <1>2 DEF IInv, TypeOK, Steps, States, OnAir, Untouched
<1>6. Known' /\ Results'
  BY <1>1, <1>2, <1>4, ResultsAre DEF IInv, Known, Results
<1>7. QED
  BY <1>5, <1>6, ResultsAre DEF IInv

LEMMA Invariance == Spec => []IInv
<1>1. ASSUME IInv, Next PROVE IInv'
  <2>1. ASSUME NEW p \in Plans, Call("prepare", p) PROVE IInv'
    BY <1>1, <2>1, CallStep
  <2>2. CASE Call("arm", NoPlan) \/ Call("run", NoPlan)
    BY <1>1, <2>2, CallStep
  <2>3. CASE PrepareStep
    BY <1>1, <2>3, ChecksStep, CheckStep, WriteStep, CopyStep, ConfigureStep, ConfigureFailsStep,
       ConfigureEndsStep DEF PrepareStep
  <2>4. CASE ArmStep
    BY <1>1, <2>4, ChecksStep, CheckStep, WriteStep DEF ArmStep
  <2>5. CASE RunStep
    BY <1>1, <2>5, CheckStep, WriteStep, RunBeginsStep, TransmitStep, FireStep, RunEndsStep
       DEF RunStep
  <2>6. CASE CheckFail \/ WriteFail \/ ReturnTrue
    BY <1>1, <2>6, FailStep, ReturnTrueStep
  <2>7. CASE AbortStep \/ NewRuntime
    BY <1>1, <2>7, AbortMoves, NewRuntimeStep
  <2>8. QED
    BY <1>1, <2>1, <2>2, <2>3, <2>4, <2>5, <2>6, <2>7 DEF Next
<1>2. IInv /\ [Next]_vars => IInv'
  BY <1>1, Stutter
<1>3. QED
  BY Initial, <1>2, PTL DEF Spec

\* Whatever the plans and the calls, a channel on air is set as the plan says
\* that the run was armed with, or as one of its events does (prepare, run).
THEOREM TransmitsAsPlanned == Spec => []OnAirAsPlanned
<1>1. IInv => OnAirAsPlanned
  <2>1. SUFFICES ASSUME IInv, NEW c \in onAir, NEW k \in Knob
                 PROVE  device.setting[c][k] \in Planned(c, k) \cup Retuned(c, k)
    BY DEF OnAirAsPlanned
  <2>2. AsRun
    BY <2>1 DEF IInv, OnAir, Known
  <2>3. c \in Channel
    BY <2>1 DEF IInv, TypeOK
  <2>4. QED
    BY <2>2, <2>3 DEF AsRun
<1>2. QED
  BY <1>1, Invariance, PTL

\* A call that returns false has failed the runtime for good or changed
\* nothing, and a prepare that returns true has set the device (prepare, arm,
\* run).
THEOREM CallsTellTheTruth == Spec => []ResultsAreTrue
<1>1. IInv => ResultsAreTrue
  BY DEF IInv
<1>2. QED
  BY <1>1, Invariance, PTL
=============================================================================
