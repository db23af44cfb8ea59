------------------------------- MODULE Pipeline -------------------------------
(***************************************************************************)
(* `scenario run` (cli/src/cmd_scenario.cpp): a parsed scenario is         *)
(* validated, planned, prepared, armed and run, and the timed events of    *)
(* the run reach the device.  A plan may be saved and loaded on the way.   *)
(* How the samples of the run get to the device is SingleChannel's and     *)
(* MultiChannel's subject; how the dispatcher waits, EventDispatcher's.    *)
(***************************************************************************)
EXTENDS Planner, PlanIO, StateMachine, Bags

CONSTANT Scenarios   \* the scenarios that the parser may hand over

\* A vector of the parser, or a name.
IsSequence(seq) == Len(seq) \in Nat /\ seq = [i \in 1 .. Len(seq) |-> seq[i]]

EventFields == {"kind", "device", "time", "channel", "emitter", "value", "body"}

\* What holds nothing is no channel, a bad number none of a channel's, and
\* times are whole; starts need no rounding.
WellFormed(s) ==
    /\ \A seq \in {s.devices, s.channels, s.emitters, s.events} : IsSequence(seq)
    /\ \A named \in ToSet(s.devices) \cup ToSet(s.emitters) : IsSequence(named.id)
    /\ \A c \in ToSet(EffectiveChannels(s)) :
          c # None /\ c.index # BadChannel /\ c.rf \in {"ok", "extreme", "invalid"}
    /\ \A em \in ToSet(s.emitters) : /\ {em.start, em.duration, em.count, em.interval} \subseteq Int
                                    /\ Rounded(em.start) = em.start
    /\ \A evt \in ToSet(s.events) : EventFields \subseteq DOMAIN evt /\ evt.time \in Int

ASSUME ScenariosAssumption == \A s \in Scenarios : WellFormed(s)

VARIABLES scenario, \* the scenario of this run
          stage,    \* how far the command has got
          plan,     \* the plan, None before it is made
          state,    \* the RuntimeState
          pending,  \* events the dispatcher holds
          tuning,   \* the device: per channel what its RF events have set
          log       \* the other events dispatched, a bag

vars == <<scenario, stage, plan, state, pending, tuning, log>>

Init == /\ scenario \in Scenarios
        /\ stage = "parsed" /\ plan = None /\ state = "Created"
        /\ pending = {} /\ tuning = <<>> /\ log = EmptyBag

Untouched == UNCHANGED <<scenario, pending, tuning, log>>

ValidateStep ==
    /\ stage = "parsed"
    /\ stage' = IF Validate(scenario) THEN "validated" ELSE "InputValidationFailure"
    /\ UNCHANGED <<plan, state>> /\ Untouched

PlanStep ==
    /\ stage = "validated"
    /\ \/ /\ Plannable(scenario)
          /\ stage' = "planned" /\ plan' = PlanOf(scenario)
       \/ /\ ~Plannable(scenario)
          /\ stage' = "PlanningFailure" /\ UNCHANGED plan
    /\ UNCHANGED state /\ Untouched

\* plan_to_json and plan_from_json: the same plan, or none.
Reload == /\ stage = "planned"
          /\ stage' = IF ImportAccepts(scenario, plan) THEN "loaded" ELSE "unloadable"
          /\ UNCHANGED <<plan, state>> /\ Untouched

\* Validated, Planned and Prepared in one call; a refusal is a failure.
Prepare ==
    /\ stage \in {"planned", "loaded"}
    /\ \/ /\ PrepareAccepts(plan)
          /\ stage' = "prepared" /\ state' = "Prepared"
          /\ tuning' = [index \in ToSet(ActiveChannels(plan)) |->
                          [retune |-> None, gain_change |-> None]]
       \/ /\ ~PrepareAccepts(plan)
          /\ stage' = "PreparationFailure" /\ state' = "Failed" /\ UNCHANGED tuning
    /\ UNCHANGED <<scenario, plan, pending, log>>

Arm == /\ stage = "prepared"
       /\ \/ ArmAccepts(plan) /\ stage' = "armed" /\ state' = "Armed"
          \/ ~ArmAccepts(plan) /\ stage' = "PreparationFailure" /\ state' = "Failed"
       /\ UNCHANGED plan /\ Untouched

Run == /\ stage = "armed"
       /\ stage' = "running" /\ state' = "Running"
       /\ LET events == DispatcherEvents(plan)
          IN  pending' = {<<i, events[i]>> : i \in DOMAIN events}
       /\ UNCHANGED <<scenario, plan, tuning, log>>

\* In the order of time, equal times in any.
Dispatch(entry) ==
    LET evt == entry[2]
    IN  /\ stage = "running" /\ entry \in pending
        /\ \A other \in pending : evt.time <= other[2].time
        /\ pending' = pending \ {entry}
        /\ \/ IsRf(evt.kind) /\ tuning' = [tuning EXCEPT ![evt.channel][evt.kind] = evt.value]
                             /\ UNCHANGED log
           \/ ~IsRf(evt.kind) /\ log' = log (+) SetToBag({evt}) /\ UNCHANGED tuning
        /\ UNCHANGED <<scenario, stage, plan, state>>

Complete == /\ stage = "running" /\ pending = {}
            /\ stage' = "Success" /\ state' = "Completed"
            /\ UNCHANGED plan /\ Untouched

Next == \/ ValidateStep \/ PlanStep \/ Reload \/ Prepare \/ Arm \/ Run \/ Complete
        \/ \E entry \in pending : Dispatch(entry)

Spec == Init /\ [][Next]_vars

-----------------------------------------------------------------------------
(* What the validator does not look at, and only the runtime refuses. *)

Expanded(s) == {x \in (DOMAIN s.emitters) \X (1..MaxRepeatCount) :
                  x[2] <= s.emitters[x[1]].count}

\* An emitter named like a repetition of another.
HasIdClash(s) ==
    \E em, other \in ToSet(s.emitters) :
        /\ em.count > 1 /\ other.count = 1
        /\ \E r \in 1..em.count : other.id = Append(em.id, r - 1)

\* A repeated emitter that overlaps itself.
OverlapsItself(em) ==
    \E v, w \in DOMAIN WindowsOf(em) : v < w /\ Overlap(WindowsOf(em)[v], WindowsOf(em)[w])

\* An event that reaches no channel, or that names what has no instruction, as
\* a repeated emitter, or one on another channel than those it reaches.
IsMisaddressed(s, evt) ==
    LET reached == {c.index : c \in {ch \in ToSet(EffectiveChannels(s)) :
                        ch.device = evt.device /\ evt.channel \in {None, ch.index}}}
        named == {x \in Expanded(s) : InstructionId(s.emitters[x[1]], x[2]) = evt.emitter}
    IN  \/ reached = {}
        \/ /\ NamesEmitter(evt.kind)
           /\ \/ named = {}
              \/ \E x \in named : {ChannelKey(s, s.emitters[x[1]])[2]} # reached

\* Additive windows of one channel between whose ends the difference is rounded.
HasInexactMix(s) ==
    \E x, y \in Expanded(s) :
        LET em == s.emitters[x[1]]
            other == s.emitters[y[1]]
            start == WindowsOf(em)[x[2]].start
            end == WindowsOf(other)[y[2]].end
        IN  /\ em.additive /\ other.additive /\ ChannelKey(s, em) = ChannelKey(s, other)
            /\ start < end /\ Plus(start, Minus(end, start)) # end

HasGap(s) ==
    \/ Cardinality({c.device : c \in ToSet(EffectiveChannels(s))}) > 1
    \/ \E c \in ToSet(EffectiveChannels(s)) : c.rf = "extreme"
    \/ \E em \in ToSet(s.emitters) :
          LET key == ChannelKey(s, em)
          IN  ~IsBound(s, key[1], key[2]) \/ (~em.additive /\ OverlapsItself(em))
    \/ HasIdClash(s)
    \/ \E evt \in ToSet(s.events) : IsMisaddressed(s, evt)

\* What only the planner refuses.
NamesUnknownEmitter(s) ==
    \E evt \in ToSet(s.events) :
        NamesEmitter(evt.kind) /\ evt.emitter \notin {em.id : em \in ToSet(s.emitters)}

HasTooLongEmitter(s) == \E em \in ToSet(s.emitters) : em.duration > MaxDuration

\* The planner refuses a validated scenario only for an event that names an
\* unknown emitter or for an emitter too long to render: in all else, the
\* overlaps above all, what the validator passes can be planned.
PlannerRefusalsExplained ==
    stage = "PlanningFailure" => NamesUnknownEmitter(scenario) \/ HasTooLongEmitter(scenario)

\* The runtime refuses a plan for one of the gaps above or for the rounding of a
\* mix group, and runs none that has a gap: the validator, the planner, prepare
\* and arm agree on everything else.
RefusalsExplained ==
    /\ stage = "PreparationFailure" => HasGap(scenario) \/ HasInexactMix(scenario)
    /\ stage = "armed" => ~HasGap(scenario)

\* A plan of one device loads again exactly where it also arms.
ImportMatchesRuntime ==
    plan # None /\ PrepareAccepts(plan) =>
        (ImportAccepts(scenario, plan) <=> ArmAccepts(plan))

\* On an armed runtime every channel transmits one thing at a time, and every
\* repetition of every emitter of the scenario once, on its own channel, alone
\* or within a mix group.
OnAirOnce ==
    stage = "armed" =>
        \A c \in ToSet(EffectiveChannels(scenario)) :
            LET schedule == ScheduleOf(plan, c.index)
            IN  /\ \A i, j \in DOMAIN schedule : i < j => ~Overlap(schedule[i], schedule[j])
                /\ \A x \in Expanded(scenario) :
                      LET em == scenario.emitters[x[1]]
                          window == WindowsOf(em)[x[2]]
                          entries == {i \in DOMAIN schedule :
                                        InstructionId(em, x[2]) \in schedule[i].ids}
                      IN  IF ChannelKey(scenario, em) # <<c.device, c.index>> THEN entries = {}
                          ELSE \E i \in DOMAIN schedule :
                                  /\ entries = {i}
                                  /\ schedule[i].start <= window.start
                                  /\ window.end <= schedule[i].end \/ HasInexactMix(scenario)

\* Two events that differ in nothing but a time, and print it alike.
LooksLike(evt, other) == /\ [evt EXCEPT !.time = 0] = [other EXCEPT !.time = 0]
                         /\ Printed(evt.time) = Printed(other.time)

HasLookalikes(s) ==
    \E evt, other \in ToSet(s.events) : evt.time # other.time /\ LooksLike(evt, other)

\* Every channel is tuned as the latest event for it says.
TunedAsPlanned ==
    \A index \in DOMAIN tuning, kind \in {"retune", "gain_change"} :
        LET mine == {evt \in ToSet(scenario.events) :
                       evt.kind = kind /\ evt.channel \in {None, index}}
            latest == {evt \in mine : \A other \in mine : other.time <= evt.time}
        IN  IF mine = {} THEN tuning[index][kind] = None
            ELSE tuning[index][kind] \in {evt.value : evt \in latest}

\* Every other event is dispatched, and on two channels no oftener than on one.
OthersDispatched ==
    \A evt \in ToSet(scenario.events) :
        ~IsRf(evt.kind) =>
            /\ BagIn(Scheduled(evt, None), log)
            /\ log[Scheduled(evt, None)] <=
                  Cardinality({i \in DOMAIN scenario.events :
                     Scheduled(scenario.events[i], None) = Scheduled(evt, None)})

\* When a run is over its events have left the device as the scenario says, and
\* none of them is lost or repeated, unless two of them look alike.
EventsTakeEffect ==
    stage = "Success" /\ ~HasLookalikes(scenario) => TunedAsPlanned /\ OthersDispatched
=============================================================================
