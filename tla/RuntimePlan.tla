----------------------------- MODULE RuntimePlan ------------------------------
(***************************************************************************)
(* What Runtime makes of a plan (core/runtime/src/runtime.cpp): the checks *)
(* of prepare and arm, the schedule of each channel and the events that    *)
(* run hands to its dispatcher.  A plan is a record as in Planner; it has  *)
(* a plan for each of its channels, as every plan of the planner has, so   *)
(* the round-robin for channels without one is left out.                   *)
(***************************************************************************)
EXTENDS Scenario

CONSTANT PrintDigits   \* significant digits of a double sent to a stream: 6

ASSUME PrintAssumption == PrintDigits \in Nat \ {0}

-----------------------------------------------------------------------------
(* prepare *)

\* One device, no channel number twice.
PrepareAccepts(p) ==
    /\ \A i, j \in DOMAIN p.channels :
          /\ p.channels[i].index = p.channels[j].index => i = j
          /\ p.channels[i].device = p.channels[j].device
    /\ \A c \in ToSet(p.channels) : c.rf = "ok"

-----------------------------------------------------------------------------
(* The windows rule of arm. *)

ActiveChannels(p) == [i \in DOMAIN p.channels |-> p.channels[i].index]

ChannelPlanOf(p, index) == CHOOSE cp \in ToSet(p.channelPlans) : cp.index = index

RenderWindow(instr) == Window(instr.start, instr.duration)

\* A lone channel renders everything, whatever its channel plan says.
RendersOn(p, index) == IF Len(p.channels) = 1 THEN p.renders
                       ELSE ChannelPlanOf(p, index).renders

GroupsOn(p, index) == Keep(p.mixGroups, {group \in ToSet(p.mixGroups) : group.channel = index})

GroupWindow(group) == Window(group.start, group.duration)

SameMixGroupCoversOverlap(p, index, a, b) ==
    \E group \in ToSet(GroupsOn(p, index)) :
        /\ {a.id, b.id} \subseteq ToSet(group.members)
        /\ group.start <= a.start \/ group.start <= b.start
        /\ \/ RenderWindow(a).end <= GroupWindow(group).end
           \/ RenderWindow(b).end <= GroupWindow(group).end

\* No two windows on a channel at once, but for the members of one mix group.
ScheduleWindowsOk(p) ==
    \A index \in ToSet(ActiveChannels(p)) :
        LET renders == RendersOn(p, index)
            groups == GroupsOn(p, index)
        IN  /\ \A i, j \in DOMAIN renders :
                  i < j /\ Overlap(RenderWindow(renders[i]), RenderWindow(renders[j]))
                      => SameMixGroupCoversOverlap(p, index, renders[i], renders[j])
            /\ \A i, j \in DOMAIN groups :
                  i < j => ~Overlap(GroupWindow(groups[i]), GroupWindow(groups[j]))
            /\ \A group \in ToSet(groups), instr \in ToSet(renders) :
                  Overlap(GroupWindow(group), RenderWindow(instr))
                      => instr.id \in ToSet(group.members)

\* Mutant: render windows are not compared with each other.
ScheduleWindowsOfGroups(p) ==
    \A index \in ToSet(ActiveChannels(p)) :
        \A group \in ToSet(GroupsOn(p, index)), instr \in ToSet(RendersOn(p, index)) :
            Overlap(GroupWindow(group), RenderWindow(instr))
                => instr.id \in ToSet(group.members)

-----------------------------------------------------------------------------
(* arm *)

Ids(renders) == {instr.id : instr \in ToSet(renders)}

IdsDistinct(renders) == \A i, j \in DOMAIN renders : renders[i].id = renders[j].id => i = j

IsBinding(p, device, index) ==
    \E c \in ToSet(p.channels) : c.device = device /\ c.index = index

\* The plan of a channel names its own device, its own number and its own
\* emitters only.
ArmAcceptsChannelPlan(p, cp) ==
    /\ cp.index \in ToSet(ActiveChannels(p))
    /\ IdsDistinct(cp.renders)
    /\ Ids(cp.renders) \subseteq Ids(p.renders)
    /\ \A evt \in ToSet(cp.events) :
          /\ IsBinding(p, evt.device, cp.index)
          /\ evt.channel \in {None, cp.index}
          /\ evt.body = "ok"
          /\ NamesEmitter(evt.kind) => evt.emitter \in Ids(cp.renders)

\* Every instruction is in exactly one of the channel plans.
ChannelPlansPartition(p) ==
    /\ \A i, j \in DOMAIN p.channelPlans :
          /\ p.channelPlans[i].index = p.channelPlans[j].index => i = j
          /\ i # j => Ids(p.channelPlans[i].renders) \cap Ids(p.channelPlans[j].renders) = {}
    /\ p.channelPlans # <<>> =>
          Ids(p.renders) \subseteq UNION {Ids(cp.renders) : cp \in ToSet(p.channelPlans)}

ArmAcceptsTimeline(p) ==
    \A evt \in ToSet(p.timeline) :
        /\ \E c \in ToSet(p.channels) : c.device = evt.device
        /\ evt.channel # None =>
              evt.channel # BadChannel /\ IsBinding(p, evt.device, evt.channel)
        /\ evt.body = "ok"
        /\ NamesEmitter(evt.kind) => evt.emitter \in Ids(p.renders)

\* An unknown member passes only in a group whose peak is 0: none of a
\* validated scenario, whose amplitudes are positive.
ArmAcceptsMixGroup(p, group) ==
    /\ IsBinding(p, group.device, group.channel)
    /\ \A i, j \in DOMAIN group.members : group.members[i] = group.members[j] => i = j
    /\ ToSet(group.members) \subseteq Ids(p.renders)

ArmAccepts(p) == /\ p.renders # <<>>
                 /\ IdsDistinct(p.renders)
                 /\ \A cp \in ToSet(p.channelPlans) : ArmAcceptsChannelPlan(p, cp)
                 /\ ChannelPlansPartition(p)
                 /\ ArmAcceptsTimeline(p)
                 /\ ScheduleWindowsOk(p)
                 /\ \A group \in ToSet(p.mixGroups) : ArmAcceptsMixGroup(p, group)

-----------------------------------------------------------------------------
(* What a channel transmits: its mix groups, and the instructions in none. *)

\* Mutant: the first member of a group counts as mixed, the others not.
MixedIdsOfFirst(groups) == {group.members[1] : group \in ToSet(groups)}

MixedIds(groups) == UNION {ToSet(group.members) : group \in ToSet(groups)}

ScheduleOf(p, index) ==
    LET groups == IF Len(p.channels) = 1 THEN p.mixGroups ELSE GroupsOn(p, index)
        renders == RendersOn(p, index)
        solo == Keep(renders, {instr \in ToSet(renders) : instr.id \notin MixedIds(groups)})
        Entry(window, ids) == [start |-> window.start, end |-> window.end, ids |-> ids]
    IN  ByStart([i \in DOMAIN solo |-> Entry(RenderWindow(solo[i]), {solo[i].id})]
                \o [i \in DOMAIN groups |-> Entry(GroupWindow(groups[i]), ToSet(groups[i].members))])

-----------------------------------------------------------------------------
(* What run hands to the dispatcher. *)

\* Only PrintDigits digits of a time reach the key.
Printed(n) == RoundedTo(n, Unit(10, PrintDigits, n))

\* Mutant: the channel in the payload is overlooked.
EventChannelOfPlan(evt, default) == default

\* The channel an event tunes; of no account for the others.
EventChannel(evt, default) == IF evt.channel = None THEN default ELSE evt.channel

EventScheduleKey(evt, default) ==
    <<[evt EXCEPT !.time = Printed(@)], IF IsRf(evt.kind) THEN EventChannel(evt, default) ELSE None>>

\* What the callback of an event does, and when.
Scheduled(evt, default) ==
    [kind |-> evt.kind, time |-> evt.time, value |-> evt.value, emitter |-> evt.emitter,
     channel |-> IF IsRf(evt.kind) THEN EventChannel(evt, default) ELSE None]

\* An event whose key was seen is not scheduled again.
ScheduleOnce(calls) ==
    LET Key(i) == EventScheduleKey(calls[i].event, calls[i].default)
    IN  FlattenSeq([i \in DOMAIN calls |->
                      IF \E j \in 1 .. i - 1 : Key(j) = Key(i) THEN <<>>
                      ELSE <<Scheduled(calls[i].event, calls[i].default)>>])

\* The timeline first, but for what every channel plan repeats; then the
\* channel plans in turn.
MultiChannelCalls(p) ==
    LET own == Keep(p.timeline,
                    {evt \in ToSet(p.timeline) :
                       ~(IsRf(evt.kind) /\ evt.channel = None /\ p.channelPlans # <<>>)})
        Calls(events, default) == [i \in DOMAIN events |-> [event |-> events[i], default |-> default]]
        channels == ActiveChannels(p)
    IN  Calls(own, channels[1])
        \o FlattenSeq([i \in DOMAIN channels |->
                         Calls(ChannelPlanOf(p, channels[i]).events, channels[i])])

DispatcherEvents(p) ==
    IF Len(p.channels) = 1
    THEN [i \in DOMAIN p.timeline |-> Scheduled(p.timeline[i], p.channels[1].index)]
    ELSE ScheduleOnce(MultiChannelCalls(p))
=============================================================================
