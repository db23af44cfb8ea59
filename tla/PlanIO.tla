-------------------------------- MODULE PlanIO --------------------------------
(***************************************************************************)
(* plan_from_json (core/scheduler/src/plan_io.cpp): which saved plans are  *)
(* loaded again.  The scenario inside is validated, the parts of the plan  *)
(* are checked against it and against each other.  The JSON itself, which  *)
(* plan_to_json writes in full, is left out.                               *)
(***************************************************************************)
EXTENDS Validator, RuntimePlan

\* Mutant: the copy forgets the render windows.
ValidatePlanScheduleWindowsOfGroups(p) == ScheduleWindowsOfGroups(p)

\* The same rule as the runtime's, in a copy of its own.
ValidatePlanScheduleWindows(p) == ScheduleWindowsOk(p)

\* Channels are bound once, by number, and are the scenario's.
ImportAcceptsChannels(s, p) ==
    \A i, j \in DOMAIN p.channels :
        /\ p.channels[i].index = p.channels[j].index => i = j
        /\ IsBound(s, p.channels[i].device, p.channels[i].index)

ImportAcceptsTimeline(p) ==
    \A evt \in ToSet(p.timeline) :
        /\ evt.body = "ok"
        /\ NamesEmitter(evt.kind) => evt.emitter \in Ids(p.renders)
        /\ \E c \in ToSet(p.channels) : c.device = evt.device
        /\ evt.channel # None =>
              evt.channel # BadChannel /\ IsBinding(p, evt.device, evt.channel)

\* A channel plan has the id that the scenario gives its channel.
ImportAcceptsChannelPlan(s, p, cp) ==
    /\ cp.id # <<>>
    /\ cp.index \in ToSet(ActiveChannels(p))
    /\ \E c \in ToSet(EffectiveChannels(s)) :
          IsBinding(p, c.device, cp.index) /\ c.index = cp.index /\ c.id = cp.id
    /\ IdsDistinct(cp.renders)
    /\ Ids(cp.renders) \subseteq Ids(p.renders)
    /\ \A evt \in ToSet(cp.events) :
          /\ evt.body = "ok"
          /\ NamesEmitter(evt.kind) => evt.emitter \in Ids(cp.renders)
          /\ IsBinding(p, evt.device, cp.index)
          /\ evt.channel \in {None, cp.index}

ImportAcceptsMixGroup(p, group) ==
    /\ IsBinding(p, group.device, group.channel)
    /\ \A i, j \in DOMAIN group.members : group.members[i] = group.members[j] => i = j
    /\ ToSet(group.members) \subseteq Ids(p.renders)

ImportAccepts(s, p) ==
    /\ Validate(s)
    /\ IdsDistinct(p.renders)
    /\ ImportAcceptsChannels(s, p)
    /\ ImportAcceptsTimeline(p)
    /\ \A cp \in ToSet(p.channelPlans) : ImportAcceptsChannelPlan(s, p, cp)
    /\ ChannelPlansPartition(p)
    /\ \A group \in ToSet(p.mixGroups) : ImportAcceptsMixGroup(p, group)
    /\ ValidatePlanScheduleWindows(p)
=============================================================================
