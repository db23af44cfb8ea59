------------------------------- MODULE Planner --------------------------------
(***************************************************************************)
(* scenario::plan (core/scheduler/src/planner.cpp): from a validated       *)
(* scenario to a plan                                                      *)
(*                                                                         *)
(*   channels      <<[device, index, rf]>>                                 *)
(*   timeline      <<event>>: the events of the scenario                   *)
(*   renders       <<[id, start, duration]>>: one per repetition           *)
(*   mixGroups     <<[device, channel, start, duration, members]>>         *)
(*   channelPlans  <<[id, index, renders, events]>>                        *)
(*                                                                         *)
(* The timeline is kept in the order of the scenario: who dispatches it    *)
(* sorts it by time.  The EmitterStart and EmitterStop entries, which are  *)
(* never dispatched, and the resource estimates are left out.              *)
(***************************************************************************)
EXTENDS Scenario

CONSTANT MaxDuration   \* the longest duration whose samples a size_t holds

ASSUME PlannerAssumption == MaxDuration \in Nat

\* By channel_id, else by device and number; None where nothing matches.  At
\* most one channel of a validated scenario does.
ChannelFor(s, em) ==
    LET matches == {c \in ToSet(EffectiveChannels(s)) :
                      IF em.channelId # None THEN c.id = em.channelId
                      ELSE c.device = em.device /\ c.index = em.channel}
    IN  IF matches = {} THEN None ELSE CHOOSE c \in matches : TRUE

PlannerKey(s, em) == LET c == ChannelFor(s, em)
                     IN  IF c = None THEN <<em.device, em.channel>> ELSE <<c.device, c.index>>

\* Mutant: every repetition keeps the id of its emitter.
InstructionIdOfEmitter(em, r) == em.id

\* The id of the r-th instruction of an emitter.
InstructionId(em, r) == IF em.count > 1 THEN Append(em.id, r - 1) ELSE em.id

Instructions(em) ==
    [r \in DOMAIN WindowsOf(em) |-> [id |-> InstructionId(em, r),
                                     start |-> WindowsOf(em)[r].start,
                                     duration |-> em.duration]]

-----------------------------------------------------------------------------
\* The first overlap of two emitters that may not be mixed ends the planning.
HasUnschedulableOverlap(s) ==
    \E i, j \in DOMAIN s.emitters :
        LET a == s.emitters[i]
            b == s.emitters[j]
        IN  /\ i < j /\ PlannerKey(s, a) = PlannerKey(s, b)
            /\ ~(a.additive /\ b.additive)
            /\ \E v \in ToSet(WindowsOf(a)), w \in ToSet(WindowsOf(b)) : Overlap(v, w)

\* An empty string passes here.
PlannableEvent(s, evt) ==
    /\ evt.time >= 0
    /\ \E dev \in ToSet(s.devices) : dev.id = evt.device
    /\ IF IsRf(evt.kind) THEN evt.body = "ok" ELSE evt.body # "bad"
    /\ NamesEmitter(evt.kind) => \E em \in ToSet(s.emitters) : em.id = evt.emitter
    /\ IsRf(evt.kind) /\ evt.channel # None =>
          evt.channel # BadChannel /\ IsBound(s, evt.device, evt.channel)

PlannableEmitter(s, em) ==
    /\ \E dev \in ToSet(s.devices) : dev.id = em.device
    /\ RepeatOk(em)
    /\ em.start >= 0 /\ em.duration \in 1..MaxDuration
    /\ LET c == ChannelFor(s, em)
       IN  IF c # None THEN c.rf # "invalid"
           ELSE \A dev \in ToSet(s.devices) : dev.id = em.device => dev.rf # "invalid"

Plannable(s) == /\ s.emitters # <<>>
                /\ \A evt \in ToSet(s.events) : PlannableEvent(s, evt)
                /\ ~HasUnschedulableOverlap(s)
                /\ \A em \in ToSet(s.emitters) : PlannableEmitter(s, em)

-----------------------------------------------------------------------------
(* Mix groups: the additive windows of a channel, swept in the order of their start. *)

Intervals(em) == [r \in DOMAIN WindowsOf(em) |-> [id |-> InstructionId(em, r),
                                                  start |-> WindowsOf(em)[r].start,
                                                  end |-> WindowsOf(em)[r].end]]

MixIntervals(s, key) ==
    FlattenSeq([i \in DOMAIN s.emitters |->
        LET em == s.emitters[i]
        IN  IF em.additive /\ PlannerKey(s, em) = key THEN Intervals(em) ELSE <<>>])

\* A group of one is nothing to mix.
CloseGroup(sweep) ==
    IF Len(sweep.group) < 2 THEN sweep.groups
    ELSE Append(sweep.groups, [start |-> sweep.start,
                               duration |-> Minus(sweep.end, sweep.start),
                               members |-> sweep.group])

OpenGroup(groups, interval) ==
    [groups |-> groups, group |-> <<interval.id>>, start |-> interval.start, end |-> interval.end]

\* The end of a group is the latest of its members' ends.
Sweep(sweep, interval) ==
    IF interval.start < sweep.end
    THEN [sweep EXCEPT !.group = Append(@, interval.id),
                       !.end = IF interval.end > @ THEN interval.end ELSE @]
    ELSE OpenGroup(CloseGroup(sweep), interval)

SweepOf(sorted) ==
    LET sweep[k \in 1..Len(sorted)] == IF k = 1 THEN OpenGroup(<<>>, sorted[1])
                                       ELSE Sweep(sweep[k - 1], sorted[k])
    IN  sweep[Len(sorted)]

\* std::sort: in which order equal starts come changes no group.
MixGroupsOn(s, key) ==
    LET sorted == ByStart(MixIntervals(s, key))
    IN  IF sorted = <<>> THEN <<>> ELSE CloseGroup(SweepOf(sorted))

MixGroups(s) ==
    LET keys == {PlannerKey(s, em) : em \in ToSet(s.emitters)}
        OfKey(key) == LET groups == MixGroupsOn(s, key)
                      IN  [i \in DOMAIN groups |->
                             [device |-> key[1], channel |-> key[2], start |-> groups[i].start,
                              duration |-> groups[i].duration, members |-> groups[i].members]]
    IN  FlattenSeq(SetToSeq({OfKey(key) : key \in keys}))

-----------------------------------------------------------------------------
\* Where a later emitter gives an id again, its channel counts; an emitter
\* without a channel has the empty channel id.
ChannelIdOf(s, id) ==
    LET owners == {i \in DOMAIN s.emitters :
                     \E r \in 1..s.emitters[i].count : InstructionId(s.emitters[i], r) = id}
        c == ChannelFor(s, s.emitters[Max(owners)])
    IN  IF c = None THEN <<>> ELSE c.id

\* An event without a channel goes to every channel of its device.
ReachesChannel(evt, c) == /\ evt.device = c.device
                          /\ evt.channel \in {None, BadChannel, c.index}

PlanOf(s) ==
    LET renders == FlattenSeq([i \in DOMAIN s.emitters |-> Instructions(s.emitters[i])])
        channels == EffectiveChannels(s)
    IN  [channels |-> [i \in DOMAIN channels |->
                         [device |-> channels[i].device, index |-> channels[i].index,
                          rf |-> channels[i].rf]],
         timeline |-> s.events,
         renders |-> renders,
         mixGroups |-> MixGroups(s),
         channelPlans |-> [i \in DOMAIN channels |->
            [id |-> channels[i].id,
             index |-> channels[i].index,
             renders |-> Keep(renders, {instr \in ToSet(renders) :
                                          ChannelIdOf(s, instr.id) = channels[i].id}),
             events |-> Keep(s.events, {evt \in ToSet(s.events) : ReachesChannel(evt, channels[i])})]]]
=============================================================================
