----------------------------- MODULE DocumentPlan -----------------------------
(***************************************************************************)
(* validate and plan (core/scheduler/src/validator.cpp, planner.cpp) on    *)
(* whole documents.  What Validator and Planner say of identifiers,        *)
(* channels and times is taken from them, on the abstraction of a scenario *)
(* that they read; here are the rules on the other fields, and the fields  *)
(* of a plan.  Times are seconds and rates are samples per second.         *)
(***************************************************************************)
EXTENDS PlanFile, Planner, Validator

BytesPerSample == 8

\* Planner knows no rates: its bound is that of one sample per second.
ASSUME DocumentPlanAssumption == MaxDuration = MaxSize \div BytesPerSample

Field(record, key, otherwise) == IF Has(record, key) THEN record[key] ELSE otherwise

\* What the payload of each type of event must hold.  A marker's name and the
\* flag of an impairment may be missing.
PayloadTypes == [retune |-> [freq_hz |-> "positive"],
                 gain_change |-> [gain_db |-> "double"],
                 marker |-> [name |-> "nonEmpty"],
                 waveform_switch |-> [emitter_id |-> "nonEmpty", new_waveform |-> "nonEmpty"],
                 impairment_change |-> [emitter_id |-> "nonEmpty", impairment |-> "nonEmpty",
                                        enabled |-> "bool"]]
OptionalOfPayload == {"name", "enabled"}
Loosely == [positive |-> "double", nonEmpty |-> "text", double |-> "double", bool |-> "bool"]

\* "empty": the types are right, the values are not.
EventBody(kind, payload) ==
    IF kind \notin DOMAIN PayloadTypes THEN "bad"
    ELSE LET types == PayloadTypes[kind]
             present == DOMAIN types \cap DOMAIN payload
         IN  IF \/ \E key \in DOMAIN types \ DOMAIN payload : key \notin OptionalOfPayload
                \/ \E key \in present : ReadScalar(Loosely[types[key]], payload[key]) = {}
             THEN "bad"
             ELSE IF \E key \in present : ReadScalar(types[key], payload[key]) = {}
             THEN "empty" ELSE "ok"

PayloadChannel(payload) ==
    IF ~Has(payload, "channel") THEN None
    ELSE IF ReadScalar("uint32", payload["channel"]) = {} THEN BadChannel
    ELSE payload["channel"].int

-----------------------------------------------------------------------------
(* The scenario as Scenario.tla describes it. *)

NameOf(text) == IF text = "" THEN <<>> ELSE <<text>>
PayloadName(payload, key) ==
    IF Has(payload, key) /\ ReadText(payload[key]) # {} THEN NameOf(payload[key].text) ELSE None
RfClass(rf) == IF rf.freq_hz > 0 /\ rf.rate_sps > 0 THEN "ok" ELSE "invalid"

AbstractEmitter(em) ==
    LET repeat == Field(em, "repeat", RepeatDefaults)
    IN  [id |-> NameOf(em.id), device |-> NameOf(em.device), channel |-> em.channel,
         channelId |-> IF Has(em, "channel_id") THEN NameOf(em.channel_id) ELSE None,
         start |-> em.start_after_sec, duration |-> em.duration_sec,
         additive |-> em.mixing = "additive",
         count |-> repeat.count, interval |-> repeat.interval_sec]

AbstractEvent(evt) ==
    [kind |-> evt.type, device |-> NameOf(evt.target_device), time |-> evt.time_sec,
     channel |-> PayloadChannel(evt.payload), emitter |-> PayloadName(evt.payload, "emitter_id"),
     value |-> None, body |-> EventBody(evt.type, evt.payload)]

Abstract(s) ==
    [devices |-> [i \in DOMAIN s.devices |->
        [id |-> NameOf(s.devices[i].id), channel |-> Field(s.devices[i], "channel", None),
         rf |-> RfClass(s.devices[i].rf)]],
     channels |-> [i \in DOMAIN s.channels |->
        [id |-> NameOf(s.channels[i].id), device |-> NameOf(s.channels[i].device),
         index |-> s.channels[i].index, rf |-> RfClass(s.channels[i].rf)]],
     emitters |-> [i \in DOMAIN s.emitters |-> AbstractEmitter(s.emitters[i])],
     events |-> [i \in DOMAIN s.events |-> AbstractEvent(s.events[i])]]

-----------------------------------------------------------------------------
(* The rules of validate that Validator leaves out. *)

Amplitude(wf) == IF Has(wf.params, "amplitude") /\ IsNumber(wf.params["amplitude"])
                 THEN NumberOf(wf.params["amplitude"]) ELSE 0

\* A number in (0, 1], which is 1 where numbers are whole.
AmplitudeOk(wf) == Has(wf.params, "amplitude") => Amplitude(wf) = 1

WaveformIds(s) == {wf.id : wf \in {w \in ToSet(s.waveforms) : Has(w, "id")}}

WaveformsOk(s) ==
    /\ \A wf \in ToSet(s.waveforms) : AmplitudeOk(wf)
    /\ "" \notin WaveformIds(s)
    /\ \A id \in WaveformIds(s) : Cardinality(WaveformIndex(s, id)) = 1

EmitterWaveformOk(s, em) ==
    /\ Has(em, "waveform") # Has(em, "waveform_ref")
    /\ Has(em, "waveform_ref") => em.waveform_ref \in WaveformIds(s)
    /\ Has(em, "waveform") => AmplitudeOk(em.waveform)

\* Coherent channels are of one device and one rate.
SyncGroupOk(s, sg) ==
    LET members == {c \in ToSet(s.channels) : c.id \in ToSet(sg.channels)}
    IN  /\ sg.channels # <<>>
        /\ sg.mode \in {"coherent", "independent"}
        /\ ToSet(sg.channels) \subseteq {c.id : c \in ToSet(s.channels)}
        /\ Cardinality(ToSet(sg.channels)) = Len(sg.channels)
        /\ sg.mode = "coherent" =>
              \A c, other \in members : c.device = other.device /\ c.rf.rate_sps = other.rf.rate_sps

SyncGroupsOk(s) ==
    /\ \A sg \in ToSet(s.sync_groups) : sg.id # "" /\ SyncGroupOk(s, sg)
    /\ Cardinality({sg.id : sg \in ToSet(s.sync_groups)}) = Len(s.sync_groups)

ValidateDocument(s) ==
    /\ s.metadata.name # ""
    /\ WaveformsOk(s)
    /\ \A em \in ToSet(s.emitters) : EmitterWaveformOk(s, em)
    /\ SyncGroupsOk(s)
    /\ Validate(Abstract(s))

-----------------------------------------------------------------------------
(* The fields of a plan. *)

\* channel_defs, or one channel per device: those of EffectiveChannels, in
\* the same order.
DocumentChannels(s) ==
    IF s.channels # <<>> THEN s.channels
    ELSE [i \in DOMAIN s.devices |->
            LET dev == s.devices[i]
                index == Field(dev, "channel", 0)
            IN  [id |-> dev.id \o "_ch" \o ToString(index), device |-> dev.id, index |-> index,
                 rf |-> dev.rf]]

DocumentChannelFor(s, em) ==
    {c \in ToSet(DocumentChannels(s)) :
        IF Has(em, "channel_id") THEN c.id = em.channel_id
        ELSE c.device = em.device /\ c.index = em.channel}

\* The text of an id that Planner makes of parts.
TextOf(id) == IF Len(id) = 1 THEN id[1] ELSE id[1] \o "_" \o ToString(id[2])

RepetitionsOf(em) ==
    LET windows == WindowsOf(AbstractEmitter(em))
    IN  [r \in DOMAIN windows |->
            windows[r] @@ [id |-> TextOf(InstructionId(AbstractEmitter(em), r)), emitter |-> em]]

AllRepetitions(s) == FlattenSeq([i \in DOMAIN s.emitters |-> RepetitionsOf(s.emitters[i])])

\* A waveform that is still a reference is copied.
WaveformOf(s, em) == IF Has(em, "waveform") THEN em.waveform
                     ELSE s.waveforms[LastOf(WaveformIndex(s, em.waveform_ref))]

InstructionOf(s, repetition) ==
    LET em == repetition.emitter
        own == DocumentChannelFor(s, em)
        device == CHOOSE dev \in ToSet(s.devices) : dev.id = em.device
        rf == IF own = {} THEN device.rf ELSE (CHOOSE c \in own : TRUE).rf
    IN  [emitter_id |-> repetition.id, waveform |-> WaveformOf(s, em),
         start_sec |-> repetition.start, duration_sec |-> em.duration_sec,
         sample_rate |-> rf.rate_sps]
        @@ [key \in {"impairments"} \cap DOMAIN em |-> em.impairments]

TimelineTypes == [retune |-> "FreqChange", gain_change |-> "GainChange", marker |-> "Marker",
                  waveform_switch |-> "WaveformSwitch", impairment_change |-> "ImpairmentChange"]
TimelineEventOf(evt) == [type |-> TimelineTypes[evt.type], time_sec |-> evt.time_sec,
                         target_id |-> evt.target_device, payload |-> evt.payload]

StartEvent(s, repetition) ==
    LET em == repetition.emitter
        own == DocumentChannelFor(s, em)
        c == CHOOSE x \in own : TRUE
    IN  [type |-> "EmitterStart", time_sec |-> repetition.start, target_id |-> repetition.id,
         payload |-> IF own = {} THEN [device_id |-> Text(em.device), channel |-> Whole(em.channel)]
                     ELSE [device_id |-> Text(c.device), channel |-> Whole(c.index),
                           channel_id |-> Text(c.id)]]
StopEvent(repetition) == [type |-> "EmitterStop", time_sec |-> repetition.end,
                          target_id |-> repetition.id, payload |-> EmptyObject]

\* By time; which of two equal times comes first is of no account here.
TimelineOf(s) ==
    LET repetitions == AllRepetitions(s)
    IN  SortSeq([i \in DOMAIN s.events |-> TimelineEventOf(s.events[i])]
                \o FlattenSeq([i \in DOMAIN repetitions |->
                                 <<StartEvent(s, repetitions[i]), StopEvent(repetitions[i])>>]),
                LAMBDA a, b : a.time_sec < b.time_sec)

SumOf(seq) == FoldLeft(LAMBDA a, b : a + b, 0, seq)
LatestOf(ends) == IF ends = {} THEN 0 ELSE Max(ends)

MixGroupOf(s, group) ==
    LET ids == [i \in DOMAIN group.members |-> TextOf(group.members[i])]
        repetitions == AllRepetitions(s)
        AmplitudeOf(id) == LET r == CHOOSE i \in DOMAIN repetitions : repetitions[i].id = id
                           IN  Amplitude(WaveformOf(s, repetitions[r].emitter))
    IN  [device_id |-> TextOf(group.device), channel |-> group.channel,
         start_sec |-> group.start, duration_sec |-> group.duration, emitter_ids |-> ids,
         estimated_peak_sum |-> SumOf([i \in DOMAIN ids |-> AmplitudeOf(ids[i])])]

-----------------------------------------------------------------------------
(* The resource estimates; a load is rounded down, and a gap of less than a *)
(* second is none.                                                          *)

\* complexity_factor, twice.
ComplexityTwice(type) == CASE type = "chirp" -> 3
                           [] type \in {"am", "fm", "pm", "ask", "fsk"} -> 6
                           [] type = "multi_tone" -> 4
                           [] OTHER -> 2

SamplesOf(ri) == ri.sample_rate * ri.duration_sec
BytesOf(ri) == BytesPerSample * SamplesOf(ri)

\* The sum stays at the largest size_t.
PeakMemory(renders) == Min({MaxSize, SumOf([i \in DOMAIN renders |-> BytesOf(renders[i])])})

\* Between neighbours in the order of their starts.
GapsOf(windows) ==
    LET sorted == SortSeq(windows, LAMBDA a, b : a.start < b.start
                                                 \/ (a.start = b.start /\ a.end < b.end))
    IN  {sorted[i].start - sorted[i - 1].end : i \in 2..Len(sorted)} \cap Nat

EstimateOf(renders, gaps, rate, duration) ==
    LET work == SumOf([i \in DOMAIN renders |->
                         SamplesOf(renders[i]) * ComplexityTwice(renders[i].waveform.type)])
        load == IF rate * duration = 0 THEN 0 ELSE work \div (2 * rate * duration)
        overloaded == rate * duration > 0 /\ work > 2 * rate * duration
        gap == IF gaps = {} THEN 0 ELSE Min(gaps)
        tight == Len(renders) > 1 /\ gap = 0
    IN  [estimated_cpu_load |-> load,
         peak_memory_bytes |-> PeakMemory(renders),
         min_inter_emitter_gap_sec |-> gap,
         timing_feasible |-> ~tight /\ ~overloaded,
         warnings |-> (IF tight THEN <<"gap">> ELSE <<>>) \o (IF overloaded THEN <<"load">> ELSE <<>>)]

\* The windows of a channel; those of a repeated emitter, whose instructions
\* have other ids than it has, are missed.
EmitterWindowsOn(s, key) ==
    SelectSeq(AllRepetitions(s),
              LAMBDA r : /\ \E em \in ToSet(s.emitters) : em.id = r.id
                         /\ PlannerKey(Abstract(s), AbstractEmitter(r.emitter)) = key)

WholeEstimate(s, renders) ==
    LET keys == {PlannerKey(Abstract(s), AbstractEmitter(em)) : em \in ToSet(s.emitters)}
    IN  EstimateOf(renders,
                   UNION {GapsOf(EmitterWindowsOn(s, key)) : key \in keys},
                   Max({c.rf.rate_sps : c \in ToSet(DocumentChannels(s))}),
                   LatestOf({r.end : r \in ToSet(AllRepetitions(s))}))

-----------------------------------------------------------------------------
\* The emitters' own events go to their channel, the others as ReachesChannel says.
ReachesDocumentChannel(s, evt, c) ==
    IF evt.type \in {"EmitterStart", "EmitterStop"}
    THEN \E r \in ToSet(AllRepetitions(s)) :
            r.id = evt.target_id /\ c \in DocumentChannelFor(s, r.emitter)
    ELSE evt.target_id = c.device /\ PayloadChannel(evt.payload) \in {None, BadChannel, c.index}

DocumentChannelPlan(s, c) ==
    LET mine == SelectSeq(AllRepetitions(s), LAMBDA r : c \in DocumentChannelFor(s, r.emitter))
        renders == [i \in DOMAIN mine |-> InstructionOf(s, mine[i])]
    IN  [channel_id |-> c.id, channel_index |-> c.index, rf |-> c.rf,
         render_instructions |-> renders,
         events |-> SelectSeq(TimelineOf(s), LAMBDA evt : ReachesDocumentChannel(s, evt, c)),
         resource_estimate |-> EstimateOf(renders, GapsOf(mine), c.rf.rate_sps,
                                          LatestOf({r.end : r \in ToSet(mine)}))]

\* Planner's rules, and every repetition has samples that a size_t can count.
PlannableDocument(s) ==
    /\ Plannable(Abstract(s))
    /\ \A r \in ToSet(AllRepetitions(s)) : BytesOf(InstructionOf(s, r)) <= MaxSize

ZeroStartWarning == [category |-> "QualityWarning", code |-> "W_PLAN_ZERO_START",
                     message |-> "starts at time 0"]

DocumentPlanOf(s) ==
    LET repetitions == AllRepetitions(s)
        renders == [i \in DOMAIN repetitions |-> InstructionOf(s, repetitions[i])]
        channels == DocumentChannels(s)
        groups == MixGroups(Abstract(s))
        early == SelectSeq(repetitions, LAMBDA r : r.start = 0)
    IN  [normalized_scenario |-> s,
         channels |-> [i \in DOMAIN channels |->
            [device_id |-> channels[i].device, channel_index |-> channels[i].index,
             rf |-> channels[i].rf]],
         timeline |-> TimelineOf(s),
         render_instructions |-> renders,
         warnings |-> [i \in DOMAIN early |-> ZeroStartWarning],
         estimated_duration_sec |-> LatestOf({r.end : r \in ToSet(repetitions)}),
         resource_estimate |-> WholeEstimate(s, renders),
         mix_groups |-> [i \in DOMAIN groups |-> MixGroupOf(s, groups[i])],
         channel_plans |-> [i \in DOMAIN channels |-> DocumentChannelPlan(s, channels[i])],
         run_mode |-> s.run.mode]

-----------------------------------------------------------------------------
\* The payload of a timeline event, checked as the scenario's is.
KindOf(type) == CHOOSE kind \in DOMAIN TimelineTypes : TimelineTypes[kind] = type
TimelinePayloadOk(evt) ==
    evt.type \notin {"EmitterStart", "EmitterStop"} =>
        EventBody(KindOf(evt.type), evt.payload) = "ok"

\* plan_from_json up to the checks of a plan's parts against each other, which
\* are PlanIO's: the plan that it gives, if any.
PlanFromJson(value) ==
    {p \in PlanFields(value) :
        /\ ValidateDocument(p.normalized_scenario)
        /\ \A evt \in ToSet(p.timeline) : TimelinePayloadOk(evt)
        /\ \A cp \in ToSet(p.channel_plans) : \A evt \in ToSet(cp.events) : TimelinePayloadOk(evt)}
=============================================================================
