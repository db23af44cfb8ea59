------------------------------- MODULE PlanFile -------------------------------
(***************************************************************************)
(* The files that a run leaves (core/scheduler/src/plan_io.cpp): what      *)
(* scenario_to_json and plan_to_json write, and the field by field reading *)
(* of plan_from_json.  For each structure that differs from the scenario   *)
(* document's there is a To and a From; an optional is written where it    *)
(* holds something.                                                        *)
(***************************************************************************)
EXTENDS ScenarioFile

\* Stricter than the parser: a bandwidth must be positive here.
ImportedRfTypes == [key \in DOMAIN RfTypes |->
                      IF key \in {"freq_hz", "rate_sps", "bandwidth_hz"} THEN "positive"
                      ELSE RfTypes[key]]

\* Mutant: the antenna is forgotten.
RfToJsonWithoutAntenna(rf) == WriteRecord(RfTypes, [key \in DOMAIN rf \ {"antenna"} |-> rf[key]])

RfToJson(rf) == WriteRecord(RfTypes, rf)
RfFromJson(value) == ReadRecord(ImportedRfTypes, RequiredOfRf, value)

\* Mutant: the power is forgotten.
WaveformToJsonWithoutPower(wf) ==
    [key \in DOMAIN wf \ {"target_power_dbm"} |->
        IF key = "params" THEN wf.params ELSE Text(wf[key])]

\* The parameters get an object of their own, which may hold no "type".
WaveformToJson(wf) ==
    [key \in DOMAIN wf |-> IF key \in {"id", "type"} THEN Text(wf[key])
                           ELSE IF key = "params" THEN wf.params ELSE Real(wf[key])]
ParamsFromJson(value) == IF value = Null THEN {EmptyObject}
                         ELSE IF IsObject(value) /\ ~Has(value, "type") THEN {value} ELSE {}
WaveformFromJson(value) ==
    {wf @@ [params |-> EmptyObject] :
        wf \in ReadObject({"id", "type", "target_power_dbm", "params"}, {"type"},
                          LAMBDA key, v : CASE key = "id" -> ReadText(v)
                                            [] key = "type" -> ReadWaveformType(v)
                                            [] key = "target_power_dbm" -> ReadDouble(v)
                                            [] key = "params" -> ParamsFromJson(v), value)}

\* Settings of which none is set leave the json value null.
ImpairmentsToJson(imp) == IF imp = EmptyObject THEN Null ELSE WriteRecord(ImpairmentTypes, imp)
ImpairmentsFromJson(value) == ParseImpairments(value)

PayloadFromJson(value) == IF value = Null THEN {EmptyObject} ELSE ParsePayload(value)

-----------------------------------------------------------------------------
(* The scenario. *)

DeviceToJson(dev) == [key \in DOMAIN dev |-> CASE key = "id" -> Text(dev.id)
                                               [] key = "channel" -> Whole(dev.channel)
                                               [] key = "rf" -> RfToJson(dev.rf)]
DeviceFromJson(value) ==
    ReadObject({"id", "channel", "rf"}, {"id", "rf"},
               LAMBDA key, v : CASE key = "id" -> ReadText(v)
                                 [] key = "channel" -> ReadScalar("uint32", v)
                                 [] key = "rf" -> RfFromJson(v), value)

EmitterTypes == [id |-> "text", device |-> "text", waveform_ref |-> "text", channel_id |-> "text",
                 mixing |-> "text", channel |-> "uint32",
                 start_after_sec |-> "nonNegative", duration_sec |-> "nonNegative"]
ImportedRepeatTypes == [count |-> "int", interval_sec |-> "nonNegative"]

\* Mutant: a repetition of one is not written.
EmitterToJsonOnce(em) ==
    [key \in {k \in DOMAIN em : k = "repeat" => em.repeat.count > 1} |->
        CASE key = "waveform" -> WaveformToJson(em.waveform)
          [] key = "repeat" -> WriteRecord(ImportedRepeatTypes, em.repeat)
          [] key = "impairments" -> ImpairmentsToJson(em.impairments)
          [] OTHER -> WriteScalar(EmitterTypes[key], em[key])]

EmitterToJson(em) ==
    [key \in DOMAIN em |-> CASE key = "waveform" -> WaveformToJson(em.waveform)
                             [] key = "repeat" -> WriteRecord(ImportedRepeatTypes, em.repeat)
                             [] key = "impairments" -> ImpairmentsToJson(em.impairments)
                             [] OTHER -> WriteScalar(EmitterTypes[key], em[key])]
EmitterFromJson(value) ==
    ReadObject(EmitterFields,
               {"id", "device", "channel", "start_after_sec", "duration_sec", "mixing"},
               LAMBDA key, v : CASE key = "waveform" -> WaveformFromJson(v)
                                 [] key = "impairments" -> ImpairmentsFromJson(v)
                                 [] key = "mixing" -> ReadOneOf({"additive", "none"}, v)
                                 [] key = "repeat" -> {r @@ RepeatDefaults :
                                                         r \in ReadRecord(ImportedRepeatTypes, {}, v)}
                                 [] OTHER -> ReadScalar(EmitterTypes[key], v), value)

ChannelToJson(c) == [id |-> Text(c.id), device |-> Text(c.device), index |-> Whole(c.index),
                     rf |-> RfToJson(c.rf)]
ChannelFromJson(value) ==
    ReadObject({"id", "device", "index", "rf"}, {"id", "device", "index", "rf"},
               LAMBDA key, v : CASE key \in {"id", "device"} -> ReadText(v)
                                 [] key = "index" -> ReadScalar("uint32", v)
                                 [] key = "rf" -> RfFromJson(v), value)

SyncGroupToJson(sg) == [id |-> Text(sg.id), mode |-> Text(sg.mode),
                        channels |-> WriteArray(Text, sg.channels)]
SyncGroupFromJson(value) ==
    {sg \in ParseSyncGroup(value) : sg.mode \in {"coherent", "independent"}}

EventToJson(evt) == [target_device |-> Text(evt.target_device), time_sec |-> Real(evt.time_sec),
                     type |-> Text(evt.type), payload |-> evt.payload]
EventFromJson(value) ==
    {evt @@ [payload |-> EmptyObject] :
        evt \in ReadObject({"target_device", "time_sec", "type", "payload"},
                           {"target_device", "time_sec", "type"},
                           LAMBDA key, v : CASE key \in {"target_device", "type"} -> ReadText(v)
                                             [] key = "time_sec" -> ReadScalar("nonNegative", v)
                                             [] key = "payload" -> PayloadFromJson(v), value)}

SectionToJson(key, x) ==
    CASE key = "metadata"    -> WriteRecord(MetadataTypes, x)
      [] key = "devices"     -> WriteArray(DeviceToJson, x)
      [] key = "waveforms"   -> WriteArray(WaveformToJson, x)
      [] key = "emitters"    -> WriteArray(EmitterToJson, x)
      [] key = "events"      -> WriteArray(EventToJson, x)
      [] key = "channels"    -> WriteArray(ChannelToJson, x)
      [] key = "sync_groups" -> WriteArray(SyncGroupToJson, x)
      [] key = "reporting"   -> WriteRecord(ReportingTypes, x)
      [] key = "run"         -> [mode |-> Text(x.mode)]

\* A list without members is not written.
ScenarioToJson(s) ==
    [key \in {k \in Sections : k \in Lists => s[k] # <<>>} |-> SectionToJson(key, s[key])]

SectionFromJson(key, v) ==
    CASE key = "metadata"    -> ReadRecord(MetadataTypes, {"name"}, v)
      [] key = "devices"     -> ReadArray(DeviceFromJson, v)
      [] key = "waveforms"   -> ReadArray(WaveformFromJson, v)
      [] key = "emitters"    -> ReadArray(EmitterFromJson, v)
      [] key = "events"      -> ReadArray(EventFromJson, v)
      [] key = "channels"    -> ReadArray(ChannelFromJson, v)
      [] key = "sync_groups" -> ReadArray(SyncGroupFromJson, v)
      [] key = "reporting"   -> ReadRecord(ReportingTypes, {"save_plan", "save_metrics"}, v)
      [] key = "run"         -> ReadObject({"mode"}, {"mode"},
                                    LAMBDA k, m : ReadOneOf({"replay", "realtime"}, m), v)

ScenarioFromJson(value) ==
    {s @@ ScenarioDefaults :
        s \in ReadObject(Sections, {"metadata", "devices", "emitters", "reporting", "run"},
                         SectionFromJson, value)}

-----------------------------------------------------------------------------
(* The plan. *)

TimelineEventTypes == {"EmitterStart", "EmitterStop", "GainChange", "FreqChange", "Marker",
                       "WaveformSwitch", "ImpairmentChange"}
TimelineEventToJson(evt) == [type |-> Text(evt.type), time_sec |-> Real(evt.time_sec),
                             target_id |-> Text(evt.target_id), payload |-> evt.payload]
TimelineEventFromJson(value) ==
    {evt @@ [payload |-> EmptyObject] :
        evt \in ReadObject({"type", "time_sec", "target_id", "payload"},
                           {"type", "time_sec", "target_id"},
                           LAMBDA key, v : CASE key = "type" -> ReadOneOf(TimelineEventTypes, v)
                                             [] key = "time_sec" -> ReadScalar("nonNegative", v)
                                             [] key = "target_id" -> ReadText(v)
                                             [] key = "payload" -> PayloadFromJson(v), value)}

InstructionTypes == [emitter_id |-> "text", start_sec |-> "nonNegative",
                     duration_sec |-> "positive", sample_rate |-> "positive",
                     resample_ratio |-> "positive"]
RenderInstructionToJson(ri) ==
    [key \in DOMAIN ri |-> CASE key = "waveform" -> WaveformToJson(ri.waveform)
                             [] key = "impairments" -> ImpairmentsToJson(ri.impairments)
                             [] OTHER -> WriteScalar(InstructionTypes[key], ri[key])]
RenderInstructionFromJson(value) ==
    ReadObject(DOMAIN InstructionTypes \cup {"waveform", "impairments"},
               {"emitter_id", "waveform", "start_sec", "duration_sec", "sample_rate"},
               LAMBDA key, v : CASE key = "waveform" -> WaveformFromJson(v)
                                 [] key = "impairments" -> ImpairmentsFromJson(v)
                                 [] OTHER -> ReadScalar(InstructionTypes[key], v), value)

EstimateTypes == [estimated_cpu_load |-> "nonNegative", peak_memory_bytes |-> "size",
                  min_inter_emitter_gap_sec |-> "nonNegative", timing_feasible |-> "bool"]
EstimateToJson(est) ==
    [key \in DOMAIN est |-> IF key = "warnings" THEN WriteArray(Text, est.warnings)
                            ELSE WriteScalar(EstimateTypes[key], est[key])]
EstimateFromJson(value) ==
    LET keys == DOMAIN EstimateTypes \cup {"warnings"}
    IN  ReadObject(keys, keys,
                   LAMBDA key, v : IF key = "warnings" THEN ReadArray(ReadText, v)
                                   ELSE ReadScalar(EstimateTypes[key], v), value)

Categories == {"Config", "Validation", "Planning", "Preparation", "Execution", "QualityWarning"}
ErrorToJson(err) == [key \in DOMAIN err |-> Text(err[key])]
ErrorFromJson(value) ==
    LET keys == {"category", "code", "message"}
    IN  ReadObject(keys, keys,
                   LAMBDA key, v : IF key = "category" THEN ReadOneOf(Categories, v)
                                   ELSE ReadScalar("nonEmpty", v), value)

BindingToJson(b) == [device_id |-> Text(b.device_id), channel_index |-> Whole(b.channel_index),
                     rf |-> RfToJson(b.rf)]
BindingFromJson(value) ==
    LET keys == {"device_id", "channel_index", "rf"}
    IN  ReadObject(keys, keys, LAMBDA key, v : CASE key = "device_id" -> ReadText(v)
                                                 [] key = "channel_index" -> ReadScalar("uint32", v)
                                                 [] key = "rf" -> RfFromJson(v), value)

MixGroupTypes == [device_id |-> "text", channel |-> "uint32", start_sec |-> "nonNegative",
                  duration_sec |-> "positive", estimated_peak_sum |-> "nonNegative"]
MixGroupToJson(mg) ==
    [key \in DOMAIN mg |-> IF key = "emitter_ids" THEN WriteArray(Text, mg.emitter_ids)
                           ELSE WriteScalar(MixGroupTypes[key], mg[key])]
MixGroupFromJson(value) ==
    LET keys == DOMAIN MixGroupTypes \cup {"emitter_ids"}
    IN  ReadObject(keys, keys,
                   LAMBDA key, v : IF key = "emitter_ids" THEN ReadArray(ReadText, v)
                                   ELSE ReadScalar(MixGroupTypes[key], v), value)

ChannelPlanToJson(cp) ==
    [channel_id |-> Text(cp.channel_id), channel_index |-> Whole(cp.channel_index),
     rf |-> RfToJson(cp.rf),
     render_instructions |-> WriteArray(RenderInstructionToJson, cp.render_instructions),
     events |-> WriteArray(TimelineEventToJson, cp.events),
     resource_estimate |-> EstimateToJson(cp.resource_estimate)]
ChannelPlanFromJson(value) ==
    LET keys == {"channel_id", "channel_index", "rf", "render_instructions", "events",
                 "resource_estimate"}
    IN  ReadObject(keys, keys,
                   LAMBDA key, v :
                      CASE key = "channel_id" -> ReadText(v)
                        [] key = "channel_index" -> ReadScalar("uint32", v)
                        [] key = "rf" -> RfFromJson(v)
                        [] key = "render_instructions" -> ReadArray(RenderInstructionFromJson, v)
                        [] key = "events" -> ReadArray(TimelineEventFromJson, v)
                        [] key = "resource_estimate" -> EstimateFromJson(v), value)

PlanKeys == {"normalized_scenario", "channels", "timeline", "render_instructions", "warnings",
             "estimated_duration_sec", "resource_estimate", "mix_groups", "channel_plans",
             "run_mode"}

\* Every list of a plan is written, the empty ones too.
PlanToJson(p) ==
    [normalized_scenario |-> ScenarioToJson(p.normalized_scenario),
     channels |-> WriteArray(BindingToJson, p.channels),
     timeline |-> WriteArray(TimelineEventToJson, p.timeline),
     render_instructions |-> WriteArray(RenderInstructionToJson, p.render_instructions),
     warnings |-> WriteArray(ErrorToJson, p.warnings),
     estimated_duration_sec |-> Real(p.estimated_duration_sec),
     resource_estimate |-> EstimateToJson(p.resource_estimate),
     mix_groups |-> WriteArray(MixGroupToJson, p.mix_groups),
     channel_plans |-> WriteArray(ChannelPlanToJson, p.channel_plans),
     run_mode |-> Text(p.run_mode)]

\* The fields of a plan, before its parts are checked against each other.
PlanFields(value) ==
    ReadObject(PlanKeys, PlanKeys,
               LAMBDA key, v :
                  CASE key = "normalized_scenario" -> ScenarioFromJson(v)
                    [] key = "channels" -> ReadArray(BindingFromJson, v)
                    [] key = "timeline" -> ReadArray(TimelineEventFromJson, v)
                    [] key = "render_instructions" -> ReadArray(RenderInstructionFromJson, v)
                    [] key = "warnings" -> ReadArray(ErrorFromJson, v)
                    [] key = "estimated_duration_sec" -> ReadScalar("nonNegative", v)
                    [] key = "resource_estimate" -> EstimateFromJson(v)
                    [] key = "mix_groups" -> ReadArray(MixGroupFromJson, v)
                    [] key = "channel_plans" -> ReadArray(ChannelPlanFromJson, v)
                    [] key = "run_mode" -> ReadOneOf({"replay", "realtime"}, v), value)

-----------------------------------------------------------------------------
\* What is in the file of a value: a number that no double holds is null.
RECURSIVE Dumped(_)
Dumped(value) == CASE Is("huge", value) -> Null
                   [] Is("array", value) -> Array([i \in DOMAIN value.array |-> Dumped(value.array[i])])
                   [] IsObject(value) -> [key \in DOMAIN value |-> Dumped(value[key])]
                   [] OTHER -> value
=============================================================================
