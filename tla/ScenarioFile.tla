----------------------------- MODULE ScenarioFile -----------------------------
(***************************************************************************)
(* The scenario parser (core/scheduler/src/parser.cpp): from a JSON or a   *)
(* YAML document to the Scenario in memory.  A structure in memory is a    *)
(* function of its fields, without those optionals that hold nothing; a    *)
(* payload that is null, which the code always treats as one without keys, *)
(* is the empty object.                                                    *)
(***************************************************************************)
EXTENDS Json, TLC

\* What a document spells for each type of waveform (waveform_type.cpp): any
\* mix of cases and separators of the canonical name, and some aliases.
WaveformTypes == {"cw", "chirp", "noise", "bpsk", "qpsk", "8psk", "qam16", "qam64", "apsk16",
                  "apsk32", "multi_tone", "file", "pulse", "ask", "fsk", "am", "fm", "pm", "ofdm"}
Aliases == ("CW" :> "cw") @@ ("MultiTone" :> "multi_tone") @@ ("psk8" :> "8psk")
           @@ ("16qam" :> "qam16") @@ ("64qam" :> "qam64") @@ ("16apsk" :> "apsk16")
           @@ ("32apsk" :> "apsk32")
ReadWaveformType(value) ==
    {IF name \in DOMAIN Aliases THEN Aliases[name] ELSE name :
        name \in {n \in ReadText(value) : n \in WaveformTypes \cup DOMAIN Aliases}}

RfTypes == [freq_hz |-> "double", rate_sps |-> "double", gain_db |-> "double",
            bandwidth_hz |-> "double", antenna |-> "text"]
RequiredOfRf == {"freq_hz", "rate_sps", "gain_db"}

ImpairmentTypes ==
    [key \in {"phase_noise_psd_shape", "fading_type", "pa_model"} |-> "text"]
    @@ [key \in {"cfo_hz", "phase_offset_rad", "iq_gain_imbalance_db", "iq_phase_imbalance_rad",
                 "dc_offset_i", "dc_offset_q", "awgn_power", "amplitude_ripple_db",
                 "amplitude_ripple_freq_hz", "delay_sec", "burst_dropout_rate",
                 "burst_dropout_mean_burst_sec", "phase_noise_bandwidth_hz",
                 "phase_noise_magnitude_rad", "multipath_delay_samples", "multipath_amplitude",
                 "fading_doppler_hz", "fading_k_factor", "pa_saturation", "pa_smoothness",
                 "pa_phase_shift"} |-> "double"]

ParseRf(value) == ReadRecord(RfTypes, RequiredOfRf, value)
ParseImpairments(value) == ReadRecord(ImpairmentTypes, {}, value)

-----------------------------------------------------------------------------
(* One operator per section of the document. *)

ParseDevice(value) ==
    ReadObject({"id", "channel", "rf"}, {"id", "rf"},
               LAMBDA key, v : CASE key = "id" -> ReadText(v)
                                 [] key = "channel" -> ReadScalar("uint32", v)
                                 [] key = "rf" -> ParseRf(v), value)

\* The parameters are what the other fields leave, whatever they are.
ParseWaveform(value) ==
    LET fields == ReadObject({"id", "type", "target_power_dbm"}, {"type"},
                             LAMBDA key, v : CASE key = "id" -> ReadText(v)
                                               [] key = "type" -> ReadWaveformType(v)
                                               [] key = "target_power_dbm" -> ReadDouble(v), value)
    IN  {wf @@ [params |-> [key \in DOMAIN value \ {"id", "type", "target_power_dbm"} |-> value[key]]] :
            wf \in fields}

ReadOneOf(names, value) == ReadText(value) \cap names

EmitterDefaults == [channel |-> 0, start_after_sec |-> 0, duration_sec |-> 0, mixing |-> "none"]
RepeatDefaults == [count |-> 1, interval_sec |-> 0]

ParseRepeat(value) ==
    {r @@ RepeatDefaults : r \in ReadRecord([count |-> "int", interval_sec |-> "double"], {}, value)}

ParseEmitterField(key, v) ==
    CASE key \in {"id", "device", "waveform_ref", "channel_id"} -> ReadText(v)
      [] key = "channel" -> ReadScalar("uint32", v)
      [] key \in {"start_after_sec", "duration_sec"} -> ReadDouble(v)
      [] key = "waveform" -> ParseWaveform(v)
      [] key = "impairments" -> ParseImpairments(v)
      [] key = "mixing" -> ReadOneOf({"additive", "none"}, v)
      [] key = "repeat" -> ParseRepeat(v)
EmitterFields == {"id", "device", "channel", "start_after_sec", "duration_sec", "waveform",
                  "waveform_ref", "impairments", "mixing", "repeat", "channel_id"}

ParseEmitter(value) ==
    {em @@ EmitterDefaults :
        em \in ReadObject(EmitterFields, {"id", "device"}, ParseEmitterField, value)}

ParsePayload(value) == IF IsObject(value) THEN {value} ELSE {}

ParseEvent(value) ==
    {evt @@ [time_sec |-> 0, payload |-> EmptyObject] :
        evt \in ReadObject({"target_device", "time_sec", "type", "payload"}, {"target_device", "type"},
                           LAMBDA key, v : CASE key \in {"target_device", "type"} -> ReadText(v)
                                             [] key = "time_sec" -> ReadDouble(v)
                                             [] key = "payload" -> ParsePayload(v), value)}

ParseChannel(value) ==
    ReadObject({"id", "device", "index", "rf"}, {"id", "device", "index", "rf"},
               LAMBDA key, v : CASE key \in {"id", "device"} -> ReadText(v)
                                 [] key = "index" -> ReadScalar("uint32", v)
                                 [] key = "rf" -> ParseRf(v), value)

ParseSyncGroup(value) ==
    ReadObject({"id", "mode", "channels"}, {"id", "mode", "channels"},
               LAMBDA key, v : IF key = "channels" THEN ReadArray(ReadText, v) ELSE ReadText(v), value)

MetadataTypes == [name |-> "text", description |-> "text", version |-> "text"]
ReportingTypes == [save_plan |-> "bool", save_metrics |-> "bool"]
ReportingDefaults == [save_plan |-> FALSE, save_metrics |-> FALSE]

ParseSection(key, v) ==
    CASE key = "metadata"    -> {m @@ [name |-> ""] : m \in ReadRecord(MetadataTypes, {}, v)}
      [] key = "devices"     -> ReadArray(ParseDevice, v)
      [] key = "waveforms"   -> ReadArray(ParseWaveform, v)
      [] key = "emitters"    -> ReadArray(ParseEmitter, v)
      [] key = "events"      -> ReadArray(ParseEvent, v)
      [] key = "channels"    -> ReadArray(ParseChannel, v)
      [] key = "sync_groups" -> ReadArray(ParseSyncGroup, v)
      [] key = "reporting"   -> {r @@ ReportingDefaults : r \in ReadRecord(ReportingTypes, {}, v)}
      [] key = "run"         -> {r @@ [mode |-> "realtime"] :
                                    r \in ReadObject({"mode"}, {},
                                        LAMBDA k, m : ReadOneOf({"replay", "realtime"}, m), v)}
Lists == {"devices", "waveforms", "emitters", "events", "channels", "sync_groups"}
Sections == Lists \cup {"metadata", "reporting", "run"}
ScenarioDefaults == [key \in Lists |-> <<>>] @@ [metadata |-> [name |-> ""],
                     reporting |-> ReportingDefaults, run |-> [mode |-> "realtime"]]

\* One field that cannot be read refuses the document.
ParseScenario(value) ==
    {s @@ ScenarioDefaults : s \in ReadObject(Sections, {}, ParseSection, value)}

-----------------------------------------------------------------------------
(* The two formats. *)

\* The values a value holds, itself included.
RECURSIVE Holds(_, _)
Holds(kind, value) ==
    \/ Is(kind, value)
    \/ Is("array", value) /\ \E i \in DOMAIN value.array : Holds(kind, value.array[i])
    \/ IsObject(value) /\ \E key \in DOMAIN value : Holds(kind, value[key])

\* The texts of a document that read as a number.
Numerals == "5" :> 5

\* Mutant: the nodes keep the types that YAML gives them.
FromYamlAsTyped(value) == value

\* yaml_node_to_json: a scalar becomes an int if it reads as one, else a double,
\* else a string; a quoted numeral is a number, and a boolean is a string.
RECURSIVE FromYaml(_)
FromYaml(value) ==
    CASE Is("bool", value) -> Text(IF value.bool THEN "true" ELSE "false")
      [] Is("text", value) /\ value.text \in DOMAIN Numerals -> FromYaml(Whole(Numerals[value.text]))
      [] Is("int", value) /\ value.int > MaxInt -> Real(value.int)
      [] Is("array", value) -> Array([i \in DOMAIN value.array |-> FromYaml(value.array[i])])
      [] IsObject(value) -> [key \in DOMAIN value |-> FromYaml(value[key])]
      [] OTHER -> value

\* json::parse throws out_of_range for a number too large for a double; only
\* its parse_error is caught.
ParseThrows(format, document) == format = "json" /\ Holds("huge", document)

\* parse_scenario: a root that is not an object is refused in either format.
ParseFile(format, document) ==
    ParseScenario(IF format = "yaml" THEN FromYaml(document) ELSE document)

-----------------------------------------------------------------------------
\* The waveforms that have this id; the last of them counts.
WaveformIndex(s, ref) == {i \in DOMAIN s.waveforms : /\ Has(s.waveforms[i], "id")
                                                     /\ s.waveforms[i].id = ref}
LastOf(indices) == CHOOSE i \in indices : \A j \in indices : j <= i
HasRef(em) == Has(em, "waveform_ref") /\ ~Has(em, "waveform")

\* resolve_waveform_refs: a reference gives way to a copy of the waveform.
ResolveWaveformRefs(s) ==
    IF \E i \in DOMAIN s.emitters :
          HasRef(s.emitters[i]) /\ WaveformIndex(s, s.emitters[i].waveform_ref) = {}
    THEN {}
    ELSE {[s EXCEPT !.emitters =
             [i \in DOMAIN s.emitters |->
                LET em == s.emitters[i]
                IN  IF HasRef(em)
                    THEN [key \in (DOMAIN em \ {"waveform_ref"}) \cup {"waveform"} |->
                            IF key = "waveform"
                            THEN s.waveforms[LastOf(WaveformIndex(s, em.waveform_ref))]
                            ELSE em[key]]
                    ELSE em]]}
=============================================================================
