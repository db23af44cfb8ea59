----------------------------- MODULE MCDocuments ------------------------------
(* Scenario files that hold every section, and all that are one edit away from *)
(* them, in both formats.                                                      *)
EXTENDS Documents

\* What takes the place of a value, whatever its type is.
Samples == {Null, Text(""), Text("a"), Whole(-1), Whole(0), Whole(2), Whole(MaxUint32 + 1),
            Whole(MaxInt64 + 1), Real(1), Huge, Bool(TRUE), Array(<<>>), EmptyObject}

Without(f, key) == [k \in DOMAIN f \ {key} |-> f[k]]

RECURSIVE MCEdits(_)
MCEdits(value) ==
    Samples
    \cup (IF Is("array", value)
          THEN UNION {{Array([value.array EXCEPT ![i] = x]) : x \in MCEdits(value.array[i])} :
                          i \in DOMAIN value.array}
          ELSE IF IsObject(value)
          THEN {Without(value, key) : key \in DOMAIN value}
               \cup UNION {{[value EXCEPT ![key] = x] : x \in MCEdits(value[key])} : key \in DOMAIN value}
          ELSE {})

Rf(freq, rate) == [freq_hz |-> Real(freq), rate_sps |-> Real(rate), gain_db |-> Real(0)]
WithBandwidth(rf) == rf @@ [bandwidth_hz |-> Real(1), antenna |-> Text("TX/RX")]

\* One device; a waveform referred to, a repeated emitter with impairments.
Plain ==
    [metadata |-> [name |-> Text("n"), version |-> Text("5")],
     devices |-> Array(<<[id |-> Text("d"), channel |-> Whole(0), rf |-> WithBandwidth(Rf(1, 2))]>>),
     waveforms |-> Array(<<[id |-> Text("w"), type |-> Text("CW"), amplitude |-> Real(1)]>>),
     emitters |-> Array(<<[id |-> Text("a"), device |-> Text("d"), start_after_sec |-> Real(0),
                           duration_sec |-> Whole(1), waveform_ref |-> Text("w"),
                           impairments |-> [cfo_hz |-> Real(1)],
                           repeat |-> [count |-> Whole(2), interval_sec |-> Real(2)]]>>),
     events |-> Array(<<[target_device |-> Text("d"), time_sec |-> Whole(1), type |-> Text("marker"),
                         payload |-> [name |-> Text("m")]]>>),
     reporting |-> [save_plan |-> Bool(TRUE), save_metrics |-> Bool(FALSE)]]

\* Two coherent channels, two emitters mixed on one of them, every other type of event.
Event(type, payload) == [target_device |-> Text("d"), time_sec |-> Real(1), type |-> Text(type),
                         payload |-> payload]
Mixed(id, start) ==
    [id |-> Text(id), device |-> Text("d"), start_after_sec |-> Real(start), duration_sec |-> Real(2),
     mixing |-> Text("additive"), channel_id |-> Text("c0"),
     waveform |-> [type |-> Text("chirp"), target_power_dbm |-> Real(0)]]
Rich ==
    [metadata |-> [name |-> Text("n"), description |-> Text("")],
     devices |-> Array(<<[id |-> Text("d"), rf |-> Rf(1, 1)]>>),
     channels |-> Array(<<[id |-> Text("c0"), device |-> Text("d"), index |-> Whole(0), rf |-> Rf(1, 2)],
                          [id |-> Text("c1"), device |-> Text("d"), index |-> Whole(1), rf |-> Rf(2, 2)]>>),
     sync_groups |-> Array(<<[id |-> Text("g"), mode |-> Text("coherent"),
                              channels |-> Array(<<Text("c0"), Text("c1")>>)]>>),
     emitters |-> Array(<<Mixed("a", 0), Mixed("b", 1)>>),
     events |-> Array(<<Event("retune", [freq_hz |-> Real(1), channel |-> Whole(1)]),
                        Event("gain_change", [gain_db |-> Real(-1)]),
                        Event("waveform_switch", [emitter_id |-> Text("a"), new_waveform |-> Text("w")]),
                        Event("impairment_change", [emitter_id |-> Text("a"), impairment |-> Text("i"),
                                                    enabled |-> Bool(FALSE)])>>),
     reporting |-> [save_plan |-> Bool(TRUE), save_metrics |-> Bool(TRUE)],
     run |-> [mode |-> Text("replay")]]

\* In YAML a file that asks for artifacts is refused.
Unreported(document) == Without(document, "reporting")

MCFiles == {[format |-> "json", document |-> Plain], [format |-> "json", document |-> Rich],
            [format |-> "yaml", document |-> Plain], [format |-> "yaml", document |-> Unreported(Plain)]}
=============================================================================
