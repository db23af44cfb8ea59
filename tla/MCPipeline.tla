------------------------------ MODULE MCPipeline ------------------------------
(* Scenarios in families: times and repeats; mixes of three; channels and      *)
(* devices; events; names.                                                     *)
EXTENDS Pipeline

d1 == <<"d", 1>>
d2 == <<"d", 2>>
a == <<"a">>
b == <<"b">>

Device(id, channel) == [id |-> id, channel |-> channel, rf |-> "ok"]
ChannelDef(n, device, index) == [id |-> <<"c", n>>, device |-> device, index |-> index, rf |-> "ok"]

Emitter(id, start, duration) ==
    [id |-> id, device |-> d1, channel |-> 0, channelId |-> None, start |-> start,
     duration |-> duration, additive |-> FALSE, count |-> 1, interval |-> 0]
Repeated(em, repeat) == [em EXCEPT !.count = repeat[1], !.interval = repeat[2]]
Mixed(em, additive) == [em EXCEPT !.additive = additive]
At(em, device, channel, id) == [em EXCEPT !.device = device, !.channel = channel, !.channelId = id]

Event(kind, time, channel, value) ==
    [kind |-> kind, device |-> d1, time |-> time, channel |-> channel, value |-> value,
     emitter |-> None, body |-> "ok"]

Scenario1(devices, channels, emitters, events) ==
    [devices |-> devices, channels |-> channels, emitters |-> emitters, events |-> events]

OneDevice(emitters) == Scenario1(<<Device(d1, 0)>>, <<>>, emitters, <<>>)

Repeats == {<<1, 0>>, <<2, 1>>, <<2, 2>>, <<2, 3>>}

\* Two emitters, each perhaps repeated; "a_0" is also the first repetition of "a".
Timings ==
    {OneDevice(<<Mixed(Repeated(Emitter(a, 0, m[1]), r[1]), x[1]),
                 Mixed(Repeated(Emitter(id, start, m[2]), r[2]), x[2])>>) :
        id \in {a, b, Append(a, 0)}, start \in 0..3, m \in {1, 2} \X {1, 2},
        r \in Repeats \X Repeats, x \in BOOLEAN \X BOOLEAN}

\* At the limits of a duration, a start and a repeat.
Limits ==
    {OneDevice(<<Repeated(Emitter(a, start, duration), r)>>) :
        start \in {-1, 0}, duration \in {0, 1, 10, 12},
        r \in {<<0, 1>>, <<1, 0>>, <<2, 0>>, <<2, -1>>, <<3, 1>>, <<4, 1>>}}
    \cup {OneDevice(<<>>), Scenario1(<<>>, <<>>, <<Emitter(a, 0, 1)>>, <<>>)}

\* Three emitters whose ends a double may miss.
Mixes ==
    {OneDevice(<<Mixed(Emitter(a, s[1], m[1]), x[1]), Mixed(Emitter(b, s[2], m[2]), x[2]),
                 Mixed(Emitter(<<"c">>, s[3], m[3]), x[3])>>) :
        s \in {0, 1} \X {1, 3} \X {3, 8}, m \in {2, 10} \X {5, 7} \X {2, 7},
        x \in BOOLEAN \X BOOLEAN \X BOOLEAN}

Devices == {<<Device(d1, None)>>, <<Device(d1, 1)>>, <<Device(d1, 0), Device(d2, 0)>>,
            <<Device(d1, 0), Device(d1, 1)>>, <<[Device(d1, 0) EXCEPT !.rf = "extreme"]>>,
            <<[Device(d1, 0) EXCEPT !.rf = "invalid"]>>}

ChannelDefs == {<<>>, <<ChannelDef(0, d1, 0)>>, <<ChannelDef(0, d1, 0), ChannelDef(1, d1, 1)>>,
                <<ChannelDef(0, d1, 0), ChannelDef(1, d2, 0)>>,
                <<ChannelDef(0, d1, 0), ChannelDef(1, d2, 1)>>,
                <<ChannelDef(0, d1, 0), ChannelDef(0, d1, 1)>>,
                <<ChannelDef(0, d1, 0), ChannelDef(1, d1, 0)>>}

Places == {d1} \X {0, 1} \X {None, <<"c", 0>>, <<"c", 1>>}

Channellings ==
    {Scenario1(devices, defs,
               <<Mixed(At(Emitter(a, 0, 2), p[1], p[2], p[3]), mixed),
                 Mixed(At(Emitter(b, 1, 2), q[1], q[2], q[3]), mixed)>>, <<>>) :
        devices \in Devices, defs \in ChannelDefs, p \in Places,
        q \in Places \cup {<<d2, 0, None>>}, mixed \in BOOLEAN}

TwoChannels == <<ChannelDef(0, d1, 0), ChannelDef(1, d1, 1)>>

\* A mix on each channel, and an emitter that may be on either.
Crossings ==
    {Scenario1(<<Device(d1, None)>>, TwoChannels,
               <<Mixed(Repeated(Emitter(a, 0, 2), r), x[1]),
                 Mixed(At(Emitter(b, start, 2), d1, n[1], None), x[2]),
                 Mixed(At(Emitter(<<"c">>, 1, 2), d1, n[2], None), x[3])>>, <<>>) :
        r \in {<<1, 0>>, <<2, 1>>, <<2, 3>>}, start \in {1, 2}, n \in {0, 1} \X {0, 1},
        x \in BOOLEAN \X BOOLEAN \X BOOLEAN}

Tunings == {Event(kind, time, channel, value) :
              kind \in {"retune"}, time \in {1, 10}, channel \in {None, 0, 1}, value \in {1, 2}}
           \cup {Event("gain_change", 1, None, 1), Event("retune", 1, BadChannel, 1)}
Markers == {Event("marker", time, channel, 1) : time \in {1, 10}, channel \in {None, 0, 1, BadChannel}}
Addressed == {[Event(kind, 1, channel, 1) EXCEPT !.emitter = em] :
                kind \in {"waveform_switch", "impairment_change"}, channel \in {None, 0, 1, BadChannel},
                em \in {a, b, Append(a, 0)}}
Broken == {[Event("marker", 1, None, 1) EXCEPT !.body = body] : body \in {"empty", "bad"}}
          \cup {[Event("marker", 1, None, 1) EXCEPT !.device = d2], Event("marker", -1, None, 1)}

\* Three retunes of every channel; close times print alike.
Retunes == {<<Event("retune", t[1], None, v[1]), Event("retune", t[2], None, v[2]),
              Event("retune", t[3], None, v[3])>> :
              t \in {<<1, 3, 5>>, <<5, 3, 1>>, <<10, 12, 14>>, <<1, 1, 3>>},
              v \in {1, 2} \X {1, 2} \X {1, 2}}

EventLists == {<<>>} \cup Retunes
              \cup {<<e>> : e \in Addressed \cup Broken}
              \cup {<<e, f>> : e \in Tunings \cup Markers, f \in Tunings \cup Markers}

Eventful ==
    {Scenario1(<<Device(d1, None)>>, defs,
               <<Repeated(Emitter(a, 0, 1), r)>>
                    \o (IF defs = TwoChannels THEN <<At(Emitter(b, 0, 1), d1, 1, None)>> ELSE <<>>),
               events) :
        defs \in {<<>>, TwoChannels}, r \in {<<1, 0>>, <<2, 2>>}, events \in EventLists}

\* Events for an emitter that is named like a repetition of another.
Namesakes ==
    {Scenario1(<<Device(d1, None)>>, <<>>,
               <<Repeated(Emitter(id, 0, 1), r), Repeated(Emitter(a, 5, 1), q)>>, <<e>>) :
        id \in {b, Append(a, 0)}, r \in {<<1, 0>>, <<2, 2>>}, q \in {<<1, 0>>, <<2, 2>>},
        e \in Addressed}

MCScenarios == Timings \cup Limits \cup Mixes \cup Channellings \cup Crossings \cup Eventful \cup Namesakes
=============================================================================
