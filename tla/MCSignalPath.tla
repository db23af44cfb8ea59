----------------------------- MODULE MCSignalPath -----------------------------
(* Every kind of source behind its interface and rendered; every stage of    *)
(* impairments alone and pairs of those with a memory; mixes and replays.    *)
EXTENDS SignalPath

P(type) == [Params EXCEPT !.type = type]

ParamsOf(type) ==
    CASE type = "cw" -> {P(type), [P(type) EXCEPT !.inc = 3, !.total = 3]}
      [] type = "am" -> {[P(type) EXCEPT !.mod = 2]}
      [] type = "multi_tone" -> {P(type), [P(type) EXCEPT !.tones = <<1, 3>>]}
      [] type = "chirp" -> {P(type), [P(type) EXCEPT !.total = 4], [P(type) EXCEPT !.total = 0]}
      [] type = "noise" -> {[P(type) EXCEPT !.total = 5]}
      [] type \in {"fsk", "ask"} ->
            {[P(type) EXCEPT !.sps = k, !.order = 3, !.total = t] : k \in 0..2, t \in {None, 4}}
      [] type = "pulse" ->
            {[P(type) EXCEPT !.pw = w, !.pri = 3, !.single = b, !.total = t] :
                w \in 0..1, b \in BOOLEAN, t \in {None, 5}}
      [] type = "ofdm" -> {P(type), [P(type) EXCEPT !.fft = 4, !.prefix = 0, !.active = 2]}
      [] type = "modulator" -> {P(type), [P(type) EXCEPT !.sps = 1]}
      [] type = "file" -> {[P(type) EXCEPT !.data = d, !.loop = b] : d \in {<<>>, <<1, 2, 3>>}, b \in BOOLEAN}
      [] OTHER -> {P(type)}

AllParams == UNION {ParamsOf(type) : type \in Types}

MCReconfigurations ==
    AllParams \cup {[P(type) EXCEPT !.valid = FALSE] : type \in {"cw", "fsk", "file", "modulator"}}

Job(params, settings, block, start, duration) ==
    [params |-> params, settings |-> settings, block |-> block, start |-> start, duration |-> duration]
Use(kind, jobs, start, duration) == [kind |-> kind, jobs |-> jobs, start |-> start, duration |-> duration]

Given(fields) == [NoSettings EXCEPT !.given = fields, !.delay = 2, !.echo = 2]

Stages == {{"cfo"}, {"awgn"}, {"phase_offset"}, {"dc_i"}, {"iq_phase"}, {"ripple"}, {"delay"}, {"dropout"},
           {"noise_bandwidth"}, {"noise_bandwidth", "noise_magnitude"}, {"echo_delay"},
           {"echo_delay", "echo_amplitude"}, {"fading"}, {"pa"},
           {"delay", "dropout", "echo_delay", "echo_amplitude"}, {"cfo", "awgn", "dropout", "pa"}}

MCSettings ==
    {Given(fields) : fields \in Stages}
    \cup {[Given(fields) EXCEPT !.idle = {"awgn", "dropout", "ripple"}] : fields \in {{"awgn", "cfo"}, {"dropout", "pa"}}}
    \cup {[Given({"delay", "echo_delay", "echo_amplitude"}) EXCEPT !.delay = 0, !.echo = 0]}
    \cup {[Given({"pa"}) EXCEPT !.refused = {"pa"}], [Given({"echo_delay"}) EXCEPT !.refused = {"multipath"}]}

pulse == [P("pulse") EXCEPT !.pri = 3]
tone == [P("cw") EXCEPT !.inc = 3]
tape == [P("file") EXCEPT !.data = <<1, 2, 3>>]

Interfaces == {Use("interface", <<Job(P(type), NoSettings, 1, 0, 0)>>, 0, 0) : type \in Types}

Renders ==
    {Use("render", <<Job(params, NoSettings, block, 0, duration)>>, 0, 0) :
        params \in AllParams \cup {[P("cw") EXCEPT !.valid = FALSE]}, block \in {0, 1, 2, 3, 5, 17},
        duration \in {0, 1, 2, 7, 16, 21}}
    \cup {Use("render", <<Job(params, settings, block, 0, 21)>>, 0, 0) :
        params \in {pulse, tone}, settings \in MCSettings, block \in {1, 3, 4, 8}}

Members == {<<tone, NoSettings>>, <<pulse, Given({"delay", "dropout"})>>, <<tape, NoSettings>>}

\* The group spans its members - or not, in a plan that was not made here.
Mixes ==
    {Use("mix", <<Job(m[1][1], m[1][2], block, s[1], d[1]), Job(m[2][1], m[2][2], 2, s[2], d[2])>>, s[3], s[4]) :
        m \in Members \X Members, block \in {1, 3}, d \in {1, 4, 7} \X {4, 8, 14},
        s \in {<<0, x, 0, y>> : x \in {0, 1, 2, 4, 8}, y \in {8, 10, 16}} \cup {<<0, 2, 1, 10>>}}

Replays ==
    {Use("replay", <<Job(m[1][1], m[1][2], 2, 0, d[1]), Job(m[2][1], m[2][2], 3, 0, d[2])>>, 0, 0) :
        m \in Members \X Members, d \in {0, 1, 7} \X {4, 8, 40}}

MCUses == Interfaces \cup Renders \cup Mixes \cup Replays
=============================================================================
