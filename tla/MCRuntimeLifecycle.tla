-------------------------- MODULE MCRuntimeLifecycle --------------------------
(* Two runtimes on a device of two channels, and plans of every sort. *)
EXTENDS RuntimeLifecycle

CONSTANTS v1, v2

Rf(value, bandwidth, antenna) ==
    [freq |-> value, rate |-> value, gain |-> value, bandwidth |-> bandwidth, antenna |-> antenna]
To(channel, rf) == [channel |-> channel, valid |-> TRUE, rf |-> rf]

Plan(bindings) == [NoPlan EXCEPT !.bindings = bindings, !.renders = TRUE]

lone == [Plan(<<To(0, Rf(v1, v1, None))>>) EXCEPT !.events = {[channel |-> 0, knob |-> "freq", value |-> v2]}]
pair == Plan(<<To(0, Rf(v2, None, v2)), To(1, Rf(v1, v2, None))>>)
half == Plan(<<To(0, Rf(v2, v2, v2)), [To(1, Rf(v2, v2, v2)) EXCEPT !.valid = FALSE]>>)
twice == [Plan(<<To(0, Rf(v1, None, None)), To(0, Rf(v2, None, None))>>) EXCEPT !.accepted = FALSE]
bare == Plan(<<>>)
empty == [lone EXCEPT !.renders = FALSE]
unsound == [pair EXCEPT !.sound = FALSE]
stray == [lone EXCEPT !.events = {[channel |-> 1, knob |-> "gain", value |-> v1]}]

MCPlans == {lone, pair, half, twice, bare, empty, unsound, stray,
            [pair EXCEPT !.replay = TRUE], [lone EXCEPT !.replay = TRUE]}
=============================================================================
