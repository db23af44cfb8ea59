------------------------------- MODULE Scenario -------------------------------
(***************************************************************************)
(* The scenario that the validator, the planner and the runtime read:      *)
(* scenario.hpp, and the arithmetic on times they share.                   *)
(*                                                                         *)
(*   devices   <<[id, channel, rf]>>            channel may be None        *)
(*   channels  <<[id, device, index, rf]>>      channel_defs               *)
(*   emitters  <<[id, device, channel, channelId, start, duration,         *)
(*                additive, count, interval]>>  count = 1: no repetition   *)
(*   events    <<[kind, device, time, channel, emitter, value, body]>>     *)
(*                                                                         *)
(* A name is a sequence of parts, those that "_" separates: the emitter    *)
(* "a_0" is <<"a", 0>>.  The rf settings are "ok", "extreme" (a gain or a  *)
(* bandwidth that RfSettings::validate refuses) or "invalid" (a frequency  *)
(* or a rate that is not positive).  The body of an event's payload is     *)
(* "ok", "empty" (an empty string, a frequency that is not positive) or    *)
(* "bad" (a field missing or of a wrong type).  Waveforms, impairments,    *)
(* metadata and sync groups are left out: nothing below depends on them.   *)
(* Times are finite, and so are their sums.                                *)
(***************************************************************************)
EXTENDS Integers, Sequences, FiniteSets, SequencesExt

CONSTANTS None,            \* an optional that holds nothing
          BadChannel,      \* a payload channel that is no uint32
          TimeBits,        \* the bits of a double's significand
          MaxRepeatCount   \* kMaxRepeatCount

ASSUME ScenarioAssumption == /\ TimeBits \in Nat \ {0}
                             /\ MaxRepeatCount \in Nat \ {0}

-----------------------------------------------------------------------------
(* Floating point: times are naturals, rounded to TimeBits bits, half to even. *)

Power(base) == LET power[n \in Nat] == IF n = 0 THEN 1 ELSE base * power[n - 1]
               IN  power

\* The weight of the last of the digits that a number of n's size keeps.
Unit(base, digits, n) ==
    Power(base)[CHOOSE k \in 0..n : /\ n < Power(base)[digits + k]
                                    /\ k = 0 \/ Power(base)[digits + k - 1] <= n]

\* The nearest multiple of unit, half to even.
RoundedTo(n, unit) == LET q == n \div unit
                          rest == 2 * (n % unit)
                      IN  IF rest > unit \/ (rest = unit /\ q % 2 = 1)
                          THEN (q + 1) * unit ELSE q * unit

Rounded(n) == IF n < Power(2)[TimeBits] THEN n ELSE RoundedTo(n, Unit(2, TimeBits, n))

Plus(a, b) == Rounded(a + b)
Minus(a, b) == Rounded(a - b)
Times(a, b) == Rounded(a * b)

Window(start, duration) == [start |-> start, end |-> Plus(start, duration)]

Overlap(a, b) == a.start < b.end /\ b.start < a.end

-----------------------------------------------------------------------------
(* Vectors. *)

\* The elements of a vector that are in a set, in their order.
Keep(seq, kept) == FlattenSeq([i \in DOMAIN seq |-> IF seq[i] \in kept THEN <<seq[i]>> ELSE <<>>])

\* The places of what has a start, by it and then as they come.
StartOrder(seq) ==
    CHOOSE order \in [DOMAIN seq -> DOMAIN seq] :
        \A i, j \in DOMAIN seq :
            i < j => \/ seq[order[i]].start < seq[order[j]].start
                     \/ seq[order[i]].start = seq[order[j]].start /\ order[i] < order[j]

\* Sorted by start.
ByStart(seq) == LET order == StartOrder(seq) IN [i \in DOMAIN seq |-> seq[order[i]]]

-----------------------------------------------------------------------------
\* count = 1 is also an emitter without repeat, whose interval is 0.
RepeatOk(em) == /\ em.count \in 1..MaxRepeatCount
                /\ em.interval >= 0
                /\ em.count > 1 => em.interval > 0

\* The windows in which an emitter is active; none if its repeat is ill-formed.
WindowsOf(em) ==
    [r \in 1..(IF RepeatOk(em) THEN em.count ELSE 0) |->
        Window(Plus(em.start, Times(r - 1, em.interval)), em.duration)]

\* channel_defs, or one channel per device.
EffectiveChannels(s) ==
    IF s.channels # <<>> THEN s.channels
    ELSE [i \in DOMAIN s.devices |->
            LET dev == s.devices[i]
                index == IF dev.channel = None THEN 0 ELSE dev.channel
            IN  [id |-> dev.id \o <<"ch", index>>, device |-> dev.id, index |-> index, rf |-> dev.rf]]

IsBound(s, device, index) ==
    \E c \in ToSet(EffectiveChannels(s)) : c.device = device /\ c.index = index

IsRf(kind) == kind \in {"retune", "gain_change"}
NamesEmitter(kind) == kind \in {"waveform_switch", "impairment_change"}
=============================================================================
