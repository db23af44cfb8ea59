----------------------------- MODULE Impairments -----------------------------
(***************************************************************************)
(* core/impairments/src: the chain that build_chain makes of the settings  *)
(* of an emitter, and how it changes a block of samples.  What a stage     *)
(* does to a sample is a term around it, with the number of the sample or  *)
(* of the draw where it depends on one; 0 stays 0 where a stage only       *)
(* scales or turns.  The seeds are fixed, but for the phase noise, which   *)
(* is seeded anew in every run.                                            *)
(***************************************************************************)
EXTENDS Sources

\* The settings: the fields that are given, those of them whose value makes the
\* stage idle (0), those whose value its constructor refuses, the two delays.
NoSettings == [given |-> {}, idle |-> {}, refused |-> {}, delay |-> 1, echo |-> 1]

\* The stages in the order of the chain, each with the fields that ask for it.
StageOrder == <<"cfo", "awgn", "phase_offset", "dc_offset", "iq_imbalance", "ripple", "delay",
                "dropout", "phase_noise", "multipath", "fading", "pa">>

Wanted(kind, settings) ==
    CASE kind = "dc_offset" -> settings.given \cap {"dc_i", "dc_q"} # {}
      [] kind = "iq_imbalance" -> settings.given \cap {"iq_gain", "iq_phase"} # {}
      [] kind = "phase_noise" -> {"noise_bandwidth", "noise_magnitude"} \subseteq settings.given
      [] kind = "multipath" -> {"echo_delay", "echo_amplitude"} \subseteq settings.given
      [] OTHER -> kind \in settings.given

StagesOf(settings) ==
    LET asked[n \in 0 .. Len(StageOrder)] ==
            IF n = 0 THEN <<>>
            ELSE IF Wanted(StageOrder[n], settings) THEN Append(asked[n - 1], StageOrder[n]) ELSE asked[n - 1]
    IN  asked[Len(StageOrder)]

\* build_chain throws.
CannotBuild(settings) == \E kind \in Range(StagesOf(settings)) : kind \in settings.refused

\* The samples a stage remembers at first: zeros.
Memory(kind, settings) ==
    LET length == CASE kind = "delay" -> settings.delay
                    [] kind = "multipath" -> settings.echo
                    [] OTHER -> 0
    IN  [i \in 1 .. length |-> Zero]

\* count: the samples seen, or for the dropouts the numbers drawn; burst: what
\* is left of a dropout.
BuildChain(settings) ==
    [i \in DOMAIN StagesOf(settings) |->
        LET kind == StagesOf(settings)[i]
        IN  [kind |-> kind, count |-> 0, burst |-> 0, memory |-> Memory(kind, settings),
             idle |-> kind \in settings.idle \/ (kind \in {"delay", "multipath"} /\ Memory(kind, settings) = <<>>)]]

-----------------------------------------------------------------------------
\* Stand for the two distributions of BurstDropoutImpairment.
StartsBurst(k) == Draw(k, 3) = 2
BurstLength(k) == 1 + Draw(k, 2)

Scaled(kind, n, x) == IF x = Zero THEN Zero ELSE <<kind, n, x>>
Echoed(x, y) == IF x = Zero /\ y = Zero THEN Zero ELSE <<"echo", x, y>>

\* A dropout starts by a draw when none is on, and takes the length it draws.
DropSample(stage, x) ==
    LET starts == stage.burst = 0 /\ StartsBurst(stage.count)
        burst == IF starts THEN BurstLength(stage.count + 1) ELSE stage.burst
        draws == IF stage.burst > 0 THEN 0 ELSE IF starts THEN 2 ELSE 1
    IN  [stage |-> [stage EXCEPT !.count = @ + draws, !.burst = IF burst = 0 THEN 0 ELSE burst - 1],
         sample |-> IF burst > 0 THEN Zero ELSE x]

Counted(stage, y) == [stage |-> [stage EXCEPT !.count = @ + 1], sample |-> y]
Kept(stage, y) == [stage |-> stage, sample |-> y]

\* apply, for one sample, of each class: those that go by the sample's number,
\* or draw for each sample,
Cfo(stage, x) == Counted(stage, Scaled("cfo", stage.count, x))
Ripple(stage, x) == Counted(stage, Scaled("ripple", stage.count, x))
PhaseNoise(stage, x) == Counted(stage, Scaled("phase_noise", stage.count, x))
Fading(stage, x) == Counted(stage, Scaled("fading", stage.count, x))
Awgn(stage, x) == Counted(stage, <<"awgn", stage.count, x>>)

\* those that take each sample by itself,
PhaseOffset(stage, x) == Kept(stage, Scaled("phase_offset", 0, x))
IqImbalance(stage, x) == Kept(stage, Scaled("iq_imbalance", 0, x))
PaNonlinearity(stage, x) == Kept(stage, Scaled("pa", 0, x))
DcOffset(stage, x) == Kept(stage, <<"dc_offset", 0, x>>)

\* and those that remember samples.
Delay(stage, x) == [stage |-> [stage EXCEPT !.memory = Tail(Append(@, x))],
                    sample |-> Head(Append(stage.memory, x))]
Multipath(stage, x) == [stage |-> [stage EXCEPT !.memory = Append(Tail(@), x)],
                        sample |-> Echoed(x, Head(stage.memory))]

ApplyStage(stage, x) ==
    IF stage.idle THEN Kept(stage, x) ELSE
    CASE stage.kind = "cfo" -> Cfo(stage, x)
      [] stage.kind = "awgn" -> Awgn(stage, x)
      [] stage.kind = "phase_offset" -> PhaseOffset(stage, x)
      [] stage.kind = "dc_offset" -> DcOffset(stage, x)
      [] stage.kind = "iq_imbalance" -> IqImbalance(stage, x)
      [] stage.kind = "ripple" -> Ripple(stage, x)
      [] stage.kind = "delay" -> Delay(stage, x)
      [] stage.kind = "dropout" -> DropSample(stage, x)
      [] stage.kind = "phase_noise" -> PhaseNoise(stage, x)
      [] stage.kind = "multipath" -> Multipath(stage, x)
      [] stage.kind = "fading" -> Fading(stage, x)
      [] stage.kind = "pa" -> PaNonlinearity(stage, x)

StageSample(result, x) ==
    LET applied == ApplyStage(result.stage, x)
    IN  [stage |-> applied.stage, block |-> Append(result.block, applied.sample)]

StageBlock(stage, block) ==
    LET result[i \in 0 .. Len(block)] ==
            IF i = 0 THEN [stage |-> stage, block |-> <<>>] ELSE StageSample(result[i - 1], block[i])
    IN  result[Len(block)]

\* What the first stages of the chain make of a block: the last of them after
\* it, and the block.
Passed(chain, block, stages) ==
    LET result[i \in 0 .. stages] ==
            IF i = 0 THEN [stage |-> None, block |-> block] ELSE StageBlock(chain[i], result[i - 1].block)
    IN  result[stages]

\* Mutant: the stages start afresh with every block.
ApplyChainAfresh(chain, block) == [chain |-> chain, block |-> Passed(chain, block, Len(chain)).block]

\* ImpairmentChain::apply: stage after stage over the whole block.
ApplyChain(chain, block) ==
    [chain |-> [i \in DOMAIN chain |-> Passed(chain, block, i).stage],
     block |-> Passed(chain, block, Len(chain)).block]

=============================================================================
