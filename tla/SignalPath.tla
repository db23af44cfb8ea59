------------------------------ MODULE SignalPath ------------------------------
(***************************************************************************)
(* From the parameters of a waveform to the samples: a source used through *)
(* its interface, calls in any order ("interface"); RenderWorker::run      *)
(* ("render"); and RenderWorker::pre_render for the members of a mix group *)
(* ("mix") and for the instructions of a replay ("replay"), with what the  *)
(* runtime makes of the buffers (core/runtime/src).  Times are in ticks of *)
(* 1/TicksPerSample of a sample.                                           *)
(***************************************************************************)
EXTENDS Impairments

CONSTANTS Uses,             \* the jobs there may be, each for one use
          Reconfigurations, \* what configure may be called with, by type
          BlockSizes,       \* the block sizes of the interface's caller
          TicksPerSample,
          MaxBlock,         \* kMaxRenderBlockSamples
          MaxPreRender,     \* kMaxPreRenderSamples
          MaxSamples        \* bound: the samples taken from an interface

\* Parameters as configure lets them through.
IsParams(params) ==
    /\ DOMAIN params = DOMAIN Params
    /\ params.type \in Types /\ params.total \in Nat \cup {None}
    /\ {params.valid, params.single, params.loop} \subseteq BOOLEAN
    /\ params.single => params.type = "pulse"
    /\ params.valid =>
        /\ {params.inc, params.mod, params.dev} \subseteq Int
        /\ params.tones \in Seq(Int) /\ params.data \in Seq(Nat)
        /\ {params.sps, params.pw, params.pri} \subseteq Nat
        /\ params.order > 0 /\ params.order \in Nat
        /\ params.type = "modulator" => params.sps > 0
        /\ params.fft \in Nat /\ params.prefix \in 0 .. params.fft - 1 /\ params.active \in 1 .. params.fft - 1

IsJob(j) == /\ IsParams(j.params)
            /\ {j.block, j.start, j.duration, j.settings.delay, j.settings.echo} \subseteq Nat

ASSUME SignalAssumption ==
    /\ {TicksPerSample, MaxBlock, MaxPreRender, MaxSamples} \subseteq Nat \ {0}
    /\ BlockSizes \subseteq Nat
    /\ \A params \in Reconfigurations : IsParams(params)
    /\ \A u \in Uses :
        /\ u.kind \in {"interface", "render", "mix", "replay"}
        /\ u.jobs \in Seq(Range(u.jobs)) \ {<<>>}
        /\ \A k \in DOMAIN u.jobs : IsJob(u.jobs[k])
        /\ {u.start, u.duration} \subseteq Nat
        /\ u.kind \in {"interface", "render"} => Len(u.jobs) = 1
        /\ u.kind = "interface" => u.jobs[1].params.valid  \* its constructor's

VARIABLES
    use,        \* the use and its jobs; of a mix, its start and duration too
    pc,         \* "idle", "rendering", "done", "failed"
    job,        \* the number of the job at hand
    source,     \* the source
    generator,  \* its rng_ and dist_: "built", "seeded" by reset only, or "set"
    chain,      \* its impairments
    out,        \* the samples since the source's last restart
    delivered   \* the buffer the jobs make together

vars == <<use, pc, job, source, generator, chain, out, delivered>>

\* checked_sample_count: a time times the rate, rounded, halves upwards.
SampleCount(time) == (2 * time + TicksPerSample) \div (2 * TicksPerSample)

TheJob == use.jobs[job]
Target == SampleCount(TheJob.duration)
IsPreRender == use.kind \in {"mix", "replay"}

\* Mutant: the source does not learn of the duration of its job.
JobParamsWithoutDuration(j) == j.params

\* What render_job_waveform_config and the worker make of the parameters.
JobParams(j) == [j.params EXCEPT !.total = IF j.duration > 0 THEN SampleCount(j.duration) ELSE @]

\* mix_member_offset_samples.
Offset(j) == SampleCount(j.start - use.start)
Total == SampleCount(use.duration)

Init ==
    /\ use \in Uses
    /\ pc = "idle" /\ job = 1
    /\ source = Configured(use.jobs[1].params) /\ generator = "built"
    /\ chain = <<>> /\ out = <<>>
    /\ delivered = IF use.kind = "mix" THEN [i \in 1 .. Total |-> <<>>] ELSE <<>>

-----------------------------------------------------------------------------
(* The interface: ISource.                                                 *)

IsInterface == use.kind = "interface"

\* A constructor leaves the generator with the library's own seed and deviation.
\* A reset seeds it, but of a noise source the deviation stays; configure and
\* prepare set both.
IsForeign ==
    \/ source.params.type = "noise" /\ generator # "set"
    \/ source.params.type = "ofdm" /\ generator = "built"

\* In the place of samples, those that such a generator gives.
Drawn(samples) == IF IsForeign THEN [i \in DOMAIN samples |-> <<generator, samples[i]>>] ELSE samples

\* A call that throws leaves the stream to go on.
CallConfigure(params) ==
    /\ IsInterface /\ params.type = source.params.type
    /\ source' = Configure(source, params)
    /\ IF params.valid THEN generator' = "set" /\ out' = <<>> ELSE UNCHANGED <<generator, out>>
    /\ UNCHANGED <<use, pc, job, chain, delivered>>

CallPrepare ==
    /\ IsInterface
    /\ source' = Prepare(source)
    /\ IF CannotPrepare(source.params) THEN UNCHANGED <<generator, out>> ELSE generator' = "set" /\ out' = <<>>
    /\ UNCHANGED <<use, pc, job, chain, delivered>>

CallReset ==
    /\ IsInterface
    /\ source' = Restart(source) /\ out' = <<>>
    /\ generator' = IF generator = "built" THEN "seeded" ELSE generator
    /\ UNCHANGED <<use, pc, job, chain, delivered>>

CallRender(n) ==
    LET block == Render(source, n)
    IN  /\ IsInterface /\ ~CannotRender(source, n) /\ Len(out) + n <= MaxSamples
        /\ source' = block.source
        /\ out' = out \o Drawn(block.out)
        /\ UNCHANGED <<use, pc, job, generator, chain, delivered>>

-----------------------------------------------------------------------------
(* The jobs.                                                               *)

\* The block size or the buffer is too large, or configure, prepare or
\* build_chain throws.
Refused(j) ==
    \/ j.block = 0 \/ j.block > MaxBlock
    \/ IsPreRender /\ SampleCount(j.duration) > MaxPreRender
    \/ ~j.params.valid \/ CannotPrepare(j.params) \/ CannotBuild(j.settings)

\* A member that starts before the mix, or at or after its end.
Misplaced(j) == /\ use.kind = "mix"
                /\ \/ j.start < use.start
                   \/ j.duration > 0 /\ Offset(j) >= Total

\* The buffer of a pre-render is empty where it should not be.
Missing(j, buffer) ==
    /\ buffer = <<>>
    /\ CASE use.kind = "mix" -> j.duration > 0
         [] use.kind = "replay" -> SampleCount(j.duration) > 0
         [] OTHER -> FALSE

\* Mutant: what was there is lost.
PlacedOver(j, buffer) ==
    IF use.kind = "mix"
    THEN [i \in 1 .. Total |-> IF i - Offset(j) \in DOMAIN buffer THEN <<buffer[i - Offset(j)]>>
                               ELSE delivered[i]]
    ELSE delivered \o buffer

\* What the runtime makes of a buffer: it is appended, or added at its offset
\* as far as it fits.
Placed(j, buffer) ==
    IF use.kind = "mix"
    THEN [i \in 1 .. Total |-> IF i - Offset(j) \in DOMAIN buffer THEN Append(delivered[i], buffer[i - Offset(j)])
                               ELSE delivered[i]]
    ELSE delivered \o buffer

Deliver(buffer) ==
    IF Missing(TheJob, buffer)
    THEN pc' = "failed" /\ UNCHANGED <<job, delivered>>
    ELSE /\ delivered' = Placed(TheJob, buffer)
         /\ job' = job + 1
         /\ pc' = IF job = Len(use.jobs) THEN "done" ELSE "idle"

\* pre_render returns an empty buffer instead of throwing; run fails.
StartJob ==
    /\ ~IsInterface /\ pc = "idle"
    /\ IF Misplaced(TheJob) \/ (~IsPreRender /\ Refused(TheJob))
       THEN pc' = "failed" /\ UNCHANGED <<job, source, generator, chain, out, delivered>>
       ELSE IF Refused(TheJob)
       THEN Deliver(<<>>) /\ UNCHANGED <<source, generator, chain, out>>
       ELSE /\ pc' = "rendering"
            /\ source' = Prepare(Configured(JobParams(TheJob))) /\ generator' = "set"
            /\ chain' = BuildChain(TheJob.settings)
            /\ out' = <<>>
            /\ UNCHANGED <<job, delivered>>
    /\ UNCHANGED use

NextBlock == Render(source, Least(Target - Len(out), TheJob.block))

\* One turn of the loop.
RenderBlock ==
    LET block == NextBlock
        impaired == ApplyChain(chain, block.out)
    IN  /\ pc = "rendering" /\ Len(out) < Target /\ block.out # <<>>
        /\ source' = block.source
        /\ chain' = impaired.chain
        /\ out' = out \o impaired.block
        /\ UNCHANGED <<use, pc, job, generator, delivered>>

\* The end of the loop.  A render that is short fails, unless it is stopped; a
\* pre-render that is short comes to nothing.
EndJob ==
    /\ pc = "rendering" /\ (Len(out) >= Target \/ NextBlock.out = <<>>)
    /\ IF Len(out) = Target \/ IsPreRender
       THEN /\ Deliver(IF Len(out) = Target THEN out ELSE <<>>)
            /\ out' = <<>>
       ELSE pc' = "failed" /\ UNCHANGED <<job, out, delivered>>
    /\ UNCHANGED <<use, source, generator, chain>>

\* stop_requested: the render ends with what it has.
Stop ==
    /\ use.kind = "render" /\ pc = "rendering"
    /\ pc' = "stopped"
    /\ UNCHANGED <<use, job, source, generator, chain, out, delivered>>

Next == \/ CallPrepare \/ CallReset
        \/ \E params \in Reconfigurations : CallConfigure(params)
        \/ \E n \in BlockSizes : CallRender(n)
        \/ StartJob \/ RenderBlock \/ EndJob \/ Stop

Spec == Init /\ [][Next]_vars

-----------------------------------------------------------------------------
(* The reference: the n-th sample of a waveform, from its definition.      *)

Accumulated(steps, n) ==
    LET sum[i \in 0 .. n] == IF i = 0 THEN steps[0] ELSE sum[i - 1] + steps[i]
    IN  sum[n]

Reference(params, n) ==
    LET carrier == Phase(n * params.inc)
        SymbolAt(i) == Draw(i \div params.sps, params.order)
        Modulated == [i \in 0 .. n |-> params.inc + params.dev * Wave(params.mod * i)]
        Shifted == [i \in 0 .. n |-> params.inc + params.dev * SymbolAt(i)]
        place == n % (params.fft + params.prefix)
    IN  CASE params.type = "cw" -> <<"cw", carrier>>
          [] params.type = "am" -> <<"am", Wave(params.mod * n), carrier>>
          [] params.type = "pm" -> <<"pm", Phase(carrier + params.dev * Wave(params.mod * n))>>
          [] params.type = "fm" -> <<"fm", Phase(Accumulated(Modulated, n))>>
          [] params.type = "fsk" -> <<"fsk", Phase(Accumulated(Shifted, n))>>
          [] params.type = "ask" -> <<"ask", SymbolAt(n), carrier>>
          [] params.type = "multi_tone" -> <<"tones", [t \in DOMAIN params.tones |-> Phase(params.tones[t] * n)]>>
          [] params.type = "chirp" -> <<"chirp", Phase(params.inc * n + params.dev * n * n)>>
          [] params.type = "noise" -> <<"noise", 2 * n, 2 * n + 1>>
          [] params.type = "pulse" -> IF n % params.pri < params.pw THEN <<"pulse", carrier>> ELSE Zero
          [] params.type = "ofdm" ->
                <<"ofdm", params.active * (n \div (params.fft + params.prefix)),
                  (place + params.fft - params.prefix) % params.fft>>
          [] params.type = "modulator" ->
                <<"shaped", {<<k, <<"symbol", (n - k) \div params.sps>> >> :
                    k \in {j \in 0 .. Least(n, Span * params.sps) : (n - j) % params.sps = 0}}>>
          [] params.type = "file" -> <<"file", params.data[1 + (n % Len(params.data))]>>

\* The dropouts before a sample: how many numbers are drawn, what is left of one.
DropoutBefore(n) ==
    LET After(d) ==
            IF d.left > 0 THEN [d EXCEPT !.left = @ - 1]
            ELSE IF StartsBurst(d.draws) THEN [draws |-> d.draws + 2, left |-> BurstLength(d.draws + 1) - 1]
            ELSE [d EXCEPT !.draws = @ + 1]
        d[i \in 0 .. n] == IF i = 0 THEN [draws |-> 0, left |-> 0] ELSE After(d[i - 1])
    IN  d[n]

IsDropped(n) == DropoutBefore(n).left > 0 \/ StartsBurst(DropoutBefore(n).draws)

\* A stage as a function of the whole signal f.
StageReference(settings, f, kind) ==
    IF kind \in settings.idle THEN f ELSE
    [n \in DOMAIN f |->
        CASE kind \in {"cfo", "ripple", "phase_noise", "fading"} -> Scaled(kind, n, f[n])
          [] kind \in {"phase_offset", "iq_imbalance", "pa"} -> Scaled(kind, 0, f[n])
          [] kind = "awgn" -> <<"awgn", n, f[n]>>
          [] kind = "dc_offset" -> <<"dc_offset", 0, f[n]>>
          [] kind = "delay" -> IF n < settings.delay THEN Zero ELSE f[n - settings.delay]
          [] kind = "dropout" -> IF IsDropped(n) THEN Zero ELSE f[n]
          [] kind = "multipath" ->
                IF settings.echo = 0 THEN f[n]  \* an echo without delay is none
                ELSE Echoed(f[n], IF n < settings.echo THEN Zero ELSE f[n - settings.echo])]

\* The first samples of a waveform behind the first stages of the settings.
Behind(params, settings, length, stages) ==
    LET f[i \in 0 .. stages] ==
            IF i = 0 THEN [n \in 0 .. length - 1 |-> Reference(params, n)]
            ELSE StageReference(settings, f[i - 1], StagesOf(settings)[i])
    IN  f[stages]

Signal(params, settings, length) ==
    [i \in 1 .. length |-> Behind(params, settings, length, Len(StagesOf(settings)))[i - 1]]

\* How many samples the parameters have: of a single pulse one interval.
Available(params, target) ==
    CASE params.type = "file" -> IF params.loop /\ params.data # <<>> THEN target ELSE Least(target, Len(params.data))
      [] params.type = "pulse" /\ params.single -> Least(target, params.pri)
      [] OTHER -> target

-----------------------------------------------------------------------------
(* The properties.                                                         *)

\* The samples of a source are those of its waveform: whatever the blocks they
\* are taken in, whatever was rendered, configured, refused or reset before
\* (SourceBase, render_block and reset of every source), and whatever stages
\* are applied to the blocks (ImpairmentChain::apply).  The exception is a noise
\* or OFDM source that was neither configured nor prepared yet, nor, of OFDM,
\* reset: its samples come in the same order from a generator that its
\* parameters do not define.
StreamIsReference ==
    LET settings == IF IsInterface \/ out = <<>> THEN NoSettings ELSE TheJob.settings
    IN  /\ out = Drawn(Signal(source.params, settings, Len(out)))
        /\ source.params.total # None => Len(out) <= source.params.total

\* A render ends with all its samples unless its parameters are refused, its
\* waveform is shorter than its duration or it is stopped: the block size never
\* decides - but for a single pulse, which goes on to the end of the block that
\* holds its interval (RenderWorker::run, PulseSource::render_block).
VerdictOfRender ==
    use.kind = "render" =>
        LET j == use.jobs[1]
            target == SampleCount(j.duration)
            available == Available(j.params, target)
        IN  /\ pc = "done" => /\ ~Refused(j) /\ Len(delivered) = target
                              /\ target > available => target - available < j.block
            /\ pc = "failed" /\ ~Refused(j) =>
                /\ available < target /\ Len(out) < target
                /\ Len(out) - available \in 0 .. j.block - 1

\* The samples of a job, all of them.
Whole(j) == Signal(JobParams(j), j.settings, SampleCount(j.duration))

\* What is heard of the first members at a sample of a mix.
Heard(sample, members) ==
    LET heard[k \in 0 .. members] ==
            IF k = 0 THEN <<>>
            ELSE LET j == use.jobs[k]
                     own == sample - Offset(j)
                 IN  IF own \in 1 .. SampleCount(j.duration) THEN Append(heard[k - 1], Whole(j)[own])
                     ELSE heard[k - 1]
    IN  heard[members]

\* The first instructions of a replay one after the other.
Joined(instructions) ==
    LET joined[k \in 0 .. instructions] ==
            IF k = 0 THEN <<>> ELSE joined[k - 1] \o Whole(use.jobs[k])
    IN  joined[instructions]

\* The buffer of a mix is the sum of its members, each within half a sample of
\* where its start puts it, that of a replay the instructions one after the
\* other; of a member that ends with its group at most one sample is cut off by
\* the rounding of the times (Runtime::run_single_channel, execute_channel_jobs
\* and run_replay).
BuffersAreSums ==
    LET Late(j) == 2 * (Offset(j) * TicksPerSample - (j.start - use.start))
        Fits(j) == j.duration > 0 /\ j.start + j.duration <= use.start + use.duration
    IN  pc = "done" =>
            /\ use.kind = "mix" =>
                /\ delivered = [i \in 1 .. Total |-> Heard(i, Len(use.jobs))]
                /\ \A k \in DOMAIN use.jobs :
                    /\ Late(use.jobs[k]) \in -TicksPerSample .. TicksPerSample
                    /\ Fits(use.jobs[k]) =>
                        Offset(use.jobs[k]) + SampleCount(use.jobs[k].duration) <= Total + 1
            /\ use.kind = "replay" => delivered = Joined(Len(use.jobs))
=============================================================================
