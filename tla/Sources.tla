------------------------------- MODULE Sources -------------------------------
(***************************************************************************)
(* The waveform sources of core/dsp/src.  A sample is a term that names    *)
(* what it is computed from; a phase counts the Turn-ths of a turn; the    *)
(* k-th number of a seeded generator is known by k.  Amplitudes scale a    *)
(* sample and are left out, as is the report of the metadata.              *)
(***************************************************************************)
EXTENDS Integers, SequencesExt

CONSTANTS Turn,          \* the parts of a full turn
          BatchSymbols,  \* the symbols ModulatorSource shapes at a time (64)
          Span           \* the span of its filter, in symbols (6)

ASSUME SourcesAssumption == {Turn, BatchSymbols, Span} \subseteq Nat \ {0} /\ Span <= BatchSymbols

None == -1               \* no duration
Zero == <<"zero">>       \* the sample 0

Phase(p) == p % Turn

\* Stands for the cosine of a phase.
Wave(p) == Phase(p)

\* Stands for the k-th number of a generator modulo n.
Draw(k, n) == ((k * (k + 3)) \div 2) % n

Types == {"cw", "am", "fm", "pm", "multi_tone", "chirp", "noise", "fsk", "ask", "pulse",
          "ofdm", "modulator", "file"}

\* The parameters of a source: total is the number of samples of its duration,
\* inc, mod and dev are a carrier's and a modulation's phase per sample and the
\* modulation's depth; valid is whether configure accepts them.
Params == [type |-> "cw", valid |-> TRUE, total |-> None, inc |-> 1, mod |-> 1, dev |-> 2,
           tones |-> <<>>, order |-> 2, sps |-> 2, pw |-> 1, pri |-> 2, single |-> FALSE,
           fft |-> 2, prefix |-> 1, active |-> 1, data |-> <<>>, loop |-> FALSE]

\* A source as configure leaves it - and its constructor, but for the generator
\* of a noise or OFDM source, which nothing has seeded yet.  Of a pulse, ready
\* says that prepare has counted the samples of its width and interval.
Configured(params) ==
    [params |-> params, ready |-> FALSE, produced |-> 0, phase |-> 0, draws |-> 0, within |-> 0,
     symbol |-> 0, buffer |-> <<>>, tail |-> <<>>, read |-> 0, done |-> FALSE]

\* configure: checks everything before it changes anything.
Configure(source, params) == IF params.valid THEN Configured(params) ELSE source

\* generate_next_symbol of FskSource and AskSource.
NextSymbol(source) ==
    [source EXCEPT !.symbol = Draw(source.draws, source.params.order), !.draws = @ + 1, !.within = 0]

\* What follows a reset of the counters: the first symbol is drawn, the memory
\* of the filter is zeros.
Start(source) ==
    CASE source.params.type \in {"fsk", "ask"} -> NextSymbol(source)
      [] source.params.type = "modulator" /\ source.ready ->
            [source EXCEPT !.tail = [i \in 1 .. Span * source.params.sps |-> Zero]]
      [] OTHER -> source

\* reset, and the end of prepare: the generator is seeded again, the phase, the
\* counters and the buffers start afresh.
Restart(source) == Start([Configured(source.params) EXCEPT !.ready = source.ready])

\* prepare throws: not a sample to a symbol, to a pulse or to its interval.  A
\* pulse has counted them by then.
CannotPrepare(params) ==
    \/ params.type \in {"fsk", "ask"} /\ params.sps = 0
    \/ params.type = "pulse" /\ 0 \in {params.pw, params.pri}

Prepare(source) ==
    IF ~CannotPrepare(source.params) THEN Restart([source EXCEPT !.ready = TRUE])
    ELSE IF source.params.type = "pulse" THEN [source EXCEPT !.ready = TRUE]
    ELSE source

-----------------------------------------------------------------------------
Least(m, n) == IF m < n THEN m ELSE n

\* compute_block_size.
Limit(source, max) == IF source.params.total = None THEN max ELSE Least(max, source.params.total - source.produced)

\* render_block throws: the source has not been prepared.
CannotRender(source, max) ==
    LET params == source.params
    IN  /\ max > 0
        /\ \/ params.type = "pulse" /\ ~source.done /\ (~source.ready \/ CannotPrepare(params))
           \/ params.type = "modulator" /\ ~source.ready
           \/ params.type \in {"fsk", "ask"} /\ ~source.ready /\ Limit(source, max) > 0

\* How many samples render_block produces.
BlockLength(source, max) ==
    LET params == source.params
        left == IF source.ready THEN Len(params.data) - source.read ELSE 0
    IN  CASE params.type = "chirp" /\ params.total = None -> 0
          [] params.type = "pulse" /\ source.done -> 0
          [] params.type = "file" ->
                IF left + source.read = 0 THEN 0
                ELSE IF params.loop THEN Limit(source, max) ELSE Least(left, Limit(source, max))
          [] OTHER -> Limit(source, max)

\* generate_ofdm_symbol: the transform of the active carriers' draws, behind its
\* last samples.
OfdmSymbol(source) ==
    LET params == source.params
        wave == [i \in 1 .. params.fft |-> <<"ofdm", source.draws, i - 1>>]
    IN  [source EXCEPT !.buffer = SubSeq(wave, params.fft - params.prefix + 1, params.fft) \o wave,
                       !.draws = @ + params.active]

\* The symbols of a batch, drawn from the first number on, with zeros between them.
UpsampledSymbols(params, first) ==
    [i \in 1 .. BatchSymbols * params.sps |->
        IF (i - 1) % params.sps = 0 THEN <<"symbol", first + (i - 1) \div params.sps>> ELSE Zero]

\* What the filter makes of them, behind the symbols it remembers.
ShapedBuffer(params, extended) ==
    LET taps == Span * params.sps
    IN  [n \in 1 .. BatchSymbols * params.sps |->
            <<"shaped", {<<k, extended[n + taps - k]>> : k \in {j \in 0 .. taps : extended[n + taps - j] # Zero}}>>]

ShapedBatch(source) ==
    LET params == source.params
        symbols == UpsampledSymbols(params, source.draws)
    IN  [source EXCEPT !.buffer = ShapedBuffer(params, source.tail \o symbols),
                       !.tail = SubSeq(symbols, (BatchSymbols - Span) * params.sps + 1, BatchSymbols * params.sps),
                       !.draws = @ + BatchSymbols]

Refill(source) ==
    IF source.buffer # <<>> THEN source
    ELSE CASE source.params.type = "ofdm" -> OfdmSymbol(source)
           [] source.params.type = "modulator" -> ShapedBatch(source)
           [] OTHER -> source

-----------------------------------------------------------------------------
(* One sample of each source, as its render_block computes it. *)

CwSample(source) == <<"cw", source.phase>>
AmSample(source) == <<"am", Wave(source.params.mod * source.produced), source.phase>>
PmSample(source) ==
    <<"pm", Phase(source.phase + source.params.dev * Wave(source.params.mod * source.produced))>>

\* These two move the phase before they use it.
FmStep(source) == source.params.inc + source.params.dev * Wave(source.params.mod * source.produced)
FmSample(source) == <<"fm", Phase(source.phase + FmStep(source))>>
FskStep(source) == source.params.inc + source.params.dev * source.symbol
FskSample(source) == <<"fsk", Phase(source.phase + FskStep(source))>>

AskSample(source) == <<"ask", source.symbol, source.phase>>
MultiToneSample(source) ==
    <<"tones", [t \in DOMAIN source.params.tones |-> Phase(source.params.tones[t] * source.produced)]>>
ChirpSample(source) ==
    <<"chirp", Phase(source.params.inc * source.produced + source.params.dev * source.produced * source.produced)>>

\* The real and the imaginary part, each drawn.
NoiseSample(source) == <<"noise", source.draws, source.draws + 1>>

PulseSample(source) ==
    IF source.produced % source.params.pri < source.params.pw THEN <<"pulse", source.phase>> ELSE Zero

\* A loop starts again from the first sample.
FileSample(source) ==
    LET data == source.params.data
    IN  <<"file", data[IF source.read = Len(data) THEN 1 ELSE source.read + 1]>>

\* OfdmSource and ModulatorSource hand out what is in their buffer.
BufferedSample(source) == Head(source.buffer)

Sample(source) ==
    CASE source.params.type = "cw" -> CwSample(source)
      [] source.params.type = "am" -> AmSample(source)
      [] source.params.type = "pm" -> PmSample(source)
      [] source.params.type = "fm" -> FmSample(source)
      [] source.params.type = "fsk" -> FskSample(source)
      [] source.params.type = "ask" -> AskSample(source)
      [] source.params.type = "multi_tone" -> MultiToneSample(source)
      [] source.params.type = "chirp" -> ChirpSample(source)
      [] source.params.type = "noise" -> NoiseSample(source)
      [] source.params.type = "pulse" -> PulseSample(source)
      [] source.params.type = "file" -> FileSample(source)
      [] OTHER -> BufferedSample(source)

\* By how much a sample moves the phase.
PhaseStep(source) ==
    CASE source.params.type = "fm" -> FmStep(source)
      [] source.params.type = "fsk" -> FskStep(source)
      [] source.params.type \in {"cw", "am", "pm", "ask", "pulse"} -> source.params.inc
      [] OTHER -> 0

\* The source after the sample.
Advance(source) ==
    LET params == source.params
        next == [source EXCEPT !.produced = @ + 1,
                               !.phase = Phase(@ + PhaseStep(source)),
                               !.within = @ + 1]
    IN  CASE params.type \in {"fsk", "ask"} /\ next.within = params.sps -> NextSymbol(next)
          [] params.type = "noise" -> [next EXCEPT !.draws = @ + 2]
          [] params.type \in {"ofdm", "modulator"} -> [next EXCEPT !.buffer = Tail(@)]
          [] params.type = "file" -> [next EXCEPT !.read = IF @ = Len(params.data) THEN 1 ELSE @ + 1]
          [] OTHER -> next

EmitSample(result) ==
    LET filled == Refill(result.source)
    IN  [source |-> Advance(filled), out |-> Append(result.out, Sample(filled))]

\* The loop of render_block.
Emitted(source, length) ==
    LET result[i \in 0 .. length] ==
            IF i = 0 THEN [source |-> source, out |-> <<>>] ELSE EmitSample(result[i - 1])
    IN  result[length]

\* A single pulse is over at the end of the block that reaches its interval,
\* which is 0 until it is counted; not when its duration was over before.
IsOver(source, produced) ==
    /\ source.params.single
    /\ source.params.total = None \/ source.produced < source.params.total
    /\ produced >= IF source.ready THEN source.params.pri ELSE 0

\* render_block.
Render(source, max) ==
    LET result == Emitted(source, BlockLength(source, max))
    IN  [result EXCEPT !.source.done = @ \/ IsOver(source, result.source.produced)]

=============================================================================
