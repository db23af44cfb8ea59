--------------------------- MODULE SignalPathProofs ---------------------------
(***************************************************************************)
(* That a signal does not depend on how it is cut into blocks, for every   *)
(* source, every chain of impairments and all their parameters.  Each      *)
(* counter, phase, buffer and delay line is a function of the number of    *)
(* samples before (At, StageAt); a sample takes each to its next value     *)
(* (Emits, Stages), and so does a block of any size.  From this follow how *)
(* a render ends, and what a mix and a replay are made of.                 *)
(***************************************************************************)
EXTENDS SignalPath, Induction

-----------------------------------------------------------------------------
(* Division. *)

LEMMA Multiples ==
    ASSUME NEW b \in Nat \ {0}, NEW q \in Int, q >= 1
    PROVE  b * q >= b /\ b * q \in Int
<1>1. PICK e \in Nat : q = 1 + e
  <2>1. q - 1 \in Nat /\ q = 1 + (q - 1)
    OBVIOUS
  <2>2. QED
    BY <2>1
<1>2. b * q = b + b * e /\ b * e \in Nat
  BY <1>1
<1>3. QED
  BY <1>2

LEMMA Division ==
    ASSUME NEW a \in Int, NEW b \in Nat \ {0}
    PROVE  /\ a \div b \in Int /\ a % b \in 0 .. b - 1
           /\ a = b * (a \div b) + (a % b)
OBVIOUS

\* What a quotient and a remainder must be.
LEMMA Quotient ==
    ASSUME NEW b \in Nat \ {0}, NEW q \in Int, NEW r \in 0 .. b - 1
    PROVE  (b * q + r) \div b = q /\ (b * q + r) % b = r
<1> DEFINE a == b * q + r
           d == a \div b
<1>1. a \in Int /\ d \in Int /\ a % b \in 0 .. b - 1 /\ a = b * d + (a % b)
  <2>1. a \in Int
    OBVIOUS
  <2> HIDE DEF a
  <2>2. QED
    BY <2>1, Division
<1>2. b * (d - q) = b * d - b * q /\ b * (q - d) = b * q - b * d
  BY <1>1
<1>3. ~(d - q >= 1)
  BY <1>1, <1>2, Multiples
<1>4. ~(q - d >= 1)
  BY <1>1, <1>2, Multiples
<1>5. d = q
  BY <1>1, <1>3, <1>4
<1>6. QED
  BY <1>1, <1>5

\* Counting on: the remainder starts again when it reaches the divisor.
LEMMA CountsOn ==
    ASSUME NEW n \in Nat, NEW b \in Nat \ {0}
    PROVE  /\ n \div b \in Nat
           /\ IF (n % b) + 1 = b
              THEN (n + 1) \div b = (n \div b) + 1 /\ (n + 1) % b = 0
              ELSE (n + 1) \div b = n \div b /\ (n + 1) % b = (n % b) + 1
<1> DEFINE q == n \div b
           r == n % b
<1>1. q \in Int /\ r \in 0 .. b - 1 /\ n = b * q + r
  BY Division
<1>2. q \in Nat
  OBVIOUS
<1> HIDE DEF q, r
<1>3. CASE r + 1 = b
  <2>1. n + 1 = b * (q + 1) + 0
    BY <1>1, <1>3
  <2>2. (n + 1) \div b = q + 1 /\ (n + 1) % b = 0
    BY <2>1, <1>1, Quotient
  <2>3. QED
    BY <1>2, <1>3, <2>2 DEF q, r
<1>4. CASE r + 1 # b
  <2>1. n + 1 = b * q + (r + 1) /\ r + 1 \in 0 .. b - 1
    BY <1>1, <1>4
  <2>2. (n + 1) \div b = q /\ (n + 1) % b = r + 1
    BY <2>1, <1>1, Quotient
  <2>3. QED
    BY <1>2, <1>4, <2>2 DEF q, r
<1>5. QED
  BY <1>3, <1>4

\* A phase may be brought back into one turn before it is moved on.
LEMMA PhaseAdds ==
    ASSUME NEW a \in Int, NEW b \in Int
    PROVE  Phase(Phase(a) + b) = Phase(a + b) /\ Phase(a) \in Nat
<1> DEFINE q == a \div Turn
           d == (Phase(a) + b) \div Turn
           r == (Phase(a) + b) % Turn
<1>1. Turn \in Nat \ {0}
  BY SourcesAssumption
<1>2. q \in Int /\ Phase(a) \in 0 .. Turn - 1 /\ a = Turn * q + Phase(a)
  BY <1>1, Division DEF Phase
<1>3. d \in Int /\ r \in 0 .. Turn - 1 /\ Phase(a) + b = Turn * d + r
  <2> DEFINE x == Phase(a) + b
  <2>1. x \in Int
    BY <1>1, <1>2
  <2> HIDE DEF x
  <2>2. x \div Turn \in Int /\ x % Turn \in 0 .. Turn - 1 /\ x = Turn * (x \div Turn) + (x % Turn)
    BY <1>1, <2>1, Division
  <2>3. QED
    BY <2>2 DEF x
<1> HIDE DEF q, d, r
<1>4. a + b = Turn * (q + d) + r
  <2>1. Turn * (q + d) = Turn * q + Turn * d
    BY <1>1, <1>2, <1>3
  <2>2. QED
    BY <2>1, <1>1, <1>2, <1>3
<1>5. (a + b) % Turn = r
  <2>1. q + d \in Int
    BY <1>2, <1>3
  <2>2. (Turn * (q + d) + r) % Turn = r
    BY <2>1, <1>1, <1>3, Quotient
  <2>3. QED
    BY <2>2, <1>4
<1>6. QED
  BY <1>2, <1>5 DEF Phase, r

-----------------------------------------------------------------------------
(* Sequences. *)

HasLength(f, n) == f = [i \in 1 .. n |-> f[i]]

LEMMA SequenceIs ==
    ASSUME NEW n \in Nat, NEW f, HasLength(f, n)
    PROVE  Len(f) = n /\ f \in Seq({f[i] : i \in 1 .. n}) /\ DOMAIN f = 1 .. n
BY DEF HasLength

LEMMA Sequenced ==
    ASSUME NEW S, NEW f \in Seq(S)
    PROVE  HasLength(f, Len(f))
BY DEF HasLength

LEMMA TailIs ==
    ASSUME NEW n \in Nat, NEW f, HasLength(f, n + 1)
    PROVE  Head(f) = f[1] /\ Tail(f) = [i \in 1 .. n |-> f[i + 1]]
<1> DEFINE V == {f[i] : i \in 1 .. n + 1}
           g == Tail(f)
<1>1. f \in Seq(V) /\ Len(f) = n + 1
  BY SequenceIs
<1> HIDE DEF V
<1>2. Head(f) = f[1] /\ g \in Seq(V) /\ Len(g) = n
  BY <1>1
<1>3. \A i \in 1 .. n : g[i] = f[i + 1]
  BY <1>1
<1> HIDE DEF g
<1>4. g = [i \in 1 .. n |-> g[i]]
  BY <1>2, Sequenced DEF HasLength
<1>5. QED
  BY <1>2, <1>3, <1>4 DEF g

LEMMA ConcatIs ==
    ASSUME NEW m \in Nat, NEW n \in Nat, NEW f, NEW g, HasLength(f, m), HasLength(g, n)
    PROVE  f \o g = [i \in 1 .. m + n |-> IF i <= m THEN f[i] ELSE g[i - m]]
<1> DEFINE V == {f[i] : i \in 1 .. m} \cup {g[i] : i \in 1 .. n}
           h == f \o g
<1>1. f \in Seq(V) /\ Len(f) = m
  <2>1. f \in [1 .. m -> V]
    BY DEF HasLength
  <2> HIDE DEF V
  <2>2. QED
    BY <2>1
<1>2. g \in Seq(V) /\ Len(g) = n
  <2>1. g \in [1 .. n -> V]
    BY DEF HasLength
  <2> HIDE DEF V
  <2>2. QED
    BY <2>1
<1> HIDE DEF V
<1>3. h \in Seq(V) /\ Len(h) = m + n
  BY <1>1, <1>2
<1>4. \A i \in 1 .. m + n : h[i] = IF i <= m THEN f[i] ELSE g[i - m]
  BY <1>1, <1>2
<1> HIDE DEF h
<1>5. h = [i \in 1 .. m + n |-> h[i]]
  BY <1>3, Sequenced DEF HasLength
<1>6. QED
  BY <1>4, <1>5 DEF h

LEMMA SubSeqIs ==
    ASSUME NEW n \in Nat, NEW f, HasLength(f, n), NEW a \in 1 .. n + 1
    PROVE  SubSeq(f, a, n) = [i \in 1 .. n - a + 1 |-> f[a + i - 1]]
BY DEF HasLength

LEMMA AppendIs ==
    ASSUME NEW n \in Nat, NEW f, HasLength(f, n), NEW x
    PROVE  Append(f, x) = [i \in 1 .. n + 1 |-> IF i <= n THEN f[i] ELSE x]
BY DEF HasLength

-----------------------------------------------------------------------------
(* Recursive functions: two that obey one recurrence agree, and a recurrence *)
(* within a set has a solution.                                              *)

Alongside(f, g, n) == /\ f[0] = g[0]
                      /\ \A i \in 1 .. n : f[i - 1] = g[i - 1] => f[i] = g[i]
Agree(f, g, n) == \A i \in 0 .. n : f[i] = g[i]

LEMMA Alike ==
    ASSUME NEW N \in Nat, NEW f, NEW g, Alongside(f, g, N)
    PROVE  Agree(f, g, N)
<1> USE DEF Alongside, Agree
<1> DEFINE S == {i \in 0 .. N : f[i] = g[i]}
<1>1. 0 \in S
  OBVIOUS
<1>2. \A n \in 0 .. N : n \in S /\ n < N => n + 1 \in S
  <2>1. ASSUME NEW n \in 0 .. N, f[n] = g[n], n < N PROVE f[n + 1] = g[n + 1]
    <3>1. n + 1 \in 1 .. N /\ (n + 1) - 1 = n
      BY <2>1
    <3>2. QED
      BY <2>1, <3>1
  <2>2. QED
    BY <2>1
<1>3. 0 .. N \subseteq S
  <2> HIDE DEF S
  <2>1. QED
    BY <1>1, <1>2, UpToBound
<1>4. QED
  BY <1>3

Stays(S, step, n) == \A i \in 1 .. n : \A s \in S : step[i][s] \in S

IsIterated(g, b, step, n) ==
    /\ DOMAIN g = 0 .. n /\ g[0] = b
    /\ \A i \in 1 .. n : g[i] = step[i][g[i - 1]]

LEMMA Iterates ==
    ASSUME NEW N \in Nat, NEW S, NEW b \in S, NEW step, Stays(S, step, N)
    PROVE  \E g \in [0 .. N -> S] : IsIterated(g, b, step, N)
<1> DEFINE D == {n \in 0 .. N : \E g \in [0 .. n -> S] : IsIterated(g, b, step, n)}
<1>1. 0 \in D
  <2> DEFINE g == [i \in 0 .. 0 |-> b]
  <2>1. g \in [0 .. 0 -> S] /\ IsIterated(g, b, step, 0)
    BY DEF IsIterated
  <2> HIDE DEF g
  <2>2. QED
    BY <2>1
<1>2. ASSUME NEW n \in 0 .. N, n \in D, n < N PROVE n + 1 \in D
  <2>0. n \in Nat /\ n + 1 \in 1 .. N
    BY <1>2
  <2>1. PICK g \in [0 .. n -> S] : IsIterated(g, b, step, n)
    BY <1>2
  <2> DEFINE h == [i \in 0 .. n + 1 |-> IF i = n + 1 THEN step[n + 1][g[n]] ELSE g[i]]
  <2>2. step[n + 1][g[n]] \in S
    <3>1. g[n] \in S
      BY <2>0, <2>1
    <3>2. QED
      BY <2>0, <3>1 DEF Stays
  <2>3. h \in [0 .. n + 1 -> S]
    BY <2>0, <2>1, <2>2
  <2>4. \A i \in 0 .. n : h[i] = g[i]
    BY <2>0
  <2>5. h[n + 1] = step[n + 1][g[n]] /\ DOMAIN h = 0 .. n + 1
    BY <2>0
  <2> HIDE DEF h
  <2>6. ASSUME NEW i \in 1 .. n + 1 PROVE h[i] = step[i][h[i - 1]]
    <3>1. CASE i = n + 1
      <4>1. h[i - 1] = g[n]
        BY <2>0, <2>4, <3>1
      <4>2. QED
        BY <2>5, <3>1, <4>1
    <3>2. CASE i \in 1 .. n
      <4>1. h[i - 1] = g[i - 1] /\ h[i] = g[i]
        BY <2>0, <2>4, <3>2
      <4>2. g[i] = step[i][g[i - 1]]
        BY <2>1, <3>2 DEF IsIterated
      <4>3. QED
        BY <4>1, <4>2
    <3>3. QED
      BY <2>0, <3>1, <3>2
  <2>7. h[0] = b
    BY <2>0, <2>1, <2>4 DEF IsIterated
  <2>8. IsIterated(h, b, step, n + 1)
    BY <2>5, <2>6, <2>7 DEF IsIterated
  <2>9. QED
    BY <1>2, <2>0, <2>3, <2>8
<1>3. 0 .. N \subseteq D
  <2> HIDE DEF D
  <2>1. \A n \in 0 .. N : n \in D /\ n < N => n + 1 \in D
    BY <1>2
  <2>2. QED
    BY <1>1, <2>1, UpToBound
<1>4. QED
  BY <1>3

\* A sum of numbers has one more summand.
IsSum(sum, steps, n) ==
    sum = [i \in 0 .. n |-> IF i = 0 THEN steps[0] ELSE sum[i - 1] + steps[i]]

LEMMA SumIs ==
    ASSUME NEW n \in Nat, NEW steps, \A i \in 0 .. n : steps[i] \in Int
    PROVE  \E sum \in [0 .. n -> Int] : IsSum(sum, steps, n) /\ Accumulated(steps, n) = sum[n]
<1> DEFINE step == [i \in 1 .. n |-> [s \in Int |-> s + steps[i]]]
<1>1. PICK g \in [0 .. n -> Int] : IsIterated(g, steps[0], step, n)
  <2>1. Stays(Int, step, n)
    BY DEF Stays
  <2>2. steps[0] \in Int
    OBVIOUS
  <2> HIDE DEF step
  <2>3. QED
    BY <2>1, <2>2, Iterates
<1>2. \A i \in 1 .. n : step[i][g[i - 1]] = g[i - 1] + steps[i]
  <2>1. \A i \in 1 .. n : g[i - 1] \in Int
    OBVIOUS
  <2>2. QED
    BY <2>1
<1>3. IsSum(g, steps, n)
  <2>1. \A i \in 0 .. n : g[i] = IF i = 0 THEN steps[0] ELSE g[i - 1] + steps[i]
    <3> HIDE DEF step
    <3>1. QED
      BY <1>1, <1>2 DEF IsIterated
  <2>2. g = [i \in 0 .. n |-> g[i]]
    OBVIOUS
  <2>3. QED
    BY <2>1, <2>2, Zenon DEF IsSum
<1> DEFINE f == CHOOSE sum : IsSum(sum, steps, n)
<1>4. IsSum(f, steps, n) /\ Accumulated(steps, n) = f[n]
  <2>1. IsSum(f, steps, n)
    BY <1>3, Zenon
  <2>2. QED
    BY <2>1, Zenon DEF Accumulated, IsSum
<1> HIDE DEF f, step
<1>5. Agree(f, g, n)
  <2>1. Alongside(f, g, n)
    BY <1>3, <1>4 DEF IsSum, Alongside
  <2>2. QED
    BY <2>1, Alike
<1>6. QED
  BY <1>3, <1>4, <1>5 DEF Agree

LEMMA SumStarts ==
    ASSUME NEW steps, steps[0] \in Int
    PROVE  Accumulated(steps, 0) = steps[0]
<1>1. PICK sum \in [0 .. 0 -> Int] : IsSum(sum, steps, 0) /\ Accumulated(steps, 0) = sum[0]
  <2>1. 0 \in Nat /\ \A i \in 0 .. 0 : steps[i] \in Int
    OBVIOUS
  <2>2. QED
    BY <2>1, SumIs
<1>2. QED
  BY <1>1 DEF IsSum

Continues(steps, more, n) == /\ \A i \in 0 .. n : steps[i] = more[i]
                             /\ \A i \in 0 .. n + 1 : more[i] \in Int

LEMMA SumMore ==
    ASSUME NEW n \in Nat, NEW steps, NEW more, Continues(steps, more, n)
    PROVE  /\ Accumulated(steps, n) \in Int
           /\ Accumulated(more, n + 1) = Accumulated(steps, n) + more[n + 1]
<1> USE DEF Continues
<1>1. PICK f \in [0 .. n -> Int] : IsSum(f, steps, n) /\ Accumulated(steps, n) = f[n]
  <2>1. \A i \in 0 .. n : steps[i] \in Int
    OBVIOUS
  <2>2. QED
    BY <2>1, SumIs
<1>2. PICK g \in [0 .. n + 1 -> Int] : IsSum(g, more, n + 1) /\ Accumulated(more, n + 1) = g[n + 1]
  <2>1. n + 1 \in Nat
    OBVIOUS
  <2>2. QED
    BY <2>1, SumIs
<1>3. Agree(f, g, n)
  <2>1. Alongside(f, g, n)
    BY <1>1, <1>2 DEF IsSum, Alongside
  <2>2. QED
    BY <2>1, Alike
<1>4. g[n + 1] = g[n] + more[n + 1]
  BY <1>2 DEF IsSum
<1>5. QED
  BY <1>1, <1>2, <1>3, <1>4 DEF Agree

-----------------------------------------------------------------------------
(* The source before the n-th sample of its stream. *)

\* How many samples OfdmSource and ModulatorSource make at a time, and how often
\* they have done so.
Batch(p) == IF p.type = "ofdm" THEN p.fft + p.prefix ELSE BatchSymbols * p.sps
Batches(p, n) == IF n % Batch(p) = 0 THEN n \div Batch(p) ELSE n \div Batch(p) + 1

IsKeyed(p) == p.type \in {"fsk", "ask"}
IsBatched(p) == p.type \in {"ofdm", "modulator"}

\* The symbol that FskSource and AskSource are in.
SymbolOf(p, n) == IF n = 0 THEN 0 ELSE n \div p.sps

FmStepAt(p, i) == p.inc + p.dev * Wave(p.mod * i)
FskStepAt(p, i) == p.inc + p.dev * Draw(i \div p.sps, p.order)

PhaseAt(p, n) ==
    CASE p.type = "fm" -> IF n = 0 THEN 0 ELSE Phase(Accumulated([i \in 0 .. n - 1 |-> FmStepAt(p, i)], n - 1))
      [] p.type = "fsk" -> IF n = 0 THEN 0 ELSE Phase(Accumulated([i \in 0 .. n - 1 |-> FskStepAt(p, i)], n - 1))
      [] p.type \in {"cw", "am", "pm", "ask", "pulse"} -> Phase(n * p.inc)
      [] OTHER -> 0

DrawsAt(p, n) ==
    CASE IsKeyed(p) -> SymbolOf(p, n) + 1
      [] p.type = "noise" -> 2 * n
      [] p.type = "ofdm" -> p.active * Batches(p, n)
      [] p.type = "modulator" -> BatchSymbols * Batches(p, n)
      [] OTHER -> 0

\* What is left of the batch at hand.
Ahead(p, n) == IF IsBatched(p) THEN Batch(p) * Batches(p, n) - n ELSE 0
BufferAt(p, n) == [i \in 1 .. Ahead(p, n) |-> Reference(p, n + i - 1)]

\* The symbols with zeros between them, and the last of them that the filter
\* remembers.
Upsampled(p, m) == IF m >= 0 /\ m % p.sps = 0 THEN <<"symbol", m \div p.sps>> ELSE Zero
Taps(p) == Span * p.sps
TailAt(p, ready, n) ==
    IF p.type = "modulator" /\ ready
    THEN [i \in 1 .. Taps(p) |-> Upsampled(p, Batch(p) * Batches(p, n) - Taps(p) + i - 1)]
    ELSE <<>>

WithinAt(p, n) == IF IsKeyed(p) /\ n > 0 THEN n % p.sps ELSE n
SymbolAt(p, n) == IF IsKeyed(p) THEN Draw(SymbolOf(p, n), p.order) ELSE 0
ReadAt(p, n) == IF p.type = "file" /\ n > 0 THEN 1 + ((n - 1) % Len(p.data)) ELSE 0

At(p, ready, done, n) ==
    [params |-> p, ready |-> ready, produced |-> n, phase |-> PhaseAt(p, n), draws |-> DrawsAt(p, n),
     within |-> WithinAt(p, n), symbol |-> SymbolAt(p, n), buffer |-> BufferAt(p, n),
     tail |-> TailAt(p, ready, n), read |-> ReadAt(p, n), done |-> done]

\* What render_block asks of a source before it produces the n-th sample.
CanEmit(p, ready, n) ==
    /\ IsParams(p) /\ p.valid
    /\ p.type \in {"pulse", "modulator", "fsk", "ask"} => ready /\ ~CannotPrepare(p)
    /\ p.type = "file" => Len(p.data) > 0 /\ (p.loop \/ n < Len(p.data))

-----------------------------------------------------------------------------
(* One sample of each source. *)

Emits(p, ready, done, n) ==
    /\ Advance(Refill(At(p, ready, done, n))) = At(p, ready, done, n + 1)
    /\ Sample(Refill(At(p, ready, done, n))) = Reference(p, n)

\* The phase of a source that adds the same to it for each sample.
LEMMA CarrierMoves ==
    ASSUME NEW inc \in Int, NEW n \in Nat
    PROVE  Phase(Phase(n * inc) + inc) = Phase((n + 1) * inc)
<1>1. n * inc \in Int /\ n * inc + inc = (n + 1) * inc
  OBVIOUS
<1>2. QED
  BY <1>1, PhaseAdds

LEMMA PlainEmits ==
    ASSUME NEW p, NEW ready \in BOOLEAN, NEW done \in BOOLEAN, NEW n \in Nat, CanEmit(p, ready, n),
           p.type \in {"cw", "am", "pm", "pulse"}
    PROVE  Emits(p, ready, done, n)
<1>1. p.inc \in Int
  BY DEF CanEmit, IsParams
<1>2. PhaseAt(p, n) = Phase(n * p.inc) /\ Phase(PhaseAt(p, n) + p.inc) = PhaseAt(p, n + 1)
  BY <1>1, CarrierMoves DEF PhaseAt
<1>3. BufferAt(p, n) = <<>> /\ BufferAt(p, n + 1) = <<>>
  BY DEF BufferAt, Ahead, IsBatched
<1>4. /\ DrawsAt(p, n) = 0 /\ DrawsAt(p, n + 1) = 0 /\ SymbolAt(p, n) = SymbolAt(p, n + 1)
      /\ TailAt(p, ready, n) = TailAt(p, ready, n + 1) /\ ReadAt(p, n) = ReadAt(p, n + 1)
      /\ WithinAt(p, n + 1) = WithinAt(p, n) + 1
  BY DEF DrawsAt, SymbolAt, TailAt, ReadAt, WithinAt, IsKeyed
<1> DEFINE src == At(p, ready, done, n)
<1>5. Refill(src) = src
  BY DEF Refill, At
<1>6. Advance(src) = At(p, ready, done, n + 1)
  BY <1>2, <1>3, <1>4 DEF Advance, At, PhaseStep
<1>7. Sample(src) = Reference(p, n)
  BY <1>2 DEF Sample, Reference, At, CwSample, AmSample, PmSample, PulseSample
<1>8. QED
  BY <1>5, <1>6, <1>7 DEF Emits

LEMMA SteadyEmits ==
    ASSUME NEW p, NEW ready \in BOOLEAN, NEW done \in BOOLEAN, NEW n \in Nat, CanEmit(p, ready, n),
           p.type \in {"multi_tone", "chirp", "noise"}
    PROVE  Emits(p, ready, done, n)
<1>1. PhaseAt(p, n) = 0 /\ PhaseAt(p, n + 1) = 0 /\ Phase(0 + 0) = 0
  BY SourcesAssumption DEF PhaseAt, Phase
<1>2. BufferAt(p, n) = <<>> /\ BufferAt(p, n + 1) = <<>>
  BY DEF BufferAt, Ahead, IsBatched
<1>3. /\ SymbolAt(p, n) = SymbolAt(p, n + 1)
      /\ TailAt(p, ready, n) = TailAt(p, ready, n + 1) /\ ReadAt(p, n) = ReadAt(p, n + 1)
      /\ WithinAt(p, n + 1) = WithinAt(p, n) + 1
  BY DEF SymbolAt, TailAt, ReadAt, WithinAt, IsKeyed
<1>4. IF p.type = "noise" THEN DrawsAt(p, n) = 2 * n /\ DrawsAt(p, n + 1) = DrawsAt(p, n) + 2
                          ELSE DrawsAt(p, n) = DrawsAt(p, n + 1)
  BY DEF DrawsAt, IsKeyed
<1> DEFINE src == At(p, ready, done, n)
<1>5. Refill(src) = src
  BY DEF Refill, At
<1>6. PhaseStep(src) = 0
  BY DEF PhaseStep, At
<1>7. Advance(src) = At(p, ready, done, n + 1)
  BY <1>1, <1>2, <1>3, <1>4, <1>6 DEF Advance, At
<1>8. Sample(src) = Reference(p, n)
  BY <1>4 DEF Sample, Reference, At, MultiToneSample, ChirpSample, NoiseSample
<1>9. QED
  BY <1>5, <1>7, <1>8 DEF Emits

\* The phase of a source that adds a different number for each sample.
LEMMA SumMoves ==
    ASSUME NEW n \in Nat, NEW steps, NEW more, more[0] \in Int,
           n > 0 => Continues(steps, more, n - 1)
    PROVE  Phase((IF n = 0 THEN 0 ELSE Phase(Accumulated(steps, n - 1))) + more[n])
              = Phase(Accumulated(more, n))
<1>1. CASE n = 0
  BY <1>1, SumStarts
<1>2. CASE n > 0
  <2>1. n - 1 \in Nat /\ (n - 1) + 1 = n
    BY <1>2
  <2>2. Accumulated(steps, n - 1) \in Int /\ Accumulated(more, n) = Accumulated(steps, n - 1) + more[n]
    BY <1>2, <2>1, SumMore
  <2>3. more[n] \in Int
    BY <1>2, <2>1 DEF Continues
  <2> DEFINE a == Accumulated(steps, n - 1)
  <2> HIDE DEF a
  <2>4. Phase(Phase(a) + more[n]) = Phase(a + more[n])
    BY <2>2, <2>3, PhaseAdds DEF a
  <2>5. QED
    BY <1>2, <2>2, <2>4 DEF a
<1>3. QED
  BY <1>1, <1>2

LEMMA FmEmits ==
    ASSUME NEW p, NEW ready \in BOOLEAN, NEW done \in BOOLEAN, NEW n \in Nat, CanEmit(p, ready, n),
           p.type = "fm"
    PROVE  Emits(p, ready, done, n)
<1> DEFINE steps == [i \in 0 .. n - 1 |-> FmStepAt(p, i)]
           more == [i \in 0 .. n |-> FmStepAt(p, i)]
<1>1. p.inc \in Int /\ p.mod \in Int /\ p.dev \in Int
  BY DEF CanEmit, IsParams
<1>2. \A i \in Nat : FmStepAt(p, i) \in Int
  BY <1>1, SourcesAssumption DEF FmStepAt, Wave, Phase
<1>3. more[0] \in Int /\ (n > 0 => Continues(steps, more, n - 1)) /\ more[n] = FmStepAt(p, n)
  BY <1>2 DEF Continues
<1>4. Phase(PhaseAt(p, n) + FmStepAt(p, n)) = Phase(Accumulated(more, n))
  <2>1. PhaseAt(p, n) = IF n = 0 THEN 0 ELSE Phase(Accumulated(steps, n - 1))
    BY DEF PhaseAt
  <2> HIDE DEF steps, more
  <2>2. QED
    BY <1>3, <2>1, SumMoves
<1>5. PhaseAt(p, n + 1) = Phase(Accumulated(more, n))
  BY DEF PhaseAt
<1>6. Reference(p, n) = <<"fm", Phase(Accumulated(more, n))>>
  BY DEF Reference, FmStepAt
<1> HIDE DEF steps, more
<1>7. BufferAt(p, n) = <<>> /\ BufferAt(p, n + 1) = <<>>
  BY DEF BufferAt, Ahead, IsBatched
<1>8. /\ DrawsAt(p, n) = 0 /\ DrawsAt(p, n + 1) = 0 /\ SymbolAt(p, n) = SymbolAt(p, n + 1)
      /\ TailAt(p, ready, n) = TailAt(p, ready, n + 1) /\ ReadAt(p, n) = ReadAt(p, n + 1)
      /\ WithinAt(p, n + 1) = WithinAt(p, n) + 1
  BY DEF DrawsAt, SymbolAt, TailAt, ReadAt, WithinAt, IsKeyed
<1> DEFINE src == At(p, ready, done, n)
<1>9. Refill(src) = src
  BY DEF Refill, At
<1>10. FmStep(src) = FmStepAt(p, n) /\ PhaseStep(src) = FmStepAt(p, n)
  BY DEF FmStep, PhaseStep, FmStepAt, At
<1>11. Advance(src) = At(p, ready, done, n + 1)
  BY <1>4, <1>5, <1>7, <1>8, <1>10 DEF Advance, At
<1>12. Sample(src) = Reference(p, n)
  BY <1>4, <1>6, <1>10 DEF Sample, FmSample, At
<1>13. QED
  BY <1>9, <1>11, <1>12 DEF Emits

\* Counting on in symbols.
LEMMA KeyMoves ==
    ASSUME NEW p, NEW n \in Nat, IsKeyed(p), p.sps \in Nat \ {0}
    PROVE  /\ SymbolOf(p, n) = n \div p.sps /\ WithinAt(p, n) = n % p.sps /\ n \div p.sps \in Nat
           /\ WithinAt(p, n) \in Nat
           /\ IF WithinAt(p, n) + 1 = p.sps
              THEN SymbolOf(p, n + 1) = SymbolOf(p, n) + 1 /\ WithinAt(p, n + 1) = 0
              ELSE SymbolOf(p, n + 1) = SymbolOf(p, n) /\ WithinAt(p, n + 1) = WithinAt(p, n) + 1
<1>1. 0 \div p.sps = 0 /\ 0 % p.sps = 0
  <2>1. 0 = p.sps * 0 + 0
    OBVIOUS
  <2>2. QED
    BY <2>1, Quotient
<1>2. SymbolOf(p, n) = n \div p.sps /\ WithinAt(p, n) = n % p.sps
  BY <1>1 DEF SymbolOf, WithinAt
<1>3. SymbolOf(p, n + 1) = (n + 1) \div p.sps /\ WithinAt(p, n + 1) = (n + 1) % p.sps
  BY DEF SymbolOf, WithinAt
<1>4. n % p.sps \in Nat
  OBVIOUS
<1>5. /\ n \div p.sps \in Nat
      /\ IF (n % p.sps) + 1 = p.sps
         THEN (n + 1) \div p.sps = (n \div p.sps) + 1 /\ (n + 1) % p.sps = 0
         ELSE (n + 1) \div p.sps = n \div p.sps /\ (n + 1) % p.sps = (n % p.sps) + 1
  BY CountsOn
<1>6. QED
  BY <1>2, <1>3, <1>4, <1>5

LEMMA KeyedEmits ==
    ASSUME NEW p, NEW ready \in BOOLEAN, NEW done \in BOOLEAN, NEW n \in Nat, CanEmit(p, ready, n),
           IsKeyed(p)
    PROVE  Emits(p, ready, done, n)
<1> DEFINE steps == [i \in 0 .. n - 1 |-> FskStepAt(p, i)]
           more == [i \in 0 .. n |-> FskStepAt(p, i)]
<1>1. /\ p.inc \in Int /\ p.dev \in Int /\ p.order \in Nat \ {0} /\ p.sps \in Nat \ {0}
      /\ p.type = "fsk" \/ p.type = "ask"
  BY DEF CanEmit, IsParams, IsKeyed, CannotPrepare
<1>2. \A i \in Nat : FskStepAt(p, i) \in Int
  <2>1. \A i \in Nat : i \div p.sps \in Nat
    BY <1>1
  <2>2. \A k \in Nat : (k * (k + 3)) \div 2 \in Int
    OBVIOUS
  <2>3. \A k \in Nat : Draw(k, p.order) \in Int
    BY <1>1, <2>2 DEF Draw
  <2>4. QED
    BY <1>1, <2>1, <2>3 DEF FskStepAt
<1>3. more[0] \in Int /\ (n > 0 => Continues(steps, more, n - 1)) /\ more[n] = FskStepAt(p, n)
  BY <1>2 DEF Continues
<1>4. ASSUME p.type = "fsk"
      PROVE  /\ Phase(PhaseAt(p, n) + FskStepAt(p, n)) = Phase(Accumulated(more, n))
             /\ PhaseAt(p, n + 1) = Phase(Accumulated(more, n))
             /\ Reference(p, n) = <<"fsk", Phase(Accumulated(more, n))>>
  <2>1. PhaseAt(p, n) = IF n = 0 THEN 0 ELSE Phase(Accumulated(steps, n - 1))
    BY <1>4 DEF PhaseAt
  <2>2. PhaseAt(p, n + 1) = Phase(Accumulated(more, n))
    BY <1>4 DEF PhaseAt
  <2>3. Reference(p, n) = <<"fsk", Phase(Accumulated(more, n))>>
    BY <1>4 DEF Reference, FskStepAt
  <2> HIDE DEF steps, more
  <2>4. QED
    BY <1>3, <2>1, <2>2, <2>3, SumMoves
<1>5. ASSUME p.type = "ask"
      PROVE  PhaseAt(p, n) = Phase(n * p.inc) /\ Phase(PhaseAt(p, n) + p.inc) = PhaseAt(p, n + 1)
  BY <1>1, <1>5, CarrierMoves DEF PhaseAt
<1> HIDE DEF steps, more
<1>6. BufferAt(p, n) = <<>> /\ BufferAt(p, n + 1) = <<>>
  BY <1>1 DEF BufferAt, Ahead, IsBatched
<1>7. TailAt(p, ready, n) = TailAt(p, ready, n + 1) /\ ReadAt(p, n) = 0 /\ ReadAt(p, n + 1) = 0
  BY <1>1 DEF TailAt, ReadAt
<1> DEFINE src == At(p, ready, done, n)
           step == IF p.type = "fsk" THEN FskStepAt(p, n) ELSE p.inc
           next == [src EXCEPT !.produced = @ + 1, !.phase = Phase(@ + PhaseStep(src)), !.within = @ + 1]
<1>8. /\ DrawsAt(p, n) = SymbolOf(p, n) + 1 /\ DrawsAt(p, n + 1) = SymbolOf(p, n + 1) + 1
      /\ SymbolAt(p, n) = Draw(SymbolOf(p, n), p.order) /\ SymbolAt(p, n + 1) = Draw(SymbolOf(p, n + 1), p.order)
  BY <1>1 DEF DrawsAt, SymbolAt, IsKeyed
<1>9. Refill(src) = src
  BY <1>1 DEF Refill, At
<1>10. PhaseStep(src) = step /\ (p.type = "fsk" => FskStep(src) = step)
  BY <1>1, <1>8, KeyMoves DEF FskStep, PhaseStep, FskStepAt, At
<1>11. Phase(PhaseAt(p, n) + step) = PhaseAt(p, n + 1)
  BY <1>1, <1>4, <1>5
<1>12. next = [params |-> p, ready |-> ready, produced |-> n + 1, phase |-> PhaseAt(p, n + 1),
               draws |-> DrawsAt(p, n), within |-> WithinAt(p, n) + 1, symbol |-> SymbolAt(p, n),
               buffer |-> BufferAt(p, n), tail |-> TailAt(p, ready, n), read |-> ReadAt(p, n), done |-> done]
  <2> HIDE DEF step
  <2>1. /\ src.produced = n /\ src.phase = PhaseAt(p, n) /\ src.within = WithinAt(p, n)
        /\ Phase(src.phase + PhaseStep(src)) = PhaseAt(p, n + 1)
    BY <1>10, <1>11 DEF At
  <2>2. next = [src EXCEPT !.produced = n + 1, !.phase = PhaseAt(p, n + 1), !.within = WithinAt(p, n) + 1]
    BY <2>1, Zenon
  <2>3. src = [params |-> p, ready |-> ready, produced |-> n, phase |-> PhaseAt(p, n),
               draws |-> DrawsAt(p, n), within |-> WithinAt(p, n), symbol |-> SymbolAt(p, n),
               buffer |-> BufferAt(p, n), tail |-> TailAt(p, ready, n), read |-> ReadAt(p, n), done |-> done]
    BY DEF At
  <2> HIDE DEF next, src
  <2>4. QED
    BY <2>2, <2>3
<1>13. Advance(src) = IF WithinAt(p, n) + 1 = p.sps THEN NextSymbol(next) ELSE next
  <2>1. src.params = p /\ src.within = WithinAt(p, n) /\ next.within = WithinAt(p, n) + 1
    BY DEF At
  <2>2. QED
    BY <1>1, <2>1 DEF Advance
<1>14. Advance(src) = At(p, ready, done, n + 1)
  <2> HIDE DEF next, step, src
  <2>1. CASE WithinAt(p, n) + 1 = p.sps
    <3>1. /\ DrawsAt(p, n) = SymbolOf(p, n + 1) /\ WithinAt(p, n + 1) = 0
          /\ DrawsAt(p, n + 1) = DrawsAt(p, n) + 1 /\ SymbolAt(p, n + 1) = Draw(DrawsAt(p, n), p.order)
      BY <1>1, <1>8, <2>1, KeyMoves
    <3>2. NextSymbol(next) = [next EXCEPT !.symbol = SymbolAt(p, n + 1), !.draws = DrawsAt(p, n + 1), !.within = 0]
      BY <1>12, <3>1 DEF NextSymbol
    <3>4. NextSymbol(next) = At(p, ready, done, n + 1)
      BY <1>6, <1>7, <1>12, <3>1, <3>2 DEF At
    <3>3. QED
      BY <1>13, <2>1, <3>4
  <2>2. CASE WithinAt(p, n) + 1 # p.sps
    <3>1. /\ DrawsAt(p, n) = DrawsAt(p, n + 1) /\ WithinAt(p, n + 1) = WithinAt(p, n) + 1
          /\ SymbolAt(p, n + 1) = SymbolAt(p, n)
      BY <1>1, <1>8, <2>2, KeyMoves
    <3>2. next = At(p, ready, done, n + 1)
      BY <1>6, <1>7, <1>12, <3>1 DEF At
    <3>3. QED
      BY <1>13, <2>2, <3>2
  <2>3. QED
    BY <2>1, <2>2
<1>15. Sample(src) = Reference(p, n)
  <2>1. CASE p.type = "fsk"
    BY <1>4, <1>10, <2>1 DEF Sample, FskSample, At
  <2>2. CASE p.type = "ask"
    BY <1>1, <1>5, <1>8, <2>2, KeyMoves DEF Sample, AskSample, At, Reference
  <2>3. QED
    BY <1>1, <2>1, <2>2
<1>16. QED
  BY <1>9, <1>14, <1>15 DEF Emits

LEMMA FileEmits ==
    ASSUME NEW p, NEW ready \in BOOLEAN, NEW done \in BOOLEAN, NEW n \in Nat, CanEmit(p, ready, n),
           p.type = "file"
    PROVE  Emits(p, ready, done, n)
<1>1. PhaseAt(p, n) = 0 /\ PhaseAt(p, n + 1) = 0 /\ Phase(0 + 0) = 0
  BY SourcesAssumption DEF PhaseAt, Phase
<1>2. BufferAt(p, n) = <<>> /\ BufferAt(p, n + 1) = <<>>
  BY DEF BufferAt, Ahead, IsBatched
<1>3. /\ DrawsAt(p, n) = 0 /\ DrawsAt(p, n + 1) = 0 /\ SymbolAt(p, n) = SymbolAt(p, n + 1)
      /\ TailAt(p, ready, n) = TailAt(p, ready, n + 1) /\ WithinAt(p, n + 1) = WithinAt(p, n) + 1
  BY DEF DrawsAt, SymbolAt, TailAt, WithinAt, IsKeyed
<1>4. /\ ReadAt(p, n + 1) = 1 + (n % Len(p.data))
      /\ 1 + (n % Len(p.data)) = IF ReadAt(p, n) = Len(p.data) THEN 1 ELSE ReadAt(p, n) + 1
  <2> DEFINE b == Len(p.data)
  <2>1. b \in Nat \ {0}
    BY DEF CanEmit, IsParams
  <2>2. ReadAt(p, n + 1) = 1 + (n % b)
    <3>1. (n + 1) - 1 = n /\ n + 1 > 0
      OBVIOUS
    <3>2. QED
      BY <3>1 DEF ReadAt
  <2>3. ReadAt(p, n) = IF n > 0 THEN 1 + ((n - 1) % b) ELSE 0
    BY DEF ReadAt
  <2> HIDE DEF b
  <2>4. 1 + (n % b) = IF ReadAt(p, n) = b THEN 1 ELSE ReadAt(p, n) + 1
    <3>1. CASE n = 0
      <4>1. 0 = b * 0 + 0 /\ 0 \in 0 .. b - 1
        BY <2>1
      <4>2. 0 % b = 0
        BY <2>1, <4>1, Quotient
      <4>3. QED
        BY <2>1, <2>3, <3>1, <4>2
    <3>2. CASE n > 0
      <4>1. n - 1 \in Nat /\ (n - 1) + 1 = n
        BY <3>2
      <4>2. n % b = IF ((n - 1) % b) + 1 = b THEN 0 ELSE ((n - 1) % b) + 1
        BY <2>1, <4>1, CountsOn
      <4>3. (n - 1) % b \in Nat /\ n % b \in Nat
        BY <2>1, <4>1
      <4>4. QED
        BY <2>1, <2>3, <3>2, <4>2, <4>3
    <3>3. QED
      BY <3>1, <3>2
  <2>5. QED
    BY <2>2, <2>4 DEF b
<1> DEFINE src == At(p, ready, done, n)
<1>5. Refill(src) = src
  BY DEF Refill, At
<1>6. PhaseStep(src) = 0
  BY DEF PhaseStep, At
<1>7. Advance(src) = At(p, ready, done, n + 1)
  BY <1>1, <1>2, <1>3, <1>4, <1>6 DEF Advance, At
<1>8. Sample(src) = Reference(p, n)
  BY <1>4 DEF Sample, Reference, At, FileSample
<1>9. QED
  BY <1>5, <1>7, <1>8 DEF Emits

\* A batch is made when the last one is used up.
Filled(p, n) == [i \in 1 .. Ahead(p, n + 1) + 1 |-> Reference(p, n + i - 1)]

LEMMA BatchMoves ==
    ASSUME NEW p, NEW n \in Nat, IsBatched(p), Batch(p) \in Nat \ {0}
    PROVE  /\ Batches(p, n + 1) = (n \div Batch(p)) + 1 /\ n \div Batch(p) \in Nat
           /\ Ahead(p, n + 1) \in Nat /\ Ahead(p, n + 1) + 1 = Batch(p) - (n % Batch(p))
           /\ IF n % Batch(p) = 0
              THEN Ahead(p, n) = 0 /\ Batches(p, n) = n \div Batch(p) /\ n = Batch(p) * (n \div Batch(p))
              ELSE Ahead(p, n) = Ahead(p, n + 1) + 1 /\ Batches(p, n) = Batches(p, n + 1)
<1> DEFINE b == Batch(p)
           q == n \div b
           r == n % b
<1>1. q \in Nat /\ r \in 0 .. b - 1 /\ n = b * q + r
  <2> HIDE DEF b
  <2>1. b \in Nat \ {0}
    BY DEF b
  <2>2. n \div b \in Nat
    BY <2>1, CountsOn
  <2>3. n \in Int
    OBVIOUS
  <2>4. n % b \in 0 .. b - 1
    BY <2>1, <2>3, Division
  <2>5. n = b * (n \div b) + (n % b)
    BY <2>1, <2>3, Division
  <2>6. QED
    BY <2>2, <2>4, <2>5
<1>2. Batches(p, n + 1) = q + 1
  <2>1. IF r + 1 = b THEN (n + 1) \div b = q + 1 /\ (n + 1) % b = 0
                     ELSE (n + 1) \div b = q /\ (n + 1) % b = r + 1
    BY CountsOn
  <2>2. Batches(p, n + 1) = IF (n + 1) % b = 0 THEN (n + 1) \div b ELSE (n + 1) \div b + 1
    BY DEF Batches
  <2> HIDE DEF q, r, b
  <2>3. QED
    BY <1>1, <2>1, <2>2
<1>3. Batches(p, n) = IF r = 0 THEN q ELSE q + 1
  BY DEF Batches
<1>4. Ahead(p, n) = b * Batches(p, n) - n /\ Ahead(p, n + 1) = b * Batches(p, n + 1) - (n + 1)
  BY DEF Ahead
<1>5. b * (q + 1) = b * q + b
  BY <1>1
<1>6. b \in Nat \ {0}
  OBVIOUS
<1>7. /\ Batches(p, n + 1) = q + 1 /\ q \in Nat
      /\ Ahead(p, n + 1) \in Nat /\ Ahead(p, n + 1) + 1 = b - r
      /\ IF r = 0 THEN Ahead(p, n) = 0 /\ Batches(p, n) = q /\ n = b * q
                  ELSE Ahead(p, n) = Ahead(p, n + 1) + 1 /\ Batches(p, n) = Batches(p, n + 1)
  <2> HIDE DEF q, r, b
  <2>1. Ahead(p, n + 1) = b * q + b - (n + 1)
    BY <1>1, <1>2, <1>4, <1>5, <1>6
  <2>2. CASE r = 0
    <3>1. Batches(p, n) = q /\ Ahead(p, n) = b * q - n
      BY <1>3, <1>4, <2>2
    <3>2. QED
      BY <1>1, <1>2, <1>6, <2>1, <2>2, <3>1
  <2>3. CASE r # 0
    <3>1. Batches(p, n) = q + 1 /\ Ahead(p, n) = b * q + b - n
      BY <1>1, <1>3, <1>4, <1>5, <1>6, <2>3
    <3>2. QED
      BY <1>1, <1>2, <1>6, <2>1, <2>3, <3>1
  <2>4. QED
    BY <2>2, <2>3
<1>8. QED
  BY <1>7

Refilled(p, ready, done, n) ==
    [params |-> p, ready |-> ready, produced |-> n, phase |-> PhaseAt(p, n), draws |-> DrawsAt(p, n + 1),
     within |-> WithinAt(p, n), symbol |-> SymbolAt(p, n), buffer |-> Filled(p, n),
     tail |-> TailAt(p, ready, n + 1), read |-> ReadAt(p, n), done |-> done]

LEMMA BatchEmits ==
    ASSUME NEW p, NEW ready \in BOOLEAN, NEW done \in BOOLEAN, NEW n \in Nat, IsBatched(p),
           Batch(p) \in Nat \ {0},
           Refill(At(p, ready, done, n)) = Refilled(p, ready, done, n)
    PROVE  Emits(p, ready, done, n)
<1>1. PhaseAt(p, n) = 0 /\ PhaseAt(p, n + 1) = 0 /\ Phase(0 + 0) = 0
  BY SourcesAssumption DEF PhaseAt, Phase, IsBatched
<1>2. /\ SymbolAt(p, n) = SymbolAt(p, n + 1) /\ ReadAt(p, n) = 0 /\ ReadAt(p, n + 1) = 0
      /\ WithinAt(p, n + 1) = WithinAt(p, n) + 1
  BY DEF SymbolAt, ReadAt, WithinAt, IsKeyed, IsBatched
<1>3. Ahead(p, n + 1) \in Nat
  BY BatchMoves
<1>4. Head(Filled(p, n)) = Reference(p, n) /\ Tail(Filled(p, n)) = BufferAt(p, n + 1)
  <2> DEFINE f == Filled(p, n)
             a == Ahead(p, n + 1)
  <2>1. f = [i \in 1 .. a + 1 |-> Reference(p, n + i - 1)] /\ BufferAt(p, n + 1) = [i \in 1 .. a |-> Reference(p, n + 1 + i - 1)]
    BY DEF Filled, BufferAt
  <2>2. a \in Nat
    BY <1>3
  <2> HIDE DEF f, a
  <2>3. HasLength(f, a + 1) /\ f[1] = Reference(p, n)
    BY <2>1, <2>2 DEF HasLength
  <2>4. Head(f) = f[1] /\ Tail(f) = [i \in 1 .. a |-> f[i + 1]]
    BY <2>2, <2>3, TailIs
  <2>5. \A i \in 1 .. a : f[i + 1] = Reference(p, n + 1 + i - 1)
    <3>1. TAKE i \in 1 .. a
    <3>2. i + 1 \in 1 .. a + 1 /\ n + (i + 1) - 1 = n + 1 + i - 1
      BY <2>2
    <3>3. QED
      BY <2>1, <3>2
  <2>6. QED
    BY <2>1, <2>3, <2>4, <2>5 DEF f
<1> DEFINE src == Refilled(p, ready, done, n)
<1>5. /\ src.params = p /\ src.produced = n /\ src.phase = 0 /\ src.within = WithinAt(p, n)
      /\ src.buffer = Filled(p, n)
  BY <1>1 DEF Refilled, At
<1>6. PhaseStep(src) = 0
  BY <1>5 DEF PhaseStep, IsBatched
<1>7. Advance(src) = At(p, ready, done, n + 1)
  <2> DEFINE next == [src EXCEPT !.produced = @ + 1, !.phase = Phase(@ + PhaseStep(src)), !.within = @ + 1]
  <2>1. Advance(src) = [next EXCEPT !.buffer = Tail(@)]
    BY <1>5 DEF Advance, IsBatched
  <2>2. next = [src EXCEPT !.produced = n + 1, !.phase = 0, !.within = WithinAt(p, n) + 1]
    BY <1>1, <1>5, <1>6, Zenon
  <2>3. src = [params |-> p, ready |-> ready, produced |-> n, phase |-> 0, draws |-> DrawsAt(p, n + 1),
               within |-> WithinAt(p, n), symbol |-> SymbolAt(p, n), buffer |-> Filled(p, n),
               tail |-> TailAt(p, ready, n + 1), read |-> ReadAt(p, n), done |-> done]
    BY <1>1 DEF Refilled
  <2> HIDE DEF src, next
  <2>4. next = [params |-> p, ready |-> ready, produced |-> n + 1, phase |-> 0, draws |-> DrawsAt(p, n + 1),
                within |-> WithinAt(p, n) + 1, symbol |-> SymbolAt(p, n), buffer |-> Filled(p, n),
                tail |-> TailAt(p, ready, n + 1), read |-> ReadAt(p, n), done |-> done]
    BY <2>2, <2>3
  <2>5. next.buffer = Filled(p, n)
    BY <2>4
  <2>6. Advance(src) = [next EXCEPT !.buffer = BufferAt(p, n + 1)]
    BY <1>4, <2>1, <2>5, Zenon
  <2>7. QED
    BY <1>1, <1>2, <2>4, <2>6 DEF At
<1>8. Sample(src) = Reference(p, n)
  BY <1>4, <1>5 DEF Sample, BufferedSample, IsBatched
<1>9. QED
  BY <1>7, <1>8 DEF Emits

\* In the middle of a batch nothing is made.
LEMMA MiddleOfBatch ==
    ASSUME NEW p, NEW ready \in BOOLEAN, NEW done \in BOOLEAN, NEW n \in Nat, IsBatched(p),
           Batch(p) \in Nat \ {0}, n % Batch(p) # 0
    PROVE  Refill(At(p, ready, done, n)) = Refilled(p, ready, done, n)
<1>1. Ahead(p, n) = Ahead(p, n + 1) + 1 /\ Ahead(p, n) >= 1 /\ Batches(p, n) = Batches(p, n + 1)
  BY BatchMoves
<1>2. BufferAt(p, n) = Filled(p, n)
  BY <1>1 DEF BufferAt, Filled
<1>3. DrawsAt(p, n) = DrawsAt(p, n + 1) /\ TailAt(p, ready, n) = TailAt(p, ready, n + 1)
  BY <1>1 DEF DrawsAt, TailAt, IsKeyed, IsBatched
<1>4. BufferAt(p, n) # <<>>
  <2> DEFINE f == BufferAt(p, n)
             a == Ahead(p, n)
  <2>1. a \in Nat
    BY <1>1, BatchMoves
  <2>2. HasLength(f, a)
    BY DEF BufferAt, HasLength
  <2> HIDE DEF f, a
  <2>3. Len(f) = a
    BY <2>1, <2>2, SequenceIs
  <2>4. Len(f) >= 1
    BY <1>1, <2>3 DEF a
  <2>5. f # <<>>
    BY <2>4
  <2>6. QED
    BY <2>5 DEF f
<1> DEFINE src == At(p, ready, done, n)
<1>5. src.buffer = BufferAt(p, n)
  BY DEF At
<1>6. Refill(src) = src
  <2> HIDE DEF src
  <2>1. QED
    BY <1>4, <1>5 DEF Refill
<1>7. src = Refilled(p, ready, done, n)
  BY <1>2, <1>3 DEF At, Refilled
<1>8. QED
  BY <1>6, <1>7

\* A symbol of OfdmSource.
LEMMA OfdmEmits ==
    ASSUME NEW p, NEW ready \in BOOLEAN, NEW done \in BOOLEAN, NEW n \in Nat, CanEmit(p, ready, n),
           p.type = "ofdm"
    PROVE  Emits(p, ready, done, n)
<1> DEFINE b == p.fft + p.prefix
           q == n \div b
           pre == p.prefix
           wave == [i \in 1 .. p.fft |-> <<"ofdm", p.active * q, i - 1>>]
           cyclic == SubSeq(wave, p.fft - pre + 1, p.fft) \o wave
<1>1. p.fft \in Nat /\ pre \in 0 .. p.fft - 1 /\ p.active \in Nat
  BY DEF CanEmit, IsParams
<1>2. b \in Nat \ {0} /\ Batch(p) = b /\ IsBatched(p)
  BY <1>1 DEF Batch, IsBatched
<1>3. ASSUME n % b = 0 PROVE Refill(At(p, ready, done, n)) = Refilled(p, ready, done, n)
  <2>1. /\ Batches(p, n + 1) = q + 1 /\ q \in Nat /\ Ahead(p, n + 1) + 1 = b
        /\ Ahead(p, n) = 0 /\ Batches(p, n) = q /\ n = b * q
    BY <1>2, <1>3, BatchMoves
  <2>2. BufferAt(p, n) = <<>>
    BY <2>1 DEF BufferAt
  <2>3. /\ DrawsAt(p, n) = p.active * q /\ DrawsAt(p, n + 1) = DrawsAt(p, n) + p.active
        /\ TailAt(p, ready, n) = TailAt(p, ready, n + 1)
    BY <1>1, <2>1 DEF DrawsAt, TailAt, IsKeyed
  <2>4. cyclic = Filled(p, n)
    <3>1. \A i \in 1 .. b : Reference(p, n + i - 1) = <<"ofdm", p.active * q, (i - 1 + p.fft - pre) % p.fft>>
      <4>1. TAKE i \in 1 .. b
      <4>2. n + i - 1 = b * q + (i - 1) /\ i - 1 \in 0 .. b - 1
        BY <1>2, <2>1
      <4>3. (n + i - 1) \div b = q /\ (n + i - 1) % b = i - 1
        <5> HIDE DEF q, b
        <5>1. (b * q + (i - 1)) \div b = q /\ (b * q + (i - 1)) % b = i - 1
          BY <1>2, <2>1, <4>2, Quotient
        <5>2. QED
          BY <4>2, <5>1
      <4>4. QED
        BY <4>3 DEF Reference
    <3>2. HasLength(wave, p.fft) /\ \A i \in 1 .. p.fft : wave[i] = <<"ofdm", p.active * q, i - 1>>
      BY DEF HasLength
    <3> DEFINE fft == p.fft
               last == SubSeq(wave, fft - pre + 1, fft)
    <3> HIDE DEF wave, fft, pre, b, q
    <3>3. /\ fft \in Nat /\ pre \in 0 .. fft - 1 /\ HasLength(wave, fft) /\ b = pre + fft
          /\ \A i \in 1 .. fft : wave[i] = <<"ofdm", p.active * q, i - 1>>
      BY <1>1, <3>2 DEF fft, pre, b
    <3>4. HasLength(last, pre) /\ \A i \in 1 .. pre : last[i] = wave[fft - pre + i]
      <4> DEFINE first == fft - pre + 1
      <4>1. first \in 1 .. fft + 1 /\ fft - first + 1 = pre
        BY <3>3
      <4> HIDE DEF first
      <4>2. SubSeq(wave, first, fft) = [i \in 1 .. fft - first + 1 |-> wave[first + i - 1]]
        BY <3>3, <4>1, SubSeqIs
      <4>3. last = [i \in 1 .. pre |-> wave[first + i - 1]]
        BY <4>1, <4>2 DEF first
      <4>4. \A i \in 1 .. pre : first + i - 1 = fft - pre + i
        BY <3>3 DEF first
      <4> HIDE DEF last
      <4>5. QED
        BY <4>3, <4>4 DEF HasLength
    <3> HIDE DEF last
    <3>5. last \o wave = [i \in 1 .. b |-> IF i <= pre THEN last[i] ELSE wave[i - pre]]
      <4>1. pre \in Nat
        BY <3>3
      <4>2. last \o wave = [i \in 1 .. pre + fft |-> IF i <= pre THEN last[i] ELSE wave[i - pre]]
        BY <3>3, <3>4, <4>1, ConcatIs
      <4>3. QED
        BY <3>3, <4>2
    <3>6. ASSUME NEW i \in 1 .. b
          PROVE  (IF i <= pre THEN last[i] ELSE wave[i - pre]) = <<"ofdm", p.active * q, (i - 1 + fft - pre) % fft>>
      <4>1. CASE i <= pre
        <5>1. fft - pre + i \in 1 .. fft /\ i \in 1 .. pre /\ fft - pre + i - 1 = i - 1 + fft - pre
          BY <3>3, <4>1
        <5> DEFINE k == i - 1 + fft - pre
        <5>2. k \in 0 .. fft - 1 /\ fft * 0 + k = k /\ fft \in Nat \ {0}
          BY <3>3, <4>1
        <5> HIDE DEF k
        <5>3. k % fft = k
          <6>1. (fft * 0 + k) % fft = k
            BY <5>2, Quotient
          <6>2. QED
            BY <5>2, <6>1
        <5>4. last[i] = <<"ofdm", p.active * q, k>>
          BY <3>3, <3>4, <5>1 DEF k
        <5>5. QED
          BY <4>1, <5>3, <5>4 DEF k
      <4>2. CASE ~(i <= pre)
        <5>1. i - pre \in 1 .. fft
          BY <3>3, <4>2
        <5> DEFINE k == i - pre - 1
                   m == i - 1 + fft - pre
        <5>2. k \in 0 .. fft - 1 /\ fft * 1 + k = m /\ fft \in Nat \ {0}
          BY <3>3, <4>2
        <5>3. wave[i - pre] = <<"ofdm", p.active * q, k>>
          BY <3>3, <5>1
        <5> HIDE DEF k, m
        <5>4. m % fft = k
          <6>1. (fft * 1 + k) % fft = k
            BY <5>2, Quotient
          <6>2. QED
            BY <5>2, <6>1
        <5>5. QED
          BY <4>2, <5>3, <5>4 DEF m
      <4>3. QED
        BY <4>1, <4>2
    <3>7. cyclic = last \o wave
      BY DEF last, fft
    <3>8. ASSUME NEW i \in 1 .. b
          PROVE  Reference(p, n + i - 1) = IF i <= pre THEN last[i] ELSE wave[i - pre]
      <4>1. Reference(p, n + i - 1) = <<"ofdm", p.active * q, (i - 1 + fft - pre) % fft>>
        BY <3>1 DEF fft, pre
      <4>2. QED
        BY <3>6, <4>1
    <3>9. Filled(p, n) = [i \in 1 .. b |-> Reference(p, n + i - 1)]
      BY <2>1 DEF Filled
    <3> HIDE DEF cyclic
    <3>10. QED
      BY <3>5, <3>7, <3>8, <3>9
  <2> DEFINE src == At(p, ready, done, n)
  <2>5. src.params = p /\ src.draws = p.active * q /\ src.buffer = <<>>
    BY <2>2, <2>3 DEF At
  <2>6. Refill(src) = [src EXCEPT !.buffer = cyclic, !.draws = @ + p.active]
    BY <2>5 DEF Refill, OfdmSymbol
  <2> HIDE DEF cyclic, wave, q, b
  <2>7. QED
    BY <2>3, <2>4, <2>5, <2>6 DEF At, Refilled
<1>4. ASSUME n % b # 0 PROVE Refill(At(p, ready, done, n)) = Refilled(p, ready, done, n)
  BY <1>2, <1>4, MiddleOfBatch
<1> HIDE DEF b
<1>5. QED
  BY <1>2, <1>3, <1>4, BatchEmits

\* The zeros between the symbols of a batch and those between all symbols.
LEMMA UpsampledBatch ==
    ASSUME NEW p, p.sps \in Nat \ {0}, NEW q \in Nat, NEW i \in Nat
    PROVE  Upsampled(p, BatchSymbols * p.sps * q + i)
              = IF i % p.sps = 0 THEN <<"symbol", BatchSymbols * q + (i \div p.sps)>> ELSE Zero
<1> DEFINE s == p.sps
           d == i \div s
           r == i % s
           m == BatchSymbols * s * q + i
<1>1. s \in Nat \ {0} /\ d \in Nat /\ r \in 0 .. s - 1 /\ i = s * d + r /\ BatchSymbols \in Nat
  <2> HIDE DEF s
  <2>1. s \in Nat \ {0} /\ i \in Int
    BY DEF s
  <2>2. i \div s \in Nat
    BY <2>1, CountsOn
  <2>3. i % s \in 0 .. s - 1
    BY <2>1, Division
  <2>4. i = s * (i \div s) + (i % s)
    BY <2>1, Division
  <2>5. QED
    BY <2>1, <2>2, <2>3, <2>4, SourcesAssumption
<1>2. m = s * (BatchSymbols * q + d) + r /\ m >= 0
  <2> DEFINE c == BatchSymbols * q
  <2>1. c \in Nat /\ BatchSymbols * s * q = s * c
    BY <1>1
  <2>2. s * (c + d) = s * c + s * d /\ s * c \in Nat
    BY <1>1, <2>1
  <2> HIDE DEF s, d, r, c
  <2>3. QED
    BY <1>1, <2>1, <2>2
<1>3. m \div s = BatchSymbols * q + d /\ m % s = r
  <2>1. BatchSymbols * q + d \in Int
    BY <1>1
  <2> HIDE DEF s, d, r, m
  <2>2. QED
    BY <1>1, <1>2, <2>1, Quotient
<1>4. QED
  BY <1>2, <1>3 DEF Upsampled

\* A batch of ModulatorSource: the filter sees the symbols as one sequence,
\* whatever the batches.
LEMMA ModulatorEmits ==
    ASSUME NEW p, NEW ready \in BOOLEAN, NEW done \in BOOLEAN, NEW n \in Nat, CanEmit(p, ready, n),
           p.type = "modulator"
    PROVE  Emits(p, ready, done, n)
<1> DEFINE b == BatchSymbols * p.sps
           q == n \div b
           taps == Span * p.sps
           symbols == UpsampledSymbols(p, DrawsAt(p, n))
           tail == TailAt(p, ready, n)
           extended == tail \o symbols
           shaped == ShapedBuffer(p, extended)
<1>1. p.sps \in Nat \ {0} /\ ready
  BY DEF CanEmit, IsParams
<1>2. BatchSymbols \in Nat \ {0} /\ Span \in Nat \ {0} /\ Span <= BatchSymbols
  BY SourcesAssumption
<1>3. b \in Nat \ {0} /\ taps \in Nat /\ taps <= b
  <2>1. PICK e \in Nat : BatchSymbols = Span + e
    <3>1. BatchSymbols - Span \in Nat /\ BatchSymbols = Span + (BatchSymbols - Span)
      BY <1>2
    <3>2. QED
      BY <3>1
  <2>2. b = taps + e * p.sps /\ e * p.sps \in Nat /\ taps \in Nat
    BY <1>1, <1>2, <2>1
  <2>3. taps >= p.sps
    BY <1>1, <1>2, Multiples
  <2> HIDE DEF b, taps
  <2>4. QED
    BY <1>1, <2>2, <2>3
<1>4. Batch(p) = b /\ IsBatched(p) /\ Taps(p) = taps
  BY DEF Batch, IsBatched, Taps
<1>5. ASSUME n % b = 0 PROVE Refill(At(p, ready, done, n)) = Refilled(p, ready, done, n)
  <2>1. /\ Batches(p, n + 1) = q + 1 /\ q \in Nat /\ Ahead(p, n + 1) + 1 = b
        /\ Ahead(p, n) = 0 /\ Batches(p, n) = q /\ n = b * q
    <3>1. n % Batch(p) = 0 /\ Batch(p) \in Nat \ {0}
      BY <1>3, <1>4, <1>5
    <3>2. /\ Batches(p, n + 1) = (n \div Batch(p)) + 1 /\ n \div Batch(p) \in Nat
          /\ Ahead(p, n + 1) \in Nat /\ Ahead(p, n + 1) + 1 = Batch(p) - 0
          /\ Ahead(p, n) = 0 /\ Batches(p, n) = n \div Batch(p) /\ n = Batch(p) * (n \div Batch(p))
      BY <1>4, <3>1, BatchMoves
    <3> HIDE DEF b
    <3>3. QED
      BY <1>3, <1>4, <3>2
  <2>2. BufferAt(p, n) = <<>>
    BY <2>1 DEF BufferAt
  <2>3. DrawsAt(p, n) = BatchSymbols * q /\ DrawsAt(p, n + 1) = DrawsAt(p, n) + BatchSymbols
    BY <1>2, <2>1 DEF DrawsAt, IsKeyed
  <2>4. symbols = [i \in 1 .. b |-> Upsampled(p, n + i - 1)]
    <3>1. ASSUME NEW i \in 1 .. b
          PROVE  (IF (i - 1) % p.sps = 0 THEN <<"symbol", DrawsAt(p, n) + (i - 1) \div p.sps>> ELSE Zero)
                    = Upsampled(p, n + i - 1)
      <4>1. i - 1 \in Nat /\ n + i - 1 = BatchSymbols * p.sps * q + (i - 1)
        BY <1>3, <2>1
      <4> DEFINE k == i - 1
      <4> HIDE DEF k, q
      <4>2. Upsampled(p, BatchSymbols * p.sps * q + k)
              = IF k % p.sps = 0 THEN <<"symbol", BatchSymbols * q + (k \div p.sps)>> ELSE Zero
        BY <1>1, <2>1, <4>1, UpsampledBatch DEF k
      <4>3. QED
        BY <2>3, <4>1, <4>2 DEF k
    <3>2. symbols = [i \in 1 .. b |-> IF (i - 1) % p.sps = 0 THEN <<"symbol", DrawsAt(p, n) + (i - 1) \div p.sps>>
                                                              ELSE Zero]
      BY DEF UpsampledSymbols
    <3> HIDE DEF b, q, symbols
    <3>3. QED
      BY <3>1, <3>2
  <2>5. tail = [i \in 1 .. taps |-> Upsampled(p, n - taps + i - 1)]
    <3>1. b * q - taps = n - taps
      BY <2>1
    <3>2. tail = [i \in 1 .. taps |-> Upsampled(p, b * q - taps + i - 1)]
      BY <1>1, <1>4, <2>1 DEF TailAt
    <3> HIDE DEF b, q, taps, tail
    <3>3. QED
      BY <3>1, <3>2
  <2>6. ASSUME NEW i \in 1 .. taps + b PROVE extended[i] = Upsampled(p, n - taps + i - 1)
    <3>1. HasLength(tail, taps) /\ HasLength(symbols, b)
      <4> HIDE DEF tail, symbols
      <4>1. QED
        BY <2>4, <2>5 DEF HasLength
    <3> HIDE DEF tail, symbols, taps, b
    <3>2. \A l, m \in Nat : HasLength(tail, l) /\ HasLength(symbols, m) =>
             tail \o symbols = [k \in 1 .. l + m |-> IF k <= l THEN tail[k] ELSE symbols[k - l]]
      BY ConcatIs
    <3>3. tail \o symbols = [k \in 1 .. taps + b |-> IF k <= taps THEN tail[k] ELSE symbols[k - taps]]
      <4>1. taps \in Nat /\ b \in Nat
        BY <1>3
      <4>2. QED
        BY <3>1, <3>2, <4>1
    <3>4. CASE i <= taps
      <4>1. i \in 1 .. taps
        BY <1>3, <3>4
      <4>2. tail[i] = Upsampled(p, n - taps + i - 1)
        BY <2>5, <4>1
      <4>3. QED
        BY <3>3, <3>4, <4>2
    <3>5. CASE ~(i <= taps)
      <4>1. i - taps \in 1 .. b /\ n + (i - taps) - 1 = n - taps + i - 1
        BY <1>3, <3>5
      <4>2. symbols[i - taps] = Upsampled(p, n - taps + i - 1)
        BY <2>4, <4>1
      <4>3. QED
        BY <3>3, <3>5, <4>2
    <3>6. QED
      BY <3>4, <3>5
  <2>7. shaped = Filled(p, n)
    <3>1. ASSUME NEW m \in 1 .. b
          PROVE  {<<k, extended[m + taps - k]>> : k \in {j \in 0 .. taps : extended[m + taps - j] # Zero}}
                   = {<<k, <<"symbol", (n + m - 1 - k) \div p.sps>> >> :
                       k \in {j \in 0 .. Least(n + m - 1, taps) : (n + m - 1 - j) % p.sps = 0}}
      <4>1. \A k \in 0 .. taps : extended[m + taps - k] = Upsampled(p, n + m - 1 - k)
        <5>1. TAKE k \in 0 .. taps
        <5> HIDE DEF taps, b, extended
        <5>2. m + taps - k \in 1 .. taps + b /\ n - taps + (m + taps - k) - 1 = n + m - 1 - k
          BY <1>3
        <5>3. QED
          BY <2>6, <5>2
      <4> DEFINE heard == {j \in 0 .. taps : extended[m + taps - j] # Zero}
                 given == {j \in 0 .. Least(n + m - 1, taps) : (n + m - 1 - j) % p.sps = 0}
      <4>2. \A x : <<"symbol", x>> # Zero
        BY DEF Zero
      <4>3. \A k \in 0 .. taps : k \in heard <=> k \in given
        <5>1. TAKE k \in 0 .. taps
        <5>2. k \in heard <=> Upsampled(p, n + m - 1 - k) # Zero
          <6> HIDE DEF extended, taps
          <6>1. QED
            BY <4>1
        <5>3. Upsampled(p, n + m - 1 - k) # Zero <=> n + m - 1 - k >= 0 /\ (n + m - 1 - k) % p.sps = 0
          BY <4>2 DEF Upsampled
        <5>4. n + m - 1 - k >= 0 <=> k \in 0 .. Least(n + m - 1, taps)
          <6> HIDE DEF taps, b
          <6>1. QED
            BY <1>3 DEF Least
        <5> HIDE DEF heard
        <5>5. QED
          BY <5>2, <5>3, <5>4
      <4>4. heard = given
        <5>1. \A k \in given : k \in 0 .. taps
          <6> HIDE DEF taps, b
          <6>1. QED
            BY <1>3 DEF Least
        <5>2. \A k \in heard : k \in 0 .. taps
          OBVIOUS
        <5> HIDE DEF heard, given, taps
        <5>3. QED
          BY <4>3, <5>1, <5>2
      <4>5. \A k \in given : extended[m + taps - k] = <<"symbol", (n + m - 1 - k) \div p.sps>>
        <5>1. TAKE k \in given
        <5>2. k \in 0 .. taps /\ n + m - 1 - k >= 0 /\ (n + m - 1 - k) % p.sps = 0
          <6> HIDE DEF taps, b
          <6>1. QED
            BY <1>3 DEF Least
        <5> HIDE DEF extended, taps
        <5>3. QED
          BY <4>1, <5>2 DEF Upsampled
      <4> HIDE DEF heard, given, extended, taps, b
      <4>6. {<<k, extended[m + taps - k]>> : k \in heard} = {<<k, <<"symbol", (n + m - 1 - k) \div p.sps>> >> : k \in given}
        BY <4>4, <4>5
      <4>7. QED
        BY <4>6 DEF heard, given
    <3>2. ASSUME NEW m \in 1 .. b
          PROVE  shaped[m] = Reference(p, n + m - 1)
      <4>1. Reference(p, n + m - 1)
              = <<"shaped", {<<k, <<"symbol", (n + m - 1 - k) \div p.sps>> >> :
                       k \in {j \in 0 .. Least(n + m - 1, taps) : (n + m - 1 - j) % p.sps = 0}}>>
        BY DEF Reference
      <4>2. shaped[m] = <<"shaped", {<<k, extended[m + taps - k]>> :
                                       k \in {j \in 0 .. taps : extended[m + taps - j] # Zero}}>>
        <5> HIDE DEF extended
        <5>1. QED
          BY DEF ShapedBuffer
      <4> HIDE DEF extended, taps, b, shaped
      <4>3. QED
        BY <3>1, <4>1, <4>2
    <3>3. shaped = [m \in 1 .. b |-> shaped[m]]
      <4> HIDE DEF extended
      <4>1. QED
        BY DEF ShapedBuffer
    <3>4. QED
      <4> HIDE DEF shaped, b
      <4>1. QED
        BY <2>1, <3>2, <3>3 DEF Filled
  <2>8. SubSeq(symbols, b - taps + 1, b) = TailAt(p, ready, n + 1)
    <3>1. TailAt(p, ready, n + 1) = [i \in 1 .. taps |-> Upsampled(p, b * (q + 1) - taps + i - 1)]
      BY <1>1, <1>4, <2>1 DEF TailAt
    <3>2. b * (q + 1) = n + b
      <4>1. b \in Nat
        BY <1>3
      <4> HIDE DEF b, q
      <4>2. QED
        BY <2>1, <4>1
    <3> HIDE DEF b, q, taps
    <3>3. HasLength(symbols, b)
      <4> HIDE DEF symbols
      <4>1. QED
        BY <2>4 DEF HasLength
    <3> DEFINE first == b - taps + 1
               last == SubSeq(symbols, first, b)
    <3>4. first \in 1 .. b + 1 /\ b - first + 1 = taps
      BY <1>3
    <3>5. \A i \in 1 .. taps : first + i - 1 \in 1 .. b /\ n + (first + i - 1) - 1 = n + b - taps + i - 1
      BY <1>3
    <3> HIDE DEF first, symbols
    <3>6. last = [i \in 1 .. taps |-> Upsampled(p, n + b - taps + i - 1)]
      <4>1. SubSeq(symbols, first, b) = [i \in 1 .. b - first + 1 |-> symbols[first + i - 1]]
        BY <1>3, <3>3, <3>4, SubSeqIs
      <4>2. \A i \in 1 .. taps : symbols[first + i - 1] = Upsampled(p, n + b - taps + i - 1)
        BY <2>4, <3>5
      <4>3. QED
        BY <3>4, <4>1, <4>2
    <3> HIDE DEF last
    <3>7. \A i \in 1 .. taps : b * (q + 1) - taps + i - 1 = n + b - taps + i - 1
      BY <1>3, <3>2
    <3>8. last = TailAt(p, ready, n + 1)
      BY <3>1, <3>6, <3>7
    <3>9. QED
      BY <3>8 DEF last, first
  <2> DEFINE src == At(p, ready, done, n)
  <2>9. src.params = p /\ src.draws = BatchSymbols * q /\ src.buffer = <<>> /\ src.tail = tail
    BY <2>2, <2>3 DEF At
  <2>10. Refill(src) = ShapedBatch(src)
    <3> HIDE DEF src
    <3>1. QED
      BY <2>9 DEF Refill
  <2>11. ShapedBatch(src) = [src EXCEPT !.buffer = shaped, !.tail = SubSeq(symbols, b - taps + 1, b),
                                        !.draws = @ + BatchSymbols]
    <3>1. (BatchSymbols - Span) * p.sps + 1 = b - taps + 1
      BY <1>1, <1>2
    <3> HIDE DEF src
    <3>2. ShapedBatch(src) = [src EXCEPT !.buffer = ShapedBuffer(p, src.tail \o UpsampledSymbols(p, src.draws)),
                !.tail = SubSeq(UpsampledSymbols(p, src.draws), (BatchSymbols - Span) * p.sps + 1, BatchSymbols * p.sps),
                !.draws = @ + BatchSymbols]
      BY <2>9, Zenon DEF ShapedBatch
    <3>3. UpsampledSymbols(p, src.draws) = symbols /\ src.tail = tail
      BY <2>3, <2>9
    <3> HIDE DEF tail, symbols
    <3>4. QED
      BY <3>1, <3>2, <3>3, Zenon
  <2> HIDE DEF b, q, taps, symbols, tail, extended, shaped
  <2>12. Refill(src) = [src EXCEPT !.buffer = Filled(p, n), !.tail = TailAt(p, ready, n + 1), !.draws = DrawsAt(p, n + 1)]
    <3>1. src.draws = DrawsAt(p, n)
      BY DEF At
    <3> HIDE DEF src
    <3>2. QED
      BY <2>3, <2>7, <2>8, <2>10, <2>11, <3>1, Zenon
  <2>13. QED
    BY <2>12 DEF At, Refilled
<1>6. ASSUME n % b # 0 PROVE Refill(At(p, ready, done, n)) = Refilled(p, ready, done, n)
  <2>1. n % Batch(p) # 0 /\ Batch(p) \in Nat \ {0}
    BY <1>3, <1>4, <1>6
  <2>2. QED
    BY <1>4, <2>1, MiddleOfBatch
<1>7. Batch(p) \in Nat \ {0}
  BY <1>3, <1>4
<1> HIDE DEF b
<1>8. QED
  BY <1>4, <1>5, <1>6, <1>7, BatchEmits

LEMMA AnyEmits ==
    ASSUME NEW p, NEW ready \in BOOLEAN, NEW done \in BOOLEAN, NEW n \in Nat, CanEmit(p, ready, n)
    PROVE  Emits(p, ready, done, n)
<1>1. p.type \in Types
  BY DEF CanEmit, IsParams
<1>2. QED
  BY <1>1, PlainEmits, SteadyEmits, FmEmits, KeyedEmits, FileEmits, OfdmEmits, ModulatorEmits DEF Types, IsKeyed

-----------------------------------------------------------------------------
(* A block. *)

\* k samples of a waveform from the n-th on.
Stretch(p, n, k) == [i \in 1 .. k |-> Reference(p, n + i - 1)]

LEMMA StretchGrows ==
    ASSUME NEW p, NEW n \in Nat, NEW k \in Nat
    PROVE  Append(Stretch(p, n, k), Reference(p, n + k)) = Stretch(p, n, k + 1)
<1> DEFINE f == Stretch(p, n, k)
<1>1. f = [i \in 1 .. k |-> Reference(p, n + i - 1)]
  BY DEF Stretch
<1>2. Stretch(p, n, k + 1) = [i \in 1 .. k + 1 |-> Reference(p, n + i - 1)]
  BY DEF Stretch
<1> HIDE DEF f
<1>3. HasLength(f, k)
  BY <1>1 DEF HasLength
<1>4. Append(f, Reference(p, n + k)) = [i \in 1 .. k + 1 |-> IF i <= k THEN f[i] ELSE Reference(p, n + k)]
  BY <1>3, AppendIs
<1>5. \A i \in 1 .. k + 1 : (IF i <= k THEN f[i] ELSE Reference(p, n + k)) = Reference(p, n + i - 1)
  <2>1. TAKE i \in 1 .. k + 1
  <2>2. CASE i <= k
    <3>1. i \in 1 .. k
      BY <2>2
    <3>2. QED
      BY <1>1, <2>2, <3>1
  <2>3. CASE ~(i <= k)
    <3>1. i = k + 1 /\ n + (k + 1) - 1 = n + k
      BY <2>3
    <3>2. QED
      BY <2>3, <3>1
  <2>4. QED
    BY <2>2, <2>3
<1>6. QED
  BY <1>2, <1>4, <1>5 DEF f

IsEmission(f, src, k) ==
    f = [i \in 0 .. k |-> IF i = 0 THEN [source |-> src, out |-> <<>>] ELSE EmitSample(f[i - 1])]

LEMMA EmittedIs ==
    ASSUME NEW src, NEW k \in Nat, NEW g, IsEmission(g, src, k)
    PROVE  Emitted(src, k) = g[k]
<1> DEFINE f == CHOOSE result : IsEmission(result, src, k)
<1>1. IsEmission(f, src, k)
  BY Zenon
<1>2. Emitted(src, k) = f[k]
  BY Zenon DEF Emitted, IsEmission
<1> HIDE DEF f
<1>3. Agree(f, g, k)
  <2>1. Alongside(f, g, k)
    BY <1>1 DEF IsEmission, Alongside
  <2>2. QED
    BY <2>1, Alike
<1>4. QED
  BY <1>2, <1>3 DEF Agree

CanEmitAll(p, ready, n, k) == \A i \in 0 .. k - 1 : CanEmit(p, ready, n + i)

LEMMA EmitsBlock ==
    ASSUME NEW p, NEW ready \in BOOLEAN, NEW done \in BOOLEAN, NEW n \in Nat, NEW k \in Nat,
           CanEmitAll(p, ready, n, k)
    PROVE  Emitted(At(p, ready, done, n), k) = [source |-> At(p, ready, done, n + k), out |-> Stretch(p, n, k)]
<1> DEFINE src == At(p, ready, done, n)
           after(i) == [source |-> At(p, ready, done, n + i), out |-> Stretch(p, n, i)]
           g == [i \in 0 .. k |-> after(i)]
<1>1. after(0) = [source |-> src, out |-> <<>>]
  <2>1. n + 0 = n /\ Stretch(p, n, 0) = <<>>
    BY DEF Stretch
  <2>2. QED
    BY <2>1, Zenon
<1>2. ASSUME NEW i \in 1 .. k PROVE EmitSample(after(i - 1)) = after(i)
  <2> DEFINE m == i - 1
  <2>1. m \in 0 .. k - 1 /\ m \in Nat /\ n + m \in Nat /\ m + 1 = i /\ (n + m) + 1 = n + i
    OBVIOUS
  <2> HIDE DEF m
  <2>2. Emits(p, ready, done, n + m)
    BY <2>1, AnyEmits DEF CanEmitAll
  <2>3. Append(Stretch(p, n, m), Reference(p, n + m)) = Stretch(p, n, m + 1)
    BY <2>1, StretchGrows
  <2>4. after(m).source = At(p, ready, done, n + m) /\ after(m).out = Stretch(p, n, m)
    OBVIOUS
  <2> DEFINE before == after(m)
  <2> HIDE DEF before
  <2>5. EmitSample(before) = [source |-> At(p, ready, done, (n + m) + 1), out |-> Stretch(p, n, m + 1)]
    BY <2>2, <2>3, <2>4, Zenon DEF EmitSample, Emits, before
  <2>6. EmitSample(before) = after(i)
    BY <2>1, <2>5
  <2>7. QED
    BY <2>6 DEF before, m
<1>3. IsEmission(g, src, k)
  <2>1. \A i \in 0 .. k : after(i) = IF i = 0 THEN [source |-> src, out |-> <<>>] ELSE EmitSample(g[i - 1])
    <3>1. TAKE i \in 0 .. k
    <3>2. CASE i = 0
      BY <1>1, <3>2
    <3>3. CASE i # 0
      <4>1. i \in 1 .. k /\ i - 1 \in 0 .. k
        BY <3>3
      <4>2. g[i - 1] = after(i - 1)
        <5> HIDE DEF after
        <5>1. QED
          BY <4>1
      <4>3. EmitSample(after(i - 1)) = after(i)
        BY <1>2, <4>1
      <4> HIDE DEF g, after
      <4>4. QED
        BY <3>3, <4>2, <4>3
    <3>4. QED
      BY <3>2, <3>3
  <2>2. g = [i \in 0 .. k |-> after(i)]
    OBVIOUS
  <2> HIDE DEF g, after, src
  <2>3. QED
    BY <2>1, <2>2 DEF IsEmission
<1>4. g[k] = after(k)
  <2> HIDE DEF after
  <2>1. QED
    OBVIOUS
<1> HIDE DEF g, src
<1>5. QED
  BY <1>3, <1>4, EmittedIs DEF src

-----------------------------------------------------------------------------
(* A source is where its stream is, or was configured and not yet reset. *)

InBounds(p, n) ==
    /\ p.total # None => n <= p.total
    /\ p.type = "file" /\ ~p.loop => n <= Len(p.data)
    /\ p.type = "file" /\ p.data = <<>> => n = 0

IsSourceAt(src, n) ==
    /\ IsParams(src.params) /\ src.params.valid /\ InBounds(src.params, n)
    /\ src.ready \in BOOLEAN /\ src.done \in BOOLEAN
    /\ src.ready /\ src.params.type # "pulse" => ~CannotPrepare(src.params)
    /\ src.params.type = "file" /\ ~src.ready => n = 0
    /\ \/ src = At(src.params, src.ready, src.done, n)
       \/ IsKeyed(src.params) /\ src = Configured(src.params) /\ n = 0

LEMMA NoBatchYet ==
    ASSUME NEW p, IsBatched(p), Batch(p) \in Nat \ {0}
    PROVE  Batches(p, 0) = 0
<1> DEFINE b == Batch(p)
<1> HIDE DEF b
<1>1. b \in Nat \ {0} /\ 0 = b * 0 + 0 /\ 0 \in 0 .. b - 1
  BY DEF b
<1>2. 0 \div b = 0 /\ 0 % b = 0
  BY <1>1, Quotient
<1>3. QED
  BY <1>2 DEF Batches, b

LEMMA BatchIsPositive ==
    ASSUME NEW p, IsParams(p), p.valid, IsBatched(p)
    PROVE  Batch(p) \in Nat \ {0}
<1>1. CASE p.type = "ofdm"
  BY <1>1 DEF Batch, IsParams
<1>2. CASE p.type = "modulator"
  <2>1. p.sps \in Nat \ {0} /\ BatchSymbols \in Nat \ {0}
    BY <1>2, SourcesAssumption DEF IsParams
  <2>2. BatchSymbols * p.sps >= BatchSymbols /\ BatchSymbols * p.sps \in Int
    BY <2>1, Multiples
  <2>3. QED
    BY <1>2, <2>1, <2>2 DEF Batch
<1>3. QED
  BY <1>1, <1>2 DEF IsBatched

\* The start of a stream.
LEMMA StartOfStream ==
    ASSUME NEW p, IsParams(p), p.valid
    PROVE  /\ PhaseAt(p, 0) = 0 /\ WithinAt(p, 0) = 0 /\ BufferAt(p, 0) = <<>> /\ ReadAt(p, 0) = 0
           /\ TailAt(p, TRUE, 0) = IF p.type = "modulator" THEN [i \in 1 .. Span * p.sps |-> Zero] ELSE <<>>
           /\ TailAt(p, FALSE, 0) = <<>>
           /\ IF IsKeyed(p) THEN DrawsAt(p, 0) = 1 /\ SymbolAt(p, 0) = Draw(0, p.order)
                            ELSE DrawsAt(p, 0) = 0 /\ SymbolAt(p, 0) = 0
<1>1. PhaseAt(p, 0) = 0
  <2>1. p.type \in {"cw", "am", "pm", "ask", "pulse"} => p.inc \in Int /\ 0 * p.inc = 0
    BY DEF IsParams
  <2>2. Phase(0) = 0
    <3>1. Turn \in Nat \ {0} /\ 0 = Turn * 0 + 0 /\ 0 \in 0 .. Turn - 1
      BY SourcesAssumption
    <3>2. QED
      BY <3>1, Quotient DEF Phase
  <2>3. QED
    BY <2>1, <2>2 DEF PhaseAt
<1>2. IsBatched(p) => Batch(p) \in Nat \ {0} /\ Batches(p, 0) = 0 /\ Ahead(p, 0) = 0
  BY NoBatchYet, BatchIsPositive DEF Ahead
<1>3. BufferAt(p, 0) = <<>>
  <2>1. Ahead(p, 0) = 0
    BY <1>2 DEF Ahead
  <2>2. QED
    BY <2>1 DEF BufferAt
<1>4. IF IsKeyed(p) THEN DrawsAt(p, 0) = 1 /\ SymbolAt(p, 0) = Draw(0, p.order)
                    ELSE DrawsAt(p, 0) = 0 /\ SymbolAt(p, 0) = 0
  <2>1. p.type = "ofdm" => p.active \in Nat /\ p.active * 0 = 0
    BY DEF IsParams
  <2>2. BatchSymbols * 0 = 0
    BY SourcesAssumption
  <2>3. p.type \in {"ofdm", "modulator"} => IsBatched(p) /\ Batches(p, 0) = 0
    BY <1>2 DEF IsBatched
  <2>4. QED
    BY <2>1, <2>2, <2>3 DEF DrawsAt, SymbolAt, SymbolOf, IsKeyed
<1>5. ASSUME p.type = "modulator"
      PROVE  TailAt(p, TRUE, 0) = [i \in 1 .. Span * p.sps |-> Zero]
  <2> DEFINE taps == Span * p.sps
  <2>1. taps \in Nat
    <3>1. p.sps \in Nat /\ Span \in Nat
      BY <1>5, SourcesAssumption DEF IsParams
    <3>2. QED
      BY <3>1
  <2>2. Batch(p) * Batches(p, 0) = 0
    BY <1>2, <1>5 DEF IsBatched
  <2>3. \A i \in 1 .. taps : Batch(p) * Batches(p, 0) - taps + i - 1 < 0
    <3> HIDE DEF taps
    <3>1. QED
      BY <2>1, <2>2
  <2>4. \A i \in 1 .. taps : ~(Batch(p) * Batches(p, 0) - taps + i - 1 >= 0)
    <3>1. \A i \in 1 .. taps : Batch(p) * Batches(p, 0) - taps + i - 1 \in Int
      <4> HIDE DEF taps
      <4>1. QED
        BY <2>1, <2>2
    <3> HIDE DEF taps
    <3>2. QED
      BY <2>3, <3>1
  <2>5. \A i \in 1 .. taps : Upsampled(p, Batch(p) * Batches(p, 0) - taps + i - 1) = Zero
    BY <2>4 DEF Upsampled
  <2>6. TailAt(p, TRUE, 0) = [i \in 1 .. taps |-> Upsampled(p, Batch(p) * Batches(p, 0) - taps + i - 1)]
    BY <1>5 DEF TailAt, Taps
  <2> HIDE DEF taps
  <2>7. TailAt(p, TRUE, 0) = [i \in 1 .. taps |-> Zero]
    BY <2>5, <2>6
  <2>8. QED
    BY <2>7 DEF taps
<1>6. QED
  BY <1>1, <1>3, <1>4, <1>5 DEF WithinAt, ReadAt, TailAt

LEMMA ConfiguredAt ==
    ASSUME NEW p, IsParams(p), p.valid
    PROVE  IsSourceAt(Configured(p), 0)
<1>1. InBounds(p, 0)
  <2>1. p.total # None => 0 <= p.total
    BY DEF IsParams
  <2>2. p.type = "file" => Len(p.data) \in Nat
    BY DEF IsParams
  <2>3. QED
    BY <2>1, <2>2 DEF InBounds
<1>2. ~IsKeyed(p) => Configured(p) = At(p, FALSE, FALSE, 0)
  <2>1. TailAt(p, FALSE, 0) = <<>>
    BY StartOfStream
  <2>2. ~IsKeyed(p) => DrawsAt(p, 0) = 0 /\ SymbolAt(p, 0) = 0
    BY StartOfStream
  <2>3. PhaseAt(p, 0) = 0 /\ WithinAt(p, 0) = 0 /\ BufferAt(p, 0) = <<>> /\ ReadAt(p, 0) = 0
    BY StartOfStream
  <2>4. QED
    BY <2>1, <2>2, <2>3 DEF Configured, At
<1>3. /\ Configured(p).params = p /\ Configured(p).ready = FALSE /\ Configured(p).done = FALSE
  BY DEF Configured
<1> DEFINE src == Configured(p)
<1> HIDE DEF src
<1>4. IsSourceAt(src, 0)
  BY <1>1, <1>2, <1>3 DEF IsSourceAt, src
<1>5. QED
  BY <1>4 DEF src

LEMMA ReadySet ==
    ASSUME NEW p, NEW ready, NEW no
    PROVE  [[params |-> p, ready |-> no, produced |-> 0, phase |-> 0, draws |-> 0, within |-> 0, symbol |-> 0,
             buffer |-> <<>>, tail |-> <<>>, read |-> 0, done |-> no] EXCEPT !.ready = ready]
              = [params |-> p, ready |-> ready, produced |-> 0, phase |-> 0, draws |-> 0, within |-> 0, symbol |-> 0,
                 buffer |-> <<>>, tail |-> <<>>, read |-> 0, done |-> no]
OBVIOUS

LEMMA RestartAt ==
    ASSUME NEW src, IsParams(src.params), src.params.valid, src.ready \in BOOLEAN
    PROVE  Restart(src) = At(src.params, src.ready, FALSE, 0)
<1> DEFINE p == src.params
           ready == src.ready
           fresh == [params |-> p, ready |-> ready, produced |-> 0, phase |-> 0, draws |-> 0, within |-> 0,
                     symbol |-> 0, buffer |-> <<>>, tail |-> <<>>, read |-> 0, done |-> FALSE]
<1>1. /\ PhaseAt(p, 0) = 0 /\ WithinAt(p, 0) = 0 /\ BufferAt(p, 0) = <<>> /\ ReadAt(p, 0) = 0
      /\ TailAt(p, TRUE, 0) = IF p.type = "modulator" THEN [i \in 1 .. Span * p.sps |-> Zero] ELSE <<>>
      /\ TailAt(p, FALSE, 0) = <<>>
      /\ IF IsKeyed(p) THEN DrawsAt(p, 0) = 1 /\ SymbolAt(p, 0) = Draw(0, p.order)
                       ELSE DrawsAt(p, 0) = 0 /\ SymbolAt(p, 0) = 0
  BY StartOfStream
<1>2. Restart(src) = Start(fresh)
  <2>1. [Configured(p) EXCEPT !.ready = ready] = fresh
    <3> HIDE DEF p, ready
    <3>1. QED
      BY ReadySet, Zenon DEF Configured
  <2> HIDE DEF fresh
  <2>2. QED
    BY <2>1 DEF Restart
<1>3. fresh.params = p /\ fresh.ready = ready /\ fresh.draws = 0
  OBVIOUS
<1>4. CASE IsKeyed(p)
  <2>1. Start(fresh) = NextSymbol(fresh)
    <3> HIDE DEF fresh
    <3>1. QED
      BY <1>3, <1>4 DEF Start, IsKeyed
  <2>2. NextSymbol(fresh) = [fresh EXCEPT !.symbol = Draw(0, p.order), !.draws = 1, !.within = 0]
    <3> HIDE DEF fresh
    <3>1. 0 + 1 = 1
      OBVIOUS
    <3>2. QED
      BY <1>3, <3>1, Zenon DEF NextSymbol
  <2>3. TailAt(p, ready, 0) = <<>>
    BY <1>4 DEF TailAt, IsKeyed
  <2>4. QED
    BY <1>1, <1>2, <1>4, <2>1, <2>2, <2>3 DEF At
<1>5. CASE p.type = "modulator" /\ ready
  <2>1. Start(fresh) = [fresh EXCEPT !.tail = [i \in 1 .. Span * p.sps |-> Zero]]
    <3> HIDE DEF fresh
    <3> DEFINE zeros == [i \in 1 .. Span * fresh.params.sps |-> Zero]
    <3>1. zeros = [i \in 1 .. Span * p.sps |-> Zero]
      BY <1>3
    <3>2. Start(fresh) = [fresh EXCEPT !.tail = zeros]
      BY <1>3, <1>5 DEF Start
    <3> HIDE DEF zeros
    <3>3. QED
      BY <3>1, <3>2
  <2>2. TailAt(p, ready, 0) = [i \in 1 .. Span * p.sps |-> Zero] /\ ~IsKeyed(p)
    BY <1>1, <1>5 DEF IsKeyed
  <2>3. QED
    BY <1>1, <1>2, <2>1, <2>2 DEF At
<1>6. CASE ~IsKeyed(p) /\ ~(p.type = "modulator" /\ ready)
  <2>1. Start(fresh) = fresh
    <3> HIDE DEF fresh
    <3>1. QED
      BY <1>3, <1>6 DEF Start, IsKeyed
  <2>2. TailAt(p, ready, 0) = <<>>
    BY <1>6 DEF TailAt
  <2>3. QED
    BY <1>1, <1>2, <1>6, <2>1, <2>2 DEF At
<1>7. QED
  BY <1>4, <1>5, <1>6

LEMMA ReadyOnly ==
    ASSUME NEW src, NEW ready, {"params", "ready"} \subseteq DOMAIN src
    PROVE  [src EXCEPT !.ready = ready].params = src.params /\ [src EXCEPT !.ready = ready].ready = ready
OBVIOUS

LEMMA SourceFields ==
    ASSUME NEW src, NEW n, IsSourceAt(src, n)
    PROVE  {"params", "ready", "done"} \subseteq DOMAIN src
<1>1. {"params", "ready", "done"} \subseteq DOMAIN At(src.params, src.ready, src.done, n)
  BY DEF At
<1>2. {"params", "ready", "done"} \subseteq DOMAIN Configured(src.params)
  BY DEF Configured
<1>3. QED
  BY <1>1, <1>2, Zenon DEF IsSourceAt

LEMMA RestartedAt ==
    ASSUME NEW src, NEW n, IsSourceAt(src, n)
    PROVE  IsSourceAt(Restart(src), 0) /\ Restart(src).params = src.params
<1> DEFINE p == src.params
           ready == src.ready
           new == At(p, ready, FALSE, 0)
<1>1. Restart(src) = new
  BY RestartAt DEF IsSourceAt
<1>2. new.params = p /\ new.ready = ready /\ new.done = FALSE
  BY DEF At
<1>3. InBounds(p, 0)
  BY ConfiguredAt DEF IsSourceAt, Configured
<1> HIDE DEF new
<1>4. IsSourceAt(new, 0)
  <2>1. new = At(new.params, new.ready, new.done, 0)
    BY <1>2 DEF new
  <2>2. QED
    BY <1>2, <1>3, <2>1 DEF IsSourceAt
<1>5. QED
  BY <1>1, <1>2, <1>4

LEMMA PreparedAt ==
    ASSUME NEW src, NEW n, IsSourceAt(src, n), ~CannotPrepare(src.params)
    PROVE  /\ Prepare(src) = At(src.params, TRUE, FALSE, 0)
           /\ IsSourceAt(Prepare(src), 0) /\ Prepare(src).params = src.params
<1> DEFINE p == src.params
           set == [src EXCEPT !.ready = TRUE]
           new == At(p, TRUE, FALSE, 0)
<1>1. set.params = p /\ set.ready = TRUE
  BY SourceFields, ReadyOnly
<1>2. Prepare(src) = Restart(set)
  BY DEF Prepare
<1>3. IsParams(p) /\ p.valid /\ InBounds(p, 0)
  BY ConfiguredAt DEF IsSourceAt, Configured
<1> HIDE DEF set
<1>4. Restart(set) = new
  BY <1>1, <1>3, RestartAt
<1>5. new.params = p /\ new.ready = TRUE /\ new.done = FALSE
  BY DEF At
<1> HIDE DEF new
<1>6. IsSourceAt(new, 0)
  <2>1. new = At(new.params, new.ready, new.done, 0)
    BY <1>5 DEF new
  <2>2. QED
    BY <1>3, <1>5, <2>1 DEF IsSourceAt
<1>7. QED
  BY <1>2, <1>4, <1>5, <1>6 DEF new

WithReady(src, yes) == [src EXCEPT !.ready = yes]

LEMMA MadeReady ==
    ASSUME NEW p, NEW ready, NEW done, NEW n, NEW yes, TailAt(p, ready, n) = TailAt(p, yes, n)
    PROVE  WithReady(At(p, ready, done, n), yes) = At(p, yes, done, n)
<1> DEFINE phase == PhaseAt(p, n)
           draws == DrawsAt(p, n)
           within == WithinAt(p, n)
           symbol == SymbolAt(p, n)
           buffer == BufferAt(p, n)
           tail == TailAt(p, yes, n)
           read == ReadAt(p, n)
<1>1. At(p, ready, done, n) = [params |-> p, ready |-> ready, produced |-> n, phase |-> phase, draws |-> draws,
                               within |-> within, symbol |-> symbol, buffer |-> buffer, tail |-> tail,
                               read |-> read, done |-> done]
  BY Zenon DEF At
<1>2. At(p, yes, done, n) = [params |-> p, ready |-> yes, produced |-> n, phase |-> phase, draws |-> draws,
                             within |-> within, symbol |-> symbol, buffer |-> buffer, tail |-> tail,
                             read |-> read, done |-> done]
  BY Zenon DEF At
<1> HIDE DEF phase, draws, within, symbol, buffer, tail, read
<1>3. QED
  BY <1>1, <1>2 DEF WithReady

\* A pulse whose counts are refused is where it was.
LEMMA RefusedAt ==
    ASSUME NEW src, NEW n, IsSourceAt(src, n), CannotPrepare(src.params)
    PROVE  IsSourceAt(Prepare(src), n) /\ Prepare(src).params = src.params
<1> DEFINE p == src.params
           done == src.done
           set == [src EXCEPT !.ready = TRUE]
           new == At(p, TRUE, done, n)
<1>1. CASE p.type # "pulse"
  BY <1>1 DEF Prepare
<1>2. CASE p.type = "pulse"
  <2>1. Prepare(src) = set
    BY <1>2 DEF Prepare
  <2>2. src = At(p, src.ready, done, n)
    BY <1>2 DEF IsSourceAt, IsKeyed
  <2>3. set = new
    <3> DEFINE ready == src.ready
               yes == TRUE
    <3> HIDE DEF p, done, ready, yes
    <3>1. TailAt(p, ready, n) = TailAt(p, yes, n)
      BY <1>2 DEF TailAt
    <3>2. WithReady(At(p, ready, done, n), yes) = At(p, yes, done, n)
      BY <3>1, MadeReady
    <3>3. QED
      BY <2>2, <3>2, Zenon DEF WithReady, p, done, ready, yes
  <2>4. new.params = p /\ new.ready = TRUE /\ new.done = done
    BY DEF At
  <2> HIDE DEF new
  <2>5. IsSourceAt(new, n)
    <3>1. new = At(new.params, new.ready, new.done, n)
      BY <2>4 DEF new
    <3>2. QED
      BY <1>2, <2>4, <3>1 DEF IsSourceAt
  <2>6. QED
    BY <2>1, <2>3, <2>4, <2>5
<1>3. QED
  BY <1>1, <1>2

\* How far a block goes.
LEMMA BlockInBounds ==
    ASSUME NEW src, NEW n \in Nat, IsSourceAt(src, n), NEW max \in Nat, ~CannotRender(src, max)
    PROVE  LET p == src.params
               k == BlockLength(src, max)
           IN  /\ k \in 0 .. max /\ InBounds(p, n + k)
               /\ CanEmitAll(p, src.ready, n, k)
               /\ k > 0 => src = At(p, src.ready, src.done, n)
               /\ p.type = "file" /\ ~src.ready => k = 0
<1> DEFINE p == src.params
           k == BlockLength(src, max)
           limit == Limit(src, max)
<1>1. IsParams(p) /\ p.valid /\ InBounds(p, n) /\ src.ready \in BOOLEAN /\ src.done \in BOOLEAN
  BY DEF IsSourceAt
<1>2. src.produced = n /\ src.read = ReadAt(p, n)
  <2>1. CASE src = At(p, src.ready, src.done, n)
    BY <2>1 DEF At
  <2>2. CASE IsKeyed(p) /\ src = Configured(p) /\ n = 0
    BY <2>2 DEF Configured, ReadAt
  <2>3. QED
    BY <2>1, <2>2 DEF IsSourceAt
<1>3. /\ limit \in 0 .. max
      /\ p.total # None => p.total \in Nat /\ n + limit <= p.total
  <2>1. p.total = None \/ (p.total \in Nat /\ n <= p.total)
    BY <1>1 DEF InBounds, IsParams
  <2>2. limit = IF p.total = None THEN max ELSE IF max < p.total - n THEN max ELSE p.total - n
    BY <1>2 DEF Limit, Least
  <2> HIDE DEF p, limit
  <2>3. CASE p.total = None
    <3>1. limit = max
      BY <2>2, <2>3
    <3>2. QED
      BY <2>3, <3>1
  <2>4. CASE p.total # None
    BY <2>1, <2>2, <2>4
  <2>5. QED
    BY <2>3, <2>4
<1>4. ASSUME p.type = "file"
      PROVE  /\ k \in 0 .. limit /\ InBounds(p, n + k) /\ (~src.ready => k = 0)
             /\ \A i \in 0 .. k - 1 : Len(p.data) > 0 /\ (p.loop \/ n + i < Len(p.data))
  <2> DEFINE len == Len(p.data)
             left == IF src.ready THEN len - src.read ELSE 0
  <2>1. k = IF left + src.read = 0 THEN 0 ELSE IF p.loop THEN limit ELSE Least(left, limit)
    BY <1>4 DEF BlockLength
  <2>2. len \in Nat /\ (len = 0 <=> p.data = <<>>) /\ p.loop \in BOOLEAN
    BY <1>1, <1>4 DEF IsParams
  <2>3. /\ ~p.loop => n <= len
        /\ len = 0 => n = 0
        /\ ~src.ready => n = 0
    BY <1>1, <1>4, <2>2 DEF InBounds, IsSourceAt
  <2>4. IF n = 0 THEN src.read = 0 ELSE len > 0 /\ src.read = 1 + ((n - 1) % len)
    BY <1>2, <1>4, <2>2, <2>3 DEF ReadAt
  <2>5. CASE ~src.ready
    <3>1. left = 0 /\ src.read = 0 /\ k = 0
      <4>1. left = 0
        BY <2>5
      <4> HIDE DEF k, left, len
      <4>2. QED
        BY <2>1, <2>3, <2>4, <2>5, <4>1
    <3>2. n + k = n /\ 0 .. k - 1 = {}
      BY <3>1
    <3> HIDE DEF k
    <3>3. QED
      BY <1>1, <1>3, <3>1, <3>2
  <2>6. CASE src.ready
    <3>1. src.read \in Nat /\ left + src.read = len /\ left \in Int
      <4>1. n # 0 => (n - 1) % len \in Nat
        <5> HIDE DEF len
        <5>1. QED
          BY <2>2, <2>4
      <4>2. src.read \in Nat
        <5> HIDE DEF len
        <5>1. QED
          BY <2>4, <4>1
      <4>3. left = len - src.read
        BY <2>6
      <4> HIDE DEF len, left
      <4>4. QED
        BY <2>2, <4>2, <4>3
    <3> HIDE DEF left
    <3>2. k = IF len = 0 THEN 0 ELSE IF p.loop THEN limit ELSE Least(left, limit)
      BY <2>1, <3>1
    <3>3. ASSUME ~p.loop, len # 0 PROVE src.read = n
      <4>1. CASE n = 0
        BY <2>4, <4>1
      <4>2. CASE n # 0
        <5> DEFINE m == n - 1
        <5> HIDE DEF len
        <5>1. m \in 0 .. len - 1 /\ len \in Nat \ {0} /\ len * 0 + m = m
          BY <2>2, <2>3, <3>3, <4>2
        <5> HIDE DEF m
        <5>2. m % len = m
          <6>1. (len * 0 + m) % len = m
            BY <5>1, Quotient
          <6>2. QED
            BY <5>1, <6>1
        <5>3. src.read = 1 + m
          BY <2>4, <4>2, <5>2 DEF m
        <5>4. QED
          BY <5>3 DEF m
      <4>3. QED
        BY <4>1, <4>2
    <3>4. /\ k \in 0 .. limit
          /\ ~p.loop => n + k <= len
          /\ len = 0 => k = 0
          /\ k > 0 => len > 0
      <4>1. ~p.loop /\ len # 0 => left = len - n
        <5> HIDE DEF len
        <5>1. QED
          BY <2>2, <3>1, <3>3
      <4> HIDE DEF k, limit, len
      <4>2. CASE len = 0
        BY <1>3, <2>2, <2>3, <3>2, <4>2
      <4>3. CASE len # 0
        BY <1>3, <2>2, <2>3, <3>2, <4>1, <4>3 DEF Least
      <4>4. QED
        BY <4>2, <4>3
    <3>5. InBounds(p, n + k)
      <4>1. k \in Nat
        <5> HIDE DEF k, limit
        <5>1. QED
          BY <1>3, <3>4
      <4>2. p.total # None => n + k <= p.total
        <5> HIDE DEF k, limit
        <5>1. QED
          BY <1>3, <3>4
      <4> HIDE DEF k, limit
      <4>3. QED
        BY <1>4, <2>2, <2>3, <3>4, <4>1, <4>2 DEF InBounds
    <3>6. \A i \in 0 .. k - 1 : len > 0 /\ (p.loop \/ n + i < len)
      <4> HIDE DEF k, limit, len
      <4>1. QED
        BY <1>3, <2>2, <3>4
    <3> HIDE DEF k, limit
    <3>7. QED
      BY <2>6, <3>4, <3>5, <3>6
  <2>7. QED
    BY <1>1, <2>5, <2>6
<1>5. ASSUME p.type # "file" PROVE k \in 0 .. limit /\ InBounds(p, n + k)
  <2>1. k \in {0, limit}
    BY <1>5 DEF BlockLength
  <2> HIDE DEF k, limit
  <2>2. QED
    BY <1>1, <1>3, <1>5, <2>1 DEF InBounds
<1>6. ASSUME k > 0, p.type \in {"pulse", "modulator", "fsk", "ask"} PROVE src.ready /\ ~CannotPrepare(p)
  <2>1. k \in 0 .. limit
    BY <1>5, <1>6
  <2> HIDE DEF k, limit
  <2>2. limit > 0 /\ max > 0
    BY <1>3, <1>6, <2>1
  <2>3. p.type = "pulse" => ~src.done
    BY <1>6 DEF BlockLength, k
  <2>4. src.ready /\ (p.type = "pulse" => ~CannotPrepare(p))
    BY <1>1, <1>6, <2>2, <2>3 DEF CannotRender, limit
  <2>5. QED
    BY <2>4 DEF IsSourceAt
<1>7. CanEmitAll(p, src.ready, n, k)
  <2>1. ASSUME NEW i \in 0 .. k - 1 PROVE CanEmit(p, src.ready, n + i)
    <3>1. k > 0
      <4>1. k \in Nat
        <5> HIDE DEF k, limit
        <5>1. QED
          BY <1>3, <1>4, <1>5
      <4> HIDE DEF k
      <4>2. QED
        BY <4>1
    <3> HIDE DEF k
    <3>2. QED
      BY <1>1, <1>4, <1>6, <3>1 DEF CanEmit
  <2> HIDE DEF k
  <2>2. QED
    BY <2>1 DEF CanEmitAll
<1>8. k > 0 => src = At(p, src.ready, src.done, n)
  <2>1. ASSUME IsKeyed(p), src = Configured(p), k > 0 PROVE FALSE
    <3>1. src.ready = FALSE
      BY <2>1 DEF Configured
    <3> HIDE DEF k
    <3>2. QED
      BY <1>6, <2>1, <3>1 DEF IsKeyed
  <2> HIDE DEF k
  <2>2. QED
    BY <2>1 DEF IsSourceAt
<1>9. k \in 0 .. max
  <2> HIDE DEF k, limit
  <2>1. QED
    BY <1>3, <1>4, <1>5
<1> HIDE DEF k, limit
<1>10. QED
  BY <1>4, <1>5, <1>7, <1>8, <1>9 DEF k

WithDone(src, done) == [src EXCEPT !.done = done]

LEMMA DoneSet ==
    ASSUME NEW p, NEW ready, NEW done, NEW n, NEW over
    PROVE  WithDone(At(p, ready, done, n), over) = At(p, ready, over, n)
<1> DEFINE phase == PhaseAt(p, n)
           draws == DrawsAt(p, n)
           within == WithinAt(p, n)
           symbol == SymbolAt(p, n)
           buffer == BufferAt(p, n)
           tail == TailAt(p, ready, n)
           read == ReadAt(p, n)
<1>1. At(p, ready, done, n) = [params |-> p, ready |-> ready, produced |-> n, phase |-> phase, draws |-> draws,
                               within |-> within, symbol |-> symbol, buffer |-> buffer, tail |-> tail,
                               read |-> read, done |-> done]
  BY Zenon DEF At
<1>2. At(p, ready, over, n) = [params |-> p, ready |-> ready, produced |-> n, phase |-> phase, draws |-> draws,
                               within |-> within, symbol |-> symbol, buffer |-> buffer, tail |-> tail,
                               read |-> read, done |-> over]
  BY Zenon DEF At
<1> HIDE DEF phase, draws, within, symbol, buffer, tail, read
<1>3. QED
  BY <1>1, <1>2 DEF WithDone

\* Whether a single pulse is over after k more samples.
Ends(p, ready, n, k) ==
    /\ p.single
    /\ p.total = None \/ n < p.total
    /\ n + k >= IF ready THEN p.pri ELSE 0

\* What render_block does, whatever was rendered before.
LEMMA RenderedAt ==
    ASSUME NEW src, NEW n \in Nat, IsSourceAt(src, n), NEW max \in Nat, ~CannotRender(src, max)
    PROVE  LET r == Render(src, max)
               p == src.params
               k == BlockLength(src, max)
           IN  /\ r.out = Stretch(p, n, k)
               /\ IsSourceAt(r.source, n + k)
               /\ r.source.params = p /\ r.source.ready = src.ready
               /\ src.ready => r.source = At(p, TRUE, r.source.done, n + k)
               /\ r.source.done = (src.done \/ Ends(p, src.ready, n, k))
<1> DEFINE p == src.params
           k == BlockLength(src, max)
           result == Emitted(src, k)
           over == src.done \/ Ends(p, src.ready, n, k)
           r == Render(src, max)
<1>1. /\ k \in 0 .. max /\ InBounds(p, n + k) /\ CanEmitAll(p, src.ready, n, k)
      /\ k > 0 => src = At(p, src.ready, src.done, n)
      /\ p.type = "file" /\ ~src.ready => k = 0
  BY BlockInBounds
<1>2. /\ IsParams(p) /\ p.valid /\ src.ready \in BOOLEAN /\ src.done \in BOOLEAN
      /\ src.ready /\ p.type # "pulse" => ~CannotPrepare(p)
      /\ p.type = "file" /\ ~src.ready => n + k = 0
  <2> HIDE DEF k
  <2>1. QED
    BY <1>1 DEF IsSourceAt
<1>3. r = [result EXCEPT !.source.done = @ \/ IsOver(src, result.source.produced)]
  BY Zenon DEF Render
<1>4. k \in Nat /\ over \in BOOLEAN
  <2> HIDE DEF k
  <2>1. QED
    BY <1>1, <1>2 DEF IsParams, Ends
<1> HIDE DEF k, result, over, r
<1>5. ASSUME src = At(p, src.ready, src.done, n)
      PROVE  r = [source |-> At(p, src.ready, over, n + k), out |-> Stretch(p, n, k)]
  <2> DEFINE after == At(p, src.ready, src.done, n + k)
  <2>1. result = [source |-> after, out |-> Stretch(p, n, k)]
    <3>1. Emitted(At(p, src.ready, src.done, n), k) = [source |-> after, out |-> Stretch(p, n, k)]
      BY <1>1, <1>2, <1>4, EmitsBlock
    <3>2. QED
      BY <1>5, <3>1, Zenon DEF result
  <2>2. after.done = src.done /\ after.produced = n + k /\ src.produced = n
    BY <1>5 DEF At
  <2> HIDE DEF after
  <2>3. result.source = after
    BY <2>1
  <2>4. r = [result EXCEPT !.source.done = over]
    BY <1>3, <2>2, <2>3, Zenon DEF over, IsOver, Ends
  <2>5. r = [source |-> [after EXCEPT !.done = over], out |-> Stretch(p, n, k)]
    BY <2>1, <2>4
  <2>6. [after EXCEPT !.done = over] = At(p, src.ready, over, n + k)
    <3> DEFINE m == n + k
               ready == src.ready
               done == src.done
    <3> HIDE DEF m, ready, done, p
    <3>1. WithDone(At(p, ready, done, m), over) = At(p, ready, over, m)
      BY DoneSet, Zenon
    <3>2. QED
      BY <3>1, Zenon DEF WithDone, after, m, ready, done
  <2>7. QED
    BY <2>5, <2>6, Zenon
<1>6. ASSUME k = 0, IsKeyed(p), src = Configured(p), n = 0
      PROVE  r = [source |-> src, out |-> Stretch(p, n, k)] /\ over = src.done
  <2>1. src.done = FALSE
    BY <1>6 DEF Configured
  <2>2. ~p.single /\ ~IsOver(src, result.source.produced) /\ ~Ends(p, src.ready, n, k)
    BY <1>2, <1>6 DEF IsParams, IsKeyed, IsOver, Ends
  <2>3. result = [source |-> src, out |-> <<>>]
    <3> DEFINE g == [i \in 0 .. 0 |-> [source |-> src, out |-> <<>>]]
    <3>1. IsEmission(g, src, 0) /\ g[0] = [source |-> src, out |-> <<>>]
      BY DEF IsEmission
    <3> HIDE DEF g
    <3>2. QED
      BY <1>6, <3>1, EmittedIs DEF result
  <2>4. result.source = src
    BY <2>3
  <2>5. r = [result EXCEPT !.source.done = FALSE]
    BY <1>3, <2>1, <2>2, <2>4
  <2>6. [src EXCEPT !.done = FALSE] = src
    BY <1>6 DEF Configured
  <2>7. r = [source |-> [src EXCEPT !.done = FALSE], out |-> <<>>]
    BY <2>3, <2>5
  <2>8. Stretch(p, n, k) = <<>>
    BY <1>6 DEF Stretch
  <2>9. QED
    BY <2>1, <2>2, <2>6, <2>7, <2>8 DEF over
<1> DEFINE new == At(p, src.ready, over, n + k)
<1>7. new.params = p /\ new.ready = src.ready /\ new.done = over
  BY DEF At
<1> HIDE DEF new
<1>8. ASSUME src = At(p, src.ready, src.done, n)
      PROVE  /\ r.out = Stretch(p, n, k) /\ IsSourceAt(r.source, n + k)
             /\ r.source.params = p /\ r.source.ready = src.ready
             /\ src.ready => r.source = At(p, TRUE, r.source.done, n + k)
             /\ r.source.done = over
  <2>1. r.out = Stretch(p, n, k) /\ r.source = new
    BY <1>5, <1>8 DEF new
  <2>2. new = At(new.params, new.ready, new.done, n + k)
    BY <1>7, Zenon DEF new
  <2>3. IsSourceAt(new, n + k)
    BY <1>1, <1>2, <1>4, <1>7, <2>2 DEF IsSourceAt
  <2>4. src.ready => new = At(p, TRUE, over, n + k)
    <3>1. src.ready => src.ready = TRUE
      BY <1>2
    <3>2. QED
      BY <3>1, Zenon DEF new
  <2>5. QED
    BY <1>7, <2>1, <2>3, <2>4
<1>9. ASSUME IsKeyed(p), src = Configured(p), n = 0, k = 0
      PROVE  /\ r.out = Stretch(p, n, k) /\ IsSourceAt(r.source, n + k)
             /\ r.source.params = p /\ r.source.ready = src.ready
             /\ src.ready => r.source = At(p, TRUE, r.source.done, n + k)
             /\ r.source.done = over
  <2>1. r.out = Stretch(p, n, k) /\ r.source = src /\ over = src.done
    BY <1>6, <1>9
  <2>2. n + k = n /\ src.ready = FALSE
    BY <1>9 DEF Configured
  <2>3. QED
    BY <2>1, <2>2
<1>10. k = 0 \/ src = At(p, src.ready, src.done, n)
  BY <1>1, <1>4
<1>11. QED
  <2>1. /\ r.out = Stretch(p, n, k) /\ IsSourceAt(r.source, n + k)
        /\ r.source.params = p /\ r.source.ready = src.ready
        /\ src.ready => r.source = At(p, TRUE, r.source.done, n + k)
        /\ r.source.done = over
    BY <1>8, <1>9, <1>10 DEF IsSourceAt
  <2>2. QED
    BY <2>1 DEF r, k, over

-----------------------------------------------------------------------------
(* The stages of a chain. *)

Kinds == {"cfo", "awgn", "phase_offset", "dc_offset", "iq_imbalance", "ripple", "delay", "dropout",
          "phase_noise", "multipath", "fading", "pa"}

IsAsked(f, settings) ==
    f = [n \in 0 .. Len(StageOrder) |->
            IF n = 0 THEN <<>>
            ELSE IF Wanted(StageOrder[n], settings) THEN Append(f[n - 1], StageOrder[n]) ELSE f[n - 1]]

LEMMA StageOrderIs == Len(StageOrder) = 12 /\ \A n \in 1 .. 12 : StageOrder[n] \in Kinds
BY DEF StageOrder, Kinds

LEMMA StagesAre ==
    ASSUME NEW settings, NEW g, IsAsked(g, settings)
    PROVE  StagesOf(settings) = g[12]
<1> DEFINE f == CHOOSE asked : IsAsked(asked, settings)
<1>1. IsAsked(f, settings)
  BY Zenon
<1>2. StagesOf(settings) = f[Len(StageOrder)]
  BY Zenon DEF StagesOf, IsAsked
<1> HIDE DEF f
<1>3. Agree(f, g, 12)
  <2>1. /\ \A n \in 0 .. Len(StageOrder) :
              f[n] = IF n = 0 THEN <<>>
                     ELSE IF Wanted(StageOrder[n], settings) THEN Append(f[n - 1], StageOrder[n]) ELSE f[n - 1]
        /\ \A n \in 0 .. Len(StageOrder) :
              g[n] = IF n = 0 THEN <<>>
                     ELSE IF Wanted(StageOrder[n], settings) THEN Append(g[n - 1], StageOrder[n]) ELSE g[n - 1]
    BY <1>1 DEF IsAsked
  <2>2. Len(StageOrder) = 12
    BY StageOrderIs
  <2>3. Alongside(f, g, 12)
    BY <2>1, <2>2 DEF Alongside
  <2>4. QED
    BY <2>3, Alike
<1>4. QED
  BY <1>2, <1>3, StageOrderIs DEF Agree

LEMMA StagesAreKinds ==
    ASSUME NEW settings
    PROVE  StagesOf(settings) \in Seq(Kinds)
<1> DEFINE step == [n \in 1 .. 12 |-> [s \in Seq(Kinds) |->
                        IF Wanted(StageOrder[n], settings) THEN Append(s, StageOrder[n]) ELSE s]]
<1>1. Stays(Seq(Kinds), step, 12)
  <2>1. ASSUME NEW n \in 1 .. 12, NEW s \in Seq(Kinds) PROVE step[n][s] \in Seq(Kinds)
    <3>1. step[n][s] = IF Wanted(StageOrder[n], settings) THEN Append(s, StageOrder[n]) ELSE s
      OBVIOUS
    <3>2. Append(s, StageOrder[n]) \in Seq(Kinds)
      BY StageOrderIs
    <3> HIDE DEF step
    <3>3. QED
      BY <3>1, <3>2
  <2> HIDE DEF step
  <2>2. QED
    BY <2>1 DEF Stays
<1>2. PICK g \in [0 .. 12 -> Seq(Kinds)] : IsIterated(g, <<>>, step, 12)
  <2>1. <<>> \in Seq(Kinds)
    OBVIOUS
  <2> HIDE DEF step
  <2>2. QED
    BY <1>1, <2>1, Iterates
<1>3. \A n \in 1 .. 12 : g[n] = IF Wanted(StageOrder[n], settings) THEN Append(g[n - 1], StageOrder[n]) ELSE g[n - 1]
  <2>1. TAKE n \in 1 .. 12
  <2>2. g[n - 1] \in Seq(Kinds)
    <3>1. n - 1 \in 0 .. 12
      OBVIOUS
    <3> HIDE DEF step
    <3>2. QED
      BY <3>1
  <2>3. g[n] = step[n][g[n - 1]]
    <3> HIDE DEF step
    <3>1. QED
      BY <1>2 DEF IsIterated
  <2>4. step[n][g[n - 1]] = IF Wanted(StageOrder[n], settings) THEN Append(g[n - 1], StageOrder[n]) ELSE g[n - 1]
    BY <2>2
  <2> HIDE DEF step
  <2>5. QED
    BY <2>3, <2>4
<1> HIDE DEF step
<1>4. IsAsked(g, settings)
  <2>1. \A n \in 0 .. 12 : g[n] = IF n = 0 THEN <<>>
                                  ELSE IF Wanted(StageOrder[n], settings) THEN Append(g[n - 1], StageOrder[n]) ELSE g[n - 1]
    <3>1. g[0] = <<>>
      BY <1>2 DEF IsIterated
    <3>2. \A n \in 0 .. 12 : n = 0 \/ n \in 1 .. 12
      OBVIOUS
    <3>3. QED
      BY <1>3, <3>1, <3>2
  <2>2. g = [n \in 0 .. 12 |-> g[n]]
    OBVIOUS
  <2>3. QED
    BY <2>1, <2>2, StageOrderIs DEF IsAsked
<1>5. g[12] \in Seq(Kinds)
  OBVIOUS
<1>6. QED
  BY <1>4, <1>5, StagesAre

\* Of no settings comes no chain.
LEMMA NoStages == StagesOf(NoSettings) = <<>>
<1> DEFINE g == [n \in 0 .. 12 |-> <<>>]
<1>1. \A kind \in Kinds : ~Wanted(kind, NoSettings)
  BY DEF Wanted, NoSettings, Kinds
<1>2. IsAsked(g, NoSettings)
  <2>1. \A n \in 1 .. 12 : ~Wanted(StageOrder[n], NoSettings)
    BY <1>1, StageOrderIs
  <2>2. \A n \in 0 .. 12 : (IF n = 0 THEN <<>>
           ELSE IF Wanted(StageOrder[n], NoSettings) THEN Append(g[n - 1], StageOrder[n]) ELSE g[n - 1]) = <<>>
    BY <2>1
  <2> HIDE DEF g
  <2>3. g = [n \in 0 .. 12 |-> <<>>]
    BY DEF g
  <2>4. QED
    BY <2>2, <2>3, StageOrderIs DEF IsAsked
<1>3. g[12] = <<>>
  OBVIOUS
<1> HIDE DEF g
<1>4. QED
  BY <1>2, <1>3, StagesAre

\* The dropouts before the next sample.
AfterDrop(d) ==
    IF d.left > 0 THEN [d EXCEPT !.left = @ - 1]
    ELSE IF StartsBurst(d.draws) THEN [draws |-> d.draws + 2, left |-> BurstLength(d.draws + 1) - 1]
    ELSE [d EXCEPT !.draws = @ + 1]

Dropouts == [draws : Nat, left : Nat]
NoDropout == [draws |-> 0, left |-> 0]

IsDropping(f, n) == f = [i \in 0 .. n |-> IF i = 0 THEN NoDropout ELSE AfterDrop(f[i - 1])]

LEMMA BurstIsPositive ==
    ASSUME NEW k \in Nat
    PROVE  BurstLength(k) \in Nat \ {0}
<1>1. (k * (k + 3)) \div 2 \in Int
  OBVIOUS
<1> DEFINE a == (k * (k + 3)) \div 2
<1> HIDE DEF a
<1>2. a % 2 \in 0 .. 1
  BY <1>1 DEF a
<1>3. Draw(k, 2) \in 0 .. 1
  BY <1>2 DEF Draw, a
<1>4. QED
  BY <1>3 DEF BurstLength

LEMMA AfterDropIs ==
    ASSUME NEW d \in Dropouts
    PROVE  AfterDrop(d) \in Dropouts
<1>1. d.draws \in Nat /\ d.left \in Nat /\ d = [draws |-> d.draws, left |-> d.left]
  BY DEF Dropouts
<1>2. BurstLength(d.draws + 1) \in Nat \ {0}
  BY <1>1, BurstIsPositive
<1>3. QED
  BY <1>1, <1>2 DEF AfterDrop, Dropouts

LEMMA DroppingIs ==
    ASSUME NEW n \in Nat
    PROVE  \E f \in [0 .. n -> Dropouts] : IsDropping(f, n) /\ DropoutBefore(n) = f[n]
<1> DEFINE step == [i \in 1 .. n |-> [d \in Dropouts |-> AfterDrop(d)]]
<1>1. PICK g \in [0 .. n -> Dropouts] : IsIterated(g, NoDropout, step, n)
  <2>1. Stays(Dropouts, step, n)
    BY AfterDropIs DEF Stays
  <2>2. NoDropout \in Dropouts
    BY DEF NoDropout, Dropouts
  <2> HIDE DEF step
  <2>3. QED
    BY <2>1, <2>2, Iterates
<1>2. \A i \in 1 .. n : step[i][g[i - 1]] = AfterDrop(g[i - 1])
  <2>1. \A i \in 1 .. n : g[i - 1] \in Dropouts
    <3> HIDE DEF step
    <3>1. \A i \in 1 .. n : i - 1 \in 0 .. n
      OBVIOUS
    <3>2. QED
      BY <3>1
  <2>2. QED
    BY <2>1
<1> HIDE DEF step
<1>3. IsDropping(g, n)
  <2>1. \A i \in 0 .. n : g[i] = IF i = 0 THEN NoDropout ELSE AfterDrop(g[i - 1])
    <3>1. \A i \in 0 .. n : i = 0 \/ i \in 1 .. n
      OBVIOUS
    <3>2. QED
      BY <1>1, <1>2, <3>1 DEF IsIterated
  <2>2. g = [i \in 0 .. n |-> g[i]]
    OBVIOUS
  <2>3. QED
    BY <2>1, <2>2, Zenon DEF IsDropping
<1> DEFINE f == CHOOSE d : IsDropping(d, n)
<1>4. IsDropping(f, n) /\ DropoutBefore(n) = f[n]
  <2>1. IsDropping(f, n)
    BY <1>3, Zenon
  <2>2. DropoutBefore(n) = f[n]
    BY Zenon DEF DropoutBefore, IsDropping, AfterDrop, NoDropout
  <2>3. QED
    BY <2>1, <2>2
<1> HIDE DEF f
<1>5. Agree(f, g, n)
  <2>1. Alongside(f, g, n)
    BY <1>3, <1>4 DEF IsDropping, Alongside
  <2>2. QED
    BY <2>1, Alike
<1>6. QED
  BY <1>3, <1>4, <1>5 DEF Agree

LEMMA DropoutStarts == DropoutBefore(0) = NoDropout
<1>1. PICK f \in [0 .. 0 -> Dropouts] : IsDropping(f, 0) /\ DropoutBefore(0) = f[0]
  <2>1. 0 \in Nat
    OBVIOUS
  <2>2. QED
    BY <2>1, DroppingIs
<1>2. QED
  BY <1>1 DEF IsDropping

LEMMA DropoutMoves ==
    ASSUME NEW n \in Nat
    PROVE  DropoutBefore(n) \in Dropouts /\ DropoutBefore(n + 1) = AfterDrop(DropoutBefore(n))
<1>1. PICK f \in [0 .. n -> Dropouts] : IsDropping(f, n) /\ DropoutBefore(n) = f[n]
  BY DroppingIs
<1>2. PICK g \in [0 .. n + 1 -> Dropouts] : IsDropping(g, n + 1) /\ DropoutBefore(n + 1) = g[n + 1]
  <2>1. n + 1 \in Nat
    OBVIOUS
  <2>2. QED
    BY <2>1, DroppingIs
<1>3. Agree(f, g, n)
  <2>1. Alongside(f, g, n)
    BY <1>1, <1>2 DEF IsDropping, Alongside
  <2>2. QED
    BY <2>1, Alike
<1>4. g[n + 1] = AfterDrop(g[n])
  BY <1>2 DEF IsDropping
<1>5. QED
  BY <1>1, <1>2, <1>3, <1>4 DEF Agree

IsIdle(settings, kind) ==
    kind \in settings.idle \/ (kind \in {"delay", "multipath"} /\ Memory(kind, settings) = <<>>)

Past(settings, kind) ==
    CASE kind = "delay" -> settings.delay
      [] kind = "multipath" -> settings.echo
      [] OTHER -> 0

CountAt(settings, kind, n) ==
    IF IsIdle(settings, kind) THEN 0
    ELSE CASE kind \in {"cfo", "awgn", "ripple", "phase_noise", "fading"} -> n
           [] kind = "dropout" -> DropoutBefore(n).draws
           [] OTHER -> 0

BurstAt(settings, kind, n) == IF kind = "dropout" /\ ~IsIdle(settings, kind) THEN DropoutBefore(n).left ELSE 0

MemoryAt(settings, kind, f, n) ==
    [i \in 1 .. Past(settings, kind) |->
        IF IsIdle(settings, kind) \/ n + i - 1 < Past(settings, kind) THEN Zero ELSE f[n + i - 1 - Past(settings, kind)]]

\* A stage before the n-th sample of the signal f.
StageAt(settings, kind, f, n) ==
    [kind |-> kind, count |-> CountAt(settings, kind, n), burst |-> BurstAt(settings, kind, n),
     memory |-> MemoryAt(settings, kind, f, n), idle |-> IsIdle(settings, kind)]

Steps(settings, kind, f, n) ==
    ApplyStage(StageAt(settings, kind, f, n), f[n])
        = [stage |-> StageAt(settings, kind, f, n + 1), sample |-> StageReference(settings, f, kind)[n]]

IsSettings(settings) == {settings.delay, settings.echo} \subseteq Nat

LEMMA MemoryIs ==
    ASSUME NEW settings, NEW kind
    PROVE  Memory(kind, settings) = [i \in 1 .. Past(settings, kind) |-> Zero]
BY DEF Memory, Past

LEMMA IdleSteps ==
    ASSUME NEW settings, IsSettings(settings), NEW kind \in Kinds, NEW f, NEW n \in Nat, n \in DOMAIN f,
           IsIdle(settings, kind)
    PROVE  Steps(settings, kind, f, n)
<1> DEFINE stage == StageAt(settings, kind, f, n)
<1>1. stage.idle = TRUE
  BY DEF StageAt
<1>2. stage = StageAt(settings, kind, f, n + 1)
  <2>1. CountAt(settings, kind, n) = CountAt(settings, kind, n + 1) /\ BurstAt(settings, kind, n) = BurstAt(settings, kind, n + 1)
    BY DEF CountAt, BurstAt
  <2>2. MemoryAt(settings, kind, f, n) = MemoryAt(settings, kind, f, n + 1)
    <3>1. \A i : (IF IsIdle(settings, kind) \/ n + i - 1 < Past(settings, kind) THEN Zero ELSE f[n + i - 1 - Past(settings, kind)]) = Zero
      OBVIOUS
    <3>2. \A i : (IF IsIdle(settings, kind) \/ n + 1 + i - 1 < Past(settings, kind) THEN Zero ELSE f[n + 1 + i - 1 - Past(settings, kind)]) = Zero
      OBVIOUS
    <3>3. MemoryAt(settings, kind, f, n) = [i \in 1 .. Past(settings, kind) |-> Zero]
      BY <3>1 DEF MemoryAt
    <3>4. MemoryAt(settings, kind, f, n + 1) = [i \in 1 .. Past(settings, kind) |-> Zero]
      BY <3>2 DEF MemoryAt
    <3>5. QED
      BY <3>3, <3>4
  <2>3. QED
    BY <2>1, <2>2, Zenon DEF StageAt
<1> HIDE DEF stage
<1>3. ApplyStage(stage, f[n]) = [stage |-> stage, sample |-> f[n]]
  BY <1>1 DEF ApplyStage, Kept
<1>4. StageReference(settings, f, kind)[n] = f[n]
  <2>1. CASE kind \in settings.idle
    BY <2>1 DEF StageReference
  <2>2. CASE kind \notin settings.idle
    <3>1. kind \in {"delay", "multipath"} /\ Memory(kind, settings) = <<>>
      BY <2>2 DEF IsIdle
    <3>2. Past(settings, kind) = 0
      <4> DEFINE past == Past(settings, kind)
                 m == Memory(kind, settings)
      <4>1. past \in Nat
        BY DEF Past, IsSettings
      <4>2. HasLength(m, past)
        BY MemoryIs DEF HasLength
      <4> HIDE DEF past, m
      <4>3. Len(m) = past
        BY <4>1, <4>2, SequenceIs
      <4>4. m = <<>>
        BY <3>1 DEF m
      <4>5. QED
        BY <4>3, <4>4 DEF past
    <3>3. CASE kind = "delay"
      <4>1. settings.delay = 0
        BY <3>2, <3>3 DEF Past
      <4>2. ~(n < 0) /\ n - 0 = n
        OBVIOUS
      <4>3. QED
        BY <2>2, <3>3, <4>1, <4>2 DEF StageReference
    <3>4. CASE kind = "multipath"
      <4>1. settings.echo = 0
        BY <3>2, <3>4 DEF Past
      <4>2. QED
        BY <2>2, <3>4, <4>1 DEF StageReference
    <3>5. QED
      BY <3>1, <3>3, <3>4
  <2>3. QED
    BY <2>1, <2>2
<1>5. QED
  BY <1>2, <1>3, <1>4 DEF Steps, stage

WithCounts(stage, count, burst) == [stage EXCEPT !.count = count, !.burst = burst]
WithMemory(stage, memory) == [stage EXCEPT !.memory = memory]

LEMMA StageSet ==
    ASSUME NEW settings, NEW kind, NEW f, NEW n \in Nat
    PROVE  /\ MemoryAt(settings, kind, f, n) = MemoryAt(settings, kind, f, n + 1) =>
                WithCounts(StageAt(settings, kind, f, n), CountAt(settings, kind, n + 1), BurstAt(settings, kind, n + 1))
                    = StageAt(settings, kind, f, n + 1)
           /\ CountAt(settings, kind, n) = CountAt(settings, kind, n + 1)
                /\ BurstAt(settings, kind, n) = BurstAt(settings, kind, n + 1) =>
                WithMemory(StageAt(settings, kind, f, n), MemoryAt(settings, kind, f, n + 1))
                    = StageAt(settings, kind, f, n + 1)
<1> DEFINE count == CountAt(settings, kind, n)
           burst == BurstAt(settings, kind, n)
           memory == MemoryAt(settings, kind, f, n)
           nextCount == CountAt(settings, kind, n + 1)
           nextBurst == BurstAt(settings, kind, n + 1)
           nextMemory == MemoryAt(settings, kind, f, n + 1)
           idle == IsIdle(settings, kind)
           stage == StageAt(settings, kind, f, n)
           next == StageAt(settings, kind, f, n + 1)
<1>1. stage = [kind |-> kind, count |-> count, burst |-> burst, memory |-> memory, idle |-> idle]
  BY Zenon DEF StageAt
<1>2. next = [kind |-> kind, count |-> nextCount, burst |-> nextBurst, memory |-> nextMemory, idle |-> idle]
  BY Zenon DEF StageAt
<1> HIDE DEF count, burst, memory, nextCount, nextBurst, nextMemory, idle, stage, next
<1>3. memory = nextMemory => WithCounts(stage, nextCount, nextBurst) = next
  <2> SUFFICES ASSUME memory = nextMemory PROVE WithCounts(stage, nextCount, nextBurst) = next
    OBVIOUS
  <2> DEFINE counted == [stage EXCEPT !.count = nextCount]
  <2>1. counted = [kind |-> kind, count |-> nextCount, burst |-> burst, memory |-> memory, idle |-> idle]
    BY <1>1
  <2> HIDE DEF counted
  <2>2. [counted EXCEPT !.burst = nextBurst]
            = [kind |-> kind, count |-> nextCount, burst |-> nextBurst, memory |-> memory, idle |-> idle]
    BY <2>1
  <2>3. WithCounts(stage, nextCount, nextBurst) = [counted EXCEPT !.burst = nextBurst]
    BY DEF WithCounts, counted
  <2>4. QED
    BY <1>2, <2>2, <2>3
<1>4. count = nextCount /\ burst = nextBurst => WithMemory(stage, nextMemory) = next
  BY <1>1, <1>2 DEF WithMemory
<1>5. QED
  BY <1>3, <1>4, Zenon DEF count, burst, memory, nextCount, nextBurst, nextMemory, stage, next

\* The stages that do not remember samples.
LEMMA PlainSteps ==
    ASSUME NEW settings, NEW kind \in Kinds \ {"delay", "multipath"}, NEW f, NEW n \in Nat, n \in DOMAIN f,
           ~IsIdle(settings, kind)
    PROVE  Steps(settings, kind, f, n)
<1> DEFINE stage == StageAt(settings, kind, f, n)
           next == StageAt(settings, kind, f, n + 1)
           x == f[n]
<1>1. /\ stage.kind = kind /\ stage.idle = FALSE
      /\ stage.count = CountAt(settings, kind, n) /\ stage.burst = BurstAt(settings, kind, n)
  BY DEF StageAt
<1>2. kind \notin settings.idle
  BY DEF IsIdle
<1>3. MemoryAt(settings, kind, f, n) = <<>> /\ MemoryAt(settings, kind, f, n + 1) = <<>>
  <2>1. Past(settings, kind) = 0
    BY DEF Past
  <2>2. QED
    BY <2>1 DEF MemoryAt
<1>4. CASE kind \in {"cfo", "awgn", "ripple", "phase_noise", "fading"}
  <2>1. CountAt(settings, kind, n) = n /\ CountAt(settings, kind, n + 1) = n + 1
    BY <1>4 DEF CountAt
  <2>2. BurstAt(settings, kind, n) = 0 /\ BurstAt(settings, kind, n + 1) = 0
    BY <1>4 DEF BurstAt
  <2>3. [stage EXCEPT !.count = @ + 1] = next
    BY <1>3, <2>1, <2>2 DEF StageAt
  <2>4. StageReference(settings, f, kind)[n] = IF kind = "awgn" THEN <<"awgn", n, x>> ELSE Scaled(kind, n, x)
    BY <1>2, <1>4 DEF StageReference
  <2> HIDE DEF stage, next
  <2>5. ApplyStage(stage, x) = Counted(stage, StageReference(settings, f, kind)[n])
    BY <1>1, <1>4, <2>1, <2>4 DEF ApplyStage, Cfo, Awgn, Ripple, PhaseNoise, Fading
  <2>6. QED
    BY <2>3, <2>5 DEF Counted, Steps, stage, next
<1>5. CASE kind \in {"phase_offset", "iq_imbalance", "pa", "dc_offset"}
  <2>1. CountAt(settings, kind, n) = CountAt(settings, kind, n + 1) /\ BurstAt(settings, kind, n) = BurstAt(settings, kind, n + 1)
    BY <1>5 DEF CountAt, BurstAt
  <2>2. stage = next
    BY <1>3, <2>1 DEF StageAt
  <2>3. StageReference(settings, f, kind)[n] = IF kind = "dc_offset" THEN <<"dc_offset", 0, x>> ELSE Scaled(kind, 0, x)
    BY <1>2, <1>5 DEF StageReference
  <2> HIDE DEF stage, next
  <2>4. ApplyStage(stage, x) = Kept(stage, StageReference(settings, f, kind)[n])
    BY <1>1, <1>5, <2>3 DEF ApplyStage, PhaseOffset, IqImbalance, PaNonlinearity, DcOffset
  <2>5. QED
    BY <2>2, <2>4 DEF Kept, Steps, stage, next
<1>6. CASE kind = "dropout"
  <2> DEFINE d == DropoutBefore(n)
             starts == d.left = 0 /\ StartsBurst(d.draws)
             burst == IF starts THEN BurstLength(d.draws + 1) ELSE d.left
             draws == IF d.left > 0 THEN 0 ELSE IF starts THEN 2 ELSE 1
  <2>1. d \in Dropouts /\ DropoutBefore(n + 1) = AfterDrop(d)
    BY DropoutMoves
  <2>2. stage.count = d.draws /\ stage.burst = d.left
    BY <1>1, <1>6 DEF CountAt, BurstAt
  <2>3. CountAt(settings, kind, n + 1) = AfterDrop(d).draws /\ BurstAt(settings, kind, n + 1) = AfterDrop(d).left
    BY <1>6, <2>1 DEF CountAt, BurstAt
  <2> HIDE DEF d
  <2>4. d.draws \in Nat /\ d.left \in Nat /\ BurstLength(d.draws + 1) \in Nat \ {0}
    BY <2>1, BurstIsPositive DEF Dropouts
  <2>5. AfterDrop(d) = [draws |-> d.draws + draws, left |-> IF burst = 0 THEN 0 ELSE burst - 1]
    <3>1. d = [draws |-> d.draws, left |-> d.left]
      BY <2>1 DEF Dropouts
    <3>2. QED
      BY <2>4, <3>1 DEF AfterDrop
  <2>6. burst > 0 <=> IsDropped(n)
    BY <2>4 DEF IsDropped, d
  <2>7. StageReference(settings, f, kind)[n] = IF burst > 0 THEN Zero ELSE x
    BY <1>2, <1>6, <2>6 DEF StageReference
  <2>8. next = [stage EXCEPT !.count = d.draws + draws, !.burst = IF burst = 0 THEN 0 ELSE burst - 1]
    <3>1. AfterDrop(d).draws = d.draws + draws /\ AfterDrop(d).left = IF burst = 0 THEN 0 ELSE burst - 1
      <4> HIDE DEF draws, burst
      <4>1. QED
        BY <2>5
    <3> HIDE DEF draws, burst
    <3>2. WithCounts(stage, CountAt(settings, kind, n + 1), BurstAt(settings, kind, n + 1)) = next
      BY <1>3, StageSet
    <3>3. QED
      BY <2>3, <3>1, <3>2, Zenon DEF WithCounts
  <2> HIDE DEF stage, next, x
  <2>9. ApplyStage(stage, x) = DropSample(stage, x)
    BY <1>1, <1>6 DEF ApplyStage
  <2>10. DropSample(stage, x) = [stage |-> next, sample |-> IF burst > 0 THEN Zero ELSE x]
    BY <2>2, <2>8, Zenon DEF DropSample
  <2>11. QED
    BY <2>7, <2>9, <2>10 DEF Steps, stage, next, x
<1>7. QED
  BY <1>4, <1>5, <1>6 DEF Kinds

\* What a stage remembers moves on by a sample.
Moved(m, d, x) == [i \in 1 .. d |-> IF i < d THEN m[i + 1] ELSE x]

LEMMA MemoryMoves ==
    ASSUME NEW settings, NEW kind, NEW f, NEW n \in Nat, ~IsIdle(settings, kind),
           Past(settings, kind) \in Nat \ {0}
    PROVE  LET m == MemoryAt(settings, kind, f, n)
               d == Past(settings, kind)
           IN  /\ HasLength(m, d)
               /\ m[1] = IF n < d THEN Zero ELSE f[n - d]
               /\ MemoryAt(settings, kind, f, n + 1) = Moved(m, d, f[n])
<1> DEFINE m == MemoryAt(settings, kind, f, n)
           d == Past(settings, kind)
           next == MemoryAt(settings, kind, f, n + 1)
<1>1. m = [i \in 1 .. d |-> IF n + i - 1 < d THEN Zero ELSE f[n + i - 1 - d]]
  BY DEF MemoryAt
<1>2. next = [i \in 1 .. d |-> IF n + 1 + i - 1 < d THEN Zero ELSE f[n + 1 + i - 1 - d]]
  BY DEF MemoryAt
<1>3. d \in Nat \ {0}
  OBVIOUS
<1> HIDE DEF m, d, next
<1>4. HasLength(m, d)
  BY <1>1 DEF HasLength
<1>5. m[1] = IF n < d THEN Zero ELSE f[n - d]
  <2>1. 1 \in 1 .. d
    BY <1>3
  <2>2. m[1] = IF n + 1 - 1 < d THEN Zero ELSE f[n + 1 - 1 - d]
    BY <1>1, <2>1
  <2>3. n + 1 - 1 = n /\ n + 1 - 1 - d = n - d
    BY <1>3
  <2>4. QED
    BY <2>2, <2>3
<1>6. ASSUME NEW i \in 1 .. d
      PROVE  (IF n + 1 + i - 1 < d THEN Zero ELSE f[n + 1 + i - 1 - d]) = IF i < d THEN m[i + 1] ELSE f[n]
  <2>1. CASE i < d
    <3>1. i + 1 \in 1 .. d
      BY <1>3, <2>1
    <3>2. m[i + 1] = IF n + (i + 1) - 1 < d THEN Zero ELSE f[n + (i + 1) - 1 - d]
      BY <1>1, <3>1
    <3>3. n + (i + 1) - 1 = n + 1 + i - 1 /\ n + (i + 1) - 1 - d = n + 1 + i - 1 - d
      BY <1>3
    <3>4. QED
      BY <2>1, <3>2, <3>3
  <2>2. CASE ~(i < d)
    <3>1. i = d /\ ~(n + 1 + i - 1 < d) /\ n + 1 + i - 1 - d = n
      BY <1>3, <2>2
    <3>2. QED
      BY <2>2, <3>1
  <2>3. QED
    BY <2>1, <2>2
<1>7. next = Moved(m, d, f[n])
  BY <1>2, <1>6 DEF Moved
<1>8. QED
  BY <1>4, <1>5, <1>7 DEF m, d, next

\* Both ways of putting a sample to the end of the memory.
LEMMA MemoryTakes ==
    ASSUME NEW d \in Nat \ {0}, NEW m, HasLength(m, d), NEW x
    PROVE  /\ Head(Append(m, x)) = m[1] /\ Tail(Append(m, x)) = Moved(m, d, x)
           /\ Head(m) = m[1] /\ Append(Tail(m), x) = Moved(m, d, x)
<1>1. d \in Nat /\ d - 1 \in Nat /\ d = (d - 1) + 1
  OBVIOUS
<1> DEFINE a == Append(m, x)
<1>2. a = [i \in 1 .. d + 1 |-> IF i <= d THEN m[i] ELSE x]
  BY <1>1, AppendIs
<1> HIDE DEF a
<1>3. HasLength(a, d + 1)
  BY <1>2 DEF HasLength
<1>4. Head(a) = a[1] /\ Tail(a) = [i \in 1 .. d |-> a[i + 1]]
  BY <1>1, <1>3, TailIs
<1>5. a[1] = m[1]
  BY <1>2
<1>6. \A i \in 1 .. d : a[i + 1] = IF i < d THEN m[i + 1] ELSE x
  BY <1>2
<1>7. Tail(a) = Moved(m, d, x)
  BY <1>4, <1>6 DEF Moved
<1> DEFINE c == d - 1
           t == Tail(m)
<1>8. c \in Nat /\ d = c + 1
  OBVIOUS
<1> HIDE DEF c
<1>9. Head(m) = m[1] /\ t = [i \in 1 .. c |-> m[i + 1]]
  BY <1>8, TailIs
<1> HIDE DEF t
<1>10. HasLength(t, c)
  BY <1>9 DEF HasLength
<1>11. Append(t, x) = [i \in 1 .. c + 1 |-> IF i <= c THEN t[i] ELSE x]
  BY <1>8, <1>10, AppendIs
<1>12. \A i \in 1 .. d : (IF i <= c THEN t[i] ELSE x) = IF i < d THEN m[i + 1] ELSE x
  BY <1>8, <1>9
<1>13. Append(t, x) = Moved(m, d, x)
  BY <1>8, <1>11, <1>12 DEF Moved
<1>14. QED
  BY <1>4, <1>5, <1>7, <1>9, <1>13 DEF a, t

\* The delay and the echo.
LEMMA MemorySteps ==
    ASSUME NEW settings, IsSettings(settings), NEW kind \in {"delay", "multipath"}, NEW f, NEW n \in Nat,
           n \in DOMAIN f, ~IsIdle(settings, kind)
    PROVE  Steps(settings, kind, f, n)
<1> DEFINE stage == StageAt(settings, kind, f, n)
           next == StageAt(settings, kind, f, n + 1)
           d == Past(settings, kind)
           m == MemoryAt(settings, kind, f, n)
           x == f[n]
           old == IF n < d THEN Zero ELSE f[n - d]
<1>1. stage.kind = kind /\ stage.idle = FALSE /\ stage.memory = m
  BY DEF StageAt
<1>2. kind \notin settings.idle /\ Memory(kind, settings) # <<>>
  BY DEF IsIdle
<1>3. d \in Nat \ {0}
  <2>1. d \in Nat
    BY DEF Past, IsSettings
  <2>2. ASSUME d = 0 PROVE FALSE
    <3>1. Memory(kind, settings) = [i \in 1 .. 0 |-> Zero]
      BY <2>2, MemoryIs
    <3>2. QED
      BY <1>2, <3>1
  <2>3. QED
    BY <2>1, <2>2
<1>4. HasLength(m, d) /\ m[1] = old /\ MemoryAt(settings, kind, f, n + 1) = Moved(m, d, x)
  BY <1>3, MemoryMoves
<1>5. WithMemory(stage, Moved(m, d, x)) = next
  <2>1. CountAt(settings, kind, n) = CountAt(settings, kind, n + 1) /\ BurstAt(settings, kind, n) = BurstAt(settings, kind, n + 1)
    BY DEF CountAt, BurstAt
  <2>2. WithMemory(stage, MemoryAt(settings, kind, f, n + 1)) = next
    BY <2>1, StageSet
  <2>3. QED
    BY <1>4, <2>2, Zenon
<1>6. StageReference(settings, f, kind)[n] = IF kind = "delay" THEN old ELSE Echoed(x, old)
  <2>1. CASE kind = "delay"
    BY <1>2, <2>1 DEF StageReference, Past
  <2>2. CASE kind = "multipath"
    <3>1. settings.echo # 0
      BY <1>3, <2>2 DEF Past
    <3>2. QED
      BY <1>2, <2>2, <3>1 DEF StageReference, Past
  <2>3. QED
    BY <2>1, <2>2
<1> HIDE DEF stage, next, d, m, x, old
<1>7. Head(Append(m, x)) = old /\ Tail(Append(m, x)) = Moved(m, d, x) /\ Head(m) = old /\ Append(Tail(m), x) = Moved(m, d, x)
  BY <1>3, <1>4, MemoryTakes
<1>8. CASE kind = "delay"
  <2>1. ApplyStage(stage, x) = Delay(stage, x)
    BY <1>1, <1>8 DEF ApplyStage
  <2>2. Delay(stage, x) = [stage |-> WithMemory(stage, Moved(m, d, x)), sample |-> old]
    BY <1>1, <1>7, Zenon DEF Delay, WithMemory
  <2>3. QED
    BY <1>5, <1>6, <1>8, <2>1, <2>2 DEF Steps, stage, next, x
<1>9. CASE kind = "multipath"
  <2>1. ApplyStage(stage, x) = Multipath(stage, x)
    BY <1>1, <1>9 DEF ApplyStage
  <2>2. Multipath(stage, x) = [stage |-> WithMemory(stage, Moved(m, d, x)), sample |-> Echoed(x, old)]
    BY <1>1, <1>7, Zenon DEF Multipath, WithMemory
  <2>3. QED
    BY <1>5, <1>6, <1>9, <2>1, <2>2 DEF Steps, stage, next, x
<1>10. QED
  BY <1>8, <1>9

LEMMA AnySteps ==
    ASSUME NEW settings, IsSettings(settings), NEW kind \in Kinds, NEW f, NEW n \in Nat, n \in DOMAIN f
    PROVE  Steps(settings, kind, f, n)
<1>1. CASE IsIdle(settings, kind)
  BY <1>1, IdleSteps
<1>2. CASE ~IsIdle(settings, kind) /\ kind \in {"delay", "multipath"}
  BY <1>2, MemorySteps
<1>3. CASE ~IsIdle(settings, kind) /\ kind \notin {"delay", "multipath"}
  <2>1. kind \in Kinds \ {"delay", "multipath"}
    BY <1>3
  <2>2. QED
    BY <1>3, <2>1, PlainSteps
<1>4. QED
  BY <1>1, <1>2, <1>3

-----------------------------------------------------------------------------
(* A stage over a block. *)

\* k samples of the signal f from the n-th on.
Cut(f, n, k) == [i \in 1 .. k |-> f[n + i - 1]]

LEMMA CutHasLength ==
    ASSUME NEW f, NEW n, NEW k
    PROVE  HasLength(Cut(f, n, k), k)
BY DEF HasLength, Cut

LEMMA CutGrows ==
    ASSUME NEW f, NEW n \in Nat, NEW k \in Nat
    PROVE  Append(Cut(f, n, k), f[n + k]) = Cut(f, n, k + 1)
<1> DEFINE c == Cut(f, n, k)
<1>1. c = [i \in 1 .. k |-> f[n + i - 1]]
  BY DEF Cut
<1>2. Cut(f, n, k + 1) = [i \in 1 .. k + 1 |-> f[n + i - 1]]
  BY DEF Cut
<1>3. HasLength(c, k)
  BY CutHasLength
<1> HIDE DEF c
<1>4. Append(c, f[n + k]) = [i \in 1 .. k + 1 |-> IF i <= k THEN c[i] ELSE f[n + k]]
  <2> DEFINE x == f[n + k]
  <2> HIDE DEF x
  <2>1. Append(c, x) = [i \in 1 .. k + 1 |-> IF i <= k THEN c[i] ELSE x]
    BY <1>3, AppendIs
  <2>2. QED
    BY <2>1 DEF x
<1>5. \A i \in 1 .. k + 1 : (IF i <= k THEN c[i] ELSE f[n + k]) = f[n + i - 1]
  <2>1. TAKE i \in 1 .. k + 1
  <2>2. CASE i <= k
    <3>1. i \in 1 .. k
      BY <2>2
    <3>2. QED
      BY <1>1, <2>2, <3>1
  <2>3. CASE ~(i <= k)
    <3>1. i = k + 1 /\ n + (k + 1) - 1 = n + k
      BY <2>3
    <3>2. QED
      BY <2>3, <3>1
  <2>4. QED
    BY <2>2, <2>3
<1>6. QED
  BY <1>2, <1>4, <1>5 DEF c

IsStaged(g, stage, block, k) ==
    g = [i \in 0 .. k |-> IF i = 0 THEN [stage |-> stage, block |-> <<>>] ELSE StageSample(g[i - 1], block[i])]

LEMMA StagedIs ==
    ASSUME NEW stage, NEW k \in Nat, NEW block, HasLength(block, k), NEW g, IsStaged(g, stage, block, k)
    PROVE  StageBlock(stage, block) = g[k]
<1> DEFINE f == CHOOSE result : IsStaged(result, stage, block, k)
<1>1. IsStaged(f, stage, block, k)
  BY Zenon
<1>2. Len(block) = k
  BY SequenceIs
<1>3. StageBlock(stage, block) = f[k]
  BY <1>2, Zenon DEF StageBlock, IsStaged
<1> HIDE DEF f
<1>4. Agree(f, g, k)
  <2>1. Alongside(f, g, k)
    BY <1>1 DEF IsStaged, Alongside
  <2>2. QED
    BY <2>1, Alike
<1>5. QED
  BY <1>3, <1>4 DEF Agree

Covers(f, n, k) == \A i \in 0 .. k - 1 : n + i \in DOMAIN f

LEMMA StepsBlock ==
    ASSUME NEW settings, IsSettings(settings), NEW kind \in Kinds, NEW f, NEW n \in Nat, NEW k \in Nat, Covers(f, n, k)
    PROVE  StageBlock(StageAt(settings, kind, f, n), Cut(f, n, k))
               = [stage |-> StageAt(settings, kind, f, n + k), block |-> Cut(StageReference(settings, f, kind), n, k)]
<1> DEFINE stage == StageAt(settings, kind, f, n)
           block == Cut(f, n, k)
           ref == StageReference(settings, f, kind)
           after(i) == [stage |-> StageAt(settings, kind, f, n + i), block |-> Cut(ref, n, i)]
           g == [i \in 0 .. k |-> after(i)]
<1>1. after(0) = [stage |-> stage, block |-> <<>>]
  <2>1. n + 0 = n /\ Cut(ref, n, 0) = <<>>
    BY DEF Cut
  <2>2. QED
    BY <2>1, Zenon
<1>2. ASSUME NEW i \in 1 .. k PROVE StageSample(after(i - 1), block[i]) = after(i)
  <2> DEFINE m == i - 1
  <2>1. m \in 0 .. k - 1 /\ m \in Nat /\ n + m \in Nat /\ m + 1 = i /\ (n + m) + 1 = n + i /\ n + i - 1 = n + m
    OBVIOUS
  <2> HIDE DEF m
  <2>2. Steps(settings, kind, f, n + m)
    BY <2>1, AnySteps DEF Covers
  <2>3. Append(Cut(ref, n, m), ref[n + m]) = Cut(ref, n, m + 1)
    <3> HIDE DEF ref
    <3>1. QED
      BY <2>1, CutGrows
  <2>4. block[i] = f[n + m]
    BY <2>1 DEF Cut
  <2> DEFINE before == after(m)
             now == StageAt(settings, kind, f, n + m)
             x == f[n + m]
  <2>5. before.stage = now /\ before.block = Cut(ref, n, m)
    OBVIOUS
  <2> HIDE DEF before, block
  <2>6. ApplyStage(now, x) = [stage |-> StageAt(settings, kind, f, (n + m) + 1), sample |-> ref[n + m]]
    BY <2>2, Zenon DEF Steps
  <2> HIDE DEF ref, now
  <2>7. StageSample(before, block[i]) = [stage |-> StageAt(settings, kind, f, (n + m) + 1), block |-> Cut(ref, n, m + 1)]
    <3>1. block[i] = x
      BY <2>4 DEF x
    <3> HIDE DEF x
    <3> DEFINE applied == ApplyStage(now, x)
    <3>2. StageSample(before, x) = [stage |-> applied.stage, block |-> Append(Cut(ref, n, m), applied.sample)]
      BY <2>5, Zenon DEF StageSample
    <3>3. applied.stage = StageAt(settings, kind, f, (n + m) + 1) /\ applied.sample = ref[n + m]
      BY <2>6
    <3> HIDE DEF applied
    <3>4. QED
      BY <2>3, <3>1, <3>2, <3>3
  <2>8. StageSample(before, block[i]) = after(i)
    BY <2>1, <2>7 DEF ref
  <2>9. QED
    BY <2>8 DEF before, m
<1> HIDE DEF ref, block
<1>3. IsStaged(g, stage, block, k)
  <2>1. \A i \in 0 .. k : after(i) = IF i = 0 THEN [stage |-> stage, block |-> <<>>] ELSE StageSample(g[i - 1], block[i])
    <3>1. TAKE i \in 0 .. k
    <3>2. CASE i = 0
      BY <1>1, <3>2
    <3>3. CASE i # 0
      <4>1. i \in 1 .. k /\ i - 1 \in 0 .. k
        BY <3>3
      <4>2. g[i - 1] = after(i - 1)
        <5> HIDE DEF after
        <5>1. QED
          BY <4>1
      <4>3. StageSample(after(i - 1), block[i]) = after(i)
        BY <1>2, <4>1
      <4> HIDE DEF g, after
      <4>4. QED
        BY <3>3, <4>2, <4>3
    <3>4. QED
      BY <3>2, <3>3
  <2>2. g = [i \in 0 .. k |-> after(i)]
    OBVIOUS
  <2> HIDE DEF g, after, stage
  <2>3. QED
    BY <2>1, <2>2 DEF IsStaged
<1>4. g[k] = after(k)
  <2> HIDE DEF after
  <2>1. QED
    OBVIOUS
<1>5. HasLength(block, k)
  BY CutHasLength DEF block
<1> HIDE DEF g, stage
<1>6. QED
  BY <1>3, <1>4, <1>5, StagedIs DEF stage, block, ref

-----------------------------------------------------------------------------
(* The signal behind the first stages. *)

IsBehind(g, params, settings, length, n) ==
    g = [i \in 0 .. n |-> IF i = 0 THEN [m \in 0 .. length - 1 |-> Reference(params, m)]
                          ELSE StageReference(settings, g[i - 1], StagesOf(settings)[i])]

LEMMA BehindExists ==
    ASSUME NEW params, NEW settings, NEW length, NEW N \in Nat
    PROVE  \E g : IsBehind(g, params, settings, length, N)
<1> DEFINE D == {n \in 0 .. N : \E g : IsBehind(g, params, settings, length, n)}
           start == [m \in 0 .. length - 1 |-> Reference(params, m)]
           step(i, h) == StageReference(settings, h, StagesOf(settings)[i])
<1>0. ASSUME NEW g, NEW n
      PROVE  IsBehind(g, params, settings, length, n) <=> g = [i \in 0 .. n |-> IF i = 0 THEN start ELSE step(i, g[i - 1])]
  BY Zenon DEF IsBehind
<1> HIDE DEF start, step
<1>1. 0 \in D
  <2> DEFINE g == [i \in 0 .. 0 |-> start]
  <2>1. \A i \in 0 .. 0 : i = 0
    OBVIOUS
  <2>2. g = [i \in 0 .. 0 |-> IF i = 0 THEN start ELSE step(i, g[i - 1])]
    BY <2>1
  <2> HIDE DEF g
  <2>3. IsBehind(g, params, settings, length, 0)
    BY <1>0, <2>2
  <2>4. QED
    BY <2>3
<1>2. ASSUME NEW n \in 0 .. N, n \in D, n < N PROVE n + 1 \in D
  <2>0. n \in Nat /\ n + 1 \in 0 .. N
    BY <1>2
  <2>1. PICK g : g = [i \in 0 .. n |-> IF i = 0 THEN start ELSE step(i, g[i - 1])]
    BY <1>0, <1>2
  <2> DEFINE last == step(n + 1, g[n])
             h == [i \in 0 .. n + 1 |-> IF i = n + 1 THEN last ELSE g[i]]
  <2>2. \A i \in 0 .. n : h[i] = g[i]
    <3> HIDE DEF last
    <3>1. QED
      BY <2>0
  <2>3. h[n + 1] = last /\ h = [i \in 0 .. n + 1 |-> h[i]]
    <3> HIDE DEF last
    <3>1. QED
      BY <2>0
  <2> HIDE DEF h
  <2>4. ASSUME NEW i \in 0 .. n + 1 PROVE h[i] = IF i = 0 THEN start ELSE step(i, h[i - 1])
    <3>1. CASE i = n + 1
      <4>1. h[i - 1] = g[n] /\ i # 0
        BY <2>0, <2>2, <3>1
      <4>2. QED
        BY <2>3, <3>1, <4>1
    <3>2. CASE i \in 0 .. n
      <4>1. h[i] = g[i] /\ (i # 0 => h[i - 1] = g[i - 1])
        BY <2>0, <2>2, <3>2
      <4>2. g[i] = IF i = 0 THEN start ELSE step(i, g[i - 1])
        BY <2>1, <3>2
      <4>3. QED
        BY <4>1, <4>2
    <3>3. QED
      BY <2>0, <3>1, <3>2
  <2>5. h = [i \in 0 .. n + 1 |-> IF i = 0 THEN start ELSE step(i, h[i - 1])]
    BY <2>3, <2>4
  <2>6. IsBehind(h, params, settings, length, n + 1)
    BY <1>0, <2>5
  <2>7. QED
    BY <2>0, <2>6
<1>3. 0 .. N \subseteq D
  <2> HIDE DEF D
  <2>1. \A n \in 0 .. N : n \in D /\ n < N => n + 1 \in D
    BY <1>2
  <2>2. QED
    BY <1>1, <2>1, UpToBound
<1>4. QED
  BY <1>3

LEMMA BehindIs ==
    ASSUME NEW params, NEW settings, NEW length, NEW N \in Nat, NEW g, IsBehind(g, params, settings, length, N),
           NEW n \in 0 .. N
    PROVE  Behind(params, settings, length, n) = g[n]
<1> DEFINE f == CHOOSE h : IsBehind(h, params, settings, length, n)
<1>0. n \in Nat
  OBVIOUS
<1>1. IsBehind(f, params, settings, length, n)
  <2>1. \E h : IsBehind(h, params, settings, length, n)
    BY <1>0, BehindExists
  <2>2. QED
    BY <2>1, Zenon
<1>2. Behind(params, settings, length, n) = f[n]
  BY Zenon DEF Behind, IsBehind
<1> HIDE DEF f
<1>3. Agree(f, g, n)
  <2>1. \A i \in 0 .. n : i \in 0 .. N
    OBVIOUS
  <2> DEFINE start == [m \in 0 .. length - 1 |-> Reference(params, m)]
             step(i, h) == StageReference(settings, h, StagesOf(settings)[i])
  <2>2. f = [i \in 0 .. n |-> IF i = 0 THEN start ELSE step(i, f[i - 1])]
    BY <1>1, Zenon DEF IsBehind
  <2>3. g = [i \in 0 .. N |-> IF i = 0 THEN start ELSE step(i, g[i - 1])]
    BY Zenon DEF IsBehind
  <2> HIDE DEF start, step
  <2>4. f[0] = start /\ g[0] = start
    BY <1>0, <2>1, <2>2, <2>3
  <2>5. \A i \in 1 .. n : f[i] = step(i, f[i - 1]) /\ g[i] = step(i, g[i - 1])
    BY <2>1, <2>2, <2>3
  <2>6. Alongside(f, g, n)
    BY <2>4, <2>5 DEF Alongside
  <2>7. QED
    BY <1>0, <2>6, Alike
<1>4. QED
  BY <1>2, <1>3 DEF Agree

LEMMA BehindStarts ==
    ASSUME NEW params, NEW settings, NEW length
    PROVE  Behind(params, settings, length, 0) = [m \in 0 .. length - 1 |-> Reference(params, m)]
<1>0. 0 \in Nat /\ 0 \in 0 .. 0
  OBVIOUS
<1>1. PICK g : IsBehind(g, params, settings, length, 0)
  BY <1>0, BehindExists
<1>2. g[0] = [m \in 0 .. length - 1 |-> Reference(params, m)]
  BY <1>0, <1>1, Zenon DEF IsBehind
<1>3. QED
  BY <1>0, <1>1, <1>2, BehindIs

LEMMA BehindMoves ==
    ASSUME NEW params, NEW settings, NEW length, NEW n \in Nat
    PROVE  Behind(params, settings, length, n + 1)
               = StageReference(settings, Behind(params, settings, length, n), StagesOf(settings)[n + 1])
<1> DEFINE N == n + 1
<1>0. N \in Nat /\ n \in 0 .. N /\ N \in 0 .. N /\ N # 0 /\ N - 1 = n
  OBVIOUS
<1> HIDE DEF N
<1>1. PICK g : IsBehind(g, params, settings, length, N)
  BY <1>0, BehindExists
<1>2. g[N] = StageReference(settings, g[n], StagesOf(settings)[N])
  BY <1>0, <1>1, Zenon DEF IsBehind
<1>3. Behind(params, settings, length, N) = g[N] /\ Behind(params, settings, length, n) = g[n]
  BY <1>0, <1>1, BehindIs
<1>4. QED
  BY <1>2, <1>3 DEF N

\* A stage makes as much of a signal as there is of it, and the beginning of the
\* beginning.
Prefixed(f, h, length) ==
    /\ DOMAIN f = 0 .. length - 1
    /\ \A n \in 0 .. length - 1 : n \in DOMAIN h /\ f[n] = h[n]

LEMMA StageIsCausal ==
    ASSUME NEW settings, IsSettings(settings), NEW kind \in Kinds, NEW f, NEW h, NEW length \in Nat,
           Prefixed(f, h, length)
    PROVE  Prefixed(StageReference(settings, f, kind), StageReference(settings, h, kind), length)
<1>1. CASE kind \in settings.idle
  BY <1>1 DEF StageReference
<1>2. CASE kind \notin settings.idle
  <2> DEFINE a == StageReference(settings, f, kind)
             b == StageReference(settings, h, kind)
  <2>1. DOMAIN a = DOMAIN f /\ DOMAIN b = DOMAIN h
    BY <1>2 DEF StageReference
  <2>2. ASSUME NEW n \in 0 .. length - 1 PROVE a[n] = b[n]
    <3>1. n \in DOMAIN f /\ n \in DOMAIN h /\ f[n] = h[n]
      BY DEF Prefixed
    <3>2. ~(n < settings.delay) => f[n - settings.delay] = h[n - settings.delay]
      <4>1. ~(n < settings.delay) => n - settings.delay \in 0 .. length - 1
        BY DEF IsSettings
      <4>2. QED
        BY <4>1 DEF Prefixed
    <3>3. ~(n < settings.echo) => f[n - settings.echo] = h[n - settings.echo]
      <4>1. ~(n < settings.echo) => n - settings.echo \in 0 .. length - 1
        BY DEF IsSettings
      <4>2. QED
        BY <4>1 DEF Prefixed
    <3>4. CASE kind = "delay"
      BY <1>2, <3>1, <3>2, <3>4 DEF StageReference
    <3>5. CASE kind = "multipath"
      BY <1>2, <3>1, <3>3, <3>5 DEF StageReference
    <3>6. CASE kind \notin {"delay", "multipath"}
      BY <1>2, <3>1, <3>6 DEF StageReference, Kinds
    <3>7. QED
      BY <3>4, <3>5, <3>6
  <2> HIDE DEF a, b
  <2>3. Prefixed(a, b, length)
    BY <2>1, <2>2 DEF Prefixed
  <2>4. QED
    BY <2>3 DEF a, b
<1>3. QED
  BY <1>1, <1>2

LEMMA BehindPrefix ==
    ASSUME NEW params, NEW settings, IsSettings(settings), NEW length \in Nat, NEW more \in Nat, length <= more,
           NEW n \in 0 .. Len(StagesOf(settings))
    PROVE  Prefixed(Behind(params, settings, length, n), Behind(params, settings, more, n), length)
<1> DEFINE S == {i \in 0 .. n : Prefixed(Behind(params, settings, length, i), Behind(params, settings, more, i), length)}
<1>1. 0 \in S
  <2>1. Behind(params, settings, length, 0) = [m \in 0 .. length - 1 |-> Reference(params, m)]
    BY BehindStarts
  <2>2. Behind(params, settings, more, 0) = [m \in 0 .. more - 1 |-> Reference(params, m)]
    BY BehindStarts
  <2>3. \A m \in 0 .. length - 1 : m \in 0 .. more - 1
    OBVIOUS
  <2>4. Prefixed(Behind(params, settings, length, 0), Behind(params, settings, more, 0), length)
    BY <2>1, <2>2, <2>3 DEF Prefixed
  <2>5. QED
    BY <2>4
<1>2. ASSUME NEW i \in 0 .. n, i \in S, i < n PROVE i + 1 \in S
  <2> DEFINE f == Behind(params, settings, length, i)
             h == Behind(params, settings, more, i)
             kind == StagesOf(settings)[i + 1]
  <2>1. Prefixed(f, h, length) /\ i \in Nat /\ i + 1 \in 0 .. n
    BY <1>2
  <2>2. /\ Behind(params, settings, length, i + 1) = StageReference(settings, f, kind)
        /\ Behind(params, settings, more, i + 1) = StageReference(settings, h, kind)
    BY <2>1, BehindMoves
  <2>0. kind \in Kinds
    <3>1. StagesOf(settings) \in Seq(Kinds)
      BY StagesAreKinds
    <3>2. i + 1 \in 1 .. Len(StagesOf(settings))
      BY <1>2
    <3>3. QED
      BY <3>1, <3>2
  <2> HIDE DEF f, h, kind
  <2>3. Prefixed(StageReference(settings, f, kind), StageReference(settings, h, kind), length)
    BY <2>0, <2>1, StageIsCausal
  <2>4. QED
    BY <2>1, <2>2, <2>3
<1>3. 0 .. n \subseteq S
  <2> HIDE DEF S
  <2>1. \A i \in 0 .. n : i \in S /\ i < n => i + 1 \in S
    BY <1>2
  <2>2. QED
    BY <1>1, <2>1, UpToBound
<1>4. QED
  BY <1>3

-----------------------------------------------------------------------------
(* The chain over a block. *)

ChainAt(params, settings, length, n) ==
    [i \in DOMAIN StagesOf(settings) |->
        StageAt(settings, StagesOf(settings)[i], Behind(params, settings, length, i - 1), n)]

LEMMA StagesSequence ==
    ASSUME NEW settings
    PROVE  /\ Len(StagesOf(settings)) \in Nat /\ DOMAIN StagesOf(settings) = 1 .. Len(StagesOf(settings))
           /\ \A i \in DOMAIN StagesOf(settings) : StagesOf(settings)[i] \in Kinds
<1> DEFINE stages == StagesOf(settings)
<1>1. stages \in Seq(Kinds)
  BY StagesAreKinds
<1> HIDE DEF stages
<1>2. Len(stages) \in Nat /\ DOMAIN stages = 1 .. Len(stages) /\ \A i \in DOMAIN stages : stages[i] \in Kinds
  BY <1>1
<1>3. QED
  BY <1>2 DEF stages

\* A stage as build_chain makes it.
BuiltStage(settings, kind) ==
    [kind |-> kind, count |-> 0, burst |-> 0, memory |-> Memory(kind, settings), idle |-> IsIdle(settings, kind)]

LEMMA StageBuilt ==
    ASSUME NEW settings, IsSettings(settings), NEW kind \in Kinds, NEW f
    PROVE  BuiltStage(settings, kind) = StageAt(settings, kind, f, 0)
<1>1. CountAt(settings, kind, 0) = 0 /\ BurstAt(settings, kind, 0) = 0
  BY DropoutStarts DEF CountAt, BurstAt, NoDropout, Kinds
<1>2. MemoryAt(settings, kind, f, 0) = Memory(kind, settings)
  <2> DEFINE past == Past(settings, kind)
  <2>1. past \in Nat
    BY DEF Past, IsSettings
  <2>2. MemoryAt(settings, kind, f, 0)
            = [i \in 1 .. past |-> IF IsIdle(settings, kind) \/ 0 + i - 1 < past THEN Zero ELSE f[0 + i - 1 - past]]
    BY DEF MemoryAt
  <2>3. Memory(kind, settings) = [i \in 1 .. past |-> Zero]
    BY MemoryIs
  <2> HIDE DEF past
  <2>4. \A i \in 1 .. past : 0 + i - 1 < past
    BY <2>1
  <2>5. QED
    BY <2>2, <2>3, <2>4
<1>3. QED
  BY <1>1, <1>2, Zenon DEF StageAt, BuiltStage

LEMMA ChainBuilt ==
    ASSUME NEW params, NEW settings, IsSettings(settings), NEW length
    PROVE  BuildChain(settings) = ChainAt(params, settings, length, 0)
<1> DEFINE stages == StagesOf(settings)
           f(i) == Behind(params, settings, length, i - 1)
<1>1. BuildChain(settings) = [i \in DOMAIN stages |-> BuiltStage(settings, stages[i])]
  BY Zenon DEF BuildChain, BuiltStage, IsIdle
<1>2. ChainAt(params, settings, length, 0) = [i \in DOMAIN stages |-> StageAt(settings, stages[i], f(i), 0)]
  BY Zenon DEF ChainAt
<1>3. ASSUME NEW i \in DOMAIN stages PROVE BuiltStage(settings, stages[i]) = StageAt(settings, stages[i], f(i), 0)
  <2> DEFINE kind == stages[i]
             signal == f(i)
  <2>1. kind \in Kinds
    BY StagesSequence
  <2> HIDE DEF kind, signal
  <2>2. BuiltStage(settings, kind) = StageAt(settings, kind, signal, 0)
    BY <2>1, StageBuilt
  <2>3. QED
    BY <2>2 DEF kind, signal
<1> HIDE DEF stages, f
<1>4. QED
  BY <1>1, <1>2, <1>3

IsPassed(g, ch, block, n) ==
    g = [i \in 0 .. n |-> IF i = 0 THEN [stage |-> None, block |-> block] ELSE StageBlock(ch[i], g[i - 1].block)]

LEMMA PassedIs ==
    ASSUME NEW ch, NEW block, NEW N \in Nat, NEW g, IsPassed(g, ch, block, N), NEW n \in 0 .. N
    PROVE  Passed(ch, block, n) = g[n]
<1> DEFINE f == CHOOSE result : IsPassed(result, ch, block, n)
           start == [stage |-> None, block |-> block]
           h == [i \in 0 .. n |-> g[i]]
<1>0. n \in Nat /\ \A i \in 0 .. n : i \in 0 .. N
  OBVIOUS
<1>1. g = [i \in 0 .. N |-> IF i = 0 THEN start ELSE StageBlock(ch[i], g[i - 1].block)]
  BY Zenon DEF IsPassed
<1>2. IsPassed(h, ch, block, n)
  <2> HIDE DEF start
  <2>1. \A i \in 0 .. n : h[i] = g[i]
    OBVIOUS
  <2>2. h = [i \in 0 .. n |-> h[i]]
    OBVIOUS
  <2> HIDE DEF h
  <2>3. ASSUME NEW i \in 0 .. n PROVE h[i] = IF i = 0 THEN start ELSE StageBlock(ch[i], h[i - 1].block)
    <3>1. g[i] = IF i = 0 THEN start ELSE StageBlock(ch[i], g[i - 1].block)
      BY <1>0, <1>1
    <3>2. i # 0 => h[i - 1] = g[i - 1]
      <4>1. i # 0 => i - 1 \in 0 .. n
        OBVIOUS
      <4>2. QED
        BY <2>1, <4>1
    <3>3. QED
      BY <2>1, <3>1, <3>2
  <2>4. h = [i \in 0 .. n |-> IF i = 0 THEN start ELSE StageBlock(ch[i], h[i - 1].block)]
    BY <2>2, <2>3
  <2>5. QED
    BY <2>4, Zenon DEF IsPassed, start
<1>3. IsPassed(f, ch, block, n) /\ Passed(ch, block, n) = f[n]
  <2>1. IsPassed(f, ch, block, n)
    BY <1>2, Zenon
  <2>2. Passed(ch, block, n) = f[n]
    BY Zenon DEF Passed, IsPassed
  <2>3. QED
    BY <2>1, <2>2
<1>4. h[n] = g[n]
  BY <1>0
<1> HIDE DEF f, h
<1>5. Agree(f, h, n)
  <2>1. f = [i \in 0 .. n |-> IF i = 0 THEN start ELSE StageBlock(ch[i], f[i - 1].block)]
    BY <1>3, Zenon DEF IsPassed
  <2>2. h = [i \in 0 .. n |-> IF i = 0 THEN start ELSE StageBlock(ch[i], h[i - 1].block)]
    BY <1>2, Zenon DEF IsPassed
  <2> HIDE DEF start
  <2>3. f[0] = start /\ h[0] = start
    BY <1>0, <2>1, <2>2
  <2>4. \A i \in 1 .. n : f[i] = StageBlock(ch[i], f[i - 1].block) /\ h[i] = StageBlock(ch[i], h[i - 1].block)
    BY <2>1, <2>2
  <2>5. Alongside(f, h, n)
    BY <2>3, <2>4 DEF Alongside
  <2>6. QED
    BY <1>0, <2>5, Alike
<1>6. QED
  BY <1>0, <1>3, <1>4, <1>5 DEF Agree

LEMMA BehindHasDomain ==
    ASSUME NEW params, NEW settings, IsSettings(settings), NEW length \in Nat, NEW n \in 0 .. Len(StagesOf(settings))
    PROVE  DOMAIN Behind(params, settings, length, n) = 0 .. length - 1
<1>1. length <= length
  OBVIOUS
<1>2. Prefixed(Behind(params, settings, length, n), Behind(params, settings, length, n), length)
  BY <1>1, BehindPrefix
<1>3. QED
  BY <1>2 DEF Prefixed

LEMMA PassesStages ==
    ASSUME NEW params, NEW settings, IsSettings(settings), NEW length \in Nat, NEW n \in Nat, NEW k \in Nat,
           n + k <= length, NEW stages \in 0 .. Len(StagesOf(settings))
    PROVE  Passed(ChainAt(params, settings, length, n), Cut(Behind(params, settings, length, 0), n, k), stages)
               = [stage |-> IF stages = 0 THEN None ELSE ChainAt(params, settings, length, n + k)[stages],
                  block |-> Cut(Behind(params, settings, length, stages), n, k)]
<1> DEFINE N == Len(StagesOf(settings))
           before == ChainAt(params, settings, length, n)
           behind(i) == Behind(params, settings, length, i)
           next(i) == ChainAt(params, settings, length, n + k)[i]
           after(i) == [stage |-> IF i = 0 THEN None ELSE next(i), block |-> Cut(behind(i), n, k)]
           block == Cut(behind(0), n, k)
           g == [i \in 0 .. N |-> after(i)]
           start == [stage |-> None, block |-> block]
<1>0. N \in Nat /\ DOMAIN StagesOf(settings) = 1 .. N /\ n + k \in Nat
  BY StagesSequence
<1>1. after(0) = start
  <2> HIDE DEF next, behind
  <2>1. QED
    BY DEF block
<1>2. ASSUME NEW i \in 1 .. N PROVE StageBlock(before[i], after(i - 1).block) = after(i)
  <2> DEFINE kind == StagesOf(settings)[i]
             f == behind(i - 1)
  <2>1. kind \in Kinds
    BY <1>0, StagesSequence
  <2>2. i - 1 \in 0 .. N /\ i - 1 \in Nat /\ (i - 1) + 1 = i /\ i # 0
    BY <1>0
  <2>3. behind(i) = StageReference(settings, f, kind)
    <3>1. Behind(params, settings, length, (i - 1) + 1)
            = StageReference(settings, Behind(params, settings, length, i - 1), StagesOf(settings)[(i - 1) + 1])
      BY <2>2, BehindMoves
    <3>2. QED
      BY <2>2, <3>1
  <2>4. before[i] = StageAt(settings, kind, f, n) /\ next(i) = StageAt(settings, kind, f, n + k)
    BY <1>0, Zenon DEF ChainAt
  <2>5. DOMAIN f = 0 .. length - 1
    BY <2>2, BehindHasDomain
  <2>6. after(i - 1).block = Cut(f, n, k)
    <3> HIDE DEF next
    <3>1. QED
      OBVIOUS
  <2> HIDE DEF kind, f, behind, next, before
  <2>7. Covers(f, n, k)
    BY <2>5 DEF Covers
  <2>8. StageBlock(StageAt(settings, kind, f, n), Cut(f, n, k))
            = [stage |-> StageAt(settings, kind, f, n + k), block |-> Cut(StageReference(settings, f, kind), n, k)]
    BY <2>1, <2>7, StepsBlock
  <2>9. after(i) = [stage |-> next(i), block |-> Cut(behind(i), n, k)]
    BY <2>2
  <2> HIDE DEF after
  <2>10. QED
    BY <2>3, <2>4, <2>6, <2>8, <2>9
<1>3. IsPassed(g, before, block, N)
  <2> HIDE DEF before, block
  <2>1. \A i \in 0 .. N : after(i) = IF i = 0 THEN start ELSE StageBlock(before[i], g[i - 1].block)
    <3>1. TAKE i \in 0 .. N
    <3>2. CASE i = 0
      <4> HIDE DEF after
      <4>1. QED
        BY <1>1, <3>2
    <3>3. CASE i # 0
      <4>1. i \in 1 .. N /\ i - 1 \in 0 .. N
        BY <1>0, <3>3
      <4>2. g[i - 1] = after(i - 1)
        <5> HIDE DEF after
        <5>1. QED
          BY <4>1
      <4>3. StageBlock(before[i], after(i - 1).block) = after(i)
        BY <1>2, <4>1
      <4> HIDE DEF g, after
      <4>4. QED
        BY <3>3, <4>2, <4>3
    <3>4. QED
      BY <3>2, <3>3
  <2>2. g = [i \in 0 .. N |-> after(i)]
    OBVIOUS
  <2> HIDE DEF g, after, start
  <2>3. g = [i \in 0 .. N |-> IF i = 0 THEN start ELSE StageBlock(before[i], g[i - 1].block)]
    BY <2>1, <2>2
  <2>4. QED
    BY <2>3, Zenon DEF IsPassed, start
<1>4. g[stages] = after(stages)
  <2> HIDE DEF after
  <2>1. QED
    OBVIOUS
<1> DEFINE last == stages
<1>5. last \in 0 .. N
  OBVIOUS
<1> HIDE DEF g, before, block, N, last
<1>6. Passed(before, block, last) = g[last]
  BY <1>0, <1>3, <1>5, PassedIs
<1>7. QED
  BY <1>4, <1>6 DEF before, block, last

LEMMA ChainPasses ==
    ASSUME NEW params, NEW settings, IsSettings(settings), NEW length \in Nat, NEW n \in Nat, NEW k \in Nat, n + k <= length
    PROVE  ApplyChain(ChainAt(params, settings, length, n), Cut(Behind(params, settings, length, 0), n, k))
               = [chain |-> ChainAt(params, settings, length, n + k),
                  block |-> Cut(Behind(params, settings, length, Len(StagesOf(settings))), n, k)]
<1> DEFINE N == Len(StagesOf(settings))
           before == ChainAt(params, settings, length, n)
           after == ChainAt(params, settings, length, n + k)
           block == Cut(Behind(params, settings, length, 0), n, k)
           last == Cut(Behind(params, settings, length, N), n, k)
<1>1. N \in Nat /\ DOMAIN before = 1 .. N /\ DOMAIN after = 1 .. N /\ after = [i \in 1 .. N |-> after[i]]
  BY StagesSequence DEF ChainAt
<1>2. ASSUME NEW i \in 1 .. N PROVE Passed(before, block, i).stage = after[i]
  <2>1. i \in 0 .. N /\ i # 0
    BY <1>1
  <2>2. Passed(before, block, i) = [stage |-> IF i = 0 THEN None ELSE after[i],
                                    block |-> Cut(Behind(params, settings, length, i), n, k)]
    BY <2>1, PassesStages
  <2> HIDE DEF before, block, after
  <2>3. QED
    BY <2>1, <2>2
<1>3. Passed(before, block, N).block = last
  <2>1. N \in 0 .. N
    BY <1>1
  <2>2. Passed(before, block, N) = [stage |-> IF N = 0 THEN None ELSE after[N], block |-> last]
    BY <2>1, PassesStages
  <2> HIDE DEF before, block, after, last
  <2>3. QED
    BY <2>2
<1> HIDE DEF N, before, block, after, last
<1>4. Len(before) = N
  <2>1. HasLength(before, N)
    BY <1>1 DEF HasLength, ChainAt, before
  <2>2. QED
    BY <1>1, <2>1, SequenceIs
<1>5. ApplyChain(before, block) = [chain |-> [i \in 1 .. N |-> Passed(before, block, i).stage], block |-> Passed(before, block, N).block]
  BY <1>1, <1>4, Zenon DEF ApplyChain
<1>6. [i \in 1 .. N |-> Passed(before, block, i).stage] = after
  BY <1>1, <1>2
<1>7. QED
  BY <1>3, <1>5, <1>6 DEF before, block, after, last, N

-----------------------------------------------------------------------------
(* The signal of a job. *)

Behinds(params, settings, length) == Behind(params, settings, length, Len(StagesOf(settings)))

LEMMA SignalIs ==
    ASSUME NEW params, NEW settings, IsSettings(settings), NEW n \in Nat, NEW length \in Nat, n <= length
    PROVE  Signal(params, settings, n) = Cut(Behinds(params, settings, length), 0, n)
<1> DEFINE f == Behinds(params, settings, n)
           h == Behinds(params, settings, length)
<1>1. Prefixed(f, h, n)
  <2> DEFINE last == Len(StagesOf(settings))
  <2>1. last \in 0 .. Len(StagesOf(settings))
    BY StagesSequence
  <2>2. Prefixed(Behind(params, settings, n, last), Behind(params, settings, length, last), n)
    BY <2>1, BehindPrefix
  <2>3. QED
    BY <2>2 DEF Behinds
<1>2. Signal(params, settings, n) = [i \in 1 .. n |-> f[i - 1]]
  BY Zenon DEF Signal, Behinds
<1> HIDE DEF f, h
<1>3. Cut(h, 0, n) = [i \in 1 .. n |-> h[0 + i - 1]]
  BY DEF Cut
<1>4. \A i \in 1 .. n : f[i - 1] = h[0 + i - 1]
  <2>1. TAKE i \in 1 .. n
  <2>2. i - 1 \in 0 .. n - 1 /\ 0 + i - 1 = i - 1
    OBVIOUS
  <2>3. QED
    BY <1>1, <2>2 DEF Prefixed
<1>5. QED
  BY <1>2, <1>3, <1>4 DEF h

LEMMA CutsJoin ==
    ASSUME NEW f, NEW n \in Nat, NEW k \in Nat
    PROVE  Cut(f, 0, n) \o Cut(f, n, k) = Cut(f, 0, n + k)
<1> DEFINE a == Cut(f, 0, n)
           b == Cut(f, n, k)
<1>1. HasLength(a, n) /\ HasLength(b, k)
  BY CutHasLength
<1>2. a = [i \in 1 .. n |-> f[0 + i - 1]] /\ b = [i \in 1 .. k |-> f[n + i - 1]]
  BY DEF Cut
<1>3. Cut(f, 0, n + k) = [i \in 1 .. n + k |-> f[0 + i - 1]]
  BY DEF Cut
<1> HIDE DEF a, b
<1>4. a \o b = [i \in 1 .. n + k |-> IF i <= n THEN a[i] ELSE b[i - n]]
  <2>1. \A x, y : HasLength(x, n) /\ HasLength(y, k) => x \o y = [i \in 1 .. n + k |-> IF i <= n THEN x[i] ELSE y[i - n]]
    BY ConcatIs
  <2>2. QED
    BY <1>1, <2>1
<1>5. \A i \in 1 .. n + k : (IF i <= n THEN a[i] ELSE b[i - n]) = f[0 + i - 1]
  <2>1. TAKE i \in 1 .. n + k
  <2>2. CASE i <= n
    <3>1. i \in 1 .. n
      BY <2>2
    <3>2. QED
      BY <1>2, <2>2, <3>1
  <2>3. CASE ~(i <= n)
    <3>1. i - n \in 1 .. k
      BY <2>3
    <3>2. b[i - n] = f[n + (i - n) - 1]
      BY <1>2, <3>1
    <3>3. n + (i - n) - 1 = 0 + i - 1
      OBVIOUS
    <3>4. QED
      BY <2>3, <3>2, <3>3
  <2>4. QED
    BY <2>2, <2>3
<1>6. QED
  BY <1>3, <1>4, <1>5 DEF a, b

LEMMA SignalGrows ==
    ASSUME NEW params, NEW settings, IsSettings(settings), NEW n \in Nat, NEW k \in Nat, NEW length \in Nat,
           n + k <= length
    PROVE  Signal(params, settings, n) \o Cut(Behinds(params, settings, length), n, k) = Signal(params, settings, n + k)
<1> DEFINE f == Behinds(params, settings, length)
           more == n + k
<1>1. n <= length /\ more \in Nat /\ more <= length
  OBVIOUS
<1> HIDE DEF more
<1>2. Signal(params, settings, n) = Cut(f, 0, n) /\ Signal(params, settings, more) = Cut(f, 0, more)
  BY <1>1, SignalIs
<1> HIDE DEF f
<1>3. Cut(f, 0, n) \o Cut(f, n, k) = Cut(f, 0, n + k)
  BY CutsJoin
<1>4. QED
  BY <1>2, <1>3 DEF f, more

LEMMA StretchIsCut ==
    ASSUME NEW params, NEW settings, NEW n \in Nat, NEW k \in Nat, NEW length \in Nat, n + k <= length
    PROVE  Stretch(params, n, k) = Cut(Behind(params, settings, length, 0), n, k)
<1> DEFINE f == Behind(params, settings, length, 0)
<1>1. f = [m \in 0 .. length - 1 |-> Reference(params, m)]
  BY BehindStarts
<1> HIDE DEF f
<1>2. \A i \in 1 .. k : n + i - 1 \in 0 .. length - 1
  OBVIOUS
<1>3. \A i \in 1 .. k : f[n + i - 1] = Reference(params, n + i - 1)
  BY <1>1, <1>2
<1>4. Cut(f, n, k) = [i \in 1 .. k |-> Reference(params, n + i - 1)]
  BY <1>3 DEF Cut
<1>5. QED
  BY <1>4 DEF Stretch, f

LEMMA SignalHasLength ==
    ASSUME NEW params, NEW settings, NEW n \in Nat
    PROVE  HasLength(Signal(params, settings, n), n) /\ Len(Signal(params, settings, n)) = n
<1>1. HasLength(Signal(params, settings, n), n)
  BY DEF HasLength, Signal
<1> DEFINE f == Signal(params, settings, n)
<1> HIDE DEF f
<1>2. HasLength(f, n)
  BY <1>1 DEF f
<1>3. Len(f) = n
  BY <1>2, SequenceIs
<1>4. QED
  BY <1>1, <1>3 DEF f

LEMMA NoneIsSettings == IsSettings(NoSettings)
BY DEF IsSettings, NoSettings

LEMMA PlainSignal ==
    ASSUME NEW params, NEW n \in Nat
    PROVE  Signal(params, NoSettings, n) = Stretch(params, 0, n)
<1>1. Len(StagesOf(NoSettings)) = 0
  BY NoStages
<1>2. Signal(params, NoSettings, n) = Cut(Behinds(params, NoSettings, n), 0, n)
  <2>1. n <= n
    OBVIOUS
  <2>2. QED
    BY <2>1, NoneIsSettings, SignalIs
<1>3. 0 \in Nat /\ 0 + n <= n
  OBVIOUS
<1>4. Stretch(params, 0, n) = Cut(Behind(params, NoSettings, n, 0), 0, n)
  BY <1>3, StretchIsCut
<1>5. QED
  BY <1>1, <1>2, <1>4 DEF Behinds

LEMMA SignalStarts ==
    ASSUME NEW params, NEW settings
    PROVE  Signal(params, settings, 0) = <<>>
BY DEF Signal

-----------------------------------------------------------------------------
(* The jobs. *)

LEMMA SampleCountIs ==
    ASSUME NEW time \in Int
    PROVE  /\ SampleCount(time) \in Int
           /\ 2 * (TicksPerSample * SampleCount(time)) <= 2 * time + TicksPerSample
           /\ 2 * time + TicksPerSample < 2 * (TicksPerSample * SampleCount(time)) + 2 * TicksPerSample
           /\ time >= 0 => SampleCount(time) \in Nat
<1> DEFINE a == 2 * time + TicksPerSample
           b == 2 * TicksPerSample
           q == a \div b
<1>1. a \in Int /\ b \in Nat \ {0} /\ TicksPerSample \in Nat \ {0}
  BY SignalAssumption
<1>2. SampleCount(time) = q
  BY DEF SampleCount
<1> HIDE DEF a, b, q
<1>3. q \in Int /\ a % b \in 0 .. b - 1 /\ a = b * q + (a % b)
  BY <1>1, Division DEF q
<1>4. b * q = 2 * (TicksPerSample * q)
  BY <1>1, <1>3 DEF b
<1>5. 2 * (TicksPerSample * q) <= a /\ a < 2 * (TicksPerSample * q) + b
  BY <1>1, <1>3, <1>4
<1>6. time >= 0 => q >= 0
  <2>1. time >= 0 => a >= 0
    BY <1>1 DEF a
  <2>2. ASSUME q < 0, a >= 0 PROVE FALSE
    <3>1. 0 - q >= 1 /\ 0 - q \in Int
      BY <1>3, <2>2
    <3>2. b * (0 - q) >= b
      BY <1>1, <3>1, Multiples
    <3>3. b * (0 - q) = 0 - b * q
      BY <1>1, <1>3
    <3>4. QED
      BY <1>1, <1>3, <2>2, <3>2, <3>3
  <2>3. QED
    BY <1>3, <2>1, <2>2
<1>7. QED
  BY <1>2, <1>3, <1>5, <1>6 DEF a, b

LEMMA UsesAre ==
    ASSUME NEW u \in Uses
    PROVE  /\ u.kind \in {"interface", "render", "mix", "replay"}
           /\ Len(u.jobs) \in Nat \ {0} /\ DOMAIN u.jobs = 1 .. Len(u.jobs)
           /\ \A k \in DOMAIN u.jobs : IsJob(u.jobs[k])
           /\ u.start \in Nat /\ u.duration \in Nat
           /\ u.kind \in {"interface", "render"} => Len(u.jobs) = 1
           /\ u.kind = "interface" => u.jobs[1].params.valid
<1>1. u.jobs \in Seq(Range(u.jobs)) \ {<<>>}
  BY SignalAssumption
<1> DEFINE jobs == u.jobs
           S == Range(u.jobs)
<1> HIDE DEF jobs, S
<1>2. jobs \in Seq(S) /\ jobs # <<>>
  BY <1>1 DEF jobs, S
<1>3. Len(jobs) \in Nat \ {0} /\ DOMAIN jobs = 1 .. Len(jobs)
  BY <1>2
<1>4. QED
  BY <1>3, SignalAssumption DEF jobs

\* The parameters and the settings of a job.
LEMMA JobIs ==
    ASSUME NEW j, IsJob(j)
    PROVE  /\ IsSettings(j.settings) /\ SampleCount(j.duration) \in Nat
           /\ j.block \in Nat /\ j.start \in Nat /\ j.duration \in Nat
           /\ IsParams(j.params) /\ IsParams(JobParams(j))
           /\ JobParams(j).total = IF j.duration > 0 THEN SampleCount(j.duration) ELSE j.params.total
           /\ CannotPrepare(JobParams(j)) = CannotPrepare(j.params)
           /\ \A field \in DOMAIN Params \ {"total"} : JobParams(j)[field] = j.params[field]
<1> DEFINE p == j.params
           count == SampleCount(j.duration)
           total == IF j.duration > 0 THEN count ELSE p.total
           q == JobParams(j)
<1>1. IsParams(p) /\ IsSettings(j.settings) /\ j.block \in Nat /\ j.start \in Nat /\ j.duration \in Nat
  BY DEF IsJob, IsSettings
<1>2. count \in Nat
  BY <1>1, SampleCountIs
<1>3. total \in Nat \cup {None}
  BY <1>1, <1>2 DEF IsParams
<1>4. q = [p EXCEPT !.total = total]
  BY Zenon DEF JobParams
<1>5. DOMAIN p = DOMAIN Params /\ DOMAIN Params = {"type", "valid", "total", "inc", "mod", "dev", "tones", "order",
          "sps", "pw", "pri", "single", "fft", "prefix", "active", "data", "loop"}
  BY <1>1 DEF IsParams, Params
<1> HIDE DEF p, q, total, count
<1>6. DOMAIN q = DOMAIN Params /\ q.total = total
  BY <1>4, <1>5
<1>7. \A field \in DOMAIN Params \ {"total"} : q[field] = p[field]
  BY <1>4, <1>5
<1>8. /\ q.type = p.type /\ q.valid = p.valid /\ q.inc = p.inc /\ q.mod = p.mod /\ q.dev = p.dev
      /\ q.tones = p.tones /\ q.order = p.order /\ q.sps = p.sps /\ q.pw = p.pw /\ q.pri = p.pri
      /\ q.single = p.single /\ q.fft = p.fft /\ q.prefix = p.prefix /\ q.active = p.active
      /\ q.data = p.data /\ q.loop = p.loop
  BY <1>5, <1>7
<1>9. IsParams(q)
  BY <1>1, <1>3, <1>6, <1>8 DEF IsParams
<1>10. CannotPrepare(q) = CannotPrepare(p)
  BY <1>8 DEF CannotPrepare
<1>11. QED
  BY <1>1, <1>2, <1>6, <1>7, <1>9, <1>10 DEF p, q, total, count

-----------------------------------------------------------------------------
(* The samples are those of the waveform: the inductive invariant says where *)
(* the source and the stages are.                                            *)

AtInterface ==
    /\ pc = "idle" /\ job = 1 /\ IsSourceAt(source, Len(out))
    /\ out = Drawn(Signal(source.params, NoSettings, Len(out)))

\* A job under way.
IsRendering ==
    LET p == JobParams(TheJob)
    IN  /\ ~Refused(TheJob) /\ ~Misplaced(TheJob)
        /\ source = At(p, TRUE, source.done, Len(out)) /\ source.done \in BOOLEAN
        /\ InBounds(p, Len(out)) /\ Len(out) <= Target
        /\ chain = ChainAt(p, TheJob.settings, Target, Len(out))
        /\ out = Signal(p, TheJob.settings, Len(out))

\* A job that came to an end too soon.
IsCut ==
    out # <<>> => /\ source.params = JobParams(TheJob) /\ InBounds(source.params, Len(out))
                  /\ out = Signal(source.params, TheJob.settings, Len(out))

AtWork ==
    /\ pc \in {"idle", "rendering", "done", "failed", "stopped"}
    /\ IF pc = "done" THEN job = Len(use.jobs) + 1 ELSE job \in DOMAIN use.jobs
    /\ pc \in {"idle", "done"} => out = <<>>
    /\ pc = "rendering" \/ out # <<>> => generator = "set"
    /\ pc = "rendering" => IsRendering
    /\ pc \in {"failed", "stopped"} => IsCut

StreamInv ==
    /\ use \in Uses /\ IsParams(source.params) /\ Len(out) \in Nat
    /\ IF IsInterface THEN AtInterface ELSE AtWork

\* A generator in the place of another changes what is drawn, and nothing else.
LEMMA DrawnHasLength ==
    ASSUME NEW s, NEW n \in Nat, HasLength(s, n)
    PROVE  HasLength(Drawn(s), n) /\ Len(Drawn(s)) = n
<1>1. DOMAIN s = 1 .. n
  BY DEF HasLength
<1>2. HasLength(Drawn(s), n)
  BY <1>1 DEF Drawn, HasLength
<1> DEFINE d == Drawn(s)
<1> HIDE DEF d
<1>3. HasLength(d, n)
  BY <1>2 DEF d
<1>4. Len(d) = n
  BY <1>3, SequenceIs
<1>5. QED
  BY <1>3, <1>4 DEF d

LEMMA DrawnJoins ==
    ASSUME NEW s, NEW t, NEW n \in Nat, NEW k \in Nat, HasLength(s, n), HasLength(t, k)
    PROVE  Drawn(s) \o Drawn(t) = Drawn(s \o t)
<1> DEFINE D(x) == <<generator, x>>
           a == [i \in 1 .. n |-> D(s[i])]
           b == [i \in 1 .. k |-> D(t[i])]
           joined == [i \in 1 .. n + k |-> IF i <= n THEN s[i] ELSE t[i - n]]
<1>1. CASE ~IsForeign
  BY <1>1 DEF Drawn
<1>2. CASE IsForeign
  <2>1. DOMAIN s = 1 .. n /\ DOMAIN t = 1 .. k /\ n + k \in Nat
    BY DEF HasLength
  <2>2. Drawn(s) = a /\ Drawn(t) = b
    BY <1>2, <2>1 DEF Drawn
  <2>3. s \o t = joined
    BY ConcatIs
  <2>4. Drawn(joined) = [i \in 1 .. n + k |-> D(joined[i])]
    BY <1>2 DEF Drawn
  <2>5. HasLength(a, n) /\ HasLength(b, k)
    BY DEF HasLength
  <2>6. \A i \in 1 .. n : a[i] = D(s[i])
    OBVIOUS
  <2>7. \A i \in 1 .. k : b[i] = D(t[i])
    OBVIOUS
  <2>8. \A i \in 1 .. n + k : joined[i] = IF i <= n THEN s[i] ELSE t[i - n]
    OBVIOUS
  <2> HIDE DEF a, b, joined
  <2>9. a \o b = [i \in 1 .. n + k |-> IF i <= n THEN a[i] ELSE b[i - n]]
    <3>1. \A x, y : HasLength(x, n) /\ HasLength(y, k) => x \o y = [i \in 1 .. n + k |-> IF i <= n THEN x[i] ELSE y[i - n]]
      BY ConcatIs
    <3>2. QED
      BY <2>5, <3>1
  <2>10. \A i \in 1 .. n + k : (IF i <= n THEN a[i] ELSE b[i - n]) = D(joined[i])
    <3>1. TAKE i \in 1 .. n + k
    <3>2. CASE i <= n
      <4>1. i \in 1 .. n
        BY <3>2
      <4>2. QED
        BY <2>6, <2>8, <3>2, <4>1
    <3>3. CASE ~(i <= n)
      <4>1. i - n \in 1 .. k
        BY <3>3
      <4>2. QED
        BY <2>7, <2>8, <3>3, <4>1
    <3>4. QED
      BY <3>2, <3>3
  <2> HIDE DEF D
  <2>11. a \o b = [i \in 1 .. n + k |-> D(joined[i])]
    BY <2>9, <2>10
  <2>12. QED
    BY <2>2, <2>3, <2>4, <2>11
<1>3. QED
  BY <1>1, <1>2

\* Of no samples there is nothing to draw.
LEMMA DrawnStarts ==
    ASSUME NEW params, NEW settings
    PROVE  Drawn(Signal(params, settings, 0)) = <<>>
<1>1. Signal(params, settings, 0) = <<>>
  BY SignalStarts
<1> DEFINE s == Signal(params, settings, 0)
<1> HIDE DEF s
<1>2. s = <<>> => Drawn(s) = <<>>
  BY DEF Drawn
<1>3. QED
  BY <1>1, <1>2 DEF s

LEMMA StartsAfresh ==
    ASSUME out' = <<>>
    PROVE  Len(out') = 0 /\ (out = Drawn(Signal(source.params, NoSettings, Len(out))))'
<1>1. Len(out') = 0
  OBVIOUS
<1>2. Signal(source'.params, NoSettings, Len(out')) = <<>>
  BY <1>1, SignalStarts
<1> DEFINE s == Signal(source.params, NoSettings, Len(out))
<1>3. s' = <<>>
  BY <1>2
<1> HIDE DEF s
<1>4. Drawn(s)' = <<>>
  BY <1>3 DEF Drawn
<1>5. QED
  BY <1>1, <1>4 DEF s

LEMMA StreamStarts == Init => StreamInv
<1> SUFFICES ASSUME Init PROVE StreamInv
  OBVIOUS
<1> DEFINE p == use.jobs[1].params
<1>1. use \in Uses /\ pc = "idle" /\ job = 1 /\ source = Configured(p) /\ out = <<>>
  BY DEF Init
<1>2. 1 \in DOMAIN use.jobs /\ IsJob(use.jobs[1])
  BY <1>1, UsesAre
<1>3. IsParams(p) /\ source.params = p
  BY <1>1, <1>2 DEF IsJob, Configured
<1>4. Len(out) = 0
  BY <1>1
<1>5. CASE IsInterface
  <2>1. p.valid
    BY <1>1, <1>5, UsesAre DEF IsInterface
  <2>2. IsSourceAt(source, 0)
    <3> HIDE DEF p
    <3>1. QED
      BY <1>1, <1>3, <2>1, ConfiguredAt
  <2>3. out = Drawn(Signal(source.params, NoSettings, 0))
    BY <1>1, DrawnStarts
  <2>4. QED
    BY <1>1, <1>3, <1>4, <1>5, <2>2, <2>3 DEF StreamInv, AtInterface
<1>6. CASE ~IsInterface
  BY <1>1, <1>2, <1>3, <1>4, <1>6 DEF StreamInv, AtWork
<1>7. QED
  BY <1>5, <1>6

\* The calls of the interface.
LEMMA ConfigureKeepsStream ==
    ASSUME StreamInv, NEW params \in Reconfigurations, CallConfigure(params)
    PROVE  StreamInv'
<1>1. /\ use' = use /\ pc' = pc /\ job' = job /\ IsInterface /\ source' = Configure(source, params)
      /\ IF params.valid THEN out' = <<>> ELSE generator' = generator /\ out' = out
  BY DEF CallConfigure
<1>2. use \in Uses /\ AtInterface /\ IsInterface' /\ IsParams(source.params) /\ Len(out) \in Nat
  BY <1>1 DEF StreamInv, IsInterface
<1>3. IsParams(params)
  BY SignalAssumption
<1>4. CASE params.valid
  <2>1. source' = Configured(params) /\ out' = <<>>
    BY <1>1, <1>4 DEF Configure
  <2>2. source'.params = params
    BY <2>1 DEF Configured
  <2>3. IsSourceAt(source', 0)
    BY <1>3, <1>4, <2>1, ConfiguredAt
  <2>4. Len(out') = 0 /\ (out = Drawn(Signal(source.params, NoSettings, Len(out))))'
    BY <2>1, StartsAfresh
  <2>5. QED
    BY <1>1, <1>2, <1>3, <2>2, <2>3, <2>4 DEF StreamInv, AtInterface
<1>5. CASE ~params.valid
  BY <1>1, <1>2, <1>5 DEF StreamInv, AtInterface, Configure, Drawn, IsForeign
<1>6. QED
  BY <1>4, <1>5

LEMMA PrepareKeepsStream ==
    ASSUME StreamInv, CallPrepare
    PROVE  StreamInv'
<1>1. /\ use' = use /\ pc' = pc /\ job' = job /\ IsInterface /\ source' = Prepare(source)
      /\ IF CannotPrepare(source.params) THEN generator' = generator /\ out' = out ELSE out' = <<>>
  BY DEF CallPrepare
<1>2. use \in Uses /\ AtInterface /\ IsInterface' /\ IsParams(source.params) /\ Len(out) \in Nat
  BY <1>1 DEF StreamInv, IsInterface
<1>3. CASE CannotPrepare(source.params)
  <2>1. IsSourceAt(source', Len(out)) /\ source'.params = source.params
    BY <1>1, <1>2, <1>3, RefusedAt DEF AtInterface
  <2>2. (out = Drawn(Signal(source.params, NoSettings, Len(out))))'
    BY <1>1, <1>2, <1>3, <2>1 DEF AtInterface, Drawn, IsForeign
  <2>3. QED
    BY <1>1, <1>2, <1>3, <2>1, <2>2 DEF StreamInv, AtInterface
<1>4. CASE ~CannotPrepare(source.params)
  <2>1. IsSourceAt(source', 0) /\ source'.params = source.params
    BY <1>1, <1>2, <1>4, PreparedAt DEF AtInterface
  <2>2. Len(out') = 0 /\ (out = Drawn(Signal(source.params, NoSettings, Len(out))))'
    BY <1>1, <1>4, StartsAfresh
  <2>3. QED
    BY <1>1, <1>2, <2>1, <2>2 DEF StreamInv, AtInterface
<1>5. QED
  BY <1>3, <1>4

LEMMA ResetKeepsStream ==
    ASSUME StreamInv, CallReset
    PROVE  StreamInv'
<1>1. /\ use' = use /\ pc' = pc /\ job' = job /\ IsInterface /\ source' = Restart(source) /\ out' = <<>>
  BY DEF CallReset
<1>2. use \in Uses /\ AtInterface /\ IsInterface' /\ IsParams(source.params)
  BY <1>1 DEF StreamInv, IsInterface
<1>3. IsSourceAt(source', 0) /\ source'.params = source.params
  BY <1>1, <1>2, RestartedAt DEF AtInterface
<1>4. Len(out') = 0 /\ (out = Drawn(Signal(source.params, NoSettings, Len(out))))'
  BY <1>1, StartsAfresh
<1>5. QED
  BY <1>1, <1>2, <1>3, <1>4 DEF StreamInv, AtInterface

\* A stretch of the waveform behind what there is of it.
LEMMA StretchesJoin ==
    ASSUME NEW p, NEW n \in Nat, NEW k \in Nat
    PROVE  Signal(p, NoSettings, n) \o Stretch(p, n, k) = Signal(p, NoSettings, n + k)
<1> DEFINE length == n + k
<1>1. length \in Nat /\ n + k <= length
  OBVIOUS
<1> HIDE DEF length
<1>2. Signal(p, NoSettings, n) \o Cut(Behinds(p, NoSettings, length), n, k) = Signal(p, NoSettings, n + k)
  BY <1>1, NoneIsSettings, SignalGrows
<1>3. Stretch(p, n, k) = Cut(Behind(p, NoSettings, length, 0), n, k)
  BY <1>1, StretchIsCut
<1>4. Behinds(p, NoSettings, length) = Behind(p, NoSettings, length, 0)
  BY NoStages DEF Behinds
<1>5. QED
  BY <1>2, <1>3, <1>4

LEMMA RenderKeepsStream ==
    ASSUME StreamInv, NEW n \in BlockSizes, CallRender(n)
    PROVE  StreamInv'
<1> DEFINE m == Len(out)
           k == BlockLength(source, n)
           r == Render(source, n)
           p == source.params
<1>1. /\ use' = use /\ pc' = pc /\ job' = job /\ IsInterface /\ source' = r.source /\ generator' = generator
      /\ out' = out \o Drawn(r.out) /\ ~CannotRender(source, n)
  BY DEF CallRender
<1>2. use \in Uses /\ AtInterface /\ IsInterface' /\ m \in Nat
  BY <1>1 DEF StreamInv, IsInterface
<1>3. n \in Nat /\ IsSourceAt(source, m) /\ out = Drawn(Signal(p, NoSettings, m))
  BY <1>2, SignalAssumption DEF AtInterface
<1> HIDE DEF m
<1>4. k \in Nat /\ r.out = Stretch(p, m, k) /\ IsSourceAt(r.source, m + k) /\ r.source.params = p
  <2>1. k \in 0 .. n
    BY <1>1, <1>2, <1>3, BlockInBounds
  <2>2. r.out = Stretch(p, m, k) /\ IsSourceAt(r.source, m + k) /\ r.source.params = p
    BY <1>1, <1>2, <1>3, RenderedAt
  <2> HIDE DEF k, r, p
  <2>3. QED
    BY <2>1, <2>2
<1> DEFINE more == m + k
<1> HIDE DEF k, r, p
<1>5. more \in Nat
  BY <1>2, <1>4
<1>6. out' = Drawn(Signal(p, NoSettings, more)) /\ Len(out') = more
  <2> DEFINE s == Signal(p, NoSettings, m)
             t == Stretch(p, m, k)
             all == Signal(p, NoSettings, more)
  <2>1. s \o t = all
    BY <1>2, <1>4, StretchesJoin DEF more
  <2>2. HasLength(s, m) /\ HasLength(t, k) /\ HasLength(all, more)
    <3>1. HasLength(s, m) /\ HasLength(all, more)
      BY <1>2, <1>5, SignalHasLength
    <3>2. HasLength(t, k)
      BY DEF HasLength, Stretch
    <3>3. QED
      BY <3>1, <3>2
  <2> HIDE DEF s, t, all
  <2>3. Drawn(s) \o Drawn(t) = Drawn(all)
    BY <1>2, <1>4, <2>1, <2>2, DrawnJoins
  <2>4. out' = Drawn(s) \o Drawn(t)
    BY <1>1, <1>3, <1>4 DEF s, t
  <2>5. Len(Drawn(all)) = more
    BY <1>5, <2>2, DrawnHasLength
  <2>6. QED
    BY <2>3, <2>4, <2>5 DEF all
<1> HIDE DEF more
<1>7. (out = Drawn(Signal(source.params, NoSettings, Len(out))))'
  <2>1. source'.params = p /\ source.params = p /\ generator' = generator
    BY <1>1, <1>4 DEF p
  <2>2. QED
    BY <1>6, <2>1 DEF Drawn, IsForeign
<1>8. IsSourceAt(source', more) /\ source'.params = p
  BY <1>1, <1>4 DEF more
<1>9. IsParams(p)
  BY <1>8 DEF IsSourceAt
<1>10. QED
  BY <1>1, <1>2, <1>5, <1>6, <1>7, <1>8, <1>9 DEF StreamInv, AtInterface

\* A buffer is delivered, or found missing.
LEMMA DeliverKeepsStream ==
    ASSUME StreamInv, ~IsInterface, pc \in {"idle", "rendering"}, NEW buffer, Deliver(buffer),
           use' = use, source' = source, out' = <<>>
    PROVE  StreamInv'
<1>1. use \in Uses /\ IsParams(source.params) /\ ~IsInterface' /\ job \in DOMAIN use.jobs
  BY DEF StreamInv, AtWork, IsInterface
<1>2. Len(out') = 0
  OBVIOUS
<1>3. CASE Missing(TheJob, buffer)
  <2>1. pc' = "failed" /\ job' = job
    BY <1>3 DEF Deliver
  <2>2. IsCut'
    BY DEF IsCut
  <2>3. QED
    BY <1>1, <1>2, <2>1, <2>2 DEF StreamInv, AtWork
<1>4. CASE ~Missing(TheJob, buffer)
  <2>1. job' = job + 1 /\ pc' = IF job = Len(use.jobs) THEN "done" ELSE "idle"
    BY <1>4 DEF Deliver
  <2>2. Len(use.jobs) \in Nat /\ DOMAIN use.jobs = 1 .. Len(use.jobs)
    BY <1>1, UsesAre
  <2>3. CASE job = Len(use.jobs)
    BY <1>1, <1>2, <2>1, <2>3 DEF StreamInv, AtWork
  <2>4. CASE job # Len(use.jobs)
    <3>1. job + 1 \in DOMAIN use.jobs
      BY <1>1, <2>2, <2>4
    <3>2. QED
      BY <1>1, <1>2, <2>1, <2>4, <3>1 DEF StreamInv, AtWork
  <2>5. QED
    BY <2>3, <2>4
<1>5. QED
  BY <1>3, <1>4

\* What there is to know of the job at hand.
LEMMA TheJobIs ==
    ASSUME StreamInv, ~IsInterface, pc # "done"
    PROVE  /\ job \in DOMAIN use.jobs /\ IsJob(TheJob) /\ Target \in Nat /\ IsSettings(TheJob.settings)
           /\ IsParams(TheJob.params) /\ IsParams(JobParams(TheJob))
           /\ ~Refused(TheJob) => TheJob.block \in Nat \ {0} /\ ~CannotPrepare(JobParams(TheJob)) /\ JobParams(TheJob).valid
<1>1. use \in Uses /\ job \in DOMAIN use.jobs
  BY DEF StreamInv, AtWork
<1>2. IsJob(TheJob)
  BY <1>1, UsesAre DEF TheJob
<1> DEFINE j == TheJob
<1> HIDE DEF j
<1>3. IsJob(j)
  BY <1>2 DEF j
<1>4. /\ SampleCount(j.duration) \in Nat /\ IsSettings(j.settings) /\ IsParams(j.params) /\ IsParams(JobParams(j))
      /\ j.block \in Nat /\ CannotPrepare(JobParams(j)) = CannotPrepare(j.params)
      /\ \A field \in DOMAIN Params \ {"total"} : JobParams(j)[field] = j.params[field]
  BY <1>3, JobIs
<1>5. JobParams(j).valid = j.params.valid
  <2>1. "valid" \in DOMAIN Params \ {"total"}
    BY DEF Params
  <2>2. JobParams(j)["valid"] = j.params["valid"]
    BY <1>4, <2>1
  <2>3. QED
    BY <2>2
<1>6. ~Refused(j) => j.block # 0 /\ ~CannotPrepare(j.params) /\ j.params.valid
  BY DEF Refused
<1>7. QED
  BY <1>1, <1>3, <1>4, <1>5, <1>6 DEF j, Target

LEMMA StartKeepsStream ==
    ASSUME StreamInv, StartJob
    PROVE  StreamInv'
<1>1. ~IsInterface /\ pc = "idle" /\ use' = use /\ out = <<>>
  BY DEF StartJob, StreamInv, AtWork
<1>2. ~IsInterface' /\ use \in Uses /\ IsParams(source.params) /\ job \in DOMAIN use.jobs
  BY <1>1 DEF StreamInv, AtWork, IsInterface
<1>3. CASE Misplaced(TheJob) \/ (~IsPreRender /\ Refused(TheJob))
  <2>1. pc' = "failed" /\ job' = job /\ source' = source /\ generator' = generator /\ out' = out
    BY <1>3 DEF StartJob
  <2>2. IsCut' /\ Len(out') = 0
    BY <1>1, <2>1 DEF IsCut
  <2>3. QED
    BY <1>1, <1>2, <2>1, <2>2 DEF StreamInv, AtWork
<1>4. CASE ~(Misplaced(TheJob) \/ (~IsPreRender /\ Refused(TheJob))) /\ Refused(TheJob)
  <2>1. Deliver(<<>>) /\ source' = source /\ out' = <<>>
    BY <1>1, <1>4 DEF StartJob
  <2>2. QED
    BY <1>1, <2>1, DeliverKeepsStream
<1>5. CASE ~Misplaced(TheJob) /\ ~Refused(TheJob)
  <2> DEFINE p == JobParams(TheJob)
             settings == TheJob.settings
  <2>1. /\ pc' = "rendering" /\ source' = Prepare(Configured(p)) /\ chain' = BuildChain(settings)
        /\ out' = <<>> /\ generator' = "set" /\ job' = job
    BY <1>5 DEF StartJob
  <2>2. TheJob' = TheJob /\ Target' = Target /\ Misplaced(TheJob)' = Misplaced(TheJob) /\ Refused(TheJob)' = Refused(TheJob)
    BY <1>1, <2>1 DEF TheJob, Target, Misplaced, Refused, IsPreRender, Offset, Total
  <2>3. IsParams(p) /\ p.valid /\ ~CannotPrepare(p) /\ IsSettings(settings) /\ Target \in Nat
    BY <1>1, <1>5, TheJobIs
  <2> HIDE DEF p, settings
  <2>4. Configured(p).params = p /\ IsSourceAt(Configured(p), 0)
    BY <2>3, ConfiguredAt DEF Configured
  <2> DEFINE src == Configured(p)
  <2> HIDE DEF src
  <2>5. source' = At(p, TRUE, FALSE, 0) /\ IsSourceAt(source', 0) /\ source'.params = p
    BY <2>1, <2>3, <2>4, PreparedAt DEF src
  <2>6. source'.done = FALSE /\ InBounds(p, 0)
    BY <2>5 DEF At, IsSourceAt
  <2>7. chain' = ChainAt(p, settings, Target, 0)
    BY <2>1, <2>3, ChainBuilt
  <2>8. Len(out') = 0 /\ out' = Signal(p, settings, 0)
    BY <2>1, SignalStarts
  <2>9. IsRendering'
    <3>1. JobParams(TheJob)' = p /\ (TheJob.settings)' = settings
      BY <2>2 DEF p, settings
    <3>2. ~Refused(TheJob)' /\ ~Misplaced(TheJob)' /\ 0 <= Target
      BY <1>5, <2>2, <2>3
    <3>3. source' = At(p, TRUE, source'.done, 0)
      BY <2>5, <2>6
    <3>4. QED
      BY <2>2, <2>6, <2>7, <2>8, <3>1, <3>2, <3>3, Zenon DEF IsRendering
  <2>10. QED
    BY <1>1, <1>2, <2>1, <2>3, <2>5, <2>8, <2>9 DEF StreamInv, AtWork
<1>6. QED
  BY <1>3, <1>4, <1>5

\* What the next block is.
LEMMA NextBlockIs ==
    ASSUME StreamInv, ~IsInterface, pc = "rendering"
    PROVE  LET p == JobParams(TheJob)
               n == Len(out)
               max == Least(Target - n, TheJob.block)
               k == BlockLength(source, max)
           IN  /\ max \in Nat /\ k \in 0 .. max /\ n + k <= Target /\ k <= TheJob.block /\ InBounds(p, n + k)
               /\ NextBlock.out = Stretch(p, n, k)
               /\ NextBlock.source = At(p, TRUE, NextBlock.source.done, n + k)
               /\ NextBlock.source.done = (source.done \/ Ends(p, TRUE, n, k))
               /\ NextBlock.source.done \in BOOLEAN
<1> DEFINE p == JobParams(TheJob)
           n == Len(out)
           max == Least(Target - n, TheJob.block)
           k == BlockLength(source, max)
           block == TheJob.block
           target == Target
           r == Render(source, max)
<1>1. /\ IsRendering /\ n \in Nat /\ target \in Nat /\ block \in Nat \ {0}
      /\ IsParams(p) /\ p.valid /\ ~CannotPrepare(p)
  BY TheJobIs DEF StreamInv, AtWork, IsRendering
<1>2. /\ source = At(p, TRUE, source.done, n) /\ source.done \in BOOLEAN /\ InBounds(p, n) /\ n <= target
  BY <1>1 DEF IsRendering
<1>3. max \in Nat /\ n + max <= target /\ max <= block
  <2> HIDE DEF n, block, target
  <2>1. QED
    BY <1>1, <1>2 DEF Least, block, target
<1>4. source.params = p /\ source.ready = TRUE
  BY <1>2 DEF At
<1>5. IsSourceAt(source, n)
  BY <1>1, <1>2, <1>4 DEF IsSourceAt
<1>6. ~CannotRender(source, max)
  BY <1>1, <1>4 DEF CannotRender
<1> HIDE DEF max, p, n, block, target
<1>7. k \in 0 .. max /\ InBounds(p, n + k)
  BY <1>1, <1>3, <1>4, <1>5, <1>6, BlockInBounds
<1>8. /\ r.out = Stretch(p, n, k) /\ IsSourceAt(r.source, n + k)
      /\ r.source = At(p, TRUE, r.source.done, n + k)
      /\ r.source.done = (source.done \/ Ends(p, TRUE, n, k))
  <2> DEFINE q == source.params
  <2>1. /\ r.out = Stretch(q, n, k) /\ IsSourceAt(r.source, n + k)
        /\ source.ready => r.source = At(q, TRUE, r.source.done, n + k)
        /\ r.source.done = (source.done \/ Ends(q, source.ready, n, k))
    BY <1>1, <1>3, <1>5, <1>6, RenderedAt
  <2>2. q = p
    BY <1>4
  <2> HIDE DEF q, r, k
  <2>3. QED
    BY <1>4, <2>1, <2>2, Zenon
<1>9. r.source.done \in BOOLEAN
  BY <1>8 DEF IsSourceAt
<1>10. NextBlock = r
  BY DEF NextBlock, r, max, n
<1> HIDE DEF k, r
<1>11. n + k <= target /\ k <= block
  BY <1>1, <1>3, <1>7
<1>12. QED
  BY <1>3, <1>7, <1>8, <1>9, <1>10, <1>11 DEF p, n, max, k, block, target

LEMMA BlockKeepsStream ==
    ASSUME StreamInv, RenderBlock
    PROVE  StreamInv' /\ Len(out') = Len(out) + BlockLength(source, Least(Target - Len(out), TheJob.block))
<1> DEFINE p == JobParams(TheJob)
           settings == TheJob.settings
           n == Len(out)
           k == BlockLength(source, Least(Target - n, TheJob.block))
           block == NextBlock
           impaired == ApplyChain(chain, block.out)
           target == Target
           more == n + k
<1>1. /\ pc = "rendering" /\ source' = block.source /\ chain' = impaired.chain /\ out' = out \o impaired.block
      /\ use' = use /\ pc' = pc /\ job' = job /\ generator' = generator
  BY DEF RenderBlock
<1>2. ~IsInterface /\ IsRendering /\ generator = "set" /\ use \in Uses /\ job \in DOMAIN use.jobs /\ n \in Nat
  BY <1>1 DEF StreamInv, AtWork, AtInterface, IsInterface
<1>3. /\ target \in Nat /\ IsSettings(settings) /\ IsParams(p)
  BY <1>1, <1>2, TheJobIs
<1>4. /\ k \in Nat /\ more <= target /\ InBounds(p, more) /\ block.out = Stretch(p, n, k)
      /\ block.source = At(p, TRUE, block.source.done, more) /\ block.source.done \in BOOLEAN
  <2> DEFINE max == Least(Target - n, TheJob.block)
  <2>1. /\ max \in Nat /\ k \in 0 .. max /\ more <= target /\ InBounds(p, more) /\ block.out = Stretch(p, n, k)
        /\ block.source = At(p, TRUE, block.source.done, more) /\ block.source.done \in BOOLEAN
    BY <1>1, <1>2, NextBlockIs
  <2> HIDE DEF k, block, max, target, p, n
  <2>2. k \in Nat
    BY <2>1
  <2> HIDE DEF more
  <2>3. QED
    BY <2>1, <2>2, Zenon
<1>5. chain = ChainAt(p, settings, target, n) /\ out = Signal(p, settings, n) /\ ~Refused(TheJob) /\ ~Misplaced(TheJob)
  BY <1>2 DEF IsRendering
<1>6. /\ TheJob' = TheJob /\ Target' = Target /\ Misplaced(TheJob)' = Misplaced(TheJob) /\ Refused(TheJob)' = Refused(TheJob)
      /\ IsInterface' = IsInterface
  BY <1>1 DEF TheJob, Target, Misplaced, Refused, IsPreRender, Offset, Total, IsInterface
<1>7. JobParams(TheJob)' = p /\ (TheJob.settings)' = settings
  BY <1>6
<1> HIDE DEF p, settings, n, k, block, target
<1>8. more \in Nat
  BY <1>2, <1>4
<1>9. impaired = [chain |-> ChainAt(p, settings, target, more), block |-> Cut(Behinds(p, settings, target), n, k)]
  <2>1. block.out = Cut(Behind(p, settings, target, 0), n, k)
    BY <1>2, <1>3, <1>4, StretchIsCut
  <2>2. QED
    BY <1>2, <1>3, <1>4, <1>5, <2>1, ChainPasses DEF Behinds
<1>10. out' = Signal(p, settings, more)
  <2>1. impaired.block = Cut(Behinds(p, settings, target), n, k)
    BY <1>9
  <2>2. Signal(p, settings, n) \o Cut(Behinds(p, settings, target), n, k) = Signal(p, settings, more)
    BY <1>2, <1>3, <1>4, SignalGrows
  <2> HIDE DEF impaired, more
  <2>3. QED
    BY <1>1, <1>5, <2>1, <2>2
<1>11. chain' = ChainAt(p, settings, target, more)
  BY <1>1, <1>9
<1> HIDE DEF more, impaired
<1>12. Len(out') = more
  BY <1>8, <1>10, SignalHasLength
<1>13. source' = At(p, TRUE, source'.done, more) /\ source'.done \in BOOLEAN
  BY <1>1, <1>4
<1>14. source'.params = p
  BY <1>13 DEF At
<1>15. Target' = target
  BY <1>6 DEF target
<1>16. IsRendering'
  BY <1>4, <1>5, <1>6, <1>7, <1>10, <1>11, <1>12, <1>13, <1>15, Zenon DEF IsRendering
<1>17. StreamInv'
  BY <1>1, <1>2, <1>3, <1>6, <1>8, <1>12, <1>14, <1>16 DEF StreamInv, AtWork
<1>18. QED
  BY <1>12, <1>17 DEF more, n, k

\* A job under way leaves what it has.
LEMMA RenderingIsCut ==
    ASSUME IsRendering
    PROVE  IsCut
<1>1. source = At(JobParams(TheJob), TRUE, source.done, Len(out))
  BY DEF IsRendering
<1>2. source.params = JobParams(TheJob)
  BY <1>1 DEF At
<1>3. QED
  BY <1>2 DEF IsRendering, IsCut

LEMMA EndKeepsStream ==
    ASSUME StreamInv, EndJob
    PROVE  StreamInv'
<1>1. pc = "rendering" /\ use' = use /\ source' = source /\ generator' = generator
  BY DEF EndJob
<1>2. ~IsInterface /\ IsRendering /\ generator = "set"
  BY <1>1 DEF StreamInv, AtWork, AtInterface
<1>3. CASE Len(out) = Target \/ IsPreRender
  <2> DEFINE buffer == IF Len(out) = Target THEN out ELSE <<>>
  <2>1. Deliver(buffer) /\ out' = <<>>
    BY <1>3 DEF EndJob
  <2> HIDE DEF buffer
  <2>2. QED
    BY <1>1, <1>2, <2>1, DeliverKeepsStream
<1>4. CASE ~(Len(out) = Target \/ IsPreRender)
  <2>1. pc' = "failed" /\ job' = job /\ out' = out
    BY <1>4 DEF EndJob
  <2>2. IsCut' = IsCut /\ IsInterface' = IsInterface
    BY <1>1, <2>1 DEF IsCut, TheJob, IsInterface
  <2>3. QED
    BY <1>1, <1>2, <2>1, <2>2, RenderingIsCut DEF StreamInv, AtWork
<1>5. QED
  BY <1>3, <1>4

LEMMA StopKeepsStream ==
    ASSUME StreamInv, Stop
    PROVE  StreamInv'
<1>1. pc = "rendering" /\ pc' = "stopped" /\ use' = use /\ source' = source /\ job' = job /\ out' = out
      /\ generator' = generator
  BY DEF Stop
<1>2. ~IsInterface /\ IsRendering /\ generator = "set"
  BY <1>1 DEF StreamInv, AtWork, AtInterface
<1>3. IsCut' = IsCut /\ IsInterface' = IsInterface
  BY <1>1 DEF IsCut, TheJob, IsInterface
<1>4. QED
  BY <1>1, <1>2, <1>3, RenderingIsCut DEF StreamInv, AtWork

LEMMA StreamStays == StreamInv /\ [Next]_vars => StreamInv'
<1> SUFFICES ASSUME StreamInv, [Next]_vars PROVE StreamInv'
  OBVIOUS
<1>1. CASE CallPrepare
  BY <1>1, PrepareKeepsStream
<1>2. CASE CallReset
  BY <1>2, ResetKeepsStream
<1>3. ASSUME NEW params \in Reconfigurations, CallConfigure(params) PROVE StreamInv'
  BY <1>3, ConfigureKeepsStream
<1>4. ASSUME NEW n \in BlockSizes, CallRender(n) PROVE StreamInv'
  BY <1>4, RenderKeepsStream
<1>5. CASE StartJob
  BY <1>5, StartKeepsStream
<1>6. CASE RenderBlock
  BY <1>6, BlockKeepsStream
<1>7. CASE EndJob
  BY <1>7, EndKeepsStream
<1>8. CASE Stop
  BY <1>8, StopKeepsStream
<1>9. CASE UNCHANGED vars
  BY <1>9 DEF vars, StreamInv, AtInterface, AtWork, IsRendering, IsCut, IsInterface, TheJob, Target,
              Refused, Misplaced, IsPreRender, Offset, Total, Drawn, IsForeign
<1>10. QED
  BY <1>1, <1>2, <1>3, <1>4, <1>5, <1>6, <1>7, <1>8, <1>9 DEF Next

LEMMA StreamAlways == Spec => []StreamInv
BY StreamStarts, StreamStays, PTL DEF Spec

LEMMA StreamMatches == StreamInv => StreamIsReference
<1> SUFFICES ASSUME StreamInv PROVE StreamIsReference
  OBVIOUS
<1> DEFINE n == Len(out)
<1>1. n \in Nat /\ IsParams(source.params)
  BY DEF StreamInv
<1>2. out = <<>> => /\ \A settings : out = Drawn(Signal(source.params, settings, n))
                    /\ source.params.total # None => n <= source.params.total
  <2>1. ASSUME out = <<>> PROVE n = 0
    BY <2>1
  <2>2. source.params.total # None => 0 <= source.params.total
    BY <1>1 DEF IsParams
  <2> HIDE DEF n
  <2>3. QED
    BY <2>1, <2>2, DrawnStarts
<1>3. CASE IsInterface
  <2>1. out = Drawn(Signal(source.params, NoSettings, n)) /\ InBounds(source.params, n)
    BY <1>3 DEF StreamInv, AtInterface, IsSourceAt
  <2>2. QED
    BY <1>3, <2>1 DEF StreamIsReference, InBounds
<1>4. CASE ~IsInterface /\ out = <<>>
  BY <1>2, <1>4 DEF StreamIsReference
<1>5. CASE ~IsInterface /\ out # <<>>
  <2>1. IsCut /\ generator = "set"
    BY <1>5, RenderingIsCut DEF StreamInv, AtWork
  <2>2. out = Signal(source.params, TheJob.settings, n) /\ InBounds(source.params, n)
    BY <1>5, <2>1 DEF IsCut
  <2>3. out = Drawn(Signal(source.params, TheJob.settings, n))
    BY <2>1, <2>2 DEF Drawn, IsForeign
  <2>4. QED
    BY <1>5, <2>2, <2>3 DEF StreamIsReference, InBounds
<1>6. QED
  BY <1>3, <1>4, <1>5

\* The samples of a source, and of a job behind its impairments, are those of
\* its waveform, in whatever blocks they were rendered and whatever was
\* configured, refused or reset before (SourceBase, the render_block, prepare
\* and reset of every source, ImpairmentChain::apply) - or, of a noise or OFDM
\* source that nothing has set yet, those of the generator it was built with.
THEOREM StreamsMatch == Spec => []StreamIsReference
BY StreamAlways, StreamMatches, PTL

-----------------------------------------------------------------------------
(* The verdict of a render. *)

\* A single pulse is over when it reaches its interval, and goes on to the end of
\* that block.
PulseOn(params, block) ==
    /\ source.done = (params.single /\ Len(out) >= params.pri)
    /\ params.single => Len(out) < params.pri + block

VerdictInv ==
    /\ use.kind = "render" /\ pc \in {"idle", "rendering"} => delivered = <<>>
    /\ use.kind = "render" /\ pc = "rendering" /\ use.jobs[1].params.type = "pulse" =>
            PulseOn(use.jobs[1].params, use.jobs[1].block)
    /\ VerdictOfRender

LEMMA OneJob ==
    ASSUME StreamInv, use.kind = "render"
    PROVE  /\ ~IsInterface /\ ~IsPreRender /\ Len(use.jobs) = 1
           /\ pc # "done" => job = 1 /\ TheJob = use.jobs[1] /\ ~Misplaced(TheJob)
<1>1. ~IsInterface /\ ~IsPreRender /\ ~Misplaced(TheJob)
  BY DEF IsInterface, IsPreRender, Misplaced
<1>2. Len(use.jobs) = 1 /\ DOMAIN use.jobs = 1 .. 1
  BY UsesAre DEF StreamInv
<1>3. pc # "done" => job = 1
  BY <1>1, <1>2 DEF StreamInv, AtWork
<1>4. QED
  BY <1>1, <1>2, <1>3 DEF TheJob

LEMMA NothingCounted == SampleCount(0) = 0
<1> DEFINE q == SampleCount(0)
<1>1. /\ q \in Nat /\ 2 * (TicksPerSample * q) <= 2 * 0 + TicksPerSample
      /\ TicksPerSample \in Nat \ {0}
  BY SampleCountIs, SignalAssumption
<1> HIDE DEF q
<1>2. ASSUME q >= 1 PROVE FALSE
  <2>1. TicksPerSample * q >= TicksPerSample /\ TicksPerSample * q \in Int
    BY <1>1, <1>2, Multiples
  <2>2. QED
    BY <1>1, <2>1
<1>3. q = 0
  BY <1>1, <1>2
<1>4. QED
  BY <1>3 DEF q

\* A file that is not looped is read up to the sample.
LEMMA ReadIs ==
    ASSUME NEW p, p.type = "file", NEW n \in Nat, Len(p.data) \in Nat, n <= Len(p.data)
    PROVE  ReadAt(p, n) = n
<1> DEFINE len == Len(p.data)
<1>1. CASE n = 0
  BY <1>1 DEF ReadAt
<1>2. CASE n # 0
  <2> DEFINE m == n - 1
  <2>0. n > 0
    BY <1>2
  <2>1. ReadAt(p, n) = 1 + (m % len)
    BY <2>0 DEF ReadAt
  <2>2. m \in 0 .. len - 1 /\ len \in Nat \ {0} /\ len * 0 + m = m /\ 1 + m = n
    <3> HIDE DEF len
    <3>1. QED
      BY <1>2 DEF len
  <2> HIDE DEF m, len
  <2>3. m % len = m
    <3>1. m \in 0 .. len - 1 /\ len \in Nat \ {0}
      BY <2>2
    <3>2. \A q \in Int : (len * q + m) % len = m
      BY <3>1, Quotient
    <3>3. (len * 0 + m) % len = m
      BY <3>2
    <3>4. QED
      BY <2>2, <3>3
  <2>4. QED
    BY <2>1, <2>2, <2>3
<1>3. QED
  BY <1>1, <1>2

\* The fields of the parameters that a job hands on.
LEMMA JobFields ==
    ASSUME NEW j, IsJob(j)
    PROVE  LET p == JobParams(j)
           IN  /\ p.type = j.params.type /\ p.valid = j.params.valid /\ p.single = j.params.single
               /\ p.pri = j.params.pri /\ p.data = j.params.data /\ p.loop = j.params.loop
               /\ SampleCount(j.duration) > 0 => p.total = SampleCount(j.duration)
<1> DEFINE p == JobParams(j)
           count == SampleCount(j.duration)
<1>1. \A field \in DOMAIN Params \ {"total"} : p[field] = j.params[field]
  BY JobIs
<1>2. {"type", "valid", "single", "pri", "data", "loop"} \subseteq DOMAIN Params \ {"total"}
  BY DEF Params
<1>3. p.total = IF j.duration > 0 THEN count ELSE j.params.total
  BY JobIs
<1>4. j.duration \in Nat
  BY JobIs
<1>5. count > 0 => j.duration > 0
  <2>1. j.duration = 0 => count = 0
    BY NothingCounted
  <2> HIDE DEF count
  <2>2. QED
    BY <1>4, <2>1
<1> HIDE DEF p, count
<1>6. QED
  BY <1>1, <1>2, <1>3, <1>5 DEF p, count

\* Where no sample comes any more there are no more.
LEMMA ShortOfSamples ==
    ASSUME StreamInv, ~IsInterface, pc = "rendering", Len(out) < Target,
           TheJob.params.type = "pulse" => PulseOn(TheJob.params, TheJob.block),
           BlockLength(source, Least(Target - Len(out), TheJob.block)) = 0
    PROVE  LET available == Available(TheJob.params, Target)
           IN  available < Target /\ Len(out) - available \in 0 .. TheJob.block - 1
<1> DEFINE j == TheJob
           n == Len(out)
           target == Target
           block == j.block
           max == Least(target - n, block)
           p == JobParams(j)
           len == Len(p.data)
           available == Available(j.params, target)
<1>1. /\ IsRendering /\ n \in Nat /\ target \in Nat /\ block \in Nat \ {0} /\ IsJob(j)
      /\ IsParams(p) /\ p.valid /\ ~CannotPrepare(p)
  BY TheJobIs DEF StreamInv, AtWork, IsRendering
<1>2. source = At(p, TRUE, source.done, n) /\ InBounds(p, n)
  BY <1>1 DEF IsRendering
<1>3. /\ source.params = p /\ source.ready = TRUE /\ source.produced = n /\ source.read = ReadAt(p, n)
  BY <1>2 DEF At
<1>4. /\ p.type = j.params.type /\ p.single = j.params.single /\ p.pri = j.params.pri
      /\ p.data = j.params.data /\ p.loop = j.params.loop /\ p.total = target
  <2> HIDE DEF j
  <2>1. n >= 0 /\ n < target
    BY <1>1 DEF j, n, target
  <2>2. target > 0
    BY <1>1, <2>1
  <2>3. target = SampleCount(j.duration)
    BY DEF Target, j
  <2> HIDE DEF p, n, target
  <2>4. QED
    BY <1>1, <2>2, <2>3, JobFields DEF p
<1>5. max \in Nat \ {0} /\ max <= target - n /\ n < target
  <2>1. n < target
    OBVIOUS
  <2> HIDE DEF n, target, block
  <2>2. QED
    BY <1>1, <2>1 DEF Least
<1>6. Limit(source, max) = max
  <2>1. Limit(source, max) = IF p.total = None THEN max ELSE Least(max, p.total - n)
    BY <1>3 DEF Limit
  <2> HIDE DEF max, p, n, target
  <2>2. target # None
    BY <1>1 DEF None
  <2>3. Limit(source, max) = Least(max, target - n)
    BY <1>4, <2>1, <2>2
  <2>4. QED
    BY <1>1, <1>5, <2>3 DEF Least
<1>7. BlockLength(source, max) = 0
  OBVIOUS
<1>8. p.type = "pulse" => PulseOn(p, block)
  BY <1>4 DEF PulseOn
<1> HIDE DEF max, p, n, target, block, j, available
<1>9. ASSUME p.type = "file" PROVE available < target /\ n - available \in 0 .. block - 1
  <2>1. len \in Nat /\ (len = 0 <=> p.data = <<>>) /\ p.loop \in BOOLEAN
    BY <1>1, <1>9 DEF IsParams
  <2>2. available = IF p.loop /\ p.data # <<>> THEN target ELSE Least(target, len)
    BY <1>4, <1>9 DEF available, Available
  <2>3. BlockLength(source, max) = IF (len - source.read) + source.read = 0 THEN 0
                                   ELSE IF p.loop THEN max ELSE Least(len - source.read, max)
    BY <1>3, <1>6, <1>9 DEF BlockLength
  <2>4. (~p.loop => n <= len) /\ (len = 0 => n = 0)
    BY <1>2, <1>9, <2>1 DEF InBounds
  <2> HIDE DEF len
  <2>5. CASE len = 0
    <3>1. n = 0 /\ available = Least(target, 0)
      BY <2>1, <2>2, <2>4, <2>5
    <3>2. available = 0
      BY <1>1, <3>1 DEF Least
    <3>3. QED
      BY <1>1, <1>5, <3>1, <3>2
  <2>6. CASE len # 0 /\ ~p.loop
    <3>1. source.read = n
      BY <1>1, <1>3, <1>9, <2>1, <2>4, <2>6, ReadIs DEF len
    <3>2. (len - n) + n = len /\ len - n \in Nat
      BY <1>1, <2>1, <2>4, <2>6
    <3>3. Least(len - n, max) = 0
      BY <1>7, <2>3, <2>6, <3>1, <3>2
    <3>4. len = n
      BY <1>1, <1>5, <2>1, <3>2, <3>3 DEF Least
    <3>5. available = n
      BY <1>5, <2>2, <2>6, <3>4, <1>1 DEF Least
    <3>6. QED
      BY <1>1, <1>5, <3>5
  <2>7. CASE len # 0 /\ p.loop
    <3>1. source.read \in Nat
      <4>1. source.read = IF n > 0 THEN 1 + ((n - 1) % len) ELSE 0
        BY <1>3, <1>9 DEF ReadAt, len
      <4>2. n > 0 => (n - 1) % len \in Nat
        BY <1>1, <2>1, <2>7
      <4>3. QED
        BY <4>1, <4>2
    <3>2. (len - source.read) + source.read = len
      BY <2>1, <3>1
    <3>3. BlockLength(source, max) = max
      BY <2>3, <2>7, <3>2
    <3>4. QED
      BY <1>5, <1>7, <3>3
  <2>8. QED
    BY <2>1, <2>5, <2>6, <2>7
<1>10. ASSUME p.type = "pulse" PROVE available < target /\ n - available \in 0 .. block - 1
  <2>1. source.done
    BY <1>3, <1>5, <1>6, <1>7, <1>10 DEF BlockLength
  <2>2. p.single /\ n >= p.pri /\ n < p.pri + block
    BY <1>8, <1>10, <2>1 DEF PulseOn, n
  <2>3. p.pri \in Nat
    BY <1>1 DEF IsParams
  <2>4. available = Least(target, p.pri)
    BY <1>4, <1>10, <2>2 DEF available, Available
  <2>5. available = p.pri
    BY <1>1, <1>5, <2>2, <2>3, <2>4 DEF Least
  <2>6. QED
    BY <1>1, <1>5, <2>2, <2>3, <2>5
<1>11. ASSUME p.type \notin {"file", "pulse"} PROVE FALSE
  <2>1. p.total # None
    BY <1>1, <1>4 DEF None
  <2>2. BlockLength(source, max) = max
    BY <1>3, <1>6, <1>11, <2>1 DEF BlockLength
  <2>3. QED
    BY <1>5, <1>7, <2>2
<1>12. available < target /\ n - available \in 0 .. block - 1
  BY <1>9, <1>10, <1>11
<1>13. QED
  BY <1>12 DEF available, n, target, block, j

\* Where all samples came, there were as many, but for a block of a single pulse.
LEMMA EnoughSamples ==
    ASSUME StreamInv, ~IsInterface, pc = "rendering", Len(out) = Target,
           TheJob.params.type = "pulse" => PulseOn(TheJob.params, TheJob.block)
    PROVE  LET available == Available(TheJob.params, Target)
           IN  Target > available => Target - available < TheJob.block
<1> DEFINE j == TheJob
           target == Target
           block == j.block
           p == j.params
           len == Len(p.data)
           available == Available(p, target)
<1>1. /\ IsRendering /\ target \in Nat /\ block \in Nat \ {0} /\ IsJob(j) /\ IsParams(p) /\ Len(out) = target
  BY TheJobIs DEF StreamInv, AtWork, IsRendering
<1>2. p.valid
  BY <1>1 DEF IsRendering, Refused
<1>3. InBounds(JobParams(j), target)
  BY <1>1 DEF IsRendering
<1>4. JobParams(j).type = p.type /\ JobParams(j).data = p.data /\ JobParams(j).loop = p.loop
  BY <1>1, JobFields
<1>5. p.type = "pulse" => PulseOn(p, block)
  OBVIOUS
<1> HIDE DEF j, target, block, p, available
<1>6. ASSUME p.type = "file" PROVE available = target
  <2>1. len \in Nat /\ (len = 0 <=> p.data = <<>>) /\ p.loop \in BOOLEAN
    BY <1>1, <1>2, <1>6 DEF IsParams
  <2>2. available = IF p.loop /\ p.data # <<>> THEN target ELSE Least(target, len)
    BY <1>6 DEF available, Available
  <2>3. (~p.loop => target <= len) /\ (p.data = <<>> => target = 0)
    BY <1>3, <1>4, <1>6 DEF InBounds
  <2> HIDE DEF len
  <2>4. QED
    BY <1>1, <2>1, <2>2, <2>3 DEF Least
<1>7. ASSUME p.type = "pulse", p.single PROVE target > available => target - available < block
  <2>1. target < p.pri + block
    BY <1>1, <1>5, <1>7 DEF PulseOn
  <2>2. p.pri \in Nat
    BY <1>1, <1>2 DEF IsParams
  <2>3. available = Least(target, p.pri)
    BY <1>7 DEF available, Available
  <2>4. QED
    BY <1>1, <2>1, <2>2, <2>3 DEF Least
<1>8. ASSUME p.type # "file", ~(p.type = "pulse" /\ p.single) PROVE available = target
  BY <1>8 DEF available, Available
<1>9. target > available => target - available < block
  BY <1>1, <1>6, <1>7, <1>8
<1>10. QED
  BY <1>9 DEF available, p, block, target, j

LEMMA VerdictStarts == Init => VerdictInv
BY DEF Init, VerdictInv, VerdictOfRender

LEMMA StartKeepsVerdict ==
    ASSUME StreamInv, VerdictInv, StartJob
    PROVE  VerdictInv'
<1>1. ~IsInterface /\ pc = "idle" /\ use' = use /\ out = <<>>
  BY DEF StartJob, StreamInv, AtWork
<1>2. SUFFICES ASSUME use.kind = "render" PROVE VerdictInv'
  BY <1>1 DEF VerdictInv, VerdictOfRender
<1>3. ~IsPreRender /\ TheJob = use.jobs[1] /\ ~Misplaced(TheJob) /\ delivered = <<>>
  BY <1>1, <1>2, OneJob DEF VerdictInv
<1>4. Refused(use.jobs[1])' = Refused(use.jobs[1])
  BY <1>1 DEF Refused, IsPreRender
<1>5. CASE Refused(TheJob)
  <2>1. pc' = "failed"
    BY <1>3, <1>5 DEF StartJob
  <2>2. QED
    BY <1>3, <1>4, <1>5, <2>1 DEF VerdictInv, VerdictOfRender
<1>6. CASE ~Refused(TheJob)
  <2> DEFINE p == JobParams(TheJob)
             src == Configured(p)
  <2>1. pc' = "rendering" /\ source' = Prepare(src) /\ delivered' = delivered /\ out' = <<>>
    BY <1>3, <1>6 DEF StartJob
  <2>2. IsParams(p) /\ p.valid /\ ~CannotPrepare(p) /\ TheJob.block \in Nat \ {0} /\ IsJob(TheJob)
    BY <1>1, <1>6, TheJobIs
  <2>3. p.type = TheJob.params.type /\ p.single = TheJob.params.single /\ p.pri = TheJob.params.pri
    BY <2>2, JobFields
  <2> HIDE DEF p
  <2>4. IsSourceAt(src, 0) /\ src.params = p
    BY <2>2, ConfiguredAt DEF Configured
  <2> HIDE DEF src
  <2>5. source' = At(p, TRUE, FALSE, 0)
    BY <2>1, <2>2, <2>4, PreparedAt
  <2>6. source'.done = FALSE /\ Len(out') = 0
    BY <2>1, <2>5 DEF At
  <2>7. p.type = "pulse" => p.pri \in Nat \ {0}
    BY <2>2 DEF IsParams, CannotPrepare
  <2>8. ASSUME TheJob.params.type = "pulse" PROVE PulseOn(TheJob.params, TheJob.block)'
    <3> DEFINE pri == TheJob.params.pri
               block == TheJob.block
               single == TheJob.params.single
    <3>1. pri \in Nat \ {0} /\ block \in Nat \ {0}
      BY <2>2, <2>3, <2>7, <2>8
    <3>2. use'.jobs[1] = TheJob /\ TheJob' = TheJob
      BY <1>1, <1>2, <1>3, <2>1 DEF TheJob, StartJob
    <3> HIDE DEF pri, block, single
    <3>3. ~(Len(out') >= pri) /\ Len(out') < pri + block
      BY <2>6, <3>1
    <3>4. source'.done = (single /\ Len(out') >= pri) /\ (single => Len(out') < pri + block)
      BY <2>6, <3>3
    <3>5. QED
      BY <3>2, <3>4 DEF PulseOn, pri, block, single
  <2>9. TheJob' = TheJob /\ use'.jobs[1] = TheJob
    BY <1>1, <1>3, <1>6 DEF StartJob, TheJob
  <2>10. QED
    BY <1>1, <1>2, <1>3, <2>1, <2>8, <2>9 DEF VerdictInv, VerdictOfRender
<1>7. QED
  BY <1>5, <1>6

LEMMA BlockKeepsVerdict ==
    ASSUME StreamInv, VerdictInv, RenderBlock
    PROVE  VerdictInv'
<1>1. /\ pc = "rendering" /\ pc' = pc /\ use' = use /\ job' = job /\ delivered' = delivered
      /\ source' = NextBlock.source
  BY DEF RenderBlock
<1>2. SUFFICES ASSUME use.kind = "render" PROVE VerdictInv'
  BY <1>1 DEF VerdictInv, VerdictOfRender
<1>3. ~IsInterface /\ TheJob = use.jobs[1] /\ delivered = <<>> /\ TheJob' = TheJob
  BY <1>1, <1>2, OneJob DEF VerdictInv, TheJob
<1> DEFINE p == JobParams(TheJob)
           n == Len(out)
           block == TheJob.block
           max == Least(Target - n, block)
           k == BlockLength(source, max)
           pri == TheJob.params.pri
           single == TheJob.params.single
<1>4. ASSUME TheJob.params.type = "pulse" PROVE PulseOn(TheJob.params, TheJob.block)'
  <2>1. PulseOn(TheJob.params, TheJob.block)
    BY <1>1, <1>2, <1>3, <1>4 DEF VerdictInv
  <2>2. /\ IsJob(TheJob) /\ ~Refused(TheJob) /\ n \in Nat /\ block \in Nat \ {0} /\ IsParams(p) /\ p.valid
        /\ source.params = p
    <3>1. IsRendering
      BY <1>1, <1>3 DEF StreamInv, AtWork
    <3>2. source.params = p
      <4>1. source = At(p, TRUE, source.done, n)
        BY <3>1 DEF IsRendering
      <4> HIDE DEF p, n
      <4>2. QED
        BY <4>1 DEF At
    <3>3. QED
      BY <1>1, <1>3, <3>1, <3>2, TheJobIs DEF IsRendering, StreamInv
  <2>3. p.type = "pulse" /\ p.single = single /\ p.pri = pri
    BY <1>4, <2>2, JobFields
  <2>4. /\ k \in 0 .. max /\ max \in Nat /\ k <= block
        /\ source'.done = (source.done \/ Ends(p, TRUE, n, k))
    BY <1>1, <1>3, NextBlockIs
  <2>5. Len(out') = n + k
    BY BlockKeepsStream
  <2>6. p.total = None \/ n < p.total
    <3>1. n < Target /\ Target \in Nat /\ Target = SampleCount(TheJob.duration)
      BY <1>1, <1>3, TheJobIs DEF RenderBlock, Target
    <3>2. Target > 0
      BY <2>2, <3>1
    <3>3. p.total = Target
      BY <2>2, <3>1, <3>2, JobFields
    <3>4. QED
      BY <3>1, <3>3
  <2>7. Ends(p, TRUE, n, k) = (p.single /\ n + k >= p.pri)
    BY <2>6 DEF Ends
  <2>8. source.done = (single /\ n >= pri) /\ (single => n < pri + block)
    BY <2>1 DEF PulseOn
  <2>9. pri \in Nat /\ single \in BOOLEAN
    <3>1. p.pri \in Nat /\ p.single \in BOOLEAN
      BY <2>2 DEF IsParams
    <3> HIDE DEF p, pri, single
    <3>2. QED
      BY <2>3, <3>1
  <2>10. source.done => k = 0
    BY <2>2, <2>3 DEF BlockLength
  <2> DEFINE new == Len(out')
  <2> HIDE DEF p, n, block, max, k, pri, single, new
  <2>11. k \in Nat /\ n \in Nat /\ block \in Nat
    BY <2>2, <2>4
  <2>12. n + k >= pri \/ ~(n >= pri)
    BY <2>9, <2>11
  <2>13. source'.done = (single /\ n + k >= pri)
    BY <2>3, <2>4, <2>8, <2>12, <2>7
  <2>14. single => n + k < pri + block
    <3>1. CASE source.done
      <4>1. k = 0
        BY <2>10, <3>1
      <4>2. QED
        BY <2>8, <2>9, <2>11, <4>1
    <3>2. CASE ~source.done
      <4>1. ~(single /\ n >= pri)
        BY <2>8, <3>2, Zenon
      <4>2. single => n < pri
        BY <2>9, <2>11, <4>1
      <4>3. QED
        BY <2>4, <2>9, <2>11, <4>2
    <3>3. QED
      BY <3>1, <3>2
  <2>15. source'.done = (single /\ new >= pri) /\ (single => new < pri + block)
    BY <2>5, <2>13, <2>14 DEF new
  <2>16. QED
    BY <1>3, <2>15 DEF PulseOn, new, single, pri, block
<1>5. use'.jobs[1] = TheJob
  BY <1>1, <1>3
<1>6. QED
  BY <1>1, <1>2, <1>3, <1>4, <1>5 DEF VerdictInv, VerdictOfRender

LEMMA EndKeepsVerdict ==
    ASSUME StreamInv, VerdictInv, EndJob
    PROVE  VerdictInv'
<1>1. pc = "rendering" /\ use' = use
  BY DEF EndJob
<1>2. SUFFICES ASSUME use.kind = "render" PROVE VerdictInv'
  BY <1>1 DEF VerdictInv, VerdictOfRender, EndJob, Deliver
<1>3. ~IsInterface /\ ~IsPreRender /\ job = 1 /\ Len(use.jobs) = 1 /\ TheJob = use.jobs[1] /\ delivered = <<>>
  BY <1>1, <1>2, OneJob DEF VerdictInv
<1>4. Refused(use.jobs[1])' = Refused(use.jobs[1])
  BY <1>1 DEF Refused, IsPreRender
<1> DEFINE j == TheJob
           target == Target
           available == Available(j.params, target)
           n == Len(out)
<1>5. /\ IsRendering /\ ~Refused(j) /\ target \in Nat /\ n \in Nat /\ n <= target /\ j.block \in Nat \ {0}
  BY <1>1, <1>3, TheJobIs DEF StreamInv, AtWork, IsRendering
<1>6. j.params.type = "pulse" => PulseOn(j.params, j.block)
  BY <1>1, <1>2, <1>3 DEF VerdictInv
<1>7. use'.jobs[1] = j /\ SampleCount(j.duration) = target
  BY <1>1, <1>3 DEF Target
<1>8. CASE n = target
  <2>1. Deliver(out)
    BY <1>8 DEF EndJob
  <2>2. ~Missing(j, out)
    BY <1>2 DEF Missing
  <2>3. pc' = "done" /\ delivered' = delivered \o out
    BY <1>2, <1>3, <2>1, <2>2 DEF Deliver, Placed
  <2>4. Len(delivered') = target
    <3>1. HasLength(out, n)
      BY <1>5, SignalHasLength DEF IsRendering
    <3> DEFINE empty == <<>>
    <3>2. HasLength(empty, 0)
      BY DEF HasLength
    <3> HIDE DEF empty, n
    <3>3. \A x, y : HasLength(x, 0) /\ HasLength(y, n) => x \o y = [i \in 1 .. 0 + n |-> IF i <= 0 THEN x[i] ELSE y[i - 0]]
      BY <1>5, ConcatIs
    <3>4. empty \o out = [i \in 1 .. 0 + n |-> IF i <= 0 THEN empty[i] ELSE out[i - 0]]
      BY <3>1, <3>2, <3>3
    <3> DEFINE whole == empty \o out
    <3> HIDE DEF whole
    <3>5. HasLength(whole, n)
      BY <1>5, <3>4 DEF HasLength, whole
    <3>6. Len(whole) = n
      BY <1>5, <3>5, SequenceIs
    <3>7. delivered' = whole
      BY <1>3, <2>3 DEF whole, empty
    <3>8. QED
      BY <1>8, <3>6, <3>7
  <2>5. target > available => target - available < j.block
    BY <1>1, <1>3, <1>6, <1>8, EnoughSamples
  <2> HIDE DEF j, target, available, n
  <2>6. ~Refused(use.jobs[1])'
    BY <1>3, <1>4, <1>5 DEF j
  <2>7. QED
    BY <1>1, <1>2, <1>7, <2>3, <2>4, <2>5, <2>6 DEF VerdictInv, VerdictOfRender, available
<1>9. CASE n # target
  <2>1. pc' = "failed" /\ out' = out
    BY <1>3, <1>9 DEF EndJob
  <2>2. n < target
    <3> HIDE DEF n, target
    <3>1. QED
      BY <1>5, <1>9
  <2>3. NextBlock.out = <<>>
    <3>1. ~(n >= target)
      <4> HIDE DEF n, target
      <4>1. QED
        BY <1>5, <2>2
    <3>2. QED
      BY <3>1 DEF EndJob
  <2> DEFINE max == Least(target - n, j.block)
             k == BlockLength(source, max)
             p == JobParams(j)
             s == Stretch(p, n, k)
  <2>4. k \in 0 .. max /\ max \in Nat /\ NextBlock.out = s
    BY <1>1, <1>3, NextBlockIs
  <2>5. k = 0
    <3>1. HasLength(s, k)
      BY DEF HasLength, Stretch
    <3> HIDE DEF s, k, max
    <3>2. k \in Nat
      BY <2>4
    <3>3. Len(s) = k
      BY <3>1, <3>2, SequenceIs
    <3>4. QED
      BY <2>3, <2>4, <3>3
  <2>6. available < target /\ n - available \in 0 .. j.block - 1
    BY <1>1, <1>3, <1>6, <2>2, <2>5, ShortOfSamples
  <2>7. Len(out') = n
    BY <2>1
  <2> HIDE DEF j, target, available, n
  <2>8. QED
    BY <1>1, <1>2, <1>7, <2>1, <2>2, <2>6, <2>7 DEF VerdictInv, VerdictOfRender, available
<1>10. QED
  BY <1>8, <1>9

LEMMA VerdictStays == StreamInv /\ VerdictInv /\ [Next]_vars => VerdictInv'
<1> SUFFICES ASSUME StreamInv, VerdictInv, [Next]_vars PROVE VerdictInv'
  OBVIOUS
<1>1. ASSUME IsInterface, use' = use PROVE VerdictInv'
  BY <1>1 DEF VerdictInv, VerdictOfRender, IsInterface
<1>2. CASE CallPrepare
  BY <1>1, <1>2 DEF CallPrepare
<1>3. CASE CallReset
  BY <1>1, <1>3 DEF CallReset
<1>4. ASSUME NEW params \in Reconfigurations, CallConfigure(params) PROVE VerdictInv'
  BY <1>1, <1>4 DEF CallConfigure
<1>5. ASSUME NEW n \in BlockSizes, CallRender(n) PROVE VerdictInv'
  BY <1>1, <1>5 DEF CallRender
<1>6. CASE StartJob
  BY <1>6, StartKeepsVerdict
<1>7. CASE RenderBlock
  BY <1>7, BlockKeepsVerdict
<1>8. CASE EndJob
  BY <1>8, EndKeepsVerdict
<1>9. CASE Stop
  BY <1>9 DEF Stop, VerdictInv, VerdictOfRender
<1>10. CASE UNCHANGED vars
  BY <1>10 DEF vars, VerdictInv, VerdictOfRender, PulseOn, Refused, IsPreRender
<1>11. QED
  BY <1>2, <1>3, <1>4, <1>5, <1>6, <1>7, <1>8, <1>9, <1>10 DEF Next

LEMMA VerdictAlways == Spec => []VerdictInv
<1>1. StreamInv /\ StreamInv' /\ VerdictInv /\ [Next]_vars => VerdictInv'
  BY VerdictStays
<1>2. QED
  BY <1>1, StreamAlways, VerdictStarts, PTL DEF Spec

\* A render ends with all its samples unless its parameters are refused, its
\* waveform is too short or it is stopped; only a single pulse goes on to the end
\* of its block (RenderWorker::run, PulseSource::render_block).
THEOREM RendersEndWell == Spec => []VerdictOfRender
<1>1. VerdictInv => VerdictOfRender
  BY DEF VerdictInv
<1>2. QED
  BY <1>1, VerdictAlways, PTL

-----------------------------------------------------------------------------
(* The buffer of a mix and of a replay.  What is heard and joined depends on *)
(* the use alone, which never changes.                                       *)

OffsetOf(u, j) == SampleCount(j.start - u.start)

HeardNext(u, sample, k, s) ==
    LET j == u.jobs[k]
        own == sample - OffsetOf(u, j)
    IN  IF own \in 1 .. SampleCount(j.duration) THEN Append(s, Whole(j)[own]) ELSE s

HeardOf(u, sample, members) ==
    LET heard[k \in 0 .. members] == IF k = 0 THEN <<>> ELSE HeardNext(u, sample, k, heard[k - 1])
    IN  heard[members]

JoinedOf(u, instructions) ==
    LET joined[k \in 0 .. instructions] == IF k = 0 THEN <<>> ELSE joined[k - 1] \o Whole(u.jobs[k])
    IN  joined[instructions]

MixOf(u, members) == [i \in 1 .. SampleCount(u.duration) |-> HeardOf(u, i, members)]

IsHeard(g, u, sample, n) == g = [k \in 0 .. n |-> IF k = 0 THEN <<>> ELSE HeardNext(u, sample, k, g[k - 1])]

LEMMA HeardIs ==
    ASSUME NEW u, NEW sample, NEW n \in Nat
    PROVE  \E g : IsHeard(g, u, sample, n) /\ HeardOf(u, sample, n) = g[n]
<1> DEFINE V == {Whole(u.jobs[k])[sample - OffsetOf(u, u.jobs[k])] : k \in 1 .. n}
           step == [k \in 1 .. n |-> [s \in Seq(V) |-> HeardNext(u, sample, k, s)]]
<1>1. ASSUME NEW k \in 1 .. n, NEW s \in Seq(V) PROVE HeardNext(u, sample, k, s) \in Seq(V)
  <2> DEFINE x == Whole(u.jobs[k])[sample - OffsetOf(u, u.jobs[k])]
  <2>1. x \in V
    OBVIOUS
  <2> HIDE DEF V
  <2>2. HeardNext(u, sample, k, s) = s \/ HeardNext(u, sample, k, s) = Append(s, x)
    BY Zenon DEF HeardNext
  <2> HIDE DEF x
  <2>3. Append(s, x) \in Seq(V)
    BY <2>1
  <2>4. QED
    BY <2>2, <2>3
<1>2. PICK g \in [0 .. n -> Seq(V)] : IsIterated(g, <<>>, step, n)
  <2>1. Stays(Seq(V), step, n)
    <3> HIDE DEF V
    <3>1. QED
      BY <1>1 DEF Stays
  <2>2. <<>> \in Seq(V)
    <3> HIDE DEF V
    <3>1. QED
      OBVIOUS
  <2> HIDE DEF step, V
  <2>3. QED
    BY <2>1, <2>2, Iterates
<1>3. \A k \in 1 .. n : g[k] = HeardNext(u, sample, k, g[k - 1])
  <2> HIDE DEF V
  <2>1. TAKE k \in 1 .. n
  <2>2. k - 1 \in 0 .. n
    OBVIOUS
  <2>3. g[k - 1] \in Seq(V)
    BY <1>2, <2>2
  <2>4. step[k][g[k - 1]] = HeardNext(u, sample, k, g[k - 1])
    BY <2>3
  <2> HIDE DEF step
  <2>5. g[k] = step[k][g[k - 1]]
    BY <1>2 DEF IsIterated
  <2>6. QED
    BY <2>4, <2>5
<1> HIDE DEF step, V
<1>4. IsHeard(g, u, sample, n)
  <2>1. \A k \in 0 .. n : g[k] = IF k = 0 THEN <<>> ELSE HeardNext(u, sample, k, g[k - 1])
    <3>1. \A k \in 0 .. n : k = 0 \/ k \in 1 .. n
      OBVIOUS
    <3>2. g[0] = <<>>
      BY <1>2 DEF IsIterated
    <3>3. QED
      BY <1>3, <3>1, <3>2
  <2>2. g = [k \in 0 .. n |-> g[k]]
    BY <1>2
  <2>3. QED
    BY <2>1, <2>2, Zenon DEF IsHeard
<1> DEFINE f == CHOOSE h : IsHeard(h, u, sample, n)
<1>5. IsHeard(f, u, sample, n) /\ HeardOf(u, sample, n) = f[n]
  <2>1. IsHeard(f, u, sample, n)
    BY <1>4, Zenon
  <2>2. HeardOf(u, sample, n) = f[n]
    BY Zenon DEF HeardOf, IsHeard
  <2>3. QED
    BY <2>1, <2>2
<1> HIDE DEF f
<1>6. QED
  BY <1>5

LEMMA HeardStarts ==
    ASSUME NEW u, NEW sample
    PROVE  HeardOf(u, sample, 0) = <<>>
<1>1. 0 \in Nat /\ 0 \in 0 .. 0
  OBVIOUS
<1>2. PICK g : IsHeard(g, u, sample, 0) /\ HeardOf(u, sample, 0) = g[0]
  BY <1>1, HeardIs
<1>3. QED
  BY <1>1, <1>2, Zenon DEF IsHeard

LEMMA HeardMoves ==
    ASSUME NEW u, NEW sample, NEW n \in Nat
    PROVE  HeardOf(u, sample, n + 1) = HeardNext(u, sample, n + 1, HeardOf(u, sample, n))
<1> DEFINE N == n + 1
<1>1. N \in Nat /\ N # 0 /\ N - 1 = n /\ N \in 0 .. N /\ n \in 0 .. N /\ \A i \in 0 .. n : i \in 0 .. N
  OBVIOUS
<1> HIDE DEF N
<1>2. PICK f : IsHeard(f, u, sample, n) /\ HeardOf(u, sample, n) = f[n]
  BY HeardIs
<1>3. PICK g : IsHeard(g, u, sample, N) /\ HeardOf(u, sample, N) = g[N]
  BY <1>1, HeardIs
<1>4. Agree(f, g, n)
  <2>1. Alongside(f, g, n)
    BY <1>1, <1>2, <1>3 DEF IsHeard, Alongside
  <2>2. QED
    BY <2>1, Alike
<1>5. g[n] = f[n]
  BY <1>4 DEF Agree
<1>6. g[N] = HeardNext(u, sample, N, g[n])
  BY <1>1, <1>3, Zenon DEF IsHeard
<1>7. QED
  BY <1>2, <1>3, <1>5, <1>6 DEF N

IsJoined(g, u, n) == g = [k \in 0 .. n |-> IF k = 0 THEN <<>> ELSE g[k - 1] \o Whole(u.jobs[k])]

AreJobs(u, n) == \A k \in 1 .. n : IsJob(u.jobs[k])

\* The samples of a job are a sequence.
LEMMA WholeIs ==
    ASSUME NEW j, IsJob(j)
    PROVE  HasLength(Whole(j), SampleCount(j.duration))
<1> DEFINE n == SampleCount(j.duration)
<1>1. n \in Nat
  BY JobIs
<1> HIDE DEF n
<1>2. HasLength(Signal(JobParams(j), j.settings, n), n)
  BY <1>1, SignalHasLength
<1>3. QED
  BY <1>2 DEF Whole, n

LEMMA JoinedIs ==
    ASSUME NEW u, NEW n \in Nat, AreJobs(u, n)
    PROVE  \E g : IsJoined(g, u, n) /\ JoinedOf(u, n) = g[n]
<1> DEFINE V == UNION {{Whole(u.jobs[k])[i] : i \in 1 .. SampleCount(u.jobs[k].duration)} : k \in 1 .. n}
           step == [k \in 1 .. n |-> [s \in Seq(V) |-> s \o Whole(u.jobs[k])]]
<1>1. ASSUME NEW k \in 1 .. n, NEW s \in Seq(V) PROVE s \o Whole(u.jobs[k]) \in Seq(V)
  <2> DEFINE w == Whole(u.jobs[k])
             count == SampleCount(u.jobs[k].duration)
  <2>1. HasLength(w, count) /\ count \in Nat
    <3> DEFINE j == u.jobs[k]
    <3>1. IsJob(j)
      BY DEF AreJobs
    <3> HIDE DEF j
    <3>2. HasLength(Whole(j), SampleCount(j.duration)) /\ SampleCount(j.duration) \in Nat
      BY <3>1, WholeIs, JobIs
    <3>3. QED
      BY <3>2 DEF j
  <2>2. {w[i] : i \in 1 .. count} \subseteq V
    OBVIOUS
  <2> HIDE DEF w, count
  <2>3. w \in Seq({w[i] : i \in 1 .. count})
    BY <2>1, SequenceIs
  <2> HIDE DEF V
  <2>4. w \in Seq(V)
    <3>1. HasLength(w, count) /\ \A i \in 1 .. count : w[i] \in V
      BY <2>1, <2>2
    <3>2. w \in [1 .. count -> V]
      BY <3>1 DEF HasLength
    <3>3. QED
      BY <2>1, <3>2
  <2>5. s \o w \in Seq(V)
    BY <2>4
  <2>6. QED
    BY <2>5 DEF w
<1>2. PICK g \in [0 .. n -> Seq(V)] : IsIterated(g, <<>>, step, n)
  <2>1. Stays(Seq(V), step, n)
    <3> HIDE DEF V
    <3>1. QED
      BY <1>1 DEF Stays
  <2>2. <<>> \in Seq(V)
    <3> HIDE DEF V
    <3>1. QED
      OBVIOUS
  <2> HIDE DEF step, V
  <2>3. QED
    BY <2>1, <2>2, Iterates
<1>3. \A k \in 1 .. n : g[k] = g[k - 1] \o Whole(u.jobs[k])
  <2> HIDE DEF V
  <2>1. TAKE k \in 1 .. n
  <2>2. k - 1 \in 0 .. n
    OBVIOUS
  <2>3. g[k - 1] \in Seq(V)
    BY <1>2, <2>2
  <2>4. step[k][g[k - 1]] = g[k - 1] \o Whole(u.jobs[k])
    BY <2>3
  <2> HIDE DEF step
  <2>5. g[k] = step[k][g[k - 1]]
    BY <1>2 DEF IsIterated
  <2>6. QED
    BY <2>4, <2>5
<1> HIDE DEF step, V
<1>4. IsJoined(g, u, n)
  <2>1. \A k \in 0 .. n : g[k] = IF k = 0 THEN <<>> ELSE g[k - 1] \o Whole(u.jobs[k])
    <3>1. \A k \in 0 .. n : k = 0 \/ k \in 1 .. n
      OBVIOUS
    <3>2. g[0] = <<>>
      BY <1>2 DEF IsIterated
    <3>3. QED
      BY <1>3, <3>1, <3>2
  <2>2. g = [k \in 0 .. n |-> g[k]]
    BY <1>2
  <2>3. QED
    BY <2>1, <2>2, Zenon DEF IsJoined
<1> DEFINE f == CHOOSE h : IsJoined(h, u, n)
<1>5. IsJoined(f, u, n) /\ JoinedOf(u, n) = f[n]
  <2>1. IsJoined(f, u, n)
    BY <1>4, Zenon
  <2>2. JoinedOf(u, n) = f[n]
    BY Zenon DEF JoinedOf, IsJoined
  <2>3. QED
    BY <2>1, <2>2
<1> HIDE DEF f
<1>6. QED
  BY <1>5

LEMMA JoinedStarts ==
    ASSUME NEW u
    PROVE  JoinedOf(u, 0) = <<>>
<1>1. 0 \in Nat /\ 0 \in 0 .. 0 /\ AreJobs(u, 0)
  BY DEF AreJobs
<1>2. PICK g : IsJoined(g, u, 0) /\ JoinedOf(u, 0) = g[0]
  BY <1>1, JoinedIs
<1>3. QED
  BY <1>1, <1>2, Zenon DEF IsJoined

LEMMA JoinedMoves ==
    ASSUME NEW u, NEW n \in Nat, AreJobs(u, n + 1)
    PROVE  JoinedOf(u, n + 1) = JoinedOf(u, n) \o Whole(u.jobs[n + 1])
<1> DEFINE N == n + 1
<1>1. N \in Nat /\ N # 0 /\ N - 1 = n /\ N \in 0 .. N /\ n \in 0 .. N /\ \A i \in 0 .. n : i \in 0 .. N
  OBVIOUS
<1>2. AreJobs(u, N) /\ AreJobs(u, n)
  BY DEF AreJobs
<1> HIDE DEF N
<1>3. PICK f : IsJoined(f, u, n) /\ JoinedOf(u, n) = f[n]
  BY <1>2, JoinedIs
<1>4. PICK g : IsJoined(g, u, N) /\ JoinedOf(u, N) = g[N]
  BY <1>1, <1>2, JoinedIs
<1>5. Agree(f, g, n)
  <2> DEFINE w(i) == Whole(u.jobs[i])
  <2>1. f[0] = <<>> /\ g[0] = <<>>
    <3>1. 0 \in 0 .. n
      OBVIOUS
    <3>2. QED
      BY <1>1, <1>3, <1>4, <3>1, Zenon DEF IsJoined
  <2>2. ASSUME NEW i \in 1 .. n PROVE f[i] = f[i - 1] \o w(i) /\ g[i] = g[i - 1] \o w(i)
    <3>1. i \in 0 .. n /\ i # 0
      OBVIOUS
    <3>2. QED
      BY <1>1, <1>3, <1>4, <3>1, Zenon DEF IsJoined
  <2> HIDE DEF w
  <2>3. Alongside(f, g, n)
    BY <2>1, <2>2 DEF Alongside
  <2>4. QED
    BY <2>3, Alike
<1>6. g[n] = f[n]
  BY <1>5 DEF Agree
<1>7. g[N] = g[n] \o Whole(u.jobs[N])
  BY <1>1, <1>4, Zenon DEF IsJoined
<1>8. QED
  BY <1>3, <1>4, <1>6, <1>7 DEF N

LEMMA SameHeard ==
    /\ \A sample, members : Heard(sample, members) = HeardOf(use, sample, members)
    /\ \A instructions : Joined(instructions) = JoinedOf(use, instructions)
    /\ \A j : Offset(j) = OffsetOf(use, j)
    /\ Total = SampleCount(use.duration)
<1>1. ASSUME NEW sample, NEW members PROVE Heard(sample, members) = HeardOf(use, sample, members)
  BY Zenon DEF Heard, HeardOf, HeardNext, Offset, OffsetOf
<1>2. ASSUME NEW instructions PROVE Joined(instructions) = JoinedOf(use, instructions)
  BY Zenon DEF Joined, JoinedOf
<1>3. QED
  BY <1>1, <1>2 DEF Offset, OffsetOf, Total

\* What is delivered of the first jobs.
DeliveredOf(jobs) ==
    /\ use.kind = "mix" => delivered = MixOf(use, jobs)
    /\ use.kind = "replay" => delivered = JoinedOf(use, jobs)

SumInv == ~IsInterface /\ pc \in {"idle", "rendering", "done"} => DeliveredOf(job - 1)

LEMMA SumStarted == Init => SumInv
<1> SUFFICES ASSUME Init PROVE SumInv
  OBVIOUS
<1>1. job - 1 = 0
  BY DEF Init
<1>2. \A i : HeardOf(use, i, 0) = <<>>
  BY HeardStarts
<1>3. MixOf(use, 0) = [i \in 1 .. Total |-> <<>>]
  BY <1>2 DEF MixOf, Total
<1>4. JoinedOf(use, 0) = <<>>
  BY JoinedStarts
<1>5. use.kind = "mix" => delivered = [i \in 1 .. Total |-> <<>>]
  BY DEF Init
<1>6. use.kind = "replay" => delivered = <<>>
  BY DEF Init
<1>7. QED
  BY <1>1, <1>3, <1>4, <1>5, <1>6 DEF SumInv, DeliveredOf

\* A buffer put to what is delivered.
LEMMA DeliverSums ==
    ASSUME StreamInv, SumInv, ~IsInterface, pc \in {"idle", "rendering"}, NEW buffer, Deliver(buffer), use' = use,
           Missing(TheJob, buffer) \/ buffer = Whole(TheJob)
    PROVE  SumInv'
<1>1. /\ job \in DOMAIN use.jobs /\ IsJob(TheJob) /\ DeliveredOf(job - 1) /\ DOMAIN use.jobs = 1 .. Len(use.jobs)
      /\ Len(use.jobs) \in Nat /\ use \in Uses
  BY TheJobIs, UsesAre DEF StreamInv, SumInv
<1>2. CASE Missing(TheJob, buffer)
  BY <1>2 DEF Deliver, SumInv
<1>3. CASE ~Missing(TheJob, buffer)
  <2> DEFINE W == Whole(TheJob)
             count == SampleCount(TheJob.duration)
             n == job - 1
             total == SampleCount(use.duration)
             offset == OffsetOf(use, TheJob)
  <2>1. delivered' = Placed(TheJob, W) /\ job' = job + 1
    BY <1>3 DEF Deliver
  <2>2. HasLength(W, count) /\ count \in Nat
    BY <1>1, WholeIs, JobIs
  <2>3. n \in Nat /\ n + 1 = job /\ job' - 1 = n + 1
    BY <1>1, <2>1
  <2> HIDE DEF W, count, n
  <2>4. DOMAIN W = 1 .. count
    BY <2>2, SequenceIs
  <2>5. ASSUME use.kind = "mix" PROVE delivered' = MixOf(use, n + 1)
    <3>1. delivered = [i \in 1 .. total |-> HeardOf(use, i, n)]
      BY <1>1, <2>5 DEF DeliveredOf, MixOf, n
    <3>2. delivered' = [i \in 1 .. total |-> IF i - offset \in DOMAIN W THEN Append(delivered[i], W[i - offset])
                                              ELSE delivered[i]]
      BY <2>1, <2>5, SameHeard DEF Placed
    <3>3. MixOf(use, n + 1) = [i \in 1 .. total |-> HeardOf(use, i, n + 1)]
      BY DEF MixOf
    <3>4. ASSUME NEW i \in 1 .. total
          PROVE  HeardOf(use, i, n + 1) = IF i - offset \in DOMAIN W THEN Append(HeardOf(use, i, n), W[i - offset])
                                          ELSE HeardOf(use, i, n)
      <4> DEFINE before == HeardOf(use, i, n)
      <4>1. HeardOf(use, i, n + 1) = HeardNext(use, i, n + 1, before)
        BY <2>3, HeardMoves
      <4>2. use.jobs[n + 1] = TheJob
        BY <2>3 DEF TheJob
      <4> HIDE DEF before
      <4>3. HeardNext(use, i, n + 1, before) = IF i - offset \in 1 .. count THEN Append(before, W[i - offset]) ELSE before
        BY <4>2, Zenon DEF HeardNext, W, count
      <4>4. QED
        BY <2>4, <4>1, <4>3 DEF before
    <3> HIDE DEF total, offset
    <3>5. QED
      BY <3>1, <3>2, <3>3, <3>4
  <2>6. ASSUME use.kind = "replay" PROVE delivered' = JoinedOf(use, n + 1)
    <3>1. delivered = JoinedOf(use, n)
      BY <1>1, <2>6 DEF DeliveredOf, n
    <3>2. delivered' = delivered \o W
      BY <2>1, <2>6 DEF Placed
    <3>3. AreJobs(use, n + 1)
      <4>1. \A k \in 1 .. n + 1 : k \in DOMAIN use.jobs
        BY <1>1, <2>3
      <4>2. QED
        BY <1>1, <4>1, UsesAre DEF AreJobs
    <3>4. use.jobs[n + 1] = TheJob
      BY <2>3 DEF TheJob
    <3>5. JoinedOf(use, n + 1) = JoinedOf(use, n) \o Whole(use.jobs[n + 1])
      BY <2>3, <3>3, JoinedMoves
    <3>6. QED
      BY <3>1, <3>2, <3>4, <3>5 DEF W
  <2>7. QED
    BY <2>3, <2>5, <2>6 DEF SumInv, DeliveredOf
<1>4. QED
  BY <1>2, <1>3

\* A buffer without samples is missed or there are none.
LEMMA NoBuffer ==
    ASSUME StreamInv, ~IsInterface, pc # "done", IsPreRender
    PROVE  Missing(TheJob, <<>>) \/ <<>> = Whole(TheJob)
<1> DEFINE count == SampleCount(TheJob.duration)
<1>1. IsJob(TheJob)
  BY TheJobIs
<1>2. HasLength(Whole(TheJob), count) /\ count \in Nat /\ TheJob.duration \in Nat
  BY <1>1, WholeIs, JobIs
<1>3. TheJob.duration = 0 => count = 0
  BY NothingCounted
<1> HIDE DEF count
<1>4. SUFFICES ASSUME ~Missing(TheJob, <<>>) PROVE <<>> = Whole(TheJob)
  OBVIOUS
<1>5. use.kind = "mix" \/ use.kind = "replay"
  BY DEF IsPreRender
<1>6. ~(TheJob.duration > 0) \/ ~(count > 0)
  BY <1>4, <1>5 DEF Missing, count
<1>7. count = 0
  BY <1>2, <1>3, <1>6
<1> DEFINE w == Whole(TheJob)
<1> HIDE DEF w
<1>8. HasLength(w, 0)
  BY <1>2, <1>7 DEF w
<1>9. w = <<>>
  <2>1. 0 \in Nat
    OBVIOUS
  <2>2. \E S : w \in Seq(S)
    BY <1>8, <2>1, SequenceIs
  <2>3. Len(w) = 0
    BY <1>8, <2>1, SequenceIs
  <2>4. QED
    BY <2>2, <2>3
<1>10. QED
  BY <1>9 DEF w

LEMMA StartKeepsSums ==
    ASSUME StreamInv, SumInv, StartJob
    PROVE  SumInv'
<1>1. ~IsInterface /\ pc = "idle" /\ use' = use
  BY DEF StartJob
<1>2. CASE Misplaced(TheJob) \/ (~IsPreRender /\ Refused(TheJob))
  BY <1>2 DEF StartJob, SumInv
<1>3. CASE ~Misplaced(TheJob) /\ IsPreRender /\ Refused(TheJob)
  <2>1. Deliver(<<>>)
    BY <1>3 DEF StartJob
  <2>2. QED
    BY <1>1, <1>3, <2>1, NoBuffer, DeliverSums
<1>4. CASE ~Misplaced(TheJob) /\ ~Refused(TheJob)
  <2>1. job' = job /\ delivered' = delivered
    BY <1>4 DEF StartJob
  <2>2. QED
    BY <1>1, <2>1 DEF SumInv, DeliveredOf, IsInterface
<1>5. QED
  BY <1>2, <1>3, <1>4

LEMMA EndKeepsSums ==
    ASSUME StreamInv, SumInv, EndJob
    PROVE  SumInv'
<1>1. pc = "rendering" /\ use' = use
  BY DEF EndJob
<1>2. ~IsInterface /\ IsRendering
  BY <1>1 DEF StreamInv, AtWork, AtInterface
<1>3. CASE Len(out) = Target
  <2>1. Deliver(out)
    BY <1>3 DEF EndJob
  <2>2. out = Whole(TheJob)
    BY <1>2, <1>3 DEF IsRendering, Whole, Target
  <2>3. QED
    BY <1>1, <1>2, <2>1, <2>2, DeliverSums
<1>4. CASE Len(out) # Target /\ IsPreRender
  <2>1. Deliver(<<>>)
    BY <1>4 DEF EndJob
  <2>2. QED
    BY <1>1, <1>2, <1>4, <2>1, NoBuffer, DeliverSums
<1>5. CASE ~(Len(out) = Target \/ IsPreRender)
  BY <1>5 DEF EndJob, SumInv
<1>6. QED
  BY <1>3, <1>4, <1>5

LEMMA SumStays == StreamInv /\ SumInv /\ [Next]_vars => SumInv'
<1> SUFFICES ASSUME StreamInv, SumInv, [Next]_vars PROVE SumInv'
  OBVIOUS
<1>1. ASSUME IsInterface, use' = use PROVE SumInv'
  BY <1>1 DEF SumInv, IsInterface
<1>2. CASE CallPrepare
  BY <1>1, <1>2 DEF CallPrepare
<1>3. CASE CallReset
  BY <1>1, <1>3 DEF CallReset
<1>4. ASSUME NEW params \in Reconfigurations, CallConfigure(params) PROVE SumInv'
  BY <1>1, <1>4 DEF CallConfigure
<1>5. ASSUME NEW n \in BlockSizes, CallRender(n) PROVE SumInv'
  BY <1>1, <1>5 DEF CallRender
<1>6. CASE StartJob
  BY <1>6, StartKeepsSums
<1>7. CASE RenderBlock
  BY <1>7 DEF RenderBlock, SumInv, DeliveredOf, IsInterface
<1>8. CASE EndJob
  BY <1>8, EndKeepsSums
<1>9. CASE Stop
  BY <1>9 DEF Stop, SumInv
<1>10. CASE UNCHANGED vars
  BY <1>10 DEF vars, SumInv, DeliveredOf, IsInterface
<1>11. QED
  BY <1>2, <1>3, <1>4, <1>5, <1>6, <1>7, <1>8, <1>9, <1>10 DEF Next

LEMMA SumAlways == Spec => []SumInv
<1>1. StreamInv /\ StreamInv' /\ SumInv /\ [Next]_vars => SumInv'
  BY SumStays
<1>2. QED
  BY <1>1, StreamAlways, SumStarted, PTL DEF Spec

\* What is rounded is off by half a sample at most.
LEMMA Rounded ==
    ASSUME NEW t \in Int
    PROVE  2 * (SampleCount(t) * TicksPerSample - t) \in -TicksPerSample .. TicksPerSample
<1> DEFINE q == SampleCount(t)
           T == TicksPerSample
           product == T * q
<1>1. q \in Int /\ T \in Nat \ {0} /\ 2 * product <= 2 * t + T /\ 2 * t + T < 2 * product + 2 * T
  BY SampleCountIs, SignalAssumption
<1>2. product \in Int /\ q * T = product
  BY <1>1
<1> HIDE DEF q, T, product
<1>3. 2 * (product - t) \in -T .. T
  BY <1>1, <1>2
<1>4. QED
  BY <1>2, <1>3 DEF q, T

\* Two times that are within a third one.
LEMMA RoundedFit ==
    ASSUME NEW a \in Int, NEW d \in Int, NEW whole \in Int, a + d <= whole
    PROVE  SampleCount(a) + SampleCount(d) <= SampleCount(whole) + 1
<1> DEFINE x == SampleCount(a)
           y == SampleCount(d)
           z == SampleCount(whole)
           T == TicksPerSample
           e == x + y - z - 2
<1>1. /\ x \in Int /\ y \in Int /\ z \in Int /\ T \in Nat \ {0}
      /\ 2 * (T * x) <= 2 * a + T /\ 2 * (T * y) <= 2 * d + T /\ 2 * whole + T < 2 * (T * z) + 2 * T
  BY SampleCountIs, SignalAssumption
<1> HIDE DEF x, y, z, T
<1>2. T * x \in Int /\ T * y \in Int /\ T * z \in Int /\ e \in Int /\ T * e \in Int
  BY <1>1
<1>3. T * e = T * x + T * y - T * z - 2 * T
  BY <1>1
<1>4. ASSUME e >= 0 PROVE FALSE
  <2>1. T * e >= 0
    BY <1>1, <1>2, <1>4
  <2> HIDE DEF e
  <2>2. QED
    BY <1>1, <1>2, <1>3, <2>1
<1>5. x + y <= z + 1
  BY <1>1, <1>4
<1>6. QED
  BY <1>5 DEF x, y, z

LEMMA SumsMatch == StreamInv /\ SumInv => BuffersAreSums
<1> SUFFICES ASSUME StreamInv, SumInv, pc = "done" PROVE BuffersAreSums
  BY DEF BuffersAreSums
<1>1. ~IsInterface /\ job - 1 = Len(use.jobs) /\ use \in Uses
  <2>1. ~IsInterface /\ use \in Uses /\ job = Len(use.jobs) + 1
    BY DEF StreamInv, AtInterface, AtWork
  <2>2. Len(use.jobs) \in Nat
    BY <2>1, UsesAre
  <2>3. QED
    BY <2>1, <2>2
<1>2. DeliveredOf(Len(use.jobs))
  BY <1>1 DEF SumInv
<1>3. ASSUME use.kind = "mix" PROVE delivered = [i \in 1 .. Total |-> Heard(i, Len(use.jobs))]
  BY <1>2, <1>3, SameHeard DEF DeliveredOf, MixOf
<1>4. ASSUME use.kind = "replay" PROVE delivered = Joined(Len(use.jobs))
  BY <1>2, <1>4, SameHeard DEF DeliveredOf
<1>5. ASSUME NEW k \in DOMAIN use.jobs
      PROVE  LET j == use.jobs[k]
             IN  /\ 2 * (Offset(j) * TicksPerSample - (j.start - use.start)) \in -TicksPerSample .. TicksPerSample
                 /\ j.duration > 0 /\ j.start + j.duration <= use.start + use.duration =>
                        Offset(j) + SampleCount(j.duration) <= Total + 1
  <2> DEFINE j == use.jobs[k]
  <2>1. IsJob(j) /\ use.start \in Nat /\ use.duration \in Nat
    BY <1>1, UsesAre
  <2> HIDE DEF j
  <2>2. j.start \in Nat /\ j.duration \in Nat
    BY <2>1, JobIs
  <2> DEFINE late == j.start - use.start
  <2>3. late \in Int /\ (j.start + j.duration <= use.start + use.duration => late + j.duration <= use.duration)
    BY <2>1, <2>2
  <2> HIDE DEF late
  <2>4. 2 * (SampleCount(late) * TicksPerSample - late) \in -TicksPerSample .. TicksPerSample
    BY <2>3, Rounded
  <2>5. late + j.duration <= use.duration => SampleCount(late) + SampleCount(j.duration) <= SampleCount(use.duration) + 1
    BY <2>1, <2>2, <2>3, RoundedFit
  <2>6. QED
    BY <2>3, <2>4, <2>5 DEF late, j, Offset, Total
<1>6. QED
  BY <1>3, <1>4, <1>5 DEF BuffersAreSums

\* The buffer of a finished mix is the sum of its members, each within half a
\* sample of its place and cut by at most one sample, that of a finished replay
\* the instructions one after the other (Runtime::run_single_channel,
\* execute_channel_jobs and run_replay, mix_member_offset_samples).
THEOREM BuffersSum == Spec => []BuffersAreSums
BY StreamAlways, SumAlways, SumsMatch, PTL
=============================================================================
