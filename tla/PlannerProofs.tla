---------------------------- MODULE PlannerProofs ------------------------------
(***************************************************************************)
(* What the operators return that the planner and the runtime share: the   *)
(* vectors they flatten, filter and sort, and the arithmetic on times.     *)
(***************************************************************************)
EXTENDS Planner, SequenceTheorems, FiniteSetTheorems, Induction

-----------------------------------------------------------------------------
(* FlattenSeq. *)

\* f[i] holds the first i of the sequences one after the other.
IsFlat(f, seqs, k) ==
    f = [i \in 1 .. k |-> IF i = 1 THEN seqs[i] ELSE f[i - 1] \o seqs[i]]

LEMMA FlatExists ==
    ASSUME NEW X, NEW seqs \in Seq(Seq(X)), Len(seqs) > 0
    PROVE  \E f : IsFlat(f, seqs, Len(seqs))
<1> DEFINE Done == {k \in 0 .. Len(seqs) : \E f : IsFlat(f, seqs, k)}
<1>0. Len(seqs) \in Nat
  OBVIOUS
<1>1. 0 \in Done
  <2>1. IsFlat([i \in 1 .. 0 |-> 0], seqs, 0)
    BY DEF IsFlat
  <2>2. QED
    BY <1>0, <2>1
<1>2. ASSUME NEW k \in 0 .. Len(seqs), k \in Done, k < Len(seqs) PROVE k + 1 \in Done
  <2>0. k \in Nat
    BY <1>0
  <2>1. PICK f : IsFlat(f, seqs, k)
    BY <1>2
  <2> DEFINE g == [i \in 1 .. k + 1 |-> IF i <= k THEN f[i]
                                        ELSE IF i = 1 THEN seqs[i] ELSE f[i - 1] \o seqs[i]]
  <2>2. ASSUME NEW i \in 1 .. k + 1
        PROVE  g[i] = IF i = 1 THEN seqs[i] ELSE g[i - 1] \o seqs[i]
    <3>1. i # 1 => i - 1 \in 1 .. k /\ g[i - 1] = f[i - 1]
      BY <2>0
    <3>2. ASSUME i <= k PROVE f[i] = IF i = 1 THEN seqs[i] ELSE f[i - 1] \o seqs[i]
      <4>1. i \in 1 .. k
        BY <2>0, <3>2
      <4> HIDE DEF g
      <4>2. QED
        BY <2>1, <4>1, Zenon DEF IsFlat
    <3>3. QED
      BY <3>1, <3>2
  <2>3. IsFlat(g, seqs, k + 1)
    <3>1. g = [i \in 1 .. k + 1 |-> g[i]]
      OBVIOUS
    <3> HIDE DEF g
    <3>2. QED
      BY <2>2, <3>1, Zenon DEF IsFlat
  <2>4. QED
    BY <1>0, <1>2, <2>0, <2>3
<1> HIDE DEF Done
<1>3. 0 .. Len(seqs) \subseteq Done
  <2>1. \A n \in 0 .. Len(seqs) : n \in Done /\ n < Len(seqs) => n + 1 \in Done
    BY <1>2
  <2>2. QED
    BY <1>0, <1>1, <2>1, UpToBound
<1>4. Len(seqs) \in Done
  BY <1>0, <1>3
<1>5. QED
  BY <1>4 DEF Done

\* Where each of the sequences ends in the flattened one.
Offsets(off, seqs) ==
    /\ off \in [0 .. Len(seqs) -> Nat] /\ off[0] = 0
    /\ \A i \in 1 .. Len(seqs) : off[i] = off[i - 1] + Len(seqs[i])

\* The first k of the sequences, one after the other.
Holds(flat, seqs, off, k) ==
    /\ Len(flat) = off[k]
    /\ \A i \in 1 .. k, r \in Nat : r \in 1 .. Len(seqs[i]) =>
          /\ off[i - 1] + r \in 1 .. Len(flat)
          /\ flat[off[i - 1] + r] = seqs[i][r]
    /\ \A n \in 1 .. Len(flat) : \E i \in 1 .. k : \E r \in 1 .. Len(seqs[i]) : n = off[i - 1] + r

LEMMA OffsetsExist ==
    ASSUME NEW X, NEW seqs \in Seq(Seq(X))
    PROVE  \E off : Offsets(off, seqs)
<1> DEFINE Upto(k) == {off \in [0 .. k -> Nat] :
                         /\ off[0] = 0
                         /\ \A i \in 1 .. k : off[i] = off[i - 1] + Len(seqs[i])}
           Done == {k \in 0 .. Len(seqs) : Upto(k) # {}}
<1> HIDE DEF Done
<1>0. Len(seqs) \in Nat /\ \A i \in 1 .. Len(seqs) : Len(seqs[i]) \in Nat
  <2>1. \A i \in 1 .. Len(seqs) : seqs[i] \in Seq(X)
    OBVIOUS
  <2>2. QED
    BY <2>1
<1>1. 0 \in Done
  <2>1. [i \in 0 .. 0 |-> 0] \in Upto(0)
    OBVIOUS
  <2>2. QED
    BY <1>0, <2>1 DEF Done
<1>2. ASSUME NEW k \in 0 .. Len(seqs), k \in Done, k < Len(seqs) PROVE k + 1 \in Done
  <2>1. PICK off \in Upto(k) : TRUE
    BY <1>2 DEF Done
  <2> DEFINE next == [i \in 0 .. k + 1 |-> IF i <= k THEN off[i] ELSE off[k] + Len(seqs[k + 1])]
  <2>2. k \in Nat /\ k + 1 \in 1 .. Len(seqs) /\ Len(seqs[k + 1]) \in Nat /\ off[k] \in Nat
    BY <1>0, <1>2, <2>1
  <2>3. next \in [0 .. k + 1 -> Nat] /\ next[0] = 0
    BY <2>1, <2>2
  <2>4. ASSUME NEW i \in 1 .. k + 1 PROVE next[i] = next[i - 1] + Len(seqs[i])
    <3>1. CASE i <= k
      <4>1. i \in 1 .. k /\ i - 1 \in 0 .. k /\ i \in 0 .. k + 1 /\ i - 1 \in 0 .. k + 1
        BY <2>2, <3>1
      <4>2. QED
        BY <2>1, <3>1, <4>1
    <3>2. CASE i = k + 1
      BY <2>2, <3>2
    <3>3. QED
      BY <2>2, <3>1, <3>2
  <2>5. next \in Upto(k + 1)
    <3> HIDE DEF next
    <3>1. QED
      BY <2>3, <2>4
  <2>6. k + 1 \in 0 .. Len(seqs) /\ Upto(k + 1) # {}
    <3>1. k + 1 \in 0 .. Len(seqs)
      BY <1>0, <2>2
    <3> HIDE DEF Upto
    <3>2. QED
      BY <3>1, <2>5
  <2>7. QED
    BY <2>6 DEF Done
<1>3. 0 .. Len(seqs) \subseteq Done
  <2>1. \A n \in 0 .. Len(seqs) : n \in Done /\ n < Len(seqs) => n + 1 \in Done
    BY <1>2
  <2>2. QED
    BY <1>0, <1>1, <2>1, UpToBound
<1>4. PICK off \in Upto(Len(seqs)) : TRUE
  BY <1>0, <1>3, SMTT(20) DEF Done
<1>5. QED
  BY <1>4 DEF Offsets

LEMMA HoldsNothing ==
    ASSUME NEW X, NEW seqs \in Seq(Seq(X)), NEW off, Offsets(off, seqs)
    PROVE  Holds(<<>>, seqs, off, 0)
BY DEF Holds, Offsets

LEMMA HoldsOneMore ==
    ASSUME NEW X, NEW seqs \in Seq(Seq(X)), NEW off, Offsets(off, seqs),
           NEW k \in Nat, k < Len(seqs), NEW flat \in Seq(X), Holds(flat, seqs, off, k)
    PROVE  Holds(flat \o seqs[k + 1], seqs, off, k + 1)
<1> DEFINE n == k + 1
           more == flat \o seqs[n]
<1>1. /\ n \in 1 .. Len(seqs) /\ n - 1 = k /\ seqs[n] \in Seq(X)
  OBVIOUS
<1>2. off[n] = off[k] + Len(seqs[n]) /\ off[k] \in Nat /\ Len(seqs[n]) \in Nat /\ Len(flat) = off[k]
  BY <1>1 DEF Offsets, Holds
<1>3. /\ more \in Seq(X) /\ Len(more) = off[n]
      /\ \A m \in 1 .. Len(flat) : more[m] = flat[m]
      /\ \A r \in 1 .. Len(seqs[n]) : more[off[k] + r] = seqs[n][r]
  <2>1. /\ more \in Seq(X)
        /\ Len(more) = Len(flat) + Len(seqs[n])
        /\ \A m \in 1 .. Len(flat) + Len(seqs[n]) :
              more[m] = IF m <= Len(flat) THEN flat[m] ELSE seqs[n][m - Len(flat)]
    BY <1>1, ConcatProperties
  <2> HIDE DEF more, n
  <2>2. ASSUME NEW r \in 1 .. Len(seqs[n]) PROVE more[off[k] + r] = seqs[n][r]
    <3> DEFINE m == off[k] + r
    <3>1. /\ m \in 1 .. Len(flat) + Len(seqs[n])
          /\ ~(m <= Len(flat)) /\ m - Len(flat) = r
      BY <1>2
    <3> HIDE DEF m
    <3>2. more[m] = seqs[n][m - Len(flat)]
      BY <2>1, <3>1
    <3>3. QED
      BY <3>1, <3>2 DEF m
  <2>3. ASSUME NEW m \in 1 .. Len(flat) PROVE more[m] = flat[m]
    <3>1. m \in 1 .. Len(flat) + Len(seqs[n]) /\ m <= Len(flat)
      BY <1>2
    <3>2. QED
      BY <2>1, <3>1
  <2>4. QED
    BY <1>2, <2>1, <2>2, <2>3
<1> HIDE DEF more, n
<1>4. ASSUME NEW i \in 1 .. n, NEW r \in Nat, r \in 1 .. Len(seqs[i])
      PROVE  off[i - 1] + r \in 1 .. Len(more) /\ more[off[i - 1] + r] = seqs[i][r]
  <2>1. CASE i = n
    <3>1. i - 1 = k /\ r \in 1 .. Len(seqs[n]) /\ more[off[k] + r] = seqs[n][r]
      BY <1>1, <1>3, <1>4, <2>1
    <3>2. off[k] + r \in 1 .. off[n]
      BY <1>2, <3>1
    <3>3. QED
      BY <1>3, <2>1, <3>1, <3>2
  <2>2. CASE i \in 1 .. k
    <3>1. off[i - 1] + r \in 1 .. Len(flat) /\ flat[off[i - 1] + r] = seqs[i][r]
      BY <1>4, <2>2 DEF Holds
    <3>2. off[n] >= off[k] /\ off[n] \in Nat
      BY <1>2
    <3>3. QED
      BY <1>2, <1>3, <3>1, <3>2, SMTT(20)
  <2>3. QED
    BY <1>1, <2>1, <2>2 DEF n
<1>5. ASSUME NEW m \in 1 .. Len(more)
      PROVE  \E i \in 1 .. n : \E r \in 1 .. Len(seqs[i]) : m = off[i - 1] + r
  <2>1. CASE m <= off[k]
    <3>1. m \in 1 .. Len(flat)
      BY <1>2, <1>3, <2>1
    <3>2. PICK i \in 1 .. k : \E r \in 1 .. Len(seqs[i]) : m = off[i - 1] + r
      BY <3>1 DEF Holds
    <3>3. i \in 1 .. n
      BY DEF n
    <3>4. QED
      BY <3>2, <3>3
  <2>2. CASE m > off[k]
    <3>1. m - off[k] \in 1 .. Len(seqs[n]) /\ m = off[n - 1] + (m - off[k]) /\ n \in 1 .. n
      BY <1>1, <1>2, <1>3, <2>2, SMTT(20)
    <3>2. QED
      BY <3>1
  <2>3. QED
    BY <1>2, <1>3, <2>1, <2>2
<1>6. QED
  BY <1>3, <1>4, <1>5 DEF Holds, more, n

\* FlattenSeq puts the sequences one after the other.
LEMMA Flattening ==
    ASSUME NEW X, NEW seqs \in Seq(Seq(X)), NEW off, Offsets(off, seqs)
    PROVE  FlattenSeq(seqs) \in Seq(X) /\ Holds(FlattenSeq(seqs), seqs, off, Len(seqs))
<1>1. CASE Len(seqs) = 0
  <2>1. seqs = <<>>
    BY <1>1
  <2>2. FlattenSeq(seqs) = <<>>
    BY <1>1, <2>1 DEF FlattenSeq
  <2>3. QED
    BY <1>1, <2>2, HoldsNothing, EmptySeq
<1>2. CASE Len(seqs) > 0
  <2>0. Len(seqs) \in Nat /\ \A i \in 1 .. Len(seqs) : seqs[i] \in Seq(X)
    OBVIOUS
  <2>1. PICK f : IsFlat(f, seqs, Len(seqs))
    BY <1>2, FlatExists
  <2> DEFINE flatten == CHOOSE flatten :
                flatten = [i \in 1 .. Len(seqs) |-> IF i = 1 THEN seqs[i]
                                                    ELSE flatten[i - 1] \o seqs[i]]
             Done == {k \in 0 .. Len(seqs) :
                        k > 0 => flatten[k] \in Seq(X) /\ Holds(flatten[k], seqs, off, k)}
  <2>2. FlattenSeq(seqs) = flatten[Len(seqs)]
    BY <1>2 DEF FlattenSeq
  <2>3. flatten = [i \in 1 .. Len(seqs) |-> IF i = 1 THEN seqs[i]
                                            ELSE flatten[i - 1] \o seqs[i]]
    BY <2>1 DEF IsFlat
  <2> HIDE DEF flatten
  <2>4. \A i \in 1 .. Len(seqs) :
           flatten[i] = IF i = 1 THEN seqs[i] ELSE flatten[i - 1] \o seqs[i]
    BY <2>3
  <2>5. 0 \in Done
    BY <2>0
  <2>6. ASSUME NEW k \in 0 .. Len(seqs), k \in Done, k < Len(seqs) PROVE k + 1 \in Done
    <3>1. k \in Nat /\ k + 1 \in 1 .. Len(seqs) /\ k + 1 - 1 = k /\ seqs[k + 1] \in Seq(X)
      BY <2>0, <2>6
    <3>2. ASSUME NEW flat \in Seq(X), Holds(flat, seqs, off, k), flatten[k + 1] = flat \o seqs[k + 1]
          PROVE  k + 1 \in Done
      <4>1. flatten[k + 1] \in Seq(X)
        BY <3>1, <3>2
      <4>2. Holds(flatten[k + 1], seqs, off, k + 1)
        BY <2>6, <3>1, <3>2, HoldsOneMore
      <4>3. QED
        BY <2>0, <3>1, <4>1, <4>2
    <3> HIDE DEF Done
    <3>3. CASE k = 0
      <4>1. flatten[k + 1] = <<>> \o seqs[k + 1]
        BY <2>4, <3>1, <3>3, ConcatEmptySeq
      <4>2. <<>> \in Seq(X) /\ Holds(<<>>, seqs, off, k)
        BY <3>3, HoldsNothing
      <4>3. QED
        BY <3>2, <4>1, <4>2
    <3>4. CASE k > 0
      <4>1. flatten[k + 1] = flatten[k] \o seqs[k + 1]
        <5>1. PICK n \in 1 .. Len(seqs) : n = k + 1 /\ n # 1 /\ n - 1 = k
          BY <3>1, <3>4
        <5>2. flatten[n] = flatten[n - 1] \o seqs[n]
          BY <2>4, <5>1
        <5>3. QED
          BY <5>1, <5>2
      <4>2. QED
        BY <2>6, <3>2, <3>4, <4>1 DEF Done
    <3>5. QED
      BY <3>1, <3>3, <3>4
  <2> HIDE DEF Done
  <2>7. 0 .. Len(seqs) \subseteq Done
    <3>1. \A n \in 0 .. Len(seqs) : n \in Done /\ n < Len(seqs) => n + 1 \in Done
      BY <2>6
    <3>2. QED
      BY <2>0, <2>5, <3>1, UpToBound
  <2>8. QED
    BY <1>2, <2>0, <2>2, <2>7 DEF Done
<1>3. QED
  <2>1. Len(seqs) \in Nat
    OBVIOUS
  <2>2. QED
    BY <1>1, <1>2, <2>1

LEMMA OffsetFacts ==
    ASSUME NEW X, NEW seqs \in Seq(Seq(X)), NEW off, Offsets(off, seqs)
    PROVE  /\ Len(seqs) \in Nat
           /\ \A k \in 0 .. Len(seqs) : off[k] \in Nat
           /\ \A k \in 1 .. Len(seqs) :
                 /\ k - 1 \in 0 .. Len(seqs) /\ off[k - 1] \in Nat
                 /\ seqs[k] \in Seq(X) /\ Len(seqs[k]) \in Nat
                 /\ off[k] = off[k - 1] + Len(seqs[k])
<1>1. Len(seqs) \in Nat
  OBVIOUS
<1>2. off \in [0 .. Len(seqs) -> Nat]
  BY DEF Offsets
<1>3. \A k \in 0 .. Len(seqs) : off[k] \in Nat
  BY <1>2
<1>4. ASSUME NEW k \in 1 .. Len(seqs)
      PROVE  /\ k - 1 \in 0 .. Len(seqs) /\ off[k - 1] \in Nat
             /\ seqs[k] \in Seq(X) /\ Len(seqs[k]) \in Nat
             /\ off[k] = off[k - 1] + Len(seqs[k])
  <2>1. k - 1 \in 0 .. Len(seqs)
    BY <1>1
  <2>2. seqs[k] \in Seq(X)
    OBVIOUS
  <2>3. Len(seqs[k]) \in Nat
    BY <2>2
  <2>4. off[k] = off[k - 1] + Len(seqs[k])
    BY DEF Offsets
  <2>5. QED
    BY <1>3, <2>1, <2>2, <2>3, <2>4
<1>5. QED
  BY <1>1, <1>3, <1>4

LEMMA OffsetsGrow ==
    ASSUME NEW X, NEW seqs \in Seq(Seq(X)), NEW off, Offsets(off, seqs),
           NEW i \in 0 .. Len(seqs), NEW j \in i .. Len(seqs)
    PROVE  off[i] <= off[j]
<1> DEFINE S == {d \in Nat : i + d <= Len(seqs) => off[i] <= off[i + d]}
<1>1. Len(seqs) \in Nat /\ \A k \in 0 .. Len(seqs) : off[k] \in Nat
  BY OffsetFacts
<1>2. \A k \in 1 .. Len(seqs) :
         off[k] = off[k - 1] + Len(seqs[k]) /\ Len(seqs[k]) \in Nat /\ off[k - 1] \in Nat
  BY OffsetFacts
<1>3. 0 \in S
  BY <1>1
<1>4. ASSUME NEW d \in 0 .. Len(seqs), d \in S PROVE d + 1 \in S
  <2>1. SUFFICES ASSUME i + (d + 1) <= Len(seqs) PROVE off[i] <= off[i + (d + 1)]
    OBVIOUS
  <2> DEFINE k == i + (d + 1)
  <2>2. k \in 1 .. Len(seqs) /\ k - 1 = i + d /\ i + d \in 0 .. Len(seqs) /\ i + d <= Len(seqs)
    BY <1>1, <2>1
  <2>3. off[k] >= off[k - 1]
    <3> HIDE DEF k
    <3>1. off[k] = off[k - 1] + Len(seqs[k]) /\ Len(seqs[k]) \in Nat /\ off[k - 1] \in Nat
      BY <1>2, <2>2
    <3>2. QED
      BY <3>1
  <2>4. off[i] <= off[i + d] /\ off[k - 1] = off[i + d]
    BY <1>4, <2>2
  <2> HIDE DEF k
  <2>5. off[i] <= off[k]
    BY <1>1, <2>2, <2>3, <2>4
  <2>6. QED
    BY <2>5 DEF k
<1> HIDE DEF S
<1>5. 0 .. Len(seqs) \subseteq S
  BY <1>1, <1>3, <1>4, UpToBound
<1>6. j - i \in S
  BY <1>1, <1>5, SMTT(20)
<1>7. j - i \in Nat /\ i + (j - i) = j
  BY <1>1
<1>8. QED
  BY <1>1, <1>6, <1>7 DEF S

\* A place for each of a set in a sequence of n.
Arranges(place, D, n) ==
    /\ place \in [D -> 1 .. n]
    /\ \A x, y \in D : place[x] = place[y] => x = y
    /\ \A k \in 1 .. n : \E x \in D : place[x] = k

Places(seqs) == {x \in (1 .. Len(seqs)) \X Nat : x[2] \in 1 .. Len(seqs[x[1]])}

\* Every element of every sequence has a place of its own in the flattened one.
LEMMA FlatPlaces ==
    ASSUME NEW X, NEW seqs \in Seq(Seq(X))
    PROVE  /\ FlattenSeq(seqs) \in Seq(X)
           /\ \E place : /\ Arranges(place, Places(seqs), Len(FlattenSeq(seqs)))
                         /\ \A x \in Places(seqs) :
                               FlattenSeq(seqs)[place[x]] = seqs[x[1]][x[2]]
<1> DEFINE flat == FlattenSeq(seqs)
<1>1. PICK off : Offsets(off, seqs)
  BY OffsetsExist
<1>2. flat \in Seq(X) /\ Holds(flat, seqs, off, Len(seqs))
  BY <1>1, Flattening
<1> HIDE DEF flat
<1>3. /\ Len(seqs) \in Nat
      /\ \A k \in 0 .. Len(seqs) : off[k] \in Nat
      /\ \A k \in 1 .. Len(seqs) :
            off[k - 1] \in Nat /\ off[k] = off[k - 1] + Len(seqs[k]) /\ Len(seqs[k]) \in Nat
  BY <1>1, OffsetFacts
<1> DEFINE place == [x \in Places(seqs) |-> off[x[1] - 1] + x[2]]
<1>4. ASSUME NEW x \in Places(seqs)
      PROVE  /\ x[1] \in 1 .. Len(seqs) /\ x[2] \in Nat /\ x[2] \in 1 .. Len(seqs[x[1]])
             /\ x = <<x[1], x[2]>>
             /\ place[x] \in 1 .. Len(flat) /\ flat[place[x]] = seqs[x[1]][x[2]]
             /\ off[x[1] - 1] < place[x] /\ place[x] <= off[x[1]]
  <2>1. x[1] \in 1 .. Len(seqs) /\ x[2] \in Nat /\ x[2] \in 1 .. Len(seqs[x[1]]) /\ x = <<x[1], x[2]>>
    BY DEF Places
  <2>2. place[x] = off[x[1] - 1] + x[2]
    OBVIOUS
  <2>3. place[x] \in 1 .. Len(flat) /\ flat[place[x]] = seqs[x[1]][x[2]]
    BY <1>2, <2>1, <2>2 DEF Holds
  <2>4. /\ off[x[1] - 1] \in Nat /\ Len(seqs[x[1]]) \in Nat
        /\ off[x[1]] = off[x[1] - 1] + Len(seqs[x[1]])
    BY <1>3, <2>1
  <2>5. off[x[1] - 1] < place[x] /\ place[x] <= off[x[1]]
    <3> HIDE DEF place
    <3>1. QED
      BY <2>1, <2>2, <2>4
  <2>6. QED
    BY <2>1, <2>3, <2>5
<1>5. ASSUME NEW x \in Places(seqs), NEW y \in Places(seqs), x[1] < y[1]
      PROVE  place[x] < place[y]
  <2>1. x[1] \in 0 .. Len(seqs) /\ y[1] - 1 \in x[1] .. Len(seqs)
    BY <1>3, <1>4, <1>5, SMTT(20)
  <2>2. off[x[1]] <= off[y[1] - 1]
    BY <1>1, <2>1, OffsetsGrow
  <2>3. place[x] <= off[x[1]] /\ off[y[1] - 1] < place[y]
    BY <1>4
  <2>4. off[x[1]] \in Nat /\ off[y[1] - 1] \in Nat /\ place[x] \in Int /\ place[y] \in Int
    <3>1. place[x] \in 1 .. Len(flat) /\ place[y] \in 1 .. Len(flat)
      BY <1>4
    <3>2. y[1] - 1 \in 0 .. Len(seqs)
      BY <1>3, <2>1
    <3> HIDE DEF place
    <3>3. QED
      BY <1>3, <2>1, <3>1, <3>2
  <2> HIDE DEF place
  <2>5. QED
    BY <2>2, <2>3, <2>4
<1>6. ASSUME NEW x \in Places(seqs), NEW y \in Places(seqs), place[x] = place[y]
      PROVE  x = y
  <2>1. x[1] = y[1]
    <3>1. place[x] \in Int /\ ~(x[1] < y[1]) /\ ~(y[1] < x[1]) /\ x[1] \in Int /\ y[1] \in Int
      BY <1>4, <1>5, <1>6, SMTT(20)
    <3>2. QED
      BY <3>1
  <2>2. off[x[1] - 1] + x[2] = off[x[1] - 1] + y[2] /\ off[x[1] - 1] \in Nat
    BY <1>3, <1>4, <1>6, <2>1
  <2>3. x[2] = y[2]
    <3>1. x[2] \in Nat /\ y[2] \in Nat
      BY <1>4
    <3>2. QED
      BY <2>2, <3>1
  <2>4. x = <<x[1], x[2]>> /\ y = <<y[1], y[2]>>
    BY <1>4
  <2>5. QED
    BY <2>1, <2>3, <2>4
<1>7. ASSUME NEW k \in 1 .. Len(flat) PROVE \E x \in Places(seqs) : place[x] = k
  <2>1. PICK i \in 1 .. Len(seqs) : \E r \in 1 .. Len(seqs[i]) : k = off[i - 1] + r
    BY <1>2 DEF Holds
  <2>2. PICK r \in 1 .. Len(seqs[i]) : k = off[i - 1] + r
    BY <2>1
  <2>3. <<i, r>> \in Places(seqs)
    BY <1>3 DEF Places
  <2>4. QED
    BY <2>2, <2>3
<1>8. Arranges(place, Places(seqs), Len(flat))
  <2>1. place \in [Places(seqs) -> 1 .. Len(flat)]
    BY <1>4
  <2> HIDE DEF place
  <2>2. QED
    BY <1>6, <1>7, <2>1 DEF Arranges
<1>9. QED
  BY <1>2, <1>4, <1>8 DEF flat

LEMMA FlatSet ==
    ASSUME NEW X, NEW seqs \in Seq(Seq(X))
    PROVE  /\ FlattenSeq(seqs) \in Seq(X)
           /\ ToSet(FlattenSeq(seqs)) = UNION {ToSet(seqs[i]) : i \in 1 .. Len(seqs)}
<1> DEFINE flat == FlattenSeq(seqs)
<1>1. flat \in Seq(X)
  BY FlatPlaces
<1>2. PICK place : /\ Arranges(place, Places(seqs), Len(flat))
                   /\ \A x \in Places(seqs) : flat[place[x]] = seqs[x[1]][x[2]]
  BY FlatPlaces
<1> HIDE DEF flat
<1>3. DOMAIN flat = 1 .. Len(flat) /\ Len(seqs) \in Nat
  BY <1>1
<1>4. \A i \in 1 .. Len(seqs) : DOMAIN seqs[i] = 1 .. Len(seqs[i]) /\ Len(seqs[i]) \in Nat
  <2>1. \A i \in 1 .. Len(seqs) : seqs[i] \in Seq(X)
    OBVIOUS
  <2>2. QED
    BY <2>1
<1>5. ASSUME NEW v \in ToSet(flat) PROVE \E i \in 1 .. Len(seqs) : v \in ToSet(seqs[i])
  <2>1. PICK k \in 1 .. Len(flat) : v = flat[k]
    BY <1>3 DEF ToSet
  <2>2. PICK x \in Places(seqs) : place[x] = k
    BY <1>2 DEF Arranges
  <2>3. v = seqs[x[1]][x[2]] /\ x[1] \in 1 .. Len(seqs) /\ x[2] \in 1 .. Len(seqs[x[1]])
    BY <1>2, <2>1, <2>2 DEF Places
  <2>4. QED
    BY <1>4, <2>3 DEF ToSet
<1>6. ASSUME NEW i \in 1 .. Len(seqs), NEW v \in ToSet(seqs[i]) PROVE v \in ToSet(flat)
  <2>1. PICK r \in 1 .. Len(seqs[i]) : v = seqs[i][r]
    BY <1>4 DEF ToSet
  <2>2. <<i, r>> \in Places(seqs)
    BY <1>4, <2>1 DEF Places
  <2>3. flat[place[<<i, r>>]] = v /\ place[<<i, r>>] \in 1 .. Len(flat)
    BY <1>2, <2>1, <2>2 DEF Arranges
  <2>4. QED
    BY <1>3, <2>3 DEF ToSet
<1>7. QED
  <2>1. \A v : v \in ToSet(flat) <=> \E i \in 1 .. Len(seqs) : v \in ToSet(seqs[i])
    BY <1>5, <1>6
  <2>2. QED
    BY <1>1, <2>1 DEF flat

LEMMA JoinedSet ==
    ASSUME NEW X, NEW a \in Seq(X), NEW b \in Seq(X)
    PROVE  a \o b \in Seq(X) /\ ToSet(a \o b) = ToSet(a) \cup ToSet(b)
<1>1. /\ a \o b \in Seq(X) /\ Len(a \o b) = Len(a) + Len(b)
      /\ \A i \in 1 .. Len(a) : (a \o b)[i] = a[i]
      /\ \A i \in 1 .. Len(b) : (a \o b)[Len(a) + i] = b[i]
  OBVIOUS
<1>2. /\ DOMAIN a = 1 .. Len(a) /\ DOMAIN b = 1 .. Len(b) /\ Len(a) \in Nat /\ Len(b) \in Nat
      /\ DOMAIN (a \o b) = 1 .. Len(a) + Len(b)
  OBVIOUS
<1> DEFINE c == a \o b
<1>3. ASSUME NEW v \in ToSet(c) PROVE v \in ToSet(a) \cup ToSet(b)
  <2>1. PICK i \in 1 .. Len(a) + Len(b) : v = c[i]
    BY <1>2 DEF ToSet
  <2>2. CASE i <= Len(a)
    <3>1. i \in DOMAIN a /\ v = a[i]
      BY <1>1, <1>2, <2>1, <2>2
    <3>2. QED
      BY <3>1 DEF ToSet
  <2>3. CASE i > Len(a)
    <3>1. i - Len(a) \in 1 .. Len(b) /\ Len(a) + (i - Len(a)) = i
      BY <1>2, <2>3
    <3>2. i - Len(a) \in DOMAIN b /\ v = b[i - Len(a)]
      BY <1>1, <1>2, <2>1, <3>1
    <3>3. QED
      BY <3>2 DEF ToSet
  <2>4. QED
    BY <1>2, <2>2, <2>3
<1>4. ASSUME NEW v \in ToSet(a) \cup ToSet(b) PROVE v \in ToSet(c)
  <2> HIDE DEF c
  <2>1. CASE v \in ToSet(a)
    <3>1. PICK i \in 1 .. Len(a) : v = a[i]
      BY <1>2, <2>1 DEF ToSet
    <3>2. i \in DOMAIN c /\ c[i] = v
      BY <1>1, <1>2, <3>1 DEF c
    <3>3. QED
      BY <3>2 DEF ToSet
  <2>2. CASE v \in ToSet(b)
    <3>1. PICK i \in 1 .. Len(b) : v = b[i]
      BY <1>2, <2>2 DEF ToSet
    <3>2. Len(a) + i \in DOMAIN c /\ c[Len(a) + i] = v
      BY <1>1, <1>2, <3>1 DEF c
    <3>3. QED
      BY <3>2 DEF ToSet
  <2>3. QED
    BY <2>1, <2>2
<1>5. QED
  <2>1. \A v : v \in ToSet(c) <=> v \in ToSet(a) \cup ToSet(b)
    BY <1>3, <1>4
  <2> HIDE DEF c
  <2>2. ToSet(c) = ToSet(a) \cup ToSet(b)
    BY <2>1
  <2>3. QED
    BY <1>1, <2>2 DEF c

LEMMA NoMore ==
    ASSUME NEW S, NEW T, IsFiniteSet(T), NEW f \in [S -> T], \A x, y \in S : f[x] = f[y] => x = y
    PROVE  IsFiniteSet(S) /\ Cardinality(S) <= Cardinality(T)
<1>1. f \in Injection(S, T)
  BY DEF Injection, IsInjective
<1>2. QED
  BY <1>1, FS_Injection

-----------------------------------------------------------------------------
(* Keep. *)

KeepsAt(place, seq, kept) ==
    /\ Arranges(place, {i \in 1 .. Len(seq) : seq[i] \in kept}, Len(Keep(seq, kept)))
    /\ \A i \in 1 .. Len(seq) : seq[i] \in kept => Keep(seq, kept)[place[i]] = seq[i]

LEMMA Kept ==
    ASSUME NEW X, NEW seq \in Seq(X), NEW kept
    PROVE  Keep(seq, kept) \in Seq(X) /\ \E place : KeepsAt(place, seq, kept)
<1> DEFINE parts == [i \in 1 .. Len(seq) |-> IF seq[i] \in kept THEN <<seq[i]>> ELSE <<>>]
           mine == {i \in 1 .. Len(seq) : seq[i] \in kept}
<1>1. Len(seq) \in Nat /\ DOMAIN seq = 1 .. Len(seq) /\ \A i \in 1 .. Len(seq) : seq[i] \in X
  OBVIOUS
<1>2. Keep(seq, kept) = FlattenSeq(parts)
  BY <1>1 DEF Keep
<1>3. parts \in Seq(Seq(X)) /\ Len(parts) = Len(seq)
  <2>1. parts \in [1 .. Len(seq) -> Seq(X)]
    BY <1>1
  <2> HIDE DEF parts
  <2>2. QED
    BY <1>1, <2>1, SeqDef
<1>4. ASSUME NEW i \in 1 .. Len(seq)
      PROVE  /\ i \in mine => Len(parts[i]) = 1 /\ parts[i][1] = seq[i]
             /\ i \notin mine => Len(parts[i]) = 0
  BY <1>1
<1>5. PICK place : /\ Arranges(place, Places(parts), Len(FlattenSeq(parts)))
                   /\ \A x \in Places(parts) : FlattenSeq(parts)[place[x]] = parts[x[1]][x[2]]
  BY <1>3, FlatPlaces
<1>6. FlattenSeq(parts) \in Seq(X)
  BY <1>3, FlatPlaces
<1>7. \A i \in mine : <<i, 1>> \in Places(parts)
  BY <1>3, <1>4 DEF Places
<1>8. ASSUME NEW x \in Places(parts) PROVE x[1] \in mine /\ x = <<x[1], 1>>
  <2>1. x = <<x[1], x[2]>> /\ x[1] \in 1 .. Len(seq) /\ x[2] \in Nat /\ x[2] \in 1 .. Len(parts[x[1]])
    BY <1>3 DEF Places
  <2>2. x[1] \in mine
    BY <1>4, <2>1
  <2>3. x[2] = 1
    BY <1>4, <2>1, <2>2
  <2>4. QED
    BY <2>1, <2>2, <2>3
<1> DEFINE at == [i \in mine |-> place[<<i, 1>>]]
<1>9. Arranges(at, mine, Len(FlattenSeq(parts)))
  <2> HIDE DEF parts, mine
  <2>1. at \in [mine -> 1 .. Len(FlattenSeq(parts))]
    BY <1>5, <1>7 DEF Arranges
  <2>2. ASSUME NEW i \in mine, NEW j \in mine, at[i] = at[j] PROVE i = j
    <3>1. <<i, 1>> = <<j, 1>>
      BY <1>5, <1>7, <2>2 DEF Arranges
    <3>2. QED
      BY <3>1
  <2>3. ASSUME NEW k \in 1 .. Len(FlattenSeq(parts)) PROVE \E i \in mine : at[i] = k
    <3>1. PICK x \in Places(parts) : place[x] = k
      BY <1>5 DEF Arranges
    <3>2. QED
      BY <1>8, <3>1
  <2> HIDE DEF at
  <2>4. QED
    BY <2>1, <2>2, <2>3 DEF Arranges
<1>10. \A i \in mine : FlattenSeq(parts)[at[i]] = seq[i]
  <2>1. ASSUME NEW i \in mine PROVE FlattenSeq(parts)[at[i]] = seq[i]
    <3>1. FlattenSeq(parts)[place[<<i, 1>>]] = parts[i][1]
      BY <1>5, <1>7
    <3>2. QED
      BY <1>4, <3>1
  <2>2. QED
    BY <2>1
<1> HIDE DEF at, parts
<1>11. KeepsAt(at, seq, kept)
  BY <1>2, <1>9, <1>10 DEF KeepsAt
<1>12. QED
  BY <1>2, <1>6, <1>11

\* The elements that Keep keeps.
LEMMA KeptSet ==
    ASSUME NEW X, NEW seq \in Seq(X), NEW kept
    PROVE  ToSet(Keep(seq, kept)) = {x \in ToSet(seq) : x \in kept}
<1> DEFINE only == Keep(seq, kept)
<1>1. PICK place : KeepsAt(place, seq, kept)
  BY Kept
<1>2. only \in Seq(X)
  BY Kept
<1>3. DOMAIN only = 1 .. Len(only) /\ DOMAIN seq = 1 .. Len(seq)
  BY <1>2
<1> HIDE DEF only
<1>4. ASSUME NEW x \in ToSet(only) PROVE x \in ToSet(seq) /\ x \in kept
  <2>1. PICK k \in 1 .. Len(only) : x = only[k]
    BY <1>3 DEF ToSet
  <2>2. PICK i \in 1 .. Len(seq) : seq[i] \in kept /\ place[i] = k
    BY <1>1 DEF KeepsAt, Arranges, only
  <2>3. QED
    BY <1>1, <1>3, <2>1, <2>2 DEF ToSet, KeepsAt, only
<1>5. ASSUME NEW x \in ToSet(seq), x \in kept PROVE x \in ToSet(only)
  <2>1. PICK i \in 1 .. Len(seq) : x = seq[i]
    BY <1>3 DEF ToSet
  <2>2. place[i] \in 1 .. Len(only) /\ only[place[i]] = x
    BY <1>1, <1>5, <2>1 DEF KeepsAt, Arranges, only
  <2>3. QED
    BY <1>3, <2>2 DEF ToSet
<1>6. ToSet(only) = {x \in ToSet(seq) : x \in kept}
  BY <1>4, <1>5
<1>7. QED
  BY <1>6 DEF only

-----------------------------------------------------------------------------
(* ByStart. *)

IsSorting(order, keys, n) ==
    \A i, j \in 1 .. n : i < j => \/ keys[order[i]] < keys[order[j]]
                                  \/ keys[order[i]] = keys[order[j]] /\ order[i] < order[j]

\* One more is put before the first that is greater.
LEMMA SortingInserts ==
    ASSUME NEW m \in Nat, NEW keys, \A k \in 1 .. m + 1 : keys[k] \in Int,
           NEW order \in [1 .. m -> 1 .. m], IsSorting(order, keys, m)
    PROVE  \E more \in [1 .. m + 1 -> 1 .. m + 1] : IsSorting(more, keys, m + 1)
<1> DEFINE n == m + 1
           last == keys[n]
           at == [p \in 1 .. m |-> keys[order[p]]]
           greater == {p \in 1 .. m : last < at[p]}
<1>1. /\ n \in Nat /\ n = m + 1 /\ last \in Int
      /\ \A p \in 1 .. m : at[p] \in Int /\ order[p] \in 1 .. m /\ at[p] = keys[order[p]]
  OBVIOUS
<1>2. \A a, b \in 1 .. m : a < b => at[a] < at[b] \/ (at[a] = at[b] /\ order[a] < order[b])
  BY <1>1 DEF IsSorting
<1> HIDE DEF at, last, n
<1>3. PICK q \in 1 .. n : /\ \A p \in 1 .. m : p < q => at[p] <= last
                          /\ \A p \in 1 .. m : q <= p => last < at[p]
  <2>1. CASE greater = {}
    <3>1. ASSUME NEW p \in 1 .. m PROVE at[p] <= last
      <4>1. ~(last < at[p]) /\ at[p] \in Int
        BY <1>1, <2>1
      <4>2. QED
        BY <1>1, <4>1
    <3>2. n \in 1 .. n /\ \A p \in 1 .. m : ~(n <= p)
      BY <1>1
    <3>3. QED
      BY <3>1, <3>2
  <2>2. CASE greater # {}
    <3>1. greater \in SUBSET Nat
      OBVIOUS
    <3>2. PICK q \in greater : \A p \in greater : q <= p
      <4> HIDE DEF greater
      <4>1. QED
        BY <2>2, <3>1, Smallest
    <3>3. q \in 1 .. m /\ last < at[q] /\ q \in 1 .. n
      BY <1>1, <3>2
    <3>4. ASSUME NEW p \in 1 .. m, p < q PROVE at[p] <= last
      <4>1. p \notin greater
        BY <3>2, <3>3, <3>4
      <4>2. ~(last < at[p]) /\ at[p] \in Int
        BY <1>1, <4>1
      <4>3. QED
        BY <1>1, <4>2
    <3>5. ASSUME NEW p \in 1 .. m, q <= p PROVE last < at[p]
      <4>1. p = q \/ at[q] <= at[p]
        <5>1. p = q \/ q < p
          BY <3>3, <3>5
        <5>2. at[p] \in Int /\ at[q] \in Int
          BY <1>1, <3>3
        <5>3. q < p => at[q] < at[p] \/ at[q] = at[p]
          BY <1>2, <3>3
        <5>4. QED
          BY <5>1, <5>2, <5>3
      <4>2. at[p] \in Int /\ at[q] \in Int
        BY <1>1, <3>3
      <4>3. QED
        BY <1>1, <3>3, <4>1, <4>2, SMTT(20)
    <3>6. QED
      BY <3>3, <3>4, <3>5
  <2>3. QED
    BY <2>1, <2>2
<1> HIDE DEF greater
<1> DEFINE more == [i \in 1 .. n |-> IF i < q THEN order[i]
                                     ELSE IF i = q THEN n ELSE order[i - 1]]
<1>4. ASSUME NEW i \in 1 .. n
      PROVE  /\ i < q => i \in 1 .. m /\ more[i] = order[i]
             /\ i = q => more[i] = n
             /\ q < i => i - 1 \in 1 .. m /\ q <= i - 1 /\ more[i] = order[i - 1]
             /\ i < q \/ i = q \/ q < i
  BY <1>1
<1>5. more \in [1 .. n -> 1 .. n]
  <2>1. ASSUME NEW i \in 1 .. n PROVE more[i] \in 1 .. n
    <3>1. \A p \in 1 .. m : order[p] \in 1 .. n
      BY <1>1
    <3>2. n \in 1 .. n
      BY <1>1
    <3> HIDE DEF more
    <3>3. QED
      BY <1>4, <3>1, <3>2
  <2>2. QED
    BY <2>1
<1> HIDE DEF more
<1>6. ASSUME NEW i \in 1 .. n, NEW j \in 1 .. n, i < j
      PROVE  \/ keys[more[i]] < keys[more[j]]
             \/ keys[more[i]] = keys[more[j]] /\ more[i] < more[j]
  <2>1. CASE j < q
    <3>1. i < q /\ i \in 1 .. m /\ j \in 1 .. m /\ more[i] = order[i] /\ more[j] = order[j]
      <4>1. i < q
        BY <1>6, <2>1
      <4>2. QED
        BY <1>4, <2>1, <4>1
    <3>2. QED
      BY <1>1, <1>2, <1>6, <3>1
  <2>2. CASE j = q
    <3>1. i \in 1 .. m /\ more[i] = order[i] /\ more[j] = n /\ at[i] <= last
      BY <1>3, <1>4, <1>6, <2>2
    <3>2. order[i] < n /\ at[i] \in Int /\ at[i] = keys[order[i]]
      <4>1. order[i] \in 1 .. m /\ at[i] \in Int /\ at[i] = keys[order[i]]
        BY <1>1, <3>1
      <4>2. QED
        BY <1>1, <4>1
    <3>3. at[i] < last \/ at[i] = last
      BY <1>1, <3>1, <3>2
    <3>4. last = keys[more[j]] /\ keys[more[i]] = at[i] /\ more[i] < more[j]
      BY <3>1, <3>2 DEF last
    <3>5. QED
      BY <3>3, <3>4
  <2>3. CASE q < j
    <3>1. j - 1 \in 1 .. m /\ q <= j - 1 /\ more[j] = order[j - 1]
      BY <1>4, <2>3
    <3> DEFINE b == j - 1
    <3>2. b \in 1 .. m /\ q <= b /\ more[j] = order[b] /\ j = b + 1
      BY <3>1
    <3> HIDE DEF b
    <3>3. CASE i < q
      <4>1. i \in 1 .. m /\ more[i] = order[i]
        BY <1>4, <3>3
      <4>2. i < b
        BY <3>2, <3>3
      <4>3. QED
        BY <1>1, <1>2, <3>2, <4>1, <4>2
    <3>4. CASE i = q
      <4>1. more[i] = n /\ last < at[b] /\ at[b] = keys[order[b]]
        BY <1>1, <1>3, <1>4, <3>2, <3>4
      <4>2. keys[more[i]] = last
        BY <4>1 DEF last
      <4>3. QED
        BY <3>2, <4>1, <4>2
    <3>5. CASE q < i
      <4> DEFINE a == i - 1
      <4>1. a \in 1 .. m /\ more[i] = order[a] /\ a < b
        <5>1. i - 1 \in 1 .. m /\ more[i] = order[i - 1]
          BY <1>4, <3>5
        <5>2. i - 1 < b
          BY <1>6, <3>2
        <5>3. QED
          BY <5>1, <5>2
      <4> HIDE DEF a
      <4>2. QED
        BY <1>1, <1>2, <3>2, <4>1
    <3>6. QED
      BY <1>4, <3>3, <3>4, <3>5
  <2>4. QED
    BY <1>4, <2>1, <2>2, <2>3
<1>7. IsSorting(more, keys, n)
  BY <1>6 DEF IsSorting
<1>8. QED
  BY <1>5, <1>7 DEF n

LEMMA SortingExists ==
    ASSUME NEW n \in Nat, NEW keys, \A k \in 1 .. n : keys[k] \in Int
    PROVE  \E order \in [1 .. n -> 1 .. n] : IsSorting(order, keys, n)
<1> DEFINE S == {m \in Nat : m <= n => \E order \in [1 .. m -> 1 .. m] : IsSorting(order, keys, m)}
<1>1. 0 \in S
  <2>1. [i \in 1 .. 0 |-> i] \in [1 .. 0 -> 1 .. 0] /\ IsSorting([i \in 1 .. 0 |-> i], keys, 0)
    BY DEF IsSorting
  <2>2. QED
    BY <2>1
<1>2. ASSUME NEW m \in 0 .. n, m \in S, m < n PROVE m + 1 \in S
  <2>1. PICK order \in [1 .. m -> 1 .. m] : IsSorting(order, keys, m)
    BY <1>2
  <2>2. m \in Nat /\ \A k \in 1 .. m + 1 : keys[k] \in Int
    BY <1>2
  <2>3. \E more \in [1 .. m + 1 -> 1 .. m + 1] : IsSorting(more, keys, m + 1)
    BY <2>1, <2>2, SortingInserts
  <2> DEFINE next == m + 1
  <2>0. next \in Nat
    BY <2>2
  <2>4. \E more \in [1 .. next -> 1 .. next] : IsSorting(more, keys, next)
    BY <2>2, <2>3, Zenon
  <2> HIDE DEF next
  <2>5. next \in S
    BY <2>0, <2>4
  <2>6. QED
    BY <2>5 DEF next
<1> HIDE DEF S
<1>3. 0 .. n \subseteq S
  <2>1. \A m \in 0 .. n : m \in S /\ m < n => m + 1 \in S
    BY <1>2
  <2>2. QED
    BY <1>1, <2>1, UpToBound
<1>4. n \in S
  BY <1>3
<1>5. QED
  BY <1>4 DEF S

\* The vector sorted has the same elements, each as often.
LEMMA Sorted ==
    ASSUME NEW X, NEW seq \in Seq(X), \A x \in X : x.start \in Int
    PROVE  /\ ByStart(seq) \in Seq(X) /\ Len(ByStart(seq)) = Len(seq)
           /\ \A i, j \in 1 .. Len(seq) : i < j => ByStart(seq)[i].start <= ByStart(seq)[j].start
           /\ \E place : /\ Arranges(place, 1 .. Len(seq), Len(seq))
                         /\ \A i \in 1 .. Len(seq) : ByStart(seq)[place[i]] = seq[i]
<1> DEFINE n == Len(seq)
           keys == [i \in 1 .. n |-> seq[i].start]
           order == StartOrder(seq)
<1>1. n \in Nat /\ DOMAIN seq = 1 .. n /\ \A i \in 1 .. n : seq[i] \in X /\ keys[i] \in Int
  OBVIOUS
<1>2. \E f \in [1 .. n -> 1 .. n] : IsSorting(f, keys, n)
  <2> HIDE DEF keys, n
  <2>1. QED
    BY <1>1, SortingExists
<1>3. order \in [1 .. n -> 1 .. n] /\ IsSorting(order, keys, n)
  <2>1. \E f \in [1 .. n -> 1 .. n] :
           \A i, j \in 1 .. n :
              i < j => \/ seq[f[i]].start < seq[f[j]].start
                       \/ seq[f[i]].start = seq[f[j]].start /\ f[i] < f[j]
    BY <1>2 DEF IsSorting
  <2>2. order = CHOOSE f \in [1 .. n -> 1 .. n] :
                   \A i, j \in 1 .. n :
                      i < j => \/ seq[f[i]].start < seq[f[j]].start
                               \/ seq[f[i]].start = seq[f[j]].start /\ f[i] < f[j]
    BY <1>1 DEF StartOrder
  <2> HIDE DEF order, n
  <2>3. /\ order \in [1 .. n -> 1 .. n]
        /\ \A i, j \in 1 .. n :
              i < j => \/ seq[order[i]].start < seq[order[j]].start
                       \/ seq[order[i]].start = seq[order[j]].start /\ order[i] < order[j]
    BY <2>1, <2>2
  <2>4. QED
    BY <2>3 DEF IsSorting
<1> HIDE DEF order
<1>4. ByStart(seq) = [i \in 1 .. n |-> seq[order[i]]]
  BY <1>1 DEF ByStart, order
<1>5. ByStart(seq) \in Seq(X) /\ Len(ByStart(seq)) = n
  <2>1. ByStart(seq) \in [1 .. n -> X]
    BY <1>1, <1>3, <1>4
  <2> HIDE DEF n
  <2>2. QED
    BY <1>1, <2>1, SeqDef
<1>6. ASSUME NEW i \in 1 .. n, NEW j \in 1 .. n, i < j
      PROVE  ByStart(seq)[i].start <= ByStart(seq)[j].start
  <2>1. order[i] \in 1 .. n /\ order[j] \in 1 .. n
    BY <1>3
  <2>2. keys[order[i]] \in Int /\ keys[order[j]] \in Int
    BY <1>1, <2>1
  <2>3. keys[order[i]] < keys[order[j]] \/ keys[order[i]] = keys[order[j]]
    <3> HIDE DEF keys, n
    <3>1. QED
      BY <1>3, <1>6 DEF IsSorting
  <2>4. /\ ByStart(seq)[i].start = keys[order[i]]
        /\ ByStart(seq)[j].start = keys[order[j]]
    BY <1>4, <2>1
  <2> HIDE DEF keys
  <2>5. QED
    BY <2>2, <2>3, <2>4
<1>7. \A i, j \in 1 .. n : order[i] = order[j] => i = j
  <2>1. ASSUME NEW i \in 1 .. n, NEW j \in 1 .. n, i < j PROVE order[i] # order[j]
    <3>1. /\ order[i] \in 1 .. n /\ order[j] \in 1 .. n
          /\ keys[order[i]] \in Int /\ keys[order[j]] \in Int
      BY <1>1, <1>3
    <3> HIDE DEF keys, n
    <3>2. \/ keys[order[i]] < keys[order[j]]
          \/ keys[order[i]] = keys[order[j]] /\ order[i] < order[j]
      BY <1>3, <2>1 DEF IsSorting
    <3>3. order[i] \in Int /\ order[j] \in Int
      BY <1>1, <3>1
    <3>4. QED
      BY <3>1, <3>2, <3>3
  <2>2. QED
    BY <1>1, <2>1
<1>8. \A k \in 1 .. n : \E i \in 1 .. n : order[i] = k
  <2>1. order \in Injection(1 .. n, 1 .. n)
    BY <1>3, <1>7 DEF Injection, IsInjective
  <2>2. IsFiniteSet(1 .. n)
    BY <1>1, FS_Interval
  <2>3. order \in Surjection(1 .. n, 1 .. n)
    BY <2>1, <2>2, FS_Injection
  <2>4. QED
    BY <2>3 DEF Surjection
<1> DEFINE place == [k \in 1 .. n |-> CHOOSE i \in 1 .. n : order[i] = k]
<1>9. \A k \in 1 .. n : place[k] \in 1 .. n /\ order[place[k]] = k
  BY <1>8
<1> HIDE DEF place
<1>10. Arranges(place, 1 .. n, n)
  <2>1. place \in [1 .. n -> 1 .. n]
    BY <1>9 DEF place
  <2>2. \A i, j \in 1 .. n : place[i] = place[j] => i = j
    BY <1>9
  <2>3. \A k \in 1 .. n : \E i \in 1 .. n : place[i] = k
    <3>1. ASSUME NEW k \in 1 .. n PROVE place[order[k]] = k
      <4>1. order[k] \in 1 .. n
        BY <1>3
      <4>2. order[place[order[k]]] = order[k] /\ place[order[k]] \in 1 .. n
        BY <1>9, <4>1
      <4>3. QED
        BY <1>7, <4>2
    <3>2. QED
      BY <1>3, <3>1
  <2>4. QED
    BY <2>1, <2>2, <2>3 DEF Arranges
<1>11. \A i \in 1 .. n : ByStart(seq)[place[i]] = seq[i]
  BY <1>4, <1>9
<1>12. QED
  BY <1>5, <1>6, <1>10, <1>11

-----------------------------------------------------------------------------
(* A sequence that lists the values of a function, each argument's once. *)

Lists(seq, f) ==
    \E place : /\ Arranges(place, DOMAIN f, Len(seq))
               /\ \A x \in DOMAIN f : seq[place[x]] = f[x]

\* One arrangement after another.
LEMMA Rearranged ==
    ASSUME NEW p, NEW q, NEW D, NEW E, NEW n, NEW m,
           Arranges(p, D, n), Arranges(q, E, m), \A e \in E : e \in 1 .. n,
           NEW kept, kept = {x \in D : p[x] \in E},
           NEW r, r = [x \in kept |-> q[p[x]]]
    PROVE  Arranges(r, kept, m)
<1>1. r \in [kept -> 1 .. m]
  BY DEF Arranges
<1>2. ASSUME NEW x \in kept, NEW y \in kept, r[x] = r[y] PROVE x = y
  BY <1>2 DEF Arranges
<1>3. ASSUME NEW k \in 1 .. m PROVE \E x \in kept : r[x] = k
  <2>1. PICK e \in E : q[e] = k
    BY DEF Arranges
  <2>2. PICK x \in D : p[x] = e
    BY <2>1 DEF Arranges
  <2>3. QED
    BY <2>1, <2>2
<1>4. QED
  BY <1>1, <1>2, <1>3 DEF Arranges

LEMMA ListsFlat ==
    ASSUME NEW X, NEW seqs \in Seq(Seq(X)), NEW f, DOMAIN f = Places(seqs),
           \A x \in Places(seqs) : f[x] = seqs[x[1]][x[2]]
    PROVE  FlattenSeq(seqs) \in Seq(X) /\ Lists(FlattenSeq(seqs), f)
<1>1. PICK place : /\ Arranges(place, Places(seqs), Len(FlattenSeq(seqs)))
                   /\ \A x \in Places(seqs) : FlattenSeq(seqs)[place[x]] = seqs[x[1]][x[2]]
  BY FlatPlaces
<1>2. QED
  BY <1>1, FlatPlaces, SMTT(20) DEF Lists

LEMMA ListsKept ==
    ASSUME NEW X, NEW seq \in Seq(X), NEW f, Lists(seq, f), NEW kept,
           NEW g, DOMAIN g = {x \in DOMAIN f : f[x] \in kept}, \A x \in DOMAIN g : g[x] = f[x]
    PROVE  Keep(seq, kept) \in Seq(X) /\ Lists(Keep(seq, kept), g)
<1>1. PICK p : Arranges(p, DOMAIN f, Len(seq)) /\ \A x \in DOMAIN f : seq[p[x]] = f[x]
  BY DEF Lists
<1>2. PICK q : KeepsAt(q, seq, kept)
  BY Kept
<1> DEFINE E == {i \in 1 .. Len(seq) : seq[i] \in kept}
           D == {x \in DOMAIN f : p[x] \in E}
           r == [x \in D |-> q[p[x]]]
<1>3. Arranges(r, D, Len(Keep(seq, kept)))
  <2>1. Arranges(q, E, Len(Keep(seq, kept))) /\ \A e \in E : e \in 1 .. Len(seq)
    BY <1>2 DEF KeepsAt
  <2>2. D = {x \in DOMAIN f : p[x] \in E} /\ r = [x \in D |-> q[p[x]]]
    OBVIOUS
  <2> HIDE DEF E, D, r
  <2>3. QED
    BY <1>1, <2>1, <2>2, Rearranged
<1>4. \A x \in DOMAIN f : p[x] \in 1 .. Len(seq)
  BY <1>1 DEF Arranges
<1>5. D = DOMAIN g
  BY <1>1, <1>4
<1>6. ASSUME NEW x \in D PROVE Keep(seq, kept)[r[x]] = g[x]
  BY <1>1, <1>2, <1>4, <1>5 DEF KeepsAt
<1> HIDE DEF r, D
<1>7. QED
  BY <1>3, <1>5, <1>6, Kept DEF Lists

LEMMA ListsSorted ==
    ASSUME NEW X, NEW seq \in Seq(X), \A x \in X : x.start \in Int, NEW f, Lists(seq, f)
    PROVE  Lists(ByStart(seq), f)
<1>1. PICK p : Arranges(p, DOMAIN f, Len(seq)) /\ \A x \in DOMAIN f : seq[p[x]] = f[x]
  BY DEF Lists
<1>2. Len(ByStart(seq)) = Len(seq)
  BY Sorted
<1>3. \E place : /\ Arranges(place, 1 .. Len(seq), Len(seq))
                 /\ \A i \in 1 .. Len(seq) : ByStart(seq)[place[i]] = seq[i]
  BY Sorted, Zenon
<1>4. PICK q : /\ Arranges(q, 1 .. Len(seq), Len(seq))
               /\ \A i \in 1 .. Len(seq) : ByStart(seq)[q[i]] = seq[i]
  BY <1>3
<1> DEFINE D == {x \in DOMAIN f : p[x] \in 1 .. Len(seq)}
           r == [x \in D |-> q[p[x]]]
<1>5. Arranges(r, D, Len(seq))
  <2>1. D = {x \in DOMAIN f : p[x] \in 1 .. Len(seq)} /\ r = [x \in D |-> q[p[x]]]
    OBVIOUS
  <2> HIDE DEF D, r
  <2>2. QED
    BY <1>1, <1>4, <2>1, Rearranged
<1>6. D = DOMAIN f /\ \A x \in DOMAIN f : p[x] \in 1 .. Len(seq)
  BY <1>1 DEF Arranges
<1>7. \A x \in D : ByStart(seq)[r[x]] = f[x]
  BY <1>1, <1>4, <1>6
<1> HIDE DEF r, D
<1>8. QED
  BY <1>2, <1>5, <1>6, <1>7 DEF Lists

\* Two vectors, element by element.
LEMMA ListsMapped ==
    ASSUME NEW seq, NEW f, Lists(seq, f), NEW other, NEW g, Len(other) = Len(seq), DOMAIN g = DOMAIN f,
           \A i \in 1 .. Len(seq) : \A x \in DOMAIN f : seq[i] = f[x] => other[i] = g[x]
    PROVE  Lists(other, g)
<1>1. PICK p : Arranges(p, DOMAIN f, Len(seq)) /\ \A x \in DOMAIN f : seq[p[x]] = f[x]
  BY DEF Lists
<1>2. \A x \in DOMAIN f : p[x] \in 1 .. Len(seq)
  BY <1>1 DEF Arranges
<1>3. \A x \in DOMAIN g : other[p[x]] = g[x]
  BY <1>1, <1>2
<1>4. QED
  BY <1>1, <1>3 DEF Lists

Joins(h, f, g) == /\ DOMAIN h = ({1} \X DOMAIN f) \cup ({2} \X DOMAIN g)
                  /\ \A x \in DOMAIN f : h[<<1, x>>] = f[x]
                  /\ \A x \in DOMAIN g : h[<<2, x>>] = g[x]

\* One vector after another.
LEMMA ListsJoined ==
    ASSUME NEW X, NEW a \in Seq(X), NEW b \in Seq(X), NEW f, NEW g, NEW h,
           Lists(a, f), Lists(b, g), Joins(h, f, g)
    PROVE  a \o b \in Seq(X) /\ Lists(a \o b, h)
<1> USE DEF Joins
<1>1. PICK p : Arranges(p, DOMAIN f, Len(a)) /\ \A x \in DOMAIN f : a[p[x]] = f[x]
  BY DEF Lists
<1>2. PICK q : Arranges(q, DOMAIN g, Len(b)) /\ \A x \in DOMAIN g : b[q[x]] = g[x]
  BY DEF Lists
<1> DEFINE ab == a \o b
           r == [x \in DOMAIN h |-> IF x[1] = 1 THEN p[x[2]] ELSE Len(a) + q[x[2]]]
<1>3. /\ ab \in Seq(X) /\ Len(ab) = Len(a) + Len(b)
      /\ \A m \in 1 .. Len(a) + Len(b) : ab[m] = IF m <= Len(a) THEN a[m] ELSE b[m - Len(a)]
  BY ConcatProperties
<1>4. Len(a) \in Nat /\ Len(b) \in Nat
  OBVIOUS
<1> HIDE DEF ab
<1>5. ASSUME NEW x \in DOMAIN f
      PROVE  /\ <<1, x>> \in DOMAIN h /\ r[<<1, x>>] = p[x] /\ p[x] \in 1 .. Len(a)
             /\ ab[p[x]] = h[<<1, x>>]
  <2>1. p[x] \in 1 .. Len(a)
    BY <1>1 DEF Arranges
  <2>2. p[x] \in 1 .. Len(a) + Len(b) /\ p[x] <= Len(a)
    BY <1>4, <2>1
  <2>3. QED
    BY <1>1, <1>3, <2>1, <2>2
<1>6. ASSUME NEW x \in DOMAIN g
      PROVE  /\ <<2, x>> \in DOMAIN h /\ r[<<2, x>>] = Len(a) + q[x] /\ q[x] \in 1 .. Len(b)
             /\ ab[Len(a) + q[x]] = h[<<2, x>>]
  <2>1. q[x] \in 1 .. Len(b)
    BY <1>2 DEF Arranges
  <2> DEFINE m == Len(a) + q[x]
  <2>2. m \in 1 .. Len(a) + Len(b) /\ ~(m <= Len(a)) /\ m - Len(a) = q[x]
    BY <1>4, <2>1
  <2> HIDE DEF m
  <2>3. ab[m] = b[q[x]]
    BY <1>3, <2>2
  <2>4. QED
    BY <1>2, <2>1, <2>3 DEF m
<1> HIDE DEF r
<1>7. ASSUME NEW x \in DOMAIN h PROVE \/ \E y \in DOMAIN f : x = <<1, y>>
                                      \/ \E y \in DOMAIN g : x = <<2, y>>
  OBVIOUS
<1>8. \A x \in DOMAIN h : r[x] \in 1 .. Len(ab) /\ ab[r[x]] = h[x]
  <2>1. ASSUME NEW x \in DOMAIN h PROVE r[x] \in 1 .. Len(ab) /\ ab[r[x]] = h[x]
    <3>1. CASE \E y \in DOMAIN f : x = <<1, y>>
      BY <1>3, <1>4, <1>5, <3>1
    <3>2. CASE \E y \in DOMAIN g : x = <<2, y>>
      BY <1>3, <1>4, <1>6, <3>2
    <3>3. QED
      BY <1>7, <3>1, <3>2
  <2>2. QED
    BY <2>1
<1>9. ASSUME NEW x \in DOMAIN h, NEW y \in DOMAIN h, r[x] = r[y] PROVE x = y
  <2>1. CASE \E v, w \in DOMAIN f : x = <<1, v>> /\ y = <<1, w>>
    BY <1>1, <1>5, <1>9, <2>1 DEF Arranges
  <2>2. CASE \E v, w \in DOMAIN g : x = <<2, v>> /\ y = <<2, w>>
    <3>1. PICK v \in DOMAIN g, w \in DOMAIN g : x = <<2, v>> /\ y = <<2, w>>
      BY <2>2
    <3>2. Len(a) + q[v] = Len(a) + q[w] /\ q[v] \in Int /\ q[w] \in Int
      BY <1>6, <1>9, <3>1
    <3>3. q[v] = q[w]
      BY <1>4, <3>2
    <3>4. QED
      BY <1>2, <3>1, <3>3 DEF Arranges
  <2>3. ASSUME NEW v \in DOMAIN f, NEW w \in DOMAIN g PROVE r[<<1, v>>] # r[<<2, w>>]
    BY <1>4, <1>5, <1>6
  <2>4. QED
    BY <1>7, <1>9, <2>1, <2>2, <2>3
<1>10. ASSUME NEW k \in 1 .. Len(ab) PROVE \E x \in DOMAIN h : r[x] = k
  <2>1. CASE k <= Len(a)
    <3>1. k \in 1 .. Len(a)
      BY <1>3, <1>4, <2>1
    <3>2. PICK x \in DOMAIN f : p[x] = k
      BY <1>1, <3>1 DEF Arranges
    <3>3. QED
      BY <1>5, <3>2
  <2>2. CASE Len(a) < k
    <3>1. k - Len(a) \in 1 .. Len(b)
      BY <1>3, <1>4, <2>2
    <3>2. PICK x \in DOMAIN g : q[x] = k - Len(a)
      BY <1>2, <3>1 DEF Arranges
    <3>3. Len(a) + q[x] = k
      BY <1>3, <1>4, <3>2
    <3>4. QED
      BY <1>6, <3>3
  <2>3. QED
    BY <1>3, <1>4, <2>1, <2>2
<1>11. Arranges(r, DOMAIN h, Len(ab))
  <2>1. r \in [DOMAIN h -> 1 .. Len(ab)]
    BY <1>8 DEF r
  <2>2. QED
    BY <1>9, <1>10, <2>1 DEF Arranges
<1>12. Lists(ab, h)
  BY <1>8, <1>11 DEF Lists
<1>13. QED
  BY <1>3, <1>12 DEF ab

\* Where the vector holds what the function has, and nowhere else.
LEMMA ListsSet ==
    ASSUME NEW X, NEW seq \in Seq(X), NEW f, Lists(seq, f)
    PROVE  ToSet(seq) = {f[x] : x \in DOMAIN f}
<1>1. PICK p : Arranges(p, DOMAIN f, Len(seq)) /\ \A x \in DOMAIN f : seq[p[x]] = f[x]
  BY DEF Lists
<1>2. DOMAIN seq = 1 .. Len(seq)
  OBVIOUS
<1>3. ASSUME NEW x \in DOMAIN f PROVE f[x] \in ToSet(seq)
  BY <1>1, <1>2 DEF Arranges, ToSet
<1>4. ASSUME NEW v \in ToSet(seq) PROVE v \in {f[x] : x \in DOMAIN f}
  <2>1. PICK k \in 1 .. Len(seq) : v = seq[k]
    BY <1>2 DEF ToSet
  <2>2. PICK x \in DOMAIN f : p[x] = k
    BY <1>1 DEF Arranges
  <2>3. QED
    BY <1>1, <2>1, <2>2
<1>5. QED
  BY <1>3, <1>4

-----------------------------------------------------------------------------
(* Times. *)

IsPower(g, base, n) == g = [k \in 0 .. n |-> IF k = 0 THEN 1 ELSE base * g[k - 1]]

LEMMA PowersAgree ==
    ASSUME NEW base \in {2, 10}, NEW m \in Nat, NEW n \in Nat, NEW f, NEW g,
           IsPower(f, base, m), IsPower(g, base, n), NEW k \in 0 .. m, k <= n
    PROVE  f[k] = g[k] /\ f[k] \in Nat
<1> DEFINE S == {j \in Nat : j <= m /\ j <= n => f[j] = g[j] /\ f[j] \in Nat}
<1>1. /\ \A j \in 0 .. m : f[j] = IF j = 0 THEN 1 ELSE base * f[j - 1]
      /\ \A j \in 0 .. n : g[j] = IF j = 0 THEN 1 ELSE base * g[j - 1]
  BY DEF IsPower
<1>2. 0 \in S
  BY <1>1
<1>3. ASSUME NEW j \in 0 .. m, j \in S, j < m PROVE j + 1 \in S
  <2>1. SUFFICES ASSUME NEW i, i = j + 1, i <= m, i <= n PROVE f[i] = g[i] /\ f[i] \in Nat
    OBVIOUS
  <2>2. i \in 0 .. m /\ i \in 0 .. n /\ i # 0 /\ i - 1 = j /\ j <= m /\ j <= n
    BY <2>1
  <2>3. f[i] = base * f[i - 1] /\ g[i] = base * g[i - 1]
    BY <1>1, <2>2
  <2>4. f[j] = g[j] /\ f[j] \in Nat
    BY <1>3, <2>2
  <2>5. QED
    BY <2>2, <2>3, <2>4
<1> HIDE DEF S
<1>4. 0 .. m \subseteq S
  <2>1. \A j \in 0 .. m : j \in S /\ j < m => j + 1 \in S
    BY <1>3
  <2>2. QED
    BY <1>2, <2>1, UpToBound
<1>5. QED
  BY <1>4 DEF S

LEMMA PowersExist ==
    ASSUME NEW base \in {2, 10}, NEW m \in Nat
    PROVE  \E g : IsPower(g, base, m)
<1> DEFINE S == {n \in Nat : \E g : IsPower(g, base, n)}
<1>1. 0 \in S
  <2>1. IsPower([k \in 0 .. 0 |-> 1], base, 0)
    BY DEF IsPower
  <2>2. QED
    BY <2>1
<1>2. ASSUME NEW n \in 0 .. m, n \in S PROVE n + 1 \in S
  <2>1. PICK g : IsPower(g, base, n)
    BY <1>2
  <2> DEFINE h == [k \in 0 .. n + 1 |-> IF k = 0 THEN 1 ELSE base * g[k - 1]]
  <2>2. ASSUME NEW k \in 0 .. n + 1 PROVE h[k] = IF k = 0 THEN 1 ELSE base * h[k - 1]
    <3>1. CASE k # 0
      <4>1. PICK j \in 0 .. n : j = k - 1 /\ j \in 0 .. n + 1
        BY <3>1
      <4>2. g[j] = IF j = 0 THEN 1 ELSE base * g[j - 1]
        <5> HIDE DEF h
        <5>1. QED
          BY <2>1, Zenon DEF IsPower
      <4>3. h[j] = g[j]
        BY <4>1, <4>2
      <4>4. QED
        BY <3>1, <4>1, <4>3
    <3>2. QED
      BY <3>1
  <2>3. IsPower(h, base, n + 1)
    <3>1. h = [k \in 0 .. n + 1 |-> h[k]]
      OBVIOUS
    <3> HIDE DEF h
    <3>2. QED
      BY <2>2, <3>1, Zenon DEF IsPower
  <2> DEFINE next == n + 1
  <2>4. next \in Nat
    OBVIOUS
  <2>5. \E f : IsPower(f, base, next)
    BY <2>3
  <2> HIDE DEF next
  <2>6. next \in S
    BY <2>4, <2>5
  <2>7. QED
    BY <2>6 DEF next
<1> HIDE DEF S
<1>3. 0 .. m \subseteq S
  <2>1. \A n \in 0 .. m : n \in S /\ n < m => n + 1 \in S
    BY <1>2
  <2>2. QED
    BY <1>1, <2>1, UpToBound
<1>4. m \in S
  BY <1>3
<1>5. QED
  BY <1>4 DEF S

LEMMA PowerIs ==
    ASSUME NEW base \in {2, 10}
    PROVE  /\ \A n \in Nat : Power(base)[n] \in Nat
           /\ Power(base)[0] = 1
           /\ \A n \in Nat \ {0} : Power(base)[n] = base * Power(base)[n - 1]
<1> DEFINE up[n \in Nat] == CHOOSE g : IsPower(g, base, n)
           f == [n \in Nat |-> up[n][n]]
<1>1. \A n \in Nat : IsPower(up[n], base, n)
  BY PowersExist
<1> HIDE DEF up
<1>2. ASSUME NEW n \in Nat
      PROVE  f[n] \in Nat /\ f[n] = IF n = 0 THEN 1 ELSE base * f[n - 1]
  <2>1. up[n][n] = IF n = 0 THEN 1 ELSE base * up[n][n - 1]
    <3>1. \A k \in 0 .. n : up[n][k] = IF k = 0 THEN 1 ELSE base * up[n][k - 1]
      <4> DEFINE g == up[n]
      <4>1. IsPower(g, base, n)
        BY <1>1
      <4> HIDE DEF g, f
      <4>2. \A k \in 0 .. n : g[k] = IF k = 0 THEN 1 ELSE base * g[k - 1]
        BY <4>1 DEF IsPower
      <4>3. QED
        BY <4>2 DEF g
    <3>2. n \in 0 .. n
      OBVIOUS
    <3> HIDE DEF f
    <3>3. QED
      BY <3>1, <3>2
  <2>2. f[n] \in Nat
    <3>1. n \in 0 .. n /\ n <= n
      OBVIOUS
    <3>2. QED
      BY <1>1, <3>1, PowersAgree
  <2>3. CASE n # 0
    <3>1. PICK j \in Nat : j = n - 1 /\ j \in 0 .. n /\ j <= j /\ n \in Nat
      BY <2>3
    <3>2. up[n][j] = up[j][j]
      BY <1>1, <3>1, PowersAgree
    <3>3. QED
      BY <2>1, <2>2, <2>3, <3>1, <3>2
  <2>4. QED
    BY <2>1, <2>2, <2>3
<1>3. f = [n \in Nat |-> IF n = 0 THEN 1 ELSE base * f[n - 1]]
  <2>1. f = [n \in Nat |-> f[n]]
    OBVIOUS
  <2> HIDE DEF f
  <2>2. QED
    BY <1>2, <2>1, Zenon
<1> HIDE DEF f
<1> DEFINE power == CHOOSE power : power = [n \in Nat |-> IF n = 0 THEN 1 ELSE base * power[n - 1]]
<1>4. power = [n \in Nat |-> IF n = 0 THEN 1 ELSE base * power[n - 1]]
  BY <1>3
<1>5. Power(base) = power
  BY DEF Power
<1> HIDE DEF power
<1>6. \A n \in Nat : power[n] = IF n = 0 THEN 1 ELSE base * power[n - 1]
  BY <1>4
<1> DEFINE S == {n \in Nat : power[n] \in Nat}
<1>7. ASSUME NEW n \in Nat PROVE n \in S
  <2>1. 0 \in S
    BY <1>6
  <2>2. ASSUME NEW k \in 0 .. n, k \in S, k < n PROVE k + 1 \in S
    <3>1. PICK j \in Nat : j = k + 1 /\ j # 0 /\ j - 1 = k
      OBVIOUS
    <3>2. power[j] = base * power[k] /\ power[k] \in Nat
      BY <1>6, <2>2, <3>1
    <3>3. QED
      BY <3>1, <3>2
  <2> HIDE DEF S
  <2>3. 0 .. n \subseteq S
    <3>1. \A k \in 0 .. n : k \in S /\ k < n => k + 1 \in S
      BY <2>2
    <3>2. QED
      BY <2>1, <3>1, UpToBound
  <2>4. QED
    BY <2>3
<1>8. QED
  BY <1>5, <1>6, <1>7

LEMMA PowerGrows ==
    ASSUME NEW base \in {2, 10}, NEW n \in Nat
    PROVE  n < Power(base)[n]
<1> DEFINE S == {k \in Nat : k < Power(base)[k]}
<1>1. 0 \in S
  BY PowerIs
<1>2. ASSUME NEW k \in 0 .. n, k \in S PROVE k + 1 \in S
  <2>1. PICK j \in Nat : j = k + 1 /\ j # 0 /\ j - 1 = k
    OBVIOUS
  <2>2. Power(base)[j] = base * Power(base)[k] /\ Power(base)[k] \in Nat
    BY <2>1, PowerIs
  <2>3. k < Power(base)[k]
    BY <1>2
  <2>4. j < Power(base)[j]
    BY <2>1, <2>2, <2>3
  <2>5. QED
    BY <2>1, <2>4
<1> HIDE DEF S
<1>3. 0 .. n \subseteq S
  <2>1. \A k \in 0 .. n : k \in S /\ k < n => k + 1 \in S
    BY <1>2
  <2>2. QED
    BY <1>1, <2>1, UpToBound
<1>4. n \in S
  BY <1>3
<1>5. QED
  BY <1>4 DEF S

\* The unit is the power that leaves the digits.
LEMMA UnitIs ==
    ASSUME NEW base \in {2, 10}, NEW digits \in Nat \ {0}, NEW n \in Nat
    PROVE  \E k \in 0 .. n : /\ Unit(base, digits, n) = Power(base)[k]
                             /\ n < Power(base)[digits + k]
                             /\ k = 0 \/ Power(base)[digits + k - 1] <= n
<1> DEFINE P == Power(base)
           S == {k \in Nat : n < P[digits + k]}
<1>1. \A k \in Nat : P[k] \in Nat
  BY PowerIs
<1>2. n \in S
  <2>1. digits + n \in Nat /\ P[digits + n] \in Nat /\ digits + n < P[digits + n]
    BY PowerGrows, <1>1
  <2> HIDE DEF P
  <2>2. QED
    BY <2>1
<1> HIDE DEF P
<1>3. PICK k \in S : \A j \in S : k <= j
  <2>1. S \in SUBSET Nat /\ S # {}
    BY <1>2
  <2> HIDE DEF S
  <2>2. QED
    BY <2>1, Smallest
<1>4. k \in 0 .. n
  BY <1>2, <1>3
<1>5. k = 0 \/ P[digits + k - 1] <= n
  <2>1. SUFFICES ASSUME k # 0 PROVE P[digits + k - 1] <= n
    OBVIOUS
  <2>2. PICK j \in Nat : j = k - 1
    BY <1>4, <2>1
  <2>3. j \notin S /\ digits + j = digits + k - 1 /\ digits + j \in Nat
    BY <1>3, <1>4, <2>2
  <2>4. P[digits + j] \in Nat /\ ~(n < P[digits + j])
    BY <1>1, <2>3
  <2>5. QED
    BY <2>3, <2>4
<1>6. n < P[digits + k]
  BY <1>3
<1>7. Unit(base, digits, n) = P[CHOOSE i \in 0 .. n : n < P[digits + i] /\ (i = 0 \/ P[digits + i - 1] <= n)]
  BY DEF Unit, P
<1> DEFINE c == CHOOSE i \in 0 .. n : n < P[digits + i] /\ (i = 0 \/ P[digits + i - 1] <= n)
<1>8. c \in 0 .. n /\ n < P[digits + c] /\ (c = 0 \/ P[digits + c - 1] <= n)
  <2> HIDE DEF S
  <2>1. QED
    BY <1>4, <1>5, <1>6
<1> HIDE DEF c
<1>9. Unit(base, digits, n) = P[c]
  BY <1>7 DEF c
<1>10. QED
  BY <1>8, <1>9 DEF P

LEMMA RoundedInt ==
    ASSUME NEW n \in Int
    PROVE  Rounded(n) \in Int
<1> DEFINE limit == Power(2)[TimeBits]
           unit == Unit(2, TimeBits, n)
<1>1. limit \in Nat
  BY PowerIs, ScenarioAssumption
<1>2. CASE n < limit
  BY <1>2 DEF Rounded
<1>3. CASE ~(n < limit)
  <2>1. n \in Nat
    BY <1>1, <1>3
  <2>2. unit \in Nat \ {0}
    <3>1. PICK k \in 0 .. n : unit = Power(2)[k]
      BY <2>1, UnitIs, ScenarioAssumption
    <3>2. k \in Nat /\ Power(2)[k] \in Nat /\ k < Power(2)[k]
      BY PowerIs, PowerGrows
    <3> HIDE DEF unit
    <3>3. QED
      BY <3>1, <3>2
  <2>3. Rounded(n) = RoundedTo(n, unit)
    BY <1>3 DEF Rounded
  <2> HIDE DEF unit
  <2>4. n \div unit \in Int
    BY <2>1, <2>2
  <2> DEFINE q == n \div unit
  <2>5. q * unit \in Int /\ (q + 1) * unit \in Int
    <3>1. q \in Int /\ unit \in Int
      BY <2>2, <2>4
    <3> HIDE DEF q
    <3>2. QED
      BY <3>1
  <2>6. QED
    BY <2>3, <2>5 DEF RoundedTo
<1>4. QED
  BY <1>2, <1>3

LEMMA TimesInt ==
    /\ \A a, b \in Int : Plus(a, b) \in Int /\ Minus(a, b) \in Int /\ Times(a, b) \in Int
<1>1. ASSUME NEW a \in Int, NEW b \in Int
      PROVE  Plus(a, b) \in Int /\ Minus(a, b) \in Int /\ Times(a, b) \in Int
  <2>1. a + b \in Int /\ a - b \in Int /\ a * b \in Int
    OBVIOUS
  <2>2. QED
    BY <2>1, RoundedInt DEF Plus, Minus, Times
<1>2. QED
  BY <1>1

LEMMA PowerSum ==
    ASSUME NEW base \in {2, 10}, NEW a \in Nat, NEW b \in Nat
    PROVE  Power(base)[a + b] = Power(base)[a] * Power(base)[b]
<1> DEFINE P == Power(base)
           S == {k \in Nat : P[a + k] = P[a] * P[k]}
<1>1. P[0] = 1 /\ (\A n \in Nat : P[n] \in Nat) /\ \A n \in Nat \ {0} : P[n] = base * P[n - 1]
  BY PowerIs
<1> HIDE DEF P
<1>2. 0 \in S
  <2>1. a + 0 = a /\ P[a] * 1 = P[a]
    BY <1>1
  <2>2. QED
    BY <1>1, <2>1
<1>3. ASSUME NEW k \in 0 .. b, k \in S PROVE k + 1 \in S
  <2>1. k + 1 \in Nat \ {0} /\ a + (k + 1) \in Nat \ {0} /\ a + (k + 1) - 1 = a + k /\ k + 1 - 1 = k
    OBVIOUS
  <2>2. P[a + (k + 1)] = base * P[a + k] /\ P[k + 1] = base * P[k]
    BY <1>1, <2>1
  <2>3. P[a + k] = P[a] * P[k]
    BY <1>3
  <2>4. P[a] \in Int /\ P[k] \in Int /\ base \in Int
    BY <1>1
  <2>5. base * (P[a] * P[k]) = P[a] * (base * P[k])
    BY <2>4
  <2>6. QED
    BY <2>1, <2>2, <2>3, <2>5
<1> HIDE DEF S
<1>4. 0 .. b \subseteq S
  <2>1. \A k \in 0 .. b : k \in S /\ k < b => k + 1 \in S
    BY <1>3
  <2>2. QED
    BY <1>2, <2>1, UpToBound
<1>5. b \in S
  BY <1>4
<1>6. QED
  BY <1>5 DEF S, P

LEMMA Divided ==
    ASSUME NEW n \in Nat, NEW unit \in Nat \ {0}
    PROVE  /\ n \div unit \in Nat
           /\ (n \div unit) * unit <= n /\ n < (n \div unit + 1) * unit
OBVIOUS

LEMMA FewerUnits ==
    ASSUME NEW a \in Nat, NEW b \in Nat, NEW unit \in Nat \ {0}, a * unit < (b + 1) * unit
    PROVE  a <= b
<1>1. SUFFICES ASSUME a > b PROVE FALSE
  OBVIOUS
<1>2. PICK e \in Nat : a = (b + 1) + e
  <2>1. a - (b + 1) \in Nat /\ a = (b + 1) + (a - (b + 1))
    BY <1>1
  <2>2. QED
    BY <2>1
<1>3. a * unit = (b + 1) * unit + e * unit /\ e * unit \in Nat
  BY <1>2
<1>4. (b + 1) * unit \in Int
  OBVIOUS
<1>5. QED
  BY <1>3, <1>4

LEMMA MoreUnits ==
    ASSUME NEW a \in Nat, NEW b \in Nat, NEW unit \in Nat, a <= b
    PROVE  a * unit <= b * unit /\ a * unit \in Nat /\ b * unit \in Nat
<1>1. PICK e \in Nat : b = a + e
  <2>1. b - a \in Nat /\ b = a + (b - a)
    OBVIOUS
  <2>2. QED
    BY <2>1
<1>2. b * unit = a * unit + e * unit /\ e * unit \in Nat /\ a * unit \in Nat
  BY <1>1
<1>3. QED
  BY <1>2

\* What a double holds.
IsTime(r) == r \in Nat /\ \E k \in Nat, c \in 0 .. Power(2)[TimeBits] : r = c * Power(2)[k]

\* A number is rounded up or down, by its own unit.
LEMMA RoundedTwoWays ==
    ASSUME NEW n \in Nat, ~(n < Power(2)[TimeBits])
    PROVE  \E k \in Nat, q \in Nat :
              /\ q * Power(2)[k] <= n /\ n < (q + 1) * Power(2)[k]
              /\ Rounded(n) = q * Power(2)[k] \/ Rounded(n) = (q + 1) * Power(2)[k]
              /\ n < Power(2)[TimeBits + k]
              /\ k = 0 \/ Power(2)[TimeBits + k - 1] <= n
              /\ Power(2)[k] \in Nat \ {0}
<1> DEFINE P == Power(2)
<1>1. PICK k \in 0 .. n : /\ Unit(2, TimeBits, n) = P[k]
                          /\ n < P[TimeBits + k]
                          /\ k = 0 \/ P[TimeBits + k - 1] <= n
  BY UnitIs, ScenarioAssumption
<1>2. k \in Nat /\ P[k] \in Nat /\ k < P[k]
  BY PowerIs, PowerGrows
<1> DEFINE u == P[k]
           q == n \div u
<1>3. Rounded(n) = RoundedTo(n, u)
  BY <1>1 DEF Rounded
<1> HIDE DEF P
<1>4. u \in Nat \ {0}
  BY <1>2
<1> HIDE DEF u
<1>5. q \in Nat /\ q * u <= n /\ n < (q + 1) * u
  BY <1>4, Divided
<1>6. Rounded(n) = q * u \/ Rounded(n) = (q + 1) * u
  BY <1>3 DEF RoundedTo
<1> HIDE DEF q
<1>7. QED
  BY <1>1, <1>2, <1>4, <1>5, <1>6 DEF u, P

LEMMA RoundedIsTime ==
    ASSUME NEW n \in Nat
    PROVE  IsTime(Rounded(n))
<1> DEFINE P == Power(2)
           top == P[TimeBits]
<1>1. top \in Nat /\ P[0] = 1 /\ TimeBits \in Nat
  BY PowerIs, ScenarioAssumption
<1>2. CASE n < top
  <2>1. Rounded(n) = n /\ n = n * P[0] /\ n \in 0 .. top
    BY <1>1, <1>2 DEF Rounded
  <2>2. QED
    BY <2>1 DEF IsTime
<1>3. CASE ~(n < top)
  <2>1. PICK k \in Nat, q \in Nat :
              /\ q * P[k] <= n /\ n < (q + 1) * P[k]
              /\ Rounded(n) = q * P[k] \/ Rounded(n) = (q + 1) * P[k]
              /\ n < P[TimeBits + k]
              /\ P[k] \in Nat \ {0}
    BY <1>3, RoundedTwoWays
  <2>2. P[TimeBits + k] = top * P[k]
    BY <1>1, PowerSum
  <2> DEFINE u == P[k]
  <2> HIDE DEF top, P
  <2>3. u \in Nat \ {0} /\ q * u \in Nat /\ top * u \in Nat
    BY <1>1, <2>1
  <2>4. q + 1 <= top
    <3>1. top # 0
      BY <1>1, <2>1, <2>2, <2>3
    <3>2. PICK t \in Nat : top = t + 1
      <4>1. top - 1 \in Nat /\ top = (top - 1) + 1
        BY <1>1, <3>1
      <4>2. QED
        BY <4>1
    <3>3. q * u < (t + 1) * u
      BY <2>1, <2>2, <2>3, <3>2
    <3>4. q <= t
      <4> HIDE DEF u
      <4>1. QED
        BY <2>3, <3>3, FewerUnits
    <3>5. QED
      BY <3>2, <3>4
  <2>5. q \in 0 .. top /\ q + 1 \in 0 .. top /\ (q + 1) * u \in Nat
    BY <1>1, <2>3, <2>4
  <2>6. QED
    BY <2>1, <2>3, <2>5 DEF IsTime, top, P
<1>4. QED
  BY <1>2, <1>3

\* Rounding does not take a number below one that needs no rounding.
LEMMA RoundedNotBelow ==
    ASSUME NEW r, IsTime(r), NEW n \in Nat, r <= n
    PROVE  r <= Rounded(n)
<1> DEFINE P == Power(2)
           top == P[TimeBits]
<1>1. top \in Nat /\ TimeBits \in Nat \ {0} /\ \A k \in Nat : P[k] \in Nat
  BY PowerIs, ScenarioAssumption
<1>2. CASE n < top
  BY <1>2 DEF Rounded
<1>3. CASE ~(n < top)
  <2>1. PICK k \in Nat, q \in Nat :
              /\ q * P[k] <= n /\ n < (q + 1) * P[k]
              /\ Rounded(n) = q * P[k] \/ Rounded(n) = (q + 1) * P[k]
              /\ k = 0 \/ P[TimeBits + k - 1] <= n
              /\ P[k] \in Nat \ {0}
    BY <1>3, RoundedTwoWays
  <2>2. PICK l \in Nat, c \in 0 .. top : r = c * P[l]
    BY DEF IsTime
  <2> DEFINE u == P[k]
  <2>3. \E d \in Nat : r <= d * u /\ d * u <= n
    <3>1. CASE k <= l
      <4>1. PICK e \in Nat : l = e + k
        <5>1. l - k \in Nat /\ l = (l - k) + k
          BY <3>1
        <5>2. QED
          BY <5>1
      <4>2. P[l] = P[e] * P[k] /\ P[e] \in Nat
        BY <1>1, <4>1, PowerSum
      <4> HIDE DEF P, top
      <4>3. c * (P[e] * u) = (c * P[e]) * u /\ c * P[e] \in Nat /\ c \in Nat
        BY <1>1, <2>1, <4>2
      <4>4. r = (c * P[e]) * u
        BY <2>2, <4>2, <4>3
      <4>5. QED
        BY <4>3, <4>4 DEF IsTime
    <3>2. CASE l < k
      <4>1. PICK j \in Nat, b \in Nat : k = j + 1 /\ TimeBits = b + 1
        <5>1. k - 1 \in Nat /\ k = (k - 1) + 1 /\ TimeBits - 1 \in Nat /\ TimeBits = (TimeBits - 1) + 1
          BY <1>1, <3>2
        <5>2. QED
          BY <5>1
      <4>2. PICK e \in Nat : j = e + l
        <5>1. j - l \in Nat /\ j = (j - l) + l
          BY <3>2, <4>1
        <5>2. QED
          BY <5>1
      <4>3. P[j] = P[e] * P[l] /\ P[e] \in Nat /\ P[l] \in Nat /\ P[b] \in Nat /\ P[j] \in Nat /\ 1 <= P[e]
        <5>1. P[j] = P[e] * P[l]
          BY <4>2, PowerSum
        <5>2. e < P[e]
          BY PowerGrows
        <5>3. P[e] \in Nat /\ P[l] \in Nat /\ P[b] \in Nat /\ P[j] \in Nat
          BY <1>1
        <5> HIDE DEF P
        <5>4. QED
          BY <5>1, <5>2, <5>3
      <4>4. P[TimeBits + j] = top * P[j]
        BY <1>1, PowerSum
      <4>5. top = 2 * P[b] /\ u = 2 * P[j]
        <5>1. TimeBits \in Nat \ {0} /\ TimeBits - 1 = b /\ k \in Nat \ {0} /\ k - 1 = j
          BY <1>1, <4>1
        <5>2. QED
          BY <5>1, PowerIs
      <4>6. top * P[j] <= n
        <5>1. TimeBits + k - 1 = TimeBits + j /\ k # 0
          BY <1>1, <4>1
        <5>2. QED
          BY <2>1, <4>4, <5>1
      <4> HIDE DEF P, top, u
      <4>7. top * P[j] = P[b] * u /\ P[b] * u \in Nat
        BY <4>3, <4>5
      <4>8. P[l] <= P[j]
        BY <4>3, MoreUnits
      <4>9. c * P[l] <= top * P[j]
        <5>1. c * P[l] <= top * P[l] /\ top * P[l] \in Nat /\ c * P[l] \in Nat
          BY <1>1, <4>3, MoreUnits
        <5>2. P[l] * top <= P[j] * top /\ P[j] * top \in Nat
          BY <1>1, <4>3, <4>8, MoreUnits
        <5>3. P[l] * top = top * P[l] /\ P[j] * top = top * P[j]
          BY <1>1, <4>3
        <5>4. QED
          BY <5>1, <5>2, <5>3
      <4>10. QED
        BY <2>2, <4>3, <4>6, <4>7, <4>9
    <3>3. QED
      BY <3>1, <3>2
  <2>4. PICK d \in Nat : r <= d * u /\ d * u <= n
    BY <2>3
  <2> HIDE DEF P, top
  <2>5. u \in Nat \ {0} /\ d * u \in Nat /\ q * u \in Nat /\ (q + 1) * u \in Nat
    BY <2>1
  <2>6. d * u < (q + 1) * u
    BY <2>1, <2>4, <2>5
  <2> HIDE DEF u
  <2>7. d <= q
    BY <2>5, <2>6, FewerUnits
  <2>8. d * u <= q * u /\ q * u <= (q + 1) * u
    BY <2>5, <2>7, MoreUnits
  <2>9. r \in Nat
    BY DEF IsTime
  <2>10. QED
    BY <2>1, <2>4, <2>5, <2>8, <2>9 DEF u
<1>4. QED
  BY <1>2, <1>3

-----------------------------------------------------------------------------
(* The sweep of the mix groups over intervals in the order of their start. *)

IsSweepable(Q, ids) ==
    /\ Q \in Seq([id : ids, start : Int, end : Int])
    /\ \A l, m \in 1 .. Len(Q) : l < m => Q[l].start <= Q[m].start

\* The first k intervals fall into runs that do not touch; a run is called by
\* its first interval, and each of its others starts before an earlier one ends.
IsRuns(Q, k, run) ==
    /\ run \in [1 .. k -> 1 .. k]
    /\ \A m \in 1 .. k : run[m] <= m
    /\ \A l, m \in 1 .. k : run[m] <= l /\ l <= m => run[l] = run[m]
    /\ \A l, m \in 1 .. k : l < m /\ run[l] # run[m] => Q[l].end <= Q[m].start
    /\ \A m \in 1 .. k : run[m] # m =>
          \E l \in 1 .. k : run[l] = run[m] /\ l < m /\ Q[m].start < Q[l].end

RunOf(k, run, first) == {m \in 1 .. k : run[m] = first}

IsEnd(Q, members, end) == /\ \E m \in members : Q[m].end = end
                          /\ \A m \in members : Q[m].end <= end

ListsIds(Q, members, list) == Lists(list, [m \in members |-> Q[m].id])

\* The group made of a run.
IsGroup(Q, k, run, group, first) ==
    /\ first \in 1 .. k /\ run[first] = first
    /\ group.start = Q[first].start
    /\ ListsIds(Q, RunOf(k, run, first), group.members) /\ Len(group.members) >= 2
    /\ \E end \in Int : /\ IsEnd(Q, RunOf(k, run, first), end)
                        /\ group.start < end /\ group.duration = Minus(end, group.start)

GroupRecords(ids) == [start : Int, duration : Int, members : Seq(ids)]

\* A group for every run of two and more, but for those still open.
IsGroups(Q, k, run, groups, first, open) ==
    /\ first \in [1 .. Len(groups) -> 1 .. k]
    /\ \A g, h \in 1 .. Len(groups) : first[g] = first[h] => g = h
    /\ \A g \in 1 .. Len(groups) : first[g] \notin open /\ IsGroup(Q, k, run, groups[g], first[g])
    /\ \A m \in 1 .. k : run[m] # m /\ run[m] \notin open =>
          \E g \in 1 .. Len(groups) : first[g] = run[m]

\* What the sweep has made of the first k intervals.
IsSwept(Q, k, ids, run, first, sweep) ==
    /\ IsRuns(Q, k, run)
    /\ IsGroups(Q, k, run, sweep.groups, first, {run[k]})
    /\ sweep.groups \in Seq(GroupRecords(ids))
    /\ sweep.start = Q[run[k]].start
    /\ sweep.end \in Int /\ IsEnd(Q, RunOf(k, run, run[k]), sweep.end)
    /\ sweep.group \in Seq(ids) /\ ListsIds(Q, RunOf(k, run, run[k]), sweep.group)

LEMMA SweepableFacts ==
    ASSUME NEW ids, NEW Q, IsSweepable(Q, ids)
    PROVE  /\ Len(Q) \in Nat
           /\ \A m \in 1 .. Len(Q) : Q[m].start \in Int /\ Q[m].end \in Int /\ Q[m].id \in ids
           /\ \A l, m \in 1 .. Len(Q) : l < m => Q[l].start <= Q[m].start
<1> DEFINE X == [id : ids, start : Int, end : Int]
<1>1. \A x \in X : x.start \in Int /\ x.end \in Int /\ x.id \in ids
  OBVIOUS
<1>2. Q \in Seq(X)
  BY DEF IsSweepable
<1> HIDE DEF X
<1>3. Len(Q) \in Nat /\ \A m \in 1 .. Len(Q) : Q[m] \in X
  BY <1>2
<1>4. QED
  BY <1>1, <1>3 DEF IsSweepable

LEMMA ListsAppended ==
    ASSUME NEW X, NEW seq \in Seq(X), NEW f, Lists(seq, f), NEW v \in X, NEW y, y \notin DOMAIN f,
           NEW g, DOMAIN g = DOMAIN f \cup {y}, g[y] = v, \A x \in DOMAIN f : g[x] = f[x]
    PROVE  Lists(Append(seq, v), g)
<1>1. PICK p : Arranges(p, DOMAIN f, Len(seq)) /\ \A x \in DOMAIN f : seq[p[x]] = f[x]
  BY DEF Lists
<1> DEFINE n == Len(seq) + 1
           more == Append(seq, v)
           q == [x \in DOMAIN g |-> IF x = y THEN n ELSE p[x]]
<1>2. /\ Len(seq) \in Nat /\ n \in Nat /\ n = Len(seq) + 1
      /\ Len(more) = n /\ more[n] = v /\ \A i \in 1 .. Len(seq) : more[i] = seq[i]
  OBVIOUS
<1> HIDE DEF n, more
<1>3. \A x \in DOMAIN f : p[x] \in 1 .. Len(seq) /\ p[x] \in 1 .. n /\ p[x] # n /\ q[x] = p[x]
  <2>1. \A x \in DOMAIN f : p[x] \in 1 .. Len(seq)
    BY <1>1 DEF Arranges
  <2>2. QED
    BY <1>2, <2>1
<1>4. q[y] = n /\ n \in 1 .. n
  BY <1>2
<1>5. q \in [DOMAIN g -> 1 .. n]
  BY <1>3, <1>4
<1> HIDE DEF q
<1>6. \A x, z \in DOMAIN g : q[x] = q[z] => x = z
  BY <1>1, <1>3, <1>4 DEF Arranges
<1>7. ASSUME NEW i \in 1 .. n PROVE \E x \in DOMAIN g : q[x] = i
  <2>1. CASE i = n
    BY <1>4, <2>1
  <2>2. CASE i # n
    <3>1. i \in 1 .. Len(seq)
      BY <1>2, <2>2
    <3>2. PICK x \in DOMAIN f : p[x] = i
      BY <1>1, <3>1 DEF Arranges
    <3>3. QED
      BY <1>3, <3>2
  <2>3. QED
    BY <2>1, <2>2
<1>8. Arranges(q, DOMAIN g, Len(more))
  BY <1>2, <1>5, <1>6, <1>7 DEF Arranges
<1>9. \A x \in DOMAIN g : more[q[x]] = g[x]
  BY <1>1, <1>2, <1>3, <1>4
<1>10. Lists(more, g)
  BY <1>8, <1>9 DEF Lists
<1>11. QED
  BY <1>10 DEF more

\* What is closed stays as it is when the next interval joins another run.
LEMMA GroupsStay ==
    ASSUME NEW Q, NEW k \in Nat, NEW run, NEW groups, NEW first, NEW open,
           IsGroups(Q, k, run, groups, first, open),
           NEW next, next = k + 1, NEW more, \A m \in 1 .. k : more[m] = run[m],
           NEW later, more[next] \in later, \A r \in open : r \in later,
           \A g \in 1 .. Len(groups) : first[g] \notin later
    PROVE  IsGroups(Q, next, more, groups, first, later)
<1>1. ASSUME NEW g \in 1 .. Len(groups)
      PROVE  /\ RunOf(next, more, first[g]) = RunOf(k, run, first[g])
             /\ first[g] \in 1 .. k /\ first[g] \in 1 .. next
             /\ IsGroup(Q, next, more, groups[g], first[g])
  <2>1. first[g] \in 1 .. k /\ IsGroup(Q, k, run, groups[g], first[g]) /\ first[g] # more[next]
    BY DEF IsGroups
  <2>2. \A m : m \in 1 .. next <=> m \in 1 .. k \/ m = next
    OBVIOUS
  <2>3. RunOf(next, more, first[g]) = RunOf(k, run, first[g])
    BY <2>1, <2>2 DEF RunOf
  <2>4. first[g] \in 1 .. next /\ more[first[g]] = first[g]
    BY <2>1, <2>2 DEF IsGroup
  <2>5. QED
    BY <2>1, <2>3, <2>4 DEF IsGroup
<1>2. first \in [1 .. Len(groups) -> 1 .. next]
  <2>1. first \in [1 .. Len(groups) -> 1 .. k]
    BY DEF IsGroups
  <2>2. QED
    BY <1>1, <2>1
<1>3. ASSUME NEW m \in 1 .. next, more[m] # m, more[m] \notin later
      PROVE  \E g \in 1 .. Len(groups) : first[g] = more[m]
  <2>1. m # next
    BY <1>3
  <2>2. m \in 1 .. k
    BY <2>1
  <2>3. QED
    BY <1>3, <2>2 DEF IsGroups
<1>4. QED
  BY <1>1, <1>2, <1>3 DEF IsGroups

\* The first interval opens a run.
LEMMA SweepStarts ==
    ASSUME NEW ids, NEW Q, IsSweepable(Q, ids), Len(Q) > 0
    PROVE  \E run, first : IsSwept(Q, 1, ids, run, first, OpenGroup(<<>>, Q[1]))
<1> DEFINE run == [m \in 1 .. 1 |-> 1]
           first == [g \in 1 .. 0 |-> 0]
           sweep == OpenGroup(<<>>, Q[1])
<1>1. Q[1].start \in Int /\ Q[1].end \in Int /\ Q[1].id \in ids
  BY SweepableFacts
<1>2. /\ sweep.groups = <<>> /\ sweep.group = <<Q[1].id>>
      /\ sweep.start = Q[1].start /\ sweep.end = Q[1].end
  BY DEF OpenGroup
<1>3. IsRuns(Q, 1, run)
  BY DEF IsRuns
<1>4. run[1] = 1 /\ RunOf(1, run, 1) = {1}
  BY DEF RunOf
<1>5. IsGroups(Q, 1, run, <<>>, first, {1})
  BY DEF IsGroups
<1>6. ListsIds(Q, {1}, <<Q[1].id>>)
  <2> DEFINE f == [m \in {1} |-> Q[m].id]
             p == [m \in {1} |-> 1]
  <2>1. Arranges(p, {1}, 1) /\ DOMAIN f = {1} /\ Len(<<Q[1].id>>) = 1
    BY DEF Arranges
  <2>2. \A x \in {1} : <<Q[1].id>>[p[x]] = f[x]
    OBVIOUS
  <2>3. Lists(<<Q[1].id>>, f)
    <3> HIDE DEF p, f
    <3>1. QED
      BY <2>1, <2>2 DEF Lists
  <2>4. QED
    BY <2>3 DEF ListsIds
<1>7. IsEnd(Q, {1}, Q[1].end) /\ Q[1].end \in Int /\ <<Q[1].id>> \in Seq(ids)
  BY <1>1 DEF IsEnd
<1> HIDE DEF run, first, sweep
<1>8. IsSwept(Q, 1, ids, run, first, sweep)
  <2>1. IsGroups(Q, 1, run, sweep.groups, first, {run[1]}) /\ sweep.start = Q[run[1]].start
    BY <1>2, <1>4, <1>5
  <2>2. sweep.end \in Int /\ IsEnd(Q, RunOf(1, run, run[1]), sweep.end)
    BY <1>2, <1>4, <1>7
  <2>3. sweep.group \in Seq(ids) /\ ListsIds(Q, RunOf(1, run, run[1]), sweep.group)
    BY <1>2, <1>4, <1>6, <1>7
  <2>4. sweep.groups \in Seq(GroupRecords(ids))
    BY <1>2, EmptySeq
  <2>5. QED
    BY <1>3, <2>1, <2>2, <2>3, <2>4 DEF IsSwept
<1>9. QED
  BY <1>8 DEF sweep

\* An interval that starts before the run ends joins it.
LEMMA SweepJoins ==
    ASSUME NEW ids, NEW Q, IsSweepable(Q, ids), NEW k \in Nat \ {0}, k < Len(Q),
           NEW run, NEW first, NEW sweep, IsSwept(Q, k, ids, run, first, sweep),
           NEW next, next = k + 1, Q[next].start < sweep.end
    PROVE  \E more : IsSwept(Q, next, ids, more, first, Sweep(sweep, Q[next]))
<1> DEFINE r == run[k]
           more == [m \in 1 .. next |-> IF m <= k THEN run[m] ELSE r]
           joined == Sweep(sweep, Q[next])
           end == IF Q[next].end > sweep.end THEN Q[next].end ELSE sweep.end
<1>1. /\ next \in Nat /\ next \in 1 .. Len(Q) /\ next \in 1 .. next /\ next \notin 1 .. k
      /\ \A m : m \in 1 .. next <=> m \in 1 .. k \/ m = next
      /\ \A m \in 1 .. k : m \in Int /\ m < next /\ m \in 1 .. Len(Q)
      /\ k \in 1 .. k
  <2>1. Len(Q) \in Nat
    BY DEF IsSweepable
  <2>2. QED
    BY <2>1
<1>2. \A m \in 1 .. Len(Q) : Q[m].start \in Int /\ Q[m].end \in Int /\ Q[m].id \in ids
  BY SweepableFacts
<1>3. run \in [1 .. k -> 1 .. k] /\ r \in 1 .. k /\ run[r] = r /\ r <= k
  <2>1. run \in [1 .. k -> 1 .. k] /\ run[k] <= k
    BY <1>1 DEF IsSwept, IsRuns
  <2>2. run[k] \in 1 .. k
    BY <1>1, <2>1
  <2>3. run[run[k]] = run[k]
    BY <1>1, <2>1, <2>2 DEF IsSwept, IsRuns
  <2>4. QED
    BY <2>1, <2>2, <2>3
<1>4. more \in [1 .. next -> 1 .. next] /\ more[next] = r /\ \A m \in 1 .. k : more[m] = run[m]
  BY <1>1, <1>3
<1>5. joined = [sweep EXCEPT !.group = Append(@, Q[next].id), !.end = end]
  BY DEF Sweep
<1> HIDE DEF more
<1>6. RunOf(next, more, more[next]) = RunOf(k, run, r) \cup {next}
  BY <1>1, <1>4 DEF RunOf
<1>7. IsRuns(Q, next, more)
  <2>0. IsRuns(Q, k, run)
    BY DEF IsSwept
  <2>1. \A m \in 1 .. next : more[m] <= m
    BY <1>1, <1>3, <1>4, <2>0 DEF IsRuns
  <2>2. ASSUME NEW l \in 1 .. next, NEW m \in 1 .. next, more[m] <= l, l <= m
        PROVE  more[l] = more[m]
    <3>1. CASE m \in 1 .. k
      <4>1. l \in 1 .. k
        BY <1>1, <2>2, <3>1
      <4>2. QED
        BY <1>4, <2>0, <2>2, <3>1, <4>1 DEF IsRuns
    <3>2. CASE m = next
      <4>1. CASE l \in 1 .. k
        <5>1. run[k] <= l /\ l <= k
          BY <1>4, <2>2, <3>2, <4>1
        <5>2. run[l] = run[k]
          BY <1>1, <2>0, <4>1, <5>1 DEF IsRuns
        <5>3. QED
          BY <1>4, <3>2, <4>1, <5>2
      <4>2. QED
        BY <1>1, <3>2, <4>1
    <3>3. QED
      BY <1>1, <3>1, <3>2
  <2>3. ASSUME NEW l \in 1 .. next, NEW m \in 1 .. next, l < m, more[l] # more[m]
        PROVE  Q[l].end <= Q[m].start
    <3>0. l \in 1 .. k
      BY <1>1, <2>3
    <3>1. CASE m \in 1 .. k
      BY <1>4, <2>0, <2>3, <3>0, <3>1 DEF IsRuns
    <3>2. CASE m = next
      <4>1. run[l] # run[k]
        BY <1>4, <2>3, <3>0, <3>2
      <4>2. l # k
        BY <4>1
      <4>3. l < k
        BY <3>0, <4>2
      <4>4. Q[l].end <= Q[k].start
        BY <1>1, <2>0, <3>0, <4>1, <4>3 DEF IsRuns
      <4>5. Q[k].start <= Q[next].start
        BY <1>1 DEF IsSweepable
      <4>6. Q[l].end \in Int /\ Q[k].start \in Int /\ Q[next].start \in Int
        BY <1>1, <1>2, <3>0
      <4>7. QED
        BY <3>2, <4>4, <4>5, <4>6
    <3>3. QED
      BY <1>1, <3>1, <3>2
  <2>4. ASSUME NEW m \in 1 .. next, more[m] # m
        PROVE  \E l \in 1 .. next : more[l] = more[m] /\ l < m /\ Q[m].start < Q[l].end
    <3>1. CASE m \in 1 .. k
      <4>1. PICK l \in 1 .. k : run[l] = run[m] /\ l < m /\ Q[m].start < Q[l].end
        BY <1>4, <2>0, <2>4, <3>1 DEF IsRuns
      <4>2. QED
        BY <1>1, <1>4, <3>1, <4>1
    <3>2. CASE m = next
      <4>1. PICK l \in RunOf(k, run, r) : Q[l].end = sweep.end
        BY DEF IsSwept, IsEnd
      <4>2. l \in 1 .. k /\ run[l] = r /\ Q[next].start < Q[l].end
        BY <4>1 DEF RunOf
      <4>3. QED
        BY <1>1, <1>4, <3>2, <4>2
    <3>3. QED
      BY <1>1, <3>1, <3>2
  <2>5. QED
    BY <1>4, <2>1, <2>2, <2>3, <2>4 DEF IsRuns
<1>8. IsGroups(Q, next, more, sweep.groups, first, {more[next]})
  <2>1. IsGroups(Q, k, run, sweep.groups, first, {r})
    BY DEF IsSwept
  <2>2. /\ more[next] \in {more[next]} /\ \A x \in {r} : x \in {more[next]}
        /\ \A g \in 1 .. Len(sweep.groups) : first[g] \notin {more[next]}
    BY <1>4, <2>1 DEF IsGroups
  <2> HIDE DEF r
  <2>3. QED
    BY <1>4, <2>1, <2>2, GroupsStay
<1>9. /\ joined.groups = sweep.groups /\ joined.start = sweep.start
      /\ joined.end = end /\ joined.group = Append(sweep.group, Q[next].id)
  BY <1>5
<1>10. end \in Int /\ IsEnd(Q, RunOf(k, run, r) \cup {next}, end)
  <2>1. sweep.end \in Int /\ Q[next].end \in Int /\ IsEnd(Q, RunOf(k, run, r), sweep.end)
    BY <1>1, <1>2 DEF IsSwept
  <2>2. \A m \in RunOf(k, run, r) : Q[m].end \in Int
    BY <1>1, <1>2 DEF RunOf
  <2>3. QED
    BY <2>1, <2>2 DEF IsEnd
<1>11. joined.group \in Seq(ids) /\ ListsIds(Q, RunOf(k, run, r) \cup {next}, joined.group)
  <2> DEFINE members == RunOf(k, run, r)
             all == members \cup {next}
             f == [m \in members |-> Q[m].id]
             g == [m \in all |-> Q[m].id]
             v == Q[next].id
             list == sweep.group
  <2>1. list \in Seq(ids) /\ Lists(list, f) /\ v \in ids
    BY <1>1, <1>2 DEF IsSwept, ListsIds
  <2>2. next \notin DOMAIN f
    BY <1>1 DEF RunOf
  <2>3. /\ DOMAIN f = members /\ DOMAIN g = DOMAIN f \cup {next}
        /\ g[next] = v /\ \A x \in DOMAIN f : g[x] = f[x]
    OBVIOUS
  <2> HIDE DEF f, g, members, v, list
  <2>4. Lists(Append(list, v), g)
    BY <2>1, <2>2, <2>3, ListsAppended
  <2>5. joined.group = Append(list, v)
    BY <1>9 DEF list, v
  <2>6. QED
    BY <2>1, <2>4, <2>5 DEF ListsIds, g, members
<1>12. joined.start = Q[more[next]].start /\ sweep.groups \in Seq(GroupRecords(ids))
  BY <1>4, <1>9 DEF IsSwept
<1> HIDE DEF joined, end, r
<1>13. IsSwept(Q, next, ids, more, first, joined)
  BY <1>6, <1>7, <1>8, <1>9, <1>10, <1>11, <1>12 DEF IsSwept
<1>14. QED
  BY <1>13 DEF joined

LEMMA ListsTwo ==
    ASSUME NEW seq, NEW f, Lists(seq, f), Len(seq) \in Nat
    PROVE  Len(seq) >= 2 <=> \E x, y \in DOMAIN f : x # y
<1>1. PICK p : Arranges(p, DOMAIN f, Len(seq))
  BY DEF Lists
<1>2. ASSUME NEW x \in DOMAIN f, NEW y \in DOMAIN f, x # y PROVE Len(seq) >= 2
  <2>1. p[x] \in 1 .. Len(seq) /\ p[y] \in 1 .. Len(seq) /\ p[x] # p[y]
    BY <1>1, <1>2 DEF Arranges
  <2>2. QED
    BY <2>1
<1>3. ASSUME Len(seq) >= 2 PROVE \E x, y \in DOMAIN f : x # y
  <2>1. 1 \in 1 .. Len(seq) /\ 2 \in 1 .. Len(seq)
    BY <1>3
  <2>2. PICK x \in DOMAIN f : p[x] = 1
    BY <1>1, <2>1 DEF Arranges
  <2>3. PICK y \in DOMAIN f : p[y] = 2
    BY <1>1, <2>1 DEF Arranges
  <2>4. QED
    BY <2>2, <2>3
<1>4. QED
  BY <1>2, <1>3

\* The run still open becomes a group, if it is one of two or more.
LEMMA SweepCloses ==
    ASSUME NEW ids, NEW Q, IsSweepable(Q, ids), NEW k \in Nat \ {0}, k <= Len(Q),
           NEW run, NEW first, NEW sweep, IsSwept(Q, k, ids, run, first, sweep)
    PROVE  /\ CloseGroup(sweep) \in Seq(GroupRecords(ids))
           /\ \E closed : IsGroups(Q, k, run, CloseGroup(sweep), closed, {})
<1> DEFINE r == run[k]
           members == RunOf(k, run, r)
           groups == sweep.groups
           list == sweep.group
<1>1. /\ groups \in Seq(GroupRecords(ids)) /\ IsGroups(Q, k, run, groups, first, {r})
      /\ IsRuns(Q, k, run)
      /\ sweep.start = Q[r].start /\ sweep.end \in Int /\ IsEnd(Q, members, sweep.end)
      /\ list \in Seq(ids) /\ ListsIds(Q, members, list)
  BY DEF IsSwept
<1>2. r \in 1 .. k /\ run[r] = r /\ k \in 1 .. k /\ r \in members
  <2>1. k \in 1 .. k
    OBVIOUS
  <2>2. run \in [1 .. k -> 1 .. k] /\ run[k] <= k
    BY <1>1, <2>1 DEF IsRuns
  <2>3. run[k] \in 1 .. k
    BY <2>1, <2>2
  <2>4. run[run[k]] = run[k]
    BY <1>1, <2>1, <2>2, <2>3 DEF IsRuns
  <2>5. QED
    BY <2>1, <2>3, <2>4 DEF RunOf
<1>3. \A m \in 1 .. k : Q[m].start \in Int /\ Q[m].end \in Int
  BY SweepableFacts
<1>4. Len(list) \in Nat /\ (Len(list) >= 2 <=> \E l, m \in members : l # m)
  <2> DEFINE f == [m \in members |-> Q[m].id]
  <2>1. Lists(list, f) /\ DOMAIN f = members
    BY <1>1 DEF ListsIds
  <2>2. Len(list) \in Nat
    BY <1>1
  <2> HIDE DEF f, list, members
  <2>3. QED
    BY <2>1, <2>2, ListsTwo
<1> HIDE DEF groups, list
<1>5. CASE Len(list) < 2
  <2>1. CloseGroup(sweep) = groups
    BY <1>5 DEF CloseGroup, groups, list
  <2>2. ~ \E l, m \in members : l # m
    BY <1>4, <1>5
  <2>3. \A m \in 1 .. k : run[m] = r => m = r
    BY <1>2, <2>2 DEF RunOf
  <2>4. IsGroups(Q, k, run, groups, first, {})
    BY <1>1, <2>3 DEF IsGroups
  <2>5. QED
    BY <1>1, <2>1, <2>4
<1>6. CASE ~(Len(list) < 2)
  <2> DEFINE group == [start |-> sweep.start, duration |-> Minus(sweep.end, sweep.start),
                       members |-> list]
             n == Len(groups)
             next == n + 1
             all == Append(groups, group)
             closed == [g \in 1 .. next |-> IF g <= n THEN first[g] ELSE r]
  <2>1. CloseGroup(sweep) = all
    BY <1>6 DEF CloseGroup, groups, list
  <2>2. group \in GroupRecords(ids) /\ sweep.start \in Int
    <3>1. sweep.start \in Int
      BY <1>1, <1>2, <1>3
    <3>2. Minus(sweep.end, sweep.start) \in Int
      BY <1>1, <3>1, TimesInt
    <3>3. QED
      BY <1>1, <3>1, <3>2 DEF GroupRecords
  <2>3. sweep.start < sweep.end
    <3>1. PICK m \in members : m # r
      BY <1>2, <1>4, <1>6
    <3>2. m \in 1 .. k /\ run[m] = r
      BY <3>1 DEF RunOf
    <3>3. PICK l \in 1 .. k : run[l] = r /\ Q[m].start < Q[l].end
      BY <1>1, <3>1, <3>2 DEF IsRuns
    <3>4. Q[l].end <= sweep.end
      BY <1>1, <3>3 DEF IsEnd, RunOf
    <3>5. Q[r].start <= Q[m].start
      <4>1. r <= m
        BY <1>1, <3>2 DEF IsRuns
      <4>2. r < m /\ r \in 1 .. Len(Q) /\ m \in 1 .. Len(Q)
        <5>1. Len(Q) \in Nat
          BY SweepableFacts
        <5> HIDE DEF r
        <5>2. QED
          BY <1>2, <3>1, <3>2, <4>1, <5>1
      <4>3. QED
        BY <4>2, SweepableFacts
    <3>6. /\ Q[r].start \in Int /\ Q[m].start \in Int /\ Q[l].end \in Int
          /\ sweep.end \in Int /\ sweep.start = Q[r].start
      BY <1>1, <1>2, <1>3, <3>2
    <3>7. QED
      BY <3>3, <3>4, <3>5, <3>6
  <2>4. IsGroup(Q, k, run, group, r)
    <3>1. group.start = Q[r].start /\ group.members = list /\ group.start = sweep.start
          /\ group.duration = Minus(sweep.end, group.start)
      BY <1>1
    <3> HIDE DEF group
    <3>2. Len(group.members) >= 2
      BY <1>4, <1>6, <3>1
    <3>3. QED
      BY <1>1, <1>2, <2>3, <3>1, <3>2 DEF IsGroup
  <2>5. /\ n \in Nat /\ next \in Nat /\ next = n + 1 /\ all \in Seq(GroupRecords(ids))
        /\ Len(all) = next /\ all[next] = group /\ \A g \in 1 .. n : all[g] = groups[g]
    <3> HIDE DEF group
    <3>1. QED
      BY <1>1, <2>2
  <2> HIDE DEF group, all, n, next
  <2>6. /\ \A g : g \in 1 .. next <=> g \in 1 .. n \/ g = next
        /\ next \notin 1 .. n
    BY <2>5
  <2>7. closed[next] = r /\ \A g \in 1 .. n : closed[g] = first[g]
    BY <2>5, <2>6
  <2>8. first \in [1 .. n -> 1 .. k] /\ \A g \in 1 .. n : first[g] # r
    BY <1>1 DEF IsGroups, n
  <2>9. closed \in [1 .. next -> 1 .. k]
    BY <1>2, <2>5, <2>6, <2>8
  <2> HIDE DEF closed
  <2>10. \A g, h \in 1 .. next : closed[g] = closed[h] => g = h
    BY <1>1, <2>6, <2>7, <2>8 DEF IsGroups, n
  <2>11. \A g \in 1 .. next : IsGroup(Q, k, run, all[g], closed[g])
    BY <1>1, <2>4, <2>5, <2>6, <2>7 DEF IsGroups, n
  <2>12. ASSUME NEW m \in 1 .. k, run[m] # m PROVE \E g \in 1 .. next : closed[g] = run[m]
    <3>1. CASE run[m] = r
      BY <2>6, <2>7, <3>1
    <3>2. CASE run[m] # r
      <4>1. PICK g \in 1 .. n : first[g] = run[m]
        BY <1>1, <2>12, <3>2 DEF IsGroups, n
      <4>2. QED
        BY <2>6, <2>7, <4>1
    <3>3. QED
      BY <3>1, <3>2
  <2>13. IsGroups(Q, k, run, all, closed, {})
    BY <2>5, <2>9, <2>10, <2>11, <2>12 DEF IsGroups
  <2>14. QED
    BY <2>1, <2>5, <2>13
<1>7. QED
  BY <1>4, <1>5, <1>6

\* An interval that starts when the run is over opens the next.
LEMMA SweepOpens ==
    ASSUME NEW ids, NEW Q, IsSweepable(Q, ids), NEW k \in Nat \ {0}, k < Len(Q),
           NEW run, NEW first, NEW sweep, IsSwept(Q, k, ids, run, first, sweep),
           NEW next, next = k + 1, ~(Q[next].start < sweep.end)
    PROVE  \E more, closed : IsSwept(Q, next, ids, more, closed, Sweep(sweep, Q[next]))
<1> DEFINE more == [m \in 1 .. next |-> IF m <= k THEN run[m] ELSE next]
           groups == CloseGroup(sweep)
           opened == Sweep(sweep, Q[next])
<1>0. Len(Q) \in Nat /\ \A m \in 1 .. Len(Q) : Q[m].start \in Int /\ Q[m].end \in Int /\ Q[m].id \in ids
  BY SweepableFacts
<1>1. /\ next \in Nat /\ next \in 1 .. Len(Q) /\ next \in 1 .. next /\ next \notin 1 .. k
      /\ \A m : m \in 1 .. next <=> m \in 1 .. k \/ m = next
      /\ \A m \in 1 .. k : m \in Int /\ m < next /\ m \in 1 .. Len(Q)
      /\ k \in 1 .. k /\ k <= Len(Q)
  BY <1>0
<1>2. groups \in Seq(GroupRecords(ids))
  BY <1>1, SweepCloses
<1>3. PICK closed : IsGroups(Q, k, run, groups, closed, {})
  BY <1>1, SweepCloses
<1> HIDE DEF groups
<1>4. IsRuns(Q, k, run) /\ sweep.end \in Int /\ IsEnd(Q, RunOf(k, run, run[k]), sweep.end)
  BY DEF IsSwept
<1>5. run \in [1 .. k -> 1 .. k] /\ \A m \in 1 .. k : run[m] <= m
  BY <1>4 DEF IsRuns
<1>6. more \in [1 .. next -> 1 .. next] /\ more[next] = next /\ \A m \in 1 .. k : more[m] = run[m]
  BY <1>1, <1>5
<1>7. /\ opened.groups = groups /\ opened.group = <<Q[next].id>>
      /\ opened.start = Q[next].start /\ opened.end = Q[next].end
  BY DEF Sweep, OpenGroup, groups
<1> HIDE DEF more, opened
<1>8. RunOf(next, more, next) = {next}
  <2>1. \A m \in 1 .. k : run[m] # next
    BY <1>1, <1>5
  <2>2. QED
    BY <1>1, <1>6, <2>1 DEF RunOf
<1>9. IsRuns(Q, next, more)
  <2>1. \A m \in 1 .. next : more[m] <= m
    BY <1>1, <1>5, <1>6
  <2>2. ASSUME NEW l \in 1 .. next, NEW m \in 1 .. next, more[m] <= l, l <= m
        PROVE  more[l] = more[m]
    <3>1. CASE m \in 1 .. k
      <4>1. l \in 1 .. k
        BY <1>1, <2>2, <3>1
      <4>2. QED
        BY <1>4, <1>6, <2>2, <3>1, <4>1 DEF IsRuns
    <3>2. CASE m = next
      <4>1. l = next
        BY <1>1, <1>6, <2>2, <3>2
      <4>2. QED
        BY <3>2, <4>1
    <3>3. QED
      BY <1>1, <3>1, <3>2
  <2>3. ASSUME NEW l \in 1 .. next, NEW m \in 1 .. next, l < m, more[l] # more[m]
        PROVE  Q[l].end <= Q[m].start
    <3>0. l \in 1 .. k
      BY <1>1, <2>3
    <3>1. CASE m \in 1 .. k
      BY <1>4, <1>6, <2>3, <3>0, <3>1 DEF IsRuns
    <3>2. CASE m = next
      <4>0. Q[l].end \in Int /\ Q[k].start \in Int /\ Q[next].start \in Int
        BY <1>0, <1>1, <3>0
      <4>1. CASE run[l] = run[k]
        <5>1. Q[l].end <= sweep.end
          BY <1>4, <3>0, <4>1 DEF IsEnd, RunOf
        <5>2. QED
          BY <1>4, <3>2, <4>0, <5>1
      <4>2. CASE run[l] # run[k]
        <5>1. l < k
          BY <3>0, <4>2
        <5>2. Q[l].end <= Q[k].start
          BY <1>1, <1>4, <3>0, <4>2, <5>1 DEF IsRuns
        <5>3. Q[k].start <= Q[next].start
          BY <1>1, SweepableFacts
        <5>4. QED
          BY <3>2, <4>0, <5>2, <5>3
      <4>3. QED
        BY <4>1, <4>2
    <3>3. QED
      BY <1>1, <3>1, <3>2
  <2>4. ASSUME NEW m \in 1 .. next, more[m] # m
        PROVE  \E l \in 1 .. next : more[l] = more[m] /\ l < m /\ Q[m].start < Q[l].end
    <3>1. m \in 1 .. k
      BY <1>1, <1>6, <2>4
    <3>2. PICK l \in 1 .. k : run[l] = run[m] /\ l < m /\ Q[m].start < Q[l].end
      BY <1>4, <1>6, <2>4, <3>1 DEF IsRuns
    <3>3. QED
      BY <1>1, <1>6, <3>1, <3>2
  <2>5. QED
    BY <1>6, <2>1, <2>2, <2>3, <2>4 DEF IsRuns
<1>10. IsGroups(Q, next, more, groups, closed, {next})
  <2>1. /\ more[next] \in {next} /\ \A x \in {} : x \in {next}
        /\ \A g \in 1 .. Len(groups) : closed[g] \notin {next}
    BY <1>1, <1>3, <1>6 DEF IsGroups
  <2>2. QED
    BY <1>3, <1>6, <2>1, GroupsStay
<1>11. ListsIds(Q, {next}, <<Q[next].id>>) /\ <<Q[next].id>> \in Seq(ids)
  <2> DEFINE f == [m \in {next} |-> Q[m].id]
             p == [m \in {next} |-> 1]
             list == <<Q[next].id>>
  <2>0. list \in Seq(ids) /\ Len(list) = 1 /\ list[1] = Q[next].id
    BY <1>0, <1>1
  <2>1. Arranges(p, {next}, 1) /\ DOMAIN f = {next}
    BY DEF Arranges
  <2> HIDE DEF list
  <2>2. \A x \in {next} : list[p[x]] = f[x]
    BY <2>0
  <2>3. Lists(list, f)
    <3> HIDE DEF p, f
    <3>1. QED
      BY <2>0, <2>1, <2>2 DEF Lists
  <2>4. QED
    BY <2>0, <2>3 DEF ListsIds, list
<1>12. IsEnd(Q, {next}, Q[next].end) /\ Q[next].end \in Int
  BY <1>0, <1>1 DEF IsEnd
<1>13. IsSwept(Q, next, ids, more, closed, opened)
  <2>1. IsGroups(Q, next, more, opened.groups, closed, {more[next]})
    BY <1>6, <1>7, <1>10
  <2>2. opened.start = Q[more[next]].start /\ opened.groups \in Seq(GroupRecords(ids))
    BY <1>2, <1>6, <1>7
  <2>3. opened.end \in Int /\ IsEnd(Q, RunOf(next, more, more[next]), opened.end)
    BY <1>6, <1>7, <1>8, <1>12
  <2>4. opened.group \in Seq(ids) /\ ListsIds(Q, RunOf(next, more, more[next]), opened.group)
    BY <1>6, <1>7, <1>8, <1>11
  <2>5. QED
    BY <1>9, <2>1, <2>2, <2>3, <2>4 DEF IsSwept
<1>14. QED
  BY <1>13 DEF opened

\* f[j] is what the sweep has made of the first j intervals.
IsSweep(f, Q, k) ==
    f = [j \in 1 .. k |-> IF j = 1 THEN OpenGroup(<<>>, Q[1]) ELSE Sweep(f[j - 1], Q[j])]

LEMMA SweepExists ==
    ASSUME NEW Q, NEW n \in Nat
    PROVE  \E f : IsSweep(f, Q, n)
<1> DEFINE S == {k \in Nat : \E f : IsSweep(f, Q, k)}
<1>1. 0 \in S
  <2>1. IsSweep([i \in 1 .. 0 |-> 0], Q, 0)
    BY DEF IsSweep
  <2>2. QED
    BY <2>1
<1>2. ASSUME NEW k \in 0 .. n, k \in S PROVE k + 1 \in S
  <2>1. PICK f : IsSweep(f, Q, k)
    BY <1>2
  <2> DEFINE next == k + 1
             g == [j \in 1 .. next |-> IF j <= k THEN f[j]
                                       ELSE IF j = 1 THEN OpenGroup(<<>>, Q[1])
                                       ELSE Sweep(f[j - 1], Q[j])]
  <2>0. next \in Nat /\ next = k + 1
    OBVIOUS
  <2> HIDE DEF next
  <2>2. ASSUME NEW j \in 1 .. next
        PROVE  g[j] = IF j = 1 THEN OpenGroup(<<>>, Q[1]) ELSE Sweep(g[j - 1], Q[j])
    <3>1. j # 1 => j - 1 \in 1 .. k /\ g[j - 1] = f[j - 1]
      BY <2>0
    <3>2. ASSUME j <= k
          PROVE  f[j] = IF j = 1 THEN OpenGroup(<<>>, Q[1]) ELSE Sweep(f[j - 1], Q[j])
      <4>1. j \in 1 .. k
        BY <2>0, <3>2
      <4> HIDE DEF g
      <4>2. QED
        BY <2>1, <4>1, Zenon DEF IsSweep
    <3>3. QED
      BY <3>1, <3>2
  <2>3. IsSweep(g, Q, next)
    <3>1. g = [j \in 1 .. next |-> g[j]]
      OBVIOUS
    <3> HIDE DEF g
    <3>2. QED
      BY <2>2, <3>1, Zenon DEF IsSweep
  <2> HIDE DEF g
  <2>4. \E h : IsSweep(h, Q, next)
    BY <2>3
  <2>5. next \in S
    BY <2>0, <2>4
  <2>6. QED
    BY <2>5 DEF next
<1> HIDE DEF S
<1>3. 0 .. n \subseteq S
  <2>1. \A k \in 0 .. n : k \in S /\ k < n => k + 1 \in S
    BY <1>2
  <2>2. QED
    BY <1>1, <2>1, UpToBound
<1>4. n \in S
  BY <1>3
<1>5. QED
  BY <1>4 DEF S

\* The groups of a sweep: one for every run of two or more.
LEMMA Grouped ==
    ASSUME NEW ids, NEW Q, IsSweepable(Q, ids), Q # <<>>
    PROVE  /\ CloseGroup(SweepOf(Q)) \in Seq(GroupRecords(ids))
           /\ \E run, first : /\ IsRuns(Q, Len(Q), run)
                              /\ IsGroups(Q, Len(Q), run, CloseGroup(SweepOf(Q)), first, {})
<1> DEFINE n == Len(Q)
           sweep == CHOOSE sweep :
                      sweep = [k \in 1 .. n |-> IF k = 1 THEN OpenGroup(<<>>, Q[1])
                                                ELSE Sweep(sweep[k - 1], Q[k])]
           S == {k \in Nat : k \in 1 .. n => \E run, first : IsSwept(Q, k, ids, run, first, sweep[k])}
<1>1. n \in Nat \ {0}
  <2>1. Q \in Seq([id : ids, start : Int, end : Int])
    BY DEF IsSweepable
  <2>2. QED
    BY <2>1
<1>2. SweepOf(Q) = sweep[n]
  BY DEF SweepOf
<1>3. \A k \in 1 .. n : sweep[k] = IF k = 1 THEN OpenGroup(<<>>, Q[1]) ELSE Sweep(sweep[k - 1], Q[k])
  <2>1. \E f : IsSweep(f, Q, n)
    BY <1>1, SweepExists
  <2>2. sweep = [k \in 1 .. n |-> IF k = 1 THEN OpenGroup(<<>>, Q[1]) ELSE Sweep(sweep[k - 1], Q[k])]
    BY <2>1 DEF IsSweep
  <2> HIDE DEF sweep, n
  <2>3. QED
    BY <2>2
<1> HIDE DEF sweep
<1>4. 0 \in S
  OBVIOUS
<1>5. ASSUME NEW k \in 0 .. n, k \in S, k < n PROVE k + 1 \in S
  <2> DEFINE next == k + 1
  <2>0. next \in Nat /\ next = k + 1 /\ next \in 1 .. n /\ next - 1 = k
    BY <1>1, <1>5
  <2> HIDE DEF next
  <2>1. CASE k = 0
    <3>1. next = 1 /\ sweep[1] = OpenGroup(<<>>, Q[1])
      BY <1>3, <2>0, <2>1
    <3>2. \E run, first : IsSwept(Q, 1, ids, run, first, sweep[1])
      BY <1>1, <3>1, SweepStarts
    <3>3. next \in S
      BY <2>0, <3>1, <3>2
    <3>4. QED
      BY <3>3 DEF next
  <2>2. CASE k # 0
    <3>1. k \in 1 .. n /\ k \in Nat \ {0} /\ k < Len(Q)
      BY <1>1, <1>5, <2>2
    <3>2. PICK run, first : IsSwept(Q, k, ids, run, first, sweep[k])
      BY <1>5, <3>1
    <3>3. sweep[next] = Sweep(sweep[k], Q[next])
      <4>1. sweep[next] = Sweep(sweep[next - 1], Q[next])
        BY <1>3, <2>0, <2>2
      <4>2. QED
        BY <2>0, <4>1
    <3>4. \E more, closed : IsSwept(Q, next, ids, more, closed, sweep[next])
      <4>1. CASE Q[next].start < sweep[k].end
        BY <2>0, <3>1, <3>2, <3>3, <4>1, SweepJoins
      <4>2. CASE ~(Q[next].start < sweep[k].end)
        BY <2>0, <3>1, <3>2, <3>3, <4>2, SweepOpens
      <4>3. QED
        BY <4>1, <4>2
    <3>5. next \in S
      BY <2>0, <3>4
    <3>6. QED
      BY <3>5 DEF next
  <2>3. QED
    BY <2>1, <2>2
<1> HIDE DEF S
<1>6. 0 .. n \subseteq S
  <2>1. \A k \in 0 .. n : k \in S /\ k < n => k + 1 \in S
    BY <1>5
  <2>2. QED
    BY <1>1, <1>4, <2>1, UpToBound
<1>7. n \in S /\ n \in 1 .. n
  BY <1>1, <1>6
<1>8. PICK run, first : IsSwept(Q, n, ids, run, first, sweep[n])
  BY <1>7 DEF S
<1>9. n <= Len(Q)
  BY <1>1
<1> HIDE DEF n
<1>10. /\ CloseGroup(sweep[n]) \in Seq(GroupRecords(ids))
       /\ \E closed : IsGroups(Q, n, run, CloseGroup(sweep[n]), closed, {})
  BY <1>1, <1>8, <1>9, SweepCloses
<1>11. IsRuns(Q, n, run)
  BY <1>8 DEF IsSwept
<1>12. QED
  BY <1>2, <1>10, <1>11 DEF n

-----------------------------------------------------------------------------
(* What the planner makes of the repetitions of the emitters. *)

Repetitions(s) == {x \in (1 .. Len(s.emitters)) \X Nat : x[2] \in 1 .. s.emitters[x[1]].count}

EmitterOf(s, x) == s.emitters[x[1]]
IdOf(s, x) == InstructionId(EmitterOf(s, x), x[2])
WindowOf(s, x) == WindowsOf(EmitterOf(s, x))[x[2]]
RenderOf(s, x) == [id |-> IdOf(s, x), start |-> WindowOf(s, x).start,
                   duration |-> EmitterOf(s, x).duration]
IntervalOf(s, x) == [id |-> IdOf(s, x), start |-> WindowOf(s, x).start, end |-> WindowOf(s, x).end]

IdsOf(s) == {IdOf(s, x) : x \in Repetitions(s)}

\* What validation leaves of a scenario's emitters.
HasTimes(s) ==
    /\ Len(s.emitters) \in Nat /\ DOMAIN s.emitters = 1 .. Len(s.emitters)
    /\ \A i \in 1 .. Len(s.emitters) :
          LET em == s.emitters[i]
          IN  /\ RepeatOk(em)
              /\ em.start \in Int /\ em.duration \in Int /\ em.count \in Nat /\ em.interval \in Int

LEMMA WindowFacts ==
    ASSUME NEW s, HasTimes(s)
    PROVE  /\ \A i \in 1 .. Len(s.emitters) :
                 DOMAIN WindowsOf(s.emitters[i]) = 1 .. s.emitters[i].count
           /\ \A x \in Repetitions(s) :
                 /\ x[1] \in 1 .. Len(s.emitters) /\ x[2] \in 1 .. EmitterOf(s, x).count
                 /\ x = <<x[1], x[2]>>
                 /\ WindowOf(s, x).start = Plus(EmitterOf(s, x).start,
                                                Times(x[2] - 1, EmitterOf(s, x).interval))
                 /\ WindowOf(s, x).end = Plus(WindowOf(s, x).start, EmitterOf(s, x).duration)
                 /\ WindowOf(s, x).start \in Int /\ WindowOf(s, x).end \in Int
<1>1. ASSUME NEW i \in 1 .. Len(s.emitters)
      PROVE  LET em == s.emitters[i]
             IN  WindowsOf(em) = [r \in 1 .. em.count |->
                    Window(Plus(em.start, Times(r - 1, em.interval)), em.duration)]
  BY DEF HasTimes, WindowsOf
<1>2. ASSUME NEW x \in Repetitions(s)
      PROVE  /\ x[1] \in 1 .. Len(s.emitters) /\ x[2] \in 1 .. EmitterOf(s, x).count
             /\ x = <<x[1], x[2]>>
             /\ WindowOf(s, x).start = Plus(EmitterOf(s, x).start,
                                            Times(x[2] - 1, EmitterOf(s, x).interval))
             /\ WindowOf(s, x).end = Plus(WindowOf(s, x).start, EmitterOf(s, x).duration)
             /\ WindowOf(s, x).start \in Int /\ WindowOf(s, x).end \in Int
  <2> DEFINE em == EmitterOf(s, x)
             start == Plus(em.start, Times(x[2] - 1, em.interval))
  <2>1. /\ x[1] \in 1 .. Len(s.emitters) /\ x[2] \in 1 .. em.count /\ x[2] \in Nat
        /\ x = <<x[1], x[2]>>
    BY DEF Repetitions, EmitterOf
  <2>2. WindowOf(s, x) = Window(start, em.duration)
    <3>1. WindowsOf(em) = [r \in 1 .. em.count |->
                             Window(Plus(em.start, Times(r - 1, em.interval)), em.duration)]
      BY <1>1, <2>1, Zenon DEF EmitterOf
    <3>2. WindowOf(s, x) = WindowsOf(em)[x[2]]
      BY DEF WindowOf
    <3> HIDE DEF em
    <3>3. QED
      BY <2>1, <3>1, <3>2
  <2>3. em.start \in Int /\ em.duration \in Int /\ em.interval \in Int
    BY <2>1 DEF HasTimes, EmitterOf
  <2> HIDE DEF em
  <2>4. start \in Int /\ Plus(start, em.duration) \in Int
    <3>1. x[2] - 1 \in Int
      BY <2>1
    <3>2. QED
      BY <2>3, <3>1, TimesInt
  <2>5. WindowOf(s, x).start = start /\ WindowOf(s, x).end = Plus(start, em.duration)
    <3> HIDE DEF start
    <3>1. QED
      BY <2>2 DEF Window
  <2>6. QED
    BY <2>1, <2>4, <2>5 DEF em
<1>3. QED
  BY <1>1, <1>2

\* Every emitter is repeated at least once.
LEMMA EmitterIsRepeated ==
    ASSUME NEW s, HasTimes(s), NEW em \in ToSet(s.emitters)
    PROVE  \E x \in Repetitions(s) : EmitterOf(s, x) = em
<1>1. PICK i \in 1 .. Len(s.emitters) : em = s.emitters[i]
  BY DEF HasTimes, ToSet
<1>2. em.count \in Nat /\ em.count \in 1 .. MaxRepeatCount
  BY <1>1 DEF HasTimes, RepeatOk
<1>3. 1 \in 1 .. em.count
  BY <1>2, ScenarioAssumption
<1>4. <<i, 1>> \in Repetitions(s)
  BY <1>1, <1>3 DEF Repetitions
<1>5. QED
  BY <1>1, <1>4 DEF EmitterOf

Renders(s) == FlattenSeq([i \in DOMAIN s.emitters |-> Instructions(s.emitters[i])])

\* One render for every repetition.
LEMMA RendersList ==
    ASSUME NEW s, HasTimes(s)
    PROVE  /\ Renders(s) \in Seq({RenderOf(s, x) : x \in Repetitions(s)})
           /\ Lists(Renders(s), [x \in Repetitions(s) |-> RenderOf(s, x)])
<1> DEFINE seqs == [i \in DOMAIN s.emitters |-> Instructions(s.emitters[i])]
           X == {RenderOf(s, x) : x \in Repetitions(s)}
           n == Len(s.emitters)
           f == [x \in Repetitions(s) |-> RenderOf(s, x)]
<1>1. n \in Nat /\ DOMAIN s.emitters = 1 .. n /\ \A i \in 1 .. n : s.emitters[i].count \in Nat
  BY DEF HasTimes
<1>2. ASSUME NEW i \in 1 .. n
      PROVE  /\ Instructions(s.emitters[i]) \in Seq(X)
             /\ Len(Instructions(s.emitters[i])) = s.emitters[i].count
             /\ \A r \in 1 .. s.emitters[i].count :
                   Instructions(s.emitters[i])[r] = RenderOf(s, <<i, r>>)
  <2> DEFINE em == s.emitters[i]
  <2>1. DOMAIN WindowsOf(em) = 1 .. em.count /\ em.count \in Nat
    BY <1>1, WindowFacts
  <2>2. ASSUME NEW r \in 1 .. em.count
        PROVE  Instructions(em)[r] = RenderOf(s, <<i, r>>) /\ <<i, r>> \in Repetitions(s)
    BY <2>1 DEF Instructions, RenderOf, IdOf, WindowOf, EmitterOf, Repetitions
  <2>3. Instructions(em) = [r \in 1 .. em.count |-> Instructions(em)[r]]
    BY <2>1 DEF Instructions
  <2>4. \A r \in 1 .. em.count : Instructions(em)[r] \in X
    BY <2>2
  <2> HIDE DEF X, em
  <2>5. Instructions(em) \in [1 .. em.count -> X]
    BY <2>3, <2>4, Zenon
  <2>6. Instructions(em) \in Seq(X) /\ Len(Instructions(em)) = em.count
    BY <2>1, <2>5, SeqDef
  <2>7. QED
    BY <2>2, <2>6 DEF em
<1> HIDE DEF X
<1>3. seqs \in Seq(Seq(X)) /\ Len(seqs) = n /\ \A i \in 1 .. n : seqs[i] = Instructions(s.emitters[i])
  <2>1. seqs \in [1 .. n -> Seq(X)]
    BY <1>1, <1>2
  <2> HIDE DEF n
  <2>2. seqs \in Seq(Seq(X)) /\ Len(seqs) = n
    <3> HIDE DEF seqs
    <3>1. QED
      BY <1>1, <2>1, SeqDef
  <2>3. QED
    BY <1>1, <2>2
<1> HIDE DEF seqs
<1>4. Places(seqs) = Repetitions(s)
  BY <1>2, <1>3 DEF Places, Repetitions
<1>5. ASSUME NEW x \in Places(seqs) PROVE f[x] = seqs[x[1]][x[2]]
  <2>1. x \in Repetitions(s) /\ x[1] \in 1 .. n /\ x[2] \in 1 .. s.emitters[x[1]].count /\ x = <<x[1], x[2]>>
    BY <1>4, WindowFacts DEF EmitterOf
  <2>2. f[x] = RenderOf(s, x)
    BY <2>1
  <2>3. seqs[x[1]][x[2]] = RenderOf(s, <<x[1], x[2]>>)
    BY <1>2, <1>3, <2>1
  <2>4. QED
    BY <2>1, <2>2, <2>3
<1>6. DOMAIN f = Places(seqs)
  BY <1>4
<1> HIDE DEF f
<1>7. FlattenSeq(seqs) \in Seq(X) /\ Lists(FlattenSeq(seqs), f)
  BY <1>3, <1>5, <1>6, ListsFlat
<1>8. QED
  BY <1>7 DEF Renders, X, f, seqs

MixedOn(s, key) == {x \in Repetitions(s) : /\ EmitterOf(s, x).additive
                                           /\ PlannerKey(s, EmitterOf(s, x)) = key}

\* One interval for every additive repetition on the channel.
LEMMA IntervalsList ==
    ASSUME NEW s, HasTimes(s), NEW key
    PROVE  /\ MixIntervals(s, key) \in Seq([id : IdsOf(s), start : Int, end : Int])
           /\ Lists(MixIntervals(s, key), [x \in MixedOn(s, key) |-> IntervalOf(s, x)])
<1> DEFINE On(em) == em.additive /\ PlannerKey(s, em) = key
           seqs == [i \in DOMAIN s.emitters |->
                      IF On(s.emitters[i]) THEN Intervals(s.emitters[i]) ELSE <<>>]
           X == [id : IdsOf(s), start : Int, end : Int]
           n == Len(s.emitters)
           f == [x \in MixedOn(s, key) |-> IntervalOf(s, x)]
<1>1. n \in Nat /\ DOMAIN s.emitters = 1 .. n /\ \A i \in 1 .. n : s.emitters[i].count \in Nat
  BY DEF HasTimes
<1>2. ASSUME NEW i \in 1 .. n
      PROVE  /\ Intervals(s.emitters[i]) \in Seq(X)
             /\ Len(Intervals(s.emitters[i])) = s.emitters[i].count
             /\ \A r \in 1 .. s.emitters[i].count :
                   Intervals(s.emitters[i])[r] = IntervalOf(s, <<i, r>>)
  <2> DEFINE em == s.emitters[i]
  <2>1. DOMAIN WindowsOf(em) = 1 .. em.count /\ em.count \in Nat
    BY <1>1, WindowFacts
  <2>2. ASSUME NEW r \in 1 .. em.count
        PROVE  Intervals(em)[r] = IntervalOf(s, <<i, r>>) /\ <<i, r>> \in Repetitions(s)
    BY <2>1 DEF Intervals, IntervalOf, IdOf, WindowOf, EmitterOf, Repetitions
  <2>3. Intervals(em) = [r \in 1 .. em.count |-> Intervals(em)[r]]
    BY <2>1 DEF Intervals
  <2>4. ASSUME NEW r \in 1 .. em.count PROVE Intervals(em)[r] \in X
    <3>1. <<i, r>> \in Repetitions(s)
      BY <2>2
    <3>2. IdOf(s, <<i, r>>) \in IdsOf(s)
      BY <3>1 DEF IdsOf
    <3>3. WindowOf(s, <<i, r>>).start \in Int /\ WindowOf(s, <<i, r>>).end \in Int
      BY <3>1, WindowFacts
    <3>4. IntervalOf(s, <<i, r>>) \in X
      BY <3>2, <3>3 DEF IntervalOf
    <3>5. QED
      BY <2>2, <3>4
  <2> HIDE DEF X, em
  <2>5. Intervals(em) \in [1 .. em.count -> X]
    BY <2>3, <2>4, Zenon
  <2>6. Intervals(em) \in Seq(X) /\ Len(Intervals(em)) = em.count
    BY <2>1, <2>5, SeqDef
  <2>7. QED
    BY <2>2, <2>6 DEF em
<1> HIDE DEF X
<1>3. /\ seqs \in Seq(Seq(X)) /\ Len(seqs) = n
      /\ \A i \in 1 .. n : /\ On(s.emitters[i]) => seqs[i] = Intervals(s.emitters[i])
                           /\ ~On(s.emitters[i]) => Len(seqs[i]) = 0
  <2>1. seqs \in [1 .. n -> Seq(X)]
    BY <1>1, <1>2, EmptySeq
  <2> HIDE DEF n
  <2>2. seqs \in Seq(Seq(X)) /\ Len(seqs) = n
    <3> HIDE DEF seqs
    <3>1. QED
      BY <1>1, <2>1, SeqDef
  <2>3. QED
    BY <1>1, <2>2
<1> HIDE DEF seqs
<1>4. Places(seqs) = MixedOn(s, key)
  <2>1. ASSUME NEW x PROVE x \in Places(seqs) <=> x \in MixedOn(s, key)
    <3>1. x \in Places(seqs) <=> x \in (1 .. n) \X Nat /\ x[2] \in 1 .. Len(seqs[x[1]])
      BY <1>3 DEF Places
    <3>2. x \in MixedOn(s, key) <=> /\ x \in (1 .. n) \X Nat /\ x[2] \in 1 .. s.emitters[x[1]].count
                                    /\ On(s.emitters[x[1]])
      BY DEF MixedOn, Repetitions, EmitterOf
    <3> HIDE DEF On
    <3>3. QED
      BY <1>2, <1>3, <3>1, <3>2
  <2>2. QED
    BY <2>1
<1>5. ASSUME NEW x \in Places(seqs) PROVE f[x] = seqs[x[1]][x[2]]
  <2>1. /\ x \in MixedOn(s, key) /\ x[1] \in 1 .. n /\ x[2] \in 1 .. s.emitters[x[1]].count
        /\ x = <<x[1], x[2]>> /\ On(s.emitters[x[1]])
    BY <1>4, WindowFacts DEF EmitterOf, MixedOn
  <2>2. f[x] = IntervalOf(s, x)
    BY <2>1
  <2>3. seqs[x[1]][x[2]] = IntervalOf(s, <<x[1], x[2]>>)
    <3> HIDE DEF On
    <3>1. QED
      BY <1>2, <1>3, <2>1
  <2>4. QED
    BY <2>1, <2>2, <2>3
<1>6. DOMAIN f = Places(seqs)
  BY <1>4
<1> HIDE DEF f
<1>7. FlattenSeq(seqs) \in Seq(X) /\ Lists(FlattenSeq(seqs), f)
  BY <1>3, <1>5, <1>6, ListsFlat
<1>8. QED
  BY <1>7 DEF MixIntervals, X, f, seqs

LEMMA ListsReindexed ==
    ASSUME NEW seq, NEW f, Lists(seq, f), NEW D, NEW p,
           \A x \in D : p[x] \in DOMAIN f, \A x, y \in D : p[x] = p[y] => x = y,
           \A d \in DOMAIN f : \E x \in D : p[x] = d,
           NEW g, DOMAIN g = D, \A x \in D : g[x] = f[p[x]]
    PROVE  Lists(seq, g)
<1>1. PICK q : Arranges(q, DOMAIN f, Len(seq)) /\ \A x \in DOMAIN f : seq[q[x]] = f[x]
  BY DEF Lists
<1> DEFINE r == [x \in D |-> q[p[x]]]
<1>2. \A x \in D : r[x] = q[p[x]]
  OBVIOUS
<1>3. r \in [D -> 1 .. Len(seq)]
  BY <1>1 DEF Arranges
<1> HIDE DEF r
<1>4. Arranges(r, D, Len(seq))
  <2>1. \A x, y \in D : r[x] = r[y] => x = y
    BY <1>1, <1>2 DEF Arranges
  <2>2. ASSUME NEW k \in 1 .. Len(seq) PROVE \E x \in D : r[x] = k
    <3>1. PICK d \in DOMAIN f : q[d] = k
      BY <1>1 DEF Arranges
    <3>2. PICK x \in D : p[x] = d
      OBVIOUS
    <3>3. QED
      BY <1>2, <3>1, <3>2
  <2>3. QED
    BY <1>3, <2>1, <2>2 DEF Arranges
<1>5. \A x \in D : seq[r[x]] = g[x]
  BY <1>1, <1>2
<1>6. QED
  BY <1>4, <1>5 DEF Lists

\* A mix group of some repetitions: it starts with the first of them and ends
\* with the last to end, and there is no gap in it.
IsMix(s, members, group) ==
    /\ Lists(group.members, [x \in members |-> IdOf(s, x)])
    /\ \E x, y \in members : x # y
    /\ \E x \in members : group.start = WindowOf(s, x).start
    /\ \A x \in members : group.start <= WindowOf(s, x).start
    /\ \E y \in members :
          /\ group.start < WindowOf(s, y).end
          /\ group.duration = Minus(WindowOf(s, y).end, group.start)
          /\ \A x \in members : WindowOf(s, x).end <= WindowOf(s, y).end
          /\ \A lo, hi \in Int : lo <= hi /\ group.start < hi /\ lo < WindowOf(s, y).end =>
                \E x \in members : lo < WindowOf(s, x).end /\ WindowOf(s, x).start < hi

\* Which repetition is in which group; 0 for what is alone.
IsMixing(s, key, groups, of) ==
    /\ of \in [MixedOn(s, key) -> 0 .. Len(groups)]
    /\ \A g \in 1 .. Len(groups) : IsMix(s, {x \in MixedOn(s, key) : of[x] = g}, groups[g])
    /\ \A x, y \in MixedOn(s, key) :
          x # y /\ Overlap(WindowOf(s, x), WindowOf(s, y)) => of[x] = of[y] /\ of[x] # 0

HaveTimes(Q, k) == \A m \in 1 .. k : Q[m].start \in Int /\ Q[m].end \in Int

\* What a run covers.
LEMMA RunCovers ==
    ASSUME NEW Q, NEW k \in Nat, NEW run, IsRuns(Q, k, run), HaveTimes(Q, k),
           NEW m \in 1 .. k, run[run[m]] = run[m]
    PROVE  \A lo, hi \in Int :
              lo <= hi /\ Q[run[m]].start < hi /\ lo < Q[m].end =>
                 \E l \in 1 .. k : run[l] = run[m] /\ lo < Q[l].end /\ Q[l].start < hi
<1> SUFFICES ASSUME NEW lo \in Int, NEW hi \in Int,
                    lo <= hi, Q[run[m]].start < hi, lo < Q[m].end
             PROVE  \E l \in 1 .. k : run[l] = run[m] /\ lo < Q[l].end /\ Q[l].start < hi
  OBVIOUS
<1> DEFINE r == run[m]
           S == {l \in 1 .. k : run[l] = r /\ lo < Q[l].end}
<1>1. PICK l \in S : \A j \in S : l <= j
  <2>1. S \in SUBSET Nat /\ m \in S
    OBVIOUS
  <2> HIDE DEF S
  <2>2. QED
    BY <2>1, Smallest
<1>2. l \in 1 .. k /\ run[l] = r /\ lo < Q[l].end
  BY <1>1
<1>3. Q[l].start < hi
  <2>1. SUFFICES ASSUME ~(Q[l].start < hi) PROVE FALSE
    OBVIOUS
  <2>2. l # r
    BY <2>1
  <2>3. PICK j \in 1 .. k : run[j] = run[l] /\ j < l /\ Q[l].start < Q[j].end
    BY <1>2, <2>2 DEF IsRuns
  <2>4. lo < Q[j].end
    <3>1. Q[j].end \in Int /\ Q[l].start \in Int
      BY <1>2 DEF HaveTimes
    <3>2. QED
      BY <2>1, <2>3, <3>1
  <2>5. j \in S
    BY <1>2, <2>3, <2>4
  <2>6. l <= j
    BY <1>1, <2>5
  <2>7. QED
    BY <1>2, <2>3, <2>6
<1>4. QED
  BY <1>2, <1>3

\* Every repetition that overlaps another on its channel is in a group with it.
LEMMA MixGroupsAre ==
    ASSUME NEW s, HasTimes(s), NEW key
    PROVE  /\ MixGroupsOn(s, key) \in Seq(GroupRecords(IdsOf(s)))
           /\ \E of : IsMixing(s, key, MixGroupsOn(s, key), of)
<1> DEFINE intervals == MixIntervals(s, key)
           X == [id : IdsOf(s), start : Int, end : Int]
           D == MixedOn(s, key)
           f == [x \in D |-> IntervalOf(s, x)]
           Q == ByStart(intervals)
           n == Len(Q)
           groups == MixGroupsOn(s, key)
<1>1. intervals \in Seq(X) /\ Lists(intervals, f)
  BY IntervalsList
<1>2. \A x \in X : x.start \in Int
  OBVIOUS
<1> HIDE DEF intervals, f
<1>3. Lists(Q, f) /\ IsSweepable(Q, IdsOf(s)) /\ n \in Nat
  <2>1. Lists(Q, f)
    <3> HIDE DEF X
    <3>1. QED
      BY <1>1, <1>2, ListsSorted
  <2>2. /\ Q \in Seq(X) /\ Len(Q) = Len(intervals)
        /\ \A i, j \in 1 .. Len(intervals) : i < j => Q[i].start <= Q[j].start
    <3> HIDE DEF X
    <3>1. QED
      BY <1>1, <1>2, Sorted
  <2>3. Len(Q) \in Nat
    <3> HIDE DEF X
    <3>1. QED
      BY <1>1, <2>2
  <2>4. QED
    BY <2>1, <2>2, <2>3 DEF IsSweepable
<1>4. groups = IF Q = <<>> THEN <<>> ELSE CloseGroup(SweepOf(Q))
  BY DEF MixGroupsOn, intervals
<1>5. PICK p : Arranges(p, D, n) /\ \A x \in D : Q[p[x]] = IntervalOf(s, x)
  <2>1. DOMAIN f = D /\ \A x \in D : f[x] = IntervalOf(s, x)
    BY DEF f
  <2>2. PICK p : Arranges(p, DOMAIN f, n) /\ \A x \in DOMAIN f : Q[p[x]] = f[x]
    BY <1>3 DEF Lists
  <2>3. QED
    BY <2>1, <2>2
<1> HIDE DEF Q, n, groups
<1>6. CASE Q = <<>>
  <2>1. groups = <<>> /\ n = 0
    BY <1>4, <1>6 DEF n
  <2>2. D = {}
    BY <1>5, <2>1 DEF Arranges
  <2>3. IsMixing(s, key, groups, [x \in D |-> 0])
    BY <2>1, <2>2 DEF IsMixing
  <2>4. QED
    BY <2>1, <2>3, EmptySeq DEF groups
<1>7. CASE Q # <<>>
  <2>1. groups \in Seq(GroupRecords(IdsOf(s)))
    BY <1>3, <1>4, <1>7, Grouped
  <2>2. PICK run, first : IsRuns(Q, n, run) /\ IsGroups(Q, n, run, groups, first, {})
    BY <1>3, <1>4, <1>7, Grouped DEF n
  <2>3. \A m \in 1 .. n : Q[m].start \in Int /\ Q[m].end \in Int
    BY <1>3, SweepableFacts DEF n
  <2> DEFINE In(x, g) == g \in 1 .. Len(groups) /\ first[g] = run[p[x]]
             of == [x \in D |-> IF \E g : In(x, g) THEN CHOOSE g : In(x, g) ELSE 0]
  <2>4. ASSUME NEW x \in D
        PROVE  /\ p[x] \in 1 .. n /\ run[p[x]] \in 1 .. n
               /\ Q[p[x]].start = WindowOf(s, x).start /\ Q[p[x]].end = WindowOf(s, x).end
               /\ Q[p[x]].id = IdOf(s, x)
    <3>1. p[x] \in 1 .. n
      BY <1>5 DEF Arranges
    <3>2. run[p[x]] \in 1 .. n
      BY <2>2, <3>1 DEF IsRuns
    <3>3. Q[p[x]] = IntervalOf(s, x)
      BY <1>5
    <3>4. /\ IntervalOf(s, x).start = WindowOf(s, x).start
          /\ IntervalOf(s, x).end = WindowOf(s, x).end /\ IntervalOf(s, x).id = IdOf(s, x)
      BY DEF IntervalOf
    <3>5. QED
      BY <3>1, <3>2, <3>3, <3>4
  <2>5. Len(groups) \in Nat
    BY <2>1
  <2>6. ASSUME NEW x \in D
        PROVE  /\ of[x] \in 0 .. Len(groups)
               /\ \A g \in 1 .. Len(groups) : of[x] = g <=> first[g] = run[p[x]]
    <3>1. \A g, h : In(x, g) /\ In(x, h) => g = h
      BY <2>2 DEF IsGroups
    <3>2. ASSUME NEW g, In(x, g) PROVE of[x] = g
      BY <3>1, <3>2
    <3>3. ASSUME ~ \E g : In(x, g) PROVE of[x] = 0
      BY <3>3
    <3>4. \A g : In(x, g) => g \in 1 .. Len(groups)
      OBVIOUS
    <3>5. \A g \in 1 .. Len(groups) : In(x, g) <=> first[g] = run[p[x]]
      OBVIOUS
    <3> HIDE DEF In, of
    <3>6. QED
      BY <2>5, <3>2, <3>3, <3>4, <3>5
  <2> HIDE DEF of
  <2>7. ASSUME NEW g \in 1 .. Len(groups)
        PROVE  IsMix(s, {x \in D : of[x] = g}, groups[g])
    <3> DEFINE group == groups[g]
               r == first[g]
               members == {x \in D : of[x] = g}
               places == RunOf(n, run, r)
               h == [m \in places |-> Q[m].id]
               list == [x \in members |-> IdOf(s, x)]
    <3>1. IsGroup(Q, n, run, group, r)
      BY <2>2 DEF IsGroups
    <3>2. /\ \A x \in members : p[x] \in places
          /\ \A m \in places : \E x \in members : p[x] = m
      <4>1. \A x \in members : p[x] \in places
        BY <2>4, <2>6 DEF RunOf
      <4>2. ASSUME NEW m \in places PROVE \E x \in members : p[x] = m
        <5>1. m \in 1 .. n /\ run[m] = r
          BY DEF RunOf
        <5>2. PICK x \in D : p[x] = m
          BY <1>5, <5>1 DEF Arranges
        <5>3. QED
          BY <2>6, <5>1, <5>2
      <4>3. QED
        BY <4>1, <4>2
    <3>3. \A x, y \in members : p[x] = p[y] => x = y
      BY <1>5 DEF Arranges
    <3>4. r \in 1 .. n /\ run[r] = r /\ group.start = Q[r].start
      BY <3>1 DEF IsGroup
    <3>5. \A x \in members : x \in D
      OBVIOUS
    <3> HIDE DEF members, r, group
    <3>6. Lists(group.members, list)
      <4>1. Lists(group.members, h)
        BY <3>1 DEF IsGroup, ListsIds
      <4>2. DOMAIN h = places /\ \A x \in members : list[x] = h[p[x]]
        BY <2>4, <3>2, <3>5
      <4>3. DOMAIN list = members
        OBVIOUS
      <4> HIDE DEF h, list, places
      <4>4. QED
        BY <3>2, <3>3, <4>1, <4>2, <4>3, ListsReindexed
    <3>7. \E x, y \in members : x # y
      <4>1. Lists(group.members, h) /\ Len(group.members) >= 2
        BY <3>1 DEF IsGroup, ListsIds
      <4>2. Len(group.members) \in Nat
        <5>1. group \in GroupRecords(IdsOf(s))
          BY <2>1 DEF group
        <5>2. group.members \in Seq(IdsOf(s))
          BY <5>1 DEF GroupRecords
        <5>3. QED
          BY <5>2
      <4>3. DOMAIN h = places
        OBVIOUS
      <4> HIDE DEF h, places
      <4>4. \E l, m \in places : l # m
        BY <4>1, <4>2, <4>3, ListsTwo
      <4>5. QED
        BY <3>2, <4>4
    <3>8. PICK z \in members : p[z] = r
      BY <3>2, <3>4 DEF RunOf
    <3>9. group.start = WindowOf(s, z).start
      BY <2>4, <3>4, <3>5, <3>8
    <3>10. ASSUME NEW x \in members PROVE group.start <= WindowOf(s, x).start
      <4>1. p[x] \in 1 .. n /\ run[p[x]] = r
        BY <3>2 DEF RunOf
      <4>2. r <= p[x]
        BY <2>2, <4>1 DEF IsRuns
      <4>3. Q[r].start <= Q[p[x]].start
        <5>1. r = p[x] \/ r < p[x]
          BY <3>4, <4>1, <4>2
        <5>2. Q[r].start \in Int
          BY <2>3, <3>4
        <5>3. CASE r < p[x]
          BY <1>3, <3>4, <4>1, <5>3, SweepableFacts DEF n
        <5>4. QED
          BY <5>1, <5>2, <5>3
      <4>4. QED
        BY <2>4, <3>4, <3>5, <4>3
    <3>11. PICK end \in Int : /\ IsEnd(Q, places, end)
                              /\ group.start < end /\ group.duration = Minus(end, group.start)
      BY <3>1 DEF IsGroup
    <3>12. PICK y \in members : WindowOf(s, y).end = end
      <4>1. PICK m \in places : Q[m].end = end
        BY <3>11 DEF IsEnd
      <4>2. QED
        BY <2>4, <3>2, <3>5, <4>1
    <3>13. ASSUME NEW x \in members PROVE WindowOf(s, x).end <= end
      BY <2>4, <3>2, <3>5, <3>11 DEF IsEnd
    <3>14. ASSUME NEW lo \in Int, NEW hi \in Int, lo <= hi, group.start < hi, lo < end
           PROVE  \E x \in members : lo < WindowOf(s, x).end /\ WindowOf(s, x).start < hi
      <4>1. PICK m \in 1 .. n : run[m] = r /\ Q[m].end = end
        BY <3>11 DEF IsEnd, RunOf
      <4>2. \E l \in 1 .. n : run[l] = r /\ lo < Q[l].end /\ Q[l].start < hi
        <5>1. IsRuns(Q, n, run) /\ n \in Nat /\ HaveTimes(Q, n) /\ run[run[m]] = run[m]
          BY <1>3, <2>2, <2>3, <3>4, <4>1 DEF HaveTimes
        <5>2. \A b, c \in Int : b <= c /\ Q[run[m]].start < c /\ b < Q[m].end =>
                 \E l \in 1 .. n : run[l] = run[m] /\ b < Q[l].end /\ Q[l].start < c
          BY <5>1, RunCovers
        <5>3. Q[run[m]].start < hi /\ lo < Q[m].end /\ lo <= hi
          BY <3>4, <3>14, <4>1
        <5>4. \E l \in 1 .. n : run[l] = run[m] /\ lo < Q[l].end /\ Q[l].start < hi
          BY <5>2, <5>3, Zenon
        <5>5. QED
          BY <4>1, <5>4
      <4>3. PICK l \in 1 .. n : run[l] = r /\ lo < Q[l].end /\ Q[l].start < hi
        BY <4>2
      <4>4. PICK x \in members : p[x] = l
        BY <3>2, <4>3 DEF RunOf
      <4>5. QED
        BY <2>4, <3>5, <4>3, <4>4
    <3>15. IsMix(s, members, group)
      BY <3>6, <3>7, <3>8, <3>9, <3>10, <3>11, <3>12, <3>13, <3>14 DEF IsMix
    <3>16. QED
      BY <3>15 DEF members, group
  <2>8. ASSUME NEW x \in D, NEW y \in D, x # y, Overlap(WindowOf(s, x), WindowOf(s, y))
        PROVE  of[x] = of[y] /\ of[x] # 0
    <3>1. p[x] # p[y] /\ p[x] \in 1 .. n /\ p[y] \in 1 .. n
      BY <1>5, <2>8 DEF Arranges
    <3>2. Q[p[x]].start < Q[p[y]].end /\ Q[p[y]].start < Q[p[x]].end
      BY <2>4, <2>8 DEF Overlap
    <3>3. run[p[x]] = run[p[y]]
      <4>1. \A l, m \in 1 .. n : l < m /\ run[l] # run[m] => Q[l].end <= Q[m].start
        BY <2>2 DEF IsRuns
      <4>2. p[x] < p[y] \/ p[y] < p[x]
        BY <3>1
      <4>3. /\ Q[p[x]].start \in Int /\ Q[p[x]].end \in Int
            /\ Q[p[y]].start \in Int /\ Q[p[y]].end \in Int
        BY <2>3, <3>1
      <4>4. QED
        BY <3>1, <3>2, <4>1, <4>2, <4>3
    <3>4. PICK m \in {p[x], p[y]} : run[m] # m
      BY <3>1, <3>3
    <3>5. m \in 1 .. n /\ run[m] = run[p[x]]
      BY <3>1, <3>3, <3>4
    <3>6. PICK g \in 1 .. Len(groups) : first[g] = run[m]
      BY <2>2, <3>4, <3>5 DEF IsGroups
    <3>7. of[x] = g /\ of[y] = g
      BY <2>6, <3>3, <3>5, <3>6
    <3>8. QED
      BY <2>5, <3>6, <3>7
  <2>9. of \in [D -> 0 .. Len(groups)]
    BY <2>6 DEF of
  <2>10. IsMixing(s, key, groups, of)
    BY <2>7, <2>8, <2>9 DEF IsMixing
  <2>11. QED
    BY <2>1, <2>10 DEF groups
<1>8. QED
  BY <1>6, <1>7

\* SetToSeq lists a set.
LEMMA SetListed ==
    ASSUME NEW S, IsFiniteSet(S)
    PROVE  /\ SetToSeq(S) \in Seq(S)
           /\ \A i, j \in 1 .. Len(SetToSeq(S)) : SetToSeq(S)[i] = SetToSeq(S)[j] => i = j
           /\ \A v \in S : \E i \in 1 .. Len(SetToSeq(S)) : SetToSeq(S)[i] = v
<1> DEFINE n == Cardinality(S)
           seq == SetToSeq(S)
<1>1. n \in Nat /\ \E f \in [1 .. n -> S] : IsInjective(f)
  <2>1. n \in Nat /\ ExistsBijection(1 .. n, S)
    BY FS_CardinalityType
  <2>2. QED
    BY <2>1 DEF ExistsBijection, Bijection, Injection
<1>2. seq \in [1 .. n -> S] /\ IsInjective(seq)
  <2>1. seq = CHOOSE f \in [1 .. n -> S] : IsInjective(f)
    BY DEF SetToSeq
  <2> HIDE DEF seq, n
  <2>2. QED
    BY <1>1, <2>1
<1> HIDE DEF seq, n
<1>3. seq \in Seq(S) /\ Len(seq) = n /\ DOMAIN seq = 1 .. n
  BY <1>1, <1>2, SeqDef
<1>4. \A i, j \in 1 .. n : seq[i] = seq[j] => i = j
  BY <1>2, <1>3 DEF IsInjective
<1>5. seq \in Surjection(1 .. n, S)
  <2>1. seq \in Injection(1 .. n, S)
    BY <1>2 DEF Injection
  <2>2. Cardinality(1 .. n) = Cardinality(S)
    BY <1>1, FS_Interval DEF n
  <2>3. QED
    BY <2>1, <2>2, FS_Injection
<1>6. \A v \in S : \E i \in 1 .. n : seq[i] = v
  BY <1>5 DEF Surjection
<1>7. QED
  BY <1>3, <1>4, <1>6 DEF seq

KeysOf(s) == {PlannerKey(s, em) : em \in ToSet(s.emitters)}

GroupPlaces(s) == {y \in KeysOf(s) \X Nat : y[2] \in 1 .. Len(MixGroupsOn(s, y[1]))}

GroupAt(s, y) == LET group == MixGroupsOn(s, y[1])[y[2]]
                 IN  [device |-> y[1][1], channel |-> y[1][2], start |-> group.start,
                      duration |-> group.duration, members |-> group.members]

\* The mix groups of a plan are those of its channels.
LEMMA MixGroupsList ==
    ASSUME NEW s, HasTimes(s)
    PROVE  /\ MixGroups(s) \in Seq({GroupAt(s, y) : y \in GroupPlaces(s)})
           /\ Lists(MixGroups(s), [y \in GroupPlaces(s) |-> GroupAt(s, y)])
<1> DEFINE X == {GroupAt(s, y) : y \in GroupPlaces(s)}
           OfKey(key) == [i \in DOMAIN MixGroupsOn(s, key) |->
                            [device |-> key[1], channel |-> key[2],
                             start |-> MixGroupsOn(s, key)[i].start,
                             duration |-> MixGroupsOn(s, key)[i].duration,
                             members |-> MixGroupsOn(s, key)[i].members]]
           S == {OfKey(key) : key \in KeysOf(s)}
           seqs == SetToSeq(S)
           n == Len(s.emitters)
           f == [x \in Places(seqs) |-> seqs[x[1]][x[2]]]
           g == [y \in GroupPlaces(s) |-> GroupAt(s, y)]
<1>1. MixGroups(s) = FlattenSeq(seqs)
  BY DEF MixGroups, KeysOf
<1>2. ASSUME NEW key \in KeysOf(s)
      PROVE  /\ OfKey(key) \in Seq(X) /\ Len(OfKey(key)) = Len(MixGroupsOn(s, key))
             /\ Len(MixGroupsOn(s, key)) \in Nat
             /\ \A i \in 1 .. Len(MixGroupsOn(s, key)) :
                   <<key, i>> \in GroupPlaces(s) /\ OfKey(key)[i] = GroupAt(s, <<key, i>>)
  <2> DEFINE groups == MixGroupsOn(s, key)
             k == Len(groups)
  <2>1. groups \in Seq(GroupRecords(IdsOf(s)))
    BY MixGroupsAre
  <2>2. k \in Nat /\ DOMAIN groups = 1 .. k
    <3> HIDE DEF groups
    <3>1. QED
      BY <2>1
  <2>3. ASSUME NEW i \in 1 .. k
        PROVE  <<key, i>> \in GroupPlaces(s) /\ OfKey(key)[i] = GroupAt(s, <<key, i>>)
    <3>1. i \in Nat
      BY <2>2
    <3>2. <<key, i>> \in GroupPlaces(s)
      BY <3>1 DEF GroupPlaces
    <3>3. OfKey(key)[i] = GroupAt(s, <<key, i>>)
      BY <2>2 DEF GroupAt
    <3>4. QED
      BY <3>2, <3>3
  <2>4. OfKey(key) = [i \in 1 .. k |-> OfKey(key)[i]]
    BY <2>2
  <2>5. \A i \in 1 .. k : OfKey(key)[i] \in X
    BY <2>3
  <2> HIDE DEF X, OfKey, k
  <2>6. OfKey(key) \in [1 .. k -> X]
    BY <2>4, <2>5, Zenon
  <2>7. OfKey(key) \in Seq(X) /\ Len(OfKey(key)) = k
    BY <2>2, <2>6, SeqDef
  <2>8. QED
    BY <2>2, <2>3, <2>7 DEF k
<1> HIDE DEF OfKey, X
<1>3. IsFiniteSet(S)
  <2> DEFINE of == [i \in 1 .. n |-> OfKey(PlannerKey(s, s.emitters[i]))]
  <2>1. n \in Nat /\ DOMAIN s.emitters = 1 .. n
    BY DEF HasTimes
  <2>2. S = {of[i] : i \in 1 .. n}
    BY <2>1 DEF KeysOf, ToSet
  <2>3. of \in Surjection(1 .. n, S)
    <3>1. \A i \in 1 .. n : of[i] \in S
      BY <2>2
    <3>2. \A v \in S : \E i \in 1 .. n : of[i] = v
      BY <2>2
    <3>3. of = [i \in 1 .. n |-> of[i]]
      OBVIOUS
    <3> HIDE DEF of, S, n
    <3>4. of \in [1 .. n -> S]
      BY <3>1, <3>3, Zenon
    <3>5. QED
      BY <3>2, <3>4 DEF Surjection
  <2>4. IsFiniteSet(1 .. n)
    BY <2>1, FS_Interval
  <2> HIDE DEF of, S, n
  <2>5. QED
    BY <2>3, <2>4, FS_Surjection
<1>4. /\ seqs \in Seq(S)
      /\ \A i, j \in 1 .. Len(seqs) : seqs[i] = seqs[j] => i = j
      /\ \A v \in S : \E i \in 1 .. Len(seqs) : seqs[i] = v
  <2> HIDE DEF S
  <2>1. QED
    BY <1>3, SetListed
<1> HIDE DEF seqs
<1>5. seqs \in Seq(Seq(X)) /\ Len(seqs) \in Nat /\ \A i \in 1 .. Len(seqs) : seqs[i] \in S
  <2>1. S \subseteq Seq(X)
    BY <1>2
  <2> HIDE DEF S
  <2>2. \A i \in 1 .. Len(seqs) : seqs[i] \in S
    BY <1>4
  <2>3. seqs \in [1 .. Len(seqs) -> Seq(X)] /\ Len(seqs) \in Nat
    BY <1>4, <2>1, <2>2
  <2>4. QED
    BY <2>2, <2>3, SeqDef
<1>6. FlattenSeq(seqs) \in Seq(X) /\ Lists(FlattenSeq(seqs), f)
  <2>1. DOMAIN f = Places(seqs) /\ \A x \in Places(seqs) : f[x] = seqs[x[1]][x[2]]
    OBVIOUS
  <2> HIDE DEF f
  <2>2. QED
    BY <1>5, <2>1, ListsFlat
<1>7. \A key \in KeysOf(s) : \E i \in 1 .. Len(seqs) : seqs[i] = OfKey(key)
  BY <1>4
<1> DEFINE at == [key \in KeysOf(s) |-> CHOOSE i \in 1 .. Len(seqs) : seqs[i] = OfKey(key)]
           p == [y \in GroupPlaces(s) |-> <<at[y[1]], y[2]>>]
<1>8. \A key \in KeysOf(s) : at[key] \in 1 .. Len(seqs) /\ seqs[at[key]] = OfKey(key)
  BY <1>7
<1> HIDE DEF at
<1>9. ASSUME NEW y \in GroupPlaces(s)
      PROVE  /\ y[1] \in KeysOf(s) /\ y[2] \in Nat /\ y[2] \in 1 .. Len(MixGroupsOn(s, y[1]))
             /\ y = <<y[1], y[2]>>
             /\ p[y] = <<at[y[1]], y[2]>> /\ p[y] \in Places(seqs)
             /\ OfKey(y[1])[y[2]] = GroupAt(s, y)
             /\ g[y] = f[p[y]]
  <2>1. /\ y[1] \in KeysOf(s) /\ y[2] \in Nat /\ y[2] \in 1 .. Len(MixGroupsOn(s, y[1]))
        /\ y = <<y[1], y[2]>>
    BY DEF GroupPlaces
  <2>2. p[y] \in Places(seqs)
    BY <1>2, <1>8, <2>1 DEF Places
  <2>3. OfKey(y[1])[y[2]] = GroupAt(s, y)
    BY <1>2, <2>1
  <2>4. f[p[y]] = GroupAt(s, y)
    BY <1>8, <2>1, <2>2, <2>3
  <2>5. QED
    BY <2>1, <2>2, <2>3, <2>4
<1>10. ASSUME NEW y \in GroupPlaces(s), NEW z \in GroupPlaces(s), p[y] = p[z] PROVE y = z
  <2>1. at[y[1]] = at[z[1]] /\ y[2] = z[2]
    BY <1>9, <1>10
  <2>2. OfKey(y[1]) = OfKey(z[1])
    <3>1. y[1] \in KeysOf(s) /\ z[1] \in KeysOf(s)
      BY <1>9
    <3>2. seqs[at[y[1]]] = OfKey(y[1]) /\ seqs[at[z[1]]] = OfKey(z[1])
      BY <1>8, <3>1
    <3>3. QED
      BY <2>1, <3>2
  <2>3. GroupAt(s, y) = GroupAt(s, z)
    BY <1>9, <2>1, <2>2
  <2>4. y[1][1] = z[1][1] /\ y[1][2] = z[1][2]
    <3>1. /\ GroupAt(s, y).device = y[1][1] /\ GroupAt(s, y).channel = y[1][2]
          /\ GroupAt(s, z).device = z[1][1] /\ GroupAt(s, z).channel = z[1][2]
      BY DEF GroupAt
    <3>2. QED
      BY <2>3, <3>1
  <2>5. \A key \in KeysOf(s) : key = <<key[1], key[2]>>
    BY DEF KeysOf, PlannerKey
  <2>6. y[1] = z[1]
    <3>1. y[1] \in KeysOf(s) /\ z[1] \in KeysOf(s)
      BY <1>9
    <3>2. y[1] = <<y[1][1], y[1][2]>> /\ z[1] = <<z[1][1], z[1][2]>>
      BY <2>5, <3>1, Zenon
    <3>3. QED
      BY <2>4, <3>2, Zenon
  <2>7. QED
    BY <1>9, <2>1, <2>6
<1>11. ASSUME NEW x \in Places(seqs) PROVE \E y \in GroupPlaces(s) : p[y] = x
  <2>1. x[1] \in 1 .. Len(seqs) /\ x[2] \in Nat /\ x[2] \in 1 .. Len(seqs[x[1]]) /\ x = <<x[1], x[2]>>
    BY DEF Places
  <2>2. PICK key \in KeysOf(s) : seqs[x[1]] = OfKey(key)
    BY <1>5, <2>1
  <2>3. at[key] = x[1]
    BY <1>4, <1>8, <2>1, <2>2
  <2>4. x[2] \in 1 .. Len(MixGroupsOn(s, key))
    BY <1>2, <2>1, <2>2
  <2>5. <<key, x[2]>> \in GroupPlaces(s)
    BY <1>2, <2>4
  <2>6. p[<<key, x[2]>>] = x
    BY <2>1, <2>3, <2>5
  <2>7. QED
    BY <2>5, <2>6
<1>12. Lists(FlattenSeq(seqs), g)
  <2>1. DOMAIN g = GroupPlaces(s) /\ DOMAIN f = Places(seqs)
    OBVIOUS
  <2>2. /\ \A y \in GroupPlaces(s) : p[y] \in DOMAIN f
        /\ \A y \in GroupPlaces(s) : g[y] = f[p[y]]
        /\ \A x \in DOMAIN f : \E y \in GroupPlaces(s) : p[y] = x
        /\ \A y, z \in GroupPlaces(s) : p[y] = p[z] => y = z
    BY <1>9, <1>10, <1>11, <2>1
  <2> DEFINE D == GroupPlaces(s)
             flat == FlattenSeq(seqs)
  <2>3. Lists(flat, f)
    BY <1>6
  <2> HIDE DEF f, g, p, D, flat
  <2>4. Lists(flat, g)
    BY <2>1, <2>2, <2>3, ListsReindexed DEF D
  <2>5. QED
    BY <2>4 DEF flat
<1>13. QED
  BY <1>1, <1>6, <1>12 DEF X, g
=============================================================================
