------------------------ MODULE EventDispatcherProofs ------------------------
(***************************************************************************)
(* For any number of events, delays and starts: what the dispatcher fires, *)
(* in which order, when, and what a cancel stops.  All of it follows from  *)
(* what has been fired since the last start(): the events before the one   *)
(* that run() works on, in the order of their times.                       *)
(***************************************************************************)
EXTENDS EventDispatcher, TLAPS, FiniteSetTheorems, SequenceTheorems

Firing == [event : Nat, run : 0 .. MaxStarts, due : Nat, at : Nat, late : BOOLEAN]

Types ==
    /\ TypeOK
    /\ fired \in Seq(Firing)
    /\ \A i \in DOMAIN fired : fired[i].run <= starts

AtAnEvent == {"test", "block", "asleep", "recheck", "callback"}

\* Where the thread is in the sorted list, and that the time has come.
Working ==
    dpc # "none" =>
        /\ order \in Sortings(events)
        /\ dpc \in AtAnEvent => next <= Len(events)
        /\ dpc = "callback" \/ (dpc = "recheck" /\ ~cancelled) => now >= Due(next)
        /\ dpc = "done" /\ ~cancelled => next > Len(events)

\* What has fired is what comes before the event at hand.
Fired ==
    dpc # "none" =>
        /\ \A i \in FiredNow : \E k \in 1 .. next - 1 :
               fired[i].event = order[k] /\ fired[i].due = Due(k)
        /\ ~cancelled => \A k \in 1 .. next - 1 : \E i \in FiredNow : fired[i].event = order[k]

\* A callback after the flag is the last one.
Late == \A i \in FiredNow : fired[i].late => cancelled /\ dpc \notin AtAnEvent

IInv == Types /\ Working /\ Fired /\ Late /\ NeverEarly /\ TimeOrder /\ CancelBounds /\ Accounted

-----------------------------------------------------------------------------
(* Lemmas about the data. *)

\* A sorting has each event once, in the order of the times.
LEMMA SortingFacts ==
    ASSUME NEW s \in Seq(0 .. MaxDelay), NEW p \in Sortings(s)
    PROVE  /\ p \in [1 .. Len(s) -> 1 .. Len(s)] /\ Len(p) = Len(s) /\ Len(s) \in Nat
           /\ \A i, j \in 1 .. Len(s) : i < j => p[i] # p[j] /\ s[p[i]] <= s[p[j]]
           /\ \A e \in 1 .. Len(s) : \E k \in 1 .. Len(s) : p[k] = e
<1> DEFINE n == Len(s)
           I == 1 .. n
<1>1. n \in Nat /\ DOMAIN s = I
  BY LenProperties
<1>2. p \in [I -> I] /\ \A i, j \in I : (i # j => p[i] # p[j]) /\ (i < j => s[p[i]] <= s[p[j]])
  BY <1>1 DEF Sortings
<1>3. p \in Seq(I)
  BY <1>1, <1>2, SeqDef
<1>4. Len(p) = n
  <2>1. Len(p) \in Nat /\ 1 .. Len(p) = I
    BY <1>2, <1>3, LenProperties
  <2>2. QED
    BY <1>1, <2>1
<1>5. p \in Injection(I, I)
  BY <1>2 DEF Injection, IsInjective
<1>6. p \in Surjection(I, I)
  BY <1>1, <1>5, FS_Injection, FS_Interval
<1>7. \A i, j \in I : i < j => i # j
  BY <1>1
<1>8. QED
  BY <1>1, <1>2, <1>4, <1>6, <1>7 DEF Surjection

\* The callback's entry is the last one of what fired.
LEMMA AppendFacts ==
    ASSUME fired \in Seq(Firing), NEW f \in Firing
    PROVE  LET longer == Append(fired, f) IN
           /\ longer \in Seq(Firing) /\ Len(fired) \in Nat /\ Len(longer) = Len(fired) + 1
           /\ DOMAIN fired = 1 .. Len(fired) /\ DOMAIN longer = 1 .. Len(fired) + 1
           /\ \A i \in 1 .. Len(fired) : longer[i] = fired[i]
           /\ longer[Len(fired) + 1] = f
BY AppendProperties, LenProperties

-----------------------------------------------------------------------------
(* The steps, those first that fire nothing. *)

\* What no longer concerns a step that leaves the lists and the counts alone.
LEMMA Kept ==
    ASSUME IInv, UNCHANGED <<api, counts>>
    PROVE  FiredNow' = FiredNow /\ NeverEarly' /\ TimeOrder' /\ Sortings(events)' = Sortings(events)
<1>1. UNCHANGED <<events, order, epoch, starts, dispatched, failed, fired>>
  BY DEF api, counts
<1>2. FiredNow' = FiredNow
  BY <1>1 DEF FiredNow
<1>3. NeverEarly' /\ TimeOrder'
  BY <1>1, <1>2 DEF IInv, NeverEarly, TimeOrder
<1>4. QED
  BY <1>1, <1>2, <1>3 DEF Sortings

LEMMA QuietStep ==
    ASSUME IInv,
           \/ WaitComplete \/ CancelSet \/ CancelNotify \/ Join \/ Check \/ Test \/ Block
           \/ Timeout \/ Recheck \/ SpuriousWake \/ Tick \/ UNCHANGED vars
    PROVE  IInv'
<1>1. UNCHANGED <<api, counts>>
  BY DEF WaitComplete, CancelSet, CancelNotify, Join, Check, Test, Block, Timeout, Recheck,
         SpuriousWake, Tick, Goto, vars, api, counts
<1>2. /\ UNCHANGED <<events, order, epoch, starts, dispatched, failed, fired>>
      /\ Len(events) \in Nat /\ events \in Seq(0 .. MaxDelay)
  BY <1>1, LenProperties DEF api, counts, IInv, Types, TypeOK
<1>3. FiredNow' = FiredNow /\ NeverEarly' /\ TimeOrder' /\ Sortings(events)' = Sortings(events)
  BY <1>1, Kept
<1>4. dpc # "none" => Len(order) = Len(events)
  BY <1>2, SortingFacts DEF IInv, Working
<1>5. dpc \in AtAnEvent => Due(next) \in Nat
  <2>1. SUFFICES ASSUME dpc \in AtAnEvent PROVE Due(next) \in Nat
    OBVIOUS
  <2>2. order \in Sortings(events) /\ next \in 1 .. Len(events) /\ epoch \in Nat
    BY <1>2, <2>1, DispatcherBounds DEF IInv, Types, TypeOK, Working, AtAnEvent
  <2>3. order[next] \in 1 .. Len(events)
    <3>1. order \in [1 .. Len(events) -> 1 .. Len(events)]
      BY <1>2, <2>2, SortingFacts
    <3>2. QED
      BY <2>2, <3>1
  <2>4. events[order[next]] \in Nat
    BY <1>2, <2>3, DispatcherBounds, ElementOfSeq
  <2>5. QED
    BY <2>2, <2>4 DEF Due
\* At the end of the list every event has fired.
<1>6. dpc = "check" /\ next > Len(events) /\ ~cancelled =>
          \A e \in 1 .. Len(events) : \E i \in FiredNow : fired[i].event = e
  <2>1. SUFFICES ASSUME dpc = "check", next > Len(events), ~cancelled, NEW e \in 1 .. Len(events)
                 PROVE  \E i \in FiredNow : fired[i].event = e
    OBVIOUS
  <2>2. PICK k \in 1 .. Len(events) : order[k] = e
    BY <1>2, <2>1, SortingFacts DEF IInv, Working
  <2>3. k \in 1 .. next - 1
    BY <1>2, <2>1 DEF IInv, Types, TypeOK
  <2>4. QED
    BY <2>1, <2>2, <2>3 DEF IInv, Fired
<1>WaitComplete. CASE WaitComplete
  <2>1. Types' /\ Working'
    BY <1>2, <1>3, <1>4, <1>WaitComplete, DispatcherBounds
    DEF WaitComplete, IInv, Types, TypeOK, Working, AtAnEvent, DispatcherSteps, OwnerSteps, Due
  <2>2. Fired' /\ Late' /\ CancelBounds' /\ Accounted'
    BY <1>2, <1>3, <1>4, <1>WaitComplete
    DEF WaitComplete, IInv, Types, TypeOK, Working, Fired, Late, CancelBounds, Accounted, AtAnEvent, Due
  <2>3. QED
    BY <1>3, <2>1, <2>2 DEF IInv
<1>CancelSet. CASE CancelSet
  <2>1. Types' /\ Working'
    BY <1>2, <1>3, <1>4, <1>CancelSet, DispatcherBounds
    DEF CancelSet, IInv, Types, TypeOK, Working, AtAnEvent, DispatcherSteps, OwnerSteps, Due
  <2>2. Fired' /\ Late' /\ CancelBounds' /\ Accounted'
    BY <1>2, <1>3, <1>4, <1>CancelSet
    DEF CancelSet, IInv, Types, TypeOK, Working, Fired, Late, CancelBounds, Accounted, AtAnEvent, Due
  <2>3. QED
    BY <1>3, <2>1, <2>2 DEF IInv
<1>CancelNotify. CASE CancelNotify
  <2>1. Types' /\ Working'
    BY <1>2, <1>3, <1>4, <1>CancelNotify, DispatcherBounds
    DEF CancelNotify, IInv, Types, TypeOK, Working, AtAnEvent, DispatcherSteps, OwnerSteps, Due
  <2>2. Fired' /\ Late' /\ CancelBounds' /\ Accounted'
    BY <1>2, <1>3, <1>4, <1>CancelNotify
    DEF CancelNotify, IInv, Types, TypeOK, Working, Fired, Late, CancelBounds, Accounted, AtAnEvent, Due
  <2>3. QED
    BY <1>3, <2>1, <2>2 DEF IInv
<1>Join. CASE Join
  <2>1. Types' /\ Working'
    BY <1>2, <1>3, <1>4, <1>Join, DispatcherBounds
    DEF Join, IInv, Types, TypeOK, Working, AtAnEvent, DispatcherSteps, OwnerSteps, Due
  <2>2. Fired' /\ Late' /\ CancelBounds' /\ Accounted'
    BY <1>2, <1>3, <1>4, <1>Join
    DEF Join, IInv, Types, TypeOK, Working, Fired, Late, CancelBounds, Accounted, AtAnEvent, Due
  <2>3. QED
    BY <1>3, <2>1, <2>2 DEF IInv
<1>Check. CASE Check
  <2>1. Types' /\ Working'
    BY <1>2, <1>3, <1>4, <1>Check, DispatcherBounds
    DEF Check, Goto, IInv, Types, TypeOK, Working, AtAnEvent, DispatcherSteps, OwnerSteps, Due
  <2>2. Fired' /\ Late' /\ CancelBounds'
    BY <1>2, <1>3, <1>Check
    DEF Check, Goto, IInv, Types, TypeOK, Fired, Late, CancelBounds, AtAnEvent, Due
  <2>3. DOMAIN events = 1 .. Len(events)
    BY <1>2, LenProperties
  <2>4. Accounted'
    BY <1>2, <1>3, <1>4, <1>6, <1>Check, <2>3 DEF Check, Goto, IInv, Accounted
  <2>5. QED
    BY <1>3, <2>1, <2>2, <2>4 DEF IInv
<1>Test. CASE Test
  <2>1. Types' /\ Working'
    BY <1>2, <1>3, <1>4, <1>Test, DispatcherBounds
    DEF Test, Goto, IInv, Types, TypeOK, Working, AtAnEvent, DispatcherSteps, OwnerSteps, Due
  <2>2. Fired' /\ Late' /\ CancelBounds' /\ Accounted'
    BY <1>2, <1>3, <1>4, <1>Test
    DEF Test, Goto, IInv, Types, TypeOK, Working, Fired, Late, CancelBounds, Accounted, AtAnEvent, Due
  <2>3. QED
    BY <1>3, <2>1, <2>2 DEF IInv
<1>Block. CASE Block
  <2>1. Types' /\ Working'
    BY <1>2, <1>3, <1>4, <1>Block, DispatcherBounds
    DEF Block, Goto, IInv, Types, TypeOK, Working, AtAnEvent, DispatcherSteps, OwnerSteps, Due
  <2>2. Fired' /\ Late' /\ CancelBounds' /\ Accounted'
    BY <1>2, <1>3, <1>4, <1>Block
    DEF Block, Goto, IInv, Types, TypeOK, Working, Fired, Late, CancelBounds, Accounted, AtAnEvent, Due
  <2>3. QED
    BY <1>3, <2>1, <2>2 DEF IInv
<1>Timeout. CASE Timeout
  <2>1. Types' /\ Working'
    BY <1>2, <1>3, <1>4, <1>Timeout, DispatcherBounds
    DEF Timeout, Goto, IInv, Types, TypeOK, Working, AtAnEvent, DispatcherSteps, OwnerSteps, Due
  <2>2. Fired' /\ Late' /\ CancelBounds' /\ Accounted'
    BY <1>2, <1>3, <1>4, <1>Timeout
    DEF Timeout, Goto, IInv, Types, TypeOK, Working, Fired, Late, CancelBounds, Accounted, AtAnEvent, Due
  <2>3. QED
    BY <1>3, <2>1, <2>2 DEF IInv
<1>Recheck. CASE Recheck
  <2>1. Types' /\ Working'
    BY <1>2, <1>3, <1>4, <1>Recheck, DispatcherBounds
    DEF Recheck, IInv, Types, TypeOK, Working, AtAnEvent, DispatcherSteps, OwnerSteps, Due
  <2>2. Fired' /\ Late' /\ CancelBounds' /\ Accounted'
    BY <1>2, <1>3, <1>4, <1>Recheck
    DEF Recheck, IInv, Types, TypeOK, Working, Fired, Late, CancelBounds, Accounted, AtAnEvent, Due
  <2>3. QED
    BY <1>3, <2>1, <2>2 DEF IInv
<1>SpuriousWake. CASE SpuriousWake
  <2>1. Types' /\ Working'
    BY <1>2, <1>3, <1>4, <1>SpuriousWake, DispatcherBounds
    DEF SpuriousWake, Goto, IInv, Types, TypeOK, Working, AtAnEvent, DispatcherSteps, OwnerSteps, Due
  <2>2. Fired' /\ Late' /\ CancelBounds' /\ Accounted'
    BY <1>2, <1>3, <1>4, <1>SpuriousWake
    DEF SpuriousWake, Goto, IInv, Types, TypeOK, Working, Fired, Late, CancelBounds, Accounted, AtAnEvent, Due
  <2>3. QED
    BY <1>3, <2>1, <2>2 DEF IInv
<1>Tick. CASE Tick
  <2>1. Types' /\ Working'
    BY <1>2, <1>3, <1>4, <1>5, <1>Tick, DispatcherBounds
    DEF Tick, IInv, Types, TypeOK, Working, AtAnEvent, DispatcherSteps, OwnerSteps, Due
  <2>2. Fired' /\ Late' /\ CancelBounds' /\ Accounted'
    BY <1>2, <1>3, <1>4, <1>Tick
    DEF Tick, IInv, Types, TypeOK, Working, Fired, Late, CancelBounds, Accounted, AtAnEvent, Due
  <2>3. QED
    BY <1>3, <2>1, <2>2 DEF IInv
<1>Stutter. CASE UNCHANGED vars
  BY <1>2, <1>3, <1>Stutter
  DEF vars, IInv, Types, TypeOK, Working, Fired, Late, CancelBounds, Accounted, Due
<1> QED
  BY <1>WaitComplete, <1>CancelSet, <1>CancelNotify, <1>Join, <1>Check, <1>Test, <1>Block, <1>Timeout, <1>Recheck, <1>SpuriousWake, <1>Tick, <1>Stutter

-----------------------------------------------------------------------------
(* schedule and start, which have no thread beside them; the callback. *)

LEMMA ScheduleStep == ASSUME IInv, NEW t \in 0 .. MaxDelay, Schedule(t) PROVE IInv'
<1>1. /\ dpc = "none" /\ Len(events) < MaxEvents /\ events' = Append(events, t)
      /\ UNCHANGED <<now, order, epoch, cancelled, opc, dpc, next, dispatched, failed, fired, starts>>
  BY DEF Schedule, counts
<1>2. /\ events \in Seq(0 .. MaxDelay) /\ Len(events) \in Nat
      /\ events' \in Seq(0 .. MaxDelay) /\ Len(events') = Len(events) + 1
  BY <1>1, LenProperties, AppendProperties DEF IInv, Types, TypeOK
<1>3. FiredNow' = FiredNow
  BY <1>1 DEF FiredNow
<1>4. Types'
  <2>1. Len(order) <= Len(events)' /\ next \in 1 .. Len(events)' + 1 /\ Len(events)' <= MaxEvents
    <3>1. Len(order) \in Int \/ Len(order) <= Len(events) + 1
      OBVIOUS
    <3>2. QED
      BY <1>1, <1>2, DispatcherBounds DEF IInv, Types, TypeOK
  <2>2. QED
    BY <1>1, <1>2, <2>1 DEF IInv, Types, TypeOK
<1>5. Working' /\ Fired' /\ Late' /\ CancelBounds' /\ Accounted' /\ NeverEarly' /\ TimeOrder'
  BY <1>1, <1>3 DEF IInv, Working, Fired, Late, CancelBounds, Accounted, NeverEarly, TimeOrder, AtAnEvent
<1>6. QED
  BY <1>4, <1>5 DEF IInv

\* Nothing has fired since this start.
LEMMA StartStep == ASSUME IInv, Start PROVE IInv'
<1>1. /\ dpc = "none" /\ dpc' = "check" /\ order' \in Sortings(events) /\ cancelled' = FALSE
      /\ starts < MaxStarts /\ starts' = starts + 1 /\ next' = 1 /\ epoch' = now
      /\ UNCHANGED <<now, events, opc, dispatched, failed, fired>>
  BY DEF Start, counts
<1>2. /\ events \in Seq(0 .. MaxDelay) /\ Len(events) \in Nat /\ Len(order') = Len(events)
      /\ starts \in Nat
  BY <1>1, LenProperties, SortingFacts, DispatcherBounds DEF IInv, Types, TypeOK
<1>3. \A i \in DOMAIN fired : fired[i].run \in Int /\ fired[i].run <= starts
  <2>1. fired \in Seq(Firing) /\ DOMAIN fired = 1 .. Len(fired)
    BY LenProperties DEF IInv, Types
  <2>2. SUFFICES ASSUME NEW i \in DOMAIN fired
                 PROVE  fired[i].run \in Int /\ fired[i].run <= starts
    OBVIOUS
  <2>3. fired[i] \in Firing
    BY <2>1, <2>2, ElementOfSeq
  <2>4. QED
    BY <2>2, <2>3, DispatcherBounds DEF IInv, Types, Firing
<1>4. FiredNow' = {}
  BY <1>1, <1>2, <1>3 DEF FiredNow
<1>5. Sortings(events)' = Sortings(events)
  BY <1>1 DEF Sortings
<1>6. Types'
  <2>1. \A i \in DOMAIN fired : fired[i].run <= starts'
    BY <1>1, <1>2, <1>3
  <2>2. next' \in 1 .. Len(events)' + 1 /\ starts' \in 0 .. MaxStarts /\ Len(order)' <= Len(events)'
    BY <1>1, <1>2, DispatcherBounds
  <2>3. TypeOK'
    BY <1>1, <2>2 DEF IInv, Types, TypeOK, DispatcherSteps
  <2>4. QED
    BY <1>1, <2>1, <2>3 DEF IInv, Types
<1>7. Working' /\ Fired'
  BY <1>1, <1>4, <1>5 DEF Working, Fired, AtAnEvent
<1>8. Late' /\ CancelBounds' /\ Accounted' /\ NeverEarly' /\ TimeOrder'
  BY <1>1, <1>4 DEF IInv, Late, CancelBounds, Accounted, NeverEarly, TimeOrder
<1>9. QED
  BY <1>6, <1>7, <1>8 DEF IInv

\* The event at hand is later than what has fired, and none of it.
LEMMA CallbackStep == ASSUME IInv, NEW ok \in BOOLEAN, Callback(ok) PROVE IInv'
<1> DEFINE f == [event |-> order[next], run |-> starts, due |-> Due(next), at |-> now,
                 late |-> cancelled]
           last == Len(fired) + 1
           n == Len(events)
<1>1. /\ dpc = "callback" /\ dpc' = "check" /\ next' = next + 1 /\ fired' = Append(fired, f)
      /\ dispatched' + failed' = dispatched + failed + 1 /\ dispatched' \in Nat /\ failed' \in Nat
      /\ UNCHANGED <<now, events, order, epoch, starts, cancelled, opc>>
  BY DEF Callback, api, IInv, Types, TypeOK
<1>2. /\ events \in Seq(0 .. MaxDelay) /\ n \in Nat /\ order \in Sortings(events)
      /\ next \in 1 .. n /\ now \in Nat /\ epoch \in Nat /\ starts \in 0 .. MaxStarts
      /\ cancelled \in BOOLEAN /\ now >= Due(next)
  BY <1>1, LenProperties, DispatcherBounds DEF IInv, Types, TypeOK, Working, AtAnEvent
<1>3. /\ order \in [1 .. n -> 1 .. n] /\ Len(order) = n
      /\ \A i, j \in 1 .. n : i < j => order[i] # order[j] /\ events[order[i]] <= events[order[j]]
  BY <1>2, SortingFacts
<1>4. \A k \in 1 .. n : order[k] \in Nat /\ Due(k) \in Nat
  <2>1. SUFFICES ASSUME NEW k \in 1 .. n PROVE order[k] \in Nat /\ Due(k) \in Nat
    OBVIOUS
  <2>2. order[k] \in 1 .. n
    BY <1>3
  <2>3. events[order[k]] \in Nat
    BY <1>2, <2>2, ElementOfSeq, DispatcherBounds
  <2>4. QED
    BY <1>2, <2>2, <2>3 DEF Due
<1>5. \A k \in 1 .. next - 1 : order[k] # order[next] /\ Due(k) <= Due(next)
  <2>1. SUFFICES ASSUME NEW k \in 1 .. next - 1 PROVE order[k] # order[next] /\ Due(k) <= Due(next)
    OBVIOUS
  <2>2. k \in 1 .. n /\ k < next
    BY <1>2
  <2>3. order[k] # order[next] /\ events[order[k]] <= events[order[next]]
    BY <1>2, <1>3, <2>2
  <2>4. events[order[k]] \in Nat /\ events[order[next]] \in Nat
    <3>1. order[k] \in 1 .. n /\ order[next] \in 1 .. n
      BY <1>2, <1>3, <2>2
    <3>2. \A e \in 1 .. n : events[e] \in Nat
      BY <1>2, ElementOfSeq, DispatcherBounds
    <3>3. QED
      BY <3>1, <3>2
  <2>5. QED
    BY <1>2, <2>3, <2>4 DEF Due
<1>6. f \in Firing /\ f.run = starts /\ f.due = Due(next) /\ f.event = order[next]
      /\ f.late = cancelled /\ f.at = now
  BY <1>2, <1>4 DEF Firing
<1> HIDE DEF f
<1>7. /\ fired' \in Seq(Firing) /\ Len(fired) \in Nat /\ Len(fired') = last
      /\ DOMAIN fired = 1 .. Len(fired) /\ DOMAIN fired' = 1 .. last
      /\ \A i \in 1 .. Len(fired) : fired'[i] = fired[i]
      /\ fired'[last] = f
  BY <1>1, <1>6, AppendFacts DEF IInv, Types
<1>8. /\ FiredNow' = FiredNow \cup {last} /\ last \notin FiredNow
      /\ \A i \in FiredNow : i \in 1 .. Len(fired) /\ fired'[i] = fired[i]
  <2>1. \A i : i \in 1 .. last <=> i \in 1 .. Len(fired) \/ i = last
    BY <1>7
  <2>2. last \notin 1 .. Len(fired)
    BY <1>7
  <2>3. QED
    BY <1>1, <1>6, <1>7, <2>1, <2>2 DEF FiredNow
<1>9. Types' /\ Working'
  <2>1. \A i \in DOMAIN fired' : fired'[i].run <= starts'
    BY <1>1, <1>2, <1>6, <1>7 DEF IInv, Types
  <2>2. Types'
    BY <1>1, <1>2, <1>7, <2>1 DEF IInv, Types, TypeOK, DispatcherSteps
  <2>3. Sortings(events)' = Sortings(events)
    BY <1>1 DEF Sortings
  <2>4. QED
    BY <1>1, <1>2, <2>2, <2>3 DEF Working, AtAnEvent
<1>10. Fired'
  <2>1. \A k : Due(k)' = Due(k)
    BY <1>1 DEF Due
  <2>2. \A k : k \in 1 .. next' - 1 <=> k \in 1 .. next - 1 \/ k = next
    BY <1>1, <1>2
  <2>3. \A i \in FiredNow' : \E k \in 1 .. next' - 1 :
            fired'[i].event = order'[k] /\ fired'[i].due = Due(k)'
    <3>1. SUFFICES ASSUME NEW i \in FiredNow'
                   PROVE  \E k \in 1 .. next' - 1 :
                              fired'[i].event = order'[k] /\ fired'[i].due = Due(k)'
      OBVIOUS
    <3>2. CASE i = last
      BY <1>1, <1>6, <1>7, <2>1, <2>2, <3>2
    <3>3. CASE i \in FiredNow
      <4>1. PICK k \in 1 .. next - 1 : fired[i].event = order[k] /\ fired[i].due = Due(k)
        BY <1>1, <3>3 DEF IInv, Fired
      <4>2. QED
        BY <1>1, <1>8, <2>1, <2>2, <3>3, <4>1
    <3>4. QED
      BY <1>8, <3>1, <3>2, <3>3
  <2>4. ~cancelled' => \A k \in 1 .. next' - 1 : \E i \in FiredNow' : fired'[i].event = order'[k]
    <3>1. SUFFICES ASSUME ~cancelled, NEW k \in 1 .. next' - 1
                   PROVE  \E i \in FiredNow' : fired'[i].event = order[k]
      BY <1>1
    <3>2. CASE k = next
      BY <1>6, <1>7, <1>8, <3>2
    <3>3. CASE k \in 1 .. next - 1
      <4>1. PICK i \in FiredNow : fired[i].event = order[k]
        BY <1>1, <3>1, <3>3 DEF IInv, Fired
      <4>2. QED
        BY <1>8, <4>1
    <3>4. QED
      BY <2>2, <3>1, <3>2, <3>3
  <2>5. QED
    BY <2>3, <2>4 DEF Fired
<1>11. TimeOrder'
  <2>1. \A i \in FiredNow : fired[i].due <= f.due /\ fired[i].event # f.event /\ i < last
    <3>1. SUFFICES ASSUME NEW i \in FiredNow
                   PROVE  fired[i].due <= f.due /\ fired[i].event # f.event /\ i < last
      OBVIOUS
    <3>2. PICK k \in 1 .. next - 1 : fired[i].event = order[k] /\ fired[i].due = Due(k)
      BY <1>1 DEF IInv, Fired
    <3>3. QED
      BY <1>5, <1>6, <1>7, <1>8, <3>2
  <2>2. SUFFICES ASSUME NEW i \in FiredNow', NEW j \in FiredNow', i < j
                 PROVE  fired'[i].due <= fired'[j].due /\ fired'[i].event # fired'[j].event
    BY DEF TimeOrder
  <2>3. i \in FiredNow
    BY <1>7, <1>8, <2>1, <2>2
  <2>4. CASE j = last
    BY <1>7, <1>8, <2>1, <2>3, <2>4
  <2>5. CASE j \in FiredNow
    BY <1>8, <2>2, <2>3, <2>5 DEF IInv, TimeOrder
  <2>6. QED
    BY <1>8, <2>2, <2>4, <2>5
<1>12. NeverEarly'
  BY <1>2, <1>6, <1>7 DEF IInv, NeverEarly
<1>13. Late' /\ CancelBounds'
  <2>1. \A i \in FiredNow : ~fired[i].late
    BY <1>1 DEF IInv, Late, AtAnEvent
  <2>2. \A i \in FiredNow' : fired'[i].late => i = last /\ cancelled
    BY <1>6, <1>7, <1>8, <2>1
  <2>3. QED
    BY <1>1, <2>2 DEF IInv, Late, CancelBounds, AtAnEvent
<1>14. Accounted'
  BY <1>1, <1>7 DEF IInv, Accounted, Types, TypeOK
<1>15. QED
  BY <1>9, <1>10, <1>11, <1>12, <1>13, <1>14 DEF IInv

-----------------------------------------------------------------------------
LEMMA Initial == Init => IInv
<1>1. SUFFICES ASSUME Init PROVE IInv
  OBVIOUS
<1>2. events = <<>> /\ order = <<>> /\ fired = <<>> /\ Len(<<>>) = 0 /\ FiredNow = {}
  BY <1>1, EmptySeq DEF Init, FiredNow
<1>3. events \in Seq(0 .. MaxDelay) /\ fired \in Seq(Firing)
  BY <1>2, EmptySeq
<1>4. Types
  <2>1. DOMAIN fired = 1 .. 0
    BY <1>2, <1>3, LenProperties
  <2>2. now \in 0 .. Horizon /\ epoch \in 0 .. Horizon /\ starts \in 0 .. MaxStarts
    BY <1>1, DispatcherBounds DEF Init
  <2>3. next \in 1 .. Len(events) + 1 /\ Len(order) <= Len(events) /\ Len(events) <= MaxEvents
    BY <1>1, <1>2, DispatcherBounds DEF Init
  <2>4. TypeOK
    BY <1>1, <1>3, <2>2, <2>3 DEF Init, TypeOK, OwnerSteps, DispatcherSteps
  <2>5. QED
    BY <1>3, <2>1, <2>4 DEF Types
<1>5. QED
  BY <1>1, <1>2, <1>4
  DEF Init, IInv, Working, Fired, Late, NeverEarly, TimeOrder, CancelBounds, Accounted

LEMMA Invariance == Spec => []IInv
<1>1. IInv /\ [Next]_vars => IInv'
  BY QuietStep, ScheduleStep, StartStep, CallbackStep DEF Next, Dispatch
<1>2. QED
  BY Initial, <1>1, PTL DEF Spec

\* For all bounds, every variable of the dispatcher stays in its type.
THEOREM TypeCorrect == Spec => []TypeOK
<1>1. IInv => TypeOK
  BY DEF IInv, Types
<1>2. QED
  BY Invariance, <1>1, PTL

\* Whatever wakes run() up, no callback runs before its time.
THEOREM FiresInTime == Spec => []NeverEarly
<1>1. IInv => NeverEarly
  BY DEF IInv
<1>2. QED
  BY Invariance, <1>1, PTL

\* For any number of events, with equal times or not, they fire in the order of
\* their times and none of them twice.
THEOREM FiresInOrder == Spec => []TimeOrder
<1>1. IInv => TimeOrder
  BY DEF IInv
<1>2. QED
  BY Invariance, <1>1, PTL

\* A cancel lets at most one callback through, and none after its return.
THEOREM CancelStops == Spec => []CancelBounds
<1>1. IInv => CancelBounds
  BY DEF IInv
<1>2. QED
  BY Invariance, <1>1, PTL

\* When run() ends by itself every event has fired, and the counts are theirs.
THEOREM NoneIsLost == Spec => []Accounted
<1>1. IInv => Accounted
  BY DEF IInv
<1>2. QED
  BY Invariance, <1>1, PTL
=============================================================================
