---------------------------- MODULE PipelineProofs -----------------------------
(***************************************************************************)
(* The validator, the planner, the reader of plan files, prepare and arm   *)
(* each have rules and channel lookups of their own.  For every scenario   *)
(* they agree but for the gaps that Pipeline names, what arms is           *)
(* transmitted once, on its own channel, and its timed events take effect. *)
(***************************************************************************)
EXTENDS Pipeline, PlannerProofs

\* The channel that the validator and the planner look up is the same.
LEMMA SameKey ==
    ASSUME NEW s, Validate(s), WellFormed(s),
           NEW em \in ToSet(s.emitters)
    PROVE  PlannerKey(s, em) = ChannelKey(s, em)
<1> DEFINE named == {c \in ToSet(s.channels) : em.channelId # None /\ c.id = em.channelId}
           matches == {c \in ToSet(EffectiveChannels(s)) :
                         IF em.channelId # None THEN c.id = em.channelId
                         ELSE c.device = em.device /\ c.index = em.channel}
<1>1. CASE em.channelId = None
  <2>1. named = {}
    BY <1>1
  <2>2. ChannelKey(s, em) = <<em.device, em.channel>>
    BY <2>1 DEF ChannelKey
  <2>3. CASE matches = {}
    BY <2>2, <2>3 DEF PlannerKey, ChannelFor
  <2>4. CASE matches # {}
    <3> DEFINE c == CHOOSE c \in matches : TRUE
    <3>1. c \in matches
      BY <2>4
    <3>2. c.device = em.device /\ c.index = em.channel
      BY <3>1, <1>1
    <3>3. ChannelFor(s, em) = c
      BY <2>4 DEF ChannelFor
    <3>4. QED
      BY <2>2, <3>2, <3>3 DEF PlannerKey
  <2>5. QED
    BY <2>3, <2>4
<1>2. CASE em.channelId # None
  <2>1. PICK c \in ToSet(s.channels) : c.id = em.channelId
    BY <1>2 DEF Validate, CheckChannels
  <2>2. s.channels # <<>>
    BY <2>1 DEF ToSet
  <2>3. EffectiveChannels(s) = s.channels
    BY <2>2 DEF EffectiveChannels
  <2>4. matches = named
    BY <1>2, <2>3
  <2>5. named # {}
    BY <1>2, <2>1
  <2> DEFINE chosen == CHOOSE ch \in named : TRUE
  <2>6. chosen \in ToSet(s.channels)
    BY <2>5
  <2>7. ChannelFor(s, em) = chosen /\ chosen # None
    BY <2>3, <2>4, <2>5, <2>6 DEF ChannelFor, WellFormed
  <2>8. PlannerKey(s, em) = <<chosen.device, chosen.index>>
    BY <2>7 DEF PlannerKey
  <2>9. ChannelKey(s, em) = <<chosen.device, chosen.index>>
    BY <2>5 DEF ChannelKey
  <2>10. QED
    BY <2>8, <2>9
<1>3. QED
  BY <1>1, <1>2

\* So the planner's search for overlaps finds none that the validator let pass.
LEMMA NoUnschedulableOverlap ==
    ASSUME NEW s, Validate(s), WellFormed(s)
    PROVE  ~HasUnschedulableOverlap(s)
<1>1. SUFFICES ASSUME NEW i \in DOMAIN s.emitters, NEW j \in DOMAIN s.emitters, i < j,
                      PlannerKey(s, s.emitters[i]) = PlannerKey(s, s.emitters[j]),
                      ~(s.emitters[i].additive /\ s.emitters[j].additive),
                      WindowsCollide(s.emitters[i], s.emitters[j])
               PROVE  FALSE
  BY DEF HasUnschedulableOverlap, WindowsCollide
<1>2. s.emitters[i] \in ToSet(s.emitters) /\ s.emitters[j] \in ToSet(s.emitters)
  BY DEF ToSet
<1>3. ChannelKey(s, s.emitters[i]) = ChannelKey(s, s.emitters[j])
  BY <1>1, <1>2, SameKey
<1>4. CheckOverlaps(s)
  BY DEF Validate
<1>5. QED
  BY <1>1, <1>3, <1>4 DEF CheckOverlaps

\* No channel of a validated scenario has settings that cannot be used.
LEMMA ChannelSettings ==
    ASSUME NEW s, Validate(s), NEW c \in ToSet(EffectiveChannels(s))
    PROVE  c.rf # "invalid"
<1>1. CASE s.channels # <<>>
  BY <1>1 DEF EffectiveChannels, Validate, CheckChannels
<1>2. CASE s.channels = <<>>
  <2>1. /\ DOMAIN EffectiveChannels(s) = DOMAIN s.devices
        /\ \A i \in DOMAIN s.devices : EffectiveChannels(s)[i].rf = s.devices[i].rf
    BY <1>2 DEF EffectiveChannels
  <2>2. PICK i \in DOMAIN s.devices : c = EffectiveChannels(s)[i]
    BY <2>1 DEF ToSet
  <2>3. s.devices[i] \in ToSet(s.devices)
    BY DEF ToSet
  <2>4. QED
    BY <2>1, <2>2, <2>3 DEF Validate, CheckRfSettings
<1>3. QED
  BY <1>1, <1>2

LEMMA EmittersPlannable ==
    ASSUME NEW s, Validate(s), ~HasTooLongEmitter(s), WellFormed(s),
           NEW em \in ToSet(s.emitters)
    PROVE  PlannableEmitter(s, em)
<1>1. CheckEmitter(s, em) /\ RepeatOk(em)
  BY DEF Validate
<1>2. \E dev \in ToSet(s.devices) : dev.id = em.device
  BY <1>1 DEF CheckEmitter, DeviceIds
<1>3. \A dev \in ToSet(s.devices) : dev.rf # "invalid"
  BY DEF Validate, CheckRfSettings
<1>4. ASSUME ChannelFor(s, em) # None
      PROVE  ChannelFor(s, em).rf # "invalid"
  <2>1. ChannelFor(s, em) \in ToSet(EffectiveChannels(s))
    BY <1>4 DEF ChannelFor
  <2>2. QED
    BY <2>1, ChannelSettings
<1>5. em.duration \in 1..MaxDuration
  BY <1>1, PlannerAssumption DEF CheckEmitter, HasTooLongEmitter, WellFormed
<1>6. QED
  BY <1>1, <1>2, <1>3, <1>4, <1>5 DEF PlannableEmitter, CheckEmitter

LEMMA EventsPlannable ==
    ASSUME NEW s, Validate(s), ~NamesUnknownEmitter(s), NEW evt \in ToSet(s.events)
    PROVE  PlannableEvent(s, evt)
<1>1. CheckEvent(s, evt)
  BY DEF Validate
<1>2. \E dev \in ToSet(s.devices) : dev.id = evt.device
  BY <1>1 DEF CheckEvent, DeviceIds
<1>3. NamesEmitter(evt.kind) => \E em \in ToSet(s.emitters) : em.id = evt.emitter
  BY DEF NamesUnknownEmitter
<1>4. QED
  BY <1>1, <1>2, <1>3 DEF CheckEvent, PlannableEvent

\* Whatever scenario the validator passes, the planner plans, unless one of its
\* events names an emitter that does not exist or an emitter is too long.
THEOREM ValidatedIsPlannable ==
    ASSUME NEW s, Validate(s), WellFormed(s),
           ~NamesUnknownEmitter(s), ~HasTooLongEmitter(s)
    PROVE  Plannable(s)
<1>1. s.emitters # <<>>
  BY DEF Validate
<1>2. QED
  BY <1>1, NoUnschedulableOverlap, EmittersPlannable, EventsPlannable DEF Plannable

-----------------------------------------------------------------------------
(* What the plan of a validated scenario consists of. *)

LEMMA SequenceIs ==
    ASSUME NEW seq, IsSequence(seq), NEW X, \A i \in 1 .. Len(seq) : seq[i] \in X
    PROVE  seq \in Seq(X) /\ DOMAIN seq = 1 .. Len(seq)
<1>1. seq \in [1 .. Len(seq) -> X]
  BY DEF IsSequence
<1>2. QED
  BY <1>1, SeqDef DEF IsSequence

\* An emitter is on the air for each of its repetitions, at least once.
LEMMA RendersAnything ==
    ASSUME NEW s, Validate(s), WellFormed(s)
    PROVE  PlanOf(s).renders # <<>>
<1> DEFINE seqs == [i \in DOMAIN s.emitters |-> Instructions(s.emitters[i])]
           X == UNION {{Instructions(em)[r] : r \in DOMAIN WindowsOf(em)} : em \in ToSet(s.emitters)}
<1>1. ASSUME NEW em \in ToSet(s.emitters)
      PROVE  /\ DOMAIN WindowsOf(em) = 1 .. em.count
             /\ em.count \in Nat \ {0}
             /\ Instructions(em) \in Seq(X) /\ Len(Instructions(em)) = em.count
  <2>1. RepeatOk(em)
    BY DEF Validate
  <2>2. em.count \in Nat \ {0} /\ DOMAIN WindowsOf(em) = 1 .. em.count
    BY <2>1, ScenarioAssumption DEF RepeatOk, WindowsOf
  <2>3. DOMAIN Instructions(em) = 1 .. em.count
    BY <2>2 DEF Instructions
  <2>4. Instructions(em) = [r \in 1 .. em.count |-> Instructions(em)[r]]
    BY <2>2 DEF Instructions
  <2>5. \A r \in 1 .. em.count : Instructions(em)[r] \in X
    BY <2>2
  <2> HIDE DEF X
  <2>6. Instructions(em) \in [1 .. em.count -> X]
    BY <2>4, <2>5, Zenon
  <2>7. Instructions(em) \in Seq(X)
    BY <2>2, <2>6, SeqDef
  <2>8. QED
    BY <2>2, <2>3, <2>7
<1> HIDE DEF X
<1>2. s.emitters \in Seq(ToSet(s.emitters)) /\ DOMAIN s.emitters = 1 .. Len(s.emitters)
      /\ Len(s.emitters) \in Nat
  <2>1. IsSequence(s.emitters)
    BY DEF WellFormed
  <2>2. DOMAIN s.emitters = 1 .. Len(s.emitters)
    BY <2>1 DEF IsSequence
  <2>3. \A i \in 1 .. Len(s.emitters) : s.emitters[i] \in ToSet(s.emitters)
    BY <2>2 DEF ToSet
  <2>4. QED
    BY <2>1, <2>3, SequenceIs DEF IsSequence
<1>3. \A i \in 1 .. Len(s.emitters) : s.emitters[i] \in ToSet(s.emitters)
  BY <1>2
<1>4. seqs \in Seq(Seq(X)) /\ Len(seqs) = Len(s.emitters)
  <2>1. seqs \in [1 .. Len(s.emitters) -> Seq(X)]
    BY <1>1, <1>2, <1>3
  <2>2. QED
    BY <1>2, <2>1, SeqDef
<1>5. PICK off : Offsets(off, seqs)
  BY <1>4, OffsetsExist
<1>6. Holds(FlattenSeq(seqs), seqs, off, Len(seqs))
  BY <1>4, <1>5, Flattening
<1>7. 1 \in 1 .. Len(seqs) /\ 1 \in 1 .. Len(seqs[1])
  <2>1. s.emitters # <<>>
    BY DEF Validate
  <2>2. 1 \in 1 .. Len(s.emitters)
    BY <1>2, <2>1
  <2>3. seqs[1] = Instructions(s.emitters[1])
    BY <1>2, <2>2
  <2>4. QED
    BY <1>1, <1>3, <1>4, <2>2, <2>3
<1> HIDE DEF seqs
<1>8. off[1 - 1] + 1 \in 1 .. Len(FlattenSeq(seqs))
  BY <1>6, <1>7 DEF Holds
<1>9. FlattenSeq(seqs) # <<>>
  BY <1>8
<1>10. QED
  BY <1>9 DEF PlanOf, seqs

\* Every channel has an id.
LEMMA ChannelHasId ==
    ASSUME NEW s, Validate(s), WellFormed(s), NEW i \in DOMAIN EffectiveChannels(s)
    PROVE  EffectiveChannels(s)[i].id # <<>>
<1>1. CASE s.channels # <<>>
  BY <1>1 DEF EffectiveChannels, Validate, CheckChannels, DistinctIds
<1>2. CASE s.channels = <<>>
  <2> DEFINE dev == s.devices[i]
             index == IF dev.channel = None THEN 0 ELSE dev.channel
             X == ToSet(dev.id) \cup {"ch", index}
  <2>1. i \in DOMAIN s.devices /\ EffectiveChannels(s)[i].id = dev.id \o <<"ch", index>>
    BY <1>2 DEF EffectiveChannels
  <2>2. IsSequence(dev.id)
    BY <2>1 DEF WellFormed, ToSet
  <2>3. dev.id \in Seq(X)
    <3>1. \A k \in 1 .. Len(dev.id) : dev.id[k] \in ToSet(dev.id)
      BY <2>2 DEF IsSequence, ToSet
    <3>2. QED
      BY <2>2, <3>1, SequenceIs
  <2>4. <<"ch", index>> \in Seq(X) /\ <<"ch", index>> # <<>>
    OBVIOUS
  <2> HIDE DEF X, index, dev
  <2>5. dev.id \o <<"ch", index>> # <<>>
    BY <2>3, <2>4, ConcatEqualIffEmpty
  <2>6. QED
    BY <2>1, <2>5
<1>3. QED
  BY <1>1, <1>2

\* The channels of a plan are those of the scenario.
LEMMA PlannedChannels ==
    ASSUME NEW s
    PROVE  LET p == PlanOf(s)
               channels == EffectiveChannels(s)
           IN  /\ DOMAIN p.channels = DOMAIN channels
               /\ DOMAIN p.channelPlans = DOMAIN channels
               /\ \A i \in DOMAIN channels :
                     /\ p.channels[i].device = channels[i].device
                     /\ p.channels[i].index = channels[i].index
                     /\ p.channelPlans[i].id = channels[i].id
                     /\ p.channelPlans[i].index = channels[i].index
BY DEF PlanOf

\* What plan_from_json checks beyond the runtime, and the runtime beyond it, no
\* plan of the planner fails.
LEMMA ImportIsArm ==
    ASSUME NEW s, Validate(s), WellFormed(s), PrepareAccepts(PlanOf(s))
    PROVE  ImportAccepts(s, PlanOf(s)) <=> ArmAccepts(PlanOf(s))
<1> DEFINE p == PlanOf(s)
           channels == EffectiveChannels(s)
<1>1. /\ DOMAIN p.channels = DOMAIN channels
      /\ DOMAIN p.channelPlans = DOMAIN channels
      /\ \A i \in DOMAIN channels :
            /\ p.channels[i].device = channels[i].device
            /\ p.channels[i].index = channels[i].index
            /\ p.channelPlans[i].id = channels[i].id
            /\ p.channelPlans[i].index = channels[i].index
  BY PlannedChannels
<1>2. p.renders # <<>>
  BY RendersAnything
<1>3. \A i \in DOMAIN channels : channels[i].id # <<>>
  BY ChannelHasId
<1>4. PrepareAccepts(p)
  OBVIOUS
<1> HIDE DEF p, channels
<1>5. ImportAcceptsChannels(s, p)
  <2>1. \A i \in DOMAIN channels : IsBound(s, channels[i].device, channels[i].index)
    BY DEF IsBound, ToSet, channels
  <2>2. QED
    BY <1>1, <1>4, <2>1 DEF ImportAcceptsChannels, PrepareAccepts
<1>6. ImportAcceptsTimeline(p) <=> ArmAcceptsTimeline(p)
  BY DEF ImportAcceptsTimeline, ArmAcceptsTimeline
<1>7. ASSUME NEW cp \in ToSet(p.channelPlans)
      PROVE  ImportAcceptsChannelPlan(s, p, cp) <=> ArmAcceptsChannelPlan(p, cp)
  <2>1. PICK i \in DOMAIN channels : cp = p.channelPlans[i]
    BY <1>1 DEF ToSet
  <2>2. cp.id # <<>> /\ cp.id = channels[i].id /\ cp.index = channels[i].index
    BY <1>1, <1>3, <2>1
  <2>3. IsBinding(p, channels[i].device, cp.index)
    BY <1>1, <2>2 DEF IsBinding, ToSet
  <2>4. \E c \in ToSet(EffectiveChannels(s)) :
           IsBinding(p, c.device, cp.index) /\ c.index = cp.index /\ c.id = cp.id
    <3>1. channels[i] \in ToSet(EffectiveChannels(s))
      BY DEF ToSet, channels
    <3>2. QED
      BY <2>2, <2>3, <3>1
  <2>5. QED
    BY <2>2, <2>4 DEF ImportAcceptsChannelPlan, ArmAcceptsChannelPlan
<1>8. \A group : ImportAcceptsMixGroup(p, group) <=> ArmAcceptsMixGroup(p, group)
  BY DEF ImportAcceptsMixGroup, ArmAcceptsMixGroup
<1>9. ImportAccepts(s, p) <=> ArmAccepts(p)
  BY <1>2, <1>5, <1>6, <1>7, <1>8
     DEF ImportAccepts, ArmAccepts, ValidatePlanScheduleWindows
<1>10. QED
  BY <1>9 DEF p

-----------------------------------------------------------------------------
(* What an armed plan transmits. *)

LEMMA ValidTimes ==
    ASSUME NEW s, Validate(s), WellFormed(s)
    PROVE  HasTimes(s) /\ Expanded(s) = Repetitions(s)
<1>1. IsSequence(s.emitters)
  BY DEF WellFormed
<1>2. Len(s.emitters) \in Nat /\ DOMAIN s.emitters = 1 .. Len(s.emitters)
  BY <1>1 DEF IsSequence
<1>3. ASSUME NEW i \in 1 .. Len(s.emitters)
      PROVE  LET em == s.emitters[i]
             IN  /\ RepeatOk(em) /\ em.count \in 1 .. MaxRepeatCount
                 /\ em.start \in Int /\ em.duration \in Int /\ em.count \in Nat /\ em.interval \in Int
  <2>1. s.emitters[i] \in ToSet(s.emitters)
    BY <1>2 DEF ToSet
  <2>2. RepeatOk(s.emitters[i])
    BY <2>1 DEF Validate
  <2>3. s.emitters[i].count \in 1 .. MaxRepeatCount
    BY <2>2 DEF RepeatOk
  <2>4. QED
    BY <2>1, <2>2, <2>3, ScenarioAssumption DEF WellFormed
<1>4. HasTimes(s)
  BY <1>2, <1>3 DEF HasTimes
<1>5. ASSUME NEW x PROVE x \in Expanded(s) <=> x \in Repetitions(s)
  <2>1. ASSUME NEW i \in 1 .. Len(s.emitters), NEW r
        PROVE  r \in 1 .. MaxRepeatCount /\ r <= s.emitters[i].count <=>
                  r \in Nat /\ r \in 1 .. s.emitters[i].count
    BY <1>3, ScenarioAssumption
  <2>2. x \in Expanded(s) <=> /\ x \in (1 .. Len(s.emitters)) \X (1 .. MaxRepeatCount)
                              /\ x[2] <= s.emitters[x[1]].count
    BY <1>2 DEF Expanded
  <2>3. x \in Repetitions(s) <=> /\ x \in (1 .. Len(s.emitters)) \X Nat
                                 /\ x[2] \in 1 .. s.emitters[x[1]].count
    BY DEF Repetitions
  <2>4. QED
    BY <2>1, <2>2, <2>3
<1>6. QED
  BY <1>4, <1>5

Armable(s) == /\ Validate(s) /\ WellFormed(s)
              /\ PrepareAccepts(PlanOf(s)) /\ ArmAccepts(PlanOf(s))

KeyAt(s, j) == <<EffectiveChannels(s)[j].device, EffectiveChannels(s)[j].index>>

\* The repetitions on a channel.
On(s, key) == {x \in Repetitions(s) : PlannerKey(s, EmitterOf(s, x)) = key}

LEMMA PlanParts ==
    ASSUME NEW s
    PROVE  LET p == PlanOf(s)
               channels == EffectiveChannels(s)
           IN  /\ p.renders = Renders(s) /\ p.mixGroups = MixGroups(s)
               /\ \A i \in DOMAIN channels :
                     p.channelPlans[i].renders =
                        Keep(Renders(s), {instr \in ToSet(Renders(s)) :
                                            ChannelIdOf(s, instr.id) = channels[i].id})
BY DEF PlanOf, Renders

\* A list of what has different ids.
LEMMA ListsDistinct ==
    ASSUME NEW X, NEW seq \in Seq(X), NEW f, Lists(seq, f),
           \A x, y \in DOMAIN f : f[x].id = f[y].id => x = y
    PROVE  IdsDistinct(seq)
<1>1. PICK place : Arranges(place, DOMAIN f, Len(seq)) /\ \A x \in DOMAIN f : seq[place[x]] = f[x]
  BY DEF Lists
<1>2. SUFFICES ASSUME NEW i \in 1 .. Len(seq), NEW j \in 1 .. Len(seq), seq[i].id = seq[j].id
               PROVE  i = j
  BY DEF IdsDistinct
<1>3. PICK x \in DOMAIN f, y \in DOMAIN f : place[x] = i /\ place[y] = j
  BY <1>1 DEF Arranges
<1>4. f[x].id = f[y].id
  BY <1>1, <1>2, <1>3
<1>5. QED
  BY <1>3, <1>4

\* Armed, no two repetitions have the same id.
LEMMA IdsUnique ==
    ASSUME NEW s, HasTimes(s), IdsDistinct(Renders(s)),
           NEW x \in Repetitions(s), NEW y \in Repetitions(s), IdOf(s, x) = IdOf(s, y)
    PROVE  x = y
<1> DEFINE f == [z \in Repetitions(s) |-> RenderOf(s, z)]
           X == {RenderOf(s, z) : z \in Repetitions(s)}
           renders == Renders(s)
<1>1. renders \in Seq(X) /\ Lists(renders, f)
  BY RendersList
<1>2. DOMAIN renders = 1 .. Len(renders)
  <2> HIDE DEF X, renders
  <2>1. QED
    BY <1>1
<1>3. PICK place : Arranges(place, DOMAIN f, Len(renders)) /\ \A z \in DOMAIN f : renders[place[z]] = f[z]
  BY <1>1 DEF Lists
<1>4. /\ place[x] \in 1 .. Len(renders) /\ place[y] \in 1 .. Len(renders)
      /\ place[x] = place[y] => x = y
  BY <1>3 DEF Arranges
<1>5. renders[place[x]] = RenderOf(s, x) /\ renders[place[y]] = RenderOf(s, y)
  BY <1>3
<1>6. renders[place[x]].id = renders[place[y]].id
  BY <1>5 DEF RenderOf
<1>7. place[x] = place[y]
  <2> HIDE DEF renders
  <2>1. QED
    BY <1>2, <1>4, <1>6 DEF IdsDistinct, renders
<1>8. QED
  BY <1>4, <1>7

LEMMA ChannelsAre ==
    ASSUME NEW s, WellFormed(s)
    PROVE  /\ Len(EffectiveChannels(s)) \in Nat
           /\ DOMAIN EffectiveChannels(s) = 1 .. Len(EffectiveChannels(s))
           /\ Len(PlanOf(s).channels) = Len(EffectiveChannels(s))
<1>1. IsSequence(s.devices) /\ IsSequence(s.channels)
  BY DEF WellFormed
<1> DEFINE channels == EffectiveChannels(s)
<1>2. Len(channels) \in Nat /\ DOMAIN channels = 1 .. Len(channels)
  <2>1. CASE s.channels # <<>>
    <3>1. channels = s.channels
      BY <2>1 DEF EffectiveChannels
    <3>2. QED
      BY <1>1, <3>1 DEF IsSequence
  <2>2. CASE s.channels = <<>>
    <3>1. DOMAIN s.devices = 1 .. Len(s.devices) /\ Len(s.devices) \in Nat
      BY <1>1 DEF IsSequence
    <3>2. \E f : channels = [i \in DOMAIN s.devices |-> f[i]]
      <4> DEFINE f == [i \in DOMAIN s.devices |-> channels[i]]
      <4>1. channels = [i \in DOMAIN s.devices |-> f[i]]
        BY <2>2 DEF EffectiveChannels
      <4> HIDE DEF f, channels
      <4>2. QED
        BY <4>1
    <3>3. PICK f : channels = [i \in 1 .. Len(s.devices) |-> f[i]]
      BY <3>1, <3>2
    <3> HIDE DEF channels
    <3>4. QED
      BY <3>1, <3>3
  <2>3. QED
    BY <2>1, <2>2
<1>3. PlanOf(s).channels = [i \in DOMAIN channels |->
         [device |-> channels[i].device, index |-> channels[i].index, rf |-> channels[i].rf]]
  BY DEF PlanOf
<1> HIDE DEF channels
<1>4. Len(PlanOf(s).channels) = Len(channels)
  BY <1>2, <1>3
<1>5. QED
  BY <1>2, <1>4 DEF channels

\* An instruction belongs to the channel of its own emitter.
LEMMA OwnerIs ==
    ASSUME NEW s, HasTimes(s), IdsDistinct(Renders(s)), NEW x \in Repetitions(s),
           NEW own, own = ChannelFor(s, EmitterOf(s, x))
    PROVE  ChannelIdOf(s, IdOf(s, x)) = IF own = None THEN <<>> ELSE own.id
<1> DEFINE id == IdOf(s, x)
           owners == {i \in DOMAIN s.emitters :
                        \E r \in 1 .. s.emitters[i].count : InstructionId(s.emitters[i], r) = id}
<1>1. /\ x[1] \in DOMAIN s.emitters /\ x[2] \in 1 .. s.emitters[x[1]].count
      /\ x = <<x[1], x[2]>> /\ s.emitters[x[1]] = EmitterOf(s, x)
      /\ InstructionId(EmitterOf(s, x), x[2]) = id
  BY WindowFacts DEF EmitterOf, IdOf, HasTimes
<1>2. ASSUME NEW i \in owners PROVE i = x[1]
  <2>1. PICK r \in 1 .. s.emitters[i].count : InstructionId(s.emitters[i], r) = id
    OBVIOUS
  <2>2. <<i, r>> \in Repetitions(s)
    BY DEF Repetitions, HasTimes
  <2>3. IdOf(s, <<i, r>>) = id
    BY <2>1 DEF IdOf, EmitterOf
  <2>4. <<i, r>> = x
    BY <2>2, <2>3, IdsUnique
  <2>5. QED
    BY <2>4
<1>3. x[1] \in owners
  BY <1>1
<1>4. owners = {x[1]}
  BY <1>2, <1>3
<1>5. Max(owners) = x[1]
  <2>1. x[1] \in Int
    BY <1>1 DEF HasTimes
  <2> HIDE DEF owners
  <2>2. QED
    BY <1>4, <2>1 DEF Max
<1>6. ChannelFor(s, s.emitters[Max(owners)]) = own
  BY <1>1, <1>5
<1>7. ChannelIdOf(s, id) = LET c == ChannelFor(s, s.emitters[Max(owners)])
                           IN  IF c = None THEN <<>> ELSE c.id
  BY DEF ChannelIdOf
<1> HIDE DEF owners
<1>8. QED
  BY <1>6, <1>7

\* The channel of a repetition: the only one whose plan has it.
LEMMA OwnChannel ==
    ASSUME NEW s, Armable(s), EffectiveChannels(s) # <<>>, NEW x \in Repetitions(s)
    PROVE  \E i \in DOMAIN EffectiveChannels(s) :
              \A j \in DOMAIN EffectiveChannels(s) :
                 /\ PlannerKey(s, EmitterOf(s, x)) = KeyAt(s, j) <=> j = i
                 /\ ChannelIdOf(s, IdOf(s, x)) = EffectiveChannels(s)[j].id <=> j = i
<1> DEFINE channels == EffectiveChannels(s)
           p == PlanOf(s)
           id == IdOf(s, x)
           em == EmitterOf(s, x)
           own == ChannelFor(s, em)
<1>1. HasTimes(s)
  BY ValidTimes DEF Armable
<1>2. /\ ChannelPlansPartition(p) /\ IdsDistinct(Renders(s))
      /\ \A i, j \in DOMAIN p.channels : p.channels[i].index = p.channels[j].index => i = j
  BY PlanParts DEF Armable, ArmAccepts, PrepareAccepts
<1>3. /\ DOMAIN p.channels = DOMAIN channels
      /\ DOMAIN p.channelPlans = DOMAIN channels
      /\ \A i \in DOMAIN channels :
            /\ p.channels[i].device = channels[i].device
            /\ p.channels[i].index = channels[i].index
            /\ p.channelPlans[i].index = channels[i].index
  BY PlannedChannels
<1>4. \A i \in DOMAIN channels : channels[i].id # <<>>
  BY ChannelHasId DEF Armable
<1>5. /\ x[1] \in DOMAIN s.emitters /\ x[2] \in 1 .. s.emitters[x[1]].count
      /\ x = <<x[1], x[2]>> /\ s.emitters[x[1]] = em /\ InstructionId(em, x[2]) = id
  BY <1>1, WindowFacts DEF EmitterOf, IdOf, HasTimes
<1>6. ChannelIdOf(s, id) = IF own = None THEN <<>> ELSE own.id
  BY <1>1, <1>2, OwnerIs
<1>7. ASSUME NEW j \in DOMAIN channels
      PROVE  id \in Ids(p.channelPlans[j].renders) <=> ChannelIdOf(s, id) = channels[j].id
  <2> DEFINE mine == {instr \in ToSet(Renders(s)) : ChannelIdOf(s, instr.id) = channels[j].id}
             renders == Renders(s)
             X == {RenderOf(s, z) : z \in Repetitions(s)}
  <2>1. renders \in Seq(X) /\ Lists(renders, [z \in Repetitions(s) |-> RenderOf(s, z)])
    BY <1>1, RendersList
  <2>2. ToSet(renders) = X
    <3> DEFINE f == [z \in Repetitions(s) |-> RenderOf(s, z)]
    <3>1. ToSet(renders) = {f[z] : z \in DOMAIN f}
      <4> HIDE DEF f, X, renders
      <4>1. QED
        BY <2>1, ListsSet DEF f
    <3>2. QED
      BY <3>1
  <2>3. ToSet(Keep(renders, mine)) = {instr \in ToSet(renders) : instr \in mine}
    <3> HIDE DEF X, renders, mine
    <3>1. QED
      BY <2>1, KeptSet
  <2>4. ToSet(p.channelPlans[j].renders) = mine
    <3>1. p.channelPlans[j].renders = Keep(renders, mine)
      BY PlanParts
    <3>2. mine = {instr \in ToSet(renders) : instr \in mine}
      OBVIOUS
    <3> HIDE DEF mine, renders
    <3>3. QED
      BY <2>3, <3>1, <3>2
  <2>5. ASSUME NEW instr \in X, instr.id = id PROVE instr = RenderOf(s, x)
    <3>1. PICK z \in Repetitions(s) : instr = RenderOf(s, z)
      OBVIOUS
    <3>2. IdOf(s, z) = id
      BY <2>5, <3>1 DEF RenderOf
    <3>3. QED
      BY <1>1, <1>2, <3>1, <3>2, IdsUnique
  <2>6. RenderOf(s, x) \in X /\ RenderOf(s, x).id = id
    BY DEF RenderOf
  <2>7. id \in Ids(p.channelPlans[j].renders) <=> RenderOf(s, x) \in mine
    <3>1. Ids(p.channelPlans[j].renders) = {instr.id : instr \in mine}
      BY <2>4 DEF Ids
    <3>2. \A instr \in mine : instr \in X
      BY <2>2
    <3> HIDE DEF mine, X
    <3>3. QED
      BY <2>5, <2>6, <3>1, <3>2
  <2>8. QED
    BY <2>2, <2>6, <2>7
<1>8. PICK i \in DOMAIN channels : id \in Ids(p.channelPlans[i].renders)
  <2>1. id \in Ids(p.renders)
    <3> DEFINE f == [z \in Repetitions(s) |-> RenderOf(s, z)]
               X == {RenderOf(s, z) : z \in Repetitions(s)}
               renders == Renders(s)
    <3>1. renders \in Seq(X) /\ Lists(renders, f)
      BY <1>1, RendersList
    <3>2. ToSet(renders) = {f[z] : z \in DOMAIN f}
      <4> HIDE DEF f, X, renders
      <4>1. QED
        BY <3>1, ListsSet
    <3>3. RenderOf(s, x) \in ToSet(p.renders) /\ RenderOf(s, x).id = id
      BY <3>2, PlanParts DEF RenderOf
    <3>4. QED
      BY <3>3 DEF Ids
  <2>2. p.channelPlans # <<>>
    <3>1. DOMAIN channels # {}
      <4>1. Len(channels) \in Nat /\ DOMAIN channels = 1 .. Len(channels)
        BY ChannelsAre DEF Armable
      <4>2. IsSequence(channels)
        BY <4>1, PlannedChannels DEF IsSequence, EffectiveChannels, Armable, WellFormed
      <4>3. QED
        BY <4>1, <4>2 DEF IsSequence
    <3>2. DOMAIN p.channelPlans # {}
      BY <1>3, <3>1
    <3>3. QED
      BY <3>2
  <2>3. PICK cp \in ToSet(p.channelPlans) : id \in Ids(cp.renders)
    BY <1>2, <2>1, <2>2 DEF ChannelPlansPartition
  <2>4. QED
    BY <1>3, <2>3 DEF ToSet
<1>9. ASSUME NEW j \in DOMAIN channels PROVE ChannelIdOf(s, id) = channels[j].id <=> j = i
  <2>1. ASSUME id \in Ids(p.channelPlans[j].renders) PROVE j = i
    <3> HIDE DEF p, id, channels
    <3>1. QED
      BY <1>2, <1>3, <1>8, <2>1 DEF ChannelPlansPartition
  <2>2. QED
    BY <1>7, <1>8, <2>1
<1>10. own # None /\ own.id = channels[i].id
  BY <1>4, <1>6, <1>9
<1>11. own = channels[i]
  <2>1. own \in ToSet(channels)
    BY <1>10 DEF ChannelFor
  <2>2. PICK j \in DOMAIN channels : own = channels[j]
    BY <2>1 DEF ToSet
  <2>3. j = i
    <3>1. ChannelIdOf(s, id) = channels[j].id
      BY <1>9, <1>10, <2>2
    <3>2. QED
      BY <1>9, <3>1
  <2>4. QED
    BY <2>2, <2>3
<1>12. PlannerKey(s, em) = KeyAt(s, i)
  <2>1. PlannerKey(s, em) = <<own.device, own.index>>
    BY <1>10 DEF PlannerKey
  <2>2. QED
    BY <1>11, <2>1 DEF KeyAt
<1>13. ASSUME NEW j \in DOMAIN channels, KeyAt(s, j) = KeyAt(s, i) PROVE j = i
  <2>1. channels[j].index = channels[i].index
    BY <1>13 DEF KeyAt
  <2>2. p.channels[j].index = p.channels[i].index
    BY <1>3, <2>1
  <2>3. QED
    BY <1>2, <1>3, <2>2
<1>14. QED
  BY <1>9, <1>12, <1>13

\* Every repetition is on one channel, whose plan has it, and all have different ids.
IsAssigned(s) ==
    /\ Validate(s) /\ WellFormed(s) /\ PrepareAccepts(PlanOf(s))
    /\ EffectiveChannels(s) # <<>>
    /\ IdsDistinct(Renders(s))
    /\ \A x \in Repetitions(s) : \E i \in DOMAIN EffectiveChannels(s) :
          \A j \in DOMAIN EffectiveChannels(s) :
             /\ PlannerKey(s, EmitterOf(s, x)) = KeyAt(s, j) <=> j = i
             /\ ChannelIdOf(s, IdOf(s, x)) = EffectiveChannels(s)[j].id <=> j = i

LEMMA HasChannels ==
    ASSUME NEW s, Validate(s), WellFormed(s)
    PROVE  EffectiveChannels(s) # <<>>
<1>1. CASE s.channels # <<>>
  BY <1>1 DEF EffectiveChannels
<1>2. CASE s.channels = <<>>
  <2>1. IsSequence(s.devices) /\ s.devices # <<>>
    BY DEF WellFormed, Validate
  <2>2. 1 \in DOMAIN s.devices
    BY <2>1 DEF IsSequence
  <2>3. DOMAIN EffectiveChannels(s) = DOMAIN s.devices
    BY <1>2 DEF EffectiveChannels
  <2>4. QED
    BY <2>2, <2>3
<1>3. QED
  BY <1>1, <1>2

LEMMA ArmableIsAssigned ==
    ASSUME NEW s, Armable(s)
    PROVE  IsAssigned(s)
<1>1. Validate(s) /\ WellFormed(s) /\ PrepareAccepts(PlanOf(s)) /\ EffectiveChannels(s) # <<>>
  BY HasChannels DEF Armable
<1>2. IdsDistinct(Renders(s))
  BY PlanParts DEF Armable, ArmAccepts
<1>3. QED
  BY <1>1, <1>2, OwnChannel DEF IsAssigned

\* What is planned for a channel: what is on it.
LEMMA PlannedForList ==
    ASSUME NEW s, IsAssigned(s), NEW j \in DOMAIN EffectiveChannels(s)
    PROVE  LET renders == PlanOf(s).channelPlans[j].renders
           IN  /\ renders \in Seq({RenderOf(s, x) : x \in Repetitions(s)})
               /\ Lists(renders, [x \in On(s, KeyAt(s, j)) |-> RenderOf(s, x)])
<1> DEFINE channels == EffectiveChannels(s)
           p == PlanOf(s)
           all == Renders(s)
           X == {RenderOf(s, x) : x \in Repetitions(s)}
           f == [x \in Repetitions(s) |-> RenderOf(s, x)]
           g == [x \in On(s, KeyAt(s, j)) |-> RenderOf(s, x)]
           kept == {instr \in ToSet(all) : ChannelIdOf(s, instr.id) = channels[j].id}
<1>1. HasTimes(s)
  BY ValidTimes DEF IsAssigned
<1>2. all \in Seq(X) /\ Lists(all, f)
  BY <1>1, RendersList
<1>3. p.channelPlans[j].renders = Keep(all, kept)
  BY PlanParts
<1>4. ToSet(all) = X
  <2>1. ToSet(all) = {f[x] : x \in DOMAIN f}
    <3> HIDE DEF f, X, all
    <3>1. QED
      BY <1>2, ListsSet
  <2>2. QED
    BY <2>1
<1>5. ASSUME NEW x \in Repetitions(s) PROVE f[x] \in kept <=> x \in On(s, KeyAt(s, j))
  <2>1. PICK i \in DOMAIN channels :
           \A k \in DOMAIN channels :
              /\ PlannerKey(s, EmitterOf(s, x)) = KeyAt(s, k) <=> k = i
              /\ ChannelIdOf(s, IdOf(s, x)) = channels[k].id <=> k = i
    BY DEF IsAssigned
  <2>2. f[x] \in kept <=> ChannelIdOf(s, IdOf(s, x)) = channels[j].id
    <3>1. f[x] = RenderOf(s, x) /\ RenderOf(s, x).id = IdOf(s, x)
      BY DEF RenderOf
    <3> HIDE DEF f
    <3>2. f[x] \in ToSet(all)
      BY <1>4, <3>1
    <3>3. QED
      BY <3>1, <3>2
  <2>3. x \in On(s, KeyAt(s, j)) <=> PlannerKey(s, EmitterOf(s, x)) = KeyAt(s, j)
    BY DEF On
  <2>4. QED
    BY <2>1, <2>2, <2>3
<1>6. DOMAIN g = {x \in DOMAIN f : f[x] \in kept} /\ \A x \in DOMAIN g : g[x] = f[x]
  BY <1>5 DEF On
<1>7. Keep(all, kept) \in Seq(X) /\ Lists(Keep(all, kept), g)
  <2> HIDE DEF f, g, kept, X, all
  <2>1. QED
    BY <1>2, <1>6, ListsKept
<1>8. QED
  BY <1>3, <1>7

\* The plan found for a channel is the one planned for it.
LEMMA ChannelPlanIs ==
    ASSUME NEW s, PrepareAccepts(PlanOf(s)), NEW j \in DOMAIN EffectiveChannels(s)
    PROVE  ChannelPlanOf(PlanOf(s), EffectiveChannels(s)[j].index) = PlanOf(s).channelPlans[j]
<1> DEFINE p == PlanOf(s)
           channels == EffectiveChannels(s)
<1>1. /\ DOMAIN p.channelPlans = DOMAIN channels /\ DOMAIN p.channels = DOMAIN channels
      /\ \A i \in DOMAIN channels : /\ p.channelPlans[i].index = channels[i].index
                                    /\ p.channels[i].index = channels[i].index
  BY PlannedChannels
<1>2. \A i, k \in DOMAIN p.channels : p.channels[i].index = p.channels[k].index => i = k
  BY DEF PrepareAccepts
<1> HIDE DEF p, channels
<1>3. \A cp \in ToSet(p.channelPlans) : cp.index = channels[j].index <=> cp = p.channelPlans[j]
  BY <1>1, <1>2 DEF ToSet, channels
<1>4. p.channelPlans[j] \in ToSet(p.channelPlans)
  BY <1>1 DEF ToSet, channels
<1>5. QED
  BY <1>3, <1>4 DEF ChannelPlanOf, p, channels

\* What is rendered for a channel: what is on it.
LEMMA RendersOnList ==
    ASSUME NEW s, IsAssigned(s), NEW j \in DOMAIN EffectiveChannels(s)
    PROVE  LET renders == RendersOn(PlanOf(s), EffectiveChannels(s)[j].index)
           IN  /\ renders \in Seq({RenderOf(s, x) : x \in Repetitions(s)})
               /\ Lists(renders, [x \in On(s, KeyAt(s, j)) |-> RenderOf(s, x)])
<1> DEFINE channels == EffectiveChannels(s)
           p == PlanOf(s)
           all == Renders(s)
           X == {RenderOf(s, x) : x \in Repetitions(s)}
           f == [x \in Repetitions(s) |-> RenderOf(s, x)]
           g == [x \in On(s, KeyAt(s, j)) |-> RenderOf(s, x)]
<1>1. HasTimes(s)
  BY ValidTimes DEF IsAssigned
<1>2. all \in Seq(X) /\ Lists(all, f)
  BY <1>1, RendersList
<1>4. CASE Len(p.channels) = 1
  <2>1. RendersOn(p, channels[j].index) = all
    BY <1>4, PlanParts DEF RendersOn
  <2>2. DOMAIN channels = {j}
    <3>1. DOMAIN channels = 1 .. 1
      BY <1>4, ChannelsAre DEF IsAssigned
    <3> HIDE DEF channels
    <3>2. j \in DOMAIN channels
      BY DEF channels
    <3>3. QED
      BY <3>1, <3>2
  <2>3. On(s, KeyAt(s, j)) = Repetitions(s)
    <3>1. ASSUME NEW x \in Repetitions(s) PROVE PlannerKey(s, EmitterOf(s, x)) = KeyAt(s, j)
      <4>1. PICK i \in DOMAIN channels :
               \A k \in DOMAIN channels : PlannerKey(s, EmitterOf(s, x)) = KeyAt(s, k) <=> k = i
        BY DEF IsAssigned
      <4>2. QED
        BY <2>2, <4>1
    <3>2. QED
      BY <3>1 DEF On
  <2>4. f = g
    BY <2>3
  <2>5. QED
    BY <1>2, <2>1, <2>4
<1>5. CASE Len(p.channels) # 1
  <2>1. RendersOn(p, channels[j].index) = ChannelPlanOf(p, channels[j].index).renders
    BY <1>5 DEF RendersOn
  <2>2. ChannelPlanOf(p, channels[j].index) = p.channelPlans[j]
    BY ChannelPlanIs DEF IsAssigned
  <2>3. QED
    BY <2>1, <2>2, PlannedForList
<1>6. QED
  BY <1>4, <1>5

\* The mix groups of a channel, for a lone one all there are.
LEMMA GroupsOnList ==
    ASSUME NEW s, IsAssigned(s), NEW j \in DOMAIN EffectiveChannels(s)
    PROVE  LET p == PlanOf(s)
               groups == GroupsOn(p, EffectiveChannels(s)[j].index)
               key == KeyAt(s, j)
           IN  /\ groups \in Seq({GroupAt(s, y) : y \in GroupPlaces(s)})
               /\ Lists(groups, [g \in 1 .. Len(MixGroupsOn(s, key)) |-> GroupAt(s, <<key, g>>)])
               /\ Len(p.channels) = 1 =>
                     /\ p.mixGroups \in Seq({GroupAt(s, y) : y \in GroupPlaces(s)})
                     /\ Lists(p.mixGroups,
                              [g \in 1 .. Len(MixGroupsOn(s, key)) |-> GroupAt(s, <<key, g>>)])
<1> DEFINE channels == EffectiveChannels(s)
           p == PlanOf(s)
           key == KeyAt(s, j)
           index == channels[j].index
           all == MixGroups(s)
           X == {GroupAt(s, y) : y \in GroupPlaces(s)}
           n == Len(MixGroupsOn(s, key))
           f == [y \in GroupPlaces(s) |-> GroupAt(s, y)]
           g == [k \in 1 .. n |-> GroupAt(s, <<key, k>>)]
           place == [k \in 1 .. n |-> <<key, k>>]
           mine == {y \in GroupPlaces(s) : y[1] = key}
           own == [y \in mine |-> GroupAt(s, y)]
<1>1. HasTimes(s)
  BY ValidTimes DEF IsAssigned
<1>2. all \in Seq(X) /\ Lists(all, f)
  BY <1>1, MixGroupsList
<1>3. ToSet(all) = X
  <2>1. ToSet(all) = {f[y] : y \in DOMAIN f}
    <3> HIDE DEF f, X, all
    <3>1. QED
      BY <1>2, ListsSet
  <2>2. QED
    BY <2>1
<1>4. p.mixGroups = all
  BY PlanParts
<1>5. ASSUME NEW y \in GroupPlaces(s)
      PROVE  /\ \E i \in DOMAIN channels : y[1] = KeyAt(s, i)
             /\ GroupAt(s, y).channel = index <=> y[1] = key
  <2>1. GroupAt(s, y).device = y[1][1] /\ GroupAt(s, y).channel = y[1][2]
    BY DEF GroupAt
  <2>2. PICK em \in ToSet(s.emitters) : y[1] = PlannerKey(s, em)
    BY DEF GroupPlaces, KeysOf
  <2>3. PICK x \in Repetitions(s) : EmitterOf(s, x) = em
    BY <1>1, EmitterIsRepeated
  <2>4. PICK i \in DOMAIN channels : y[1] = KeyAt(s, i)
    BY <2>2, <2>3 DEF IsAssigned
  <2>5. /\ DOMAIN p.channels = DOMAIN channels
        /\ \A k \in DOMAIN channels : /\ p.channels[k].device = channels[k].device
                                      /\ p.channels[k].index = channels[k].index
    BY PlannedChannels
  <2>6. y[1][2] = channels[i].index
    BY <2>4 DEF KeyAt
  <2>7. y[1][2] = index => i = j
    <3>1. \A a, b \in DOMAIN p.channels : p.channels[a].index = p.channels[b].index => a = b
      BY DEF IsAssigned, PrepareAccepts
    <3> HIDE DEF p
    <3>2. QED
      BY <2>5, <2>6, <3>1
  <2>8. y[1] = key => y[1][2] = index
    BY DEF KeyAt
  <2>9. QED
    BY <2>1, <2>4, <2>7, <2>8
<1>6. ASSUME NEW k \in 1 .. n PROVE <<key, k>> \in mine /\ k \in Nat
  <2>1. MixGroupsOn(s, key) \in Seq(GroupRecords(IdsOf(s)))
    BY <1>1, MixGroupsAre
  <2>2. PICK of : IsMixing(s, key, MixGroupsOn(s, key), of)
    BY <1>1, MixGroupsAre
  <2>3. n \in Nat
    <3> DEFINE groups == MixGroupsOn(s, key)
    <3> HIDE DEF groups
    <3>1. QED
      BY <2>1 DEF groups
  <2>4. PICK x \in MixedOn(s, key) : TRUE
    BY <2>2 DEF IsMixing, IsMix
  <2>5. PlannerKey(s, EmitterOf(s, x)) = key /\ x[1] \in DOMAIN s.emitters
    BY <1>1, WindowFacts DEF MixedOn, HasTimes
  <2>6. key \in KeysOf(s)
    BY <2>5 DEF KeysOf, EmitterOf, ToSet
  <2>7. k \in Nat
    BY <2>3
  <2> HIDE DEF key
  <2>8. <<key, k>> \in GroupPlaces(s)
    BY <2>6, <2>7 DEF GroupPlaces
  <2>9. QED
    BY <2>7, <2>8
<1>7. ASSUME NEW seq, Lists(seq, own) PROVE Lists(seq, g)
  <2>1. /\ \A k \in 1 .. n : place[k] \in DOMAIN own
        /\ \A k, l \in 1 .. n : place[k] = place[l] => k = l
        /\ \A k \in 1 .. n : g[k] = own[place[k]]
    BY <1>6
  <2>2. \A y \in DOMAIN own : \E k \in 1 .. n : place[k] = y
    BY DEF GroupPlaces
  <2>3. DOMAIN g = 1 .. n
    OBVIOUS
  <2> DEFINE D == DOMAIN g
  <2>4. /\ \A k \in D : place[k] \in DOMAIN own
        /\ \A k, l \in D : place[k] = place[l] => k = l
        /\ \A k \in D : g[k] = own[place[k]]
        /\ \A y \in DOMAIN own : \E k \in D : place[k] = y
    BY <2>1, <2>2
  <2> HIDE DEF g, own, place
  <2>5. QED
    BY <1>7, <2>4, ListsReindexed
<1>8. GroupsOn(p, index) \in Seq(X) /\ Lists(GroupsOn(p, index), own)
  <2> DEFINE kept == {group \in ToSet(all) : group.channel = index}
  <2>1. GroupsOn(p, index) = Keep(all, kept)
    BY <1>4 DEF GroupsOn
  <2>2. DOMAIN own = {y \in DOMAIN f : f[y] \in kept} /\ \A y \in DOMAIN own : own[y] = f[y]
    BY <1>3, <1>5
  <2> HIDE DEF own, f, kept, X, all
  <2>3. QED
    BY <1>2, <2>1, <2>2, ListsKept
<1>9. ASSUME Len(p.channels) = 1 PROVE Lists(all, own)
  <2>1. DOMAIN channels = {j}
    <3>1. DOMAIN channels = 1 .. 1
      BY <1>9, ChannelsAre DEF IsAssigned
    <3> HIDE DEF channels
    <3>2. j \in DOMAIN channels
      BY DEF channels
    <3>3. QED
      BY <3>1, <3>2
  <2>2. mine = GroupPlaces(s)
    BY <1>5, <2>1
  <2>3. own = f
    BY <2>2
  <2>4. QED
    BY <1>2, <2>3
<1>10. QED
  BY <1>2, <1>4, <1>7, <1>8, <1>9

\* What a channel plays alone.
Alone(s, key, of) == {x \in On(s, key) : ~(x \in MixedOn(s, key) /\ of[x] # 0)}

GroupMembers(s, key, of, g) == {x \in MixedOn(s, key) : of[x] = g}

EntryPlaces(s, key, of) == ({1} \X Alone(s, key, of)) \cup ({2} \X (1 .. Len(MixGroupsOn(s, key))))

AloneEntry(s, x) == [start |-> WindowOf(s, x).start, end |-> WindowOf(s, x).end, ids |-> {IdOf(s, x)}]

GroupEntry(s, key, of, g) ==
    LET group == MixGroupsOn(s, key)[g]
    IN  [start |-> group.start, end |-> Plus(group.start, group.duration),
         ids |-> {IdOf(s, x) : x \in GroupMembers(s, key, of, g)}]

EntryAt(s, key, of, e) == IF e[1] = 1 THEN AloneEntry(s, e[2]) ELSE GroupEntry(s, key, of, e[2])

\* The members of the groups, by their ids.
LEMMA MixedIdsAre ==
    ASSUME NEW s, IsAssigned(s), NEW key, NEW of, IsMixing(s, key, MixGroupsOn(s, key), of),
           NEW groups \in Seq({GroupAt(s, y) : y \in GroupPlaces(s)}),
           Lists(groups, [g \in 1 .. Len(MixGroupsOn(s, key)) |-> GroupAt(s, <<key, g>>)])
    PROVE  /\ \A g \in 1 .. Len(MixGroupsOn(s, key)) :
                 ToSet(GroupAt(s, <<key, g>>).members)
                    = {IdOf(s, x) : x \in GroupMembers(s, key, of, g)}
           /\ \A x \in On(s, key) :
                 IdOf(s, x) \in MixedIds(groups) <=> x \in MixedOn(s, key) /\ of[x] # 0
<1> DEFINE MG == MixGroupsOn(s, key)
           n == Len(MG)
           X == {GroupAt(s, y) : y \in GroupPlaces(s)}
           f == [g \in 1 .. n |-> GroupAt(s, <<key, g>>)]
<1>1. HasTimes(s)
  BY ValidTimes DEF IsAssigned
<1>2. IdsDistinct(Renders(s))
  BY DEF IsAssigned
<1>3. MG \in Seq(GroupRecords(IdsOf(s)))
  BY <1>1, MixGroupsAre
<1>4. n \in Nat /\ \A g \in 1 .. n : MG[g].members \in Seq(IdsOf(s))
  <2> HIDE DEF MG
  <2>1. n \in Nat /\ \A g \in 1 .. n : MG[g] \in GroupRecords(IdsOf(s))
    BY <1>3
  <2>2. \A r \in GroupRecords(IdsOf(s)) : r.members \in Seq(IdsOf(s))
    BY DEF GroupRecords
  <2>3. QED
    BY <2>1, <2>2
<1>5. ASSUME NEW g \in 1 .. n
      PROVE  ToSet(GroupAt(s, <<key, g>>).members) = {IdOf(s, x) : x \in GroupMembers(s, key, of, g)}
  <2> DEFINE members == MG[g].members
             h == [x \in GroupMembers(s, key, of, g) |-> IdOf(s, x)]
  <2>1. GroupAt(s, <<key, g>>).members = members
    BY DEF GroupAt
  <2>2. Lists(members, h) /\ members \in Seq(IdsOf(s))
    BY <1>4 DEF IsMixing, IsMix, GroupMembers
  <2>3. ToSet(members) = {h[x] : x \in DOMAIN h}
    <3> HIDE DEF members, h
    <3>1. QED
      BY <2>2, ListsSet
  <2>4. QED
    BY <2>1, <2>3
<1>6. ToSet(groups) = {f[g] : g \in 1 .. n}
  <2>1. Lists(groups, f) /\ DOMAIN f = 1 .. n
    OBVIOUS
  <2>2. groups \in Seq(X)
    OBVIOUS
  <2> HIDE DEF f, X, n
  <2>3. ToSet(groups) = {f[g] : g \in DOMAIN f}
    BY <2>1, <2>2, ListsSet
  <2>4. QED
    BY <2>1, <2>3
<1>7. \A g \in 1 .. n : f[g] = GroupAt(s, <<key, g>>)
  OBVIOUS
<1>8. MixedIds(groups) = UNION {ToSet(GroupAt(s, <<key, g>>).members) : g \in 1 .. n}
  <2>1. ToSet(groups) = {GroupAt(s, <<key, g>>) : g \in 1 .. n}
    BY <1>6, <1>7
  <2> HIDE DEF n
  <2>2. QED
    BY <2>1 DEF MixedIds
<1>9. ASSUME NEW x \in On(s, key)
      PROVE  IdOf(s, x) \in MixedIds(groups) <=> x \in MixedOn(s, key) /\ of[x] # 0
  <2>1. IdOf(s, x) \in MixedIds(groups)
           <=> \E g \in 1 .. n : IdOf(s, x) \in {IdOf(s, y) : y \in GroupMembers(s, key, of, g)}
    BY <1>5, <1>8
  <2>2. ASSUME NEW y \in MixedOn(s, key), IdOf(s, y) = IdOf(s, x) PROVE y = x
    BY <1>1, <1>2, <2>2, IdsUnique DEF On, MixedOn
  <2>3. \A y \in MixedOn(s, key) : of[y] \in 0 .. n
    BY DEF IsMixing
  <2>4. ASSUME x \in MixedOn(s, key), of[x] # 0 PROVE of[x] \in 1 .. n /\ x \in GroupMembers(s, key, of, of[x])
    BY <1>4, <2>3, <2>4 DEF GroupMembers
  <2>5. ASSUME NEW g \in 1 .. n, NEW y \in GroupMembers(s, key, of, g)
        PROVE  y \in MixedOn(s, key) /\ of[y] # 0
    BY <1>4 DEF GroupMembers
  <2> HIDE DEF n
  <2>6. QED
    BY <2>1, <2>2, <2>4, <2>5
<1>10. QED
  BY <1>5, <1>9

LEMMA ScheduleList ==
    ASSUME NEW s, Armable(s), NEW j \in DOMAIN EffectiveChannels(s), NEW key, key = KeyAt(s, j),
           NEW of, IsMixing(s, key, MixGroupsOn(s, key), of)
    PROVE  LET schedule == ScheduleOf(PlanOf(s), EffectiveChannels(s)[j].index)
           IN  /\ DOMAIN schedule = 1 .. Len(schedule)
               /\ Lists(schedule, [e \in EntryPlaces(s, key, of) |-> EntryAt(s, key, of, e)])
<1> DEFINE p == PlanOf(s)
           index == EffectiveChannels(s)[j].index
           n == Len(MixGroupsOn(s, key))
           groups == IF Len(p.channels) = 1 THEN p.mixGroups ELSE GroupsOn(p, index)
           renders == RendersOn(p, index)
           mixed == MixedIds(groups)
           kept == {instr \in ToSet(renders) : instr.id \notin mixed}
           solo == Keep(renders, kept)
           Entry(window, ids) == [start |-> window.start, end |-> window.end, ids |-> ids]
           E1 == [i \in DOMAIN solo |-> Entry(RenderWindow(solo[i]), {solo[i].id})]
           E2 == [i \in DOMAIN groups |-> Entry(GroupWindow(groups[i]), ToSet(groups[i].members))]
           f == [x \in On(s, key) |-> RenderOf(s, x)]
           f1 == [x \in Alone(s, key, of) |-> RenderOf(s, x)]
           f2 == [g \in 1 .. n |-> GroupAt(s, <<key, g>>)]
           g1 == [x \in Alone(s, key, of) |-> AloneEntry(s, x)]
           g2 == [g \in 1 .. n |-> GroupEntry(s, key, of, g)]
           h == [e \in EntryPlaces(s, key, of) |-> EntryAt(s, key, of, e)]
           XR == {RenderOf(s, x) : x \in Repetitions(s)}
           XG == {GroupAt(s, y) : y \in GroupPlaces(s)}
           XE == [start : Int, end : Int, ids : SUBSET IdsOf(s)]
<1>1. HasTimes(s)
  BY ValidTimes DEF Armable
<1>2. renders \in Seq(XR) /\ Lists(renders, f)
  BY RendersOnList, ArmableIsAssigned
<1>3. groups \in Seq(XG) /\ Lists(groups, f2)
  BY GroupsOnList, ArmableIsAssigned
<1>4. /\ \A g \in 1 .. n : ToSet(GroupAt(s, <<key, g>>).members)
                              = {IdOf(s, x) : x \in GroupMembers(s, key, of, g)}
      /\ \A x \in On(s, key) : IdOf(s, x) \in mixed <=> x \in MixedOn(s, key) /\ of[x] # 0
  <2> HIDE DEF groups
  <2>1. QED
    BY <1>3, MixedIdsAre, ArmableIsAssigned
<1>5. ScheduleOf(p, index) = ByStart(E1 \o E2)
  BY DEF ScheduleOf
<1> HIDE DEF mixed, groups, renders
<1>6. ToSet(renders) = {f[x] : x \in On(s, key)}
  <2>1. DOMAIN f = On(s, key)
    OBVIOUS
  <2> HIDE DEF f, XR
  <2>2. QED
    BY <1>2, <2>1, ListsSet
<1>7. solo \in Seq(XR) /\ Lists(solo, f1)
  <2>1. ASSUME NEW x \in On(s, key) PROVE f[x] \in kept <=> x \in Alone(s, key, of)
    <3>1. f[x].id = IdOf(s, x)
      BY DEF RenderOf
    <3> HIDE DEF f
    <3>2. QED
      BY <1>4, <1>6, <3>1 DEF Alone
  <2>2. DOMAIN f = On(s, key) /\ DOMAIN f1 = Alone(s, key, of)
        /\ \A x \in Alone(s, key, of) : x \in On(s, key) /\ f1[x] = f[x]
    BY DEF Alone
  <2> HIDE DEF f, f1, kept, XR
  <2>3. DOMAIN f1 = {x \in DOMAIN f : f[x] \in kept} /\ \A x \in DOMAIN f1 : f1[x] = f[x]
    BY <2>1, <2>2
  <2>4. QED
    BY <1>2, <2>3, ListsKept
<1>8. \A x \in Repetitions(s) :
         WindowOf(s, x).start \in Int /\ WindowOf(s, x).end \in Int
         /\ WindowOf(s, x).end = Plus(WindowOf(s, x).start, EmitterOf(s, x).duration)
         /\ IdOf(s, x) \in IdsOf(s)
  BY <1>1, WindowFacts DEF IdsOf
<1> HIDE DEF solo
<1>9. /\ Len(solo) \in Nat /\ DOMAIN solo = 1 .. Len(solo)
      /\ \A i \in 1 .. Len(solo) : solo[i] \in XR
      /\ Len(groups) \in Nat /\ DOMAIN groups = 1 .. Len(groups)
      /\ \A i \in 1 .. Len(groups) : groups[i] \in XG
  <2> HIDE DEF XR, XG
  <2>1. QED
    BY <1>3, <1>7
<1>10. ASSUME NEW x \in Repetitions(s)
       PROVE  Entry(RenderWindow(RenderOf(s, x)), {RenderOf(s, x).id}) = AloneEntry(s, x)
              /\ AloneEntry(s, x) \in XE
  <2>1. RenderWindow(RenderOf(s, x)) = Window(WindowOf(s, x).start, EmitterOf(s, x).duration)
        /\ RenderOf(s, x).id = IdOf(s, x)
    BY DEF RenderWindow, RenderOf
  <2>2. Window(WindowOf(s, x).start, EmitterOf(s, x).duration).start = WindowOf(s, x).start
        /\ Window(WindowOf(s, x).start, EmitterOf(s, x).duration).end = WindowOf(s, x).end
    BY <1>8 DEF Window
  <2>3. QED
    BY <1>8, <2>1, <2>2 DEF AloneEntry
<1>11. ASSUME NEW i \in 1 .. Len(solo) PROVE E1[i] \in XE
  <2>1. PICK x \in Repetitions(s) : solo[i] = RenderOf(s, x)
    BY <1>9
  <2>2. E1[i] = Entry(RenderWindow(RenderOf(s, x)), {RenderOf(s, x).id})
    BY <1>9, <2>1
  <2> HIDE DEF E1, Entry, XE
  <2>3. QED
    BY <1>10, <2>2
<1>12. E1 \in Seq(XE) /\ Len(E1) = Len(solo)
  <2>1. DOMAIN E1 = 1 .. Len(solo) /\ E1 = [i \in 1 .. Len(solo) |-> E1[i]]
    BY <1>9
  <2> HIDE DEF E1, XE
  <2>2. E1 \in [1 .. Len(solo) -> XE]
    BY <1>11, <2>1, Zenon
  <2>3. QED
    BY <1>9, <2>2, SeqDef
<1>13. Lists(E1, g1)
  <2>1. ASSUME NEW i \in 1 .. Len(solo), NEW x \in Alone(s, key, of), solo[i] = f1[x] PROVE E1[i] = g1[x]
    <3>1. x \in Repetitions(s)
      BY DEF Alone, On
    <3>2. solo[i] = RenderOf(s, x) /\ g1[x] = AloneEntry(s, x)
      BY <2>1
    <3>3. E1[i] = Entry(RenderWindow(RenderOf(s, x)), {RenderOf(s, x).id})
      BY <1>9, <3>2
    <3> HIDE DEF E1, Entry, g1
    <3>4. QED
      BY <1>10, <3>1, <3>2, <3>3
  <2>2. DOMAIN f1 = Alone(s, key, of) /\ DOMAIN g1 = Alone(s, key, of)
    OBVIOUS
  <2> HIDE DEF E1, g1, f1
  <2>3. QED
    BY <1>7, <1>12, <2>1, <2>2, ListsMapped
<1>14. ASSUME NEW g \in 1 .. n
       PROVE  LET group == GroupAt(s, <<key, g>>)
              IN  Entry(GroupWindow(group), ToSet(group.members)) = GroupEntry(s, key, of, g)
  <2>1. GroupAt(s, <<key, g>>).start = MixGroupsOn(s, key)[g].start
        /\ GroupAt(s, <<key, g>>).duration = MixGroupsOn(s, key)[g].duration
    BY DEF GroupAt
  <2>2. QED
    BY <1>4, <2>1 DEF GroupEntry, GroupWindow, Window
<1>15. ASSUME NEW g \in 1 .. n PROVE GroupEntry(s, key, of, g) \in XE
  <2> DEFINE MG == MixGroupsOn(s, key)
  <2>1. MG \in Seq(GroupRecords(IdsOf(s)))
    BY <1>1, MixGroupsAre
  <2>2. MG[g] \in GroupRecords(IdsOf(s))
    <3> HIDE DEF MG
    <3>1. QED
      BY <2>1 DEF MG
  <2>3. MG[g].start \in Int /\ MG[g].duration \in Int
    BY <2>2 DEF GroupRecords
  <2>4. Plus(MG[g].start, MG[g].duration) \in Int
    BY <2>3, TimesInt
  <2>5. {IdOf(s, x) : x \in GroupMembers(s, key, of, g)} \in SUBSET IdsOf(s)
    BY DEF IdsOf, GroupMembers, MixedOn
  <2>6. QED
    BY <2>3, <2>4, <2>5 DEF GroupEntry
<1>16. ToSet(groups) = {f2[g] : g \in 1 .. n}
  <2>1. DOMAIN f2 = 1 .. n
    OBVIOUS
  <2> HIDE DEF f2, XG, n
  <2>2. ToSet(groups) = {f2[g] : g \in DOMAIN f2}
    BY <1>3, ListsSet
  <2>3. QED
    BY <2>1, <2>2
<1>17. \A i \in 1 .. Len(groups) : E2[i] = Entry(GroupWindow(groups[i]), ToSet(groups[i].members))
  BY <1>9
<1>18. ASSUME NEW i \in 1 .. Len(groups), NEW g \in 1 .. n, groups[i] = f2[g] PROVE E2[i] = g2[g]
  <2>1. groups[i] = GroupAt(s, <<key, g>>) /\ g2[g] = GroupEntry(s, key, of, g)
    BY <1>18
  <2> HIDE DEF E2, Entry, g2
  <2>2. QED
    BY <1>14, <1>17, <2>1
<1>19. E2 \in Seq(XE) /\ Len(E2) = Len(groups)
  <2>1. DOMAIN E2 = 1 .. Len(groups) /\ E2 = [i \in 1 .. Len(groups) |-> E2[i]]
    BY <1>9
  <2>2. ASSUME NEW i \in 1 .. Len(groups) PROVE E2[i] \in XE
    <3>1. groups[i] \in ToSet(groups)
      BY <1>9 DEF ToSet
    <3>2. PICK g \in 1 .. n : groups[i] = f2[g]
      BY <1>16, <3>1
    <3>3. E2[i] = GroupEntry(s, key, of, g)
      BY <1>18, <3>2
    <3> HIDE DEF E2, XE
    <3>4. QED
      BY <1>15, <3>3
  <2> HIDE DEF E2, XE
  <2>3. E2 \in [1 .. Len(groups) -> XE]
    BY <2>1, <2>2, Zenon
  <2>4. QED
    BY <1>9, <2>3, SeqDef
<1>20. Lists(E2, g2)
  <2>1. DOMAIN f2 = 1 .. n /\ DOMAIN g2 = 1 .. n
    OBVIOUS
  <2> HIDE DEF E2, g2, f2, n
  <2>2. QED
    BY <1>3, <1>18, <1>19, <2>1, ListsMapped
<1>21. Joins(h, g1, g2)
  BY DEF Joins, EntryPlaces, EntryAt
<1>22. E1 \o E2 \in Seq(XE) /\ Lists(E1 \o E2, h)
  <2> HIDE DEF E1, E2, g1, g2, h, XE
  <2>1. E1 \in Seq(XE) /\ E2 \in Seq(XE) /\ Lists(E1, g1) /\ Lists(E2, g2)
    BY <1>12, <1>13, <1>19, <1>20
  <2>2. QED
    BY <1>21, <2>1, ListsJoined
<1>23. \A e \in XE : e.start \in Int
  OBVIOUS
<1>24. Lists(ByStart(E1 \o E2), h) /\ DOMAIN ByStart(E1 \o E2) = 1 .. Len(ByStart(E1 \o E2))
  <2> DEFINE both == E1 \o E2
  <2>1. both \in Seq(XE) /\ Lists(both, h)
    BY <1>22
  <2> HIDE DEF both, h, XE
  <2>2. Lists(ByStart(both), h)
    BY <1>23, <2>1, ListsSorted
  <2>3. ByStart(both) \in Seq(XE)
    BY <1>23, <2>1, Sorted
  <2>4. DOMAIN ByStart(both) = 1 .. Len(ByStart(both))
    <3> DEFINE sorted == ByStart(both)
    <3> HIDE DEF sorted
    <3>1. DOMAIN sorted = 1 .. Len(sorted)
      BY <2>3 DEF sorted
    <3>2. QED
      BY <3>1 DEF sorted
  <2>5. QED
    BY <2>2, <2>4 DEF both
<1>25. QED
  BY <1>5, <1>24

\* No two of what a channel transmits are on the air at once.
LEMMA NothingOverlaps ==
    ASSUME NEW s, Armable(s), NEW j \in DOMAIN EffectiveChannels(s), NEW key, key = KeyAt(s, j),
           NEW of, IsMixing(s, key, MixGroupsOn(s, key), of),
           NEW d \in EntryPlaces(s, key, of), NEW e \in EntryPlaces(s, key, of), d # e
    PROVE  ~Overlap(EntryAt(s, key, of, d), EntryAt(s, key, of, e))
<1> DEFINE p == PlanOf(s)
           index == EffectiveChannels(s)[j].index
           n == Len(MixGroupsOn(s, key))
           groups == GroupsOn(p, index)
           renders == RendersOn(p, index)
           f == [x \in On(s, key) |-> RenderOf(s, x)]
           h == [g \in 1 .. n |-> GroupAt(s, <<key, g>>)]
           XR == {RenderOf(s, x) : x \in Repetitions(s)}
           XG == {GroupAt(s, y) : y \in GroupPlaces(s)}
<1>1. HasTimes(s)
  BY ValidTimes DEF Armable
<1>2. renders \in Seq(XR) /\ Lists(renders, f)
  BY RendersOnList, ArmableIsAssigned
<1>3. groups \in Seq(XG) /\ Lists(groups, h)
  BY GroupsOnList, ArmableIsAssigned
<1>4. /\ \A g \in 1 .. n : ToSet(GroupAt(s, <<key, g>>).members)
                              = {IdOf(s, x) : x \in GroupMembers(s, key, of, g)}
      /\ \A x \in On(s, key) : IdOf(s, x) \in MixedIds(groups) <=> x \in MixedOn(s, key) /\ of[x] # 0
  <2> HIDE DEF groups
  <2>1. QED
    BY <1>3, MixedIdsAre, ArmableIsAssigned
<1>5. \A x \in Alone(s, key, of) : x \in On(s, key) /\ IdOf(s, x) \notin MixedIds(groups)
  BY <1>4 DEF Alone
<1>6. /\ DOMAIN renders = 1 .. Len(renders) /\ DOMAIN groups = 1 .. Len(groups)
      /\ Len(renders) \in Nat /\ Len(groups) \in Nat
  <2> HIDE DEF renders, groups, XR, XG
  <2>1. QED
    BY <1>2, <1>3
<1>7. index \in ToSet(ActiveChannels(p))
  <2>1. DOMAIN p.channels = DOMAIN EffectiveChannels(s)
        /\ p.channels[j].index = EffectiveChannels(s)[j].index
    BY PlannedChannels
  <2> HIDE DEF p
  <2>2. QED
    BY <2>1 DEF ActiveChannels, ToSet
<1>8. /\ \A i, k \in DOMAIN renders :
            i < k /\ Overlap(RenderWindow(renders[i]), RenderWindow(renders[k]))
               => SameMixGroupCoversOverlap(p, index, renders[i], renders[k])
      /\ \A i, k \in DOMAIN groups : i < k => ~Overlap(GroupWindow(groups[i]), GroupWindow(groups[k]))
      /\ \A group \in ToSet(groups), instr \in ToSet(renders) :
            Overlap(GroupWindow(group), RenderWindow(instr)) => instr.id \in ToSet(group.members)
  <2>1. ScheduleWindowsOk(p)
    BY DEF Armable, ArmAccepts
  <2> HIDE DEF p, index
  <2>2. QED
    BY <1>7, <2>1 DEF ScheduleWindowsOk
<1>9. PICK at : Arranges(at, DOMAIN f, Len(renders)) /\ \A x \in DOMAIN f : renders[at[x]] = f[x]
  BY <1>2 DEF Lists
<1>10. PICK of2 : Arranges(of2, DOMAIN h, Len(groups)) /\ \A g \in DOMAIN h : groups[of2[g]] = h[g]
  BY <1>3 DEF Lists
<1> HIDE DEF renders, groups, XR, XG, n
<1>11. ASSUME NEW x \in On(s, key)
       PROVE  /\ at[x] \in DOMAIN renders /\ at[x] \in Int /\ renders[at[x]] = RenderOf(s, x)
              /\ renders[at[x]].id = IdOf(s, x) /\ renders[at[x]] \in ToSet(renders)
              /\ RenderWindow(renders[at[x]]).start = WindowOf(s, x).start
              /\ RenderWindow(renders[at[x]]).end = WindowOf(s, x).end
  <2>1. at[x] \in 1 .. Len(renders) /\ renders[at[x]] = RenderOf(s, x)
    BY <1>9 DEF Arranges
  <2>2. /\ RenderOf(s, x).id = IdOf(s, x) /\ RenderOf(s, x).start = WindowOf(s, x).start
        /\ RenderOf(s, x).duration = EmitterOf(s, x).duration
    BY DEF RenderOf
  <2>3. WindowOf(s, x).end = Plus(WindowOf(s, x).start, EmitterOf(s, x).duration)
    BY <1>1, WindowFacts DEF On
  <2>4. /\ RenderWindow(RenderOf(s, x)).start = WindowOf(s, x).start
        /\ RenderWindow(RenderOf(s, x)).end = WindowOf(s, x).end
    BY <2>2, <2>3 DEF RenderWindow, Window
  <2>5. QED
    BY <1>6, <2>1, <2>2, <2>4 DEF ToSet
<1>12. ASSUME NEW g \in 1 .. n
       PROVE  /\ of2[g] \in DOMAIN groups /\ of2[g] \in Int /\ groups[of2[g]] = GroupAt(s, <<key, g>>)
              /\ groups[of2[g]] \in ToSet(groups)
              /\ GroupWindow(groups[of2[g]]).start = GroupEntry(s, key, of, g).start
              /\ GroupWindow(groups[of2[g]]).end = GroupEntry(s, key, of, g).end
  <2>1. of2[g] \in 1 .. Len(groups) /\ groups[of2[g]] = GroupAt(s, <<key, g>>)
    BY <1>10 DEF Arranges
  <2>2. /\ GroupAt(s, <<key, g>>).start = MixGroupsOn(s, key)[g].start
        /\ GroupAt(s, <<key, g>>).duration = MixGroupsOn(s, key)[g].duration
    BY DEF GroupAt
  <2>3. QED
    BY <1>6, <2>1, <2>2 DEF GroupEntry, GroupWindow, Window, ToSet
<1>13. ASSUME NEW x \in Alone(s, key, of), NEW y \in Alone(s, key, of), x # y
       PROVE  ~Overlap(AloneEntry(s, x), AloneEntry(s, y))
  <2>1. ASSUME NEW v \in Alone(s, key, of), NEW w \in Alone(s, key, of), at[v] < at[w]
        PROVE  ~Overlap(AloneEntry(s, v), AloneEntry(s, w))
    <3>1. v \in On(s, key) /\ w \in On(s, key)
      BY <1>5
    <3>2. ~SameMixGroupCoversOverlap(p, index, renders[at[v]], renders[at[w]])
      <4>1. IdOf(s, v) \notin MixedIds(groups) /\ renders[at[v]].id = IdOf(s, v)
        BY <1>5, <1>11, <3>1
      <4>2. QED
        BY <4>1 DEF SameMixGroupCoversOverlap, MixedIds, groups
    <3>3. ~Overlap(RenderWindow(renders[at[v]]), RenderWindow(renders[at[w]]))
      BY <1>8, <1>11, <2>1, <3>1, <3>2
    <3>4. QED
      BY <1>11, <3>1, <3>3 DEF Overlap, AloneEntry
  <2>2. at[x] # at[y] /\ at[x] \in Int /\ at[y] \in Int
    BY <1>5, <1>9, <1>11, <1>13 DEF Arranges
  <2>3. CASE at[x] < at[y]
    BY <2>1, <2>3
  <2>4. CASE at[y] < at[x]
    BY <2>1, <2>4 DEF Overlap
  <2>5. QED
    BY <2>2, <2>3, <2>4
<1>14. ASSUME NEW g \in 1 .. n, NEW k \in 1 .. n, g # k
       PROVE  ~Overlap(GroupEntry(s, key, of, g), GroupEntry(s, key, of, k))
  <2>1. ASSUME NEW v \in 1 .. n, NEW w \in 1 .. n, of2[v] < of2[w]
        PROVE  ~Overlap(GroupEntry(s, key, of, v), GroupEntry(s, key, of, w))
    <3>1. ~Overlap(GroupWindow(groups[of2[v]]), GroupWindow(groups[of2[w]]))
      BY <1>8, <1>12, <2>1
    <3>2. QED
      BY <1>12, <3>1 DEF Overlap
  <2>2. of2[g] # of2[k] /\ of2[g] \in Int /\ of2[k] \in Int
    BY <1>10, <1>12, <1>14 DEF Arranges
  <2>3. CASE of2[g] < of2[k]
    BY <2>1, <2>3
  <2>4. CASE of2[k] < of2[g]
    BY <2>1, <2>4 DEF Overlap
  <2>5. QED
    BY <2>2, <2>3, <2>4
<1>15. ASSUME NEW g \in 1 .. n, NEW x \in Alone(s, key, of)
       PROVE  ~Overlap(GroupEntry(s, key, of, g), AloneEntry(s, x))
  <2>1. groups[of2[g]] \in ToSet(groups)
    BY <1>12
  <2>2. x \in On(s, key) /\ renders[at[x]] \in ToSet(renders) /\ renders[at[x]].id = IdOf(s, x)
    BY <1>5, <1>11
  <2>3. IdOf(s, x) \notin ToSet(groups[of2[g]].members)
    BY <1>5, <2>1 DEF MixedIds
  <2>4. ~Overlap(GroupWindow(groups[of2[g]]), RenderWindow(renders[at[x]]))
    BY <1>8, <2>1, <2>2, <2>3
  <2>5. QED
    BY <1>11, <1>12, <2>2, <2>4 DEF Overlap, AloneEntry
<1>16. ASSUME NEW c \in EntryPlaces(s, key, of)
       PROVE  \/ \E x \in Alone(s, key, of) : c = <<1, x>> /\ EntryAt(s, key, of, c) = AloneEntry(s, x)
              \/ \E g \in 1 .. n : c = <<2, g>> /\ EntryAt(s, key, of, c) = GroupEntry(s, key, of, g)
  BY DEF EntryPlaces, EntryAt, n
<1>17. CASE \E x \in Alone(s, key, of) : d = <<1, x>> /\ EntryAt(s, key, of, d) = AloneEntry(s, x)
  <2>1. CASE \E x \in Alone(s, key, of) : e = <<1, x>> /\ EntryAt(s, key, of, e) = AloneEntry(s, x)
    BY <1>13, <1>17, <2>1
  <2>2. CASE \E g \in 1 .. n : e = <<2, g>> /\ EntryAt(s, key, of, e) = GroupEntry(s, key, of, g)
    BY <1>15, <1>17, <2>2 DEF Overlap
  <2>3. QED
    BY <1>16, <2>1, <2>2
<1>18. CASE \E g \in 1 .. n : d = <<2, g>> /\ EntryAt(s, key, of, d) = GroupEntry(s, key, of, g)
  <2>1. CASE \E x \in Alone(s, key, of) : e = <<1, x>> /\ EntryAt(s, key, of, e) = AloneEntry(s, x)
    BY <1>15, <1>18, <2>1
  <2>2. CASE \E g \in 1 .. n : e = <<2, g>> /\ EntryAt(s, key, of, e) = GroupEntry(s, key, of, g)
    BY <1>14, <1>18, <2>2
  <2>3. QED
    BY <1>16, <2>1, <2>2
<1>19. QED
  BY <1>16, <1>17, <1>18

\* A group that is computed to end before its members do is an inexact one.
LEMMA GroupCovers ==
    ASSUME NEW s, Validate(s), WellFormed(s), NEW key,
           NEW of, IsMixing(s, key, MixGroupsOn(s, key), of),
           NEW g \in 1 .. Len(MixGroupsOn(s, key)), NEW x \in GroupMembers(s, key, of, g)
    PROVE  /\ GroupEntry(s, key, of, g).start <= WindowOf(s, x).start
           /\ WindowOf(s, x).end <= GroupEntry(s, key, of, g).end \/ HasInexactMix(s)
<1> DEFINE group == MixGroupsOn(s, key)[g]
           members == GroupMembers(s, key, of, g)
<1>1. HasTimes(s) /\ Expanded(s) = Repetitions(s)
  BY ValidTimes
<1>2. IsMix(s, members, group)
  BY DEF IsMixing, GroupMembers
<1>3. PICK y \in members : /\ group.start < WindowOf(s, y).end
                           /\ group.duration = Minus(WindowOf(s, y).end, group.start)
                           /\ \A z \in members : WindowOf(s, z).end <= WindowOf(s, y).end
  BY <1>2 DEF IsMix
<1>4. PICK z \in members : group.start = WindowOf(s, z).start
  BY <1>2 DEF IsMix
<1>5. group.start <= WindowOf(s, x).start
  BY <1>2 DEF IsMix
<1>6. CASE Plus(group.start, Minus(WindowOf(s, y).end, group.start)) = WindowOf(s, y).end
  BY <1>3, <1>5, <1>6 DEF GroupEntry
<1>7. CASE Plus(group.start, Minus(WindowOf(s, y).end, group.start)) # WindowOf(s, y).end
  <2>1. \A w \in members : /\ w \in Expanded(s) /\ EmitterOf(s, w).additive
                           /\ ChannelKey(s, EmitterOf(s, w)) = key
    <3>1. ASSUME NEW w \in members
          PROVE  /\ w \in Expanded(s) /\ EmitterOf(s, w).additive
                 /\ ChannelKey(s, EmitterOf(s, w)) = key
      <4>1. w \in Repetitions(s) /\ EmitterOf(s, w).additive /\ PlannerKey(s, EmitterOf(s, w)) = key
        BY DEF GroupMembers, MixedOn
      <4>2. EmitterOf(s, w) \in ToSet(s.emitters)
        BY <1>1, <4>1, WindowFacts DEF HasTimes, EmitterOf, ToSet
      <4>3. QED
        BY <1>1, <4>1, <4>2, SameKey
    <3>2. QED
      BY <3>1
  <2> HIDE DEF members, group
  <2>2. HasInexactMix(s)
    BY <1>3, <1>4, <1>7, <2>1 DEF HasInexactMix, EmitterOf, WindowOf
  <2>3. QED
    BY <1>5, <2>2 DEF GroupEntry, group
<1>8. QED
  BY <1>6, <1>7

\* Where an instruction is in the schedule of a channel.
LEMMA EntriesOf ==
    ASSUME NEW s, Armable(s), NEW j \in DOMAIN EffectiveChannels(s), NEW key, key = KeyAt(s, j),
           NEW of, IsMixing(s, key, MixGroupsOn(s, key), of),
           NEW x \in Repetitions(s), NEW e \in EntryPlaces(s, key, of)
    PROVE  IdOf(s, x) \in EntryAt(s, key, of, e).ids
              <=> \/ x \in Alone(s, key, of) /\ e = <<1, x>>
                  \/ x \in MixedOn(s, key) /\ of[x] # 0 /\ e = <<2, of[x]>>
<1> DEFINE n == Len(MixGroupsOn(s, key))
<1>1. HasTimes(s)
  BY ValidTimes DEF Armable
<1>2. IdsDistinct(Renders(s))
  BY PlanParts DEF Armable, ArmAccepts
<1>3. ASSUME NEW y \in Repetitions(s), IdOf(s, y) = IdOf(s, x) PROVE y = x
  BY <1>1, <1>2, <1>3, IdsUnique
<1>4. CASE e \in {1} \X Alone(s, key, of)
  <2>1. PICK y \in Alone(s, key, of) : e = <<1, y>>
    BY <1>4
  <2>2. EntryAt(s, key, of, e).ids = {IdOf(s, y)}
    BY <2>1 DEF EntryAt, AloneEntry
  <2>3. IdOf(s, x) = IdOf(s, y) <=> x = y
    BY <1>3 DEF Alone, On
  <2>4. QED
    BY <2>1, <2>2, <2>3
<1>5. CASE e \in {2} \X (1 .. n)
  <2>1. PICK g \in 1 .. n : e = <<2, g>>
    BY <1>5
  <2>2. EntryAt(s, key, of, e).ids = {IdOf(s, y) : y \in GroupMembers(s, key, of, g)}
    BY <2>1 DEF EntryAt, GroupEntry
  <2>3. IdOf(s, x) \in EntryAt(s, key, of, e).ids <=> x \in GroupMembers(s, key, of, g)
    BY <1>3, <2>2 DEF GroupMembers, MixedOn
  <2>4. g # 0
    OBVIOUS
  <2>5. QED
    BY <2>1, <2>3, <2>4 DEF GroupMembers
<1>6. QED
  BY <1>4, <1>5 DEF EntryPlaces

\* What holds of the schedule of each channel of an armed plan.
OnAirOnceOn(s, c, schedule) ==
    /\ \A i, j \in DOMAIN schedule : i < j => ~Overlap(schedule[i], schedule[j])
    /\ \A x \in Expanded(s) :
          LET em == s.emitters[x[1]]
              window == WindowsOf(em)[x[2]]
              entries == {i \in DOMAIN schedule : InstructionId(em, x[2]) \in schedule[i].ids}
          IN  IF ChannelKey(s, em) # <<c.device, c.index>> THEN entries = {}
              ELSE \E i \in DOMAIN schedule :
                      /\ entries = {i}
                      /\ schedule[i].start <= window.start
                      /\ window.end <= schedule[i].end \/ HasInexactMix(s)

LEMMA ArmedIsOnAirOnce ==
    ASSUME NEW s, Armable(s), NEW j \in DOMAIN EffectiveChannels(s)
    PROVE  LET c == EffectiveChannels(s)[j]
           IN  OnAirOnceOn(s, c, ScheduleOf(PlanOf(s), c.index))
<1> DEFINE c == EffectiveChannels(s)[j]
           key == KeyAt(s, j)
           n == Len(MixGroupsOn(s, key))
           schedule == ScheduleOf(PlanOf(s), c.index)
<1>1. HasTimes(s) /\ Expanded(s) = Repetitions(s)
  BY ValidTimes DEF Armable
<1>2. PICK of : IsMixing(s, key, MixGroupsOn(s, key), of)
  BY <1>1, MixGroupsAre
<1> DEFINE P == EntryPlaces(s, key, of)
           E == [e \in P |-> EntryAt(s, key, of, e)]
<1>3. DOMAIN schedule = 1 .. Len(schedule) /\ Lists(schedule, E)
  BY <1>2, ScheduleList
<1> HIDE DEF schedule
<1>4. PICK at : Arranges(at, P, Len(schedule)) /\ \A e \in P : schedule[at[e]] = EntryAt(s, key, of, e)
  BY <1>3 DEF Lists
<1>5. /\ \A e \in P : at[e] \in DOMAIN schedule
      /\ \A i \in DOMAIN schedule : \E e \in P : at[e] = i
      /\ \A d, e \in P : at[d] = at[e] => d = e
  BY <1>3, <1>4 DEF Arranges
<1>6. ASSUME NEW i \in DOMAIN schedule, NEW k \in DOMAIN schedule, i < k
      PROVE  ~Overlap(schedule[i], schedule[k])
  <2>1. PICK d \in P, e \in P : at[d] = i /\ at[e] = k
    BY <1>5
  <2>2. i \in Int /\ k \in Int
    BY <1>3
  <2>3. d # e
    BY <1>6, <2>1, <2>2
  <2>4. QED
    BY <1>2, <1>4, <2>1, <2>3, NothingOverlaps
<1>7. ASSUME NEW x \in Repetitions(s)
      PROVE  LET entries == {i \in DOMAIN schedule : IdOf(s, x) \in schedule[i].ids}
             IN  IF PlannerKey(s, EmitterOf(s, x)) # key THEN entries = {}
                 ELSE \E i \in DOMAIN schedule :
                         /\ entries = {i}
                         /\ schedule[i].start <= WindowOf(s, x).start
                         /\ WindowOf(s, x).end <= schedule[i].end \/ HasInexactMix(s)
  <2> DEFINE entries == {i \in DOMAIN schedule : IdOf(s, x) \in schedule[i].ids}
  <2>1. ASSUME NEW e \in P
        PROVE  at[e] \in entries <=> \/ x \in Alone(s, key, of) /\ e = <<1, x>>
                                     \/ x \in MixedOn(s, key) /\ of[x] # 0 /\ e = <<2, of[x]>>
    BY <1>2, <1>4, <1>5, EntriesOf
  <2>2. CASE PlannerKey(s, EmitterOf(s, x)) # key
    <3>1. x \notin Alone(s, key, of) /\ x \notin MixedOn(s, key)
      BY <2>2 DEF Alone, On, MixedOn
    <3>2. entries = {}
      BY <1>5, <2>1, <3>1
    <3>3. QED
      BY <2>2, <3>2
  <2>3. CASE PlannerKey(s, EmitterOf(s, x)) = key /\ x \in Alone(s, key, of)
    <3>1. ~(x \in MixedOn(s, key) /\ of[x] # 0)
      BY <2>3 DEF Alone
    <3>2. <<1, x>> \in P
      BY <2>3 DEF EntryPlaces
    <3> HIDE DEF P
    <3>3. entries = {at[<<1, x>>]}
      BY <1>5, <2>1, <2>3, <3>1, <3>2
    <3>4. schedule[at[<<1, x>>]] = AloneEntry(s, x)
      BY <1>4, <3>2 DEF EntryAt
    <3>5. WindowOf(s, x).start \in Int /\ WindowOf(s, x).end \in Int
      BY <1>1, WindowFacts
    <3>6. QED
      BY <1>5, <2>3, <3>2, <3>3, <3>4, <3>5 DEF AloneEntry
  <2>4. CASE PlannerKey(s, EmitterOf(s, x)) = key /\ x \notin Alone(s, key, of)
    <3>1. x \in MixedOn(s, key) /\ of[x] # 0
      BY <2>4 DEF Alone, On
    <3>2. of[x] \in 1 .. n
      <4>1. of[x] \in 0 .. n
        BY <1>2, <3>1 DEF IsMixing
      <4> HIDE DEF n
      <4>2. QED
        BY <3>1, <4>1
    <3>3. <<2, of[x]>> \in P
      BY <3>2 DEF EntryPlaces
    <3> HIDE DEF P
    <3>4. entries = {at[<<2, of[x]>>]}
      BY <1>5, <2>1, <2>4, <3>1, <3>3
    <3>5. schedule[at[<<2, of[x]>>]] = GroupEntry(s, key, of, of[x])
      BY <1>4, <3>3 DEF EntryAt
    <3>6. x \in GroupMembers(s, key, of, of[x])
      BY <3>1 DEF GroupMembers
    <3>7. /\ GroupEntry(s, key, of, of[x]).start <= WindowOf(s, x).start
          /\ WindowOf(s, x).end <= GroupEntry(s, key, of, of[x]).end \/ HasInexactMix(s)
      BY <1>2, <3>2, <3>6, GroupCovers DEF Armable
    <3>8. QED
      BY <1>5, <2>4, <3>3, <3>4, <3>5, <3>7
  <2>5. QED
    BY <2>2, <2>3, <2>4
<1>8. ASSUME NEW x \in Repetitions(s)
      PROVE  ChannelKey(s, EmitterOf(s, x)) = PlannerKey(s, EmitterOf(s, x))
  <2>1. EmitterOf(s, x) \in ToSet(s.emitters)
    BY <1>1, WindowFacts DEF HasTimes, EmitterOf, ToSet
  <2>2. QED
    BY <2>1, SameKey DEF Armable
<1>9. key = <<c.device, c.index>>
  BY DEF KeyAt
<1>10. OnAirOnceOn(s, c, schedule)
  <2> HIDE DEF c, key
  <2>1. QED
    BY <1>1, <1>6, <1>7, <1>8, <1>9 DEF OnAirOnceOn, IdOf, WindowOf, EmitterOf
<1>11. QED
  BY <1>10 DEF schedule

-----------------------------------------------------------------------------
(* A plan arms exactly where the scenario has no gap, but for rounding. *)

\* The ids of what the plan renders.
LEMMA RenderIds ==
    ASSUME NEW s, HasTimes(s)
    PROVE  Ids(PlanOf(s).renders) = IdsOf(s)
<1> DEFINE f == [x \in Repetitions(s) |-> RenderOf(s, x)]
           X == {RenderOf(s, x) : x \in Repetitions(s)}
           all == Renders(s)
<1>1. all \in Seq(X) /\ Lists(all, f)
  BY RendersList
<1>2. ToSet(all) = {f[x] : x \in DOMAIN f}
  <2> HIDE DEF f, X, all
  <2>1. QED
    BY <1>1, ListsSet
<1>3. ToSet(all) = X
  BY <1>2
<1>4. PlanOf(s).renders = all
  BY PlanParts
<1>5. \A x : RenderOf(s, x).id = IdOf(s, x)
  BY DEF RenderOf
<1> HIDE DEF all
<1>6. QED
  BY <1>3, <1>4, <1>5 DEF Ids, IdsOf

LEMMA PlannedIds ==
    ASSUME NEW s, IsAssigned(s), NEW j \in DOMAIN EffectiveChannels(s)
    PROVE  /\ Ids(PlanOf(s).channelPlans[j].renders) = {IdOf(s, x) : x \in On(s, KeyAt(s, j))}
           /\ IdsDistinct(PlanOf(s).channelPlans[j].renders)
<1> DEFINE renders == PlanOf(s).channelPlans[j].renders
           X == {RenderOf(s, x) : x \in Repetitions(s)}
           D == On(s, KeyAt(s, j))
           g == [x \in D |-> RenderOf(s, x)]
<1>1. renders \in Seq(X) /\ Lists(renders, g)
  BY PlannedForList
<1>2. ToSet(renders) = {g[x] : x \in DOMAIN g}
  <2> HIDE DEF renders, g, X
  <2>1. QED
    BY <1>1, ListsSet
<1>3. ToSet(renders) = {RenderOf(s, x) : x \in D}
  BY <1>2
<1>4. HasTimes(s) /\ IdsDistinct(Renders(s))
  BY ValidTimes DEF IsAssigned
<1>5. ASSUME NEW x \in D, NEW y \in D, g[x].id = g[y].id PROVE x = y
  <2>1. g[x].id = IdOf(s, x) /\ g[y].id = IdOf(s, y)
    BY DEF RenderOf
  <2>2. x \in Repetitions(s) /\ y \in Repetitions(s)
    BY DEF On
  <2> HIDE DEF g, D
  <2>3. QED
    BY <1>4, <1>5, <2>1, <2>2, IdsUnique
<1>6. DOMAIN g = D
  OBVIOUS
<1>7. IdsDistinct(renders)
  <2> HIDE DEF renders, g, X, D
  <2>1. QED
    BY <1>1, <1>5, <1>6, ListsDistinct
<1>8. Ids(renders) = {IdOf(s, x) : x \in D}
  <2>1. \A x : RenderOf(s, x).id = IdOf(s, x)
    BY DEF RenderOf
  <2> HIDE DEF renders, D
  <2>2. QED
    BY <1>3, <2>1 DEF Ids
<1>9. QED
  BY <1>7, <1>8

LEMMA InstructionIds ==
    ASSUME NEW em, NEW r
    PROVE  /\ em.count > 1 => InstructionId(em, r) = Append(em.id, r - 1)
           /\ em.count = 1 => InstructionId(em, r) = em.id
BY DEF InstructionId

\* Events name the channels they reach.
LEMMA NoneMisaddressed ==
    ASSUME NEW s, Armable(s), NEW evt \in ToSet(s.events)
    PROVE  ~IsMisaddressed(s, evt)
<1> DEFINE channels == EffectiveChannels(s)
           p == PlanOf(s)
           reached == {c.index : c \in {ch \in ToSet(channels) :
                         ch.device = evt.device /\ evt.channel \in {None, ch.index}}}
           named == {x \in Expanded(s) : InstructionId(s.emitters[x[1]], x[2]) = evt.emitter}
<1>1. HasTimes(s) /\ Expanded(s) = Repetitions(s) /\ IsAssigned(s)
  BY ValidTimes, ArmableIsAssigned DEF Armable
<1>2. /\ DOMAIN p.channels = DOMAIN channels
      /\ DOMAIN p.channelPlans = DOMAIN channels
      /\ \A i \in DOMAIN channels :
            /\ p.channels[i].device = channels[i].device
            /\ p.channels[i].index = channels[i].index
            /\ p.channelPlans[i].index = channels[i].index
  BY PlannedChannels
<1>3. p.timeline = s.events
  BY DEF PlanOf
<1>4. /\ \E c \in ToSet(p.channels) : c.device = evt.device
      /\ evt.channel # None => evt.channel # BadChannel /\ IsBinding(p, evt.device, evt.channel)
      /\ NamesEmitter(evt.kind) => evt.emitter \in Ids(p.renders)
  BY <1>3 DEF Armable, ArmAccepts, ArmAcceptsTimeline
<1>5. \A c : c \in ToSet(channels) <=> \E i \in DOMAIN channels : c = channels[i]
  BY DEF ToSet
<1>6. \A c : c \in ToSet(p.channels) <=> \E i \in DOMAIN p.channels : c = p.channels[i]
  BY DEF ToSet
<1>7. \E j \in DOMAIN channels : channels[j].device = evt.device /\ evt.channel \in {None, channels[j].index}
  <2> HIDE DEF p, channels
  <2>1. CASE evt.channel = None
    BY <1>2, <1>4, <1>6, <2>1
  <2>2. CASE evt.channel # None
    BY <1>2, <1>4, <1>6, <2>2 DEF IsBinding
  <2>3. QED
    BY <2>1, <2>2
<1>8. reached # {}
  BY <1>5, <1>7
<1>9. ASSUME NamesEmitter(evt.kind)
      PROVE  named # {} /\ \A x \in named : {ChannelKey(s, s.emitters[x[1]])[2]} = reached
  <2>1. evt.emitter \in IdsOf(s)
    BY <1>1, <1>4, <1>9, RenderIds
  <2>2. named # {}
    BY <1>1, <2>1 DEF IdsOf, IdOf, EmitterOf
  <2>3. ASSUME NEW x \in named, NEW j \in DOMAIN channels, channels[j].device = evt.device,
               evt.channel \in {None, channels[j].index}
        PROVE  ChannelKey(s, s.emitters[x[1]])[2] = channels[j].index
    <3>1. x \in Repetitions(s) /\ IdOf(s, x) = evt.emitter
      BY <1>1 DEF IdOf, EmitterOf
    <3>2. evt \in ToSet(p.channelPlans[j].events)
      <4> DEFINE kept == {e \in ToSet(s.events) : ReachesChannel(e, channels[j])}
                 events == s.events
                 X == ToSet(s.events)
      <4>1. p.channelPlans[j].events = Keep(events, kept)
        BY DEF PlanOf
      <4>2. evt \in kept
        BY <2>3 DEF ReachesChannel
      <4>3. events \in Seq(X)
        <5>1. IsSequence(events)
          BY DEF Armable, WellFormed
        <5>2. \A i \in 1 .. Len(events) : events[i] \in X
          BY <5>1 DEF IsSequence, ToSet
        <5> HIDE DEF events, X
        <5>3. QED
          BY <5>1, <5>2, SequenceIs
      <4> HIDE DEF kept, events
      <4>4. evt \in ToSet(Keep(events, kept))
        BY <4>2, <4>3, KeptSet DEF events
      <4>5. QED
        BY <4>1, <4>4
    <3>3. p.channelPlans[j] \in ToSet(p.channelPlans)
      <4> HIDE DEF p
      <4>1. QED
        BY <1>2 DEF ToSet
    <3>4. ArmAcceptsChannelPlan(p, p.channelPlans[j])
      BY <3>3 DEF Armable, ArmAccepts
    <3>5. evt.emitter \in Ids(p.channelPlans[j].renders)
      BY <1>9, <3>2, <3>4 DEF ArmAcceptsChannelPlan
    <3>6. PICK y \in On(s, KeyAt(s, j)) : IdOf(s, y) = evt.emitter
      BY <1>1, <3>5, PlannedIds
    <3>7. y = x
      <4>1. IdsDistinct(Renders(s))
        BY <1>1 DEF IsAssigned
      <4>2. QED
        BY <1>1, <3>1, <3>6, <4>1, IdsUnique DEF On
    <3>8. EmitterOf(s, x) \in ToSet(s.emitters)
      BY <1>1, <3>1, WindowFacts DEF HasTimes, EmitterOf, ToSet
    <3>9. ChannelKey(s, EmitterOf(s, x)) = KeyAt(s, j)
      BY <3>6, <3>7, <3>8, SameKey DEF On, Armable
    <3>10. QED
      BY <3>9 DEF KeyAt, EmitterOf
  <2>4. ASSUME NEW x \in named PROVE {ChannelKey(s, s.emitters[x[1]])[2]} = reached
    <3> HIDE DEF channels, named
    <3>1. QED
      BY <1>5, <1>7, <2>3
  <2>5. QED
    BY <2>2, <2>4
<1>10. QED
  BY <1>8, <1>9 DEF IsMisaddressed

\* A plan that arms is one of a scenario without a gap.
LEMMA ArmedHasNoGap ==
    ASSUME NEW s, Armable(s)
    PROVE  ~HasGap(s)
<1> DEFINE channels == EffectiveChannels(s)
           p == PlanOf(s)
<1>1. HasTimes(s) /\ Expanded(s) = Repetitions(s) /\ IsAssigned(s)
  BY ValidTimes, ArmableIsAssigned DEF Armable
<1>2. /\ DOMAIN p.channels = DOMAIN channels
      /\ \A i \in DOMAIN channels :
            /\ p.channels[i].device = channels[i].device
            /\ p.channels[i].rf = channels[i].rf
  BY DEF PlanOf
<1>3. /\ \A i, j \in DOMAIN p.channels : p.channels[i].device = p.channels[j].device
      /\ \A c \in ToSet(p.channels) : c.rf = "ok"
  BY DEF Armable, PrepareAccepts
<1> HIDE DEF p
<1> DEFINE devices == {c.device : c \in ToSet(channels)}
<1>4. ~(Cardinality(devices) > 1)
  <2>1. \A a, b \in devices : a = b
    BY <1>2, <1>3 DEF ToSet
  <2>2. CASE devices = {}
    BY <2>2, FS_EmptySet
  <2>3. CASE devices # {}
    <3>1. PICK a \in devices : devices = {a}
      BY <2>1, <2>3
    <3> HIDE DEF devices
    <3>2. Cardinality(devices) = 1
      BY <3>1, FS_Singleton
    <3>3. QED
      BY <3>2
  <2>4. QED
    BY <2>2, <2>3
<1>5. ASSUME NEW c \in ToSet(channels) PROVE c.rf # "extreme"
  BY <1>2, <1>3 DEF ToSet
<1>6. ASSUME NEW em \in ToSet(s.emitters)
      PROVE  LET key == ChannelKey(s, em)
             IN  IsBound(s, key[1], key[2]) /\ ~(~em.additive /\ OverlapsItself(em))
  <2>1. PICK i \in 1 .. Len(s.emitters) : em = s.emitters[i]
    BY <1>1 DEF HasTimes, ToSet
  <2>2. \A r \in DOMAIN WindowsOf(em) : /\ <<i, r>> \in Repetitions(s) /\ EmitterOf(s, <<i, r>>) = em
                                        /\ WindowOf(s, <<i, r>>) = WindowsOf(em)[r]
                                        /\ r \in Int
    <3>1. DOMAIN WindowsOf(em) = 1 .. em.count /\ em.count \in Nat
      BY <1>1, <2>1, WindowFacts DEF HasTimes
    <3>2. QED
      BY <2>1, <3>1 DEF Repetitions, EmitterOf, WindowOf
  <2>3. PICK x \in Repetitions(s) : EmitterOf(s, x) = em
    BY <1>1, EmitterIsRepeated
  <2>4. PICK j \in DOMAIN channels : PlannerKey(s, em) = KeyAt(s, j)
    BY <1>1, <2>3 DEF IsAssigned
  <2>5. ChannelKey(s, em) = KeyAt(s, j)
    BY <2>4, SameKey DEF Armable
  <2>6. IsBound(s, KeyAt(s, j)[1], KeyAt(s, j)[2])
    BY DEF IsBound, KeyAt, ToSet
  <2>7. ASSUME ~em.additive, NEW v \in DOMAIN WindowsOf(em), NEW w \in DOMAIN WindowsOf(em),
               v < w, Overlap(WindowsOf(em)[v], WindowsOf(em)[w])
        PROVE  FALSE
    <3> DEFINE key == KeyAt(s, j)
    <3>1. PICK of : IsMixing(s, key, MixGroupsOn(s, key), of)
      BY <1>1, MixGroupsAre
    <3>2. ASSUME NEW r \in DOMAIN WindowsOf(em)
          PROVE  /\ <<1, <<i, r>>>> \in EntryPlaces(s, key, of)
                 /\ EntryAt(s, key, of, <<1, <<i, r>>>>) = AloneEntry(s, <<i, r>>)
      <4>1. <<i, r>> \in Alone(s, key, of)
        BY <2>2, <2>4, <2>7 DEF Alone, On, MixedOn
      <4>2. QED
        BY <4>1 DEF EntryPlaces, EntryAt
    <3>3. <<1, <<i, v>>>> # <<1, <<i, w>>>>
      <4>1. v \in Int /\ w \in Int /\ v # w
        BY <2>2, <2>7
      <4>2. QED
        BY <4>1
    <3>4. ~Overlap(AloneEntry(s, <<i, v>>), AloneEntry(s, <<i, w>>))
      <4> HIDE DEF key
      <4>1. key = KeyAt(s, j)
        BY DEF key
      <4>2. QED
        BY <3>1, <3>2, <3>3, <4>1, NothingOverlaps
    <3>5. QED
      BY <2>2, <2>7, <3>4 DEF Overlap, AloneEntry
  <2>8. QED
    BY <2>5, <2>6, <2>7 DEF OverlapsItself
<1>7. ~HasIdClash(s)
  <2>1. SUFFICES ASSUME NEW i \in 1 .. Len(s.emitters), NEW k \in 1 .. Len(s.emitters),
                        s.emitters[i].count > 1, s.emitters[k].count = 1,
                        NEW r \in 1 .. s.emitters[i].count,
                        s.emitters[k].id = Append(s.emitters[i].id, r - 1)
                 PROVE  FALSE
    BY <1>1 DEF HasIdClash, HasTimes, ToSet
  <2>2. <<i, r>> \in Repetitions(s) /\ <<k, 1>> \in Repetitions(s)
    BY <1>1, <2>1 DEF HasTimes, Repetitions
  <2>3. IdOf(s, <<i, r>>) = Append(s.emitters[i].id, r - 1) /\ IdOf(s, <<k, 1>>) = s.emitters[k].id
    <3>1. \A a, b : IdOf(s, <<a, b>>) = InstructionId(s.emitters[a], b)
      BY DEF IdOf, EmitterOf
    <3>2. InstructionId(s.emitters[i], r) = Append(s.emitters[i].id, r - 1)
      BY <2>1, InstructionIds
    <3>3. InstructionId(s.emitters[k], 1) = s.emitters[k].id
      BY <2>1, InstructionIds
    <3>4. QED
      BY <3>1, <3>2, <3>3
  <2>4. <<i, r>> = <<k, 1>>
    BY <1>1, <2>1, <2>2, <2>3, IdsUnique DEF IsAssigned
  <2>5. QED
    BY <2>1, <2>4
<1>8. QED
  BY <1>4, <1>5, <1>6, <1>7, NoneMisaddressed DEF HasGap

\* Appending tells the sequence and what is appended.
LEMMA AppendsDiffer ==
    ASSUME NEW a, NEW b, IsSequence(a), IsSequence(b), NEW v, NEW w, Append(a, v) = Append(b, w)
    PROVE  a = b /\ v = w
<1> DEFINE X == ToSet(a) \cup ToSet(b) \cup {v, w}
<1>1. \A i \in 1 .. Len(a) : a[i] \in X
  BY DEF IsSequence, ToSet
<1>2. \A i \in 1 .. Len(b) : b[i] \in X
  BY DEF IsSequence, ToSet
<1>3. v \in X /\ w \in X
  OBVIOUS
<1> HIDE DEF X
<1>4. a \in Seq(X) /\ b \in Seq(X)
  BY <1>1, <1>2, SequenceIs
<1>5. Len(a) = Len(b)
  <2>1. Len(Append(a, v)) = Len(a) + 1 /\ Len(Append(b, w)) = Len(b) + 1
    BY <1>3, <1>4
  <2>2. QED
    BY <1>4, <2>1
<1>6. Append(a, v)[Len(a) + 1] = v /\ Append(b, w)[Len(b) + 1] = w
  BY <1>3, <1>4
<1>7. \A i \in 1 .. Len(a) : Append(a, v)[i] = a[i] /\ Append(b, w)[i] = b[i]
  BY <1>3, <1>4, <1>5
<1>8. \A i \in 1 .. Len(a) : a[i] = b[i]
  BY <1>7
<1>9. a = b
  BY <1>4, <1>5, <1>8
<1>10. QED
  BY <1>5, <1>6, <1>9

\* Without a clash of names no two repetitions have the same.
LEMMA GaplessIdsUnique ==
    ASSUME NEW s, Validate(s), WellFormed(s), ~HasIdClash(s),
           NEW x \in Repetitions(s), NEW y \in Repetitions(s), IdOf(s, x) = IdOf(s, y)
    PROVE  x = y
<1> DEFINE em == EmitterOf(s, x)
           other == EmitterOf(s, y)
<1>1. HasTimes(s)
  BY ValidTimes
<1>2. /\ x[1] \in DOMAIN s.emitters /\ x[2] \in 1 .. em.count /\ x = <<x[1], x[2]>>
      /\ em = s.emitters[x[1]] /\ em.count \in Nat /\ IdOf(s, x) = InstructionId(em, x[2])
      /\ y[1] \in DOMAIN s.emitters /\ y[2] \in 1 .. other.count /\ y = <<y[1], y[2]>>
      /\ other = s.emitters[y[1]] /\ other.count \in Nat /\ IdOf(s, y) = InstructionId(other, y[2])
  BY <1>1, WindowFacts DEF HasTimes, EmitterOf, IdOf
<1> HIDE DEF em, other
<1>3. em \in ToSet(s.emitters) /\ other \in ToSet(s.emitters)
  BY <1>2 DEF ToSet
<1>4. IsSequence(em.id) /\ IsSequence(other.id)
  BY <1>3 DEF WellFormed
<1>5. em.id = other.id => x[1] = y[1]
  BY <1>2 DEF Validate, DistinctIds
<1>6. /\ em.count > 1 => IdOf(s, x) = Append(em.id, x[2] - 1)
      /\ em.count = 1 => IdOf(s, x) = em.id
  BY <1>2, InstructionIds, Zenon
<1>7. /\ other.count > 1 => IdOf(s, y) = Append(other.id, y[2] - 1)
      /\ other.count = 1 => IdOf(s, y) = other.id
  BY <1>2, InstructionIds, Zenon
<1>8. CASE em.count > 1 /\ other.count > 1
  <2>1. Append(em.id, x[2] - 1) = Append(other.id, y[2] - 1)
    BY <1>6, <1>7, <1>8
  <2>2. em.id = other.id /\ x[2] - 1 = y[2] - 1
    BY <1>4, <2>1, AppendsDiffer, SMTT(20)
  <2>3. x[2] = y[2]
    BY <1>2, <2>2
  <2>4. QED
    BY <1>2, <1>5, <2>2, <2>3
<1>9. CASE em.count = 1 /\ other.count = 1
  <2>1. em.id = other.id
    BY <1>6, <1>7, <1>9
  <2>2. x[2] = 1 /\ y[2] = 1
    BY <1>2, <1>9
  <2>3. QED
    BY <1>2, <1>5, <2>1, <2>2
<1>10. CASE em.count > 1 /\ other.count = 1
  <2>1. other.id = Append(em.id, x[2] - 1)
    BY <1>6, <1>7, <1>10
  <2>2. QED
    BY <1>2, <1>3, <1>10, <2>1 DEF HasIdClash
<1>11. CASE em.count = 1 /\ other.count > 1
  <2>1. em.id = Append(other.id, y[2] - 1)
    BY <1>6, <1>7, <1>11
  <2>2. QED
    BY <1>2, <1>3, <1>11, <2>1 DEF HasIdClash
<1>12. (em.count > 1 \/ em.count = 1) /\ (other.count > 1 \/ other.count = 1)
  BY <1>2
<1>13. QED
  BY <1>8, <1>9, <1>10, <1>11, <1>12

\* Without a gap prepare takes the channels.
LEMMA GaplessChannels ==
    ASSUME NEW s, Validate(s), WellFormed(s), ~HasGap(s)
    PROVE  /\ PrepareAccepts(PlanOf(s))
           /\ \A i, j \in DOMAIN EffectiveChannels(s) :
                 \/ EffectiveChannels(s)[i].index = EffectiveChannels(s)[j].index
                 \/ EffectiveChannels(s)[i].id = EffectiveChannels(s)[j].id
                 => i = j
<1> DEFINE channels == EffectiveChannels(s)
           devices == {c.device : c \in ToSet(channels)}
           p == PlanOf(s)
<1>1. \A i \in DOMAIN channels : channels[i] \in ToSet(channels) /\ channels[i].device \in devices
  BY DEF ToSet
<1>2. IsFiniteSet(devices)
  <2> DEFINE n == Len(channels)
             f == [i \in 1 .. n |-> channels[i].device]
  <2>1. n \in Nat /\ DOMAIN channels = 1 .. n
    BY ChannelsAre
  <2>2. f \in Surjection(1 .. n, devices)
    <3>1. devices = {channels[i].device : i \in 1 .. n}
      BY <2>1 DEF ToSet
    <3> HIDE DEF devices, channels, n
    <3>2. f \in [1 .. n -> devices]
      BY <3>1
    <3>3. \A d \in devices : \E i \in 1 .. n : f[i] = d
      BY <3>1
    <3> HIDE DEF f
    <3>4. QED
      BY <3>2, <3>3 DEF Surjection
  <2>3. IsFiniteSet(1 .. n)
    BY <2>1, FS_Interval
  <2> HIDE DEF f, n, devices
  <2>4. QED
    BY <2>2, <2>3, FS_Surjection
<1>3. ~(Cardinality(devices) > 1)
  BY DEF HasGap
<1>4. ASSUME NEW d \in devices, NEW e \in devices PROVE d = e
  <2> HIDE DEF devices
  <2>1. SUFFICES ASSUME d # e PROVE FALSE
    OBVIOUS
  <2>2. Cardinality({d, e}) = 2
    <3>1. IsFiniteSet({d}) /\ Cardinality({d}) = 1
      BY FS_Singleton
    <3>2. Cardinality({d} \cup {e}) = Cardinality({d}) + 1
      BY <2>1, <3>1, FS_AddElement
    <3>3. {d} \cup {e} = {d, e}
      OBVIOUS
    <3>4. QED
      BY <3>1, <3>2, <3>3
  <2>3. Cardinality({d, e}) <= Cardinality(devices)
    BY <1>2, FS_Subset
  <2>4. Cardinality(devices) \in Nat
    BY <1>2, FS_CardinalityType
  <2>5. QED
    BY <1>3, <2>2, <2>3, <2>4
<1>5. \A i, j \in DOMAIN channels : channels[i].device = channels[j].device
  BY <1>1, <1>4
<1>6. \A c \in ToSet(channels) : c.rf = "ok"
  BY ChannelSettings DEF HasGap, WellFormed
<1>7. ASSUME NEW i \in DOMAIN channels, NEW j \in DOMAIN channels,
             channels[i].index = channels[j].index \/ channels[i].id = channels[j].id
      PROVE  i = j
  <2>1. CASE s.channels # <<>>
    <3>1. channels = s.channels
      BY <2>1 DEF EffectiveChannels
    <3>2. channels[i].device = channels[j].device
      BY <1>5
    <3> HIDE DEF channels
    <3>3. QED
      BY <1>7, <3>1, <3>2 DEF Validate, CheckChannels, DistinctIds
  <2>2. CASE s.channels = <<>>
    <3>1. DOMAIN channels = DOMAIN s.devices
          /\ \A k \in DOMAIN s.devices : channels[k].device = s.devices[k].id
      BY <2>2 DEF EffectiveChannels
    <3>2. channels[i].device = channels[j].device
      BY <1>5
    <3> HIDE DEF channels
    <3>3. s.devices[i].id = s.devices[j].id /\ i \in DOMAIN s.devices /\ j \in DOMAIN s.devices
      BY <3>1, <3>2
    <3>4. QED
      BY <3>3 DEF Validate, DistinctIds
  <2>3. QED
    BY <2>1, <2>2
<1>8. /\ DOMAIN p.channels = DOMAIN channels
      /\ \A i \in DOMAIN channels :
            /\ p.channels[i].device = channels[i].device
            /\ p.channels[i].index = channels[i].index
            /\ p.channels[i].rf = channels[i].rf
  BY DEF PlanOf
<1> HIDE DEF p
<1>9. PrepareAccepts(p)
  <2>1. \A c \in ToSet(p.channels) : c.rf = "ok"
    BY <1>1, <1>6, <1>8 DEF ToSet
  <2> HIDE DEF channels
  <2>2. \A i, j \in DOMAIN p.channels : /\ p.channels[i].index = p.channels[j].index => i = j
                                        /\ p.channels[i].device = p.channels[j].device
    BY <1>5, <1>7, <1>8
  <2>3. QED
    BY <2>1, <2>2 DEF PrepareAccepts
<1>10. QED
  BY <1>7, <1>9 DEF p

LEMMA GaplessIsAssigned ==
    ASSUME NEW s, Validate(s), WellFormed(s), ~HasGap(s)
    PROVE  IsAssigned(s)
<1> DEFINE channels == EffectiveChannels(s)
           all == Renders(s)
           X == {RenderOf(s, x) : x \in Repetitions(s)}
           f == [x \in Repetitions(s) |-> RenderOf(s, x)]
<1>1. HasTimes(s)
  BY ValidTimes
<1>2. PrepareAccepts(PlanOf(s)) /\ channels # <<>>
  BY HasChannels, GaplessChannels
<1>3. IdsDistinct(all)
  <2>1. all \in Seq(X) /\ Lists(all, f)
    BY <1>1, RendersList
  <2>2. ASSUME NEW x \in Repetitions(s), NEW y \in Repetitions(s), f[x].id = f[y].id PROVE x = y
    <3>1. f[x].id = IdOf(s, x) /\ f[y].id = IdOf(s, y)
      BY DEF RenderOf
    <3>2. ~HasIdClash(s)
      BY DEF HasGap
    <3>3. QED
      BY <2>2, <3>1, <3>2, GaplessIdsUnique
  <2>3. DOMAIN f = Repetitions(s)
    OBVIOUS
  <2> HIDE DEF all, X, f
  <2>4. QED
    BY <2>1, <2>2, <2>3, ListsDistinct
<1>4. ASSUME NEW x \in Repetitions(s)
      PROVE  \E i \in DOMAIN channels : \A j \in DOMAIN channels :
                /\ PlannerKey(s, EmitterOf(s, x)) = KeyAt(s, j) <=> j = i
                /\ ChannelIdOf(s, IdOf(s, x)) = channels[j].id <=> j = i
  <2> DEFINE em == EmitterOf(s, x)
             own == ChannelFor(s, em)
             matches == {c \in ToSet(channels) :
                           IF em.channelId # None THEN c.id = em.channelId
                           ELSE c.device = em.device /\ c.index = em.channel}
  <2>1. em \in ToSet(s.emitters)
    BY <1>1, WindowFacts DEF HasTimes, EmitterOf, ToSet
  <2>2. IsBound(s, PlannerKey(s, em)[1], PlannerKey(s, em)[2])
    BY <2>1, SameKey DEF HasGap
  <2>3. own # None /\ own \in ToSet(channels)
    <3>1. CASE matches = {}
      <4>1. own = None /\ PlannerKey(s, em) = <<em.device, em.channel>>
        BY <3>1 DEF ChannelFor, PlannerKey
      <4>2. PICK c \in ToSet(channels) : c.device = em.device /\ c.index = em.channel
        BY <2>2, <4>1 DEF IsBound
      <4>3. em.channelId # None
        BY <3>1, <4>2
      <4>4. PICK d \in ToSet(s.channels) : d.id = em.channelId
        BY <2>1, <4>3 DEF Validate, CheckChannels
      <4>5. s.channels # <<>>
        BY <4>4 DEF ToSet
      <4>6. d \in matches
        BY <4>3, <4>4, <4>5 DEF EffectiveChannels
      <4>7. QED
        BY <3>1, <4>6
    <3>2. CASE matches # {}
      <4>1. own \in matches
        BY <3>2 DEF ChannelFor
      <4>2. own \in ToSet(channels)
        BY <4>1
      <4> HIDE DEF own, matches, channels
      <4>3. QED
        BY <4>2 DEF WellFormed, channels
    <3>3. QED
      BY <3>1, <3>2
  <2>4. PICK i \in DOMAIN channels : own = channels[i]
    BY <2>3 DEF ToSet
  <2>5. PlannerKey(s, em) = KeyAt(s, i)
    BY <2>3, <2>4 DEF PlannerKey, KeyAt
  <2>6. ChannelIdOf(s, IdOf(s, x)) = channels[i].id
    <3> HIDE DEF own
    <3>1. ChannelIdOf(s, IdOf(s, x)) = IF own = None THEN <<>> ELSE own.id
      BY <1>1, <1>3, OwnerIs DEF own
    <3>2. QED
      BY <2>3, <2>4, <3>1
  <2>7. \A j \in DOMAIN channels : channels[j].index = channels[i].index \/ channels[j].id = channels[i].id => j = i
    BY GaplessChannels
  <2>8. \A j \in DOMAIN channels : KeyAt(s, j) = KeyAt(s, i) => j = i
    BY <2>7 DEF KeyAt
  <2> HIDE DEF channels, own, em, matches
  <2>9. QED
    BY <2>5, <2>6, <2>7, <2>8 DEF em
<1>5. QED
  BY <1>2, <1>3, <1>4 DEF IsAssigned

\* A window does not end before it starts, however it is rounded.
LEMMA WindowsOrdered ==
    ASSUME NEW s, Validate(s), WellFormed(s), NEW x \in Repetitions(s)
    PROVE  WindowOf(s, x).start <= WindowOf(s, x).end
<1> DEFINE em == EmitterOf(s, x)
           start == WindowOf(s, x).start
<1>1. HasTimes(s)
  BY ValidTimes
<1>2. /\ x[1] \in 1 .. Len(s.emitters) /\ x[2] \in 1 .. em.count
      /\ start = Plus(em.start, Times(x[2] - 1, em.interval))
      /\ WindowOf(s, x).end = Plus(start, em.duration)
  BY <1>1, WindowFacts
<1>3. /\ em.start \in Int /\ em.duration \in Int /\ em.count \in Nat /\ em.interval \in Int
      /\ em \in ToSet(s.emitters)
  BY <1>1, <1>2 DEF HasTimes, EmitterOf, ToSet
<1>4. CheckEmitter(s, em) /\ RepeatOk(em)
  BY <1>3 DEF Validate
<1>5. em.start \in Nat /\ em.duration \in Nat /\ em.interval \in Nat
  BY <1>3, <1>4 DEF CheckEmitter, RepeatOk
<1> HIDE DEF em, start
<1>6. (x[2] - 1) * em.interval \in Nat
  BY <1>2, <1>3, <1>5
<1>7. Times(x[2] - 1, em.interval) \in Nat
  BY <1>6, RoundedIsTime DEF Times, IsTime
<1>8. em.start + Times(x[2] - 1, em.interval) \in Nat
  BY <1>5, <1>7
<1>9. IsTime(start)
  BY <1>2, <1>8, RoundedIsTime DEF Plus
<1>10. start \in Nat /\ start + em.duration \in Nat /\ start <= start + em.duration
  <2>1. start \in Nat
    BY <1>9 DEF IsTime
  <2>2. QED
    BY <1>5, <2>1
<1>11. start <= Rounded(start + em.duration)
  BY <1>9, <1>10, RoundedNotBelow
<1>12. QED
  BY <1>2, <1>11 DEF Plus, start

\* What overlaps on a channel is mixed, in the same group.
LEMMA OverlapsAreMixed ==
    ASSUME NEW s, Validate(s), WellFormed(s), ~HasGap(s), NEW key,
           NEW of, IsMixing(s, key, MixGroupsOn(s, key), of),
           NEW x \in On(s, key), NEW y \in On(s, key), x # y,
           Overlap(WindowOf(s, x), WindowOf(s, y))
    PROVE  x \in MixedOn(s, key) /\ y \in MixedOn(s, key) /\ of[x] = of[y] /\ of[x] # 0
<1> DEFINE em == EmitterOf(s, x)
           other == EmitterOf(s, y)
<1>1. HasTimes(s)
  BY ValidTimes
<1>2. x \in Repetitions(s) /\ y \in Repetitions(s) /\ PlannerKey(s, em) = key /\ PlannerKey(s, other) = key
  BY DEF On
<1>3. ASSUME NEW z \in Repetitions(s)
      PROVE  /\ z[1] \in DOMAIN s.emitters /\ z[2] \in DOMAIN WindowsOf(EmitterOf(s, z))
             /\ z[1] \in Int /\ z[2] \in Int /\ z = <<z[1], z[2]>>
             /\ EmitterOf(s, z) = s.emitters[z[1]]
             /\ WindowOf(s, z) = WindowsOf(EmitterOf(s, z))[z[2]]
  <2>1. /\ z[1] \in 1 .. Len(s.emitters) /\ z[2] \in 1 .. EmitterOf(s, z).count
        /\ z = <<z[1], z[2]>>
    BY <1>1, WindowFacts
  <2>2. DOMAIN WindowsOf(EmitterOf(s, z)) = 1 .. EmitterOf(s, z).count
    BY <1>1, <2>1, WindowFacts DEF EmitterOf
  <2>3. QED
    BY <1>1, <2>1, <2>2 DEF HasTimes, EmitterOf, WindowOf
<1> HIDE DEF em, other
<1>4. em \in ToSet(s.emitters) /\ other \in ToSet(s.emitters)
  BY <1>2, <1>3 DEF ToSet, em, other
<1>5. ChannelKey(s, em) = ChannelKey(s, other)
  BY <1>2, <1>4, SameKey
<1>6. Overlap(WindowsOf(em)[x[2]], WindowsOf(other)[y[2]]) /\ Overlap(WindowsOf(other)[y[2]], WindowsOf(em)[x[2]])
  BY <1>2, <1>3 DEF Overlap, em, other
<1>7. CASE x[1] # y[1]
  <2>1. WindowsCollide(em, other) /\ WindowsCollide(other, em)
    BY <1>2, <1>3, <1>6 DEF WindowsCollide, ToSet, em, other
  <2>2. x[1] < y[1] \/ y[1] < x[1]
    BY <1>2, <1>3, <1>7
  <2>3. em.additive /\ other.additive
    BY <1>2, <1>3, <1>5, <2>1, <2>2 DEF Validate, CheckOverlaps, em, other
  <2>4. QED
    BY <1>2, <2>3 DEF MixedOn, IsMixing, em, other
<1>8. CASE x[1] = y[1]
  <2>1. em = other
    BY <1>2, <1>3, <1>8 DEF em, other
  <2>2. x[2] # y[2]
    BY <1>2, <1>3, <1>8
  <2>3. x[2] < y[2] \/ y[2] < x[2]
    BY <1>2, <1>3, <2>2
  <2>4. OverlapsItself(em)
    BY <1>2, <1>3, <1>6, <2>1, <2>3 DEF OverlapsItself, em, other
  <2>5. em.additive
    BY <1>4, <2>4 DEF HasGap
  <2>6. QED
    BY <1>2, <2>1, <2>5 DEF MixedOn, IsMixing, em, other
<1>9. QED
  BY <1>7, <1>8

\* A window that overlaps a group overlaps one of its members.
LEMMA GroupHasNoHole ==
    ASSUME NEW s, Validate(s), WellFormed(s), ~HasInexactMix(s), NEW key,
           NEW of, IsMixing(s, key, MixGroupsOn(s, key), of),
           NEW g \in 1 .. Len(MixGroupsOn(s, key))
    PROVE  LET group == GroupEntry(s, key, of, g)
           IN  /\ group.start \in Int /\ group.end \in Int /\ group.start <= group.end
               /\ \A window : /\ window.start \in Int /\ window.end \in Int
                              /\ window.start <= window.end /\ Overlap(group, window)
                     => \E x \in GroupMembers(s, key, of, g) : Overlap(WindowOf(s, x), window)
<1> DEFINE group == MixGroupsOn(s, key)[g]
           members == GroupMembers(s, key, of, g)
           entry == GroupEntry(s, key, of, g)
<1>1. HasTimes(s)
  BY ValidTimes
<1>2. IsMix(s, members, group)
  BY DEF IsMixing, GroupMembers
<1>3. PICK y \in members :
         /\ group.start < WindowOf(s, y).end
         /\ group.duration = Minus(WindowOf(s, y).end, group.start)
         /\ \A x \in members : WindowOf(s, x).end <= WindowOf(s, y).end
         /\ \A lo, hi \in Int : lo <= hi /\ group.start < hi /\ lo < WindowOf(s, y).end =>
               \E x \in members : lo < WindowOf(s, x).end /\ WindowOf(s, x).start < hi
  BY <1>2 DEF IsMix
<1>4. PICK z \in members : group.start = WindowOf(s, z).start
  BY <1>2 DEF IsMix
<1>5. \A w \in members : /\ w \in Repetitions(s) /\ EmitterOf(s, w).additive
                         /\ ChannelKey(s, EmitterOf(s, w)) = key
  <2>1. ASSUME NEW w \in members
        PROVE  /\ w \in Repetitions(s) /\ EmitterOf(s, w).additive
               /\ ChannelKey(s, EmitterOf(s, w)) = key
    <3>1. w \in Repetitions(s) /\ EmitterOf(s, w).additive /\ PlannerKey(s, EmitterOf(s, w)) = key
      BY DEF GroupMembers, MixedOn
    <3>2. EmitterOf(s, w) \in ToSet(s.emitters)
      BY <1>1, <3>1, WindowFacts DEF HasTimes, EmitterOf, ToSet
    <3>3. QED
      BY <3>1, <3>2, SameKey
  <2>2. QED
    BY <2>1
<1>6. Expanded(s) = Repetitions(s)
  BY ValidTimes
<1>7. Plus(group.start, Minus(WindowOf(s, y).end, group.start)) = WindowOf(s, y).end
  <2> HIDE DEF members, group
  <2>1. QED
    BY <1>3, <1>4, <1>5, <1>6 DEF HasInexactMix, EmitterOf, WindowOf
<1>8. entry.start = group.start /\ entry.end = WindowOf(s, y).end
  BY <1>3, <1>7 DEF GroupEntry
<1>9. group.start \in Int /\ WindowOf(s, y).end \in Int
  BY <1>1, <1>4, <1>5, WindowFacts
<1> HIDE DEF members, group, entry
<1>10. ASSUME NEW window, window.start \in Int, window.end \in Int, window.start <= window.end,
              Overlap(entry, window)
       PROVE  \E x \in members : Overlap(WindowOf(s, x), window)
  <2>1. group.start < window.end /\ window.start < WindowOf(s, y).end
    BY <1>8, <1>10 DEF Overlap
  <2>2. PICK x \in members : window.start < WindowOf(s, x).end /\ WindowOf(s, x).start < window.end
    BY <1>3, <1>10, <2>1
  <2>3. QED
    BY <2>2 DEF Overlap
<1>11. entry.start <= entry.end
  BY <1>3, <1>8, <1>9
<1>12. QED
  BY <1>8, <1>9, <1>10, <1>11 DEF entry, members

\* Without a gap, and where no end is rounded, what arm refuses to overlap does not.
LEMMA GaplessWindows ==
    ASSUME NEW s, Validate(s), WellFormed(s), ~HasGap(s), ~HasInexactMix(s)
    PROVE  ScheduleWindowsOk(PlanOf(s))
<1> DEFINE channels == EffectiveChannels(s)
           p == PlanOf(s)
<1>1. HasTimes(s) /\ IsAssigned(s)
  BY ValidTimes, GaplessIsAssigned
<1>2. DOMAIN p.channels = DOMAIN channels
      /\ \A i \in DOMAIN channels : p.channels[i].index = channels[i].index
  BY PlannedChannels
<1>3. ASSUME NEW index \in ToSet(ActiveChannels(p))
      PROVE  \E j \in DOMAIN channels : index = channels[j].index
  <2> HIDE DEF p, channels
  <2>1. QED
    BY <1>2 DEF ActiveChannels, ToSet
<1>4. ASSUME NEW j \in DOMAIN channels, NEW index, index = channels[j].index
      PROVE  LET renders == RendersOn(p, index)
                 groups == GroupsOn(p, index)
             IN  /\ \A i, k \in DOMAIN renders :
                       i < k /\ Overlap(RenderWindow(renders[i]), RenderWindow(renders[k]))
                           => SameMixGroupCoversOverlap(p, index, renders[i], renders[k])
                 /\ \A i, k \in DOMAIN groups :
                       i < k => ~Overlap(GroupWindow(groups[i]), GroupWindow(groups[k]))
                 /\ \A group \in ToSet(groups), instr \in ToSet(renders) :
                       Overlap(GroupWindow(group), RenderWindow(instr))
                           => instr.id \in ToSet(group.members)
  <2> DEFINE key == KeyAt(s, j)
             n == Len(MixGroupsOn(s, key))
             groups == GroupsOn(p, index)
             renders == RendersOn(p, index)
             f == [x \in On(s, key) |-> RenderOf(s, x)]
             h == [g \in 1 .. n |-> GroupAt(s, <<key, g>>)]
             XR == {RenderOf(s, x) : x \in Repetitions(s)}
             XG == {GroupAt(s, y) : y \in GroupPlaces(s)}
  <2>1. PICK of : IsMixing(s, key, MixGroupsOn(s, key), of)
    BY <1>1, MixGroupsAre
  <2>2. renders \in Seq(XR) /\ Lists(renders, f)
    BY <1>1, <1>4, RendersOnList
  <2>3. groups \in Seq(XG) /\ Lists(groups, h)
    BY <1>1, <1>4, GroupsOnList
  <2>4. \A g \in 1 .. n : ToSet(GroupAt(s, <<key, g>>).members)
                            = {IdOf(s, x) : x \in GroupMembers(s, key, of, g)}
    <3> HIDE DEF groups
    <3>1. QED
      BY <1>1, <2>1, <2>3, MixedIdsAre
  <2>5. PICK at : Arranges(at, DOMAIN f, Len(renders)) /\ \A x \in DOMAIN f : renders[at[x]] = f[x]
    BY <2>2 DEF Lists
  <2>6. PICK of2 : Arranges(of2, DOMAIN h, Len(groups)) /\ \A g \in DOMAIN h : groups[of2[g]] = h[g]
    BY <2>3 DEF Lists
  <2>7. /\ DOMAIN renders = 1 .. Len(renders) /\ DOMAIN groups = 1 .. Len(groups)
        /\ Len(renders) \in Nat /\ Len(groups) \in Nat
    <3> HIDE DEF renders, groups, XR, XG
    <3>1. QED
      BY <2>2, <2>3
  <2> HIDE DEF renders, groups, XR, XG, n
  <2>8. ASSUME NEW i \in DOMAIN renders
        PROVE  \E x \in On(s, key) :
                  /\ at[x] = i /\ renders[i] = RenderOf(s, x) /\ renders[i].id = IdOf(s, x)
                  /\ RenderWindow(renders[i]).start = WindowOf(s, x).start
                  /\ RenderWindow(renders[i]).end = WindowOf(s, x).end
    <3>1. PICK x \in On(s, key) : at[x] = i
      BY <2>5, <2>7 DEF Arranges
    <3>2. renders[i] = RenderOf(s, x)
      BY <2>5, <3>1
    <3>3. /\ RenderOf(s, x).id = IdOf(s, x) /\ RenderOf(s, x).start = WindowOf(s, x).start
          /\ RenderOf(s, x).duration = EmitterOf(s, x).duration
      BY DEF RenderOf
    <3>4. WindowOf(s, x).end = Plus(WindowOf(s, x).start, EmitterOf(s, x).duration)
      BY <1>1, WindowFacts DEF On
    <3>5. QED
      BY <3>1, <3>2, <3>3, <3>4 DEF RenderWindow, Window
  <2>9. ASSUME NEW k \in DOMAIN groups
         PROVE  \E g \in 1 .. n :
                   /\ of2[g] = k
                   /\ ToSet(groups[k].members) = {IdOf(s, x) : x \in GroupMembers(s, key, of, g)}
                   /\ groups[k].start = GroupEntry(s, key, of, g).start
                   /\ GroupWindow(groups[k]).start = GroupEntry(s, key, of, g).start
                   /\ GroupWindow(groups[k]).end = GroupEntry(s, key, of, g).end
    <3>1. PICK g \in 1 .. n : of2[g] = k
      BY <2>6, <2>7 DEF Arranges
    <3>2. groups[k] = GroupAt(s, <<key, g>>)
      BY <2>6, <3>1
    <3>3. /\ GroupAt(s, <<key, g>>).start = MixGroupsOn(s, key)[g].start
          /\ GroupAt(s, <<key, g>>).duration = MixGroupsOn(s, key)[g].duration
      BY DEF GroupAt
    <3>4. ToSet(groups[k].members) = {IdOf(s, x) : x \in GroupMembers(s, key, of, g)}
      BY <2>4, <3>2
    <3>5. QED
      BY <3>1, <3>2, <3>3, <3>4 DEF GroupEntry, GroupWindow, Window
  <2>10. ASSUME NEW x \in On(s, key)
         PROVE  /\ WindowOf(s, x).start \in Int /\ WindowOf(s, x).end \in Int
                /\ WindowOf(s, x).start <= WindowOf(s, x).end
    BY <1>1, WindowFacts, WindowsOrdered DEF On
  <2>11. ASSUME NEW i \in DOMAIN renders, NEW k \in DOMAIN renders, i < k,
                Overlap(RenderWindow(renders[i]), RenderWindow(renders[k]))
         PROVE  SameMixGroupCoversOverlap(p, index, renders[i], renders[k])
    <3>1. PICK x \in On(s, key) : /\ at[x] = i /\ renders[i] = RenderOf(s, x) /\ renders[i].id = IdOf(s, x)
                                  /\ RenderWindow(renders[i]).start = WindowOf(s, x).start
                  /\ RenderWindow(renders[i]).end = WindowOf(s, x).end
      BY <2>8
    <3>2. PICK y \in On(s, key) : /\ at[y] = k /\ renders[k] = RenderOf(s, y) /\ renders[k].id = IdOf(s, y)
                                  /\ RenderWindow(renders[k]).start = WindowOf(s, y).start
                                  /\ RenderWindow(renders[k]).end = WindowOf(s, y).end
      BY <2>8
    <3>3. x # y
      <4>1. i # k
        BY <2>7, <2>11
      <4>2. QED
        BY <3>1, <3>2, <4>1
    <3>4. x \in MixedOn(s, key) /\ y \in MixedOn(s, key) /\ of[x] = of[y] /\ of[x] # 0
      <4>1. Overlap(WindowOf(s, x), WindowOf(s, y))
        BY <2>11, <3>1, <3>2 DEF Overlap
      <4>2. QED
        BY <2>1, <3>3, <4>1, OverlapsAreMixed
    <3>5. of[x] \in 1 .. n
      <4>1. of[x] \in 0 .. n
        BY <2>1, <3>4 DEF IsMixing, n
      <4>2. QED
        BY <3>4, <4>1
    <3>6. x \in GroupMembers(s, key, of, of[x]) /\ y \in GroupMembers(s, key, of, of[x])
      BY <3>4 DEF GroupMembers
    <3> DEFINE group == groups[of2[of[x]]]
    <3>7. group \in ToSet(groups) /\ of2[of[x]] \in DOMAIN groups
      <4>1. of2[of[x]] \in 1 .. Len(groups)
        BY <2>6, <3>5 DEF Arranges
      <4>2. QED
        BY <2>7, <4>1 DEF ToSet
    <3>8. /\ ToSet(group.members) = {IdOf(s, z) : z \in GroupMembers(s, key, of, of[x])}
          /\ group.start = GroupEntry(s, key, of, of[x]).start
          /\ GroupWindow(group).end = GroupEntry(s, key, of, of[x]).end
      <4>1. PICK g \in 1 .. n :
                   /\ of2[g] = of2[of[x]]
                   /\ ToSet(group.members) = {IdOf(s, z) : z \in GroupMembers(s, key, of, g)}
                   /\ group.start = GroupEntry(s, key, of, g).start
                   /\ GroupWindow(group).end = GroupEntry(s, key, of, g).end
        BY <2>9, <3>7
      <4>2. g = of[x]
        BY <2>6, <3>5, <4>1 DEF Arranges
      <4>3. QED
        BY <4>1, <4>2
    <3>9. {renders[i].id, renders[k].id} \subseteq ToSet(group.members)
      BY <3>1, <3>2, <3>6, <3>8
    <3>10. /\ GroupEntry(s, key, of, of[x]).start <= WindowOf(s, x).start
           /\ WindowOf(s, x).end <= GroupEntry(s, key, of, of[x]).end
      BY <2>1, <3>5, <3>6, GroupCovers DEF n
    <3>11. group.start <= renders[i].start
      BY <3>1, <3>8, <3>10 DEF RenderOf
    <3>12. RenderWindow(renders[i]).end <= GroupWindow(group).end
      BY <3>1, <3>8, <3>10
    <3> HIDE DEF group
    <3>13. QED
      BY <3>7, <3>9, <3>11, <3>12 DEF SameMixGroupCoversOverlap, groups
  <2>12. ASSUME NEW i \in DOMAIN groups, NEW k \in DOMAIN groups, i < k,
                Overlap(GroupWindow(groups[i]), GroupWindow(groups[k]))
         PROVE  FALSE
    <3>1. PICK g \in 1 .. n : /\ of2[g] = i
                              /\ GroupWindow(groups[i]).start = GroupEntry(s, key, of, g).start
                              /\ GroupWindow(groups[i]).end = GroupEntry(s, key, of, g).end
      BY <2>9
    <3>2. PICK l \in 1 .. n : /\ of2[l] = k
                              /\ GroupWindow(groups[k]).start = GroupEntry(s, key, of, l).start
                              /\ GroupWindow(groups[k]).end = GroupEntry(s, key, of, l).end
      BY <2>9
    <3>3. g # l
      <4>1. i # k
        BY <2>7, <2>12
      <4>2. QED
        BY <3>1, <3>2, <4>1
    <3>4. Overlap(GroupEntry(s, key, of, g), GroupEntry(s, key, of, l))
      BY <2>12, <3>1, <3>2 DEF Overlap
    <3>5. PICK x \in GroupMembers(s, key, of, g) : Overlap(WindowOf(s, x), GroupEntry(s, key, of, l))
      BY <2>1, <3>4, GroupHasNoHole DEF n
    <3>6. x \in MixedOn(s, key) /\ of[x] = g /\ x \in On(s, key)
      BY <3>5 DEF GroupMembers, MixedOn, On
    <3>7. Overlap(GroupEntry(s, key, of, l), WindowOf(s, x))
      BY <3>5 DEF Overlap
    <3>8. PICK y \in GroupMembers(s, key, of, l) : Overlap(WindowOf(s, y), WindowOf(s, x))
      BY <2>1, <2>10, <3>6, <3>7, GroupHasNoHole DEF n
    <3>9. y \in MixedOn(s, key) /\ of[y] = l /\ y \in On(s, key)
      BY <3>8 DEF GroupMembers, MixedOn, On
    <3>10. of[x] = of[y]
      BY <2>1, <3>3, <3>6, <3>8, <3>9, OverlapsAreMixed
    <3>11. QED
      BY <3>3, <3>6, <3>9, <3>10
  <2>13. ASSUME NEW group \in ToSet(groups), NEW instr \in ToSet(renders),
                Overlap(GroupWindow(group), RenderWindow(instr)), instr.id \notin ToSet(group.members)
         PROVE  FALSE
    <3>1. PICK k \in DOMAIN groups : group = groups[k]
      BY DEF ToSet
    <3>2. PICK i \in DOMAIN renders : instr = renders[i]
      BY DEF ToSet
    <3>3. PICK g \in 1 .. n : /\ ToSet(group.members) = {IdOf(s, x) : x \in GroupMembers(s, key, of, g)}
                              /\ GroupWindow(group).start = GroupEntry(s, key, of, g).start
                              /\ GroupWindow(group).end = GroupEntry(s, key, of, g).end
      BY <2>9, <3>1
    <3>4. PICK x \in On(s, key) : /\ instr.id = IdOf(s, x)
                                  /\ RenderWindow(instr).start = WindowOf(s, x).start
                                  /\ RenderWindow(instr).end = WindowOf(s, x).end
      BY <2>8, <3>2
    <3>5. Overlap(GroupEntry(s, key, of, g), WindowOf(s, x))
      BY <2>13, <3>3, <3>4 DEF Overlap
    <3>6. PICK y \in GroupMembers(s, key, of, g) : Overlap(WindowOf(s, y), WindowOf(s, x))
      BY <2>1, <2>10, <3>5, GroupHasNoHole DEF n
    <3>7. y \in MixedOn(s, key) /\ of[y] = g /\ y \in On(s, key)
      BY <3>6 DEF GroupMembers, MixedOn, On
    <3>8. x # y
      BY <2>13, <3>3, <3>4, <3>6
    <3>9. x \in MixedOn(s, key) /\ of[x] = g
      BY <2>1, <3>6, <3>7, <3>8, OverlapsAreMixed
    <3>10. x \in GroupMembers(s, key, of, g)
      BY <3>9 DEF GroupMembers
    <3>11. QED
      BY <2>13, <3>3, <3>4, <3>10
  <2>14. QED
    BY <2>11, <2>12, <2>13 DEF renders, groups
<1> HIDE DEF p, channels
<1>5. QED
  BY <1>3, <1>4 DEF ScheduleWindowsOk, p

\* Every event reaches channels, and the emitter it names is on all of them.
LEMMA GaplessEvent ==
    ASSUME NEW s, Validate(s), WellFormed(s), ~HasGap(s), NEW evt \in ToSet(s.events)
    PROVE  /\ \E c \in ToSet(EffectiveChannels(s)) :
                 c.device = evt.device /\ evt.channel \in {None, c.index}
           /\ evt.channel = None \/ evt.channel # BadChannel
           /\ NamesEmitter(evt.kind) => evt.emitter \in IdsOf(s)
           /\ \A j \in DOMAIN EffectiveChannels(s) :
                 NamesEmitter(evt.kind) /\ ReachesChannel(evt, EffectiveChannels(s)[j]) =>
                    \E x \in On(s, KeyAt(s, j)) : IdOf(s, x) = evt.emitter
<1> DEFINE channels == EffectiveChannels(s)
           reached == {c.index : c \in {ch \in ToSet(channels) :
                         ch.device = evt.device /\ evt.channel \in {None, ch.index}}}
           named == {x \in Expanded(s) : InstructionId(s.emitters[x[1]], x[2]) = evt.emitter}
<1>1. HasTimes(s) /\ Expanded(s) = Repetitions(s) /\ IsAssigned(s)
  BY ValidTimes, GaplessIsAssigned
<1>2. /\ reached # {}
      /\ NamesEmitter(evt.kind) =>
            named # {} /\ \A x \in named : {ChannelKey(s, s.emitters[x[1]])[2]} = reached
  BY DEF HasGap, IsMisaddressed
<1>3. PICK c \in ToSet(channels) : c.device = evt.device /\ evt.channel \in {None, c.index}
  BY <1>2
<1>4. c.index # BadChannel
  BY <1>3 DEF WellFormed
<1>5. evt.channel = None \/ evt.channel # BadChannel
  BY <1>3, <1>4
<1>6. NamesEmitter(evt.kind) => evt.emitter \in IdsOf(s)
  BY <1>1, <1>2 DEF IdsOf, IdOf, EmitterOf
<1>7. ASSUME NEW j \in DOMAIN channels, NamesEmitter(evt.kind), ReachesChannel(evt, channels[j])
      PROVE  \E x \in On(s, KeyAt(s, j)) : IdOf(s, x) = evt.emitter
  <2>1. PICK x \in named : {ChannelKey(s, s.emitters[x[1]])[2]} = reached
    BY <1>2, <1>7
  <2>2. x \in Repetitions(s) /\ IdOf(s, x) = evt.emitter
    BY <1>1 DEF IdOf, EmitterOf
  <2>3. channels[j].index \in reached
    <3>1. channels[j] \in ToSet(channels)
      BY DEF ToSet
    <3>2. channels[j].device = evt.device /\ evt.channel \in {None, channels[j].index}
      BY <1>5, <1>7 DEF ReachesChannel
    <3> HIDE DEF channels
    <3>3. QED
      BY <3>1, <3>2
  <2>4. EmitterOf(s, x) \in ToSet(s.emitters)
    BY <1>1, <2>2, WindowFacts DEF HasTimes, EmitterOf, ToSet
  <2>5. PICK i \in DOMAIN channels : PlannerKey(s, EmitterOf(s, x)) = KeyAt(s, i)
    BY <1>1, <2>2 DEF IsAssigned
  <2>6. KeyAt(s, i)[2] = channels[j].index
    <3>1. ChannelKey(s, s.emitters[x[1]]) = KeyAt(s, i)
      BY <2>4, <2>5, SameKey DEF EmitterOf
    <3> HIDE DEF channels, reached
    <3>2. QED
      BY <2>1, <2>3, <3>1
  <2>7. i = j
    <3>1. channels[i].index = channels[j].index
      BY <2>6 DEF KeyAt
    <3>2. QED
      BY <3>1, GaplessChannels
  <2>8. QED
    BY <2>2, <2>5, <2>7 DEF On
<1>8. QED
  BY <1>3, <1>5, <1>6, <1>7

\* Without a gap, and where no end is rounded, the plan arms.
LEMMA GaplessIsArmable ==
    ASSUME NEW s, Validate(s), WellFormed(s), ~HasGap(s), ~HasInexactMix(s)
    PROVE  Armable(s)
<1> DEFINE channels == EffectiveChannels(s)
           p == PlanOf(s)
<1>1. HasTimes(s) /\ IsAssigned(s)
  BY ValidTimes, GaplessIsAssigned
<1>2. /\ DOMAIN p.channels = DOMAIN channels
      /\ DOMAIN p.channelPlans = DOMAIN channels
      /\ \A i \in DOMAIN channels :
            /\ p.channels[i].device = channels[i].device
            /\ p.channels[i].index = channels[i].index
            /\ p.channelPlans[i].index = channels[i].index
  BY PlannedChannels
<1>3. p.timeline = s.events
      /\ \A j \in DOMAIN channels :
            p.channelPlans[j].events = Keep(s.events, {e \in ToSet(s.events) : ReachesChannel(e, channels[j])})
  BY DEF PlanOf
<1>4. Ids(p.renders) = IdsOf(s) /\ IdsDistinct(p.renders) /\ p.renders # <<>>
  BY <1>1, RenderIds, RendersAnything, PlanParts DEF IsAssigned
<1>5. \A j \in DOMAIN channels : /\ Ids(p.channelPlans[j].renders) = {IdOf(s, x) : x \in On(s, KeyAt(s, j))}
                                 /\ IdsDistinct(p.channelPlans[j].renders)
  BY <1>1, PlannedIds
<1>6. \A i, j \in DOMAIN channels : channels[i].index = channels[j].index => i = j
  BY GaplessChannels
<1>7. \A j \in DOMAIN channels : On(s, KeyAt(s, j)) \subseteq Repetitions(s)
  BY DEF On
<1>8. \A j \in DOMAIN channels : channels[j] \in ToSet(channels)
  BY DEF ToSet
<1>9. \A c \in ToSet(channels) : \E j \in DOMAIN channels : c = channels[j]
  BY DEF ToSet
<1>10. \A j \in DOMAIN channels : IsBinding(p, channels[j].device, channels[j].index)
  <2> HIDE DEF p, channels
  <2>1. \A j \in DOMAIN p.channels : p.channels[j] \in ToSet(p.channels)
    BY DEF ToSet
  <2>2. QED
    BY <1>2, <2>1 DEF IsBinding
<1>11. ASSUME NEW evt \in ToSet(s.events) PROVE CheckEvent(s, evt)
  BY DEF Validate
<1>12. \A cp \in ToSet(p.channelPlans) : ArmAcceptsChannelPlan(p, cp)
  <2> SUFFICES ASSUME NEW cp \in ToSet(p.channelPlans) PROVE ArmAcceptsChannelPlan(p, cp)
    OBVIOUS
  <2>1. PICK j \in DOMAIN channels : cp = p.channelPlans[j]
    <3> HIDE DEF p, channels
    <3>1. QED
      BY <1>2 DEF ToSet
  <2>2. cp.index = channels[j].index
    BY <1>2, <2>1
  <2>3. cp.index \in ToSet(ActiveChannels(p))
    <3> HIDE DEF p, channels
    <3>1. QED
      BY <1>2, <2>1, <2>2 DEF ActiveChannels, ToSet
  <2>4. IdsDistinct(cp.renders) /\ Ids(cp.renders) \subseteq Ids(p.renders)
    <3>1. {IdOf(s, x) : x \in On(s, KeyAt(s, j))} \subseteq IdsOf(s)
      BY <1>7 DEF IdsOf
    <3> HIDE DEF p, channels
    <3>2. QED
      BY <1>4, <1>5, <2>1, <3>1
  <2>5. ASSUME NEW evt \in ToSet(cp.events)
        PROVE  /\ IsBinding(p, evt.device, cp.index)
               /\ evt.channel \in {None, cp.index}
               /\ evt.body = "ok"
               /\ NamesEmitter(evt.kind) => evt.emitter \in Ids(cp.renders)
    <3> DEFINE kept == {e \in ToSet(s.events) : ReachesChannel(e, channels[j])}
               events == s.events
               X == ToSet(s.events)
    <3>1. events \in Seq(X)
      <4>1. IsSequence(events)
        BY DEF WellFormed
      <4>2. \A i \in 1 .. Len(events) : events[i] \in X
        BY <4>1 DEF IsSequence, ToSet
      <4> HIDE DEF events, X
      <4>3. QED
        BY <4>1, <4>2, SequenceIs
    <3>2. evt \in ToSet(Keep(events, kept))
      BY <1>3, <2>1
    <3>3. evt \in kept
      <4> HIDE DEF kept, events
      <4>1. QED
        BY <3>1, <3>2, KeptSet
    <3>4. evt \in ToSet(s.events) /\ ReachesChannel(evt, channels[j])
      BY <3>3
    <3> HIDE DEF p, channels, kept, events, X
    <3>5. evt.device = channels[j].device /\ evt.channel \in {None, channels[j].index}
      BY <3>4, GaplessEvent DEF ReachesChannel
    <3>6. NamesEmitter(evt.kind) => evt.emitter \in Ids(cp.renders)
      <4>1. NamesEmitter(evt.kind) => \E x \in On(s, KeyAt(s, j)) : IdOf(s, x) = evt.emitter
        BY <3>4, GaplessEvent DEF channels
      <4>2. QED
        BY <1>5, <2>1, <4>1
    <3>7. evt.body = "ok"
      BY <1>11, <3>4 DEF CheckEvent
    <3>8. QED
      BY <1>10, <2>2, <3>5, <3>6, <3>7
  <2> HIDE DEF p, channels
  <2>6. QED
    BY <2>3, <2>4, <2>5 DEF ArmAcceptsChannelPlan
<1>13. ChannelPlansPartition(p)
  <2>1. ASSUME NEW i \in DOMAIN channels, NEW j \in DOMAIN channels, i # j,
               NEW x \in On(s, KeyAt(s, i)), NEW y \in On(s, KeyAt(s, j)), IdOf(s, x) = IdOf(s, y)
        PROVE  FALSE
    <3>1. x = y
      BY <1>1, <1>7, <2>1, IdsUnique DEF IsAssigned
    <3>2. KeyAt(s, i) = KeyAt(s, j)
      BY <3>1 DEF On
    <3>3. QED
      BY <1>6, <2>1, <3>2 DEF KeyAt
  <2>2. ASSUME NEW x \in Repetitions(s) PROVE \E j \in DOMAIN channels : x \in On(s, KeyAt(s, j))
    BY <1>1 DEF IsAssigned, On
  <2>3. \A i, j \in DOMAIN channels :
           i # j => Ids(p.channelPlans[i].renders) \cap Ids(p.channelPlans[j].renders) = {}
    <3> HIDE DEF p, channels
    <3>1. QED
      BY <1>5, <2>1
  <2>4. ASSUME NEW id \in Ids(p.renders) PROVE \E cp \in ToSet(p.channelPlans) : id \in Ids(cp.renders)
    <3>1. PICK x \in Repetitions(s) : id = IdOf(s, x)
      BY <1>4 DEF IdsOf
    <3>2. PICK j \in DOMAIN channels : x \in On(s, KeyAt(s, j))
      BY <2>2
    <3> HIDE DEF p, channels
    <3>3. id \in Ids(p.channelPlans[j].renders)
      BY <1>5, <3>1, <3>2
    <3>4. p.channelPlans[j] \in ToSet(p.channelPlans)
      BY <1>2, <3>2 DEF ToSet
    <3>5. QED
      BY <3>3, <3>4
  <2> HIDE DEF p, channels
  <2>5. QED
    BY <1>2, <1>6, <2>3, <2>4 DEF ChannelPlansPartition
<1>14. ArmAcceptsTimeline(p)
  <2> SUFFICES ASSUME NEW evt \in ToSet(s.events)
               PROVE  /\ \E c \in ToSet(p.channels) : c.device = evt.device
                      /\ evt.channel # None =>
                            evt.channel # BadChannel /\ IsBinding(p, evt.device, evt.channel)
                      /\ evt.body = "ok"
                      /\ NamesEmitter(evt.kind) => evt.emitter \in Ids(p.renders)
    BY <1>3 DEF ArmAcceptsTimeline
  <2>1. PICK c \in ToSet(channels) : c.device = evt.device /\ evt.channel \in {None, c.index}
    BY GaplessEvent
  <2>2. evt.channel = None \/ evt.channel # BadChannel
    BY GaplessEvent
  <2>3. NamesEmitter(evt.kind) => evt.emitter \in Ids(p.renders)
    BY <1>4, GaplessEvent
  <2>4. PICK j \in DOMAIN channels : c = channels[j]
    BY <1>9
  <2>5. evt.body = "ok"
    BY <1>11 DEF CheckEvent
  <2> HIDE DEF p, channels
  <2>6. p.channels[j] \in ToSet(p.channels) /\ p.channels[j].device = evt.device
    BY <1>2, <2>1, <2>4 DEF ToSet
  <2>7. evt.channel # None => IsBinding(p, evt.device, evt.channel)
    BY <1>10, <2>1, <2>4
  <2>8. QED
    BY <2>2, <2>3, <2>5, <2>6, <2>7
<1>15. ScheduleWindowsOk(p)
  BY GaplessWindows
<1>16. ASSUME NEW group \in ToSet(p.mixGroups) PROVE ArmAcceptsMixGroup(p, group)
  <2> DEFINE groups == MixGroups(s)
             X == {GroupAt(s, y) : y \in GroupPlaces(s)}
             f == [y \in GroupPlaces(s) |-> GroupAt(s, y)]
  <2>1. groups \in Seq(X) /\ Lists(groups, f)
    BY <1>1, MixGroupsList
  <2>2. ToSet(groups) = {f[y] : y \in DOMAIN f}
    <3> HIDE DEF groups, f, X
    <3>1. QED
      BY <2>1, ListsSet
  <2>3. PICK y \in GroupPlaces(s) : group = GroupAt(s, y)
    BY <2>2, PlanParts
  <2> DEFINE key == y[1]
             g == y[2]
             MG == MixGroupsOn(s, key)
             members == MG[g].members
  <2>4. group.device = key[1] /\ group.channel = key[2] /\ group.members = members
    BY <2>3 DEF GroupAt
  <2>5. PICK of : IsMixing(s, key, MG, of)
    BY <1>1, MixGroupsAre
  <2>6. g \in 1 .. Len(MG)
    BY DEF GroupPlaces
  <2> DEFINE D == {x \in MixedOn(s, key) : of[x] = g}
             h == [x \in D |-> IdOf(s, x)]
  <2>7. IsMix(s, D, MG[g])
    BY <2>5, <2>6 DEF IsMixing
  <2>8. Lists(members, h) /\ D # {}
    BY <2>7 DEF IsMix
  <2>9. PICK x \in D : TRUE
    BY <2>8
  <2>10. PICK j \in DOMAIN channels : key = KeyAt(s, j)
    BY <1>1 DEF IsAssigned, MixedOn
  <2>11. IsBinding(p, group.device, group.channel)
    <3>1. group.device = channels[j].device /\ group.channel = channels[j].index
      BY <2>4, <2>10 DEF KeyAt
    <3> HIDE DEF p, channels
    <3>2. QED
      BY <1>10, <3>1
  <2>12. members \in Seq(IdsOf(s))
    <3>1. MG \in Seq(GroupRecords(IdsOf(s)))
      BY <1>1, MixGroupsAre
    <3> HIDE DEF MG
    <3>2. MG[g] \in GroupRecords(IdsOf(s))
      BY <2>6, <3>1
    <3>3. QED
      BY <3>2 DEF GroupRecords
  <2>13. ToSet(members) \subseteq Ids(p.renders) /\ DOMAIN members = 1 .. Len(members)
    <3> HIDE DEF members, p
    <3>1. \A i \in 1 .. Len(members) : members[i] \in IdsOf(s)
      BY <2>12
    <3>2. DOMAIN members = 1 .. Len(members)
      BY <2>12
    <3>3. QED
      BY <1>4, <3>1, <3>2 DEF ToSet
  <2>14. ASSUME NEW a \in DOMAIN members, NEW b \in DOMAIN members, members[a] = members[b] PROVE a = b
    <3> HIDE DEF members
    <3>1. PICK place : Arranges(place, D, Len(members)) /\ \A v \in D : members[place[v]] = IdOf(s, v)
      BY <2>8 DEF Lists
    <3>2. PICK v \in D, w \in D : place[v] = a /\ place[w] = b
      BY <2>13, <3>1 DEF Arranges
    <3>3. IdOf(s, v) = IdOf(s, w)
      BY <2>14, <3>1, <3>2
    <3>4. v = w
      BY <1>1, <3>3, IdsUnique DEF IsAssigned, MixedOn
    <3>5. QED
      BY <3>2, <3>4
  <2> HIDE DEF p, members
  <2>15. QED
    BY <2>4, <2>11, <2>13, <2>14 DEF ArmAcceptsMixGroup
<1> HIDE DEF p
<1>17. ArmAccepts(p)
  BY <1>4, <1>12, <1>13, <1>14, <1>15, <1>16 DEF ArmAccepts
<1>18. QED
  BY <1>1, <1>17 DEF Armable, IsAssigned, p

-----------------------------------------------------------------------------
\* The stages in which a scenario is past the validator.
IInv == /\ scenario \in Scenarios
        /\ stage \notin {"parsed", "InputValidationFailure"} => Validate(scenario)
        /\ stage = "PlanningFailure" => ~Plannable(scenario)
        /\ plan # None => plan = PlanOf(scenario) /\ Validate(scenario)
        /\ stage \notin {"parsed", "validated", "InputValidationFailure", "PlanningFailure"}
              => plan = PlanOf(scenario)
        /\ stage \in {"prepared", "armed"} => PrepareAccepts(plan)
        /\ stage = "armed" => ArmAccepts(plan)
        /\ stage = "PreparationFailure" => ~(PrepareAccepts(plan) /\ ArmAccepts(plan))

LEMMA IInvInit == Init => IInv
  BY DEF Init, IInv

LEMMA IInvNext == IInv /\ [Next]_vars => IInv'
<1> SUFFICES ASSUME IInv, [Next]_vars PROVE IInv'
  OBVIOUS
<1>1. CASE ValidateStep
  BY <1>1 DEF IInv, ValidateStep, Untouched
<1>2. CASE PlanStep
  BY <1>2 DEF IInv, PlanStep, Untouched
<1>3. CASE Reload
  BY <1>3 DEF IInv, Reload, Untouched
<1>4. CASE Prepare
  BY <1>4 DEF IInv, Prepare
<1>5. CASE Arm
  BY <1>5 DEF IInv, Arm, Untouched
<1>6. CASE Run
  BY <1>6 DEF IInv, Run
<1>7. CASE Complete
  BY <1>7 DEF IInv, Complete, Untouched
<1>8. ASSUME NEW entry \in pending, Dispatch(entry) PROVE IInv'
  BY <1>8 DEF IInv, Dispatch
<1>9. CASE UNCHANGED vars
  BY <1>9 DEF IInv, vars
<1>10. QED
  BY <1>1, <1>2, <1>3, <1>4, <1>5, <1>6, <1>7, <1>8, <1>9 DEF Next

LEMMA IInvImplies == IInv => PlannerRefusalsExplained
<1>1. SUFFICES ASSUME IInv, stage = "PlanningFailure"
               PROVE  NamesUnknownEmitter(scenario) \/ HasTooLongEmitter(scenario)
  BY DEF PlannerRefusalsExplained
<1>2. Validate(scenario) /\ ~Plannable(scenario)
  BY <1>1 DEF IInv
<1>3. WellFormed(scenario)
  BY <1>1, ScenariosAssumption DEF IInv
<1>4. QED
  BY <1>2, <1>3, ValidatedIsPlannable

\* The planner refuses a validated scenario only for an event that names an
\* unknown emitter or an emitter too long, in every run of the command over any
\* set of scenarios.
THEOREM PlannerAgrees == Spec => []PlannerRefusalsExplained
<1>1. Init => IInv
  BY IInvInit
<1>2. IInv /\ [Next]_vars => IInv'
  BY IInvNext
<1>3. IInv => PlannerRefusalsExplained
  BY IInvImplies
<1>4. QED
  BY <1>1, <1>2, <1>3, PTL DEF Spec

\* A plan of the planner loads again exactly where it also arms, whatever the
\* scenario, once prepare has accepted its channels.
THEOREM LoadsWhereItArms == Spec => []ImportMatchesRuntime
<1>1. Init => IInv
  BY IInvInit
<1>2. IInv /\ [Next]_vars => IInv'
  BY IInvNext
<1>3. IInv => ImportMatchesRuntime
  <2>1. SUFFICES ASSUME IInv, plan # None, PrepareAccepts(plan)
                 PROVE  ImportAccepts(scenario, plan) <=> ArmAccepts(plan)
    BY DEF ImportMatchesRuntime
  <2>2. plan = PlanOf(scenario) /\ Validate(scenario) /\ WellFormed(scenario)
    BY <2>1, ScenariosAssumption DEF IInv
  <2>3. QED
    BY <2>1, <2>2, ImportIsArm
<1>4. QED
  BY <1>1, <1>2, <1>3, PTL DEF Spec

\* On an armed runtime every channel transmits one thing at a time, and every
\* repetition of every emitter once, on its own channel and no other, alone or
\* in a mix group, in every run of the command over any set of scenarios.
THEOREM TransmitsEachOnce == Spec => []OnAirOnce
<1>1. Init => IInv
  BY IInvInit
<1>2. IInv /\ [Next]_vars => IInv'
  BY IInvNext
<1>3. IInv => OnAirOnce
  <2>1. SUFFICES ASSUME IInv, stage = "armed", NEW c \in ToSet(EffectiveChannels(scenario))
                 PROVE  OnAirOnceOn(scenario, c, ScheduleOf(plan, c.index))
    BY DEF OnAirOnce, OnAirOnceOn
  <2>2. plan = PlanOf(scenario) /\ Armable(scenario)
    BY <2>1, ScenariosAssumption DEF IInv, Armable
  <2>3. PICK j \in DOMAIN EffectiveChannels(scenario) : c = EffectiveChannels(scenario)[j]
    BY <2>1 DEF ToSet
  <2>4. QED
    BY <2>2, <2>3, ArmedIsOnAirOnce
<1>4. QED
  BY <1>1, <1>2, <1>3, PTL DEF Spec

\* The runtime refuses a plan only for a gap of the validator or for rounding,
\* and arms none of a scenario with a gap, in every run of the command over any
\* set of scenarios.
THEOREM RefusalsHaveReasons == Spec => []RefusalsExplained
<1>1. Init => IInv
  BY IInvInit
<1>2. IInv /\ [Next]_vars => IInv'
  BY IInvNext
<1>3. IInv => RefusalsExplained
  <2>1. SUFFICES ASSUME IInv
                 PROVE  /\ stage = "PreparationFailure" => HasGap(scenario) \/ HasInexactMix(scenario)
                        /\ stage = "armed" => ~HasGap(scenario)
    BY DEF RefusalsExplained
  <2>2. CASE stage = "PreparationFailure"
    <3>1. Validate(scenario) /\ WellFormed(scenario)
      BY <2>1, <2>2, ScenariosAssumption DEF IInv
    <3>2. ~Armable(scenario)
      BY <2>1, <2>2 DEF IInv, Armable
    <3>3. QED
      BY <2>2, <3>1, <3>2, GaplessIsArmable
  <2>3. CASE stage = "armed"
    <3>1. Armable(scenario)
      BY <2>1, <2>3, ScenariosAssumption DEF IInv, Armable
    <3>2. QED
      BY <2>3, <3>1, ArmedHasNoGap
  <2>4. QED
    BY <2>2, <2>3
<1>4. QED
  BY <1>1, <1>2, <1>3, PTL DEF Spec

-----------------------------------------------------------------------------
(* What run hands to the dispatcher. *)

\* The channels on which an event is in effect; a marker or a switch has none.
Concerns(evt, index) == IsRf(evt.kind) => evt.channel \in {None, index}

Indices(s) == {EffectiveChannels(s)[j].index : j \in DOMAIN EffectiveChannels(s)}

\* An armed runtime's events have a time, are for its device, and name one of
\* its channels if they name any.
LEMMA EventsAre ==
    ASSUME NEW s, Armable(s), NEW evt \in ToSet(s.events)
    PROVE  /\ EventFields \subseteq DOMAIN evt /\ evt.time \in Int
           /\ \A j \in DOMAIN EffectiveChannels(s) : evt.device = EffectiveChannels(s)[j].device
           /\ evt.channel = None \/ (evt.channel # BadChannel /\ evt.channel \in Indices(s))
<1> DEFINE channels == EffectiveChannels(s)
           p == PlanOf(s)
<1>1. EventFields \subseteq DOMAIN evt /\ evt.time \in Int
  BY DEF Armable, WellFormed
<1>2. /\ DOMAIN p.channels = DOMAIN channels
      /\ \A i \in DOMAIN channels : /\ p.channels[i].device = channels[i].device
                                    /\ p.channels[i].index = channels[i].index
  BY PlannedChannels
<1>3. p.timeline = s.events
  BY DEF PlanOf
<1>4. /\ \E c \in ToSet(p.channels) : c.device = evt.device
      /\ evt.channel # None => evt.channel # BadChannel /\ IsBinding(p, evt.device, evt.channel)
  BY <1>3 DEF Armable, ArmAccepts, ArmAcceptsTimeline
<1>5. \A i, j \in DOMAIN p.channels : p.channels[i].device = p.channels[j].device
  BY DEF Armable, PrepareAccepts
<1>6. \A c : c \in ToSet(p.channels) <=> \E i \in DOMAIN p.channels : c = p.channels[i]
  BY DEF ToSet
<1>7. \A j \in DOMAIN channels : evt.device = channels[j].device
  <2> HIDE DEF p, channels
  <2>1. QED
    BY <1>2, <1>4, <1>5, <1>6
<1>8. evt.channel = None \/ (evt.channel # BadChannel /\ evt.channel \in Indices(s))
  <2>1. ASSUME evt.channel # None PROVE \E i \in DOMAIN channels : channels[i].index = evt.channel
    <3> HIDE DEF p, channels
    <3>1. QED
      BY <1>2, <1>4, <1>6, <2>1 DEF IsBinding
  <2>2. QED
    BY <1>4, <2>1 DEF Indices
<1>9. QED
  BY <1>1, <1>7, <1>8

\* What an event does on a channel depends on the channel only where it tunes one.
LEMMA SameScheduled ==
    ASSUME NEW evt, NEW d, NEW e,
           IsRf(evt.kind) => EventChannel(evt, d) = EventChannel(evt, e)
    PROVE  Scheduled(evt, d) = Scheduled(evt, e)
<1>1. CASE IsRf(evt.kind)
  BY <1>1 DEF Scheduled
<1>2. CASE ~IsRf(evt.kind)
  BY <1>2 DEF Scheduled
<1>3. QED
  BY <1>1, <1>2

LEMMA EventChannelIs ==
    ASSUME NEW evt, NEW d
    PROVE  /\ evt.channel = None => EventChannel(evt, d) = d
           /\ evt.channel # None => EventChannel(evt, d) = evt.channel
BY DEF EventChannel

LEMMA ScheduledHas ==
    ASSUME NEW evt, NEW d
    PROVE  /\ Scheduled(evt, d).kind = evt.kind /\ Scheduled(evt, d).time = evt.time
           /\ Scheduled(evt, d).value = evt.value
           /\ IsRf(evt.kind) => Scheduled(evt, d).channel = EventChannel(evt, d)
<1>1. \A k, t, v, e, c : LET r == [kind |-> k, time |-> t, value |-> v, emitter |-> e, channel |-> c]
                         IN  r.kind = k /\ r.time = t /\ r.value = v /\ r.channel = c
  OBVIOUS
<1>2. CASE IsRf(evt.kind)
  BY <1>1, <1>2 DEF Scheduled
<1>3. CASE ~IsRf(evt.kind)
  BY <1>1, <1>3 DEF Scheduled
<1>4. QED
  BY <1>2, <1>3

LEMMA ActiveAre ==
    ASSUME NEW s
    PROVE  /\ DOMAIN ActiveChannels(PlanOf(s)) = DOMAIN EffectiveChannels(s)
           /\ \A j \in DOMAIN EffectiveChannels(s) :
                 ActiveChannels(PlanOf(s))[j] = EffectiveChannels(s)[j].index
           /\ ToSet(ActiveChannels(PlanOf(s))) = Indices(s)
<1> DEFINE channels == EffectiveChannels(s)
           p == PlanOf(s)
           active == ActiveChannels(p)
<1>1. /\ DOMAIN p.channels = DOMAIN channels
      /\ \A i \in DOMAIN channels : p.channels[i].index = channels[i].index
  BY PlannedChannels
<1>2. active = [i \in DOMAIN p.channels |-> p.channels[i].index]
  BY DEF ActiveChannels
<1>3. DOMAIN active = DOMAIN channels /\ \A j \in DOMAIN channels : active[j] = channels[j].index
  <2> HIDE DEF channels, p, active
  <2>1. QED
    BY <1>1, <1>2
<1>4. ToSet(active) = Indices(s)
  <2>1. ToSet(active) = {active[j] : j \in DOMAIN active}
    BY DEF ToSet
  <2>2. Indices(s) = {channels[j].index : j \in DOMAIN channels}
    BY DEF Indices
  <2> HIDE DEF channels, active
  <2>3. QED
    BY <1>3, <2>1, <2>2
<1>5. QED
  BY <1>3, <1>4

\* Of the calls with one key the first schedules its event.
KeyOf(calls, i) == EventScheduleKey(calls[i].event, calls[i].default)

FirstCalls(calls) ==
    {i \in 1 .. Len(calls) : \A j \in 1 .. Len(calls) : j < i => KeyOf(calls, j) # KeyOf(calls, i)}

ScheduledBy(calls, i) == Scheduled(calls[i].event, calls[i].default)

LEMMA FirstCallsAre ==
    ASSUME NEW calls, Len(calls) \in Nat
    PROVE  /\ \A i, j \in FirstCalls(calls) : KeyOf(calls, i) = KeyOf(calls, j) => i = j
           /\ \A i \in 1 .. Len(calls) : \E j \in FirstCalls(calls) : KeyOf(calls, j) = KeyOf(calls, i)
<1>1. ASSUME NEW i \in FirstCalls(calls), NEW j \in FirstCalls(calls), KeyOf(calls, i) = KeyOf(calls, j)
      PROVE  i = j
  <2>1. i \in 1 .. Len(calls) /\ j \in 1 .. Len(calls)
    BY DEF FirstCalls
  <2>2. ~(i < j) /\ ~(j < i)
    BY <1>1, <2>1 DEF FirstCalls
  <2>3. QED
    BY <2>1, <2>2
<1>2. ASSUME NEW i \in 1 .. Len(calls)
      PROVE  \E j \in FirstCalls(calls) : KeyOf(calls, j) = KeyOf(calls, i)
  <2> DEFINE Same == {j \in 1 .. Len(calls) : KeyOf(calls, j) = KeyOf(calls, i)}
  <2>1. Same \in SUBSET Nat /\ Same # {}
    OBVIOUS
  <2>2. PICK j \in Same : \A k \in Same : j <= k
    <3> HIDE DEF Same
    <3>1. QED
      BY <2>1, Smallest
  <2>3. ASSUME NEW k \in 1 .. Len(calls), k < j PROVE KeyOf(calls, k) # KeyOf(calls, j)
    BY <2>2, <2>3
  <2>4. j \in FirstCalls(calls)
    BY <2>3 DEF FirstCalls
  <2>5. QED
    BY <2>4
<1>3. QED
  BY <1>1, <1>2

LEMMA OnceIs ==
    ASSUME NEW X, NEW calls, Len(calls) \in Nat, DOMAIN calls = 1 .. Len(calls),
           \A i \in 1 .. Len(calls) : ScheduledBy(calls, i) \in X
    PROVE  /\ ScheduleOnce(calls) \in Seq(X)
           /\ \E place : /\ Arranges(place, FirstCalls(calls), Len(ScheduleOnce(calls)))
                         /\ \A i \in FirstCalls(calls) :
                               ScheduleOnce(calls)[place[i]] = ScheduledBy(calls, i)
<1> DEFINE seqs == [i \in 1 .. Len(calls) |-> IF i \in FirstCalls(calls) THEN <<ScheduledBy(calls, i)>> ELSE <<>>]
<1>1. ScheduleOnce(calls) = FlattenSeq(seqs)
  <2>1. ASSUME NEW i \in 1 .. Len(calls)
        PROVE  (\E j \in 1 .. i - 1 : EventScheduleKey(calls[j].event, calls[j].default)
                                        = EventScheduleKey(calls[i].event, calls[i].default))
               <=> i \notin FirstCalls(calls)
    <3>1. \A j \in 1 .. Len(calls) : j < i <=> j \in 1 .. i - 1
      OBVIOUS
    <3>2. 1 .. i - 1 \subseteq 1 .. Len(calls)
      OBVIOUS
    <3>3. QED
      BY <3>1, <3>2 DEF FirstCalls, KeyOf
  <2>2. [i \in DOMAIN calls |->
           IF \E j \in 1 .. i - 1 : EventScheduleKey(calls[j].event, calls[j].default)
                                      = EventScheduleKey(calls[i].event, calls[i].default)
           THEN <<>> ELSE <<Scheduled(calls[i].event, calls[i].default)>>] = seqs
    BY <2>1 DEF ScheduledBy
  <2>3. QED
    BY <2>2 DEF ScheduleOnce
<1>2. seqs \in Seq(Seq(X)) /\ Len(seqs) = Len(calls)
  <2>1. \A i \in 1 .. Len(calls) : seqs[i] \in Seq(X)
    OBVIOUS
  <2>2. seqs = [i \in 1 .. Len(calls) |-> seqs[i]]
    OBVIOUS
  <2> HIDE DEF seqs
  <2>3. seqs \in [1 .. Len(calls) -> Seq(X)]
    BY <2>1, <2>2, Zenon
  <2>4. QED
    BY <2>3, SeqDef
<1>3. Places(seqs) = {x \in (1 .. Len(calls)) \X Nat : x[1] \in FirstCalls(calls) /\ x[2] = 1}
  <2>1. \A i \in 1 .. Len(calls) : Len(seqs[i]) = IF i \in FirstCalls(calls) THEN 1 ELSE 0
    OBVIOUS
  <2> HIDE DEF seqs
  <2>2. QED
    BY <1>2, <2>1 DEF Places
<1>4. \A i \in FirstCalls(calls) : seqs[i][1] = ScheduledBy(calls, i) /\ i \in 1 .. Len(calls)
  BY DEF FirstCalls
<1> HIDE DEF seqs
<1>5. PICK p : /\ Arranges(p, Places(seqs), Len(FlattenSeq(seqs)))
               /\ \A x \in Places(seqs) : FlattenSeq(seqs)[p[x]] = seqs[x[1]][x[2]]
  BY <1>2, FlatPlaces
<1> DEFINE place == [i \in FirstCalls(calls) |-> p[<<i, 1>>]]
<1>6. \A i \in FirstCalls(calls) : <<i, 1>> \in Places(seqs)
  BY <1>3, <1>4
<1>7. \A x \in Places(seqs) : x[1] \in FirstCalls(calls) /\ x = <<x[1], 1>>
  BY <1>3
<1>8. Arranges(place, FirstCalls(calls), Len(FlattenSeq(seqs)))
  <2> DEFINE n == Len(FlattenSeq(seqs))
  <2>1. place \in [FirstCalls(calls) -> 1 .. n]
    BY <1>5, <1>6 DEF Arranges
  <2>2. ASSUME NEW i \in FirstCalls(calls), NEW j \in FirstCalls(calls), place[i] = place[j]
        PROVE  i = j
    <3>1. p[<<i, 1>>] = p[<<j, 1>>]
      BY <2>2
    <3>2. <<i, 1>> = <<j, 1>>
      BY <1>5, <1>6, <3>1 DEF Arranges
    <3>3. QED
      BY <3>2
  <2>3. ASSUME NEW k \in 1 .. n PROVE \E i \in FirstCalls(calls) : place[i] = k
    <3>1. PICK x \in Places(seqs) : p[x] = k
      BY <1>5 DEF Arranges
    <3>2. QED
      BY <1>7, <3>1
  <2>4. QED
    BY <2>1, <2>2, <2>3 DEF Arranges
<1>9. ASSUME NEW i \in FirstCalls(calls) PROVE FlattenSeq(seqs)[place[i]] = ScheduledBy(calls, i)
  <2>1. FlattenSeq(seqs)[p[<<i, 1>>]] = seqs[i][1]
    BY <1>5, <1>6
  <2>2. QED
    BY <1>4, <2>1
<1>10. QED
  <2>1. FlattenSeq(seqs) \in Seq(X)
    BY <1>2, FlatPlaces
  <2> HIDE DEF place
  <2>2. QED
    BY <1>1, <1>8, <1>9, <2>1

AlikeBut(evt, other, m, n) == [evt EXCEPT !.time = m] = [other EXCEPT !.time = n]

\* Two events that a number for their time makes equal differ in no other field.
LEMMA SameButTime ==
    ASSUME NEW evt, NEW other, NEW m, NEW n,
           EventFields \subseteq DOMAIN evt, EventFields \subseteq DOMAIN other,
           AlikeBut(evt, other, m, n)
    PROVE  /\ evt.kind = other.kind /\ evt.channel = other.channel
           /\ evt.value = other.value /\ evt.emitter = other.emitter
           /\ m = n
           /\ AlikeBut(evt, other, 0, 0)
<1> DEFINE f == [evt EXCEPT !.time = m]
           g == [other EXCEPT !.time = n]
<1>1. {"kind", "channel", "value", "emitter", "time"} \subseteq DOMAIN evt
  BY DEF EventFields
<1>2. {"kind", "channel", "value", "emitter", "time"} \subseteq DOMAIN other
  BY DEF EventFields
<1>3. f = [x \in DOMAIN evt |-> IF x = "time" THEN m ELSE evt[x]]
  OBVIOUS
<1>4. g = [x \in DOMAIN other |-> IF x = "time" THEN n ELSE other[x]]
  OBVIOUS
<1>5. f = g
  BY DEF AlikeBut
<1>6. DOMAIN evt = DOMAIN other
  <2> HIDE DEF f, g
  <2>1. DOMAIN f = DOMAIN evt /\ DOMAIN g = DOMAIN other
    BY <1>3, <1>4
  <2>2. QED
    BY <1>5, <2>1
<1>7. \A x \in DOMAIN evt : x # "time" => evt[x] = other[x]
  <2> HIDE DEF f, g
  <2>1. \A x \in DOMAIN evt : x # "time" => f[x] = evt[x] /\ g[x] = other[x]
    BY <1>3, <1>4, <1>6
  <2>2. QED
    BY <1>5, <2>1
<1>8. m = n
  <2> HIDE DEF f, g
  <2>1. f["time"] = m /\ g["time"] = n
    BY <1>1, <1>2, <1>3, <1>4
  <2>2. QED
    BY <1>5, <2>1
<1>9. [evt EXCEPT !.time = 0] = [other EXCEPT !.time = 0]
  <2>1. [evt EXCEPT !.time = 0] = [x \in DOMAIN evt |-> IF x = "time" THEN 0 ELSE evt[x]]
    OBVIOUS
  <2>2. [other EXCEPT !.time = 0] = [x \in DOMAIN other |-> IF x = "time" THEN 0 ELSE other[x]]
    OBVIOUS
  <2>3. [x \in DOMAIN evt |-> IF x = "time" THEN 0 ELSE evt[x]]
           = [x \in DOMAIN other |-> IF x = "time" THEN 0 ELSE other[x]]
    BY <1>6, <1>7
  <2>4. QED
    BY <2>1, <2>2, <2>3
<1>10. QED
  BY <1>1, <1>7, <1>8, <1>9 DEF AlikeBut

\* Where no two events look alike, calls with the same key schedule the same.
LEMMA SameKeyIsSameEvent ==
    ASSUME NEW s, ~HasLookalikes(s),
           \A evt \in ToSet(s.events) : EventFields \subseteq DOMAIN evt,
           NEW evt \in ToSet(s.events), NEW other \in ToSet(s.events), NEW d, NEW e,
           EventScheduleKey(evt, d) = EventScheduleKey(other, e)
    PROVE  Scheduled(evt, d) = Scheduled(other, e)
<1>1. /\ [evt EXCEPT !.time = Printed(evt.time)] = [other EXCEPT !.time = Printed(other.time)]
      /\ (IF IsRf(evt.kind) THEN EventChannel(evt, d) ELSE None)
            = (IF IsRf(other.kind) THEN EventChannel(other, e) ELSE None)
  BY DEF EventScheduleKey
<1>2. /\ evt.kind = other.kind /\ evt.value = other.value /\ evt.emitter = other.emitter
      /\ Printed(evt.time) = Printed(other.time)
      /\ AlikeBut(evt, other, 0, 0)
  <2> DEFINE m == Printed(evt.time)
             n == Printed(other.time)
  <2>1. AlikeBut(evt, other, m, n)
    BY <1>1 DEF AlikeBut
  <2>2. EventFields \subseteq DOMAIN evt /\ EventFields \subseteq DOMAIN other
    OBVIOUS
  <2> HIDE DEF m, n
  <2>3. /\ evt.kind = other.kind /\ evt.value = other.value /\ evt.emitter = other.emitter
        /\ m = n
        /\ AlikeBut(evt, other, 0, 0)
    BY <2>1, <2>2, SameButTime
  <2>4. QED
    BY <2>3 DEF m, n
<1>3. evt.time = other.time
  BY <1>2 DEF HasLookalikes, LooksLike, AlikeBut
<1>4. QED
  BY <1>1, <1>2, <1>3 DEF Scheduled

\* An event that tunes nothing has one key, whatever the channel.
LEMMA KeyOfOther ==
    ASSUME NEW evt, NEW d, NEW e, ~IsRf(evt.kind)
    PROVE  EventScheduleKey(evt, d) = EventScheduleKey(evt, e)
BY DEF EventScheduleKey

-----------------------------------------------------------------------------
\* The calls with the events of a vector.
CallsFor(events, default) == [i \in DOMAIN events |-> [event |-> events[i], default |-> default]]

CallOf(evt, default) == [event |-> evt, default |-> default]

CallsOf(s) == [event : ToSet(s.events), default : Indices(s)]

HasCalls(calls, events, default) ==
    \A call : call \in ToSet(calls) <=> \E evt \in ToSet(events) : call = CallOf(evt, default)

LEMMA CallsForAre ==
    ASSUME NEW V, NEW W, NEW events \in Seq(V), NEW default \in W
    PROVE  /\ CallsFor(events, default) \in Seq([event : V, default : W])
           /\ HasCalls(CallsFor(events, default), events, default)
<1> DEFINE calls == CallsFor(events, default)
           Y == [event : V, default : W]
<1>1. DOMAIN events = 1 .. Len(events) /\ Len(events) \in Nat /\ \A i \in 1 .. Len(events) : events[i] \in V
  OBVIOUS
<1>2. calls = [i \in 1 .. Len(events) |-> [event |-> events[i], default |-> default]]
  BY <1>1 DEF CallsFor
<1>3. calls \in Seq(Y)
  <2>1. \A i \in 1 .. Len(events) : [event |-> events[i], default |-> default] \in Y
    BY <1>1
  <2>2. calls \in [1 .. Len(events) -> Y]
    <3> HIDE DEF Y, calls
    <3>1. QED
      BY <1>2, <2>1
  <2> HIDE DEF calls, Y
  <2>3. QED
    BY <1>1, <2>2, SeqDef
<1>4. \A call : call \in ToSet(calls) <=> \E i \in 1 .. Len(events) : call = calls[i]
  <2> HIDE DEF calls
  <2>1. DOMAIN calls = 1 .. Len(events)
    BY <1>2
  <2>2. QED
    BY <2>1 DEF ToSet
<1>5. \A i \in 1 .. Len(events) : calls[i] = CallOf(events[i], default)
  <2> HIDE DEF calls
  <2>1. QED
    BY <1>2 DEF CallOf
<1>6. \A evt : evt \in ToSet(events) <=> \E i \in 1 .. Len(events) : evt = events[i]
  BY <1>1 DEF ToSet
<1>7. QED
  <2> HIDE DEF calls
  <2>1. HasCalls(calls, events, default)
    BY <1>4, <1>5, <1>6 DEF HasCalls
  <2>2. QED
    BY <1>3, <2>1 DEF calls

\* The calls are for events of the scenario: on the first channel for one that
\* tunes nothing or names its channel, on each channel for those that reach it.
LEMMA CallsAre ==
    ASSUME NEW s, Armable(s)
    PROVE  LET calls == MultiChannelCalls(PlanOf(s))
               channels == EffectiveChannels(s)
           IN  /\ calls \in Seq(CallsOf(s))
               /\ \A call : call \in ToSet(calls) <=>
                     \/ \E evt \in ToSet(s.events) :
                           /\ ~(IsRf(evt.kind) /\ evt.channel = None)
                           /\ call = CallOf(evt, channels[1].index)
                     \/ \E j \in DOMAIN channels : \E evt \in ToSet(s.events) :
                           /\ ReachesChannel(evt, channels[j])
                           /\ call = CallOf(evt, channels[j].index)
<1> DEFINE p == PlanOf(s)
           channels == EffectiveChannels(s)
           active == ActiveChannels(p)
           events == s.events
           V == ToSet(s.events)
           W == Indices(s)
           kept == {evt \in ToSet(events) : ~(IsRf(evt.kind) /\ evt.channel = None /\ p.channelPlans # <<>>)}
           own == Keep(events, kept)
           reach(j) == Keep(events, {evt \in V : ReachesChannel(evt, channels[j])})
           parts == [j \in DOMAIN active |-> CallsFor(ChannelPlanOf(p, active[j]).events, active[j])]
           Y == [event : V, default : W]
           first == CallsFor(own, active[1])
           rest == FlattenSeq(parts)
<1>1. MultiChannelCalls(p) = first \o rest
  <2>1. p.timeline = events
    BY DEF PlanOf
  <2>2. QED
    BY <2>1 DEF MultiChannelCalls, CallsFor
<1>2. /\ Len(channels) \in Nat /\ DOMAIN channels = 1 .. Len(channels) /\ channels # <<>>
      /\ 1 \in DOMAIN channels
  <2>1. Len(channels) \in Nat /\ DOMAIN channels = 1 .. Len(channels) /\ channels # <<>>
    BY ChannelsAre, HasChannels DEF Armable
  <2> HIDE DEF channels
  <2>2. QED
    BY <2>1
<1>3. p.channelPlans # <<>>
  <2>1. DOMAIN p.channelPlans = DOMAIN channels
    BY PlannedChannels
  <2> HIDE DEF p, channels
  <2>2. QED
    BY <1>2, <2>1
<1>4. /\ DOMAIN active = DOMAIN channels
      /\ \A j \in DOMAIN channels : active[j] = channels[j].index /\ channels[j].index \in W
  BY ActiveAre DEF Indices
<1>5. events \in Seq(V)
  <2>1. IsSequence(events)
    BY DEF Armable, WellFormed
  <2>2. \A i \in 1 .. Len(events) : events[i] \in V
    BY <2>1 DEF IsSequence, ToSet
  <2> HIDE DEF events, V
  <2>3. QED
    BY <2>1, <2>2, SequenceIs
<1>6. own \in Seq(V) /\ \A evt : evt \in ToSet(own) <=> evt \in V /\ ~(IsRf(evt.kind) /\ evt.channel = None)
  <2>1. own \in Seq(V)
    BY <1>5, Kept
  <2>2. ToSet(own) = {evt \in ToSet(events) : evt \in kept}
    <3> HIDE DEF events, kept, V
    <3>1. QED
      BY <1>5, KeptSet
  <2>3. QED
    BY <1>3, <2>1, <2>2
<1>7. ASSUME NEW j \in DOMAIN channels
      PROVE  /\ reach(j) \in Seq(V)
             /\ \A evt : evt \in ToSet(reach(j)) <=> evt \in V /\ ReachesChannel(evt, channels[j])
             /\ parts[j] = CallsFor(reach(j), channels[j].index)
  <2> DEFINE mine == {evt \in V : ReachesChannel(evt, channels[j])}
  <2>1. Keep(events, mine) \in Seq(V) /\ ToSet(Keep(events, mine)) = {evt \in ToSet(events) : evt \in mine}
    <3> HIDE DEF events, mine, V
    <3>1. QED
      BY <1>5, Kept, KeptSet
  <2>2. p.channelPlans[j].events = reach(j)
    BY DEF PlanOf
  <2>3. ChannelPlanOf(p, channels[j].index) = p.channelPlans[j]
    BY ChannelPlanIs DEF Armable
  <2>4. parts[j] = CallsFor(ChannelPlanOf(p, channels[j].index).events, channels[j].index)
    BY <1>4
  <2>5. QED
    BY <2>1, <2>2, <2>3, <2>4
<1>8. /\ first \in Seq(Y)
      /\ HasCalls(first, own, channels[1].index)
  <2>1. active[1] = channels[1].index /\ channels[1].index \in W
    BY <1>2, <1>4
  <2> HIDE DEF own, V, W, active, channels
  <2>2. QED
    BY <1>6, <2>1, CallsForAre
<1>9. ASSUME NEW j \in DOMAIN channels
      PROVE  /\ parts[j] \in Seq(Y)
             /\ HasCalls(parts[j], reach(j), channels[j].index)
  <2>1. channels[j].index \in W /\ reach(j) \in Seq(V) /\ parts[j] = CallsFor(reach(j), channels[j].index)
    BY <1>4, <1>7
  <2> HIDE DEF reach, parts, V, W, channels
  <2>2. QED
    BY <2>1, CallsForAre
<1>10. parts \in Seq(Seq(Y)) /\ Len(parts) = Len(channels)
  <2>1. parts = [j \in 1 .. Len(channels) |-> parts[j]]
    BY <1>2, <1>4
  <2> HIDE DEF parts, Y, channels
  <2>2. parts \in [1 .. Len(channels) -> Seq(Y)]
    BY <1>2, <1>9, <2>1, Zenon
  <2>3. QED
    BY <1>2, <2>2, SeqDef
<1>11. /\ rest \in Seq(Y)
       /\ \A call : call \in ToSet(rest) <=> \E j \in DOMAIN channels : call \in ToSet(parts[j])
  <2> HIDE DEF parts, Y, channels
  <2>1. rest \in Seq(Y) /\ ToSet(rest) = UNION {ToSet(parts[j]) : j \in 1 .. Len(parts)}
    BY <1>10, FlatSet
  <2>2. QED
    BY <1>2, <1>10, <2>1
<1>12. first \o rest \in Seq(Y) /\ ToSet(first \o rest) = ToSet(first) \cup ToSet(rest)
  <2> HIDE DEF first, rest, Y
  <2>1. QED
    BY <1>8, <1>11, JoinedSet
<1>13. \A call : call \in ToSet(first \o rest) <=> call \in ToSet(first) \/ call \in ToSet(rest)
  <2> HIDE DEF first, rest
  <2>1. QED
    BY <1>12
<1> HIDE DEF first, rest, parts, own, reach, p, active, channels, V
<1>14. \A call : call \in ToSet(first) <=>
          \E evt \in V : /\ ~(IsRf(evt.kind) /\ evt.channel = None)
                         /\ call = CallOf(evt, channels[1].index)
  BY <1>6, <1>8 DEF HasCalls
<1>15. \A call : call \in ToSet(rest) <=>
          \E j \in DOMAIN channels : \E evt \in V :
             ReachesChannel(evt, channels[j]) /\ call = CallOf(evt, channels[j].index)
  <2>1. ASSUME NEW j \in DOMAIN channels, NEW call
        PROVE  call \in ToSet(parts[j]) <=>
                  \E evt \in V : ReachesChannel(evt, channels[j]) /\ call = CallOf(evt, channels[j].index)
    <3>1. call \in ToSet(parts[j]) <=> \E evt \in ToSet(reach(j)) : call = CallOf(evt, channels[j].index)
      BY <1>9 DEF HasCalls
    <3>2. QED
      BY <1>7, <3>1
  <2> DEFINE Makes(call, j) == \E evt \in V : ReachesChannel(evt, channels[j])
                                               /\ call = CallOf(evt, channels[j].index)
  <2>2. \A call : \A j \in DOMAIN channels : call \in ToSet(parts[j]) <=> Makes(call, j)
    BY <2>1
  <2> HIDE DEF Makes
  <2>3. \A call : call \in ToSet(rest) <=> \E j \in DOMAIN channels : Makes(call, j)
    BY <1>11, <2>2
  <2>4. QED
    BY <2>3 DEF Makes
<1>16. MultiChannelCalls(p) \in Seq(Y)
  BY <1>1, <1>12
<1>17. \A call : call \in ToSet(MultiChannelCalls(p)) <=>
          \/ \E evt \in V : /\ ~(IsRf(evt.kind) /\ evt.channel = None)
                            /\ call = CallOf(evt, channels[1].index)
          \/ \E j \in DOMAIN channels : \E evt \in V :
                ReachesChannel(evt, channels[j]) /\ call = CallOf(evt, channels[j].index)
  BY <1>1, <1>13, <1>14, <1>15
<1>18. QED
  BY <1>16, <1>17 DEF p, channels, V, CallsOf

LEMMA CallParts ==
    ASSUME NEW evt, NEW default
    PROVE  CallOf(evt, default).event = evt /\ CallOf(evt, default).default = default
BY DEF CallOf

\* Every call is for a channel that its event concerns.
LEMMA CallConcerns ==
    ASSUME NEW s, Armable(s), NEW call \in ToSet(MultiChannelCalls(PlanOf(s)))
    PROVE  /\ call.event \in ToSet(s.events)
           /\ \E index \in Indices(s) :
                 /\ Concerns(call.event, index)
                 /\ Scheduled(call.event, call.default) = Scheduled(call.event, index)
<1> DEFINE channels == EffectiveChannels(s)
           V == ToSet(s.events)
<1>1. \/ \E evt \in V : /\ ~(IsRf(evt.kind) /\ evt.channel = None)
                        /\ call = CallOf(evt, channels[1].index)
      \/ \E j \in DOMAIN channels : \E evt \in V :
            ReachesChannel(evt, channels[j]) /\ call = CallOf(evt, channels[j].index)
  BY CallsAre
<1>2. 1 \in DOMAIN channels
  <2>1. Len(channels) \in Nat /\ DOMAIN channels = 1 .. Len(channels) /\ channels # <<>>
    BY ChannelsAre, HasChannels DEF Armable
  <2> HIDE DEF channels
  <2>2. QED
    BY <2>1
<1>3. \A j \in DOMAIN channels : channels[j].index \in Indices(s)
  BY DEF Indices
<1>4. CASE \E evt \in V : /\ ~(IsRf(evt.kind) /\ evt.channel = None)
                          /\ call = CallOf(evt, channels[1].index)
  <2>1. PICK evt \in V : /\ ~(IsRf(evt.kind) /\ evt.channel = None)
                         /\ call = CallOf(evt, channels[1].index)
    BY <1>4
  <2>2. call.event = evt /\ call.default = channels[1].index
    BY <2>1, CallParts
  <2>3. CASE IsRf(evt.kind)
    <3>1. evt.channel # None /\ evt.channel \in Indices(s)
      BY <2>1, <2>3, EventsAre
    <3>2. Scheduled(evt, channels[1].index) = Scheduled(evt, evt.channel)
      BY <3>1, EventChannelIs, SameScheduled
    <3>3. Concerns(evt, evt.channel)
      BY DEF Concerns
    <3>4. QED
      BY <2>2, <3>1, <3>2, <3>3
  <2>4. CASE ~IsRf(evt.kind)
    <3>1. Concerns(evt, channels[1].index)
      BY <2>4 DEF Concerns
    <3>2. QED
      BY <1>2, <1>3, <2>2, <3>1
  <2>5. QED
    BY <2>3, <2>4
<1>5. CASE \E j \in DOMAIN channels : \E evt \in V :
              ReachesChannel(evt, channels[j]) /\ call = CallOf(evt, channels[j].index)
  <2>1. PICK j \in DOMAIN channels : \E evt \in V :
              ReachesChannel(evt, channels[j]) /\ call = CallOf(evt, channels[j].index)
    BY <1>5
  <2>2. PICK evt \in V : ReachesChannel(evt, channels[j]) /\ call = CallOf(evt, channels[j].index)
    BY <2>1
  <2>3. call.event = evt /\ call.default = channels[j].index
    BY <2>2, CallParts
  <2>4. evt.channel \in {None, BadChannel, channels[j].index}
    BY <2>2 DEF ReachesChannel
  <2>5. evt.channel = None \/ evt.channel # BadChannel
    BY EventsAre
  <2>6. Concerns(evt, channels[j].index)
    BY <2>4, <2>5 DEF Concerns
  <2>7. QED
    BY <1>3, <2>3, <2>6
<1>6. QED
  BY <1>1, <1>4, <1>5

\* On every channel that an event concerns a call is for it.
LEMMA CallIsMade ==
    ASSUME NEW s, Armable(s), NEW evt \in ToSet(s.events), NEW index \in Indices(s), Concerns(evt, index)
    PROVE  \E call \in ToSet(MultiChannelCalls(PlanOf(s))) :
              call.event = evt /\ Scheduled(evt, call.default) = Scheduled(evt, index)
<1> DEFINE channels == EffectiveChannels(s)
           calls == MultiChannelCalls(PlanOf(s))
<1>1. \A call : call \in ToSet(calls) <=>
         \/ \E e \in ToSet(s.events) : /\ ~(IsRf(e.kind) /\ e.channel = None)
                                       /\ call = CallOf(e, channels[1].index)
         \/ \E j \in DOMAIN channels : \E e \in ToSet(s.events) :
               ReachesChannel(e, channels[j]) /\ call = CallOf(e, channels[j].index)
  BY CallsAre
<1>2. PICK j \in DOMAIN channels : channels[j].index = index
  BY DEF Indices
<1>3. evt.device = channels[j].device
  BY EventsAre
<1>4. CASE IsRf(evt.kind)
  <2>1. ReachesChannel(evt, channels[j])
    BY <1>2, <1>3, <1>4 DEF Concerns, ReachesChannel
  <2>2. CallOf(evt, channels[j].index) \in ToSet(calls)
    BY <1>1, <2>1
  <2>3. QED
    BY <1>2, <2>2, CallParts
<1>5. CASE ~IsRf(evt.kind)
  <2>1. CallOf(evt, channels[1].index) \in ToSet(calls)
    BY <1>1, <1>5
  <2>2. Scheduled(evt, channels[1].index) = Scheduled(evt, index)
    BY <1>5, SameScheduled
  <2>3. QED
    BY <2>1, <2>2, CallParts
<1>6. QED
  BY <1>4, <1>5

\* The dispatcher gets, for every channel, every event that concerns it (but for
\* one that looks like another), at its time, and none oftener than the scenario
\* has it.
Delivers(s, events) ==
    /\ Len(events) \in Nat /\ DOMAIN events = 1 .. Len(events)
    /\ \A i \in 1 .. Len(events) : \E evt \in ToSet(s.events) : \E index \in Indices(s) :
          Concerns(evt, index) /\ events[i] = Scheduled(evt, index)
    /\ ~HasLookalikes(s) =>
          \A evt \in ToSet(s.events) : \A index \in Indices(s) :
             Concerns(evt, index) => \E i \in 1 .. Len(events) : events[i] = Scheduled(evt, index)
    /\ \A evt \in ToSet(s.events) :
          ~IsRf(evt.kind) =>
             Cardinality({i \in 1 .. Len(events) : events[i] = Scheduled(evt, None)}) <=
                Cardinality({i \in DOMAIN s.events : Scheduled(s.events[i], None) = Scheduled(evt, None)})

LEMMA OnceDelivers ==
    ASSUME NEW s, Armable(s)
    PROVE  Delivers(s, ScheduleOnce(MultiChannelCalls(PlanOf(s))))
<1> DEFINE calls == MultiChannelCalls(PlanOf(s))
           E == ScheduleOnce(calls)
           V == ToSet(s.events)
           X == {ScheduledBy(calls, i) : i \in 1 .. Len(calls)}
           First == FirstCalls(calls)
<1>1. calls \in Seq(CallsOf(s))
  BY CallsAre
<1>2. Len(calls) \in Nat /\ DOMAIN calls = 1 .. Len(calls)
  <2> HIDE DEF calls
  <2>1. QED
    BY <1>1
<1>3. \A call : call \in ToSet(calls) <=> \E i \in 1 .. Len(calls) : call = calls[i]
  BY <1>2 DEF ToSet
<1>4. E \in Seq(X) /\ \E place : /\ Arranges(place, First, Len(E))
                                 /\ \A i \in First : E[place[i]] = ScheduledBy(calls, i)
  <2>1. \A i \in 1 .. Len(calls) : ScheduledBy(calls, i) \in X
    OBVIOUS
  <2> HIDE DEF calls, X
  <2>2. QED
    BY <1>2, <2>1, OnceIs
<1>5. Len(E) \in Nat /\ DOMAIN E = 1 .. Len(E)
  <2> HIDE DEF E, X
  <2>1. QED
    BY <1>4
<1>6. PICK place : Arranges(place, First, Len(E)) /\ \A i \in First : E[place[i]] = ScheduledBy(calls, i)
  BY <1>4
<1>7. /\ \A i, j \in First : KeyOf(calls, i) = KeyOf(calls, j) => i = j
      /\ \A i \in 1 .. Len(calls) : \E j \in First : KeyOf(calls, j) = KeyOf(calls, i)
      /\ First \subseteq 1 .. Len(calls)
  BY <1>2, FirstCallsAre DEF FirstCalls
<1>8. ASSUME NEW i \in 1 .. Len(calls)
      PROVE  /\ calls[i].event \in V
             /\ \E index \in Indices(s) :
                   Concerns(calls[i].event, index) /\ ScheduledBy(calls, i) = Scheduled(calls[i].event, index)
  <2>1. calls[i] \in ToSet(calls)
    BY <1>3
  <2>2. QED
    BY <2>1, CallConcerns DEF ScheduledBy
<1>9. \A i \in 1 .. Len(E) : \E x \in First : place[x] = i /\ E[i] = ScheduledBy(calls, x)
  <2> HIDE DEF E, First, calls
  <2>1. QED
    BY <1>6 DEF Arranges
<1>10. ASSUME NEW i \in 1 .. Len(E)
       PROVE  \E evt \in V : \E index \in Indices(s) : Concerns(evt, index) /\ E[i] = Scheduled(evt, index)
  <2>1. PICK x \in First : E[i] = ScheduledBy(calls, x)
    BY <1>9
  <2>2. x \in 1 .. Len(calls)
    BY <1>7
  <2> HIDE DEF E, First, calls
  <2>3. QED
    BY <1>8, <2>1, <2>2
<1>11. ASSUME ~HasLookalikes(s), NEW evt \in V, NEW index \in Indices(s), Concerns(evt, index)
       PROVE  \E i \in 1 .. Len(E) : E[i] = Scheduled(evt, index)
  <2>1. PICK call \in ToSet(calls) : call.event = evt /\ Scheduled(evt, call.default) = Scheduled(evt, index)
    BY <1>11, CallIsMade
  <2>2. PICK k \in 1 .. Len(calls) : call = calls[k]
    BY <1>3
  <2>3. PICK x \in First : KeyOf(calls, x) = KeyOf(calls, k)
    BY <1>7
  <2>4. calls[x].event \in V /\ x \in 1 .. Len(calls)
    BY <1>7, <1>8
  <2>5. \A e \in V : EventFields \subseteq DOMAIN e
    BY EventsAre
  <2>6. Scheduled(calls[x].event, calls[x].default) = Scheduled(evt, call.default)
    <3>1. EventScheduleKey(calls[x].event, calls[x].default) = EventScheduleKey(evt, call.default)
      BY <2>1, <2>2, <2>3 DEF KeyOf
    <3> HIDE DEF calls, First, E
    <3>2. QED
      BY <1>11, <2>4, <2>5, <3>1, SameKeyIsSameEvent
  <2>7. E[place[x]] = Scheduled(evt, index) /\ place[x] \in 1 .. Len(E)
    <3> HIDE DEF calls, First, E
    <3>1. QED
      BY <1>6, <2>1, <2>6 DEF Arranges, ScheduledBy
  <2>8. QED
    BY <2>7
<1>12. ASSUME NEW evt \in V, ~IsRf(evt.kind)
       PROVE  Cardinality({i \in 1 .. Len(E) : E[i] = Scheduled(evt, None)}) <=
                 Cardinality({i \in DOMAIN s.events : Scheduled(s.events[i], None) = Scheduled(evt, None)})
  <2> DEFINE v == Scheduled(evt, None)
             S == {i \in 1 .. Len(E) : E[i] = v}
             T == {i \in DOMAIN s.events : Scheduled(s.events[i], None) = v}
             Comes(i, j) == \E x \in First : place[x] = i /\ calls[x].event = s.events[j]
                                             /\ ~IsRf(calls[x].event.kind)
             f == [i \in S |-> CHOOSE j \in T : Comes(i, j)]
  <2>1. IsFiniteSet(T)
    <3>1. DOMAIN s.events = 1 .. Len(s.events) /\ Len(s.events) \in Nat
      BY DEF Armable, WellFormed, IsSequence
    <3>2. T \subseteq 1 .. Len(s.events) /\ IsFiniteSet(1 .. Len(s.events))
      BY <3>1, FS_Interval
    <3> HIDE DEF T
    <3>3. QED
      BY <3>2, FS_Subset
  <2>2. ASSUME NEW i \in S PROVE \E j \in T : Comes(i, j)
    <3>1. PICK x \in First : place[x] = i /\ E[i] = ScheduledBy(calls, x)
      BY <1>9
    <3>2. x \in 1 .. Len(calls) /\ calls[x].event \in V
      BY <1>7, <1>8
    <3>3. PICK j \in DOMAIN s.events : calls[x].event = s.events[j]
      BY <3>2 DEF ToSet
    <3>4. Scheduled(calls[x].event, calls[x].default) = v
      BY <3>1 DEF ScheduledBy
    <3>5. calls[x].event.kind = evt.kind
      <4> HIDE DEF calls
      <4>1. Scheduled(calls[x].event, calls[x].default).kind = Scheduled(evt, None).kind
        BY <3>4
      <4>2. QED
        BY <4>1, ScheduledHas
    <3>6. Scheduled(s.events[j], None) = v
      <4>1. Scheduled(calls[x].event, calls[x].default) = Scheduled(calls[x].event, None)
        BY <1>12, <3>5, SameScheduled
      <4>2. QED
        BY <3>3, <3>4, <4>1
    <3>7. QED
      BY <1>12, <3>1, <3>3, <3>5, <3>6
  <2>3. \A i \in S : f[i] \in T /\ Comes(i, f[i])
    <3> HIDE DEF Comes, S, T
    <3>1. QED
      BY <2>2
  <2>4. f \in [S -> T]
    <3> HIDE DEF S, T, Comes
    <3>1. QED
      BY <2>3
  <2>5. ASSUME NEW i \in S, NEW k \in S, f[i] = f[k] PROVE i = k
    <3>1. PICK x \in First : /\ place[x] = i /\ calls[x].event = s.events[f[i]]
                             /\ ~IsRf(calls[x].event.kind)
      BY <2>3
    <3>2. PICK y \in First : /\ place[y] = k /\ calls[y].event = s.events[f[k]]
                             /\ ~IsRf(calls[y].event.kind)
      BY <2>3
    <3> HIDE DEF f, calls, First
    <3>3. calls[x].event = calls[y].event
      BY <2>5, <3>1, <3>2
    <3>4. KeyOf(calls, x) = KeyOf(calls, y)
      BY <3>1, <3>3, KeyOfOther DEF KeyOf
    <3>5. QED
      BY <1>7, <3>1, <3>2, <3>4
  <2> HIDE DEF f, S, T
  <2>6. Cardinality(S) <= Cardinality(T)
    BY <2>1, <2>4, <2>5, NoMore
  <2>7. QED
    BY <2>6 DEF S, T
<1> HIDE DEF E
<1>13. QED
  BY <1>5, <1>10, <1>11, <1>12 DEF Delivers, E

LEMMA AllDelivers ==
    ASSUME NEW s, Armable(s), Len(PlanOf(s).channels) = 1
    PROVE  Delivers(s, [i \in DOMAIN s.events |-> Scheduled(s.events[i], PlanOf(s).channels[1].index)])
<1> DEFINE channels == EffectiveChannels(s)
           d == PlanOf(s).channels[1].index
           V == ToSet(s.events)
           E == [i \in DOMAIN s.events |-> Scheduled(s.events[i], d)]
<1>1. DOMAIN s.events = 1 .. Len(s.events) /\ Len(s.events) \in Nat
  BY DEF Armable, WellFormed, IsSequence
<1>2. Indices(s) = {d}
  <2>1. DOMAIN channels = 1 .. 1
    BY ChannelsAre DEF Armable
  <2>2. \A j \in DOMAIN channels : PlanOf(s).channels[j].index = channels[j].index
    BY PlannedChannels
  <2>3. Indices(s) = {channels[j].index : j \in DOMAIN channels}
    BY DEF Indices
  <2> HIDE DEF channels
  <2>4. QED
    BY <2>1, <2>2, <2>3
<1>3. \A evt \in V : \E i \in DOMAIN s.events : evt = s.events[i]
  BY DEF ToSet
<1>4. \A i \in DOMAIN s.events : s.events[i] \in V
  BY DEF ToSet
<1>5. DOMAIN E = DOMAIN s.events /\ \A i \in DOMAIN s.events : E[i] = Scheduled(s.events[i], d)
  OBVIOUS
<1> HIDE DEF E
<1>6. Len(E) = Len(s.events)
  BY <1>1, <1>5
<1>7. ASSUME NEW i \in 1 .. Len(E)
      PROVE  \E evt \in V : \E index \in Indices(s) : Concerns(evt, index) /\ E[i] = Scheduled(evt, index)
  <2>1. s.events[i] \in V /\ E[i] = Scheduled(s.events[i], d)
    BY <1>1, <1>4, <1>5, <1>6
  <2>2. Concerns(s.events[i], d)
    <3>1. s.events[i].channel = None \/ s.events[i].channel \in Indices(s)
      BY <2>1, EventsAre
    <3>2. QED
      BY <1>2, <3>1 DEF Concerns
  <2>3. QED
    BY <1>2, <2>1, <2>2
<1>8. ASSUME NEW evt \in V, NEW index \in Indices(s)
      PROVE  \E i \in 1 .. Len(E) : E[i] = Scheduled(evt, index)
  BY <1>1, <1>2, <1>3, <1>5, <1>6
<1>9. ASSUME NEW evt \in V, ~IsRf(evt.kind)
      PROVE  Cardinality({i \in 1 .. Len(E) : E[i] = Scheduled(evt, None)}) <=
                Cardinality({i \in DOMAIN s.events : Scheduled(s.events[i], None) = Scheduled(evt, None)})
  <2> DEFINE S == {i \in 1 .. Len(E) : E[i] = Scheduled(evt, None)}
             T == {i \in DOMAIN s.events : Scheduled(s.events[i], None) = Scheduled(evt, None)}
  <2>1. S \subseteq T
    <3>1. SUFFICES ASSUME NEW i \in DOMAIN s.events, Scheduled(s.events[i], d) = Scheduled(evt, None)
                   PROVE  Scheduled(s.events[i], None) = Scheduled(evt, None)
      BY <1>1, <1>5, <1>6
    <3>2. s.events[i].kind = evt.kind
      <4>1. Scheduled(s.events[i], d).kind = Scheduled(evt, None).kind
        BY <3>1
      <4> HIDE DEF d
      <4>2. QED
        BY <4>1, ScheduledHas
    <3>3. Scheduled(s.events[i], d) = Scheduled(s.events[i], None)
      BY <1>9, <3>2, SameScheduled
    <3>4. QED
      BY <3>1, <3>3
  <2>2. IsFiniteSet(T)
    <3>1. T \subseteq 1 .. Len(s.events) /\ IsFiniteSet(1 .. Len(s.events))
      BY <1>1, FS_Interval
    <3> HIDE DEF T
    <3>2. QED
      BY <3>1, FS_Subset
  <2> HIDE DEF S, T
  <2>3. Cardinality(S) <= Cardinality(T)
    BY <2>1, <2>2, FS_Subset
  <2>4. QED
    BY <2>3 DEF S, T
<1>10. QED
  BY <1>1, <1>5, <1>6, <1>7, <1>8, <1>9 DEF Delivers, E

LEMMA DispatcherDelivers ==
    ASSUME NEW s, Armable(s)
    PROVE  Delivers(s, DispatcherEvents(PlanOf(s)))
<1>1. PlanOf(s).timeline = s.events
  BY DEF PlanOf
<1>2. CASE Len(PlanOf(s).channels) = 1
  BY <1>1, <1>2, AllDelivers DEF DispatcherEvents
<1>3. CASE Len(PlanOf(s).channels) # 1
  BY <1>3, OnceDelivers DEF DispatcherEvents
<1>4. QED
  BY <1>2, <1>3

-----------------------------------------------------------------------------
(* What a run dispatches. *)

EventEntries(events) == {<<i, events[i]>> : i \in DOMAIN events}

LEMMA EntriesAre ==
    ASSUME NEW s, Armable(s), NEW events, Delivers(s, events)
    PROVE  /\ IsFiniteSet(EventEntries(events))
           /\ \A e \in EventEntries(events) :
                 /\ e[1] \in 1 .. Len(events) /\ e[2] = events[e[1]] /\ e = <<e[1], e[2]>>
                 /\ e[2].time \in Int
                 /\ IsRf(e[2].kind) => e[2].channel \in Indices(s)
                 /\ \E evt \in ToSet(s.events) : \E index \in Indices(s) :
                       Concerns(evt, index) /\ e[2] = Scheduled(evt, index)
<1>1. DOMAIN events = 1 .. Len(events) /\ Len(events) \in Nat
  BY DEF Delivers
<1>2. \A e \in EventEntries(events) :
         e[1] \in 1 .. Len(events) /\ e[2] = events[e[1]] /\ e = <<e[1], e[2]>>
  BY <1>1 DEF EventEntries
<1>3. IsFiniteSet(EventEntries(events))
  <2> DEFINE S == EventEntries(events)
             f == [e \in S |-> e[1]]
  <2>1. f \in [S -> 1 .. Len(events)]
    BY <1>2
  <2>2. \A x, y \in S : f[x] = f[y] => x = y
    BY <1>2
  <2>3. IsFiniteSet(1 .. Len(events))
    BY <1>1, FS_Interval
  <2> HIDE DEF S, f
  <2>4. IsFiniteSet(S)
    BY <2>1, <2>2, <2>3, NoMore
  <2>5. QED
    BY <2>4 DEF S
<1>4. ASSUME NEW e \in EventEntries(events)
      PROVE  /\ e[2].time \in Int
             /\ IsRf(e[2].kind) => e[2].channel \in Indices(s)
             /\ \E evt \in ToSet(s.events) : \E index \in Indices(s) :
                   Concerns(evt, index) /\ e[2] = Scheduled(evt, index)
  <2>1. PICK evt \in ToSet(s.events), index \in Indices(s) :
           Concerns(evt, index) /\ e[2] = Scheduled(evt, index)
    BY <1>2 DEF Delivers
  <2>2. e[2].time = evt.time /\ e[2].kind = evt.kind
    BY <2>1, ScheduledHas
  <2>3. e[2].time \in Int
    BY <2>2, EventsAre
  <2>4. IsRf(e[2].kind) => e[2].channel = index
    <3>1. IsRf(evt.kind) => EventChannel(evt, index) = index
      BY <2>1, EventChannelIs DEF Concerns
    <3>2. QED
      BY <2>1, <2>2, <3>1, ScheduledHas
  <2>5. QED
    BY <2>1, <2>3, <2>4
<1>5. QED
  BY <1>2, <1>3, <1>4

Sent == EventEntries(DispatcherEvents(plan)) \ pending

TuningsOf(index, kind) == {e \in Sent : e[2].kind = kind /\ e[2].channel = index}

\* Every channel is tuned as a latest event sent to it says.
IsTuned ==
    /\ DOMAIN tuning = ToSet(ActiveChannels(plan))
    /\ \A index \in DOMAIN tuning :
          /\ DOMAIN tuning[index] = {"retune", "gain_change"}
          /\ \A kind \in {"retune", "gain_change"} :
                \/ TuningsOf(index, kind) = {} /\ tuning[index][kind] = None
                \/ \E e \in TuningsOf(index, kind) :
                      /\ tuning[index][kind] = e[2].value
                      /\ \A f \in TuningsOf(index, kind) : f[2].time <= e[2].time

SentAs(v) == {e \in Sent : e[2] = v}

\* The log holds the other events sent, as often as they were sent.
IsLogged == /\ DOMAIN log = {e[2] : e \in {f \in Sent : ~IsRf(f[2].kind)}}
            /\ \A v \in DOMAIN log : log[v] = Cardinality(SentAs(v))

\* What was sent was not later than what is pending.
IsInOrder == /\ pending \subseteq EventEntries(DispatcherEvents(plan))
             /\ \A e \in Sent, f \in pending : e[2].time <= f[2].time

Untuned == [index \in ToSet(ActiveChannels(plan)) |-> [retune |-> None, gain_change |-> None]]

EventInv ==
    /\ stage \notin {"running", "Success"} => pending = {} /\ log = EmptyBag
    /\ stage \in {"prepared", "armed"} => tuning = Untuned
    /\ stage = "Success" => pending = {}
    /\ stage \in {"armed", "running", "Success"} => Armable(scenario) /\ plan = PlanOf(scenario)
    /\ stage \in {"running", "Success"} => IsInOrder /\ IsTuned /\ IsLogged

LEMMA EventInvInit == Init => EventInv
  BY DEF Init, EventInv

\* A run starts with nothing sent.
LEMMA RunIsFresh ==
    ASSUME EventInv, Run
    PROVE  EventInv'
<1> DEFINE events == DispatcherEvents(plan)
<1>1. /\ plan' = plan /\ scenario' = scenario /\ tuning' = tuning /\ log' = log
      /\ stage = "armed" /\ stage' = "running" /\ pending' = EventEntries(events)
  BY DEF Run, EventEntries
<1>2. /\ Armable(scenario) /\ plan = PlanOf(scenario)
      /\ tuning = Untuned /\ log = EmptyBag
  BY <1>1 DEF EventInv
<1>3. EventEntries(DispatcherEvents(plan))' = EventEntries(events)
  BY <1>1
<1>4. Sent' = {}
  BY <1>1, <1>3 DEF Sent
<1>5. IsInOrder'
  BY <1>1, <1>3, <1>4 DEF IsInOrder
<1>6. IsTuned'
  <2> DEFINE active == ToSet(ActiveChannels(plan))
  <2>1. ToSet(ActiveChannels(plan))' = active
    BY <1>1
  <2>2. tuning' = [index \in active |-> [retune |-> None, gain_change |-> None]]
    BY <1>1, <1>2 DEF Untuned
  <2>3. \A index, kind : TuningsOf(index, kind)' = {}
    BY <1>4 DEF TuningsOf
  <2> HIDE DEF active
  <2>4. DOMAIN tuning' = active
    BY <2>2
  <2>5. ASSUME NEW index \in DOMAIN tuning'
        PROVE  /\ DOMAIN tuning'[index] = {"retune", "gain_change"}
               /\ \A kind \in {"retune", "gain_change"} : tuning'[index][kind] = None
    <3>1. tuning'[index] = [retune |-> None, gain_change |-> None]
      BY <2>2, <2>4
    <3>2. QED
      BY <3>1
  <2>6. QED
    BY <2>1, <2>3, <2>4, <2>5 DEF IsTuned
<1>7. IsLogged'
  BY <1>1, <1>2, <1>4 DEF IsLogged, EmptyBag, SetToBag
<1>8. QED
  BY <1>1, <1>2, <1>5, <1>6, <1>7 DEF EventInv

\* What is sent is the latest so far, whose channel, if it tunes one, is tuned.
LEMMA DispatchIs ==
    ASSUME EventInv, NEW entry \in pending, Dispatch(entry)
    PROVE  /\ stage = "running" /\ Armable(scenario) /\ plan = PlanOf(scenario)
           /\ plan' = plan /\ scenario' = scenario /\ stage' = stage
           /\ IsInOrder /\ IsTuned /\ IsLogged
           /\ entry \notin Sent /\ Sent' = Sent \cup {entry} /\ IsFiniteSet(Sent)
           /\ pending' = pending \ {entry}
           /\ \A e \in Sent : e[2].time <= entry[2].time
           /\ entry[2].time \in Int
           /\ IsRf(entry[2].kind) =>
                 entry[2].channel \in DOMAIN tuning /\ entry[2].kind \in {"retune", "gain_change"}
<1> DEFINE events == DispatcherEvents(plan)
           all == EventEntries(events)
<1>1. /\ stage = "running" /\ plan' = plan /\ scenario' = scenario /\ stage' = stage
      /\ pending' = pending \ {entry}
  BY DEF Dispatch
<1>2. Armable(scenario) /\ plan = PlanOf(scenario) /\ IsInOrder /\ IsTuned /\ IsLogged
  BY <1>1 DEF EventInv
<1>3. entry \in all /\ pending \subseteq all
  BY <1>2 DEF IsInOrder
<1>4. all' = all
  BY <1>1
<1>5. Delivers(scenario, events)
  BY <1>2, DispatcherDelivers
<1>6. IsFiniteSet(all) /\ entry[2].time \in Int /\ (IsRf(entry[2].kind) => entry[2].channel \in Indices(scenario))
  <2> HIDE DEF events
  <2>1. QED
    BY <1>2, <1>3, <1>5, EntriesAre
<1>7. IsFiniteSet(Sent)
  <2>1. Sent \subseteq all
    BY DEF Sent
  <2> HIDE DEF all
  <2>2. QED
    BY <1>6, <2>1, FS_Subset
<1>8. entry \notin Sent /\ Sent' = Sent \cup {entry}
  BY <1>1, <1>3, <1>4 DEF Sent
<1>9. \A e \in Sent : e[2].time <= entry[2].time
  BY <1>2 DEF IsInOrder
<1>10. IsRf(entry[2].kind) => entry[2].channel \in DOMAIN tuning
  BY <1>2, <1>6, ActiveAre DEF IsTuned
<1>11. QED
  BY <1>1, <1>2, <1>6, <1>7, <1>8, <1>9, <1>10 DEF IsRf

LEMMA DispatchKeepsOrder ==
    ASSUME EventInv, NEW entry \in pending, Dispatch(entry)
    PROVE  IsInOrder'
<1>1. /\ plan' = plan /\ IsInOrder /\ Sent' = Sent \cup {entry} /\ pending' = pending \ {entry}
  BY DispatchIs
<1>2. \A other \in pending : entry[2].time <= other[2].time
  BY DEF Dispatch
<1>3. pending' \subseteq EventEntries(DispatcherEvents(plan))'
  BY <1>1 DEF IsInOrder
<1>4. ASSUME NEW e \in Sent', NEW f \in pending' PROVE e[2].time <= f[2].time
  <2>1. f \in pending
    BY <1>1
  <2>2. CASE e \in Sent
    BY <1>1, <2>1, <2>2 DEF IsInOrder
  <2>3. CASE e = entry
    BY <1>2, <2>1, <2>3
  <2>4. QED
    BY <1>1, <2>2, <2>3
<1>5. QED
  BY <1>3, <1>4 DEF IsInOrder

LEMMA DispatchTunes ==
    ASSUME EventInv, NEW entry \in pending, Dispatch(entry)
    PROVE  IsTuned'
<1> DEFINE evt == entry[2]
           kinds == {"retune", "gain_change"}
<1>1. /\ plan' = plan /\ IsTuned /\ Sent' = Sent \cup {entry} /\ entry \notin Sent
      /\ \A e \in Sent : e[2].time <= evt.time
      /\ evt.time \in Int
      /\ IsRf(evt.kind) => evt.channel \in DOMAIN tuning /\ evt.kind \in kinds
  BY DispatchIs
<1>2. \A index, kind : TuningsOf(index, kind)' =
         IF evt.kind = kind /\ evt.channel = index THEN TuningsOf(index, kind) \cup {entry}
         ELSE TuningsOf(index, kind)
  BY <1>1 DEF TuningsOf
<1>3. \A index, kind : \A e \in TuningsOf(index, kind) : e \in Sent
  BY DEF TuningsOf
<1>4. ToSet(ActiveChannels(plan))' = ToSet(ActiveChannels(plan))
  BY <1>1
<1>5. CASE IsRf(evt.kind)
  <2>1. tuning' = [tuning EXCEPT ![evt.channel][evt.kind] = evt.value]
    BY <1>5 DEF Dispatch
  <2>2. /\ DOMAIN tuning = ToSet(ActiveChannels(plan))
        /\ \A index \in DOMAIN tuning : DOMAIN tuning[index] = kinds
    BY <1>1 DEF IsTuned
  <2>3. DOMAIN tuning' = DOMAIN tuning
    BY <2>1
  <2>4. \A index \in DOMAIN tuning :
           /\ DOMAIN tuning'[index] = kinds
           /\ \A kind \in kinds :
                 tuning'[index][kind] = IF evt.channel = index /\ evt.kind = kind THEN evt.value
                                        ELSE tuning[index][kind]
    BY <1>1, <1>5, <2>1, <2>2
  <2>5. ASSUME NEW index \in DOMAIN tuning, NEW kind \in kinds
        PROVE  \/ TuningsOf(index, kind)' = {} /\ tuning'[index][kind] = None
               \/ \E e \in TuningsOf(index, kind)' :
                     /\ tuning'[index][kind] = e[2].value
                     /\ \A f \in TuningsOf(index, kind)' : f[2].time <= e[2].time
    <3>1. CASE evt.channel = index /\ evt.kind = kind
      <4>1. /\ entry \in TuningsOf(index, kind)'
            /\ \A f \in TuningsOf(index, kind)' : f \in Sent \/ f = entry
        BY <1>2, <1>3, <3>1
      <4>2. \A f \in TuningsOf(index, kind)' : f[2].time <= evt.time
        BY <1>1, <4>1
      <4>3. tuning'[index][kind] = evt.value
        BY <2>4, <3>1
      <4>4. QED
        BY <4>1, <4>2, <4>3
    <3>2. CASE ~(evt.channel = index /\ evt.kind = kind)
      <4>1. TuningsOf(index, kind)' = TuningsOf(index, kind) /\ tuning'[index][kind] = tuning[index][kind]
        BY <1>2, <2>4, <3>2
      <4>2. QED
        BY <1>1, <4>1 DEF IsTuned
    <3>3. QED
      BY <3>1, <3>2
  <2>6. QED
    BY <1>4, <2>2, <2>3, <2>4, <2>5 DEF IsTuned
<1>6. CASE ~IsRf(evt.kind)
  <2>1. tuning' = tuning
    BY <1>6 DEF Dispatch
  <2>2. \A index : \A kind \in kinds : TuningsOf(index, kind)' = TuningsOf(index, kind)
    BY <1>2, <1>6 DEF IsRf
  <2>3. /\ DOMAIN tuning = ToSet(ActiveChannels(plan))
        /\ \A index \in DOMAIN tuning : DOMAIN tuning[index] = kinds
    BY <1>1 DEF IsTuned
  <2>4. ASSUME NEW index \in DOMAIN tuning, NEW kind \in kinds
        PROVE  \/ TuningsOf(index, kind)' = {} /\ tuning'[index][kind] = None
               \/ \E e \in TuningsOf(index, kind)' :
                     /\ tuning'[index][kind] = e[2].value
                     /\ \A f \in TuningsOf(index, kind)' : f[2].time <= e[2].time
    <3>1. TuningsOf(index, kind)' = TuningsOf(index, kind) /\ tuning'[index][kind] = tuning[index][kind]
      BY <2>1, <2>2
    <3>2. QED
      BY <1>1, <3>1 DEF IsTuned
  <2>5. QED
    BY <1>4, <2>1, <2>3, <2>4 DEF IsTuned
<1>7. QED
  BY <1>5, <1>6

LEMMA DispatchLogs ==
    ASSUME EventInv, NEW entry \in pending, Dispatch(entry)
    PROVE  IsLogged'
<1> DEFINE evt == entry[2]
           Others(sent) == {e[2] : e \in {f \in sent : ~IsRf(f[2].kind)}}
<1>1. IsLogged /\ Sent' = Sent \cup {entry} /\ entry \notin Sent /\ IsFiniteSet(Sent)
  BY DispatchIs
<1>2. DOMAIN log = Others(Sent) /\ \A v \in DOMAIN log : log[v] = Cardinality(SentAs(v))
  BY <1>1 DEF IsLogged
<1>3. \A v : SentAs(v)' = IF v = evt THEN SentAs(v) \cup {entry} ELSE SentAs(v)
  BY <1>1 DEF SentAs
<1>4. \A v \in DOMAIN log : ~IsRf(v.kind)
  BY <1>2
<1>5. CASE IsRf(evt.kind)
  <2>1. log' = log
    BY <1>5 DEF Dispatch
  <2>2. Others(Sent') = Others(Sent)
    BY <1>1, <1>5
  <2>3. \A v \in DOMAIN log : SentAs(v)' = SentAs(v)
    BY <1>3, <1>4, <1>5
  <2>4. QED
    BY <1>2, <2>1, <2>2, <2>3 DEF IsLogged
<1>6. CASE ~IsRf(evt.kind)
  <2>1. log' = log (+) SetToBag({evt})
    BY <1>6 DEF Dispatch
  <2>2. log' = [v \in DOMAIN log \cup {evt} |->
                  (IF v \in DOMAIN log THEN log[v] ELSE 0) + (IF v = evt THEN 1 ELSE 0)]
    <3>1. DOMAIN SetToBag({evt}) = {evt} /\ SetToBag({evt})[evt] = 1
      BY DEF SetToBag
    <3>2. log' = [v \in (DOMAIN log) \cup (DOMAIN SetToBag({evt})) |->
                    (IF v \in DOMAIN log THEN log[v] ELSE 0)
                    + (IF v \in DOMAIN SetToBag({evt}) THEN SetToBag({evt})[v] ELSE 0)]
      BY <2>1 DEF (+)
    <3>3. QED
      BY <3>1, <3>2
  <2>3. Others(Sent') = Others(Sent) \cup {evt}
    BY <1>1, <1>6
  <2>4. DOMAIN log' = Others(Sent')
    BY <1>2, <2>2, <2>3
  <2>5. \A v : IsFiniteSet(SentAs(v)) /\ Cardinality(SentAs(v)) \in Nat
    <3>1. \A v : SentAs(v) \subseteq Sent
      BY DEF SentAs
    <3>2. \A v : IsFiniteSet(SentAs(v))
      BY <1>1, <3>1, FS_Subset
    <3>3. QED
      BY <3>2, FS_CardinalityType
  <2>6. ASSUME NEW v \in DOMAIN log' PROVE log'[v] = Cardinality(SentAs(v)')
    <3>1. CASE v # evt
      <4>1. v \in DOMAIN log /\ log'[v] = log[v] + 0 /\ SentAs(v)' = SentAs(v)
        BY <1>3, <2>2, <3>1
      <4>2. QED
        BY <1>2, <2>5, <4>1
    <3>2. CASE v = evt
      <4>1. SentAs(v)' = SentAs(v) \cup {entry} /\ entry \notin SentAs(v)
        BY <1>1, <1>3, <3>2 DEF SentAs
      <4>2. Cardinality(SentAs(v)') = Cardinality(SentAs(v)) + 1
        BY <2>5, <4>1, FS_AddElement
      <4>3. CASE v \in DOMAIN log
        <5>1. log'[v] = log[v] + 1
          BY <2>2, <3>2, <4>3
        <5>2. QED
          BY <1>2, <4>2, <4>3, <5>1
      <4>4. CASE v \notin DOMAIN log
        <5>1. log'[v] = 0 + 1
          BY <2>2, <3>2, <4>4
        <5>2. SentAs(v) = {}
          BY <1>2, <1>6, <3>2, <4>4 DEF SentAs
        <5>3. Cardinality(SentAs(v)) = 0
          BY <5>2, FS_EmptySet
        <5>4. QED
          BY <4>2, <5>1, <5>3
      <4>5. QED
        BY <4>3, <4>4
    <3>3. QED
      BY <3>1, <3>2
  <2>7. QED
    BY <2>4, <2>6 DEF IsLogged
<1>7. QED
  BY <1>5, <1>6

LEMMA EventInvNext == IInv /\ EventInv /\ [Next]_vars => EventInv'
<1> SUFFICES ASSUME IInv, EventInv, [Next]_vars PROVE EventInv'
  OBVIOUS
<1>1. CASE ValidateStep
  BY <1>1 DEF EventInv, ValidateStep, Untouched
<1>2. CASE PlanStep
  BY <1>2 DEF EventInv, PlanStep, Untouched
<1>3. CASE Reload
  BY <1>3 DEF EventInv, Reload, Untouched
<1>4. CASE Prepare
  BY <1>4 DEF EventInv, Prepare, Untuned
<1>5. CASE Arm
  <2>1. /\ stage = "prepared" /\ stage' \in {"armed", "PreparationFailure"}
        /\ plan' = plan /\ UNCHANGED <<scenario, pending, tuning, log>>
    BY <1>5 DEF Arm, Untouched
  <2>2. Untuned' = Untuned
    BY <2>1 DEF Untuned
  <2>3. stage' = "armed" => Armable(scenario) /\ plan = PlanOf(scenario)
    <3>1. scenario \in Scenarios /\ Validate(scenario) /\ plan = PlanOf(scenario) /\ PrepareAccepts(plan)
      BY <2>1 DEF IInv
    <3>2. stage' = "armed" => ArmAccepts(plan)
      BY <1>5 DEF Arm
    <3>3. WellFormed(scenario)
      BY <3>1, ScenariosAssumption
    <3>4. QED
      BY <3>1, <3>2, <3>3 DEF Armable
  <2>4. QED
    BY <2>1, <2>2, <2>3 DEF EventInv
<1>6. CASE Run
  BY <1>6, RunIsFresh
<1>7. CASE Complete
  <2>1. /\ stage = "running" /\ pending = {} /\ stage' = "Success"
        /\ plan' = plan /\ UNCHANGED <<scenario, pending, tuning, log>>
    BY <1>7 DEF Complete, Untouched
  <2>2. /\ Armable(scenario) /\ plan = PlanOf(scenario)
        /\ IsInOrder /\ IsTuned /\ IsLogged
    BY <2>1 DEF EventInv
  <2>3. Sent' = Sent
    BY <2>1 DEF Sent
  <2>4. IsInOrder' /\ IsTuned' /\ IsLogged'
    BY <2>1, <2>2, <2>3 DEF IsInOrder, IsTuned, IsLogged, TuningsOf, SentAs
  <2>5. QED
    BY <2>1, <2>2, <2>4 DEF EventInv
<1>8. ASSUME NEW entry \in pending, Dispatch(entry) PROVE EventInv'
  <2>1. /\ stage = "running" /\ Armable(scenario) /\ plan = PlanOf(scenario)
        /\ plan' = plan /\ scenario' = scenario /\ stage' = stage
    BY <1>8, DispatchIs
  <2>2. IsInOrder' /\ IsTuned' /\ IsLogged'
    BY <1>8, DispatchKeepsOrder, DispatchTunes, DispatchLogs
  <2>3. QED
    BY <2>1, <2>2 DEF EventInv
<1>9. CASE UNCHANGED vars
  <2>1. UNCHANGED <<scenario, stage, plan, pending, tuning, log>>
    BY <1>9 DEF vars
  <2>2. Sent' = Sent /\ Untuned' = Untuned
    BY <2>1 DEF Sent, Untuned
  <2>3. IsInOrder /\ IsTuned /\ IsLogged => IsInOrder' /\ IsTuned' /\ IsLogged'
    BY <2>1, <2>2 DEF IsInOrder, IsTuned, IsLogged, TuningsOf, SentAs
  <2>4. QED
    BY <2>1, <2>2, <2>3 DEF EventInv
<1>10. QED
  BY <1>1, <1>2, <1>3, <1>4, <1>5, <1>6, <1>7, <1>8, <1>9 DEF Next

\* With everything sent, the channels are tuned as the scenario says.
LEMMA AllTuned ==
    ASSUME IsTuned, pending = {}, Armable(scenario), plan = PlanOf(scenario), ~HasLookalikes(scenario)
    PROVE  TunedAsPlanned
<1> DEFINE events == DispatcherEvents(plan)
           V == ToSet(scenario.events)
<1>1. Delivers(scenario, events)
  BY DispatcherDelivers
<1>2. Sent = EventEntries(events)
  BY DEF Sent
<1>3. DOMAIN tuning = Indices(scenario)
  BY ActiveAre DEF IsTuned
<1>4. SUFFICES ASSUME NEW index \in DOMAIN tuning, NEW kind \in {"retune", "gain_change"}
               PROVE  LET mine == {evt \in V : evt.kind = kind /\ evt.channel \in {None, index}}
                          latest == {evt \in mine : \A other \in mine : other.time <= evt.time}
                      IN  IF mine = {} THEN tuning[index][kind] = None
                          ELSE tuning[index][kind] \in {evt.value : evt \in latest}
  BY DEF TunedAsPlanned
<1> DEFINE mine == {evt \in V : evt.kind = kind /\ evt.channel \in {None, index}}
           latest == {evt \in mine : \A other \in mine : other.time <= evt.time}
<1>5. IsRf(kind)
  BY DEF IsRf
<1>6. ASSUME NEW e \in TuningsOf(index, kind)
      PROVE  \E evt \in mine : e[2].time = evt.time /\ e[2].value = evt.value
  <2>1. e \in EventEntries(events) /\ e[2].kind = kind /\ e[2].channel = index
    BY <1>2 DEF TuningsOf
  <2>2. PICK evt \in V, i \in Indices(scenario) : Concerns(evt, i) /\ e[2] = Scheduled(evt, i)
    <3> HIDE DEF events
    <3>1. QED
      BY <1>1, <2>1, EntriesAre
  <2>3. /\ e[2].kind = evt.kind /\ e[2].time = evt.time /\ e[2].value = evt.value
        /\ IsRf(evt.kind) => e[2].channel = EventChannel(evt, i)
    BY <2>2, ScheduledHas
  <2>4. evt.channel \in {None, i} /\ EventChannel(evt, i) = index
    BY <1>5, <2>1, <2>2, <2>3 DEF Concerns
  <2>5. evt.channel \in {None, index}
    BY <2>4, EventChannelIs
  <2>6. QED
    BY <2>1, <2>3, <2>5
<1>7. ASSUME NEW evt \in mine
      PROVE  \E e \in TuningsOf(index, kind) : e[2].time = evt.time /\ e[2].value = evt.value
  <2>1. Concerns(evt, index) /\ index \in Indices(scenario) /\ evt \in V
    BY <1>3 DEF Concerns
  <2>2. PICK i \in 1 .. Len(events) : events[i] = Scheduled(evt, index)
    <3> HIDE DEF events
    <3>1. QED
      BY <1>1, <2>1 DEF Delivers
  <2>3. <<i, events[i]>> \in Sent
    <3> HIDE DEF events
    <3>1. QED
      BY <1>1, <1>2 DEF Delivers, EventEntries
  <2>4. EventChannel(evt, index) = index
    BY EventChannelIs
  <2>5. /\ events[i].kind = kind /\ events[i].channel = index
        /\ events[i].time = evt.time /\ events[i].value = evt.value
    BY <1>5, <2>2, <2>4, ScheduledHas
  <2> HIDE DEF events
  <2>6. QED
    BY <2>3, <2>5 DEF TuningsOf
<1>8. \/ TuningsOf(index, kind) = {} /\ tuning[index][kind] = None
      \/ \E e \in TuningsOf(index, kind) :
            /\ tuning[index][kind] = e[2].value
            /\ \A f \in TuningsOf(index, kind) : f[2].time <= e[2].time
  BY DEF IsTuned
<1> HIDE DEF mine
<1>9. CASE mine = {}
  BY <1>6, <1>8, <1>9 DEF mine
<1>10. CASE mine # {}
  <2>1. TuningsOf(index, kind) # {}
    BY <1>7, <1>10
  <2>2. PICK e \in TuningsOf(index, kind) :
           /\ tuning[index][kind] = e[2].value
           /\ \A f \in TuningsOf(index, kind) : f[2].time <= e[2].time
    BY <1>8, <2>1
  <2>3. PICK evt \in mine : e[2].time = evt.time /\ e[2].value = evt.value
    BY <1>6
  <2>4. \A other \in mine : other.time <= evt.time
    BY <1>7, <2>2, <2>3
  <2>5. evt \in latest
    BY <2>4
  <2>6. QED
    BY <1>10, <2>2, <2>3, <2>5 DEF mine
<1>11. QED
  BY <1>9, <1>10

\* With everything sent, the log has every other event, none too often.
LEMMA AllLogged ==
    ASSUME IsLogged, pending = {}, Armable(scenario), plan = PlanOf(scenario), ~HasLookalikes(scenario)
    PROVE  OthersDispatched
<1> DEFINE events == DispatcherEvents(plan)
           V == ToSet(scenario.events)
<1>1. Delivers(scenario, events)
  BY DispatcherDelivers
<1>2. Sent = EventEntries(events)
  BY DEF Sent
<1>3. SUFFICES ASSUME NEW evt \in V, ~IsRf(evt.kind)
               PROVE  /\ BagIn(Scheduled(evt, None), log)
                      /\ log[Scheduled(evt, None)] <=
                            Cardinality({i \in DOMAIN scenario.events :
                               Scheduled(scenario.events[i], None) = Scheduled(evt, None)})
  BY DEF OthersDispatched
<1> DEFINE v == Scheduled(evt, None)
           S == {i \in 1 .. Len(events) : events[i] = v}
           T == {i \in DOMAIN scenario.events : Scheduled(scenario.events[i], None) = v}
<1>4. PICK index : index \in Indices(scenario)
  <2> DEFINE channels == EffectiveChannels(scenario)
  <2>1. channels # <<>> /\ DOMAIN channels = 1 .. Len(channels) /\ Len(channels) \in Nat
    BY ChannelsAre, HasChannels DEF Armable
  <2>2. Indices(scenario) = {channels[j].index : j \in DOMAIN channels}
    BY DEF Indices
  <2> HIDE DEF channels
  <2>3. 1 \in DOMAIN channels
    BY <2>1
  <2>4. QED
    BY <2>2, <2>3
<1>5. Scheduled(evt, index) = v
  BY <1>3, SameScheduled
<1>6. PICK k \in 1 .. Len(events) : events[k] = v
  <2>1. Concerns(evt, index)
    BY <1>3 DEF Concerns
  <2> HIDE DEF events, v
  <2>2. QED
    BY <1>1, <1>4, <1>5, <2>1 DEF Delivers
<1>7. DOMAIN events = 1 .. Len(events) /\ Len(events) \in Nat /\ Cardinality(S) <= Cardinality(T)
  <2> HIDE DEF events
  <2>1. QED
    BY <1>1, <1>3 DEF Delivers
<1>8. v.kind = evt.kind
  BY ScheduledHas
<1> HIDE DEF v, events, T
<1>9. v \in DOMAIN log
  <2>1. <<k, v>> \in Sent
    BY <1>2, <1>6, <1>7 DEF EventEntries
  <2>2. QED
    BY <1>3, <1>8, <2>1 DEF IsLogged
<1>10. Cardinality(SentAs(v)) <= Cardinality(S) /\ IsFiniteSet(SentAs(v)) /\ IsFiniteSet(S)
  <2> DEFINE f == [e \in SentAs(v) |-> e[1]]
  <2>1. \A e \in SentAs(v) : e[1] \in S /\ e = <<e[1], v>>
    BY <1>2, <1>7 DEF SentAs, EventEntries
  <2>2. f \in [SentAs(v) -> S]
    BY <2>1
  <2>3. \A x, y \in SentAs(v) : f[x] = f[y] => x = y
    BY <2>1
  <2>4. IsFiniteSet(S)
    <3>1. IsFiniteSet(1 .. Len(events)) /\ S \subseteq 1 .. Len(events)
      BY <1>7, FS_Interval
    <3> HIDE DEF S
    <3>2. QED
      BY <3>1, FS_Subset
  <2> HIDE DEF f, S
  <2>5. QED
    BY <2>2, <2>3, <2>4, NoMore
<1>11. IsFiniteSet(T)
  <2>1. DOMAIN scenario.events = 1 .. Len(scenario.events) /\ Len(scenario.events) \in Nat
    BY DEF Armable, WellFormed, IsSequence
  <2>2. T \subseteq 1 .. Len(scenario.events) /\ IsFiniteSet(1 .. Len(scenario.events))
    BY <2>1, FS_Interval DEF T
  <2>3. QED
    BY <2>2, FS_Subset
<1> HIDE DEF S
<1>12. log[v] <= Cardinality(T)
  <2>1. log[v] = Cardinality(SentAs(v))
    BY <1>9 DEF IsLogged
  <2>2. Cardinality(SentAs(v)) \in Nat /\ Cardinality(S) \in Nat /\ Cardinality(T) \in Nat
    BY <1>10, <1>11, FS_CardinalityType
  <2>3. QED
    BY <1>7, <1>10, <2>1, <2>2
<1>13. BagIn(v, log)
  BY <1>9 DEF BagIn, BagToSet
<1>14. QED
  BY <1>12, <1>13 DEF v, T

\* When a run is over, and no two events look alike, every channel is tuned as
\* the latest event for it says, and every other event was dispatched, none
\* oftener than the scenario has it, in every run of the command over any set of
\* scenarios and whatever order events of one time are dispatched in.
THEOREM EventsArrive == Spec => []EventsTakeEffect
<1>1. Init => IInv /\ EventInv
  BY IInvInit, EventInvInit
<1>2. IInv /\ EventInv /\ [Next]_vars => IInv' /\ EventInv'
  BY IInvNext, EventInvNext
<1>3. EventInv => EventsTakeEffect
  <2>1. SUFFICES ASSUME EventInv, stage = "Success", ~HasLookalikes(scenario)
                 PROVE  TunedAsPlanned /\ OthersDispatched
    BY DEF EventsTakeEffect
  <2>2. /\ pending = {} /\ Armable(scenario) /\ plan = PlanOf(scenario)
        /\ IsTuned /\ IsLogged
    BY <2>1 DEF EventInv
  <2>3. QED
    BY <2>1, <2>2, AllTuned, AllLogged
<1>4. QED
  BY <1>1, <1>2, <1>3, PTL DEF Spec
=============================================================================
