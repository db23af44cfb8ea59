------------------------------ MODULE Validator ------------------------------
(***************************************************************************)
(* scenario::validate (core/scheduler/src/validator.cpp): the rules a      *)
(* scenario must satisfy before it is planned.                             *)
(***************************************************************************)
EXTENDS Scenario

\* Ids are set, and none is taken twice.
DistinctIds(seq) == /\ \A i \in DOMAIN seq : seq[i].id # <<>>
                    /\ \A i, j \in DOMAIN seq : seq[i].id = seq[j].id => i = j

DeviceIds(s) == {dev.id : dev \in ToSet(s.devices)}

CheckRfSettings(dev) == dev.rf # "invalid"

CheckEmitter(s, em) ==
    /\ em.duration > 0
    /\ em.start >= 0
    /\ em.device \in DeviceIds(s)
    /\ \A dev \in ToSet(s.devices) :
          dev.id = em.device /\ dev.channel # None => em.channel = dev.channel

\* What shares a channel: by channel_id where that is known, else by number.
ChannelKey(s, em) ==
    LET named == {c \in ToSet(s.channels) : em.channelId # None /\ c.id = em.channelId}
    IN  IF named = {} THEN <<em.device, em.channel>>
        ELSE LET c == CHOOSE c \in named : TRUE IN <<c.device, c.index>>

WindowsCollide(a, b) ==
    \E v \in ToSet(WindowsOf(a)), w \in ToSet(WindowsOf(b)) : Overlap(v, w)

\* Mutant: additive emitters may overlap any other.
CheckOverlapsOfTwo(s) ==
    \A i, j \in DOMAIN s.emitters :
        LET a == s.emitters[i]
            b == s.emitters[j]
        IN  i < j /\ ChannelKey(s, a) = ChannelKey(s, b) /\ WindowsCollide(a, b)
                => a.additive \/ b.additive

\* Two emitters overlap on a channel only where both are additive.
CheckOverlaps(s) ==
    \A i, j \in DOMAIN s.emitters :
        LET a == s.emitters[i]
            b == s.emitters[j]
        IN  i < j /\ ChannelKey(s, a) = ChannelKey(s, b) /\ WindowsCollide(a, b)
                => a.additive /\ b.additive

\* Only the events that tune a channel have their channel checked.
CheckEvent(s, evt) ==
    /\ evt.time >= 0
    /\ evt.device \in DeviceIds(s)
    /\ evt.body = "ok"
    /\ IsRf(evt.kind) /\ evt.channel # None =>
          evt.channel # BadChannel /\ IsBound(s, evt.device, evt.channel)

CheckChannels(s) ==
    /\ \A em \in ToSet(s.emitters) :
          em.channelId # None => \E c \in ToSet(s.channels) : c.id = em.channelId
    /\ DistinctIds(s.channels)
    /\ \A c \in ToSet(s.channels) : c.rf # "invalid" /\ c.device \in DeviceIds(s)
    /\ \A i, j \in DOMAIN s.channels :
          /\ s.channels[i].device = s.channels[j].device
          /\ s.channels[i].index = s.channels[j].index
          => i = j

Validate(s) ==
    /\ s.devices # <<>> /\ s.emitters # <<>>
    /\ DistinctIds(s.devices) /\ DistinctIds(s.emitters)
    /\ \A dev \in ToSet(s.devices) : CheckRfSettings(dev)
    /\ \A em \in ToSet(s.emitters) : CheckEmitter(s, em) /\ RepeatOk(em)
    /\ CheckOverlaps(s)
    /\ \A evt \in ToSet(s.events) : CheckEvent(s, evt)
    /\ CheckChannels(s)
=============================================================================
