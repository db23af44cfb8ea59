-------------------------------- MODULE Device --------------------------------
(***************************************************************************)
(* The two implementations of IHalDevice, core/hal/src/stub_device.cpp and *)
(* core/hal/src/uhd_device.cpp, as far as a transmission depends on them:  *)
(* the settings of each channel and whether it transmits.  Every method    *)
(* holds the device's mutex, so a call is one step.  What a "usrp" keeps   *)
(* is external; any call of it may throw.                                  *)
(***************************************************************************)
CONSTANTS Channel, Value

\* The settings of a channel, in the order in which prepare makes them.
Knobs == <<"freq", "rate", "gain", "bandwidth", "antenna">>
Knob == {"freq", "rate", "gain", "bandwidth", "antenna"}

\* None: no setting was made yet, or a plan asks for none.
None == "none"

Kinds == {"stub", "usrp"}

\* active is tx_active_, streaming the channels that have a streamer.
DeviceState == [kind : Kinds, setting : [Channel -> [Knob -> Value \cup {None}]],
                active : SUBSET Channel, streaming : SUBSET Channel]

NewDevice(kind) == [kind |-> kind, setting |-> [c \in Channel |-> [k \in Knob |-> None]],
                    active |-> {}, streaming |-> {}]

MayThrow(dev) == dev.kind = "usrp"

Set(dev, c, knob, value) == [dev EXCEPT !.setting[c][knob] = value]

Started(dev, c) == [dev EXCEPT !.active = @ \cup {c}, !.streaming = @ \cup {c}]

\* start_tx throws: a streamer that was there is gone, and the channel still
\* passes for active.
StartFailed(dev, c) == [dev EXCEPT !.streaming = @ \ {c}]

\* An error of the last, empty burst is only logged.
Stopped(dev, c) == [dev EXCEPT !.active = @ \ {c}, !.streaming = @ \ {c}]
=============================================================================
