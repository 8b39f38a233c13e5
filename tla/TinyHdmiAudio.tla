--------------------------- MODULE TinyHdmiAudio ----------------------------
(***************************************************************************)
(* The HDMI audio HAL on tinyalsa (hdmiaudio/tinyaudio_hw.c).  Audio       *)
(* flinger opens several output streams at once and writes to each from a  *)
(* thread of its own, but the HDMI device plays one pcm: the globals       *)
(* activePcm and activeChannel say which.  A stream that starts closes the *)
(* pcm of whoever played before, without telling that stream.              *)
(*                                                                         *)
(* A call holds adev->lock, and out->lock inside it, from its first look   *)
(* at the state to its end, so one holder stands for both.  A step is a    *)
(* piece of a call between the points where what another thread does       *)
(* outside the lock, or tinyalsa, can make a difference.  The threads of   *)
(* one stream are serialised by audio flinger.                             *)
(***************************************************************************)
EXTENDS Integers, ActivePcm

CONSTANTS
  ChannelsOf,   \* the channel counts each stream may be opened with
  Sinks         \* channel counts of the sinks that may be plugged in

ASSUME ChannelAssumption ==
  ChannelsOf \in [Streams -> SUBSET Nat] /\ Sinks \subseteq Nat

VARIABLES
  op,             \* what each stream's thread is doing
  chan,           \* stream_out.pcm_config.channels
  standby, pcm,   \* stream_out.standby, stream_out.pcm
  holder,         \* the stream whose call holds adev->lock, or NoStream
  device,         \* audio_device.device (card goes with it)
  sink,           \* channels of the connected sink
  masks           \* sup_channel_masks[0..1], as channel counts, 0 for none

streamVars == <<op, chan, standby, pcm>>
edidVars == <<sink, masks>>
vars == <<streamVars, holder, pcmVars, device, edidVars>>

TypeOK ==
  /\ op \in [Streams -> {"closed", "opening", "opens", "idle", "starts", "writes"}]
  /\ chan \in [Streams -> Nat]
  /\ standby \in [Streams -> BOOLEAN]
  /\ pcm \in [Streams -> Pcms \cup {NoPcm, BadPcm}]
  /\ holder \in Streams \cup {NoStream}
  /\ activePcm \in Pcms \cup {NoPcm} /\ activeChannel \in Nat
  /\ opened \subseteq Pcms
  /\ device \in {-1, 0, 1}
  /\ sink \in Sinks
  /\ masks \in [0 .. 1 -> {0, 2, 6, 8}]

Init ==
  /\ op = [s \in Streams |-> "closed"]
  /\ chan = [s \in Streams |-> 0]
  /\ standby = [s \in Streams |-> FALSE]
  /\ pcm = [s \in Streams |-> NoPcm]
  /\ holder = NoStream
  /\ activePcm = NoPcm /\ activeChannel = 0 /\ opened = {}
  /\ device = 0
  /\ sink \in Sinks
  /\ masks = [i \in 0 .. 1 |-> 0]

-----------------------------------------------------------------------------
\* Audio flinger opens, closes and questions one stream at a time.
FlingerFree == \A s \in Streams : op[s] \notin {"opening", "opens"}

\* out_read_edid(): what the sink supports is written over the old masks.
ReadEdid(m, n) ==
  CASE n = 8 -> [m EXCEPT ![0] = 6, ![1] = 8]
    [] n > 2 /\ n # 8 -> [m EXCEPT ![0] = 6]
    [] OTHER -> [m EXCEPT ![0] = 2]

\* Another sink is plugged in.
Replug ==
  /\ sink' \in Sinks \ {sink}
  /\ UNCHANGED <<streamVars, holder, pcmVars, device, masks>>

\* out_get_parameters(sup_channels) of an open stream: the sink is read, and
\* audio flinger is told of both masks, the second one perhaps an old one.
GetParameters(s) ==
  /\ op[s] # "closed" /\ FlingerFree
  /\ masks' = ReadEdid(masks, sink)
  /\ UNCHANGED <<streamVars, holder, pcmVars, device, sink>>

\* out_set_parameters(card=..;device=..).
SetParameters(s, d) ==
  /\ op[s] = "idle" /\ holder = NoStream
  /\ device' = d
  /\ UNCHANGED <<streamVars, holder, pcmVars, edidVars>>

-----------------------------------------------------------------------------
\* Slip: the pcm that plays is left open.
StartHalfLeaking(s) ==
  /\ device' = IF device < 0 THEN 0 ELSE device
  /\ activePcm' = NoPcm
  /\ UNCHANGED <<opened, activeChannel>>

\* The first half of start_output_stream(): a device is chosen and the pcm
\* that plays is closed, whosever it is.
StartHalf(s) ==
  /\ device' = IF device < 0 THEN 0 ELSE device
  /\ opened' = opened \ {activePcm}
  /\ activePcm' = NoPcm
  /\ UNCHANGED activeChannel

\* adev_open_output_stream() up to the lock: the new stream, the masks, and
\* the device, which is no longer known.  A direct stream that leaves the
\* channels open has the sink read, and gets six.
OpenStream(s) ==
  /\ op[s] = "closed" /\ FlingerFree
  /\ op' = [op EXCEPT ![s] = "opening"]
  /\ standby' = [standby EXCEPT ![s] = TRUE]
  /\ pcm' = [pcm EXCEPT ![s] = NoPcm]
  /\ device' = -1
  /\ \E c \in ChannelsOf[s] :
       LET stereo == [masks EXCEPT ![0] = 2] IN
       /\ chan' = [chan EXCEPT ![s] = c]
       /\ masks' = stereo \/ (c = 6 /\ masks' = ReadEdid(stereo, sink))
  /\ UNCHANGED <<holder, pcmVars, sink>>

\* The locked part of adev_open_output_stream() up to pcm_open().
LockOpen(s) ==
  /\ op[s] = "opening" /\ holder = NoStream
  /\ StartHalf(s)
  /\ op' = [op EXCEPT ![s] = "opens"]
  /\ holder' = s
  /\ UNCHANGED <<chan, standby, pcm, edidVars>>

\* Slip: a stream whose pcm another call closed is not started again.
MustStartAgain(s) == standby[s]

MustStart(s) == standby[s] \/ activePcm = NoPcm

MayWrite(s) == pcm[s] # NoPcm /\ activeChannel = chan[s]

\* out_write() up to pcm_open() or pcm_write().  A stream that finds another
\* one playing with other channels returns at once and loses the data.
Write(s) ==
  /\ op[s] = "idle" /\ holder = NoStream
  /\ IF MustStart(s)
       THEN /\ StartHalf(s)
            /\ standby' = [standby EXCEPT ![s] = TRUE]
            /\ op' = [op EXCEPT ![s] = "starts"]
            /\ holder' = s
       ELSE /\ UNCHANGED <<standby, device, pcmVars>>
            /\ IF MayWrite(s) THEN op' = [op EXCEPT ![s] = "writes"] /\ holder' = s
                              ELSE UNCHANGED <<op, holder>>
  /\ UNCHANGED <<chan, pcm, edidVars>>

\* pcm_open() of a known device gives a pcm that is ready; out_write() goes on
\* to pcm_write(), adev_open_output_stream() returns.
PcmReady(s, p) ==
  /\ op[s] \in {"opens", "starts"} /\ holder = s /\ device >= 0
  /\ pcm' = [pcm EXCEPT ![s] = p]
  /\ opened' = opened \cup {p}
  /\ activePcm' = p /\ activeChannel' = chan[s]
  /\ standby' = [standby EXCEPT ![s] = FALSE]
  /\ IF op[s] = "opens"
       THEN op' = [op EXCEPT ![s] = "idle"] /\ holder' = NoStream
       ELSE op' = [op EXCEPT ![s] = "writes"] /\ UNCHANGED holder
  /\ UNCHANGED <<chan, device, edidVars>>

\* It fails: the new stream is freed, a writing one stays in standby and
\* keeps the bad pcm.
PcmNotReady(s) ==
  /\ op[s] \in {"opens", "starts"} /\ holder = s
  /\ pcm' = [pcm EXCEPT ![s] = BadPcm]
  /\ activePcm' = NoPcm
  /\ op' = [op EXCEPT ![s] = IF op[s] = "opens" THEN "closed" ELSE "idle"]
  /\ holder' = NoStream
  /\ UNCHANGED <<chan, standby, activeChannel, opened, device, edidVars>>

\* pcm_write() returns and the locks are released.
Written(s) ==
  /\ op[s] = "writes"
  /\ op' = [op EXCEPT ![s] = "idle"]
  /\ holder' = NoStream
  /\ UNCHANGED <<chan, standby, pcm, pcmVars, device, edidVars>>

\* The body of out_standby(), for a stream that is in standby or not: the pcm
\* that plays is closed, whosever it is.
StandbyBody(s, isStandby) ==
  IF ~isStandby /\ activePcm # NoPcm
    THEN /\ opened' = opened \ {activePcm}
         /\ activePcm' = NoPcm
         /\ pcm' = [pcm EXCEPT ![s] = NoPcm]
         /\ standby' = [standby EXCEPT ![s] = TRUE]
    ELSE /\ standby' = [standby EXCEPT ![s] = isStandby]
         /\ UNCHANGED <<opened, activePcm, pcm>>

Standby(s) ==
  /\ op[s] = "idle" /\ holder = NoStream
  /\ StandbyBody(s, standby[s])
  /\ UNCHANGED <<op, chan, holder, activeChannel, device, edidVars>>

\* adev_close_output_stream(); audio flinger has ended the writing thread.
CloseStream(s) ==
  /\ op[s] = "idle" /\ holder = NoStream /\ FlingerFree
  /\ StandbyBody(s, FALSE)
  /\ op' = [op EXCEPT ![s] = "closed"]
  /\ UNCHANGED <<chan, holder, activeChannel, device, edidVars>>

Step(s) ==
  \/ LockOpen(s) \/ Written(s) \/ PcmNotReady(s)
  \/ \E p \in Pcms \ opened : PcmReady(s, p)

Next ==
  \/ Replug
  \/ \E s \in Streams :
       \/ Step(s) \/ OpenStream(s) \/ Write(s) \/ Standby(s) \/ CloseStream(s)
       \/ GetParameters(s)
       \/ \E d \in {0, 1} : SetParameters(s, d)

Spec == Init /\ [][Next]_vars

\* A call that has begun ends, a stream that is open goes on writing, and a
\* device that is tried again and again opens at last.
FairSpec ==
  /\ Spec
  /\ \A s \in Streams :
       /\ WF_vars(Step(s))
       /\ SF_vars(Write(s))
       /\ SF_vars(\E p \in Pcms \ opened : PcmReady(s, p))

-----------------------------------------------------------------------------
\* A stream that has its pcm closed under it by another one writes to the
\* closed pcm only when the stream that now plays has as many channels: the
\* comparison of the channels in out_write() catches every other one.
WritesToOpenPcm ==
  \A s \in Streams : op[s] = "writes" =>
    \/ pcm[s] \in opened
    \/ \E t \in Streams \ {s} : op[t] = "idle" /\ pcm[t] = activePcm /\ chan[t] = chan[s]

\* A stream that is the only one left open is heard, whatever the streams that
\* are gone did to its pcm.
SoleStreamHeard ==
  \A s \in Streams :
    <>[](\A t \in Streams : op[t] = "closed" <=> t # s)
      => []<>(op[s] = "writes" /\ pcm[s] = activePcm)
=============================================================================
