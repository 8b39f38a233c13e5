----------------------------- MODULE PcmStreams -----------------------------
(***************************************************************************)
(* The output streams of three audio HALs: HDMI and Wi-Di on alsa-lib      *)
(* (hdmiaudio/audio_hw.c, widiaudio/audio_hw.c), which share one pcm among *)
(* their streams and keep track of it in active_stream_out, and the USB    *)
(* dock on tinyalsa (usbdock/audio_hw.c), where a stream has its own.      *)
(*                                                                         *)
(* A call holds the lock of the device from its first look at the state to *)
(* its last change of it, so a call is one step.  Audio flinger does not   *)
(* write to a stream that it is closing.                                   *)
(***************************************************************************)
EXTENDS FiniteSets, Naturals, PcmAddresses

CONSTANT Hals  \* the HALs in question

ASSUME HalAssumption == Hals \subseteq {"hdmi", "widi", "usb"}

VARIABLES
  hal,       \* the HAL
  alive,     \* the streams that are open
  standby,   \* stream->standby
  dev,       \* active_stream_out, each stream's handle, and the open pcms
  heard,     \* the last write of a stream reached a pcm
  reopened,  \* history: a write has opened its pcm anew, after EBADFD
  down       \* the process has crashed

vars == <<hal, alive, standby, dev, heard, reopened, down>>

TypeOK ==
  /\ hal \in Hals
  /\ alive \subseteq Streams
  /\ standby \in [Streams -> BOOLEAN]
  /\ dev \in [active : Streams \cup {NoStream},
              handle : [Streams -> Pcms \cup {NoPcm, BadPcm}],
              opened : SUBSET Pcms]
  /\ heard \in [Streams -> BOOLEAN]
  /\ reopened \in BOOLEAN /\ down \in BOOLEAN

Init ==
  /\ hal \in Hals
  /\ alive = {} /\ standby = [s \in Streams |-> FALSE]
  /\ dev = [active |-> NoStream, handle |-> [s \in Streams |-> NoPcm], opened |-> {}]
  /\ heard = [s \in Streams |-> FALSE]
  /\ reopened = FALSE /\ down = FALSE

-----------------------------------------------------------------------------
(* The device.  The operators take a value of dev and return the next one,  *)
(* or the set of outcomes: a value of dev, and whether the call succeeded.  *)

\* Slip: the handle keeps the address of the closed pcm.
ClosedKeepingHandle(d, s) == [d EXCEPT !.opened = @ \ {d.handle[s]}]

\* snd_pcm_drain(), snd_pcm_close(), handle = NULL
Closed(d, s) == [d EXCEPT !.opened = @ \ {d.handle[s]}, !.handle[s] = NoPcm]

\* close_device(), and the beginning of open_device(): nobody is active after a
\* stream has closed its pcm, whichever stream was.
CloseDevice(d, s) ==
  IF d.handle[s] = NoPcm THEN d ELSE [Closed(d, s) EXCEPT !.active = NoStream]

\* The pcm of the active stream is closed.  On HDMI the stream stays active.
CloseActive(d) ==
  IF d.active = NoStream \/ d.handle[d.active] = NoPcm
    THEN d
    ELSE LET c == Closed(d, d.active) IN
         IF hal = "hdmi" THEN c ELSE [c EXCEPT !.active = NoStream]

\* Opening and configuring a pcm, in a way that works.
Opened(d, s) ==
  {[d EXCEPT !.opened = @ \cup {p}, !.handle[s] = p] : p \in Pcms \ d.opened}

\* open_device(): the stream's own pcm is closed, on HDMI the active stream's
\* too, before the pcm is opened and its parameters are set, which may fail.
OpenDevice(d, s) ==
  LET own  == CloseDevice(d, s)
      base == IF hal = "hdmi" THEN CloseActive(own) ELSE own IN
  {[dev |-> base, ok |-> FALSE]} \cup {[dev |-> e, ok |-> TRUE] : e \in Opened(base, s)}

\* start_output_stream()
StartOutputStream(d, s) ==
  {IF o.ok THEN [o EXCEPT !.dev.active = s] ELSE o : o \in OpenDevice(d, s)}

\* start_output_stream() of the USB dock: a pcm that is not ready is closed, and
\* its address stays in the stream.
StartUsb(d, s) ==
  {[dev |-> [d EXCEPT !.handle[s] = BadPcm], ok |-> FALSE]} \cup
  {[dev |-> e, ok |-> TRUE] : e \in Opened(d, s)}

Start(d, s) == IF hal = "usb" THEN StartUsb(d, s) ELSE StartOutputStream(d, s)

-----------------------------------------------------------------------------
(* The calls.                                                               *)

\* A new stream is filled with zeros, and the pcm that is playing is closed.
Allocated(s) == CloseActive([dev EXCEPT !.handle[s] = NoPcm])

\* open_output_stream() on alsa-lib starts the stream; one that does not start is
\* freed.
OpenStream(s) ==
  /\ ~down /\ hal # "usb" /\ s \notin alive
  /\ \E o \in StartOutputStream(Allocated(s), s) :
       /\ dev' = o.dev
       /\ alive' = IF o.ok THEN alive \cup {s} ELSE alive
  /\ standby' = [standby EXCEPT ![s] = FALSE]
  /\ heard' = [heard EXCEPT ![s] = FALSE]
  /\ UNCHANGED <<hal, reopened, down>>

\* On the USB dock a new stream starts with its first write.
OpenUsbStream(s) ==
  /\ hal = "usb" /\ s \notin alive
  /\ alive' = alive \cup {s}
  /\ standby' = [standby EXCEPT ![s] = TRUE]
  /\ dev' = [dev EXCEPT !.handle[s] = NoPcm]
  /\ heard' = [heard EXCEPT ![s] = FALSE]
  /\ UNCHANGED <<hal, reopened, down>>

\* Slip: a stream that lost its pcm does not start again.
MustStartOnce(s) == standby[s]

\* "previous stream closed- open again"
MustStart(s) == standby[s] \/ (hal # "usb" /\ dev.active = NoStream)

\* The write was not heard: no pcm, or an error that the loop gives up on.
Silent(s) == heard' = [heard EXCEPT ![s] = FALSE] /\ UNCHANGED reopened

\* The loop of out_write() with a pcm.  On alsa-lib EBADFD makes it open the pcm
\* anew and go on.
WriteLoop(d, s) ==
  \/ dev' = d /\ Silent(s)
  \/ dev' = d /\ heard' = [heard EXCEPT ![s] = TRUE] /\ UNCHANGED reopened
  \/ /\ hal # "usb"
     /\ \E o \in OpenDevice(d, s) :
          /\ dev' = o.dev
          /\ heard' \in {[heard EXCEPT ![s] = b] : b \in {o.ok, FALSE}}
          /\ reopened' = (reopened \/ o.ok)

\* out_write()
Write(s) ==
  /\ ~down /\ s \in alive
  /\ \E o \in IF MustStart(s) THEN Start(dev, s) ELSE {[dev |-> dev, ok |-> TRUE]} :
       \/ /\ ~o.ok
          /\ dev' = o.dev /\ standby' = [standby EXCEPT ![s] = TRUE] /\ Silent(s)
       \/ /\ o.ok /\ o.dev.handle[s] = NoPcm
          /\ dev' = o.dev /\ standby' = [standby EXCEPT ![s] = FALSE] /\ Silent(s)
       \/ /\ o.ok /\ o.dev.handle[s] # NoPcm
          /\ WriteLoop(o.dev, s) /\ standby' = [standby EXCEPT ![s] = FALSE]
  /\ UNCHANGED <<hal, alive, down>>

\* The pcm that standby gives up.
StoodBy(s) == IF hal = "usb" THEN Closed(dev, s) ELSE CloseDevice(dev, s)

\* out_standby()
Standby(s) ==
  /\ ~down /\ s \in alive
  /\ dev' = IF standby[s] THEN dev ELSE StoodBy(s)
  /\ standby' = [standby EXCEPT ![s] = TRUE]
  /\ UNCHANGED <<hal, alive, heard, reopened, down>>

\* close_output_stream(): on alsa-lib the pcm is closed whatever standby says.
CloseStream(s) ==
  /\ ~down /\ s \in alive
  /\ dev' = IF hal = "usb" /\ standby[s] THEN dev ELSE StoodBy(s)
  /\ alive' = alive \ {s}
  /\ UNCHANGED <<hal, standby, heard, reopened, down>>

\* The calls above read the handle of the active stream.  When that stream was
\* freed they find what it left there, or crash.
Crash ==
  /\ dev.active \notin alive \cup {NoStream}
  /\ down' = TRUE
  /\ UNCHANGED <<hal, alive, standby, dev, heard, reopened>>

Next ==
  \/ \E s \in Streams :
       OpenStream(s) \/ OpenUsbStream(s) \/ Write(s) \/ Standby(s) \/ CloseStream(s)
  \/ Crash

Spec == Init /\ [][Next]_vars

\* An open stream goes on writing, and a pcm that is opened or written to again
\* and again takes the sound in the end.
FairSpec == Spec /\ \A s \in Streams : SF_vars(Write(s) /\ heard'[s])

-----------------------------------------------------------------------------
(* Properties.                                                              *)

\* No pcm is lost and none is closed or written to after it was closed: an open
\* pcm is the handle of exactly one open stream, and a stream that is not in
\* standby has an open pcm or none.  (In standby a USB stream may have the
\* address of a pcm that was not ready; nobody uses it.)
EveryPcmHeld ==
  /\ \A p \in dev.opened : \E s \in alive : dev.handle[s] = p
  /\ \A s, t \in alive : dev.handle[s] \in Pcms /\ dev.handle[s] = dev.handle[t] => s = t
  /\ \A s \in alive : ~standby[s] => dev.handle[s] \in dev.opened \cup {NoPcm}

\* "a single stream being fed to renderer": while no write had to open its pcm
\* anew, the streams of HDMI have one open pcm at most, whatever fails and in
\* whatever order streams are opened, stood by and closed.  (On Wi-Di a stream
\* that was replaced and did not stand by opens a second pcm.)
OneFed == hal = "hdmi" /\ ~reopened => Cardinality(dev.opened) <= 1

\* On Wi-Di active_stream_out, when it is set, is an open stream with its pcm.
ActiveHasPcm ==
  hal = "widi" /\ dev.active # NoStream =>
    dev.active \in alive /\ dev.handle[dev.active] \in dev.opened

\* A stream of Wi-Di or of the USB dock that is left alone is heard again and
\* again, also when its pcm was taken by a stream that is gone.
SoleStreamHeard ==
  hal # "hdmi" => \A s \in Streams : <>[](alive = {s}) => []<>heard[s]

\* The same of HDMI: a stream whose pcm was closed for another one that failed to
\* open is heard again ("previous stream closed- open again").  It does not hold.
SilencedStreamHeard ==
  hal = "hdmi" => \A s \in Streams : <>[](alive = {s} /\ ~down) => []<>heard[s]
=============================================================================
