------------------------ MODULE AudioStreams_proofs ------------------------
(***************************************************************************)
(* Proofs about the streams of the four audio HALs, for any streams and    *)
(* pcms.  PcmStreams: no pcm is lost or shared, active_stream_out of Wi-Di *)
(* has its pcm, and HDMI feeds one pcm.  TinyHdmiAudio, of which this      *)
(* module has an instance Tiny over the same streams and pcms: one pcm is  *)
(* open at a time, and streams that are told apart by their channel counts *)
(* never write to a closed pcm.                                            *)
(***************************************************************************)
EXTENDS PcmStreams, ActivePcm, FiniteSetTheorems, TLAPS

Dev == [active : Streams \cup {NoStream},
        handle : [Streams -> Pcms \cup {NoPcm, BadPcm}],
        opened : SUBSET Pcms]

\* Handles and open pcms are the same thing, one to one.
Sound(d) ==
  /\ d \in Dev
  /\ \A s \in Streams : d.handle[s] \in d.opened \cup {NoPcm, BadPcm}
  /\ \A s, t \in Streams : d.handle[s] \in Pcms /\ d.handle[s] = d.handle[t] => s = t
  /\ \A p \in d.opened : \E s \in Streams : d.handle[s] = p

\* What active_stream_out says on Wi-Di, and that alsa-lib has no bad pcm.
Tracked(d) ==
  /\ hal # "usb" => \A s \in Streams : d.handle[s] # BadPcm
  /\ hal = "widi" /\ d.active # NoStream => d.handle[d.active] \in d.opened

\* On HDMI whatever is open is the pcm of active_stream_out.
Fed(d) == hal = "hdmi" => \A p \in d.opened : d.active # NoStream /\ d.handle[d.active] = p

\* The handles of all streams, or all but one, are kept or given up.
Shrinks(d, e) == \A t \in Streams : e.handle[t] \in {d.handle[t], NoPcm}
OthersShrink(d, e, s) == \A t \in Streams \ {s} : e.handle[t] \in {d.handle[t], NoPcm}

\* A stream with a pcm is open and not in standby; one with a pcm that was not
\* ready is in standby.
Held ==
  \A s \in Streams :
    /\ dev.handle[s] \in Pcms => s \in alive /\ ~standby[s]
    /\ s \in alive /\ ~standby[s] => dev.handle[s] # BadPcm

IInv == TypeOK /\ Sound(dev) /\ Tracked(dev) /\ (~reopened => Fed(dev)) /\ Held

-----------------------------------------------------------------------------
(* What the operators on the device do.                                     *)

LEMMA ClosedFacts ==
  ASSUME NEW STATE d, Sound(d), NEW s \in Streams
  PROVE  /\ Sound(Closed(d, s))
         /\ Closed(d, s).active = d.active
         /\ Closed(d, s).handle = [d.handle EXCEPT ![s] = NoPcm]
         /\ Closed(d, s).opened = d.opened \ {d.handle[s]}
<1> USE PcmAssumption
<1>1. /\ Closed(d, s).active = d.active
      /\ Closed(d, s).handle = [d.handle EXCEPT ![s] = NoPcm]
      /\ Closed(d, s).opened = d.opened \ {d.handle[s]}
      /\ Closed(d, s) \in Dev
  BY DEF Sound, Dev, Closed
<1>2. Sound(Closed(d, s))
  BY <1>1 DEF Sound, Dev
<1>. QED BY <1>1, <1>2

LEMMA CloseDeviceFacts ==
  ASSUME NEW STATE d, Sound(d), Tracked(d), NEW s \in Streams, hal # "usb"
  PROVE  LET e == CloseDevice(d, s) IN
         /\ Sound(e) /\ Tracked(e) /\ (Fed(d) => Fed(e))
         /\ Shrinks(d, e) /\ e.handle[s] = NoPcm
         /\ hal = "widi" => e.active # s
<1> USE PcmAssumption, StreamAssumption
<1> DEFINE c == Closed(d, s)
           e == CloseDevice(d, s)
<1>1. CASE d.handle[s] = NoPcm
  BY <1>1 DEF CloseDevice, Tracked, Shrinks, Sound, Dev
<1>2. CASE d.handle[s] # NoPcm
  <2>1. /\ e.active = NoStream
        /\ e.handle = [d.handle EXCEPT ![s] = NoPcm]
        /\ e.opened = d.opened \ {d.handle[s]}
        /\ e \in Dev
    BY <1>2, ClosedFacts DEF CloseDevice, Sound, Dev
  <2>2. Sound(e)
    BY <2>1 DEF Sound, Dev
  <2>3. Tracked(e) /\ Shrinks(d, e) /\ e.handle[s] = NoPcm /\ e.active # s
    BY <2>1 DEF Tracked, Shrinks, Sound, Dev
  <2>4. ASSUME Fed(d) PROVE Fed(e)
    <3> SUFFICES ASSUME hal = "hdmi" PROVE e.opened = {}
      BY DEF Fed
    <3>1. d.handle[s] \in d.opened
      BY <1>2 DEF Sound, Tracked
    <3>2. \A p \in d.opened : p = d.handle[d.active]
      BY <2>4 DEF Fed
    <3>. QED BY <2>1, <3>1, <3>2
  <2>. QED BY <2>2, <2>3, <2>4
<1>. QED BY <1>1, <1>2

LEMMA CloseActiveFacts ==
  ASSUME NEW STATE d, Sound(d), Tracked(d)
  PROVE  LET e == CloseActive(d) IN
         /\ Sound(e) /\ Tracked(e) /\ Shrinks(d, e)
         /\ hal = "widi" => e.active = NoStream
         /\ hal = "hdmi" /\ Fed(d) => e.opened = {}
<1> USE PcmAssumption, StreamAssumption
<1> DEFINE c == Closed(d, d.active)
           e == CloseActive(d)
<1>1. CASE d.active = NoStream \/ d.handle[d.active] = NoPcm
  <2>1. e = d
    BY <1>1 DEF CloseActive
  <2>2. hal = "widi" => d.active = NoStream
    BY <1>1 DEF Tracked, Sound, Dev
  <2>3. hal = "hdmi" /\ Fed(d) => d.opened = {}
    BY <1>1 DEF Fed, Sound, Dev
  <2>. QED BY <2>1, <2>2, <2>3 DEF Shrinks
<1>2. CASE d.active # NoStream /\ d.handle[d.active] # NoPcm
  <2>1. d.active \in Streams
    BY <1>2 DEF Sound, Dev
  <2>2. /\ e.active = IF hal = "hdmi" THEN d.active ELSE NoStream
        /\ e.handle = [d.handle EXCEPT ![d.active] = NoPcm]
        /\ e.opened = d.opened \ {d.handle[d.active]}
        /\ e \in Dev
    BY <1>2, <2>1, ClosedFacts DEF CloseActive, Sound, Dev
  <2>3. Sound(e)
    BY <2>1, <2>2 DEF Sound, Dev
  <2>4. Tracked(e) /\ Shrinks(d, e) /\ (hal = "widi" => e.active = NoStream)
    BY <2>1, <2>2 DEF Tracked, Shrinks, Sound, Dev
  <2>5. hal = "hdmi" /\ Fed(d) => e.opened = {}
    BY <2>2 DEF Fed
  <2>. QED BY <2>3, <2>4, <2>5
<1>. QED BY <1>1, <1>2

LEMMA OpenedFacts ==
  ASSUME NEW STATE d, Sound(d), NEW s \in Streams, d.handle[s] \notin Pcms, NEW e \in Opened(d, s)
  PROVE  /\ Sound(e)
         /\ e.active = d.active
         /\ e.handle = [d.handle EXCEPT ![s] = e.handle[s]]
         /\ e.handle[s] \in Pcms
         /\ e.opened = d.opened \cup {e.handle[s]}
<1> USE PcmAssumption
<1>1. PICK p \in Pcms \ d.opened : e = [d EXCEPT !.opened = @ \cup {p}, !.handle[s] = p]
  BY DEF Opened
<1>2. /\ e.active = d.active
      /\ e.handle = [d.handle EXCEPT ![s] = p]
      /\ e.opened = d.opened \cup {p}
      /\ e \in Dev /\ e.handle[s] = p
  BY <1>1 DEF Sound, Dev
<1>3. Sound(e)
  BY <1>2 DEF Sound, Dev
<1>. QED BY <1>2, <1>3

\* After open_device() the stream has a pcm or none, and nobody else gained one.
LEMMA OpenDeviceFacts ==
  ASSUME NEW STATE d, Sound(d), Tracked(d), NEW s \in Streams, hal # "usb",
         NEW o \in OpenDevice(d, s)
  PROVE  /\ Sound(o.dev) /\ Tracked(o.dev) /\ OthersShrink(d, o.dev, s)
         /\ ~o.ok => o.dev.handle[s] = NoPcm /\ (Fed(d) => Fed(o.dev))
         /\ o.ok => o.dev.handle[s] \in Pcms
         /\ o.ok /\ hal = "hdmi" /\ Fed(d) => o.dev.opened = {o.dev.handle[s]}
         /\ o.ok \in BOOLEAN
<1> USE PcmAssumption, StreamAssumption
<1> DEFINE own == CloseDevice(d, s)
           base == IF hal = "hdmi" THEN CloseActive(own) ELSE own
<1>1. /\ Sound(own) /\ Tracked(own) /\ (Fed(d) => Fed(own))
      /\ Shrinks(d, own) /\ own.handle[s] = NoPcm
      /\ hal = "widi" => own.active # s
  BY CloseDeviceFacts
<1>2. hal = "hdmi" => /\ Sound(CloseActive(own)) /\ Tracked(CloseActive(own))
                      /\ Shrinks(own, CloseActive(own))
                      /\ Fed(own) => CloseActive(own).opened = {}
  <2> HIDE DEF own
  <2>. QED BY <1>1, CloseActiveFacts
<1>3. /\ Sound(base) /\ Tracked(base) /\ Shrinks(d, base) /\ base.handle[s] = NoPcm
      /\ hal = "widi" => base.active # s
      /\ hal = "hdmi" /\ Fed(d) => base.opened = {}
  <2> HIDE DEF own
  <2>. QED BY <1>1, <1>2 DEF Shrinks
<1>4. \/ o = [dev |-> base, ok |-> FALSE]
      \/ \E e \in Opened(base, s) : o = [dev |-> e, ok |-> TRUE]
  BY DEF OpenDevice
<1> HIDE DEF base
<1>5. CASE o = [dev |-> base, ok |-> FALSE]
  <2>1. o.dev = base /\ o.ok = FALSE
    BY <1>5
  <2>. QED BY <2>1, <1>3 DEF Fed, Shrinks, OthersShrink
<1>6. ASSUME NEW e \in Opened(base, s), o = [dev |-> e, ok |-> TRUE]
      PROVE  /\ Sound(e) /\ Tracked(e) /\ OthersShrink(d, e, s)
             /\ e.handle[s] \in Pcms
             /\ hal = "hdmi" /\ Fed(d) => e.opened = {e.handle[s]}
  <2>1. /\ Sound(e) /\ e.active = base.active
        /\ e.handle = [base.handle EXCEPT ![s] = e.handle[s]]
        /\ e.handle[s] \in Pcms
        /\ e.opened = base.opened \cup {e.handle[s]}
    BY <1>3, OpenedFacts
  <2>2. OthersShrink(d, e, s)
    BY <1>3, <2>1 DEF Shrinks, OthersShrink, Sound, Dev
  <2>3. Tracked(e)
    BY <1>3, <2>1 DEF Tracked, Sound, Dev
  <2>. QED BY <1>3, <2>1, <2>2, <2>3
<1>7. CASE \E e \in Opened(base, s) : o = [dev |-> e, ok |-> TRUE]
  <2>1. PICK e \in Opened(base, s) : o = [dev |-> e, ok |-> TRUE]
    BY <1>7
  <2>2. o.dev = e /\ o.ok = TRUE
    BY <2>1
  <2>. QED BY <2>1, <2>2, <1>6
<1>. QED BY <1>4, <1>5, <1>7

\* start_output_stream() of all three HALs.
LEMMA StartFacts ==
  ASSUME NEW STATE d, Sound(d), Tracked(d), NEW s \in Streams,
         hal = "usb" => d.handle[s] \notin Pcms,
         NEW o \in Start(d, s)
  PROVE  /\ Sound(o.dev) /\ Tracked(o.dev) /\ (Fed(d) => Fed(o.dev))
         /\ OthersShrink(d, o.dev, s)
         /\ ~o.ok => o.dev.handle[s] \in {NoPcm, BadPcm}
         /\ o.ok => o.dev.handle[s] \in Pcms
         /\ o.ok \in BOOLEAN
<1> USE PcmAssumption, StreamAssumption
<1>1. CASE hal = "usb"
  <2>1. CASE o = [dev |-> [d EXCEPT !.handle[s] = BadPcm], ok |-> FALSE]
    <3>1. /\ o.dev.handle = [d.handle EXCEPT ![s] = BadPcm] /\ o.dev.opened = d.opened
          /\ o.dev \in Dev /\ o.ok = FALSE
      BY <2>1 DEF Sound, Dev
    <3>2. Sound(o.dev)
      BY <1>1, <3>1 DEF Sound, Dev
    <3>3. OthersShrink(d, o.dev, s) /\ o.dev.handle[s] = BadPcm
      BY <3>1 DEF OthersShrink, Sound, Dev
    <3>. QED BY <1>1, <3>1, <3>2, <3>3 DEF Tracked, Fed
  <2>2. ASSUME NEW e \in Opened(d, s), o = [dev |-> e, ok |-> TRUE]
        PROVE  Sound(o.dev) /\ OthersShrink(d, o.dev, s) /\ o.dev.handle[s] \in Pcms /\ o.ok = TRUE
    <3>1. /\ Sound(e) /\ e.handle[s] \in Pcms
          /\ e.handle = [d.handle EXCEPT ![s] = e.handle[s]]
      BY <1>1, OpenedFacts
    <3>2. OthersShrink(d, e, s)
      BY <3>1 DEF OthersShrink, Sound, Dev
    <3>3. o.dev = e /\ o.ok = TRUE
      BY <2>2
    <3>. QED BY <3>1, <3>2, <3>3
  <2>3. \/ o = [dev |-> [d EXCEPT !.handle[s] = BadPcm], ok |-> FALSE]
        \/ \E e \in Opened(d, s) : o = [dev |-> e, ok |-> TRUE]
    BY <1>1 DEF Start, StartUsb
  <2>. QED BY <1>1, <2>1, <2>2, <2>3 DEF Tracked, Fed
<1>2. CASE hal # "usb"
  <2>1. PICK q \in OpenDevice(d, s) : o = IF q.ok THEN [q EXCEPT !.dev.active = s] ELSE q
    BY <1>2 DEF Start, StartOutputStream
  <2>2. /\ Sound(q.dev) /\ Tracked(q.dev) /\ OthersShrink(d, q.dev, s)
        /\ ~q.ok => q.dev.handle[s] = NoPcm /\ (Fed(d) => Fed(q.dev))
        /\ q.ok => q.dev.handle[s] \in Pcms
        /\ q.ok /\ hal = "hdmi" /\ Fed(d) => q.dev.opened = {q.dev.handle[s]}
        /\ q.ok \in BOOLEAN
    BY <1>2, OpenDeviceFacts
  <2>3. CASE ~q.ok
    BY <2>1, <2>2, <2>3
  <2>4. CASE q.ok
    <3>1. /\ o.dev.handle = q.dev.handle /\ o.dev.opened = q.dev.opened
          /\ o.dev.active = s /\ o.dev \in Dev /\ o.ok = q.ok
      <4>1. q \in [dev : Dev, ok : BOOLEAN]
        BY <2>2 DEF Sound, OpenDevice
      <4>. QED BY <2>1, <2>4, <4>1 DEF Dev
    <3>2. Sound(o.dev) /\ OthersShrink(d, o.dev, s)
      BY <2>2, <3>1 DEF Sound, OthersShrink
    <3>3. Tracked(o.dev) /\ (Fed(d) => Fed(o.dev))
      BY <2>2, <2>4, <3>1 DEF Tracked, Fed, Sound, Dev
    <3>. QED BY <2>2, <2>4, <3>1, <3>2, <3>3
  <2>. QED BY <2>3, <2>4
<1>. QED BY <1>1, <1>2

-----------------------------------------------------------------------------
(* The invariant.                                                           *)

LEMMA InitInv == Init => IInv
<1> USE HalAssumption, PcmAssumption, StreamAssumption
<1> SUFFICES ASSUME Init PROVE IInv
  OBVIOUS
<1>1. TypeOK
  BY DEF Init, TypeOK
<1>2. dev.active = NoStream /\ dev.handle = [s \in Streams |-> NoPcm] /\ dev.opened = {}
  BY DEF Init
<1>3. Sound(dev)
  BY <1>1, <1>2 DEF Sound, Dev, TypeOK
<1>4. Tracked(dev) /\ Fed(dev) /\ Held
  BY <1>2 DEF Tracked, Fed, Held
<1>. QED BY <1>1, <1>3, <1>4 DEF IInv

\* A step after which the stream s has a pcm only if it is open and not in standby,
\* and the others have no more than before, keeps Held.
LEMMA HeldStep ==
  ASSUME IInv, NEW s \in Streams, OthersShrink(dev, dev', s),
         alive' \in {alive, alive \cup {s}, alive \ {s}},
         \A t \in Streams \ {s} : standby'[t] = standby[t],
         dev'.handle[s] \in Pcms => s \in alive' /\ ~standby'[s],
         s \in alive' /\ ~standby'[s] => dev'.handle[s] # BadPcm
  PROVE  Held'
BY PcmAssumption DEF IInv, Held, OthersShrink, TypeOK

LEMMA OpenStep ==
  ASSUME IInv, NEW s \in Streams, OpenStream(s) PROVE IInv'
<1> USE PcmAssumption, StreamAssumption
<1> DEFINE d == [dev EXCEPT !.handle[s] = NoPcm]
           a == Allocated(s)
<1>1. hal # "usb" /\ s \notin alive /\ hal' = hal /\ reopened' = reopened /\ down' = down
  BY DEF OpenStream
<1>2. d.active = dev.active /\ d.handle = [dev.handle EXCEPT ![s] = NoPcm]
      /\ d.opened = dev.opened /\ d \in Dev
  BY DEF IInv, Sound, Dev
<1>3. dev.handle[s] \notin Pcms
  BY <1>1 DEF IInv, Held
<1>4. Sound(d)
  BY <1>2, <1>3 DEF IInv, Sound, Dev
<1>5. Tracked(d)
  BY <1>2, <1>3 DEF IInv, Tracked, Sound, Dev
<1>6. Fed(dev) => Fed(d)
  BY <1>2, <1>3 DEF Fed, IInv, Sound, Dev
<1>7. Shrinks(dev, d)
  BY <1>2 DEF Shrinks, IInv, Sound, Dev
<1>8. /\ Sound(a) /\ Tracked(a) /\ Shrinks(d, a)
      /\ hal = "hdmi" /\ Fed(d) => a.opened = {}
  <2> HIDE DEF d
  <2>1. a = CloseActive(d)
    BY DEF Allocated, d
  <2>. QED BY <1>4, <1>5, <2>1, CloseActiveFacts
<1>9. /\ Shrinks(dev, a)
      /\ Fed(dev) => Fed(a)
  BY <1>6, <1>7, <1>8 DEF Shrinks, Fed
<1> HIDE DEF d, a
<1>10. PICK o \in StartOutputStream(a, s) :
         dev' = o.dev /\ alive' = IF o.ok THEN alive \cup {s} ELSE alive
  BY DEF OpenStream, a
<1>11. o \in Start(a, s)
  BY <1>1, <1>10 DEF Start
<1>12. /\ Sound(dev') /\ Tracked(o.dev) /\ (Fed(a) => Fed(o.dev))
       /\ OthersShrink(a, dev', s)
       /\ ~o.ok => dev'.handle[s] \in {NoPcm, BadPcm}
       /\ o.ok => dev'.handle[s] \in Pcms
  BY <1>1, <1>8, <1>10, <1>11, StartFacts
<1>13. standby' = [standby EXCEPT ![s] = FALSE] /\ heard' = [heard EXCEPT ![s] = FALSE]
  BY DEF OpenStream
<1>14. TypeOK'
  <2>1. dev' \in Dev
    BY <1>12 DEF Sound
  <2>2. alive' \subseteq Streams
    BY <1>10 DEF IInv, TypeOK
  <2>3. standby' \in [Streams -> BOOLEAN] /\ heard' \in [Streams -> BOOLEAN]
    BY <1>13 DEF IInv, TypeOK
  <2>. QED BY <1>1, <2>1, <2>2, <2>3 DEF IInv, TypeOK, Dev
<1>15. Tracked(dev)' /\ (~reopened' => Fed(dev)')
  BY <1>1, <1>9, <1>10, <1>12 DEF IInv, Tracked, Fed
<1>16. OthersShrink(dev, dev', s)
  BY <1>9, <1>12 DEF Shrinks, OthersShrink
<1>17. /\ \A t \in Streams \ {s} : standby'[t] = standby[t]
       /\ ~standby'[s]
  BY <1>13 DEF IInv, TypeOK
<1>18. dev'.handle[s] \in Pcms => s \in alive'
  BY <1>10, <1>12
<1>19. s \in alive' => dev'.handle[s] # BadPcm
  BY <1>1, <1>10, <1>12
<1>20. alive' \in {alive, alive \cup {s}}
  BY <1>10
<1>21. Held'
  BY <1>16, <1>17, <1>18, <1>19, <1>20, HeldStep
<1>. QED BY <1>12, <1>14, <1>15, <1>21 DEF IInv

LEMMA OpenUsbStep ==
  ASSUME IInv, NEW s \in Streams, OpenUsbStream(s) PROVE IInv'
<1> USE PcmAssumption, StreamAssumption
<1>1. /\ hal = "usb" /\ s \notin alive /\ alive' = alive \cup {s}
      /\ standby' = [standby EXCEPT ![s] = TRUE] /\ heard' = [heard EXCEPT ![s] = FALSE]
      /\ hal' = hal /\ reopened' = reopened /\ down' = down
  BY DEF OpenUsbStream
<1>2. /\ dev'.active = dev.active /\ dev'.handle = [dev.handle EXCEPT ![s] = NoPcm]
      /\ dev'.opened = dev.opened /\ dev' \in Dev
  BY DEF OpenUsbStream, IInv, Sound, Dev
<1>3. dev.handle[s] \notin Pcms
  BY <1>1 DEF IInv, Held
<1>4. Sound(dev')
  BY <1>2, <1>3 DEF IInv, Sound, Dev
<1>5. Tracked(dev)' /\ Fed(dev)'
  BY <1>1 DEF Tracked, Fed
<1>6. TypeOK'
  BY <1>1, <1>2 DEF IInv, TypeOK, Dev
<1>7. OthersShrink(dev, dev', s) /\ dev'.handle[s] = NoPcm
  BY <1>2 DEF OthersShrink, IInv, Sound, Dev
<1>8. /\ \A t \in Streams \ {s} : standby'[t] = standby[t]
      /\ standby'[s]
  BY <1>1 DEF IInv, TypeOK
<1>9. Held'
  BY <1>1, <1>7, <1>8, HeldStep
<1>. QED BY <1>4, <1>5, <1>6, <1>9 DEF IInv

LEMMA WriteStep ==
  ASSUME IInv, NEW s \in Streams, Write(s) PROVE IInv'
<1> USE PcmAssumption, StreamAssumption
<1>1. s \in alive /\ hal' = hal /\ alive' = alive /\ down' = down
  BY DEF Write
<1>2. PICK o \in IF MustStart(s) THEN Start(dev, s) ELSE {[dev |-> dev, ok |-> TRUE]} :
        \/ /\ ~o.ok
           /\ dev' = o.dev /\ standby' = [standby EXCEPT ![s] = TRUE] /\ Silent(s)
        \/ /\ o.ok /\ o.dev.handle[s] = NoPcm
           /\ dev' = o.dev /\ standby' = [standby EXCEPT ![s] = FALSE] /\ Silent(s)
        \/ /\ o.ok /\ o.dev.handle[s] # NoPcm
           /\ WriteLoop(o.dev, s) /\ standby' = [standby EXCEPT ![s] = FALSE]
  BY DEF Write
<1>3. /\ Sound(o.dev) /\ Tracked(o.dev) /\ (Fed(dev) => Fed(o.dev))
      /\ OthersShrink(dev, o.dev, s)
      /\ ~o.ok => o.dev.handle[s] \in {NoPcm, BadPcm}
      /\ o.ok => o.dev.handle[s] \in Pcms \cup {NoPcm}
  <2>1. CASE MustStart(s)
    <3>1. o \in Start(dev, s)
      BY <1>2, <2>1
    <3>2. hal = "usb" => dev.handle[s] \notin Pcms
      BY <2>1 DEF MustStart, IInv, Held
    <3>3. Sound(dev) /\ Tracked(dev)
      BY DEF IInv
    <3>. QED BY <3>1, <3>2, <3>3, StartFacts
  <2>2. CASE ~MustStart(s)
    <3>1. o.dev = dev /\ o.ok = TRUE
      BY <1>2, <2>2
    <3>2. ~standby[s]
      BY <2>2 DEF MustStart
    <3>3. dev.handle[s] \in Pcms \cup {NoPcm}
      BY <1>1, <3>2 DEF IInv, Held, Sound, Dev
    <3>4. OthersShrink(dev, dev, s)
      BY DEF OthersShrink
    <3>. QED BY <3>1, <3>3, <3>4 DEF IInv
  <2>. QED BY <2>1, <2>2
\* The three ways to end: each leaves the handle that goes with standby.
<1>4. /\ Sound(dev') /\ Tracked(dev)' /\ (~reopened' => Fed(dev)')
      /\ OthersShrink(dev, dev', s)
      /\ heard' \in [Streams -> BOOLEAN] /\ reopened' \in BOOLEAN
      /\ \/ standby' = [standby EXCEPT ![s] = TRUE] /\ dev'.handle[s] \in {NoPcm, BadPcm}
         \/ standby' = [standby EXCEPT ![s] = FALSE] /\ dev'.handle[s] \in Pcms \cup {NoPcm}
  <2>1. ASSUME dev' = o.dev, reopened' = reopened
        PROVE  Sound(dev') /\ Tracked(dev)' /\ (~reopened' => Fed(dev)') /\ OthersShrink(dev, dev', s)
    BY <1>1, <1>3, <2>1 DEF IInv, Tracked, Fed
  <2>2. Silent(s) => heard' \in [Streams -> BOOLEAN] /\ reopened' = reopened
    BY DEF Silent, IInv, TypeOK
  <2>3. reopened \in BOOLEAN
    BY DEF IInv, TypeOK
  <2>4. CASE ~o.ok /\ dev' = o.dev /\ standby' = [standby EXCEPT ![s] = TRUE] /\ Silent(s)
    BY <1>3, <2>1, <2>2, <2>3, <2>4
  <2>5. CASE o.ok /\ dev' = o.dev /\ standby' = [standby EXCEPT ![s] = FALSE] /\ Silent(s)
    BY <1>3, <2>1, <2>2, <2>3, <2>5
  <2>6. CASE /\ o.ok /\ WriteLoop(o.dev, s)
             /\ standby' = [standby EXCEPT ![s] = FALSE]
    <3>1. CASE dev' = o.dev /\ Silent(s)
      BY <1>3, <2>1, <2>2, <2>3, <2>6, <3>1
    <3>2. CASE /\ dev' = o.dev /\ heard' = [heard EXCEPT ![s] = TRUE]
               /\ UNCHANGED reopened
      <4>1. heard' \in [Streams -> BOOLEAN]
        BY <3>2 DEF IInv, TypeOK
      <4>. QED BY <1>3, <2>1, <2>3, <2>6, <3>2, <4>1
    <3>3. CASE /\ hal # "usb"
               /\ \E q \in OpenDevice(o.dev, s) :
                    /\ dev' = q.dev
                    /\ heard' \in {[heard EXCEPT ![s] = b] : b \in {q.ok, FALSE}}
                    /\ reopened' = (reopened \/ q.ok)
      <4>1. PICK q \in OpenDevice(o.dev, s) :
                    /\ dev' = q.dev
                    /\ heard' \in {[heard EXCEPT ![s] = b] : b \in {q.ok, FALSE}}
                    /\ reopened' = (reopened \/ q.ok)
        BY <3>3
      <4>2. /\ Sound(q.dev) /\ Tracked(q.dev) /\ OthersShrink(o.dev, q.dev, s)
            /\ ~q.ok => q.dev.handle[s] = NoPcm /\ (Fed(o.dev) => Fed(q.dev))
            /\ q.ok => q.dev.handle[s] \in Pcms
            /\ q.ok \in BOOLEAN
        BY <1>3, <3>3, OpenDeviceFacts
      <4>3. heard' \in [Streams -> BOOLEAN]
        <5>1. PICK b \in {q.ok, FALSE} : heard' = [heard EXCEPT ![s] = b]
          BY <4>1
        <5>2. b \in BOOLEAN
          BY <4>2
        <5>. QED BY <5>1, <5>2 DEF IInv, TypeOK
      <4>4. reopened' \in BOOLEAN
        BY <2>3, <4>1, <4>2
      <4>5. OthersShrink(dev, dev', s)
        BY <1>3, <4>1, <4>2 DEF OthersShrink
      <4>6. ~reopened' => Fed(q.dev)
        <5> SUFFICES ASSUME ~reopened' PROVE Fed(q.dev)
          OBVIOUS
        <5>1. ~reopened /\ ~q.ok
          BY <4>1
        <5>. QED BY <1>3, <4>2, <5>1 DEF IInv
      <4>7. Tracked(dev)' /\ (~reopened' => Fed(dev)')
        BY <1>1, <4>1, <4>2, <4>6 DEF Tracked, Fed
      <4>. QED BY <2>6, <4>1, <4>2, <4>3, <4>4, <4>5, <4>7
    <3>. QED BY <2>6, <3>1, <3>2, <3>3 DEF WriteLoop
  <2>. QED BY <1>2, <2>4, <2>5, <2>6
<1>5. standby' \in [Streams -> BOOLEAN] /\ \A t \in Streams \ {s} : standby'[t] = standby[t]
  BY <1>4 DEF IInv, TypeOK
<1>6. TypeOK'
  BY <1>1, <1>4, <1>5 DEF IInv, TypeOK, Sound, Dev
<1>7. /\ dev'.handle[s] \in Pcms => s \in alive' /\ ~standby'[s]
      /\ s \in alive' /\ ~standby'[s] => dev'.handle[s] # BadPcm
  BY <1>1, <1>4 DEF IInv, TypeOK
<1>8. Held'
  BY <1>1, <1>4, <1>5, <1>7, HeldStep
<1>. QED BY <1>4, <1>6, <1>8 DEF IInv

\* The pcm that standby gives up is gone afterwards.
LEMMA StoodByFacts ==
  ASSUME IInv, NEW s \in alive, hal = "usb" => ~standby[s]
  PROVE  /\ Sound(StoodBy(s)) /\ Tracked(StoodBy(s)) /\ (Fed(dev) => Fed(StoodBy(s)))
         /\ Shrinks(dev, StoodBy(s)) /\ StoodBy(s).handle[s] = NoPcm
<1>1. s \in Streams /\ Sound(dev) /\ Tracked(dev)
  BY DEF IInv, TypeOK
<1>2. CASE hal = "usb"
  <2>1. /\ Sound(StoodBy(s))
        /\ StoodBy(s).handle = [dev.handle EXCEPT ![s] = NoPcm]
    BY <1>1, <1>2, ClosedFacts DEF StoodBy
  <2>. QED BY <1>1, <1>2, <2>1 DEF Tracked, Fed, Shrinks, Sound, Dev
<1>3. CASE hal # "usb"
  BY <1>1, <1>3, CloseDeviceFacts DEF StoodBy
<1>. QED BY <1>2, <1>3

LEMMA StandbyStep ==
  ASSUME IInv, NEW s \in Streams, Standby(s) \/ CloseStream(s) PROVE IInv'
<1> USE PcmAssumption, StreamAssumption
<1>1. /\ s \in alive /\ alive' \in {alive, alive \ {s}}
      /\ standby' \in {standby, [standby EXCEPT ![s] = TRUE]}
      /\ hal' = hal /\ heard' = heard /\ reopened' = reopened /\ down' = down
      /\ \/ dev' = dev /\ standby[s]
         \/ dev' = StoodBy(s) /\ (hal = "usb" => ~standby[s])
  BY DEF Standby, CloseStream
<1>2. s \in alive' => standby'[s]
  BY DEF Standby, CloseStream, IInv, TypeOK
<1>3. /\ Sound(dev') /\ Tracked(dev)' /\ (~reopened' => Fed(dev)')
      /\ OthersShrink(dev, dev', s) /\ dev'.handle[s] \notin Pcms
  <2>1. CASE dev' = dev /\ standby[s]
    BY <1>1, <2>1 DEF IInv, Tracked, Fed, OthersShrink, Held
  <2>2. CASE dev' = StoodBy(s) /\ (hal = "usb" => ~standby[s])
    <3>1. /\ Sound(StoodBy(s)) /\ Tracked(StoodBy(s)) /\ (Fed(dev) => Fed(StoodBy(s)))
          /\ Shrinks(dev, StoodBy(s)) /\ StoodBy(s).handle[s] = NoPcm
      BY <1>1, <2>2, StoodByFacts
    <3> DEFINE e == StoodBy(s)
    <3>2. /\ dev' = e /\ Sound(e) /\ Tracked(e) /\ (Fed(dev) => Fed(e))
          /\ Shrinks(dev, e) /\ e.handle[s] = NoPcm
      BY <2>2, <3>1
    <3> HIDE DEF e
    <3>. QED BY <1>1, <3>2 DEF IInv, Tracked, Fed, Shrinks, OthersShrink
  <2>. QED BY <1>1, <2>1, <2>2
<1>4. TypeOK'
  BY <1>1, <1>3 DEF IInv, TypeOK, Sound, Dev
<1>5. \A t \in Streams \ {s} : standby'[t] = standby[t]
  BY <1>1 DEF IInv, TypeOK
<1>6. Held'
  BY <1>1, <1>2, <1>3, <1>5, HeldStep
<1>. QED BY <1>3, <1>4, <1>6 DEF IInv

LEMMA Step == ASSUME IInv, [Next]_vars PROVE IInv'
<1> USE DEF IInv, Tracked, Fed, Held
<1>1. CASE UNCHANGED vars
  BY <1>1 DEF vars, TypeOK, Sound, Dev
<1>2. CASE Crash
  BY <1>2 DEF Crash, TypeOK, Sound, Dev
<1>3. ASSUME NEW s \in Streams,
             OpenStream(s) \/ OpenUsbStream(s) \/ Write(s) \/ Standby(s) \/ CloseStream(s)
      PROVE  IInv'
  BY <1>3, OpenStep, OpenUsbStep, WriteStep, StandbyStep
<1>. QED BY <1>1, <1>2, <1>3 DEF Next

-----------------------------------------------------------------------------
(* The theorems.                                                            *)

\* The handles of the streams and the open pcms stay one to one, and
\* active_stream_out says what each HAL relies on, whatever opens fail.
THEOREM Invariance == Spec => []IInv
BY InitInv, Step, PTL DEF Spec

\* No pcm is lost, shared or used after it was closed, for any number of streams.
THEOREM EveryPcmHeldHolds == Spec => []EveryPcmHeld
<1>1. IInv => EveryPcmHeld
  BY PcmAssumption DEF IInv, Sound, Dev, Held, EveryPcmHeld, TypeOK
<1>. QED BY <1>1, Invariance, PTL

\* HDMI feeds one pcm at most while no write had to open its pcm anew.
THEOREM OneFedHolds == Spec => []OneFed
<1>1. IInv => OneFed
  <2> SUFFICES ASSUME IInv, hal = "hdmi", ~reopened PROVE Cardinality(dev.opened) <= 1
    BY DEF OneFed
  <2>1. \A p \in dev.opened : p = dev.handle[dev.active]
    BY DEF IInv, Fed
  <2>2. dev.opened = {} \/ dev.opened = {dev.handle[dev.active]}
    BY <2>1
  <2>3. CASE dev.opened = {}
    BY <2>3, FS_EmptySet
  <2>4. CASE dev.opened = {dev.handle[dev.active]}
    <3>1. Cardinality(dev.opened) = 1
      BY <2>4, FS_Singleton
    <3>. QED BY <3>1
  <2>. QED BY <2>2, <2>3, <2>4
<1>. QED BY <1>1, Invariance, PTL

\* On Wi-Di active_stream_out is an open stream with an open pcm.
THEOREM ActiveHasPcmHolds == Spec => []ActiveHasPcm
<1>1. IInv => ActiveHasPcm
  BY DEF IInv, Tracked, Held, Sound, Dev, ActiveHasPcm, TypeOK
<1>. QED BY <1>1, Invariance, PTL

-----------------------------------------------------------------------------
(* HDMI on tinyalsa.                                                        *)

CONSTANTS ChannelsOf, Sinks
VARIABLES op, chan, standing, pcm, holder, device, sink, masks

Tiny == INSTANCE TinyHdmiAudio WITH standby <- standing

\* TinyHdmiAudio's ChannelAssumption; its other assumptions are those of PcmStreams.
ChannelCounts == ChannelsOf \in [Streams -> SUBSET Nat] /\ Sinks \subseteq Nat

\* The calls that hold the lock between two of their steps.
Locked == {"opens", "starts", "writes"}

\* The types the other parts of the invariant need.
TypeInv ==
  /\ op \in [Streams -> {"closed", "opening", "idle"} \cup Locked]
  /\ chan \in [Streams -> Nat]
  /\ standing \in [Streams -> BOOLEAN]
  /\ pcm \in [Streams -> Pcms \cup {NoPcm, BadPcm}]
  /\ holder \in Streams \cup {NoStream}
  /\ activePcm \in Pcms \cup {NoPcm}
  /\ opened \subseteq Pcms

\* A call is between two of its locked steps exactly when it has the lock, and
\* no pcm plays while one is about to be opened.
LockInv ==
  /\ \A s \in Streams : op[s] \in Locked <=> holder = s
  /\ \A s \in Streams : op[s] \in {"opens", "starts"} => activePcm = NoPcm

\* The pcm that plays belongs to an open stream with its channels: the stream
\* that opened it last, however often it was closed under others since.
OwnerInv ==
  activePcm # NoPcm =>
    \E s \in Streams : /\ op[s] \in {"idle", "writes"}
                       /\ pcm[s] = activePcm /\ chan[s] = activeChannel

\* A write that has passed its checks has the pcm that plays, or the channels
\* of the stream that has it, which waits for the lock.
WriteInv ==
  \A s \in Streams : op[s] = "writes" =>
    /\ activePcm # NoPcm
    /\ \/ pcm[s] = activePcm
       \/ \E t \in Streams \ {s} : op[t] = "idle" /\ pcm[t] = activePcm /\ chan[t] = chan[s]

PcmInv == TypeInv /\ LockInv /\ OnePcm /\ OwnerInv

-----------------------------------------------------------------------------
LEMMA InitPcm == Tiny!Init => PcmInv /\ WriteInv
<1> SUFFICES ASSUME Tiny!Init PROVE PcmInv /\ WriteInv
  OBVIOUS
<1>1. TypeInv
  BY DEF Tiny!Init, TypeInv
<1>2. LockInv /\ OnePcm /\ OwnerInv /\ WriteInv
  BY StreamAssumption DEF Tiny!Init, LockInv, OnePcm, OwnerInv, WriteInv, Locked
<1>. QED BY <1>1, <1>2 DEF PcmInv

\* Every step keeps the types, the lock and the one pcm, whatever the channel
\* counts of the streams are.
LEMMA PcmStep == ASSUME ChannelCounts, PcmInv, [Tiny!Next]_(Tiny!vars) PROVE PcmInv'
<1> USE PcmAssumption, StreamAssumption
<1> USE DEF PcmInv, TypeInv, LockInv, OnePcm, OwnerInv, Locked
<1>1. CASE UNCHANGED Tiny!vars
  BY <1>1 DEF Tiny!vars, Tiny!streamVars, Tiny!pcmVars, Tiny!edidVars
<1>2. CASE Tiny!Replug
  BY <1>2 DEF Tiny!Replug, Tiny!streamVars, Tiny!pcmVars
<1>3. ASSUME NEW s \in Streams, Tiny!GetParameters(s) PROVE PcmInv'
  BY <1>3 DEF Tiny!GetParameters, Tiny!streamVars, Tiny!pcmVars
<1>4. ASSUME NEW s \in Streams, NEW d \in {0, 1}, Tiny!SetParameters(s, d) PROVE PcmInv'
  BY <1>4 DEF Tiny!SetParameters, Tiny!streamVars, Tiny!pcmVars
<1>5. ASSUME NEW s \in Streams, Tiny!OpenStream(s) PROVE PcmInv'
  <2>1. PICK c \in ChannelsOf[s] : chan' = [chan EXCEPT ![s] = c]
    BY <1>5 DEF Tiny!OpenStream
  <2>2. c \in Nat
    BY ChannelCounts DEF ChannelCounts
  <2>3. TypeInv' /\ LockInv' /\ OnePcm'
    BY <1>5, <2>1, <2>2 DEF Tiny!OpenStream, Tiny!pcmVars
  <2>4. OwnerInv'
    BY <1>5, <2>1 DEF Tiny!OpenStream, Tiny!pcmVars
  <2>. QED BY <2>3, <2>4
<1>6. ASSUME NEW s \in Streams, Tiny!LockOpen(s) PROVE PcmInv'
  BY <1>6 DEF Tiny!LockOpen, Tiny!StartHalf
<1>7. ASSUME NEW s \in Streams, Tiny!Write(s) PROVE PcmInv'
  <2>1. CASE Tiny!MustStart(s)
    <3>1. TypeInv'
      BY <1>7, <2>1 DEF Tiny!Write, Tiny!StartHalf
    <3>2. LockInv'
      BY <1>7, <2>1 DEF Tiny!Write, Tiny!StartHalf
    <3>3. OnePcm' /\ OwnerInv'
      BY <1>7, <2>1 DEF Tiny!Write, Tiny!StartHalf
    <3>. QED BY <3>1, <3>2, <3>3
  <2>2. CASE ~Tiny!MustStart(s)
    <3>1. TypeInv' /\ LockInv' /\ OnePcm'
      BY <1>7, <2>2 DEF Tiny!Write, Tiny!pcmVars
    <3>2. OwnerInv'
      BY <1>7, <2>2 DEF Tiny!Write, Tiny!pcmVars
    <3>. QED BY <3>1, <3>2
  <2>. QED BY <2>1, <2>2
<1>8. ASSUME NEW s \in Streams, NEW p \in Pcms \ opened, Tiny!PcmReady(s, p) PROVE PcmInv'
  <2>1. TypeInv' /\ LockInv' /\ OnePcm'
    BY <1>8 DEF Tiny!PcmReady
  <2>2. /\ op'[s] \in {"idle", "writes"}
        /\ pcm'[s] = activePcm' /\ chan'[s] = activeChannel'
    BY <1>8 DEF Tiny!PcmReady
  <2>. QED BY <2>1, <2>2
<1>9. ASSUME NEW s \in Streams, Tiny!PcmNotReady(s) PROVE PcmInv'
  BY <1>9 DEF Tiny!PcmNotReady
<1>10. ASSUME NEW s \in Streams, Tiny!Written(s) PROVE PcmInv'
  <2>1. holder = s
    BY <1>10 DEF Tiny!Written
  <2>2. TypeInv' /\ LockInv' /\ OnePcm'
    BY <1>10, <2>1 DEF Tiny!Written, Tiny!pcmVars
  <2>3. OwnerInv'
    BY <1>10 DEF Tiny!Written, Tiny!pcmVars
  <2>. QED BY <2>2, <2>3
<1>11. ASSUME NEW s \in Streams, Tiny!Standby(s) PROVE PcmInv'
  <2>1. TypeInv' /\ LockInv' /\ OnePcm'
    BY <1>11 DEF Tiny!Standby, Tiny!StandbyBody
  <2>2. OwnerInv'
    BY <1>11 DEF Tiny!Standby, Tiny!StandbyBody
  <2>. QED BY <2>1, <2>2
<1>12. ASSUME NEW s \in Streams, Tiny!CloseStream(s) PROVE PcmInv'
  BY <1>12 DEF Tiny!CloseStream, Tiny!StandbyBody
<1>. QED
  BY <1>1, <1>2, <1>3, <1>4, <1>5, <1>6, <1>7, <1>8, <1>9, <1>10, <1>11, <1>12
     DEF Tiny!Next, Tiny!Step

\* The stream that compares its channels with the active ones is the owner of
\* the pcm that plays, or has as many as the owner.
LEMMA TinyWriteStep ==
  ASSUME PcmInv, WriteInv, [Tiny!Next]_(Tiny!vars) PROVE WriteInv'
<1> USE PcmAssumption, StreamAssumption
<1> USE DEF PcmInv, TypeInv, LockInv, WriteInv, Locked
<1>1. CASE UNCHANGED Tiny!vars \/ Tiny!Replug
  BY <1>1 DEF Tiny!vars, Tiny!Replug, Tiny!streamVars, Tiny!pcmVars, Tiny!edidVars
<1>2. ASSUME NEW s \in Streams,
             Tiny!GetParameters(s) \/ \E d \in {0, 1} : Tiny!SetParameters(s, d)
      PROVE  WriteInv'
  BY <1>2 DEF Tiny!GetParameters, Tiny!SetParameters, Tiny!streamVars, Tiny!pcmVars
<1>3. ASSUME NEW s \in Streams, Tiny!OpenStream(s) PROVE WriteInv'
  BY <1>3 DEF Tiny!OpenStream, Tiny!pcmVars
<1>4. ASSUME NEW s \in Streams, Tiny!LockOpen(s) PROVE WriteInv'
  BY <1>4 DEF Tiny!LockOpen, Tiny!StartHalf
<1>5. ASSUME NEW s \in Streams, Tiny!Write(s) PROVE WriteInv'
  <2>1. CASE Tiny!MustStart(s)
    BY <1>5, <2>1 DEF Tiny!Write, Tiny!StartHalf
  <2>2. CASE ~Tiny!MustStart(s) /\ ~Tiny!MayWrite(s)
    BY <1>5, <2>2 DEF Tiny!Write, Tiny!pcmVars
  <2>3. CASE ~Tiny!MustStart(s) /\ Tiny!MayWrite(s)
    <3>1. PICK t \in Streams : /\ op[t] \in {"idle", "writes"}
                               /\ pcm[t] = activePcm /\ chan[t] = activeChannel
      BY <2>3 DEF OwnerInv, Tiny!MustStart
    <3>2. op[t] = "idle" /\ chan[t] = chan[s] /\ activePcm # NoPcm
      BY <1>5, <2>3, <3>1 DEF Tiny!Write, Tiny!MayWrite, Tiny!MustStart
    <3>3. /\ op' = [op EXCEPT ![s] = "writes"] /\ UNCHANGED <<chan, pcm, activePcm>>
          /\ \A r \in Streams : op[r] # "writes"
      BY <1>5, <2>3 DEF Tiny!Write, Tiny!pcmVars
    <3>. QED BY <3>1, <3>2, <3>3
  <2>. QED BY <2>1, <2>2, <2>3
<1>6. ASSUME NEW s \in Streams, NEW p \in Pcms \ opened, Tiny!PcmReady(s, p)
      PROVE  WriteInv'
  BY <1>6 DEF Tiny!PcmReady
<1>7. ASSUME NEW s \in Streams, Tiny!PcmNotReady(s) PROVE WriteInv'
  BY <1>7 DEF Tiny!PcmNotReady
<1>8. ASSUME NEW s \in Streams, Tiny!Written(s) PROVE WriteInv'
  BY <1>8 DEF Tiny!Written, Tiny!pcmVars
<1>9. ASSUME NEW s \in Streams, Tiny!Standby(s) PROVE WriteInv'
  BY <1>9 DEF Tiny!Standby, Tiny!StandbyBody
<1>10. ASSUME NEW s \in Streams, Tiny!CloseStream(s) PROVE WriteInv'
  BY <1>10 DEF Tiny!CloseStream, Tiny!StandbyBody
<1>. QED
  BY <1>1, <1>2, <1>3, <1>4, <1>5, <1>6, <1>7, <1>8, <1>9, <1>10 DEF Tiny!Next, Tiny!Step

-----------------------------------------------------------------------------
\* Whatever streams audio flinger opens, at most one pcm is open, and it is the
\* one that the globals say plays (tinyaudio_hw.c:53-59).
THEOREM OnePcmHolds ==
  ASSUME ChannelCounts PROVE Tiny!Spec => []OnePcm
<1>1. PcmInv /\ [Tiny!Next]_(Tiny!vars) => PcmInv'
  BY PcmStep
<1>2. PcmInv => OnePcm
  BY DEF PcmInv
<1>. QED BY InitPcm, <1>1, <1>2, PTL DEF Tiny!Spec

\* A write to a pcm that another stream closed needs another stream that plays
\* with as many channels; the comparison in out_write() (tinyaudio_hw.c:682)
\* stops every other, whatever streams audio flinger opens.
THEOREM WritesToOpenPcmHolds ==
  ASSUME ChannelCounts PROVE Tiny!Spec => []Tiny!WritesToOpenPcm
<1>1. PcmInv /\ WriteInv /\ [Tiny!Next]_(Tiny!vars) => (PcmInv /\ WriteInv)'
  BY PcmStep, TinyWriteStep
<1>2. PcmInv /\ WriteInv => Tiny!WritesToOpenPcm
  BY DEF PcmInv, WriteInv, OnePcm, Tiny!WritesToOpenPcm
<1>. QED BY InitPcm, <1>1, <1>2, PTL DEF Tiny!Spec
=============================================================================
