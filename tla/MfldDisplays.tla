---------------------------- MODULE MfldDisplays ----------------------------
(* The panel and HDMI devices of the Medfield composer over the planes of    *)
(* MfldPlanes (src/hwc/IntelMIPIDisplayDevice.cpp, IntelHDMIDisplayDevice.cpp*)
(* IntelDisplayDevice.cpp, IntelHWComposerLayer.cpp).  SurfaceFlinger's      *)
(* thread runs prepare and commit; the listener of the multi-display service *)
(* changes the display mode, also between the two; the GPU comes to a posted *)
(* flip later.  prepare, commit and the mode change hold the composer's lock *)
(* and are one step each.                                                    *)
(*                                                                           *)
(* A layer is of one of these kinds:                                         *)
(*   video  unprotected YUV that a software decoder wrote (NV12)             *)
(*   prot   protected YUV of the video engine (NV12_VED)                     *)
(*   ui     RGB, neither scaled nor rotated                                  *)
(*   apart  the same, small, and intersecting no other layer                 *)
(*   gles   RGB that has to be rotated                                       *)
(*   dim    a full-screen layer with HWC_SKIP_LAYER and no buffer            *)
EXTENDS MfldPlanes, FiniteSets, Sequences, TLC

CONSTANTS Lists,       \* the layer lists of the panel, sequences of kinds
          HdmiLists,   \* those of HDMI
          MaxEvents    \* how many modes, player changes, blankings and faults there are

Displays == {"mipi", "hdmi"}
Kinds == {"video", "prot", "ui", "apart", "gles", "dim"}
Modes == {"mipi", "clone", "extend"}
Comps == {"fb", "overlay"}

ASSUME EventsBounded == MaxEvents \in Nat
ASSUME ListsOfKinds == Lists \cup HdmiLists \subseteq Seq(Kinds) \ {<<>>}

VARIABLES
  st,     \* the composer: planes, layer lists, device flags, SurfaceFlinger's lists
  mode,   \* mDisplayMode
  mds,    \* what the monitor last heard: HDMI's use, overlay off, video prepared
  msg,    \* a mode change the listener has yet to handle
  pc,     \* SurfaceFlinger: before prepare, or between prepare and commit
  events  \* how many events there were (a bound)

vars == <<st, mode, mds, msg, pc, events>>

Event == events < MaxEvents /\ events' = events + 1

Yuv(k) == k \in {"video", "prot"}
IsHWCLayer(k) == k # "dim"
IsSprite(k) == k \in {"ui", "apart"}
Intersecting(k, l) == k # "apart" /\ l # "apart"

Connected == mds.hdmi # "none"

\* IntelExternalDisplayMonitor::getDisplayMode and detectMDSModeChange
DisplayMode(m) ==
  CASE m.hdmi = "clone" -> "clone"
    [] m.hdmi = "ext" /\ ~m.off -> "extend"
    [] OTHER -> "mipi"

-----------------------------------------------------------------------------
\* The composer's layer list, beside SurfaceFlinger's: ml has a record for each
\* layer of the last list it looked at, sf the composition types.

Fresh(ls) ==
  [i \in DOMAIN ls |-> [kind |-> ls[i].kind, plane |-> NoPlane,
                        delay |-> FALSE, force |-> FALSE]]

Layers(s, d) == DOMAIN s.ml[d]
Attached(s, d) == {s.ml[d][i].plane : i \in Layers(s, d)} \ {NoPlane}
CompOf(s, d, i) == s.sf[d].ls[i].comp
SetComp(s, d, i, c) == [s EXCEPT !.sf[d].ls[i].comp = c]

\* attachPlane with flags 0; detachPlane
Attach(s, d, i, p) ==
  [s EXCEPT !.ml[d][i].plane = p, !.ml[d][i].delay = FALSE]
Detach(s, d, i) ==
  [Reclaim(s, s.ml[d][i].plane)
     EXCEPT !.ml[d][i].plane = NoPlane, !.ml[d][i].delay = FALSE]

\* Slip: the planes of the old list are forgotten instead of reclaimed.
RenewForgetting(s, d, fresh) == [s EXCEPT !.ml[d] = fresh]

\* invalidatePlanes, then updateLayerList with a new list
Renew(s, d, fresh) ==
  LET back(k) == {p.i : p \in {q \in Attached(s, d) : PoolOf(q) = k}}
  IN [s EXCEPT !.recl = [k \in Pools |-> @[k] \cup back(k)], !.ml[d] = fresh]

-----------------------------------------------------------------------------
\* isOverlayLayer of the panel: may layer i be shown by an overlay, and must it
\* be (extended mode and protected content).
ForceOverlay(s, i) ==
  LET k == s.ml.mipi[i].kind
  IN Yuv(k) /\ (k = "prot" \/ (mode = "extend" /\ ~s.seek.mipi))

OverlayLayer(s, i) ==
  LET l == s.ml.mipi
  IN \/ ForceOverlay(s, i)
     \/ /\ Yuv(l[i].kind)
        /\ ~s.seek.mipi
        /\ mode # "clone"
        /\ i = 1 \/ i = Len(l) \/ \A j \in 1..(i-1) : ~Intersecting(l[i].kind, l[j].kind)

\* isRGBOverlayLayer: one of the two top layers, small and apart, while neither
\* HDMI nor video needs the overlays.
RGBOverlayLayer(s, i) ==
  LET l == s.ml.mipi
  IN /\ Len(l) >= 2
     /\ ~Connected /\ ~mds.video
     /\ \A j \in DOMAIN l : ~Yuv(l[j].kind)
     /\ l[i].kind = "apart"
     /\ i >= Len(l) - 1

\* overlayPrepare of the panel: in extended mode the layer is only hidden.
OverlayPrepare(s, i) ==
  LET h == NextPlane(s, "overlay")
      p == [type |-> "ov", i |-> h]
  IN CASE mode = "extend" -> SetComp(s, "mipi", i, "overlay")
       [] ~HasFree(s, "overlay") -> SetComp(s, "mipi", i, "fb")
       [] OTHER -> SetComp(Attach([Grab(s, "overlay", h) EXCEPT !.pipe[p] = "mipi"],
                                  "mipi", i, p), "mipi", i, "overlay")

\* rgbOverlayPrepare and spritePrepare
RGBOverlayPrepare(s, i) ==
  LET h == NextPlane(s, "overlay")
      p == [type |-> "rgb", i |-> h]
  IN SetComp(Attach([Grab(s, "overlay", h) EXCEPT !.pipe[p] = "mipi"], "mipi", i, p),
             "mipi", i, "overlay")
SpritePrepare(s, i) ==
  LET h == NextPlane(s, "sprite")
  IN SetComp(Attach(Grab(s, "sprite", h), "mipi", i, [type |-> "sprite", i |-> h]),
             "mipi", i, "overlay")

\* The body of onGeometryChanged's loop on the panel.
AssignPlane(s, i) ==
  LET k == s.ml.mipi[i].kind
  IN CASE ~IsHWCLayer(k) -> s
       [] OverlayLayer(s, i) ->
            OverlayPrepare([s EXCEPT !.ml.mipi[i].force = ForceOverlay(s, i)], i)
       [] ~OverlayLayer(s, i) /\ HasFree(s, "overlay") /\ RGBOverlayLayer(s, i) ->
            RGBOverlayPrepare(s, i)
       [] OTHER ->
            IF HasFree(s, "sprite") /\ IsSprite(k) THEN SpritePrepare(s, i)
                                                   ELSE SetComp(s, "mipi", i, "fb")

AssignPlanes(s) ==
  LET assigned[i \in 0..Len(s.ml.mipi)] == IF i = 0 THEN s ELSE AssignPlane(assigned[i - 1], i)
  IN assigned[Len(s.ml.mipi)]

\* Slip: the composition types of the other layers are not looked at.
TryPrimaryAlone(s, i) ==
  IF /\ IsSprite(s.ml.mipi[i].kind) /\ s.ml.mipi[i].plane = NoPlane
     /\ Available(s, "primary", 0)
  THEN SetComp(Attach(Grab(s, "primary", 0), "mipi", i, [type |-> "primary", i |-> 0]),
               "mipi", i, "overlay")
  ELSE s

\* isPrimaryLayer and primaryPrepare of layer i: the primary plane shows it when
\* every other layer is out of the framebuffer.
TryPrimary(s, i) ==
  LET p == s.ml.mipi[i].plane
      held == CompOf(s, "mipi", i) = "overlay"
      r == IF held /\ p.type = "primary" THEN SetComp(Detach(s, "mipi", i), "mipi", i, "fb")
                                         ELSE s
  IN IF \/ held /\ p.type \in {"ov", "rgb", "sprite"}
        \/ \E j \in Layers(s, "mipi") \ {i} : CompOf(r, "mipi", j) # "overlay"
        \/ ~IsSprite(s.ml.mipi[i].kind)
     THEN r
     ELSE IF Available(r, "primary", 0)
          THEN SetComp(Attach(Grab(r, "primary", 0), "mipi", i, [type |-> "primary", i |-> 0]),
                       "mipi", i, "overlay")
          ELSE SetComp(r, "mipi", i, "fb")

\* revisitLayerList: protected layers stay out of the framebuffer; HDMI has no
\* use for its primary plane.
RevisitLayer(s, d, i) ==
  LET u == IF s.ml[d][i].kind = "prot" THEN SetComp(s, d, i, "overlay") ELSE s
  IN IF ~IsHWCLayer(s.ml[d][i].kind) THEN s
     ELSE IF d = "mipi" THEN TryPrimary(u, i) ELSE u

Revisit(s, d) ==
  LET revisited[i \in 0..Len(s.ml[d])] == IF i = 0 THEN s ELSE RevisitLayer(revisited[i - 1], d, i)
  IN revisited[Len(s.ml[d])]

-----------------------------------------------------------------------------
\* isScreenshotActive: the top layer is a full-screen SKIP layer.
ScreenshotActive(s) ==
  LET l == s.ml.mipi
  IN /\ l # <<>> /\ mode # "extend"
     /\ \A i \in DOMAIN l : l[i].kind # "prot"
     /\ l[Len(l)].kind = "dim"

\* onGeometryChanged of the panel
PanelGeometry(s0) ==
  LET s == Renew(s0, "mipi", Fresh(s0.sf.mipi.ls))
      shot == ScreenshotActive(s)
      a == IF shot THEN s ELSE AssignPlanes(s)
      r == Revisit(a, "mipi")
  IN DisableReclaimed(DisableReclaimed([r EXCEPT !.shot = shot], "sprite"), "primary")

\* overlayPrepare of HDMI: an overlay for a video layer, if one is left, on
\* HDMI's pipe.
HdmiOverlayPrepare(s, i) ==
  LET h == NextPlane(s, "overlay")
      p == [type |-> "ov", i |-> h]
  IN IF HasFree(s, "overlay")
     THEN Attach([Grab(s, "overlay", h) EXCEPT !.pipe[p] = "hdmi"], "hdmi", i, p)
     ELSE s

\* A layer of HDMI in extended mode: skipped layers are kept from the GPU, video
\* gets an overlay unless the player is seeking.
HdmiLayer(s, i) ==
  LET k == s.ml.hdmi[i].kind
      u == SetComp(s, "hdmi", i, "overlay")
  IN CASE k = "dim" -> u
       [] Yuv(k) /\ s.seek.hdmi -> u
       [] Yuv(k) /\ ~s.seek.hdmi -> HdmiOverlayPrepare(u, i)
       [] OTHER -> s

HdmiLayers(s) ==
  LET done[i \in 0..Len(s.ml.hdmi)] == IF i = 0 THEN s ELSE HdmiLayer(done[i - 1], i)
  IN done[Len(s.ml.hdmi)]

\* onGeometryChanged of HDMI: only in extended mode do layers get planes.
HdmiGeometry(s0) ==
  LET s == Renew(s0, "hdmi", Fresh(s0.sf.hdmi.ls))
  IN IF mode = "extend" THEN HdmiLayers(s) ELSE s

-----------------------------------------------------------------------------
\* updateLayersData: what one layer of display d gets this frame.  The fault of
\* the frame, if any, is of layer at of display on: a one-pixel crop, a rotated
\* buffer that is not ready, a buffer that cannot be mapped or shown, a
\* conversion to YUV that fails.
Faulty(in, d, i, f) == in.fault = f /\ in.on = d /\ in.at = i

ToFramebuffer(u, d, i) == [u EXCEPT !.s = SetComp(@, d, i, "fb"), !.ok = FALSE]
DropPlane(u, d, i) == ToFramebuffer([u EXCEPT !.s = Detach(@, d, i)], d, i)

OnlyHdmiHasVideo(s) ==
  /\ \A i \in DOMAIN s.sf.mipi.ls : ~Yuv(s.sf.mipi.ls[i].kind)
  /\ \E i \in DOMAIN s.sf.hdmi.ls : Yuv(s.sf.hdmi.ls[i].kind)
PresentationMode(s) ==
  [i \in DOMAIN s.sf.mipi.ls |-> s.sf.mipi.ls[i].kind] #
  [i \in DOMAIN s.sf.hdmi.ls |-> s.sf.hdmi.ls[i].kind]

\* An overlay plane: a plane left on by the last late frame is disabled first;
\* while the device turns in extended mode the layer loses its plane; a late
\* buffer leaves the plane for one frame with DELAY_DISABLE set.
UpdateOverlay(u, d, i, in) ==
  LET l == u.s.ml[d][i]
      t == IF l.delay THEN [Disable(u.s, l.plane) EXCEPT !.ml[d][i].delay = FALSE] ELSE u.s
      late == [t EXCEPT !.ml[d][i].delay = TRUE]
      set == SetComp(SetData(t, l.plane, mds.off), d, i, "overlay")
  IN CASE mds.off -> ToFramebuffer([u EXCEPT !.s = Disable(@, l.plane)], d, i)
       [] ~mds.off /\ in.rot /\ mode = "extend" /\ ~PresentationMode(t) /\ ~OnlyHdmiHasVideo(t) ->
            [u EXCEPT !.s = SetComp(Detach(t, d, i), d, i, "overlay"), !.ok = FALSE]
       [] OTHER ->
            CASE Faulty(in, d, i, "late") ->
                   IF l.force THEN [u EXCEPT !.s = late]
                   ELSE ToFramebuffer([u EXCEPT !.s = late], d, i)
              [] Faulty(in, d, i, "bad") -> DropPlane([u EXCEPT !.s = t], d, i)
              [] OTHER -> [u EXCEPT !.s = set,
                                    !.yuv = IF l.kind = "video" THEN i ELSE @]

UpdateLayer(u, d, i, in) ==
  LET l == u.s.ml[d][i]
      p == l.plane
      shows == IsHWCLayer(l.kind) /\ p # NoPlane
      lost == \/ Faulty(in, d, i, "tiny")
              \/ p.type # "ov" /\ Faulty(in, d, i, "bad")
  IN CASE shows /\ lost -> DropPlane(u, d, i)
       [] shows /\ ~lost /\ p.type = "ov" -> UpdateOverlay(u, d, i, in)
       [] shows /\ ~lost /\ p.type = "rgb" /\ ~Faulty(in, d, i, "noconv") ->
            [u EXCEPT !.s = SetData(@, p, mds.off)]
       [] OTHER -> u

\* yuv is the last layer with an NV12 buffer that an overlay shows.
UpdateLayers(s, d, in) ==
  LET updated[i \in 0..Len(s.ml[d])] ==
        IF i = 0 THEN [s |-> s, ok |-> TRUE, yuv |-> 0] ELSE UpdateLayer(updated[i - 1], d, i, in)
  IN updated[Len(s.ml[d])]

-----------------------------------------------------------------------------
\* handleSmartComposition: with a video on an overlay over framebuffer layers
\* that did not change since the last frame, those layers are not composed
\* again.  in.dirty says whether a buffer other than the video's changed.
SmartComposition(s, geo, yuv, in) ==
  LET ls == s.sf.mipi.ls
      t == IF ~geo THEN s
           ELSE [s EXCEPT !.gles = \E i \in DOMAIN ls :
                                     ls[i].comp = "fb" /\ ~Yuv(ls[i].kind),
                          !.hasSkip = \E i \in DOMAIN ls : ls[i].kind = "dim"]
      dirty == geo \/ in.dirty
  IN IF yuv = 0 \/ ~t.gles \/ t.hasSkip \/ Len(ls) \notin 3..5
     THEN [t EXCEPT !.skip = FALSE]
     ELSE IF t.skip # dirty THEN t
     ELSE [t EXCEPT !.skip = ~@,
                    !.sf.mipi.ls = [i \in DOMAIN ls |->
                      IF i = yuv THEN ls[i]
                      ELSE [ls[i] EXCEPT !.comp = IF t.skip THEN "fb" ELSE "overlay"]]]

\* checkTrickMode: an unprotected layer with the hint, in extended mode only.
Trick(s, d, in) ==
  /\ mode = "extend" /\ in.trick
  /\ \E i \in DOMAIN s.sf[d].ls : s.sf[d].ls[i].kind = "video"

\* prepare of the panel: reclaimed overlays of the last frame go dark, but only
\* in the third frame of a screenshot.
PreparePanel(s0, geo, in) ==
  LET due == s0.recl["overlay"] # {} /\ (~s0.shot \/ s0.cnt = 2)
      s == IF due THEN [DisableReclaimedOverlays(s0) EXCEPT !.cnt = 0]
           ELSE IF s0.recl["overlay"] # {} THEN [s0 EXCEPT !.cnt = @ + 1] ELSE s0
      redo == \/ geo \/ s.hot.mipi
              \/ Trick(s, "mipi", in) # s.seek.mipi
              \/ mds.video # s.player
      t == [s EXCEPT !.seek.mipi = Trick(s, "mipi", in), !.player = mds.video]
      g == IF redo THEN [PanelGeometry(t) EXCEPT !.hot.mipi = FALSE] ELSE t
      u == UpdateLayers(g, "mipi", in)
      r == IF u.ok THEN u.s ELSE Revisit(u.s, "mipi")
  IN IF s0.blank.mipi THEN s0 ELSE SmartComposition(r, geo, u.yuv, in)

\* prepare of HDMI: a hotplug event is forgotten without another look at the
\* planes.
PrepareHdmi(s, geo, in) ==
  LET trick == Trick(s, "hdmi", in)
      t == [s EXCEPT !.seek.hdmi = trick]
      hint == CHOOSE i \in DOMAIN s.sf.hdmi.ls : s.sf.hdmi.ls[i].kind = "video"
      g == IF geo \/ trick # s.seek.hdmi
           THEN LET h == HdmiGeometry(t)
                IN IF trick THEN SetComp(h, "hdmi", hint, "fb") ELSE h
           ELSE t
      u == UpdateLayers([g EXCEPT !.hot.hdmi = FALSE], "hdmi", in)
  IN CASE s.blank.hdmi -> s
       [] ~s.blank.hdmi /\ u.ok -> u.s
       [] OTHER -> Revisit(u.s, "hdmi")

-----------------------------------------------------------------------------
\* The context of every flipped plane goes to the GPU as it is now.
Post(s, d, flips) ==
  [s EXCEPT !.flip = [i \in Overlays |->
     IF \E p \in flips : p.i = i
     THEN LET p == CHOOSE q \in flips : q.i = i
          IN [plane |-> p, pipe |-> s.pipe[p], by |-> d]
     ELSE @[i]]]

\* Slip: a flip is posted although a mode change is not handled yet.
CommitAnyway(s, d) ==
  IF s.blank[d] THEN s ELSE Post(s, d, Attached(s, d) \cap OverlayPlanes)

\* commit of display d: the attached overlays of layers out of the framebuffer,
\* unless their buffer is late or overlays are off.
CommitDisplay(s, d) ==
  LET ready(i) ==
        LET l == s.ml[d][i]
        IN /\ l.plane \in OverlayPlanes
           /\ d = "mipi" => l.kind # "dim"
           /\ CompOf(s, d, i) = "overlay"
           /\ ~l.delay /\ ~mds.off
  IN IF s.blank[d] \/ s.hot[d] \/ (d = "hdmi" /\ ~Connected) THEN s
     ELSE Post(s, d, {s.ml[d][i].plane : i \in {j \in Layers(s, d) : ready(j)}})

\* release of a display that is blanked: its planes go dark but stay attached.
Release(s, d) == Darken(s, Attached(s, d))

\* onDrmModeChange of the planes of a display's layers
ChangePlanes(s, d, old, new, off) ==
  LET changed[i \in 0..Len(s.ml[d])] ==
        IF i = 0 THEN s ELSE OnDrmModeChange(changed[i - 1], s.ml[d][i].plane, old, new, off)
  IN changed[Len(s.ml[d])]

\* onHotplugEvent(true) of display d; HDMI gives its planes back when it is not
\* in use any more.
OnHotplugEvent(s, d, old, new, off) ==
  LET h == [ChangePlanes(s, d, old, new, off) EXCEPT !.hot[d] = TRUE]
      r == IF off THEN DisableReclaimedOverlays(h) ELSE h
  IN IF d = "hdmi" /\ new = "mipi" THEN Renew(r, "hdmi", <<>>) ELSE r

-----------------------------------------------------------------------------
\* A list as SurfaceFlinger hands it over with HWC_GEOMETRY_CHANGED.
Composed(kinds) == [i \in DOMAIN kinds |-> [kind |-> kinds[i], comp |-> "fb"]]
NoList == [on |-> FALSE, ls |-> <<>>]
Present(kinds) == [on |-> TRUE, ls |-> Composed(kinds)]

Init ==
  /\ st = [free |-> InitPlanes.free, recl |-> InitPlanes.recl,
           lit |-> InitPlanes.lit, mapped |-> InitPlanes.mapped,
           pipe |-> InitPlanes.pipe, flip |-> InitPlanes.flip, hw |-> InitPlanes.hw,
           ml |-> [d \in Displays |-> <<>>],
           sf |-> [d \in Displays |-> NoList],
           owe |-> [d \in Displays |-> TRUE],
           hot |-> [d \in Displays |-> FALSE],
           blank |-> [d \in Displays |-> FALSE],
           seek |-> [d \in Displays |-> FALSE],
           shot |-> FALSE, cnt |-> 0, player |-> FALSE,
           skip |-> FALSE, gles |-> FALSE, hasSkip |-> FALSE]
  /\ mode = "mipi"
  /\ \E h \in {"none", "ext"} :
       /\ mds = [hdmi |-> h, off |-> FALSE, video |-> FALSE]
       /\ msg = (h # "none")
  /\ pc = "idle"
  /\ events = 0

\* What a frame brings beside its lists: a fault of one layer, the trick-mode
\* hint, rotation, and whether other buffers changed.
FaultsOf(k) ==
  CASE Yuv(k) -> {"late", "bad", "tiny"}
    [] k = "ui" -> {"bad", "tiny"}
    [] k = "apart" -> {"bad", "tiny", "noconv"}
    [] OTHER -> {}
Inputs(panel, hdmi) ==
  LET quiet == [fault |-> "none", on |-> "mipi", at |-> 0, trick |-> FALSE,
                rot |-> FALSE, dirty |-> FALSE]
      faulty(d, ls) == UNION {{[quiet EXCEPT !.fault = f, !.on = d, !.at = i] :
                                f \in FaultsOf(ls[i].kind)} : i \in DOMAIN ls}
      faults == faulty("mipi", panel) \cup faulty("hdmi", hdmi)
      views == [trick : BOOLEAN, rot : BOOLEAN]
  IN {quiet} \cup (IF Len(panel) < 3 THEN {} ELSE {[quiet EXCEPT !.dirty = TRUE]})
     \cup faults \cup (IF mode = "extend" THEN {v @@ quiet : v \in views} ELSE {})

Eventful(p, h, in) ==
  \/ in.fault # "none" \/ in.trick \/ in.rot
  \/ p.geo /\ ~st.owe.mipi
  \/ h.geo /\ ~st.owe.hdmi

\* SurfaceFlinger may bring a new list for a display, and owes one to a display
\* that was not looked at before or was blank.
NewLists(d, lists) ==
  IF st.blank[d] THEN {[geo |-> FALSE, list |-> st.sf[d]]}
  ELSE {[geo |-> TRUE, list |-> Present(l)] : l \in lists}
       \cup (IF st.owe[d] THEN {} ELSE {[geo |-> FALSE, list |-> st.sf[d]]})

\* The lists of a frame are there.
HandOver(p, h) ==
  [st EXCEPT !.sf = [mipi |-> p.list, hdmi |-> h.list],
             !.owe = [mipi |-> @.mipi /\ ~p.geo,
                      hdmi |-> IF h.list.on THEN @.hdmi /\ ~h.geo ELSE TRUE]]

\* prepareDisplays: the panel, then HDMI
Prepared(p, h, in) ==
  LET s == HandOver(p, h)
      a == IF p.list.on THEN PreparePanel(s, p.geo, in) ELSE s
  IN IF h.list.on THEN PrepareHdmi(a, h.geo, in) ELSE a

\* HDMI's list comes and goes with its connection.
HdmiOffers ==
  (IF st.sf.hdmi.on \/ Connected THEN NewLists("hdmi", HdmiLists) ELSE {})
    \cup {[geo |-> FALSE, list |-> NoList]}

Prepare ==
  \E p \in NewLists("mipi", Lists), h \in HdmiOffers :
    \E in \in Inputs(p.list.ls, h.list.ls) :
      /\ pc = "idle"
      /\ IF Eventful(p, h, in) THEN Event ELSE UNCHANGED events
      /\ st' = Prepared(p, h, in)
      /\ pc' = "ready"
      /\ UNCHANGED <<mode, mds, msg>>

\* commit of every display that has a list
Commit ==
  LET a == IF st.sf.mipi.on THEN CommitDisplay(st, "mipi") ELSE st
      b == IF st.sf.hdmi.on THEN CommitDisplay(a, "hdmi") ELSE a
  IN /\ pc = "ready"
     /\ st' = b
     /\ pc' = "idle"
     /\ UNCHANGED <<mode, mds, msg, events>>

\* The GPU does a posted flip.
Flip(i) ==
  /\ st.flip[i] # Dark
  /\ st' = Latch(st, i)
  /\ UNCHANGED <<mode, mds, msg, pc, events>>

\* blankDisplay, on SurfaceFlinger's thread; a display that comes back gets a
\* new list.
Blank(d) ==
  /\ pc = "idle"
  /\ ~st.blank[d]
  /\ Event
  /\ st' = Release([st EXCEPT !.blank[d] = TRUE, !.owe[d] = TRUE], d)
  /\ UNCHANGED <<mode, mds, msg, pc>>

Unblank(d) ==
  /\ pc = "idle"
  /\ st.blank[d]
  /\ st' = [st EXCEPT !.blank[d] = FALSE]
  /\ UNCHANGED <<mode, mds, msg, pc, events>>

\* The service reports a mode (the monitor keeps it and calls onUEvent, and the
\* listener handles it afterwards), or that a video is prepared.
MdsModeChange(hdmi, off) ==
  /\ ~msg
  /\ <<hdmi, off>> # <<mds.hdmi, mds.off>>
  /\ Event
  /\ mds' = [mds EXCEPT !.hdmi = hdmi, !.off = off]
  /\ msg' = TRUE
  /\ UNCHANGED <<st, mode, pc>>

MdsVideoStatus ==
  /\ Event
  /\ mds' = [mds EXCEPT !.video = ~@]
  /\ UNCHANGED <<st, mode, msg, pc>>

\* handleDisplayModeChange
HandleDisplayModeChange ==
  LET new == DisplayMode(mds)
      a == OnHotplugEvent(st, "mipi", mode, new, mds.off)
  IN /\ msg
     /\ st' = OnHotplugEvent(a, "hdmi", mode, new, mds.off)
     /\ mode' = new
     /\ msg' = FALSE
     /\ UNCHANGED <<mds, pc, events>>

Next ==
  \/ Prepare
  \/ Commit
  \/ \E i \in Overlays : Flip(i)
  \/ \E d \in Displays : Blank(d) \/ Unblank(d)
  \/ \E hdmi \in {"none", "clone", "ext"}, off \in BOOLEAN : MdsModeChange(hdmi, off)
  \/ MdsVideoStatus
  \/ HandleDisplayModeChange

Spec == Init /\ [][Next]_vars

-----------------------------------------------------------------------------
TypeOK ==
  /\ \A k \in Pools : st.free[k] \subseteq Indices[k] /\ st.recl[k] \subseteq Indices[k]
  /\ st.lit \subseteq OverlayPlanes /\ st.mapped \subseteq OverlayPlanes
  /\ st.pipe \in [OverlayPlanes -> Pipes]
  /\ st.flip \in [Overlays -> Flips] /\ st.hw \in [Overlays -> Flips]
  /\ \A d \in Displays :
       /\ st.ml[d] \in Seq([kind : Kinds, plane : Planes \cup {NoPlane},
                            delay : BOOLEAN, force : BOOLEAN])
       /\ st.sf[d] \in [on : BOOLEAN, ls : Seq([kind : Kinds, comp : Comps])]
  /\ \A f \in {st.owe, st.hot, st.blank, st.seek} : f \in [Displays -> BOOLEAN]
  /\ st.cnt \in 0..2
  /\ {st.shot, st.player, st.skip, st.gles, st.hasSkip} \subseteq BOOLEAN
  /\ mode \in Modes
  /\ mds \in [hdmi : {"none", "clone", "ext"}, off : BOOLEAN, video : BOOLEAN]
  /\ msg \in BOOLEAN
  /\ events \in 0..MaxEvents
  /\ pc \in {"idle", "ready"}

\* No plane is lost or lent twice: each index of each pool is free, or
\* reclaimed, or attached to exactly one layer of one display, whatever frames,
\* mode changes and blanking do (IntelHWComposerLayer.cpp).
Holders(k, i) ==
  {x \in UNION {{d} \X Layers(st, d) : d \in Displays} :
     LET p == st.ml[x[1]][x[2]].plane IN p.i = i /\ PoolOf(p) = k}
PlanesHeld ==
  \A k \in Pools : \A i \in Indices[k] :
    /\ Holders(k, i) = {} <=> i \in st.free[k] \cup st.recl[k]
    /\ Cardinality(Holders(k, i)) <= 1
    /\ i \notin st.free[k] \cap st.recl[k]

\* An overlay that is free shows nothing, now or through a flip the GPU has yet
\* to do, and neither of its planes keeps a buffer mapped.
FreeOverlaysDark ==
  \A i \in st.free["overlay"] :
    /\ st.hw[i] = Dark
    /\ st.flip[i].plane \notin st.lit
    /\ \A p \in st.mapped : p.i # i

\* The display controller never scans a plane whose buffers are unmapped.
ScannedIsMapped ==
  \A i \in Overlays : st.hw[i] # Dark => st.hw[i].plane \in st.mapped

\* The panel's commit flips overlays on the panel only: after a change of mode
\* that moved a block to HDMI nothing is posted until planes were assigned anew.
PanelFlipsOnPanel ==
  \A i \in Overlays : st.flip[i].by = "mipi" => st.flip[i].pipe = "mipi"

\* While a layer has the panel's primary plane, which replaces the framebuffer,
\* no other layer is composed into the framebuffer (outside smart composition).
PrimaryCoversNothing ==
  (pc = "ready" /\ ~st.gles /\ ~st.hot.mipi /\ ~st.blank.mipi
     /\ \E p \in Attached(st, "mipi") : p.type = "primary")
  => \A i \in Layers(st, "mipi") :
       CompOf(st, "mipi", i) = "fb" => ~IsHWCLayer(st.ml.mipi[i].kind)

\* revisitLayerList's comment: "make sure all protected layers were marked as
\* overlay" - no protected layer is composed by the GPU.  It does not hold: leaving
\* smart composition sets every layer but one to the framebuffer.
ProtectedIsOverlay ==
  (pc = "ready" /\ ~st.hot.mipi /\ ~st.blank.mipi)
  => \A i \in Layers(st, "mipi") :
       st.ml.mipi[i].kind = "prot" => CompOf(st, "mipi", i) = "overlay"

\* IntelHDMIDisplayDevice.cpp: "set overlay's pipe as HDMI" - what HDMI's commit
\* flips goes to HDMI.  It does not hold: from extended to cloned mode an overlay
\* keeps the panel's pipe.
HdmiFlipsOnHdmi ==
  \A i \in Overlays :
    st.flip[i] # Dark /\ st.flip[i].by = "hdmi" => st.flip[i].pipe = "hdmi"
=============================================================================
