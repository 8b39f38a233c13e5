---------------------------- MODULE HwcLayerList ----------------------------
(***************************************************************************)
(* One display's layer list in hwc/merrifield (HwcLayerList.cpp): the      *)
(* analysis that gives planes to layers when the geometry changes, and the *)
(* update that gives the buffers of a frame to those planes and sends the  *)
(* layers whose buffer a plane refuses back to the GPU.                    *)
(*                                                                         *)
(* Merrifield has no sprite planes, so the sprite branch never runs.  The  *)
(* framebuffer target's own buffer is taken to be accepted always, and     *)
(* overlays that the hotplug thread puts in the pool meanwhile are left to *)
(* Hwcomposer.tla.                                                         *)
(***************************************************************************)
EXTENDS LayerLists

vars == <<count, kind, listVars, granted, avail, bad, phase, next, error>>

TypeOK ==
  /\ count \in 0 .. MaxLayers
  /\ kind \in [AllLayers -> LayerKinds]
  /\ type \in [AllLayers -> {"FB", "OVERLAY", "PRIMARY"}]
  /\ plane \in [AllLayers -> {NoPlane, PrimaryPlane} \cup Overlays]
  /\ fb \subseteq Layers /\ ov \subseteq Layers
  /\ granted \subseteq Overlays /\ avail \subseteq granted
  /\ bad \subseteq AllLayers
  /\ phase \in {"none", "analyze", "update", "ready"}
  /\ next \in -1 .. MaxLayers
  /\ error \in BOOLEAN

Init ==
  /\ count = 0
  /\ kind = [l \in AllLayers |-> "other"]
  /\ type = [l \in AllLayers |-> "FB"]
  /\ plane = [l \in AllLayers |-> NoPlane]
  /\ fb = {} /\ ov = {}
  /\ granted = {} /\ avail = {}
  /\ bad = {}
  /\ phase = "none" /\ next = -1 /\ error = FALSE

-----------------------------------------------------------------------------
\* The buffers of a frame that a plane would refuse.
Refused(kinds, n) == {l \in 0 .. (n - 2) : kinds[l] \in Failing}

\* A new geometry: the old list is deleted with its layers, a new one starts
\* from whatever overlays the other display has left in the pool.  (hwLayers
\* always ends with the framebuffer target.)
NewList ==
  /\ phase \in {"none", "ready"}
  /\ count' \in 1 .. MaxLayers
  /\ kind' \in {k \in [AllLayers -> LayerKinds] :
                  \A l \in AllLayers : l >= count' - 1 => k[l] = "other"}
  /\ type' = [l \in AllLayers |-> "FB"]
  /\ plane' = [l \in AllLayers |-> NoPlane]
  /\ fb' = {} /\ ov' = {}
  /\ granted' \in SUBSET Overlays /\ avail' = granted'
  /\ bad' \in SUBSET Refused(kind', count')
  /\ phase' = "analyze" /\ next' = count' - 1 /\ error' = FALSE

\* getOverlayPlane(): some overlay of the pool; none (0) when it is empty.
TakenOverlay == IF avail = {} THEN {NoPlane} ELSE avail

\* In extended video mode the panel gives its overlay back while the external
\* display is plugged.
GivesBack(p, plugged) == ExtendVideo /\ Panel /\ plugged /\ p # NoPlane

\* Slip: the overlay that is given back stays attached.
PlaneLeftAttached(p, back) == p

PlaneLeft(p, back) == IF back THEN NoPlane ELSE p

\* One turn of the loop of analyzeFrom().  Whether the pool is empty was asked
\* once, when the list was created (freeOverlayCount).  In extended video mode
\* a video layer is an overlay layer whether it has a plane or not.
AnalyzeLayer(l) ==
  \/ /\ l = Target \/ granted = {} \/ kind[l] # "video"
     /\ fb' = fb \cup ({l} \ {Target})
     /\ UNCHANGED <<type, plane, ov, avail>>
  \/ /\ l # Target /\ granted # {} /\ kind[l] = "video"
     /\ \E p \in TakenOverlay, plugged \in BOOLEAN :
          LET back == GivesBack(p, plugged) IN
          /\ plane' = [plane EXCEPT ![l] = PlaneLeft(p, back)]
          /\ avail' = IF back THEN avail \cup {p} ELSE avail \ {p}
          /\ type' = IF p # NoPlane \/ ExtendVideo
                       THEN [type EXCEPT ![l] = "OVERLAY"] ELSE type
     /\ IF type'[l] = "FB" THEN fb' = fb \cup {l} /\ UNCHANGED ov
                           ELSE ov' = ov \cup {l} /\ UNCHANGED fb

Analyze ==
  /\ phase = "analyze" /\ next >= 0
  /\ AnalyzeLayer(next)
  /\ next' = next - 1
  /\ UNCHANGED <<count, kind, granted, bad, phase, error>>

\* Slip: the first FB layer may have the primary plane beside others.
RevisitFirst(t, p, f, o) ==
  LET promoted == {l \in f : kind[l] = "rgb" /\ \A m \in f : l <= m}
      attached == promoted \cup (IF f \ promoted = {} THEN {} ELSE {Target}) IN
  /\ type' = [l \in AllLayers |-> IF l \in attached THEN "PRIMARY" ELSE t[l]]
  /\ plane' = [l \in AllLayers |->
                 IF l \in attached /\ p[l] = NoPlane THEN PrimaryPlane ELSE p[l]]
  /\ fb' = f \ promoted
  /\ ov' = o \cup attached

\* revisit() of a list with types t, planes p, FB layers f and overlay layers
\* o.  A single FB layer that suits the primary plane gets it; if FB layers
\* are left the framebuffer target gets it.  attachPlane() keeps the plane a
\* layer already has, the type is set all the same.
Revisit(t, p, f, o) ==
  LET promoted == {l \in f : f = {l} /\ kind[l] = "rgb"}
      attached == promoted \cup (IF f \ promoted = {} THEN {} ELSE {Target}) IN
  /\ type' = [l \in AllLayers |-> IF l \in attached THEN "PRIMARY" ELSE t[l]]
  /\ plane' = [l \in AllLayers |->
                 IF l \in attached /\ p[l] = NoPlane THEN PrimaryPlane ELSE p[l]]
  /\ fb' = f \ promoted
  /\ ov' = o \cup attached

\* The end of the analysis; prepare() goes on to update().
EndAnalyze ==
  /\ phase = "analyze" /\ next = -1
  /\ Revisit(type, plane, fb, ov)
  /\ phase' = "update" /\ next' = 0
  /\ UNCHANGED <<count, kind, granted, avail, bad, error>>

\* setDataBuffer() of the layer's plane returns false.
Fails(l) == type[l] # "FB" /\ plane[l] # NoPlane /\ l \in bad

\* HwcLayer::update() of each layer in turn; the one that fails becomes an FB
\* layer and keeps its plane attached.
UpdateLayer ==
  /\ phase = "update" /\ next < count
  /\ IF Fails(next)
       THEN /\ Revisit([type EXCEPT ![next] = "FB"], plane, fb \cup {next}, ov \ {next})
            /\ error' = TRUE
       ELSE UNCHANGED <<listVars, error>>
  /\ next' = next + 1
  /\ UNCHANGED <<count, kind, granted, avail, bad, phase>>

\* Slip: the loop goes on after an error even when no plane is left to fail.
EndPassAlwaysAgain ==
  /\ phase = "update" /\ next = count
  /\ IF bad # {}
       THEN next' = 0 /\ UNCHANGED phase
       ELSE phase' = "ready" /\ UNCHANGED next
  /\ error' = FALSE
  /\ UNCHANGED <<count, kind, listVars, granted, avail, bad>>

\* while (updateError && mOverlayLayers.size())
EndPass ==
  /\ phase = "update" /\ next = count
  /\ IF error /\ ov # {}
       THEN next' = 0 /\ UNCHANGED phase
       ELSE phase' = "ready" /\ UNCHANGED next
  /\ error' = FALSE
  /\ UNCHANGED <<count, kind, listVars, granted, avail, bad>>

\* A frame with the same geometry and other buffers.
NextFrame ==
  /\ phase = "ready"
  /\ bad' \in SUBSET Refused(kind, count)
  /\ phase' = "update" /\ next' = 0
  /\ UNCHANGED <<count, kind, listVars, granted, avail, error>>

Next == NewList \/ Analyze \/ EndAnalyze \/ UpdateLayer \/ EndPass \/ NextFrame

Spec == Init /\ [][Next]_vars

\* The composer thread runs.
FairSpec == Spec /\ WF_vars(Analyze \/ EndAnalyze \/ UpdateLayer \/ EndPass)

-----------------------------------------------------------------------------

\* The only layer left to the GPU has the primary plane, which refuses its
\* buffer, and no other plane refuses one: revisit() gives it the plane again
\* in every pass, and update() never returns.
Stuck ==
  /\ fb = {}
  /\ \E l \in bad : /\ type[l] = "PRIMARY"
                    /\ \A m \in bad \ {l} : plane[m] = NoPlane

\* No other frame makes update() loop for ever, whatever buffers are refused
\* in whatever order.
UpdateReturns == phase = "update" /\ ~Stuck ~> phase = "ready"

\* What the comment of revisit() (lines 312-316) says: "we can use primary plane only when
\* all the other layers have been set to OVERLAY layer".  It does not hold: a layer
\* whose buffer is refused in revisit() shares the primary plane.
PrimaryLayerAlone ==
  \A l \in Layers \ {Target} :
    type[l] = "PRIMARY" => \A m \in Layers \ {l, Target} : type[m] = "OVERLAY"
=============================================================================
