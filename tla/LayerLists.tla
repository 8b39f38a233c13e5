------------------------------ MODULE LayerLists ------------------------------
(***************************************************************************)
(* What a layer list of hwc/merrifield (HwcLayerList.cpp) keeps of its     *)
(* layers, and what must hold of it in every frame; HwcLayerList.tla has   *)
(* the operations.                                                         *)
(*                                                                         *)
(* Layers are numbered from the bottom; the last one is the framebuffer    *)
(* target.  What a layer's format, blending and scaling mean to check() is *)
(* its kind: a "video" layer suits the overlays, an "rgb" layer suits the  *)
(* primary plane, an "other" layer neither (no format suits both).         *)
(***************************************************************************)
EXTENDS Integers, FiniteSets

CONSTANTS
  MaxLayers,      \* bound on numHwLayers, the target included
  OverlayCount,   \* overlays of the pool
  Panel,          \* the list is the primary display's (mDisplayIndex = 0)
  ExtendVideo,    \* property hwc.feature.extend.video
  Failing         \* kinds of the layers whose setDataBuffer() may fail

LayerKinds == {"video", "rgb", "other"}

ASSUME BoundAssumption == MaxLayers \in Nat \ {0} /\ OverlayCount \in Nat
ASSUME ModeAssumption == Panel \in BOOLEAN /\ ExtendVideo \in BOOLEAN
ASSUME FailingAssumption == Failing \subseteq LayerKinds

Overlays == 1 .. OverlayCount
PrimaryPlane == 0
NoPlane == -1

VARIABLES
  count,     \* mLayerCount
  kind,      \* what each layer suits
  type,      \* HwcLayer::mType
  plane,     \* HwcLayer::mPlane
  fb, ov,    \* mFBLayers, mOverlayLayers
  granted,   \* overlays the pool had for this list when it was created
  avail,     \* those of them that are still in the pool
  bad,       \* layers whose buffer is refused in this frame
  phase,     \* what the composer thread does with the list
  next,      \* index of the loop it is in
  error      \* updateError

listVars == <<type, plane, fb, ov>>

Layers == 0 .. (count - 1)
Target == count - 1
AllLayers == 0 .. (MaxLayers - 1)

-----------------------------------------------------------------------------
\* The layers that the analysis has been through.
Analysed == IF phase = "analyze" THEN {l \in Layers : l > next} ELSE Layers

\* Every layer is on the list its type says, however often planes were taken
\* away and layers moved: no layer is on both, none on neither.
ListsFollowTypes ==
  /\ fb = {l \in Analysed \ {Target} : type[l] = "FB"}
  /\ ov = {l \in Analysed : type[l] # "FB"}

\* Each overlay granted to the list is attached to one layer or still in the
\* pool, also after layers fell back to the GPU with their plane attached.
OverlaysKept ==
  /\ avail \cup ({plane[l] : l \in Layers} \ {NoPlane, PrimaryPlane}) = granted
  /\ \A l \in Layers : plane[l] \notin avail
  /\ \A l, m \in Layers : plane[l] \in Overlays /\ plane[l] = plane[m] => l = m

\* When update() returns every layer has its way to the screen: one left to
\* the GPU through the framebuffer target on the primary plane, another
\* through its plane; extended video mode alone leaves video out.  Two layers
\* have the primary plane, and one of them is lost under the other, only when
\* buffers were refused: one is the target, the other the layer that had the
\* plane first, and all that the target is there for are layers that still
\* have the plane which refused their buffer.  (revisit() says "only when all
\* the other layers have been set to OVERLAY layer".)
EveryLayerShown ==
  phase = "ready" =>
    /\ \A l \in Layers \ {Target} :
         /\ type[l] = "FB" => type[Target] = "PRIMARY" /\ plane[Target] = PrimaryPlane
         /\ type[l] = "PRIMARY" => plane[l] = PrimaryPlane
         /\ type[l] = "OVERLAY" => plane[l] \in Overlays \/ (ExtendVideo /\ kind[l] = "video")
    /\ \A l, m \in Layers :
         type[l] = "PRIMARY" /\ type[m] = "PRIMARY" /\ l # m =>
           /\ Target \in {l, m}
           /\ fb # {} /\ \A f \in fb : plane[f] # NoPlane
=============================================================================
