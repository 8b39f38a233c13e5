----------------------- MODULE OverlayBuffers_proofs -----------------------
(***************************************************************************)
(* Proofs about the buffers of an overlay plane and about the layer lists  *)
(* that give planes to layers.                                             *)
(*                                                                         *)
(* OverlayBuffers, for any buffers, handles, objects and crops: what is    *)
(* scanned out is mapped, a cached mapper is that of the object which has  *)
(* its handle, a free overlay keeps nothing, and a rotated layer of the    *)
(* panel is shown from a rotated buffer.                                   *)
(*                                                                         *)
(* HwcLayerList (as L below), for any number of layers and overlays, in    *)
(* and outside extended video mode, whatever buffers are refused: layers   *)
(* are on the lists their types say, no overlay is lost or attached twice, *)
(* and update() leaves every layer a way to the screen.                    *)
(***************************************************************************)
EXTENDS OverlayBuffers, LayerLists, TLAPS

L == INSTANCE HwcLayerList

LEMMA NoSourceType == NoSource \in Sources
BY DEF NoSource, Sources

\* What OverlayPlane::setDataBuffer() leaves in the back buffer.
LEMMA SetUpBack ==
  ASSUME TypeOK, NEW src \in Sources, SetUp(src)
  PROVE  /\ back' \in Sources /\ enabled' \in BOOLEAN /\ demoted' \in BOOLEAN
         /\ back'.obj = src.obj /\ back'.gtt = src.gtt
         /\ ~demoted' => enabled' \/ ~demoted
         /\ enabled => enabled'
         /\ demoted => demoted'
<1> USE DEF TypeOK, Sources
<1> DEFINE offsets == BufferOffsetSetup(src, back)
           whole   == CoordinateSetup(src, offsets)
<1>1. offsets \in Sources /\ offsets.obj = src.obj /\ offsets.gtt = src.gtt
  BY DEF BufferOffsetSetup
<1>2. whole \in Sources /\ whole.obj = src.obj /\ whole.gtt = src.gtt
  BY <1>1 DEF CoordinateSetup
<1>3. back' \in {offsets, whole}
  BY DEF SetUp
<1>. QED BY <1>1, <1>2, <1>3 DEF SetUp

LEMMA InitInv == Init => IInv
<1> SUFFICES ASSUME Init PROVE IInv
  OBVIOUS
<1> USE DEF Init, NoSource
<1>1. TypeOK
  BY DEF TypeOK, Sources, Displays
<1>2. ShownInv /\ CacheInv
  BY DEF ShownInv, CacheInv, CachedIsCurrent, Kept
<1>3. PlaceInv /\ RotationInv
  BY DEF PlaceInv, RotationInv, RotationShown, Displays
<1>. QED BY <1>1, <1>2, <1>3 DEF IInv

-----------------------------------------------------------------------------
(* The composer thread, action by action.                                   *)

LEMMA StartPrepareStep == ASSUME IInv, StartPrepare PROVE IInv'
<1> USE DEF IInv, StartPrepare, decoderVars
<1>1. CASE place = "reclaimed"
  <2> USE <1>1 DEF Retire, Disable, InvalidateBufferCache, UnmapGralloc, Surviving
  <2>1. TypeOK'
    BY NoSourceType DEF TypeOK
  <2>2. shown' = NoSource /\ ~enabled'
    BY DEF ShownInv
  <2>3. ShownInv'
    BY <2>2 DEF ShownInv, Kept, NoSource
  <2>4. CacheInv'
    BY DEF CacheInv, CachedIsCurrent
  <2>5. PlaceInv' /\ RotationInv'
    BY DEF PlaceInv, RotationInv, RotationShown, Displays
  <2>. QED BY <2>1, <2>3, <2>4, <2>5
<1>2. CASE place # "reclaimed"
  <2> USE <1>2
  <2>1. TypeOK'
    BY DEF TypeOK
  <2>2. ShownInv' /\ CacheInv'
    BY DEF ShownInv, Kept, CacheInv, CachedIsCurrent
  <2>3. PlaceInv' /\ RotationInv'
    BY DEF PlaceInv, RotationInv, RotationShown, Displays
  <2>. QED BY <2>1, <2>2, <2>3
<1>. QED BY <1>1, <1>2

LEMMA ListStep == ASSUME IInv, PrePrepare \/ Analyze \/ Flip \/ Unplug PROVE IInv'
<1> USE DEF IInv, PrePrepare, Analyze, Flip, Unplug, planeVars, cacheVars, decoderVars
<1>1. TypeOK'
  BY DEF TypeOK, Displays
<1>2. ShownInv' /\ CacheInv'
  BY DEF ShownInv, Kept, CacheInv, CachedIsCurrent
<1>3. PlaceInv'
  BY DEF PlaceInv, Displays
<1>4. RotationInv'
  BY DEF PlaceInv, RotationInv, RotationShown, Displays
<1>. QED BY <1>1, <1>2, <1>3, <1>4

LEMMA AssignStep == ASSUME IInv, Assign PROVE IInv'
<1> USE DEF IInv, Assign, AssignToPipe, Disable, cacheVars, decoderVars
<1>1. TypeOK'
  <2>1. pc' \in {"commit", "map"}
    OBVIOUS
  <2>2. pipe' \in Displays
    BY DEF TypeOK, PlaceInv
  <2>3. enabled' \in BOOLEAN /\ shown' \in Sources
    BY NoSourceType DEF TypeOK
  <2>. QED BY <2>1, <2>2, <2>3 DEF TypeOK
<1>2. ShownInv'
  BY DEF ShownInv, Kept, NoSource
<1>3. CacheInv' /\ PlaceInv'
  BY DEF CacheInv, CachedIsCurrent, PlaceInv, Displays
<1>4. RotationInv'
  BY DEF RotationInv, RotationShown
<1>. QED BY <1>1, <1>2, <1>3, <1>4

LEMMA PostStep == ASSUME IInv, Post PROVE IInv'
<1> USE DEF IInv, Post, planeVars, cacheVars, decoderVars
<1>1. TypeOK'
  BY DEF TypeOK, Sources, NoSource
<1>2. ShownInv'
  BY DEF ShownInv, Kept, NoSource
<1>3. CacheInv' /\ PlaceInv' /\ RotationInv'
  BY DEF CacheInv, CachedIsCurrent, PlaceInv, RotationInv, RotationShown, Displays
<1>. QED BY <1>1, <1>2, <1>3

LEMMA MapBufferStep == ASSUME IInv, NEW b \in Buffers, MapBuffer(b) PROVE IInv'
<1> USE DEF IInv
<1>1. PICK m \in Mappers :
        /\ MapperMade(b, m)
        /\ \/ /\ m = None \/ (NeedsRotated /\ ~payload[b].ready)
              /\ Refuse
              /\ pc' = "commit" /\ UNCHANGED <<buf, enabled>>
           \/ /\ m # None /\ NeedsRotated /\ payload[b].ready
              /\ pc' = "ready" /\ buf' = b
              /\ UNCHANGED <<demoted, back, enabled>>
           \/ /\ m # None /\ ~NeedsRotated
              /\ SetUp([obj |-> b, crop |-> m.crop, gtt |-> m.gtt])
              /\ pc' = "commit" /\ UNCHANGED buf
  BY DEF MapBuffer
<1> DEFINE src == [obj |-> b, crop |-> m.crop, gtt |-> m.gtt]
<1>2. pc = "map" /\ UNCHANGED <<place, layer, pipe, shown, tcache, name, lost, drawn, payload>>
  BY DEF MapBuffer, decoderVars
<1>3. /\ gcache' \in [Buffers -> [crop : Crops, gtt : BOOLEAN] \cup {None}]
      /\ mapped \subseteq mapped' /\ mapped' \subseteq Buffers
      /\ m # None => gcache'[b] = m /\ (m.gtt => b \in mapped')
      /\ \A c \in Buffers : gcache'[c] # None /\ gcache'[c].gtt => c \in mapped'
  BY <1>1 DEF TypeOK, MapperMade, MapGralloc, CacheInv
<1>4. m # None => src \in Sources
  BY DEF Mappers, Sources
<1>5. CacheInv'
  BY <1>2, <1>3 DEF CacheInv, CachedIsCurrent
<1>6. Kept(shown)' /\ (~enabled => shown' = NoSource)
  BY <1>2, <1>3 DEF ShownInv, Kept
<1>7. enabled /\ UNCHANGED back => Kept(back)'
  BY <1>2, <1>3 DEF ShownInv, Kept
<1>8. CASE pc' = "commit" /\ Refuse /\ UNCHANGED <<buf, enabled>>
  <2> USE <1>8 DEF Refuse
  <2>1. TypeOK'
    BY <1>2, <1>3 DEF TypeOK
  <2>2. ShownInv'
    BY <1>2, <1>6, <1>7 DEF ShownInv, NoSource
  <2>3. PlaceInv' /\ RotationInv'
    BY <1>2 DEF PlaceInv, RotationInv, RotationShown, Displays
  <2>. QED BY <1>5, <2>1, <2>2, <2>3
<1>9. CASE m # None /\ NeedsRotated /\ pc' = "ready" /\ buf' = b /\ UNCHANGED <<demoted, back, enabled>>
  <2> USE <1>9
  <2>1. TypeOK'
    BY <1>2, <1>3 DEF TypeOK
  <2>2. ShownInv'
    BY <1>2, <1>6, <1>7 DEF ShownInv, NoSource
  <2>3. PlaceInv' /\ RotationInv'
    BY <1>2, <1>3 DEF PlaceInv, RotationInv, RotationShown, NeedsRotated, Displays
  <2>. QED BY <1>5, <2>1, <2>2, <2>3
<1>10. CASE m # None /\ ~NeedsRotated /\ SetUp(src) /\ pc' = "commit" /\ UNCHANGED buf
  <2> USE <1>10
  <2>1. /\ back' \in Sources /\ enabled' \in BOOLEAN /\ demoted' \in BOOLEAN
        /\ back'.obj = b /\ back'.gtt = m.gtt
        /\ ~demoted' => enabled' \/ ~demoted
        /\ enabled => enabled'
    BY <1>4, SetUpBack
  <2>2. ~demoted' => enabled'
    BY DEF SetUp
  <2>3. TypeOK'
    BY <1>2, <1>3, <2>1 DEF TypeOK
  <2>4. Kept(back)'
    BY <1>3, <2>1 DEF Kept
  <2>5. ShownInv'
    BY <1>2, <1>6, <2>1, <2>4 DEF ShownInv, NoSource
  <2>6. PlaceInv'
    BY <1>2 DEF PlaceInv, Displays
  <2>7. RotationInv'
    BY <1>2, <2>1, <2>2, KindsAssumption DEF PlaceInv, RotationInv, RotationShown, NeedsRotated, Displays
  <2>. QED BY <1>5, <2>3, <2>5, <2>6, <2>7
<1>. QED BY <1>1, <1>8, <1>9, <1>10

LEMMA UseRotatedStep == ASSUME IInv, UseRotated PROVE IInv'
<1> USE DEF IInv
<1> DEFINE h == payload[buf].handle
           m == [obj |-> name[h], crop |-> gcache[buf].crop]
           source(t) == [obj |-> t.obj, crop |-> t.crop, gtt |-> TRUE]
<1>1. /\ pc = "ready" /\ pc' = "commit"
      /\ UNCHANGED <<place, layer, buf, pipe, shown, gcache, mapped, name, drawn, payload>>
  BY DEF UseRotated, decoderVars
<1>2. h \in Handles /\ gcache[buf].crop \in Crops /\ buf \in Buffers
  BY <1>1 DEF TypeOK, PlaceInv
<1>3. /\ place \in Displays /\ layer.rotated
      /\ place' # "free" /\ pipe = place
  BY <1>1 DEF PlaceInv, Displays
<1>4. ASSUME tcache' \in [Handles -> [obj : Objects, crop : Crops] \cup {None}],
             \A g \in Handles : tcache[g] # None => tcache'[g] = tcache[g],
             \A g \in Handles : tcache'[g] # None => tcache'[g].obj = name[g],
             tcache'[h] # None, SetUp(source(tcache'[h])), UNCHANGED lost
      PROVE  IInv'
  <2>1. tcache'[h] \in [obj : Objects, crop : Crops]
    BY <1>2, <1>4
  <2>2. source(tcache'[h]) \in Sources
    BY <2>1 DEF Sources
  <2>3. /\ back' \in Sources /\ enabled' \in BOOLEAN /\ demoted' \in BOOLEAN
        /\ back'.obj = tcache'[h].obj
        /\ ~demoted' => enabled' \/ ~demoted
        /\ enabled => enabled'
    BY <1>4, <2>2, SetUpBack
  <2>4. ~demoted' => enabled'
    BY <1>4 DEF SetUp
  <2>5. TypeOK'
    BY <1>1, <1>4, <2>3 DEF TypeOK
  <2>6. CacheInv'
    BY <1>1, <1>4 DEF CacheInv, CachedIsCurrent
  <2>7. Kept(back)'
    BY <1>2, <1>4, <2>1, <2>3, KindsAssumption DEF Kept
  <2>8. Kept(shown)'
    BY <1>1, <1>4 DEF ShownInv, Kept
  <2>9. ShownInv'
    BY <1>1, <2>3, <2>7, <2>8 DEF ShownInv, NoSource
  <2>10. PlaceInv' /\ RotationInv'
    BY <1>1, <1>3, <2>1, <2>3, <2>4 DEF PlaceInv, RotationInv, RotationShown, Displays
  <2>. QED BY <2>5, <2>6, <2>9, <2>10
<1>5. CASE tcache[h] # None /\ SetUp(source(tcache[h])) /\ UNCHANGED <<tcache, lost>>
  BY <1>4, <1>5 DEF TypeOK, CacheInv, CachedIsCurrent
<1>6. CASE /\ tcache[h] = None /\ Wraps(h)
           /\ tcache' = [tcache EXCEPT ![h] = m]
           /\ SetUp(source(m)) /\ UNCHANGED lost
  <2>1. m \in [obj : Objects, crop : Crops]
    BY <1>2, <1>6 DEF TypeOK, Wraps
  <2>2. m # None
    BY <2>1, MapperAssumption
  <2>3. tcache' \in [Handles -> [obj : Objects, crop : Crops] \cup {None}] /\ tcache'[h] = m
    BY <1>2, <1>6, <2>1 DEF TypeOK
  <2>4. \A g \in Handles : /\ tcache[g] # None => tcache'[g] = tcache[g]
                           /\ tcache'[g] # None => tcache'[g].obj = name[g]
    BY <1>2, <1>6 DEF TypeOK, CacheInv, CachedIsCurrent
  <2>. QED BY <1>4, <1>6, <2>2, <2>3, <2>4
<1>7. CASE /\ tcache[h] = None
           /\ lost' \in {lost, lost \cup ({name[h]} \ {None})}
           /\ Refuse /\ UNCHANGED <<tcache, enabled>>
  <2> USE <1>1, <1>7 DEF Refuse
  <2>1. TypeOK'
    BY <1>2 DEF TypeOK
  <2>2. ShownInv' /\ CacheInv'
    BY DEF ShownInv, Kept, CacheInv, CachedIsCurrent
  <2>3. PlaceInv' /\ RotationInv'
    BY <1>3 DEF PlaceInv, RotationInv, RotationShown, Displays
  <2>. QED BY <2>1, <2>2, <2>3
<1>. QED BY <1>5, <1>6, <1>7 DEF UseRotated

-----------------------------------------------------------------------------
(* The decoder touches neither the plane nor its caches.                    *)

LEMMA DecoderStep ==
  ASSUME IInv,
         \/ \E b \in Buffers : Draw(b)
         \/ \E h \in Handles : FreeRotated(h) \/ \E o \in Objects : AllocRotated(h, o)
  PROVE  IInv'
<1> USE DEF IInv
<1>1. UNCHANGED <<loopVars, planeVars, gcache, tcache, mapped, lost, shown>>
  BY DEF Draw, FreeRotated, AllocRotated, cacheVars
<1>2. TypeOK'
  BY DEF TypeOK, Draw, FreeRotated, AllocRotated, Surviving, loopVars, planeVars, cacheVars, decoderVars
<1>3. \A h \in Handles : tcache[h] # None => name'[h] = name[h]
  <2>1. CASE \E b \in Buffers : Draw(b)
    BY <2>1 DEF Draw, cacheVars
  <2>2. CASE \E h \in Handles : FreeRotated(h)
    BY <2>2 DEF FreeRotated, Surviving
  <2>3. ASSUME NEW h \in Handles, NEW o \in Objects, AllocRotated(h, o)
        PROVE  \A g \in Handles : tcache[g] # None => name'[g] = name[g]
    <3>1. tcache[h] = None
      BY <2>3, NoneAssumption DEF AllocRotated, TypeOK, CacheInv, CachedIsCurrent
    <3>. QED BY <2>3, <3>1 DEF AllocRotated, TypeOK
  <2>. QED BY <2>1, <2>2, <2>3
<1>4. CacheInv'
  BY <1>1, <1>3 DEF CacheInv, CachedIsCurrent
<1>5. ShownInv' /\ PlaceInv' /\ RotationInv'
  BY <1>1 DEF ShownInv, Kept, PlaceInv, RotationInv, RotationShown, loopVars, planeVars
<1>. QED BY <1>2, <1>4, <1>5

-----------------------------------------------------------------------------
\* The inductive invariant holds in every state of every behaviour of the plane,
\* the hotplug thread and the decoder.
THEOREM Invariance == Spec => []IInv
<1>1. IInv /\ [Next]_vars => IInv'
  <2> SUFFICES ASSUME IInv, [Next]_vars PROVE IInv'
    OBVIOUS
  <2>1. CASE UNCHANGED vars
    BY <2>1 DEF vars, loopVars, planeVars, cacheVars, decoderVars, IInv, TypeOK, ShownInv, Kept,
                CacheInv, CachedIsCurrent, PlaceInv, RotationInv, RotationShown
  <2>2. CASE Next
    BY <2>2, StartPrepareStep, ListStep, AssignStep, MapBufferStep, UseRotatedStep, PostStep,
       DecoderStep DEF Next
  <2>. QED BY <2>1, <2>2
<1>. QED BY <1>1, InitInv, PTL DEF Spec

\* The variables keep their types.
THEOREM TypeCorrect == Spec => []TypeOK
<1>1. IInv => TypeOK
  BY DEF IInv
<1>. QED BY <1>1, Invariance, PTL

\* The display controller never reads a buffer that was unmapped or whose object
\* was destroyed (Disable before the caches are cleared; a mapper refers to its
\* object).
THEOREM ShownIsMappedHolds == Spec => []ShownIsMapped
<1>1. IInv => ShownIsMapped
  BY DEF IInv, ShownInv, Kept, CacheInv, CachedIsCurrent, ShownIsMapped
<1>. QED BY <1>1, Invariance, PTL

\* The decoder cannot put another object under a handle that is cached.
THEOREM CachedIsCurrentHolds == Spec => []CachedIsCurrent
<1>1. IInv => CachedIsCurrent
  BY DEF IInv, CacheInv
<1>. QED BY <1>1, Invariance, PTL

\* An overlay reaches the free bitmap dark and with empty caches.
THEOREM FreeKeepsNothingHolds == Spec => []FreeKeepsNothing
<1>1. IInv => FreeKeepsNothing
  BY DEF IInv, ShownInv, PlaceInv, FreeKeepsNothing
<1>. QED BY <1>1, Invariance, PTL

\* What the panel shows of a rotated layer is a rotated buffer.
THEOREM RotationShownHolds == Spec => []RotationShown
<1>1. IInv => RotationShown
  BY DEF IInv, RotationInv
<1>. QED BY <1>1, Invariance, PTL

-----------------------------------------------------------------------------
(* The layer lists.                                                         *)

ListTypes ==
  /\ count \in 0 .. MaxLayers
  /\ kind \in [L!AllLayers -> L!LayerKinds]
  /\ type \in [L!AllLayers -> {"FB", "OVERLAY", "PRIMARY"}]
  /\ plane \in [L!AllLayers -> {L!NoPlane, L!PrimaryPlane} \cup L!Overlays]
  /\ granted \subseteq L!Overlays
  /\ phase \in {"none", "analyze", "update", "ready"}
  /\ next \in Int

\* Where the loops are, and what the analysis has not reached yet.
LoopInv ==
  /\ phase # "none" => count > 0
  /\ phase = "none" => count = 0 /\ granted = {} /\ avail = {}
  /\ phase = "analyze" =>
       /\ next \in -1 .. L!Target
       /\ \A l \in L!Layers : l <= next \/ l = L!Target => type[l] = "FB" /\ plane[l] = L!NoPlane
  /\ phase = "update" => next \in 0 .. count
  /\ bad \subseteq L!Layers \ {L!Target}

\* What a layer's type and plane say of its kind, and each other.
KindInv ==
  \A l \in L!Layers :
    /\ l = L!Target => kind[l] = "other"
    /\ plane[l] \in L!Overlays => kind[l] = "video"
    /\ type[l] = "OVERLAY" => kind[l] = "video" /\ (plane[l] \in L!Overlays \/ ExtendVideo)
    /\ type[l] = "PRIMARY" => plane[l] = L!PrimaryPlane

\* Once the list has been analysed the target stands in for the FB layers.
StandsInv == phase \in {"update", "ready"} /\ fb # {} => type[L!Target] = "PRIMARY"

ListInv == ListTypes /\ LoopInv /\ KindInv /\ StandsInv /\ L!ListsFollowTypes /\ L!OverlaysKept

-----------------------------------------------------------------------------
LEMMA InitList == L!Init => ListInv
<1> SUFFICES ASSUME L!Init PROVE ListInv
  OBVIOUS
<1>1. ListTypes
  BY BoundAssumption DEF L!Init, ListTypes, L!AllLayers, L!LayerKinds, L!NoPlane
<1>2. L!Layers = {}
  BY DEF L!Init, L!Layers
<1>3. LoopInv /\ KindInv /\ StandsInv /\ L!ListsFollowTypes /\ L!OverlaysKept
  BY <1>2 DEF L!Init, LoopInv, KindInv, StandsInv, L!ListsFollowTypes, L!OverlaysKept,
              L!Analysed
<1>. QED BY <1>1, <1>3 DEF ListInv

LEMMA LayersAreAll == ASSUME ListTypes PROVE L!Layers \subseteq L!AllLayers
  BY BoundAssumption DEF ListTypes, L!Layers, L!AllLayers

\* A new list has no planes and no list entries.
LEMMA NewListStep == ASSUME ListInv, L!NewList PROVE ListInv'
<1>1. /\ phase' = "analyze" /\ next' = count' - 1
      /\ type' = [l \in L!AllLayers |-> "FB"] /\ plane' = [l \in L!AllLayers |-> L!NoPlane]
      /\ fb' = {} /\ ov' = {} /\ avail' = granted' /\ granted' \subseteq L!Overlays
      /\ bad' \subseteq L!Refused(kind', count')
  BY DEF L!NewList
<1>2. PICK n \in 1 .. MaxLayers : count' = n
  BY DEF L!NewList
<1>3. /\ n \in Int /\ n - 1 \in 0 .. (MaxLayers - 1) /\ n > 0 /\ n - 1 >= n - 1
      /\ n - 1 \in -1 .. (n - 1) /\ 0 .. (n - 1) \subseteq 0 .. (MaxLayers - 1)
      /\ \A l \in 0 .. (n - 2) : l \in 0 .. (n - 1) /\ l # n - 1
  BY BoundAssumption
<1>4. kind' \in [L!AllLayers -> L!LayerKinds] /\ kind'[count' - 1] = "other"
  BY <1>2, <1>3, Zenon DEF L!NewList, L!AllLayers
<1>5. /\ L!Layers' = 0 .. (n - 1) /\ L!Layers' \subseteq L!AllLayers /\ L!Target' = n - 1
      /\ \A l \in L!Layers' : type'[l] = "FB" /\ plane'[l] = L!NoPlane
  <2>1. L!Layers' = 0 .. (n - 1) /\ L!Layers' \subseteq L!AllLayers /\ L!Target' = n - 1
    BY <1>2, <1>3, Zenon DEF L!Layers, L!AllLayers, L!Target
  <2>. QED BY <2>1, <1>1
<1>6. ListTypes'
  BY <1>2, <1>1, <1>4 DEF ListTypes, L!NoPlane
<1>7. bad' \subseteq L!Layers' \ {L!Target'}
  <2>1. L!Refused(kind', n) \subseteq 0 .. (n - 2)
    BY DEF L!Refused
  <2>. QED BY <1>2, <1>3, <1>1, <1>5, <2>1, Zenon
<1>8. LoopInv'
  <2>1. count' > 0 /\ next' \in -1 .. L!Target'
    BY <1>2, <1>3, <1>1, <1>5, Zenon
  <2>. QED BY <1>1, <1>5, <1>7, <2>1 DEF LoopInv
<1>9. KindInv' /\ StandsInv'
  <2>1. L!NoPlane \notin L!Overlays
    BY DEF L!NoPlane, L!Overlays
  <2>2. kind'[L!Target'] = "other"
    BY <1>2, <1>4, <1>5
  <2>. QED BY <1>1, <1>5, <2>1, <2>2 DEF KindInv, StandsInv
<1>10. L!ListsFollowTypes'
  BY <1>1, <1>5 DEF L!ListsFollowTypes, L!Analysed, L!Layers
<1>11. L!OverlaysKept'
  <2>1. {plane'[l] : l \in L!Layers'} \subseteq {L!NoPlane}
    BY <1>5
  <2>2. L!NoPlane \notin L!Overlays
    BY DEF L!NoPlane, L!Overlays
  <2>. QED BY <1>1, <1>5, <2>1, <2>2 DEF L!OverlaysKept
<1>. QED BY <1>6, <1>8, <1>9, <1>10, <1>11 DEF ListInv

\* One layer of the analysis.
LEMMA AnalyzeListStep == ASSUME ListInv, L!Analyze PROVE ListInv'
<1> USE BoundAssumption DEF L!AllLayers, L!Layers, L!Target, L!Overlays, L!NoPlane, L!PrimaryPlane
<1>0. /\ phase = "analyze" /\ next \in L!Layers /\ next' = next - 1
      /\ L!AnalyzeLayer(next) /\ type[next] = "FB" /\ plane[next] = L!NoPlane
      /\ UNCHANGED <<count, kind, granted, bad, phase, error>>
  BY DEF ListInv, LoopInv, ListTypes, L!Analyze
<1>1. CASE next = L!Target \/ granted = {} \/ kind[next] # "video"
  <2>1. UNCHANGED <<type, plane, ov, avail>> /\ fb' = fb \cup ({next} \ {L!Target})
    BY <1>0, <1>1 DEF L!AnalyzeLayer
  <2>2. ListTypes' /\ LoopInv' /\ KindInv' /\ StandsInv' /\ L!OverlaysKept'
    BY <1>0, <2>1 DEF ListInv, ListTypes, LoopInv, KindInv, StandsInv, L!OverlaysKept
  <2>3. L!ListsFollowTypes'
    BY <1>0, <2>1 DEF ListInv, ListTypes, LoopInv, L!ListsFollowTypes, L!Analysed
  <2>. QED BY <2>2, <2>3 DEF ListInv
<1>2. CASE ~(next = L!Target \/ granted = {} \/ kind[next] # "video")
  <2>1. PICK p \in L!TakenOverlay, plugged \in BOOLEAN :
          LET returned == L!GivesBack(p, plugged) IN
          /\ plane' = [plane EXCEPT ![next] = L!PlaneLeft(p, returned)]
          /\ avail' = IF returned THEN avail \cup {p} ELSE avail \ {p}
          /\ type' = IF p # L!NoPlane \/ ExtendVideo
                       THEN [type EXCEPT ![next] = "OVERLAY"] ELSE type
    BY <1>0, <1>2 DEF L!AnalyzeLayer
  <2>2. IF type'[next] = "FB" THEN fb' = fb \cup {next} /\ UNCHANGED ov
                              ELSE ov' = ov \cup {next} /\ UNCHANGED fb
    BY <1>0, <1>2 DEF L!AnalyzeLayer
  <2>3. p \in L!Overlays \cup {L!NoPlane} /\ (p # L!NoPlane => p \in avail)
    BY DEF L!TakenOverlay, ListInv, ListTypes, L!OverlaysKept
  <2>4. \/ L!GivesBack(p, plugged) /\ plane' = plane /\ avail' = avail /\ ExtendVideo
        \/ /\ ~L!GivesBack(p, plugged)
           /\ plane' = [plane EXCEPT ![next] = p] /\ avail' = avail \ {p}
    BY <1>0, <2>1, <2>3 DEF L!GivesBack, L!PlaneLeft, ListInv, ListTypes
  <2>5. ListTypes'
    BY <1>0, <2>1, <2>3, <2>4 DEF ListInv, ListTypes
  <2>6. \A l \in L!Layers : l # next => type'[l] = type[l] /\ plane'[l] = plane[l]
    BY <1>0, <2>1, <2>4 DEF ListInv, ListTypes
  <2>7. LoopInv'
    BY <1>0, <1>2, <2>5, <2>6 DEF ListInv, ListTypes, LoopInv
  <2>8. type'[next] = IF p # L!NoPlane \/ ExtendVideo THEN "OVERLAY" ELSE "FB"
    BY <1>0, <2>1 DEF ListInv, ListTypes
  <2>9. KindInv' /\ StandsInv'
    <3>1. kind[next] = "video" /\ plane'[next] \in {p, L!NoPlane}
      BY <1>0, <1>2, <2>4 DEF ListInv, ListTypes
    <3>2. p # L!NoPlane => plane'[next] = p \/ ExtendVideo
      BY <1>0, <2>4 DEF ListInv, ListTypes
    <3>. QED BY <1>0, <1>2, <2>3, <2>6, <2>8, <3>1, <3>2
                DEF ListInv, KindInv, StandsInv
  <2>10. L!ListsFollowTypes'
    <3>1. L!Analysed = {l \in L!Layers : l > next} /\ L!Analysed' = {l \in L!Layers : l > next - 1}
      BY <1>0 DEF L!Analysed
    <3>2. L!Analysed' = L!Analysed \cup {next} /\ next \notin L!Analysed /\ next # L!Target
      BY <1>0, <1>2, <3>1
    <3>3. \A l \in L!Analysed : type'[l] = type[l]
      BY <2>6, <3>1, <3>2
    <3>. QED BY <1>0, <2>2, <3>2, <3>3 DEF ListInv, L!ListsFollowTypes
  <2>11. L!OverlaysKept'
    <3>1. CASE plane' = plane /\ avail' = avail
      BY <1>0, <3>1 DEF ListInv, L!OverlaysKept
    <3>2. CASE p = L!NoPlane /\ plane' = [plane EXCEPT ![next] = p] /\ avail' = avail \ {p}
      <4>1. plane' = plane
        BY <1>0, <3>2 DEF ListInv, ListTypes
      <4>2. avail' = avail
        BY <3>2 DEF ListInv, ListTypes, L!OverlaysKept
      <4>. QED BY <1>0, <4>1, <4>2 DEF ListInv, L!OverlaysKept
    <3>3. CASE p # L!NoPlane /\ plane' = [plane EXCEPT ![next] = p] /\ avail' = avail \ {p}
      <4>1. plane'[next] = p
        BY <1>0, <3>3 DEF ListInv, ListTypes
      <4>2. p \in L!Overlays /\ p \in avail
        BY <2>3, <3>3
      <4>3. {plane'[l] : l \in L!Layers} \ {L!NoPlane, L!PrimaryPlane}
              = ({plane[l] : l \in L!Layers} \ {L!NoPlane, L!PrimaryPlane}) \cup {p}
        BY <1>0, <2>6, <4>1, <4>2
      <4>4. avail' \cup ({plane'[l] : l \in L!Layers'} \ {L!NoPlane, L!PrimaryPlane}) = granted'
        BY <1>0, <3>3, <4>2, <4>3 DEF ListInv, L!OverlaysKept
      <4>5. \A l \in L!Layers' : plane'[l] \notin avail'
        BY <1>0, <2>6, <3>3, <4>1 DEF ListInv, L!OverlaysKept
      <4>6. \A l, m \in L!Layers' : plane'[l] \in L!Overlays /\ plane'[l] = plane'[m] => l = m
        BY <1>0, <2>6, <4>1, <4>2 DEF ListInv, L!OverlaysKept
      <4>. QED BY <4>4, <4>5, <4>6 DEF L!OverlaysKept
    <3>. QED BY <2>4, <3>1, <3>2, <3>3
  <2>. QED BY <2>5, <2>7, <2>9, <2>10, <2>11 DEF ListInv
<1>. QED BY <1>1, <1>2

\* revisit() of a list that is in order gives a list that is in order.  The
\* layer l0 that failed, if there is one, is given as an FB layer.
LEMMA RevisitStep ==
  ASSUME ListTypes, count > 0, KindInv, L!OverlaysKept,
         NEW STATE t, NEW STATE f, NEW STATE o,
         t \in [L!AllLayers -> {"FB", "OVERLAY", "PRIMARY"}],
         \A l \in L!Layers : t[l] = type[l] \/ t[l] = "FB",
         f = {l \in L!Layers \ {L!Target} : t[l] = "FB"},
         o = {l \in L!Layers : t[l] # "FB"},
         L!Revisit(t, plane, f, o),
         UNCHANGED <<count, kind, granted, avail>>,
         phase' \in {"update", "ready"}, next' \in Int
  PROVE  /\ ListTypes' /\ KindInv' /\ StandsInv' /\ L!ListsFollowTypes' /\ L!OverlaysKept'
<1> DEFINE promoted == {l \in f : f = {l} /\ kind[l] = "rgb"}
           attached == promoted \cup (IF f \ promoted = {} THEN {} ELSE {L!Target})
<1>1. /\ type' = [l \in L!AllLayers |-> IF l \in attached THEN "PRIMARY" ELSE t[l]]
      /\ plane' = [l \in L!AllLayers |->
                     IF l \in attached /\ plane[l] = L!NoPlane THEN L!PrimaryPlane ELSE plane[l]]
      /\ fb' = f \ promoted /\ ov' = o \cup attached
  BY DEF L!Revisit
<1>2. /\ L!Layers' = L!Layers /\ L!Target' = L!Target /\ L!Layers \subseteq L!AllLayers
      /\ L!Target \in L!Layers /\ L!Analysed' = L!Layers
  BY LayersAreAll DEF L!Layers, L!Target, ListTypes, L!Analysed
<1>3. attached \subseteq L!Layers /\ promoted \subseteq f
  BY <1>2
<1>4. ListTypes'
  BY <1>1 DEF ListTypes
<1>5. L!NoPlane \notin L!Overlays /\ L!PrimaryPlane \notin L!Overlays /\ L!PrimaryPlane # L!NoPlane
  BY DEF L!NoPlane, L!PrimaryPlane, L!Overlays
<1> HIDE DEF promoted, attached
<1>6. \A l \in L!Layers :
        /\ l \in attached => type'[l] = "PRIMARY"
        /\ l \notin attached => type'[l] = t[l]
        /\ l \in attached /\ plane[l] = L!NoPlane => plane'[l] = L!PrimaryPlane
        /\ l \notin attached \/ plane[l] # L!NoPlane => plane'[l] = plane[l]
  <2> SUFFICES ASSUME NEW l \in L!AllLayers
               PROVE  /\ type'[l] = IF l \in attached THEN "PRIMARY" ELSE t[l]
                      /\ plane'[l] = IF l \in attached /\ plane[l] = L!NoPlane
                                       THEN L!PrimaryPlane ELSE plane[l]
    BY <1>2, Zenon
  <2>. QED BY <1>1, Zenon
<1>7. \A l \in attached : kind[l] # "video"
  BY <1>2 DEF attached, promoted, KindInv
<1>8. KindInv'
  <2>1. \A l \in attached : plane[l] \notin L!Overlays
    BY <1>3, <1>7 DEF KindInv
  <2>2. \A l \in attached : plane'[l] = L!PrimaryPlane
    <3> SUFFICES ASSUME NEW l \in attached PROVE plane'[l] = L!PrimaryPlane
      OBVIOUS
    <3>1. plane[l] \in {L!NoPlane, L!PrimaryPlane}
      BY <1>2, <1>3, <2>1 DEF ListTypes
    <3>. QED BY <1>3, <1>6, <3>1
  <2>3. \A l \in L!Layers \ attached : plane'[l] = plane[l] /\ type'[l] = t[l]
    BY <1>6
  <2>4. \A l \in attached : type'[l] = "PRIMARY"
    BY <1>3, <1>6
  <2> SUFFICES ASSUME NEW l \in L!Layers
               PROVE  /\ l = L!Target => kind[l] = "other"
                      /\ plane'[l] \in L!Overlays => kind[l] = "video"
                      /\ type'[l] = "OVERLAY" => kind[l] = "video" /\ (plane'[l] \in L!Overlays \/ ExtendVideo)
                      /\ type'[l] = "PRIMARY" => plane'[l] = L!PrimaryPlane
    BY <1>2 DEF KindInv
  <2>5. CASE l \in attached
    BY <1>5, <2>2, <2>4, <2>5 DEF KindInv
  <2>6. CASE l \notin attached
    BY <2>3, <2>6 DEF KindInv
  <2>. QED BY <2>5, <2>6
<1>9. StandsInv'
  BY <1>1, <1>2, <1>6 DEF StandsInv, attached
<1>10. L!ListsFollowTypes'
  <2>1. fb' = {l \in L!Layers \ {L!Target} : type'[l] = "FB"}
    BY <1>1, <1>2, <1>3, <1>6 DEF attached
  <2>2. ov' = {l \in L!Layers : type'[l] # "FB"}
    BY <1>1, <1>2, <1>3, <1>6
  <2>. QED BY <1>2, <2>1, <2>2 DEF L!ListsFollowTypes
<1>11. L!OverlaysKept'
  <2>1. \A l \in L!Layers : plane'[l] = plane[l] \/ (plane[l] = L!NoPlane /\ plane'[l] = L!PrimaryPlane)
    <3> SUFFICES ASSUME NEW l \in L!Layers
                 PROVE  plane'[l] = plane[l] \/ (plane[l] = L!NoPlane /\ plane'[l] = L!PrimaryPlane)
      OBVIOUS
    <3>1. CASE l \in attached /\ plane[l] = L!NoPlane
      BY <1>6, <3>1
    <3>2. CASE ~(l \in attached /\ plane[l] = L!NoPlane)
      BY <1>6, <3>2
    <3>. QED BY <3>1, <3>2
  <2>2. {plane'[l] : l \in L!Layers} \ {L!NoPlane, L!PrimaryPlane}
          = {plane[l] : l \in L!Layers} \ {L!NoPlane, L!PrimaryPlane}
    BY <2>1
  <2>3. L!PrimaryPlane \notin avail
    BY <1>5 DEF L!OverlaysKept, ListTypes
  <2>. QED BY <1>2, <1>5, <2>1, <2>2, <2>3 DEF L!OverlaysKept
<1>. QED BY <1>4, <1>8, <1>9, <1>10, <1>11

LEMMA EndAnalyzeStep == ASSUME ListInv, L!EndAnalyze PROVE ListInv'
<1>1. /\ L!Revisit(type, plane, fb, ov) /\ phase = "analyze" /\ next = -1
      /\ phase' = "update" /\ next' = 0
      /\ UNCHANGED <<count, kind, granted, avail, bad>>
  BY DEF L!EndAnalyze
<1>2. L!Analysed = L!Layers /\ count > 0
  BY <1>1 DEF ListInv, LoopInv, L!Analysed, L!Layers, ListTypes
<1>3. /\ fb = {l \in L!Layers \ {L!Target} : type[l] = "FB"}
      /\ ov = {l \in L!Layers : type[l] # "FB"}
  BY <1>2 DEF ListInv, L!ListsFollowTypes
<1>4. ListTypes' /\ KindInv' /\ StandsInv' /\ L!ListsFollowTypes' /\ L!OverlaysKept'
  BY <1>1, <1>2, <1>3, RevisitStep DEF ListInv, ListTypes
<1>5. LoopInv'
  BY <1>1, <1>2 DEF ListInv, LoopInv, L!Layers, L!Target, ListTypes
<1>. QED BY <1>4, <1>5 DEF ListInv

LEMMA UpdateListStep == ASSUME ListInv, L!UpdateLayer PROVE ListInv'
<1>1. /\ phase = "update" /\ next < count /\ next' = next + 1
      /\ UNCHANGED <<count, kind, granted, avail, bad, phase>>
  BY DEF L!UpdateLayer
<1>2. next \in L!Layers /\ count > 0
  BY <1>1 DEF ListInv, LoopInv, L!Layers, ListTypes
<1>3. LoopInv'
  BY <1>1, <1>2 DEF ListInv, LoopInv, L!Layers, L!Target, ListTypes
<1>4. CASE ~L!Fails(next)
  <2>1. UNCHANGED L!listVars
    BY <1>4 DEF L!UpdateLayer
  <2>. QED BY <1>1, <1>3, <2>1 DEF L!listVars, ListInv, ListTypes, KindInv, StandsInv,
             L!ListsFollowTypes, L!OverlaysKept, L!Analysed, L!Layers, L!Target
<1>5. CASE L!Fails(next)
  <2> DEFINE t == [type EXCEPT ![next] = "FB"]
  <2>1. L!Revisit(t, plane, fb \cup {next}, ov \ {next})
    BY <1>5 DEF L!UpdateLayer
  <2>2. next # L!Target
    BY <1>5 DEF L!Fails, ListInv, LoopInv
  <2>3. next \in L!AllLayers
    BY <1>2, LayersAreAll DEF ListInv
  <2>4. /\ t \in [L!AllLayers -> {"FB", "OVERLAY", "PRIMARY"}]
        /\ t[next] = "FB" /\ \A l \in L!Layers : l # next => t[l] = type[l]
    BY <2>3, LayersAreAll DEF ListInv, ListTypes
  <2> HIDE DEF t
  <2>5. L!Analysed = L!Layers
    BY <1>1 DEF L!Analysed
  <2>6. /\ fb \cup {next} = {l \in L!Layers \ {L!Target} : t[l] = "FB"}
        /\ ov \ {next} = {l \in L!Layers : t[l] # "FB"}
    BY <1>2, <2>2, <2>4, <2>5 DEF ListInv, L!ListsFollowTypes
  <2>7. \A l \in L!Layers : t[l] = type[l] \/ t[l] = "FB"
    BY <2>4
  <2>8. phase' \in {"update", "ready"} /\ next' \in Int
    BY <1>1 DEF ListInv, ListTypes
  <2>9. ListTypes' /\ KindInv' /\ StandsInv' /\ L!ListsFollowTypes' /\ L!OverlaysKept'
    BY <1>1, <1>2, <2>1, <2>4, <2>6, <2>7, <2>8, RevisitStep DEF ListInv
  <2>. QED BY <1>3, <2>9 DEF ListInv
<1>. QED BY <1>4, <1>5

LEMMA LoopListStep == ASSUME ListInv, L!EndPass \/ L!NextFrame PROVE ListInv'
<1>1. /\ UNCHANGED <<count, kind, type, plane, fb, ov, granted, avail>>
      /\ phase \in {"update", "ready"} /\ phase' \in {"update", "ready"}
      /\ next' \in {next, 0}
      /\ bad' = bad \/ bad' \subseteq L!Refused(kind, count)
      /\ phase = "ready" => next' = 0
  BY DEF L!EndPass, L!NextFrame, L!listVars
<1>2. ListTypes' /\ KindInv' /\ StandsInv' /\ L!ListsFollowTypes' /\ L!OverlaysKept'
  BY <1>1 DEF ListInv, ListTypes, KindInv, StandsInv, L!ListsFollowTypes, L!OverlaysKept,
              L!Analysed, L!Layers, L!Target
<1>3. bad' \subseteq L!Layers \ {L!Target}
  <2>1. L!Refused(kind, count) \subseteq 0 .. (count - 2)
    BY DEF L!Refused
  <2>2. count \in Int
    BY DEF ListInv, ListTypes
  <2>3. \A l \in 0 .. (count - 2) : l \in 0 .. (count - 1) /\ l # count - 1
    BY <2>2
  <2>. QED BY <1>1, <2>1, <2>3 DEF ListInv, LoopInv, L!Layers, L!Target
<1>4. LoopInv'
  BY <1>1, <1>3 DEF ListInv, LoopInv, ListTypes, L!Layers, L!Target
<1>. QED BY <1>2, <1>4 DEF ListInv

\* Who has the primary plane: nobody while the list is analysed; afterwards
\* beside a layer that has it the others have overlays, or an FB layer has
\* the plane that refused its buffer, and the target has it for FB layers.
PrimaryInv ==
  /\ phase = "analyze" => \A l \in L!Layers : type[l] # "PRIMARY"
  /\ phase \in {"update", "ready"} =>
       /\ \A l \in L!Layers \ {L!Target} : type[l] = "PRIMARY" =>
            \A m \in L!Layers \ {l, L!Target} :
              type[m] = "OVERLAY" \/ (type[m] = "FB" /\ plane[m] # L!NoPlane)
       /\ type[L!Target] = "PRIMARY" => fb # {}

\* What revisit() does to the layers besides their types: it promotes one
\* layer that is alone, and the target when FB layers are left.
LEMMA RevisitChanges ==
  ASSUME ListTypes, count > 0,
         NEW STATE t, NEW STATE f, NEW STATE o,
         t \in [L!AllLayers -> {"FB", "OVERLAY", "PRIMARY"}],
         f \subseteq L!Layers \ {L!Target},
         L!Revisit(t, plane, f, o),
         UNCHANGED count
  PROVE  /\ L!Layers' = L!Layers /\ L!Target' = L!Target /\ L!Target \in L!Layers
         /\ \A l \in L!Layers : plane[l] # L!NoPlane => plane'[l] # L!NoPlane
         /\ \/ /\ fb' = f /\ \A l \in L!Layers \ {L!Target} : type'[l] = t[l]
               /\ f = {} => type'[L!Target] = t[L!Target]
            \/ \E r \in f :
                 /\ f = {r} /\ kind[r] = "rgb" /\ fb' = {}
                 /\ type'[r] = "PRIMARY"
                 /\ \A l \in L!Layers \ {r} : type'[l] = t[l]
<1> DEFINE promoted == {l \in f : f = {l} /\ kind[l] = "rgb"}
           attached == promoted \cup (IF f \ promoted = {} THEN {} ELSE {L!Target})
<1>1. /\ type' = [l \in L!AllLayers |-> IF l \in attached THEN "PRIMARY" ELSE t[l]]
      /\ plane' = [l \in L!AllLayers |->
                     IF l \in attached /\ plane[l] = L!NoPlane THEN L!PrimaryPlane ELSE plane[l]]
      /\ fb' = f \ promoted
  BY DEF L!Revisit
<1>2. /\ L!Layers' = L!Layers /\ L!Target' = L!Target /\ L!Layers \subseteq L!AllLayers
      /\ L!Target \in L!Layers
  BY LayersAreAll DEF L!Layers, L!Target, ListTypes
<1>3. \A l \in L!Layers : plane[l] # L!NoPlane => plane'[l] # L!NoPlane
  <2> HIDE DEF attached
  <2> SUFFICES ASSUME NEW l \in L!Layers, plane[l] # L!NoPlane PROVE plane'[l] = plane[l]
    OBVIOUS
  <2>. QED BY <1>1, <1>2
<1>4. \A l \in L!Layers : type'[l] = IF l \in attached THEN "PRIMARY" ELSE t[l]
  <2> HIDE DEF attached
  <2>. QED BY <1>1, <1>2
<1>5. CASE promoted = {}
  <2>1. fb' = f /\ attached = IF f = {} THEN {} ELSE {L!Target}
    BY <1>1, <1>5
  <2> HIDE DEF attached, promoted
  <2>. QED BY <1>2, <1>3, <1>4, <2>1
<1>6. CASE promoted # {}
  <2>1. PICK r \in f : f = {r} /\ kind[r] = "rgb"
    BY <1>6
  <2>2. promoted = {r} /\ fb' = {} /\ attached = {r}
    BY <1>1, <2>1
  <2> HIDE DEF attached, promoted
  <2>. QED BY <1>2, <1>3, <1>4, <2>1, <2>2
<1>. QED BY <1>5, <1>6

LEMMA EndAnalyzePrimary == ASSUME ListInv, PrimaryInv, L!EndAnalyze PROVE PrimaryInv'
<1>1. /\ L!Revisit(type, plane, fb, ov) /\ phase = "analyze" /\ next = -1
      /\ phase' = "update" /\ UNCHANGED <<count, kind>>
  BY DEF L!EndAnalyze
<1>2. L!Analysed = L!Layers /\ count > 0
  BY <1>1 DEF ListInv, LoopInv, L!Analysed, L!Layers, ListTypes
<1>3. fb = {l \in L!Layers \ {L!Target} : type[l] = "FB"}
  BY <1>2 DEF ListInv, L!ListsFollowTypes
<1>4. \A l \in L!Layers : type[l] # "PRIMARY"
  BY <1>1 DEF PrimaryInv
<1>5. /\ L!Layers' = L!Layers /\ L!Target' = L!Target /\ L!Target \in L!Layers
      /\ \/ /\ fb' = fb /\ \A l \in L!Layers \ {L!Target} : type'[l] = type[l]
            /\ fb = {} => type'[L!Target] = type[L!Target]
         \/ \E r \in fb :
              /\ fb = {r} /\ kind[r] = "rgb" /\ fb' = {}
              /\ type'[r] = "PRIMARY"
              /\ \A l \in L!Layers \ {r} : type'[l] = type[l]
  BY <1>1, <1>2, <1>3, RevisitChanges DEF ListInv, ListTypes
<1>6. \A l \in L!Layers : type[l] \in {"FB", "OVERLAY"}
  BY <1>4, LayersAreAll DEF ListInv, ListTypes
<1>. QED BY <1>1, <1>3, <1>5, <1>6 DEF PrimaryInv

LEMMA UpdatePrimary == ASSUME ListInv, PrimaryInv, L!UpdateLayer PROVE PrimaryInv'
<1>1. /\ phase = "update" /\ next < count /\ UNCHANGED <<count, kind, phase>>
  BY DEF L!UpdateLayer
<1>2. next \in L!Layers /\ count > 0
  BY <1>1 DEF ListInv, LoopInv, L!Layers, ListTypes
<1>3. CASE ~L!Fails(next)
  <2>1. UNCHANGED L!listVars
    BY <1>3 DEF L!UpdateLayer
  <2>. QED BY <1>1, <2>1 DEF L!listVars, PrimaryInv, L!Layers, L!Target
<1>4. CASE L!Fails(next)
  <2> DEFINE t == [type EXCEPT ![next] = "FB"]
             f == fb \cup {next}
  <2>1. L!Revisit(t, plane, f, ov \ {next})
    BY <1>4 DEF L!UpdateLayer
  <2>2. next # L!Target /\ type[next] # "FB" /\ plane[next] # L!NoPlane
    BY <1>4 DEF L!Fails, ListInv, LoopInv
  <2>3. /\ t \in [L!AllLayers -> {"FB", "OVERLAY", "PRIMARY"}]
        /\ t[next] = "FB" /\ \A l \in L!Layers : l # next => t[l] = type[l]
        /\ \A l \in L!Layers : type[l] \in {"FB", "OVERLAY", "PRIMARY"}
    BY <1>2, LayersAreAll DEF ListInv, ListTypes
  <2>4. fb = {l \in L!Layers \ {L!Target} : type[l] = "FB"}
    BY <1>1 DEF L!Analysed, ListInv, L!ListsFollowTypes
  <2>5. f \subseteq L!Layers \ {L!Target} /\ next \in f /\ next \notin fb
    BY <1>2, <2>2, <2>4
  <2> HIDE DEF t
  <2>6. /\ L!Layers' = L!Layers /\ L!Target' = L!Target /\ L!Target \in L!Layers
        /\ \A l \in L!Layers : plane[l] # L!NoPlane => plane'[l] # L!NoPlane
        /\ \/ /\ fb' = f /\ \A l \in L!Layers \ {L!Target} : type'[l] = t[l]
              /\ f = {} => type'[L!Target] = t[L!Target]
           \/ \E r \in f :
                /\ f = {r} /\ kind[r] = "rgb" /\ fb' = {}
                /\ type'[r] = "PRIMARY"
                /\ \A l \in L!Layers \ {r} : type'[l] = t[l]
    <3> HIDE DEF f
    <3>. QED BY <1>1, <1>2, <2>1, <2>3, <2>5, RevisitChanges DEF ListInv
  <2>7. /\ \A l \in L!Layers \ {L!Target} : type[l] = "PRIMARY" =>
             \A m \in L!Layers \ {l, L!Target} :
               type[m] = "OVERLAY" \/ (type[m] = "FB" /\ plane[m] # L!NoPlane)
        /\ type[L!Target] = "PRIMARY" => fb # {}
    BY <1>1 DEF PrimaryInv
  <2>8. \A l \in L!Layers : type[l] = "OVERLAY" => kind[l] = "video"
    BY DEF ListInv, KindInv
  <2>9. CASE fb' = f /\ \A l \in L!Layers \ {L!Target} : type'[l] = t[l]
    <3>1. SUFFICES ASSUME NEW l \in L!Layers \ {L!Target}, type'[l] = "PRIMARY",
                          NEW m \in L!Layers \ {l, L!Target}
                   PROVE  type'[m] = "OVERLAY" \/ (type'[m] = "FB" /\ plane'[m] # L!NoPlane)
      BY <1>1, <2>5, <2>6, <2>9 DEF PrimaryInv
    <3>2. l # next /\ type[l] = "PRIMARY"
      BY <2>3, <2>9, <3>1
    <3>3. CASE m = next
      BY <2>2, <2>3, <2>6, <2>9, <3>3
    <3>4. CASE m # next
      BY <2>3, <2>6, <2>7, <2>9, <3>2, <3>4
    <3>. QED BY <3>3, <3>4
  <2>10. CASE f = {next} /\ kind[next] = "rgb" /\ \A l \in L!Layers \ {next} : type'[l] = t[l]
    <3>1. type[next] = "PRIMARY" /\ fb = {}
      BY <1>2, <2>2, <2>3, <2>5, <2>8, <2>10
    <3>2. \A m \in L!Layers \ {next, L!Target} : type'[m] = "OVERLAY"
      BY <1>2, <2>2, <2>3, <2>4, <2>7, <2>10, <3>1
    <3>3. type'[L!Target] # "PRIMARY"
      BY <2>2, <2>3, <2>6, <2>7, <2>10, <3>1
    <3>. QED BY <1>1, <2>6, <3>2, <3>3 DEF PrimaryInv
  <2>. QED BY <2>5, <2>6, <2>9, <2>10
<1>. QED BY <1>3, <1>4

LEMMA PrimaryStep == ASSUME ListInv, PrimaryInv, [L!Next]_(L!vars) PROVE PrimaryInv'
<1>1. CASE L!NewList
  <2>1. phase' = "analyze" /\ type' = [l \in L!AllLayers |-> "FB"]
    BY <1>1 DEF L!NewList
  <2>2. L!Layers' \subseteq L!AllLayers
    <3>1. count' \in 1 .. MaxLayers
      <4>1. L!NewList
        BY <1>1
      <4>. QED BY <4>1 DEF L!NewList
    <3>2. PICK n \in 1 .. MaxLayers : count' = n
      BY <3>1
    <3>3. 0 .. (n - 1) \subseteq 0 .. (MaxLayers - 1)
      BY BoundAssumption
    <3>. QED BY <3>2, <3>3, Zenon DEF L!Layers, L!AllLayers
  <2>3. \A l \in L!Layers' : type'[l] = "FB"
    BY <2>1, <2>2
  <2>. QED BY <2>1, <2>3 DEF PrimaryInv
<1>2. CASE L!Analyze
  <2>1. /\ phase = "analyze" /\ phase' = "analyze" /\ UNCHANGED count
        /\ type' = type \/ type' = [type EXCEPT ![next] = "OVERLAY"]
    BY <1>2 DEF L!Analyze, L!AnalyzeLayer
  <2>2. \A l \in L!Layers : type'[l] # "PRIMARY"
    BY <2>1, LayersAreAll DEF PrimaryInv, ListInv, ListTypes
  <2>. QED BY <2>1, <2>2 DEF PrimaryInv, L!Layers
<1>3. CASE L!EndPass \/ L!NextFrame \/ UNCHANGED L!vars
  BY <1>3 DEF L!EndPass, L!NextFrame, L!vars, L!listVars, PrimaryInv, L!Layers, L!Target
<1>. QED BY <1>1, <1>2, <1>3, EndAnalyzePrimary, UpdatePrimary DEF L!Next

-----------------------------------------------------------------------------
\* The inductive invariant, for every bound on the layers, every number of
\* overlays and every choice of refused buffers.
THEOREM ListInvariance == L!Spec => []ListInv
<1>1. ListInv /\ UNCHANGED L!vars => ListInv'
  BY DEF L!vars, L!listVars, ListInv, ListTypes, LoopInv, KindInv, StandsInv,
         L!ListsFollowTypes, L!OverlaysKept, L!Analysed, L!Layers, L!Target
<1>2. ListInv /\ [L!Next]_L!vars => ListInv'
  BY <1>1, NewListStep, AnalyzeListStep, EndAnalyzeStep, UpdateListStep, LoopListStep DEF L!Next
<1>. QED BY InitList, <1>2, PTL DEF L!Spec

LEMMA PrimaryInvariance == L!Spec => []PrimaryInv
<1>1. L!Init => PrimaryInv
  BY DEF L!Init, PrimaryInv
<1>2. ListInv /\ PrimaryInv /\ [L!Next]_(L!vars) => PrimaryInv'
  BY PrimaryStep
<1>. QED BY ListInvariance, <1>1, <1>2, PTL DEF L!Spec

\* Every layer is on the list its type says (HwcLayerList.cpp:322-351, 503-509).
THEOREM ListsFollowTypesHolds == L!Spec => []ListsFollowTypes
<1>1. ListInv => ListsFollowTypes
  BY DEF ListInv, ListsFollowTypes, Analysed, Layers, Target,
         L!ListsFollowTypes, L!Analysed, L!Layers, L!Target
<1>. QED BY ListInvariance, <1>1, PTL

\* No overlay of the list is lost or attached twice (HwcLayerList.cpp:428-445).
THEOREM OverlaysKeptHolds == L!Spec => []OverlaysKept
<1>1. ListInv => OverlaysKept
  BY DEF ListInv, OverlaysKept, Layers, Overlays, NoPlane, PrimaryPlane,
         L!OverlaysKept, L!Layers, L!Overlays, L!NoPlane, L!PrimaryPlane
<1>. QED BY ListInvariance, <1>1, PTL

\* A list that update() has returned from shows every layer, in extended video
\* mode all but video, but that a layer with the primary plane and the target
\* may share it when refused layers are all that the target is there for
\* (HwcLayerList.cpp:312-351).
THEOREM EveryLayerShownHolds == L!Spec => []EveryLayerShown
<1>1. ListInv /\ PrimaryInv => EveryLayerShown
  <2> SUFFICES ASSUME ListInv, PrimaryInv, phase = "ready"
               PROVE
        /\ \A l \in L!Layers \ {L!Target} :
             /\ type[l] = "FB" => type[L!Target] = "PRIMARY" /\ plane[L!Target] = L!PrimaryPlane
             /\ type[l] = "PRIMARY" => plane[l] = L!PrimaryPlane
             /\ type[l] = "OVERLAY" => plane[l] \in L!Overlays \/ (ExtendVideo /\ kind[l] = "video")
        /\ \A l, m \in L!Layers :
             type[l] = "PRIMARY" /\ type[m] = "PRIMARY" /\ l # m =>
               /\ L!Target \in {l, m}
               /\ fb # {} /\ \A f \in fb : plane[f] # L!NoPlane
    BY DEF EveryLayerShown, Layers, Target, Overlays, PrimaryPlane, NoPlane,
           L!Layers, L!Target, L!Overlays, L!PrimaryPlane, L!NoPlane
  <2>1. L!Target \in L!Layers
    BY DEF ListInv, LoopInv, ListTypes, L!Layers, L!Target
  <2>2. fb = {l \in L!Layers \ {L!Target} : type[l] = "FB"}
    BY DEF ListInv, L!ListsFollowTypes, L!Analysed
  <2>3. ASSUME NEW l \in L!Layers \ {L!Target}
        PROVE  /\ type[l] = "FB" => type[L!Target] = "PRIMARY" /\ plane[L!Target] = L!PrimaryPlane
               /\ type[l] = "PRIMARY" => plane[l] = L!PrimaryPlane
               /\ type[l] = "OVERLAY" => plane[l] \in L!Overlays \/ (ExtendVideo /\ kind[l] = "video")
    BY <2>1, <2>2 DEF ListInv, StandsInv, KindInv
  <2>4. ASSUME NEW l \in L!Layers, NEW m \in L!Layers,
               type[l] = "PRIMARY", type[m] = "PRIMARY", l # m
        PROVE  /\ L!Target \in {l, m}
               /\ fb # {} /\ \A f \in fb : plane[f] # L!NoPlane
    BY <2>2, <2>4 DEF PrimaryInv
  <2>. QED BY <2>3, <2>4
<1>. QED BY ListInvariance, PrimaryInvariance, <1>1, PTL
=============================================================================
