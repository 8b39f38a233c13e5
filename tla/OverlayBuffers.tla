--------------------------- MODULE OverlayBuffers ---------------------------
(***************************************************************************)
(* The overlay plane of hwc/merrifield and the buffers it shows            *)
(* (MrflOverlayPlane.cpp, OverlayPlane.cpp).  The plane keeps a mapper for *)
(* every gralloc buffer and every rotated buffer it has been given, until  *)
(* it is disabled.  A rotated buffer is a kernel (TTM) object that the     *)
(* video decoder, in another process, names in the payload of the gralloc  *)
(* buffer; the kernel gives its handle to another object once nobody       *)
(* refers to the first.                                                    *)
(*                                                                         *)
(* Who may have the plane is in Hwcomposer.tla; here it is attached to one *)
(* layer of one display at a time, and extended video mode is off.         *)
(***************************************************************************)
EXTENDS Naturals

CONSTANTS
  Buffers,    \* gralloc buffers, by stamp
  Handles,    \* kernel handles
  Objects,    \* TTM objects
  Crops,      \* source crops
  None

ASSUME NoneAssumption == None \notin Buffers \cup Objects \cup Crops
ASSUME MapperAssumption == None \notin [obj : Objects, crop : Crops]
ASSUME KindsAssumption == Buffers \cap Objects = {}

Displays == {"panel", "hdmi"}

VARIABLES
  \* the frame loop and the layer
  pc,       \* where the composer thread is
  place,    \* the plane is free, reclaimed, or in the list of a display
  layer,    \* what its layer asks for: a crop, and rotated or not
  demoted,  \* its layer fell back to LAYER_FB
  buf,      \* the buffer whose payload was found ready
  \* OverlayPlane
  pipe,     \* mPipe, as a display
  enabled,  \* bit 0 of OCMD
  back,     \* what the back buffer describes
  gcache,   \* mGrallocBufferCache: crop and GTT mapping of a mapper, by stamp
  tcache,   \* mTTMBufferCache: object and crop of a mapper, by handle
  \* the display controller and the kernel
  shown,    \* what is scanned out, or None
  mapped,   \* the gralloc buffers in the GTT
  name,     \* the object of each handle
  lost,     \* objects with a reference of this process that nobody keeps
  \* the decoder
  drawn,    \* the handles it refers to
  payload   \* of each gralloc buffer: ready, and the rotated handle

loopVars    == <<pc, place, layer, demoted, buf>>
planeVars   == <<pipe, enabled, back>>
cacheVars   == <<gcache, tcache, mapped, name, lost>>
decoderVars == <<drawn, payload>>
vars == <<loopVars, planeVars, cacheVars, shown, decoderVars>>

Sources == [obj : Buffers \cup Objects \cup {None}, crop : Crops \cup {None}, gtt : BOOLEAN]
NoSource == [obj |-> None, crop |-> None, gtt |-> FALSE]

TypeOK ==
  /\ pc \in {"idle", "prepare", "analyze", "update", "map", "ready", "commit", "post"}
  /\ place \in Displays \cup {"free", "reclaimed"}
  /\ layer \in [crop : Crops, rotated : BOOLEAN]
  /\ demoted \in BOOLEAN /\ buf \in Buffers
  /\ pipe \in Displays /\ enabled \in BOOLEAN
  /\ back \in Sources /\ shown \in Sources
  /\ gcache \in [Buffers -> [crop : Crops, gtt : BOOLEAN] \cup {None}]
  /\ tcache \in [Handles -> [obj : Objects, crop : Crops] \cup {None}]
  /\ mapped \subseteq Buffers /\ lost \subseteq Objects
  /\ name \in [Handles -> Objects \cup {None}]
  /\ drawn \subseteq Handles
  /\ payload \in [Buffers -> [ready : BOOLEAN, handle : Handles]]

Init ==
  /\ pc = "idle" /\ place = "free" /\ demoted = FALSE
  /\ layer \in [crop : Crops, rotated : {FALSE}] /\ buf \in Buffers
  /\ pipe = "panel" /\ enabled = FALSE /\ back = NoSource
  /\ gcache = [b \in Buffers |-> None]
  /\ tcache = [h \in Handles |-> None]
  /\ shown = NoSource /\ mapped = {} /\ lost = {}
  /\ name = [h \in Handles |-> None]
  /\ drawn = {}
  /\ payload \in [Buffers -> [ready : {FALSE}, handle : Handles]]

-----------------------------------------------------------------------------
(* The plane.                                                               *)

\* disable(): an overlay that is on is turned off, and the flush waits for the
\* vblank after which it is no longer scanned out.
Disable ==
  /\ enabled' = FALSE
  /\ shown' = IF enabled THEN NoSource ELSE shown

AssignToPipe(p) ==
  /\ pipe' = p
  /\ IF pipe = p THEN UNCHANGED <<enabled, shown>> ELSE Disable

\* Slip: the mappers of this process take no reference.
DrawnOnly(cache, used, leaked) == [h \in Handles |-> IF h \in used THEN name[h] ELSE None]

\* The kernel destroys an object, and forgets its handle, when nobody refers to
\* it: the decoder, a mapper of the cache, or a mapping that failed half way.
Surviving(cache, used, leaked) ==
  [h \in Handles |->
     IF h \in used \/ cache[h] # None \/ name[h] \in leaked THEN name[h] ELSE None]

\* MrflGrallocBufferMapper::map(): it goes on when the GTT refuses the buffer;
\* when it fails its first half may stay in the GTT.
MapGralloc(b, gtt) == mapped' = IF gtt THEN mapped \cup {b} ELSE mapped

\* unmap() of every mapper of the cache.  A buffer that a failed map() left in
\* the GTT stays there.
UnmapGralloc == mapped' = {b \in mapped : gcache[b] = None}

\* invalidateBufferCache(): unmap and delete every mapper of both caches.
InvalidateBufferCache ==
  /\ UnmapGralloc
  /\ gcache' = [b \in Buffers |-> None]
  /\ tcache' = [h \in Handles |-> None]
  /\ name' = Surviving(tcache', drawn, lost)

\* bufferOffsetSetup(): the back buffer points into another buffer.
BufferOffsetSetup(src, block) == [block EXCEPT !.obj = src.obj, !.gtt = src.gtt]

\* coordinateSetup(): it gets the size of the crop.
CoordinateSetup(src, block) == [block EXCEPT !.crop = src.crop]

\* OverlayPlane::setDataBuffer(): coordinateSetup() refuses an empty source,
\* scalingSetup() an empty destination.  What was written before stays, and so
\* does the enable bit.
SetUp(src) ==
  LET offsets == BufferOffsetSetup(src, back)
      whole   == CoordinateSetup(src, offsets) IN
  \/ back' = whole /\ enabled' = TRUE /\ UNCHANGED demoted
  \/ back' \in {offsets, whole} /\ demoted' = TRUE /\ UNCHANGED enabled

Refuse == demoted' = TRUE /\ UNCHANGED back

-----------------------------------------------------------------------------
(* The frame loop.                                                          *)

\* Slip: the caches are cleared and the plane left on.
RetireKeepingOn == InvalidateBufferCache /\ UNCHANGED <<enabled, shown>>

\* disableReclaimedPlanes(): disable the plane, then clear its caches.
Retire == Disable /\ InvalidateBufferCache

StartPrepare ==
  /\ pc = "idle" /\ pc' = "prepare"
  /\ IF place = "reclaimed"
       THEN Retire /\ place' = "free"
       ELSE UNCHANGED <<place, enabled, shown, gcache, tcache, mapped, name>>
  /\ UNCHANGED <<layer, demoted, buf, pipe, back, lost, decoderVars>>

\* The list the plane is in is deleted for a new geometry, or kept; a plane in
\* no list waits for an analysis.
PrePrepare ==
  /\ pc = "prepare"
  /\ \/ pc' = "update" /\ place \in Displays /\ UNCHANGED place
     \/ pc' = "analyze" /\ place' = IF place \in Displays THEN "reclaimed" ELSE place
  /\ UNCHANGED <<layer, demoted, buf, planeVars, cacheVars, shown, decoderVars>>

\* The analysis of a new list attaches the plane to a layer, reclaimed in this
\* frame or free, or leaves it alone.
Analyze ==
  /\ pc = "analyze"
  /\ \/ pc' = "idle" /\ UNCHANGED <<place, layer, demoted>>
     \/ /\ place' \in Displays
        /\ layer' \in [crop : Crops, rotated : BOOLEAN]
        /\ demoted' = FALSE
        /\ pc' = "update"
  /\ UNCHANGED <<buf, planeVars, cacheVars, shown, decoderVars>>

\* mTransform && !mPipe
NeedsRotated == layer.rotated /\ pipe = "panel"

\* getGrallocMapper(): the mapper of the cache as it was made, or a new one
\* with the crop of the layer, unless map() fails.
MapperMade(b, m) ==
  \/ m # None /\ m = gcache[b] /\ UNCHANGED <<gcache, mapped>>
  \/ /\ gcache[b] = None
     /\ m \in [crop : {layer.crop}, gtt : BOOLEAN]
     /\ gcache' = [gcache EXCEPT ![b] = m]
     /\ MapGralloc(b, m.gtt)
  \/ /\ gcache[b] = None /\ m = None
     /\ \E gtt \in BOOLEAN : MapGralloc(b, gtt)
     /\ UNCHANGED gcache

\* A mapper, or none.
Mappers == [crop : Crops, gtt : BOOLEAN] \cup {None}

\* HwcLayer::update(): the plane is assigned to the pipe of the display.  A
\* layer that is on LAYER_FB leaves its plane alone.
Assign ==
  /\ pc = "update"
  /\ IF demoted THEN pc' = "commit" /\ UNCHANGED <<pipe, enabled, shown>>
                ELSE pc' = "map" /\ AssignToPipe(place)
  /\ UNCHANGED <<place, layer, demoted, buf, back, cacheVars, decoderVars>>

\* setDataBuffer() with the buffer b of this frame, up to the use of its
\* rotated buffer.
MapBuffer(b) ==
  /\ pc = "map"
  /\ \E m \in Mappers :
       /\ MapperMade(b, m)
       /\ \/ /\ m = None \/ (NeedsRotated /\ ~payload[b].ready)
             /\ Refuse
             /\ pc' = "commit" /\ UNCHANGED <<buf, enabled>>
          \/ /\ m # None /\ NeedsRotated /\ payload[b].ready
             /\ pc' = "ready" /\ buf' = b
             /\ UNCHANGED <<demoted, back, enabled>>
          \/ /\ m # None /\ ~NeedsRotated
             /\ SetUp([obj |-> b, crop |-> m.crop, gtt |-> m.gtt])
             /\ pc' = "commit" /\ UNCHANGED buf
  /\ UNCHANGED <<place, layer, pipe, shown, tcache, name, lost, decoderVars>>

\* Wrapping a handle finds its object.
Wraps(h) == name[h] # None

\* getTTMMapper(): the handle is read from the payload again.  Its object is
\* wrapped, which takes a reference, and mapped; when the mapping fails the
\* reference is not given back.
UseRotated ==
  /\ pc = "ready" /\ pc' = "commit"
  /\ LET h == payload[buf].handle
         m == [obj |-> name[h], crop |-> gcache[buf].crop]
         source(t) == [obj |-> t.obj, crop |-> t.crop, gtt |-> TRUE] IN
     \/ /\ tcache[h] # None
        /\ SetUp(source(tcache[h])) /\ UNCHANGED <<tcache, lost>>
     \/ /\ tcache[h] = None /\ Wraps(h)
        /\ tcache' = [tcache EXCEPT ![h] = m]
        /\ SetUp(source(m)) /\ UNCHANGED lost
     \/ /\ tcache[h] = None
        /\ lost' \in {lost, lost \cup ({name[h]} \ {None})}
        /\ Refuse /\ UNCHANGED <<tcache, enabled>>
  /\ UNCHANGED <<place, layer, buf, pipe, shown, gcache, mapped, name, decoderVars>>

\* commit(): the plane of the list is flipped, on LAYER_FB or not.  An HDMI
\* display that is unplugged by now is passed over.
Flip ==
  /\ pc = "commit"
  /\ \/ place \in Displays /\ pc' = "post"
     \/ place # "panel" /\ pc' = "idle"
  /\ UNCHANGED <<place, layer, demoted, buf, planeVars, cacheVars, shown, decoderVars>>

\* Post2: at the next vblank the display controller loads the back buffer.
Post ==
  /\ pc = "post" /\ pc' = "idle"
  /\ shown' = IF enabled THEN back ELSE NoSource
  /\ UNCHANGED <<place, layer, demoted, buf, planeVars, cacheVars, decoderVars>>

\* The hotplug thread deletes the list of the HDMI display, which it cannot do
\* while the composer thread updates it.
Unplug ==
  /\ place = "hdmi" /\ pc \notin {"update", "map", "ready"}
  /\ place' = "reclaimed"
  /\ UNCHANGED <<pc, layer, demoted, buf, planeVars, cacheVars, shown, decoderVars>>

-----------------------------------------------------------------------------
(* The video decoder.                                                       *)

AllocRotated(h, o) ==
  /\ name[h] = None /\ \A g \in Handles : name[g] # o
  /\ name' = [name EXCEPT ![h] = o]
  /\ drawn' = drawn \cup {h}
  /\ UNCHANGED <<loopVars, planeVars, gcache, tcache, mapped, lost, shown, payload>>

\* It draws the next picture of the buffer, with or without a rotated one.
Draw(b) ==
  /\ payload' \in {[payload EXCEPT ![b] = [ready |-> r, handle |-> h]] :
                     r \in BOOLEAN, h \in drawn}
  /\ UNCHANGED <<loopVars, planeVars, cacheVars, shown, drawn>>

FreeRotated(h) ==
  /\ h \in drawn
  /\ drawn' = drawn \ {h}
  /\ name' = Surviving(tcache, drawn', lost)
  /\ UNCHANGED <<loopVars, planeVars, gcache, tcache, mapped, lost, shown, payload>>

-----------------------------------------------------------------------------
Next ==
  \/ StartPrepare \/ PrePrepare \/ Analyze \/ Assign
  \/ \E b \in Buffers : MapBuffer(b) \/ Draw(b)
  \/ UseRotated \/ Flip \/ Post \/ Unplug
  \/ \E h \in Handles : FreeRotated(h) \/ \E o \in Objects : AllocRotated(h, o)

Spec == Init /\ [][Next]_vars

-----------------------------------------------------------------------------
(* Properties.                                                              *)

\* What the display controller scans out is there: a gralloc buffer is in the
\* GTT and a rotated buffer's object has not been destroyed, whoever took the
\* plane, whatever the decoder has freed and however updates ended.  (A buffer
\* that the GTT refused was never there.)
ShownIsMapped ==
  shown.obj # None /\ shown.gtt =>
    IF shown.obj \in Buffers THEN shown.obj \in mapped
                             ELSE \E h \in Handles : name[h] = shown.obj

\* A mapper found under a handle is that of the object which has the handle
\* now: the decoder cannot get a new object under a handle that is cached.
CachedIsCurrent == \A h \in Handles : tcache[h] # None => tcache[h].obj = name[h]

\* An overlay on the free bitmap shows nothing and keeps no buffer.
FreeKeepsNothing ==
  place = "free" => /\ shown = NoSource
                    /\ \A b \in Buffers : gcache[b] = None
                    /\ \A h \in Handles : tcache[h] = None

\* A rotated layer of the panel is shown from a rotated buffer, any other layer
\* from its own, also after the plane came from the other display.
RotationShown ==
  pc = "idle" /\ place = "panel" /\ ~demoted =>
    (layer.rotated <=> shown.obj \in Objects)

\* "update buffer's source crop": what is shown is the part of the buffer that
\* the layer asks for.  It does not hold when layers have several crops.
CropShown == pc = "idle" /\ place = "panel" /\ ~demoted => shown.crop = layer.crop

-----------------------------------------------------------------------------
(* The inductive invariant.                                                 *)

\* A buffer that the display controller may read: in the GTT, or the object of
\* a cached mapper.
Kept(source) ==
  source.obj # None /\ source.gtt =>
    IF source.obj \in Buffers
      THEN source.obj \in mapped
      ELSE \E h \in Handles : tcache[h] # None /\ tcache[h].obj = source.obj

\* What is scanned out, now or from the next flip on, is kept; an overlay that is
\* off shows nothing.
ShownInv ==
  /\ enabled => Kept(back)
  /\ Kept(shown)
  /\ ~enabled => shown = NoSource

\* A cached mapper has what it was made with.
CacheInv ==
  /\ \A b \in Buffers : gcache[b] # None /\ gcache[b].gtt => b \in mapped
  /\ CachedIsCurrent

\* Where the plane is while the composer thread is in each phase.
PlaceInv ==
  /\ pc \in {"update", "map", "ready"} => place \in Displays
  /\ pc \in {"map", "ready"} => pipe = place /\ ~demoted
  /\ pc = "ready" => layer.rotated /\ gcache[buf] # None
  /\ pc = "analyze" => place \notin Displays
  /\ place = "free" =>
       /\ ~enabled
       /\ \A b \in Buffers : gcache[b] = None
       /\ \A h \in Handles : tcache[h] = None

\* Between an update that succeeded and the vblank the back buffer is what the
\* layer wants.
RotationInv ==
  /\ pc \in {"commit", "post"} /\ place = "panel" /\ ~demoted =>
       enabled /\ (layer.rotated <=> back.obj \in Objects)
  /\ RotationShown

\* The strengthening of the properties above (but CropShown) that each step of
\* the composer thread, the hotplug thread and the decoder preserves.
IInv == TypeOK /\ ShownInv /\ CacheInv /\ PlaceInv /\ RotationInv
=============================================================================
