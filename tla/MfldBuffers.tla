---------------------------- MODULE MfldBuffers ----------------------------
(* The display buffers of the Medfield composer: how it starts its buffer    *)
(* managers (src/hwc/IntelHWComposer.cpp, IntelBufferManager.cpp), the rings *)
(* in which planes and devices keep what they have mapped                    *)
(* (IntelOverlayPlane.cpp, MedfieldSpritePlane.cpp, IntelDisplayDevice.cpp), *)
(* the provider of rotated buffers (RotationBufferProvider.cpp) and the      *)
(* converter of the RGB overlay.  Rings share no state, so a behaviour looks *)
(* at the ring of one user:                                                  *)
(*   overlay  a video plane, with the rotation provider of its device        *)
(*   rgb      an RGB overlay plane, with its converter                       *)
(*   sprite   a sprite or primary plane                                      *)
(*   fb       a device's ring of framebuffer targets                         *)
(* A buffer is named by its stamp, which gralloc never gives out twice; the  *)
(* display controller comes to a posted flip later.                          *)
EXTENDS Integers, FiniteSets, Sequences, Functions, FiniteSetsExt

CONSTANTS
  Client,     \* the client's buffers that each user is given; the memory of a
              \* buffer has its name
  Made,       \* memory objects the composer allocates for rotated or converted frames
  None,       \* no object, no stamp
  RingOf,     \* the slots of each user's ring
  Targets,    \* MAX_SURFACE_NUM
  FlipDepth,  \* flips that may be posted and not done (a bound)
  MaxFails    \* mappings and renderings that fail (a bound)

Users == {"overlay", "rgb", "sprite", "fb"}
Stamps == UNION {Client[u] : u \in Users}
Objects == Stamps \cup Made
SlotsOf(u) == 0..(RingOf[u] - 1)
Slots == UNION {SlotsOf(u) : u \in Users}
Tix == 0..(Targets - 1)

ASSUME RingsOfTwo == RingOf \in [Users -> Nat \ {0, 1}]
ASSUME TwoTargets == Targets \in Nat \ {0, 1}
ASSUME FlipsBounded == FlipDepth \in Nat \ {0} /\ MaxFails \in Nat
ASSUME NamesDiffer == Stamps \cap Made = {} /\ None \notin Objects

VARIABLES
  user,   \* whose ring this is
  sys,    \* what IntelHWComposer::initialize made
  mem,    \* references to memory objects, their GTT mappings, and their owners
  ring,   \* mDataBuffers (mFBBuffers), mNextBuffer, mPrevHitSlot
  rot,    \* the rotation provider
  pay,    \* the rotated_buffer_handle in the payload of each client buffer
  conv,   \* the converter: the YUV buffer of each stamp, mCurrentBuffer
  scan,   \* the object on screen, and the flips posted and not done
  set,    \* what prepare handed to the plane and commit has yet to flip
  wrote   \* the rotated buffer that prepare wrote

vars == <<user, sys, mem, ring, rot, pay, conv, scan, set, wrote>>

-----------------------------------------------------------------------------
\* The managers.  A reference to an object is a mapping of a gralloc buffer
\* (map, with a GTT mapping of its own) or a wrapped TTM buffer (wrap); an
\* object lives while someone owns it or refers to it.

Free(k, S) == {o \in S : o \notin k.own /\ k.ref[o] = 0}

GttMap(k, o) == [k EXCEPT !.gtt[o] = @ + 1]
GttUnmap(k, o) == [k EXCEPT !.gtt[o] = @ - 1]

\* IntelGraphicBufferManager::map and unmap; without a GTT mapping the memory
\* is unmapped again.  how is what the system makes of it: "fail" and "lost" are
\* for want of memory, "dead" when the device or the pool is gone.
Short(k) == [k EXCEPT !.fails = @ + 1]
GraphicMap(k, o, how) ==
  CASE how = "ok" -> GttMap([k EXCEPT !.ref[o] = @ + 1], o)
    [] how = "fail" -> Short(k)
    [] how = "dead" -> k
GraphicUnmap(k, o) == IF o = None THEN k ELSE [GttUnmap(k, o) EXCEPT !.ref[o] = @ - 1]

\* wrap and unwrap.  When the wrapped buffer has no GTT offset or no address,
\* wrap returns nothing and keeps the reference.
GraphicWrap(k, o, how) ==
  CASE how = "ok" -> [k EXCEPT !.ref[o] = @ + 1]
    [] how = "lost" -> Short([k EXCEPT !.ref[o] = @ + 1, !.lost[o] = @ + 1])
    [] how = "fail" -> Short(k)
    [] how = "dead" -> k
GraphicUnwrap(k, o) == IF o = None THEN k ELSE [k EXCEPT !.ref[o] = @ - 1]

\* allocateTTMBuffer and destroyTTMBuffer, gralloc's alloc and free
Allocate(k, o) == [k EXCEPT !.own = @ \cup {o}]
Release(k, O) == [k EXCEPT !.own = @ \ O]

-----------------------------------------------------------------------------
\* The rings.  r holds the memory k and the ring: what each slot holds, and the
\* slots mNextBuffer and mPrevHitSlot name.
NoSlot == -1
Empty == [stamp |-> None, obj |-> None, ttm |-> FALSE]
After(i) == (i + 1) % RingOf[user]

\* A handle is mapped, or if the flags say TTM wrapped.
Take(k, e, how) == IF e.ttm THEN GraphicWrap(k, e.obj, how) ELSE GraphicMap(k, e.obj, how)
Drop(k, e) == IF e.ttm THEN GraphicUnwrap(k, e.obj) ELSE GraphicUnmap(k, e.obj)

\* Slip: the slot is emptied and its buffer not unmapped.
EvictForgetting(r, i) == [r EXCEPT !.slot[i] = Empty]

Evict(r, i) == [r EXCEPT !.k = Drop(@, r.slot[i]), !.slot[i] = Empty]
Keep(r, i, e) == [r EXCEPT !.slot[i] = e, !.next = After(i), !.prev = i, !.ok = TRUE]

\* Slip: a hit leaves mNextBuffer where it is.
HitStaying(r, i) == [r EXCEPT !.ok = TRUE]

\* A hit of the overlay's ring in slot i: the slots after it are replaced next.
Hit(r, i) == [r EXCEPT !.next = After(i), !.ok = TRUE]

\* IntelOverlayPlane::setDataBuffer: an entry with this stamp, handle and type,
\* else the entry in the next slot is replaced; when that fails the one in slot
\* 0 is given up too and the mapping tried once more.
OverlaySet(r, e, how) ==
  LET hits == {i \in SlotsOf(user) : r.slot[i] = e}
      once == Evict(r, r.next)
      k1 == Take(once.k, e, how[1])
      twice == Evict([once EXCEPT !.k = k1, !.next = 0], 0)
      k2 == Take(twice.k, e, how[2])
  IN CASE hits # {} -> Hit(r, Min(hits))
       [] hits = {} /\ how[1] = "ok" -> Keep([once EXCEPT !.k = k1], r.next, e)
       [] hits = {} /\ how[1] # "ok" /\ how[2] = "ok" -> Keep([twice EXCEPT !.k = k2], 0, e)
       [] OTHER -> [twice EXCEPT !.k = k2]

\* MedfieldSpritePlane::setDataBuffer: an entry with this stamp, else the next
\* slot that is not the one shown last.
SpriteSet(r, e, how) ==
  LET hits == {i \in SlotsOf(user) : r.slot[i].stamp = e.stamp}
      i == IF r.prev = r.next THEN After(r.next) ELSE r.next
      out == Evict([r EXCEPT !.next = i], i)
      k1 == GraphicMap(out.k, e.obj, how[1])
  IN CASE hits # {} -> [r EXCEPT !.prev = Min(hits), !.ok = TRUE]
       [] hits = {} /\ how[1] = "ok" -> Keep([out EXCEPT !.k = k1], i, e)
       [] OTHER -> out

\* flipFramebufferContexts: the same without a thought for the slot shown last.
FramebufferSet(r, e, how) ==
  LET hits == {i \in SlotsOf(user) : r.slot[i].stamp = e.stamp}
      out == Evict(r, r.next)
      k1 == GraphicMap(out.k, e.obj, how[1])
  IN CASE hits # {} -> [r EXCEPT !.ok = TRUE]
       [] hits = {} /\ how[1] = "ok" -> Keep([out EXCEPT !.k = k1], r.next, e)
       [] OTHER -> out

RingSet(r, e, how) ==
  CASE user \in {"overlay", "rgb"} -> OverlaySet(r, e, how)
    [] user = "sprite" -> SpriteSet(r, e, how)
    [] user = "fb" -> FramebufferSet(r, e, how)

-----------------------------------------------------------------------------
\* The rotation provider: mVaInitialized, the configuration, mTargetIndex, and
\* the TTM buffer and VA surface of each target.
Stopped == [va |-> FALSE, ctx |-> "none", tix |-> 0, target |-> [i \in Tix |-> None]]

\* Slip: mTargetIndex is not reset.
StopVAKeepingIndex(v) ==
  [v EXCEPT !.k = Release(@, {v.rot.target[i] : i \in Tix}),
            !.rot = [Stopped EXCEPT !.tix = v.rot.tix]]

\* stopVA and freeVaSurfaces
StopVA(v) == [v EXCEPT !.k = Release(@, {v.rot.target[i] : i \in Tix}), !.rot = Stopped]

\* createVaSurface of the next target, with the TTM buffer o
CreateTarget(v, f, o) ==
  IF f = "alloc" THEN v ELSE [v EXCEPT !.k = Allocate(@, o), !.rot.target[v.rot.tix] = o]

\* startVA makes the first target in the middle of what it has to do.
StartVA(v, f, o) == IF f = "start" THEN v ELSE CreateTarget(v, f, o)

\* Slip: every frame is rotated into the same target.
AdvanceNowhere(rt) == rt

Advance(rt) == [rt EXCEPT !.tix = (@ + 1) % Targets]

\* isContextChanged: VA is stopped for another configuration.
Reconfigure(v, c) ==
  [(IF v.rot.va /\ v.rot.ctx # c THEN StopVA(v) ELSE v) EXCEPT !.rot.ctx = c]

\* setupRotationBuffer with configuration c, o being what is allocated if a
\* target has to be made, and f what fails: starting VA before or after its
\* first target, the allocation, the target's or the source's surface, or the
\* rendering.  A failure stops VA, but for one of the rendering: destroying the
\* source surface sets the status anew, so it is reported as done, and the
\* payload still names the buffer that the frame was rotated into last.
Starts(v, c) == ~Reconfigure(v, c).rot.va
NeedsTarget(v, c) == LET b == Reconfigure(v, c) IN b.rot.target[b.rot.tix] = None
RotationFaults(v, c) ==
  {"none", "source", "render"} \cup (IF Starts(v, c) THEN {"start", "caps"} ELSE {})
    \cup (IF NeedsTarget(v, c) THEN {"alloc", "surface"} ELSE {})
SetupRotation(v, c, f, o) ==
  LET b == Reconfigure(v, c)
      m == CASE Starts(v, c) -> StartVA(b, f, o)
             [] ~Starts(v, c) /\ NeedsTarget(v, c) -> CreateTarget(b, f, o)
             [] OTHER -> b
      obj == m.rot.target[m.rot.tix]
  IN CASE f = "none" -> [m EXCEPT !.rot = [Advance(m.rot) EXCEPT !.va = TRUE],
                                  !.wrote = obj, !.pay = obj, !.ok = TRUE]
       [] f = "render" -> [m EXCEPT !.rot.va = TRUE, !.k = Short(@), !.wrote = obj, !.ok = TRUE]
       [] OTHER -> StopVA(m)

-----------------------------------------------------------------------------
\* The converter of an RGB overlay: convertBuffer of stamp b, with o allocated
\* if it has no YUV buffer yet, and reset.
NoConversions == [map |-> [b \in Stamps |-> None], cur |-> None]

DropConversion(v, b) ==
  [v EXCEPT !.k = Release(@, {v.conv.map[b]}), !.conv.map[b] = None]

NeedsYuv(v, b) == v.conv.map[b] = None
ConversionFaults(v, b) ==
  {"none"} \cup (IF NeedsYuv(v, b) THEN {"alloc"} ELSE {})
    \cup (IF v.conv.cur # b THEN {"blit"} ELSE {})
Convert(v, b, f, o) ==
  LET m == IF NeedsYuv(v, b)
           THEN [v EXCEPT !.k = Allocate(@, o), !.conv.map[b] = o] ELSE v
  IN CASE f = "alloc" -> v
       [] f = "blit" -> DropConversion(m, b)
       [] f = "none" -> [m EXCEPT !.conv.cur = b, !.obj = m.conv.map[b]]

-----------------------------------------------------------------------------
\* Starting up.  Every manager and every rotation provider has a wsbm object of
\* its own, but they share one pool: initialising one sets the pool, deleting
\* one takes it down.
Down == [phase |-> "down", wsbm |-> {}, pool |-> "none", twice |-> FALSE,
         fd |-> TRUE, plane |-> FALSE]

TakeDown(s) == [s EXCEPT !.pool = "down", !.twice = @ \/ s.pool # "live"]
DeleteWsbm(s, w) == [TakeDown(s) EXCEPT !.wsbm = @ \ {w}]
InitWsbm(s, w, ok) ==
  IF ok THEN [s EXCEPT !.wsbm = @ \cup {w}, !.pool = "live"] ELSE TakeDown(s)

\* IntelBCDBufferManager::initialize; IntelGraphicBufferManager::initialize,
\* which connects to the PVR services after its wsbm object is made.
InitBCD(s, f) == InitWsbm(s, "bcd", f # "bcd")

\* Slip: the wsbm object is kept when the PVR services fail.
InitGraphicKeeping(s, f) == InitWsbm(s, "graphic", f # "wsbm")

InitGraphic(s, f) ==
  LET t == InitWsbm(s, "graphic", f # "wsbm")
  IN IF f = "pvr" THEN DeleteWsbm(t, "graphic") ELSE t

\* IntelOverlayContext::create: when the shared context cannot be mapped the
\* error path closes the DRM file of the whole composer.
CreateContext(s, c) ==
  CASE c = "ok" -> [s EXCEPT !.plane = TRUE]
    [] c = "mmap" -> [s EXCEPT !.fd = FALSE]
    [] c = "other" -> s

\* initializeRotationBufProvider of a device, whose failure nobody looks at
Devices == {"mipi", "hdmi"}
InitProvider(s, d, ok) == InitWsbm(s, d, ok /\ s.fd)

\* IntelHWComposer::initialize, f being the step that fails
StartFaults == {"none", "gralloc", "drm", "bcd", "wsbm", "pvr"}
Started(f, c, good) ==
  LET bcd == InitBCD(Down, f)
      gfx == InitGraphic(bcd, f)
      ctx == CreateContext(gfx, c)
      dev == InitProvider(InitProvider(ctx, "mipi", "mipi" \in good), "hdmi", "hdmi" \in good)
  IN CASE f \in {"gralloc", "drm"} -> [Down EXCEPT !.phase = "failed"]
       [] f = "bcd" -> [bcd EXCEPT !.phase = "failed"]
       [] f \in {"wsbm", "pvr"} -> [DeleteWsbm(gfx, "bcd") EXCEPT !.phase = "failed"]
       [] f = "none" -> [dev EXCEPT !.phase = "up"]

-----------------------------------------------------------------------------
EmptyRing == [slot |-> [i \in Slots |-> Empty], next |-> 0, prev |-> NoSlot]

Init ==
  /\ user \in Users
  /\ sys = Down
  /\ mem = [ref |-> [o \in Objects |-> 0], gtt |-> [o \in Objects |-> 0],
            lost |-> [o \in Objects |-> 0], own |-> Stamps, fails |-> 0]
  /\ ring = EmptyRing
  /\ rot = Stopped
  /\ pay = [b \in Stamps |-> None]
  /\ conv = NoConversions
  /\ scan = [hw |-> None, post |-> <<>>]
  /\ set = None
  /\ wrote = None

Initialize ==
  /\ sys.phase = "down"
  /\ \E f \in StartFaults, c \in {"ok", "mmap", "other"}, good \in SUBSET Devices :
       sys' = Started(f, c, good)
  /\ UNCHANGED <<user, mem, ring, rot, pay, conv, scan, set, wrote>>

\* What a mapping may come to: both tries of the overlay's ring.
Outcomes(k, e) ==
  LET gone == e.obj \notin k.own /\ k.ref[e.obj] = 0
      way == IF ~sys.fd \/ (e.ttm /\ sys.pool # "live") \/ gone THEN {"dead"}
             ELSE {"ok", "fail"} \cup (IF e.ttm THEN {"lost"} ELSE {})
  IN way \X way

NoBuffer(k) == mem' = k /\ set' = None /\ UNCHANGED ring

\* What was flipped to last.
LastShown == IF scan.post # <<>> THEN scan.post[Len(scan.post)] ELSE scan.hw

\* prepare's call of setDataBuffer with the entry e.  An overlay plane that has
\* no context takes no buffer; one that cannot show the format, stride or size of
\* a video refuses it from the first frame on.
SetBuffer(k, e) ==
  \/ user \in {"overlay", "rgb"} /\ (LastShown = None \/ ~sys.plane) /\ NoBuffer(k)
  \/ /\ user \in {"overlay", "rgb"} => sys.plane
     /\ \E how \in Outcomes(k, e) :
          LET r == RingSet([slot |-> ring.slot, next |-> ring.next, prev |-> ring.prev,
                            k |-> k, ok |-> FALSE], e, how)
          IN /\ r.k.fails <= MaxFails
             /\ mem' = r.k
             /\ ring' = [slot |-> r.slot, next |-> r.next, prev |-> r.prev]
             /\ set' = IF r.ok THEN e.obj ELSE None

Ready == sys.phase = "up" /\ set = None

\* A buffer of the client as it is.
PreparePlain(b) ==
  /\ Ready /\ user # "rgb"
  /\ SetBuffer(mem, [stamp |-> b, obj |-> b, ttm |-> FALSE])
  /\ wrote' = None
  /\ UNCHANGED <<user, sys, rot, pay, conv, scan>>

\* useOverlayRotation of protected video: the frame is rotated by the provider,
\* which takes any memory object that is free; from a pool that is down it gets
\* none.
PrepareRotated(b, c) ==
  /\ Ready /\ user = "overlay" /\ "mipi" \in sys.wsbm
  /\ LET v0 == [k |-> mem, rot |-> rot, pay |-> pay[b], wrote |-> None, ok |-> FALSE]
         some == IF NeedsTarget(v0, c) /\ sys.pool = "live"
                 THEN Free(Reconfigure(v0, c).k, Made) ELSE {None}
     IN \E f \in RotationFaults(v0, c), o \in some :
          LET v == SetupRotation(v0, c, f, o)
          IN /\ NeedsTarget(v0, c) /\ sys.pool # "live" => f \in {"alloc", "start"}
             /\ v.k.fails <= MaxFails
             /\ rot' = v.rot
             /\ pay' = [pay EXCEPT ![b] = v.pay]
             /\ wrote' = v.wrote
             /\ IF v.ok /\ v.pay # None
                THEN SetBuffer(v.k, [stamp |-> b, obj |-> v.pay, ttm |-> TRUE])
                ELSE NoBuffer(v.k)
  /\ UNCHANGED <<user, sys, conv, scan>>

\* An RGB buffer, converted first.
PrepareConverted(b) ==
  /\ Ready /\ user = "rgb"
  /\ LET v0 == [k |-> mem, conv |-> conv, obj |-> None]
     IN \E f \in ConversionFaults(v0, b),
           o \in IF NeedsYuv(v0, b) THEN Free(mem, Made) ELSE {None} :
          LET v == Convert(v0, b, f, o)
          IN /\ conv' = v.conv
             /\ IF v.obj = None THEN NoBuffer(v.k)
                ELSE SetBuffer(v.k, [stamp |-> v.obj, obj |-> v.obj, ttm |-> FALSE])
  /\ wrote' = None
  /\ UNCHANGED <<user, sys, rot, pay, scan>>

\* commit posts what prepare set; the controller comes to it later.
Commit ==
  /\ set # None
  /\ Len(scan.post) < FlipDepth
  /\ scan' = [scan EXCEPT !.post = Append(@, set)]
  /\ set' = None /\ wrote' = None
  /\ UNCHANGED <<user, sys, mem, ring, rot, pay, conv>>

Latch ==
  /\ scan.post # <<>>
  /\ scan' = [hw |-> Head(scan.post), post |-> Tail(scan.post)]
  /\ UNCHANGED <<user, sys, mem, ring, rot, pay, conv, set, wrote>>

\* Whatever the ring holds is unmapped or unwrapped.
DropAll(k) ==
  LET in(o) == {i \in Slots : ring.slot[i].obj = o}
  IN [k EXCEPT !.ref = [o \in Objects |-> @[o] - Cardinality(in(o))],
               !.gtt = [o \in Objects |-> @[o] - Cardinality({i \in in(o) : ~ring.slot[i].ttm})]]

\* invalidateDataBuffer of an overlay plane that was switched off: everything is
\* unmapped and the converter reset.
Invalidate ==
  /\ Ready /\ sys.plane /\ user \in {"overlay", "rgb"}
  /\ mem' = Release(DropAll(mem), Range(conv.map))
  /\ ring' = EmptyRing
  /\ conv' = NoConversions
  /\ scan' = [hw |-> None, post |-> <<>>]
  /\ wrote' = None
  /\ UNCHANGED <<user, sys, rot, pay, set>>

\* A sprite plane is given back, or a device's framebuffer goes dark: the
\* mappings stay.
Leave ==
  /\ Ready /\ user \in {"sprite", "fb"} /\ scan.hw # None
  /\ scan' = [hw |-> None, post |-> <<>>]
  /\ UNCHANGED <<user, sys, mem, ring, rot, pay, conv, set, wrote>>

Next ==
  \/ Initialize
  \/ \E b \in Client[user] :
       \/ PreparePlain(b)
       \/ \E c \in {"rot90", "rot180"} : PrepareRotated(b, c)
       \/ PrepareConverted(b)
  \/ Commit \/ Latch \/ Invalidate \/ Leave

Spec == Init /\ [][Next]_vars

-----------------------------------------------------------------------------
TypeOK ==
  /\ user \in Users
  /\ sys \in [phase : {"down", "up", "failed"}, wsbm : SUBSET ({"bcd", "graphic"} \cup Devices),
              pool : {"none", "live", "down"}, twice : BOOLEAN, fd : BOOLEAN, plane : BOOLEAN]
  /\ \A f \in {mem.ref, mem.gtt, mem.lost} : f \in [Objects -> Nat]
  /\ mem.fails \in 0..MaxFails
  /\ mem.own \subseteq Objects
  /\ ring \in [slot : [Slots -> [stamp : Objects, obj : Objects, ttm : BOOLEAN] \cup {Empty}],
               next : SlotsOf(user), prev : SlotsOf(user) \cup {NoSlot}]
  /\ rot \in [va : BOOLEAN, ctx : {"none", "rot90", "rot180"}, tix : Tix,
              target : [Tix -> Made \cup {None}]]
  /\ pay \in [Stamps -> Made \cup {None}]
  /\ conv \in [map : [Stamps -> Made \cup {None}], cur : Stamps \cup {None}]
  /\ scan \in [hw : Objects \cup {None}, post : Seq(Objects)]
  /\ {set, wrote} \subseteq Objects \cup {None}

\* No mapping is leaked or undone twice: every reference to a memory object, and
\* every GTT mapping, belongs to one slot of the ring, or is one wrap gave up
\* without a GTT offset - through hits, replacements, mappings that fail at the
\* first or second try, and invalidation.
MappingsHeld ==
  \A o \in Objects :
    LET in == {i \in Slots : ring.slot[i].obj = o}
    IN /\ mem.ref[o] = Cardinality(in) + mem.lost[o]
       /\ mem.gtt[o] = Cardinality({i \in in : ~ring.slot[i].ttm})

\* MedfieldSpritePlane::setDataBuffer's "don't release buffer mapping for the
\* previous hit slot, display controller may still use the buffer": no step of
\* a plane's ring unmaps the buffer that was flipped to last while the plane
\* shows it, as long as no mapping failed.
LastShownStaysMapped ==
  [][user # "fb" /\ LastShown # None /\ mem'.fails = 0 /\ mem.ref[LastShown] > 0 /\ LastShown' = LastShown
     => mem.ref'[LastShown] > 0]_vars

\* The provider never rotates a frame into a buffer that is on screen or on its
\* way there, although it goes through its targets in a ring, starts anew at the
\* first target after most failures, until a mapping fails, when the ring's second
\* try may give up the buffer on screen, or a rendering.
RotationWritesUnseen ==
  wrote # None /\ mem.fails = 0 => wrote # scan.hw /\ wrote \notin Range(scan.post)

\* setupRotationBuffer's "To not block in HWC, just abort instead of re-try": what
\* the plane is handed of a rotated frame is what was just rendered.  This does
\* not hold: a failed rendering is reported as done and an older frame is shown.
RotatedIsShown == wrote # None /\ set # None => set = wrote

\* A provider that is stopped, by a failure anywhere or for a new configuration,
\* holds no target and starts at the first one, whose surface vaCreateContext
\* takes; the buffers that were made are its targets, or the YUV buffers of the
\* converter's mapping: none is leaked by a failure, none is in use twice.
MadeBuffersHeld ==
  /\ ~rot.va => rot = Stopped
  /\ user = "overlay" => mem.own \cap Made = Range(rot.target) \ {None}
  /\ user = "rgb" => mem.own \cap Made = Range(conv.map) \ {None}
  /\ \A b, c \in Stamps : conv.map[b] = conv.map[c] /\ conv.map[b] # None => b = c

\* A composer whose initialize() failed holds no wsbm object; one that is up has
\* its managers', and then the shared pool lives unless a provider failed last.
StartHoldsManagers ==
  /\ sys.phase = "failed" => sys.wsbm = {}
  /\ sys.phase = "up" => /\ {"bcd", "graphic"} \subseteq sys.wsbm
                         /\ sys.pool = "live" \/ "hdmi" \notin sys.wsbm
=============================================================================
