----------------------------- MODULE Hwcomposer -----------------------------
(***************************************************************************)
(* The frame loop of hwc/merrifield.  Two threads share the plane pool and *)
(* the two display devices (MIPI panel and HDMI):                          *)
(*   - the composer thread, on which SurfaceFlinger calls                  *)
(*     Hwcomposer::prepare and then Hwcomposer::commit for every frame;    *)
(*   - the hotplug thread (HotplugEventObserver::threadLoop), which runs   *)
(*     MrflHdmiDevice::onHotplug for each uevent.                          *)
(* A device has a mutex mLock; the pool has none.  A layer list is         *)
(* abstracted to the planes attached to its layers: which layers want a    *)
(* plane is the choice of the frame, and HwcLayerList.tla has the layers.  *)
(***************************************************************************)
EXTENDS DisplayPlaneManager

CONSTANT ExtendVideo   \* property hwc.feature.extend.video

Primary  == 0     \* DEVICE_PRIMARY, the MIPI panel
External == 1     \* DEVICE_EXTERNAL, the HDMI output
Devices  == {Primary, External}

ASSUME ExtendVideoAssumption == ExtendVideo \in BOOLEAN

\* Each device keeps the primary plane of its own index.
ASSUME PrimaryPlaneAssumption == PlaneCount["primary"] >= 2

VARIABLES
  \* DisplayDevice
  connected,   \* mConnection, by device
  lists,       \* the devices whose mLayerList is not null
  held,        \* the overlays attached to layers of the list, by device
  demoted,     \* those of them whose layer fell back to LAYER_FB
  prim,        \* the devices whose primary plane is attached to a layer
  lock,        \* holder of mLock, by device
  pipe,        \* OverlayPlane::mPipe, as the device it feeds
  \* the composer thread
  pc, dev,     \* where it is, and the loop index over the devices
  frame,       \* the contents passed by SurfaceFlinger, by device
  avail,       \* freeOverlayCount > 0, read when the analysis starts
  flips,       \* overlay contexts of the commit: <<overlay, device>>
  \* the hotplug thread
  ht,          \* where it is
  hdmi,        \* Drm::mOutputs[OUTPUT_HDMI].connected
  \* SurfaceFlinger
  view,        \* it composes for the external display
  fresh        \* it must flag HWC_GEOMETRY_CHANGED on the next list, by device

devVars  == <<connected, lists, held, demoted, prim, lock, pipe>>
hwcVars  == <<pc, dev, frame, avail, flips>>
plugVars == <<ht, hdmi, view>>
vars == <<pool, devVars, hwcVars, plugVars, fresh>>

Overlays == Indices("overlay")

TypeOK ==
  /\ PoolTypeOK
  /\ connected \in [Devices -> BOOLEAN]
  /\ lists \subseteq Devices
  /\ held \in [Devices -> SUBSET Overlays]
  /\ demoted \in [Devices -> SUBSET Overlays]
  /\ prim \subseteq Devices
  /\ lock \in [Devices -> {"none", "hwc", "hotplug"}]
  /\ pipe \in [Overlays -> Devices]
  /\ pc \in {"idle", "prePrepare", "prepare", "analyze", "update",
             "commit", "flip", "post", "crashed"}
  /\ dev \in Devices
  /\ frame \in [Devices -> {"null", "same", "changed"}]
  /\ avail \in BOOLEAN
  /\ flips \subseteq Overlays \X Devices
  /\ ht \in {"idle", "update", "clean", "delete", "notify"}
  /\ hdmi \in BOOLEAN /\ view \in BOOLEAN
  /\ fresh \in [Devices -> BOOLEAN]

\* Hwcomposer::initialize: detect() gives the connection of each device and
\* getPrimaryPlane(mType) takes its primary plane out of the free bitmap.
Init ==
  /\ free = [k \in Kinds |-> IF k = "primary" THEN Indices(k) \ Devices ELSE Indices(k)]
  /\ reclaimed = [k \in Kinds |-> {}]
  /\ lit = {}
  /\ hdmi \in BOOLEAN /\ view = hdmi
  /\ connected = [d \in Devices |-> d = Primary \/ hdmi]
  /\ lists = {}
  /\ held = [d \in Devices |-> {}]
  /\ demoted = [d \in Devices |-> {}]
  /\ prim = {}
  /\ lock = [d \in Devices |-> "none"]
  /\ pipe = [o \in Overlays |-> Primary]
  /\ pc = "idle" /\ dev = Primary
  /\ frame = [d \in Devices |-> "null"]
  /\ avail = FALSE
  /\ flips = {}
  /\ ht = "idle"
  /\ fresh = [d \in Devices |-> TRUE]

-----------------------------------------------------------------------------
(* The composer thread.                                                     *)

\* The loops over mDisplayDevices: the next device, or the next phase.
NextDevice(next) ==
  IF dev = Primary THEN dev' = External /\ UNCHANGED pc
                   ELSE dev' = Primary /\ pc' = next

\* Slip: a layer that fell back to LAYER_FB is skipped, its plane lost.
DeleteListSkippingDemoted(d) ==
  /\ reclaimed' = [reclaimed EXCEPT !["overlay"] = @ \cup (held[d] \ demoted[d]),
                                    !["primary"] = @ \cup (prim \cap {d})]
  /\ held' = [held EXCEPT ![d] = {}]
  /\ demoted' = [demoted EXCEPT ![d] = {}]
  /\ prim' = prim \ {d}
  /\ lists' = lists \ {d}

\* ~HwcLayerList: every attached plane goes to the reclaimed bitmaps, the
\* device's own primary plane included.
DeleteList(d) ==
  /\ reclaimed' = [reclaimed EXCEPT !["overlay"] = @ \cup held[d],
                                    !["primary"] = @ \cup (prim \cap {d})]
  /\ held' = [held EXCEPT ![d] = {}]
  /\ demoted' = [demoted EXCEPT ![d] = {}]
  /\ prim' = prim \ {d}
  /\ lists' = lists \ {d}

\* SurfaceFlinger starts a frame.  It has contents for the external display
\* only when it knows of it, and flags the geometry of the first ones.
\* prepare() then disables the planes reclaimed since the last frame.
StartPrepare ==
  /\ pc = "idle"
  /\ \E f \in [Devices -> {"null", "same", "changed"}] :
       /\ ~view => f[External] = "null"
       /\ \A d \in Devices : fresh[d] => f[d] # "same"
       /\ frame' = f
       /\ fresh' = [d \in Devices |-> f[d] = "null"]
  /\ DisableReclaimedPlanes
  /\ pc' = "prePrepare" /\ dev' = Primary
  /\ UNCHANGED <<devVars, avail, flips, plugVars>>

\* prePrepare(): a connected device deletes the list of a null or changed
\* display, so that every plane is back before any device asks for one.
PrePrepare ==
  /\ pc = "prePrepare"
  /\ \/ /\ ~connected[dev] \/ (frame[dev] = "same" /\ lock[dev] = "none")
        /\ UNCHANGED <<reclaimed, lists, held, demoted, prim>>
     \/ /\ connected[dev] /\ frame[dev] # "same" /\ lock[dev] = "none"
        /\ DeleteList(dev)
  /\ NextDevice("prepare")
  /\ UNCHANGED <<free, lit, connected, lock, pipe,
                 frame, avail, flips, plugVars, fresh>>

\* prepare() of a device that has nothing to do, or no list to update.
SkipPrepare ==
  /\ pc = "prepare"
  /\ \/ ~connected[dev]
     \/ lock[dev] = "none" /\ frame[dev] = "null"
     \/ lock[dev] = "none" /\ frame[dev] = "same" /\ dev \notin lists
  /\ NextDevice("commit")
  /\ UNCHANGED <<pool, devVars, frame, avail, flips, plugVars, fresh>>

\* Slip: a new list is built without looking at mConnection under mLock.
BeginPrepareUnchecked ==
  /\ pc = "prepare"
  /\ lock[dev] = "none" /\ frame[dev] = "changed"
  /\ lists' = lists \cup {dev}
  /\ held' = [held EXCEPT ![dev] = {}]
  /\ demoted' = [demoted EXCEPT ![dev] = {}]
  /\ prim' = prim \ {dev}
  /\ avail' = HasFree("overlay")
  /\ pc' = "analyze"
  /\ lock' = [lock EXCEPT ![dev] = "hwc"]
  /\ UNCHANGED <<pool, connected, pipe, dev, frame, flips, plugVars, fresh>>

\* prepare() under mLock: onGeometryChanged() overwrites mLayerList with a
\* new list, whose analysis starts by counting the planes.
BeginPrepare ==
  /\ pc = "prepare"
  /\ connected[dev] /\ lock[dev] = "none"
  /\ \/ /\ frame[dev] = "changed"
        /\ lists' = lists \cup {dev}
        /\ held' = [held EXCEPT ![dev] = {}]
        /\ demoted' = [demoted EXCEPT ![dev] = {}]
        /\ prim' = prim \ {dev}
        /\ avail' = HasFree("overlay")
        /\ pc' = "analyze"
     \/ /\ frame[dev] = "same" /\ dev \in lists
        /\ pc' = "update"
        /\ UNCHANGED <<lists, held, demoted, prim, avail>>
  /\ lock' = [lock EXCEPT ![dev] = "hwc"]
  /\ UNCHANGED <<pool, connected, pipe, dev, frame, flips, plugVars, fresh>>

\* The primary display leaves the overlay to the external one.
VideoExtended == ExtendVideo /\ dev = Primary /\ hdmi

\* analyzeFrom(): a layer the overlay can show gets one, as long as there are.
AttachOverlay ==
  /\ pc = "analyze" /\ avail /\ ~VideoExtended
  /\ \E o \in Overlays :
       /\ GetPlane("overlay", o)
       /\ held' = [held EXCEPT ![dev] = @ \cup {o}]
  /\ UNCHANGED <<lit, connected, lists, demoted, prim, lock, pipe,
                 hwcVars, plugVars, fresh>>

\* analyzeFrom() in extended video mode: the overlay, reclaimed or free, is
\* taken and put on the free bitmap at once.
ReleaseOverlay ==
  /\ pc = "analyze" /\ avail /\ VideoExtended
  /\ \E o \in Overlays :
       /\ LowestBit(o, reclaimed["overlay"])
       /\ reclaimed' = [reclaimed EXCEPT !["overlay"] = @ \ {o}]
       /\ free' = PutFree("overlay", o)
  /\ UNCHANGED <<lit, devVars, hwcVars, plugVars, fresh>>

\* revisit() at the end of the analysis: the primary plane goes to the one
\* layer left or to the framebuffer target, or stays unused.
FinishAnalyze ==
  /\ pc = "analyze"
  /\ prim' \in {prim, prim \cup {dev}}
  /\ avail' = FALSE
  /\ pc' = "update"
  /\ UNCHANGED <<pool, connected, lists, held, demoted, lock, pipe,
                 dev, frame, flips, plugVars, fresh>>

\* Slip: an overlay that is on stays on the pipe it had.
UpdateKeepingPipe ==
  LET tried == held[dev] \ demoted[dev] IN
  /\ pc = "update"
  /\ \E ok \in SUBSET tried :
       /\ lit' = lit \cup ok
       /\ demoted' = [demoted EXCEPT ![dev] = @ \cup (tried \ ok)]
       /\ prim' = IF ok = tried THEN prim ELSE prim \cup {dev}
  /\ pipe' = [o \in Overlays |-> IF o \in tried \ lit THEN dev ELSE pipe[o]]
  /\ lock' = [lock EXCEPT ![dev] = "none"]
  /\ pc' = IF dev = Primary THEN "prepare" ELSE "commit"
  /\ dev' = IF dev = Primary THEN External ELSE Primary
  /\ UNCHANGED <<free, reclaimed, connected, lists, held,
                 frame, avail, flips, plugVars, fresh>>

\* HwcLayerList::update(): each layer that still has its overlay assigns it
\* to the pipe, which disables it first when the pipe changes, and sets its
\* buffer, which may fail (ok are the ones that succeed).  A layer that
\* fails falls back to LAYER_FB with its plane attached, and revisit() then
\* attaches the primary plane to the framebuffer target.
Update ==
  LET tried == held[dev] \ demoted[dev]
      switched == {o \in tried : pipe[o] # dev} IN
  /\ pc = "update"
  /\ \E ok \in SUBSET tried :
       /\ lit' = (lit \ switched) \cup ok
       /\ demoted' = [demoted EXCEPT ![dev] = @ \cup (tried \ ok)]
       /\ prim' = IF ok = tried THEN prim ELSE prim \cup {dev}
  /\ pipe' = [o \in Overlays |-> IF o \in tried THEN dev ELSE pipe[o]]
  /\ lock' = [lock EXCEPT ![dev] = "none"]
  /\ pc' = IF dev = Primary THEN "prepare" ELSE "commit"
  /\ dev' = IF dev = Primary THEN External ELSE Primary
  /\ UNCHANGED <<free, reclaimed, connected, lists, held,
                 frame, avail, flips, plugVars, fresh>>

\* commit(): isConnected() and the parameters are checked without mLock.
CheckCommit ==
  /\ pc = "commit"
  /\ IF connected[dev] /\ frame[dev] # "null"
       THEN pc' = "flip" /\ UNCHANGED dev
       ELSE NextDevice("post")
  /\ UNCHANGED <<pool, devVars, frame, avail, flips, plugVars, fresh>>

\* Mrfl{Mipi,Hdmi}Device::commit under mLock: flip the plane of each layer
\* and add its context.  mLayerList is dereferenced as it is.
Flip ==
  /\ pc = "flip" /\ lock[dev] = "none"
  /\ IF dev \in lists
       THEN /\ flips' = flips \cup (held[dev] \X {dev})
            /\ IF dev = Primary THEN dev' = External /\ pc' = "commit"
                                ELSE dev' = Primary /\ pc' = "post"
       ELSE pc' = "crashed" /\ UNCHANGED <<flips, dev>>
  /\ UNCHANGED <<pool, devVars, frame, avail, plugVars, fresh>>

\* commitContexts(): Post2 hands the contexts to the display driver; the
\* contents of the frame are the caller's again.
Post ==
  /\ pc = "post"
  /\ flips' = {}
  /\ frame' = [d \in Devices |-> "null"]
  /\ pc' = "idle"
  /\ UNCHANGED <<pool, devVars, dev, avail, plugVars, fresh>>

\* A null mLayerList was dereferenced: the process is gone.
Crashed == pc = "crashed" /\ UNCHANGED vars

ComposerNext ==
  \/ PrePrepare \/ SkipPrepare \/ BeginPrepare
  \/ AttachOverlay \/ ReleaseOverlay \/ FinishAnalyze \/ Update
  \/ CheckCommit \/ Flip \/ Post

-----------------------------------------------------------------------------
(* The hotplug thread.                                                      *)

Running == pc # "crashed"

\* A uevent arrives: onUEvent -> onHotplug -> Drm::detect(), which finds the
\* output connected or not, whatever it was before.  When detect() fails
\* nothing happens.
HotplugEvent ==
  /\ Running
  /\ ht = "idle"
  /\ hdmi' \in BOOLEAN
  /\ ht' = "update"
  /\ UNCHANGED <<pool, devVars, hwcVars, view, fresh>>

\* updateDisplayConfigs() under mLock.
UpdateConnection ==
  /\ Running
  /\ ht = "update" /\ lock[External] = "none"
  /\ connected' = [connected EXCEPT ![External] = hdmi]
  /\ ht' = "clean"
  /\ UNCHANGED <<pool, lists, held, demoted, prim, lock, pipe, hwcVars, hdmi, view, fresh>>

\* The lock scope of onHotplug: a disconnected device deletes its list.
BeginClean ==
  /\ Running
  /\ ht = "clean" /\ lock[External] = "none"
  /\ IF ~connected[External] /\ External \in lists
       THEN lock' = [lock EXCEPT ![External] = "hotplug"] /\ ht' = "delete"
       ELSE UNCHANGED lock /\ ht' = "notify"
  /\ UNCHANGED <<pool, connected, lists, held, demoted, prim, pipe, hwcVars, hdmi, view, fresh>>

\* ~HwcLayerList on the hotplug thread, one plane after the other.
ReclaimOne ==
  /\ Running
  /\ ht = "delete"
  /\ \/ /\ \E o \in held[External] :
             /\ reclaimed' = Reclaim("overlay", {o})
             /\ held' = [held EXCEPT ![External] = @ \ {o}]
        /\ UNCHANGED prim
     \/ /\ External \in prim
        /\ reclaimed' = Reclaim("primary", {External})
        /\ prim' = prim \ {External}
        /\ UNCHANGED held
  /\ UNCHANGED <<free, lit, connected, lists, demoted, lock, pipe,
                 hwcVars, plugVars, fresh>>

\* Slips: the hotplug thread disables the planes it has reclaimed at once; or
\* it returns with mLock held.
EndCleanDisabling ==
  /\ Running
  /\ ht = "delete" /\ held[External] = {} /\ External \notin prim
  /\ DisableReclaimedPlanes
  /\ lists' = lists \ {External}
  /\ demoted' = [demoted EXCEPT ![External] = {}]
  /\ lock' = [lock EXCEPT ![External] = "none"]
  /\ ht' = "notify"
  /\ UNCHANGED <<connected, held, prim, pipe, hwcVars, hdmi, view, fresh>>


\* The end of ~HwcLayerList and of the lock scope.
EndClean ==
  /\ Running
  /\ ht = "delete" /\ held[External] = {} /\ External \notin prim
  /\ lists' = lists \ {External}
  /\ demoted' = [demoted EXCEPT ![External] = {}]
  /\ lock' = [lock EXCEPT ![External] = "none"]
  /\ ht' = "notify"
  /\ UNCHANGED <<pool, connected, held, prim, pipe, hwcVars, hdmi, view, fresh>>

\* mHwc.hotplug(mType, mConnection), read without mLock: SurfaceFlinger adds
\* or removes the external display.
Notify ==
  /\ Running
  /\ ht = "notify"
  /\ view' = connected[External]
  /\ fresh' = [fresh EXCEPT ![External] = TRUE]
  /\ ht' = "idle"
  /\ UNCHANGED <<pool, devVars, hwcVars, hdmi>>

HotplugNext ==
  \/ UpdateConnection \/ BeginClean \/ ReclaimOne
  \/ EndClean \/ Notify

-----------------------------------------------------------------------------
Next == StartPrepare \/ ComposerNext \/ Crashed \/ HotplugEvent \/ HotplugNext

Spec == Init /\ [][Next]_vars

\* The threads run.  Each is at one point of its code, so strong fairness of
\* the thread says that a mutex it waits for and that is released again and
\* again is acquired in the end.  SurfaceFlinger goes on composing; nothing
\* obliges the cable to move.
Fairness == SF_vars(StartPrepare \/ ComposerNext) /\ SF_vars(HotplugNext)

FairSpec == Spec /\ Fairness

-----------------------------------------------------------------------------
(* Properties.                                                              *)

\* At every moment, also while the two threads are inside a list's analysis
\* and a list's destruction, an overlay is on exactly one of the two bitmaps
\* or attached in exactly one display's list: none is lost, none shared.
OneOwner ==
  /\ free["overlay"] \cup reclaimed["overlay"] \cup held[Primary] \cup held[External] = Overlays
  /\ free["overlay"] \cap reclaimed["overlay"] = {}
  /\ held[Primary] \cap held[External] = {}
  /\ \A d \in Devices : held[d] \cap (free["overlay"] \cup reclaimed["overlay"]) = {}

\* An overlay on the free bitmap shows nothing: the way from an owner to the
\* free bitmap passes through disableReclaimedPlanes().
FreePlanesDark == free["overlay"] \cap lit = {}

\* An overlay is flipped on the pipe of the display that flips it, also when
\* the other display had it last and it came by the reclaimed bitmap, still on
\* (OverlayPlane::assignToPipe).
FlipsOnOwnPipe == \A f \in flips : pipe[f[1]] = f[2]

\* From the flip to Post2 the overlays of the commit stay what they were: an
\* unplug in between can reclaim them but nobody else gets or disables them.
FlippedPlanesKept ==
  \A f \in flips : \/ f[1] \in held[f[2]]
                   \/ f[1] \in reclaimed["overlay"] /\ f[2] = External

\* Once onHotplug is done with an unplugged display, the display holds no
\* plane and has no list, whatever prepare() was doing meanwhile.
DisconnectedHoldsNothing ==
  ~connected[External] /\ ht \in {"idle", "update", "notify"}
    => /\ External \notin lists
       /\ held[External] = {} /\ External \notin prim

\* "reclaim all allocated planes if possible" (prepare): when the panel
\* analyses its new list, a connected external display whose contents are to
\* change has already given its planes back.
ReclaimedBeforeAssigned ==
  pc = "analyze" /\ dev = Primary /\ connected[External] /\ frame[External] # "same"
    => held[External] = {}

\* The inductive invariant behind these properties.

Analysing == pc \in {"analyze", "update"}

\* mLock of a device is held exactly while its list is built and updated, and
\* that of the external device while the hotplug thread destroys its list.
LockInv ==
  /\ \A d \in Devices : lock[d] = "hwc" <=> Analysing /\ dev = d
  /\ \A d \in Devices : lock[d] = "hotplug" <=> ht = "delete" /\ d = External

\* Planes are attached only in lists that exist, and lists exist on connected
\* devices until the hotplug thread has cleaned up.
ListInv ==
  /\ connected[Primary]
  /\ \A d \in Devices : d \notin lists => held[d] = {} /\ d \notin prim
  /\ Analysing => dev \in lists /\ connected[dev]
  /\ pc = "analyze" => demoted[dev] = {}
  /\ ht = "delete" => ~connected[External] /\ External \in lists
  /\ DisconnectedHoldsNothing

\* The device has been through prePrepare() and not yet through prepare().
Pending(d) ==
  \/ pc = "prePrepare" /\ dev = External /\ d = Primary
  \/ pc = "prepare" /\ (dev = Primary \/ d = External)
  \/ Analysing /\ dev = Primary /\ d = External

\* onGeometryChanged() overwrites a null mLayerList only.
PendingInv ==
  \A d \in Devices :
    Pending(d) /\ connected[d] /\ frame[d] # "same" => d \notin lists

\* Only a plane whose update is still to come may be on another pipe.
PipeInv ==
  \A d \in Devices : \A o \in held[d] :
    pipe[o] # d => Analysing /\ dev = d /\ o \notin demoted[d]

FlipInv ==
  /\ pc \notin {"commit", "flip", "post", "crashed"} => flips = {}
  /\ FlipsOnOwnPipe
  /\ FlippedPlanesKept

\* The invariant the proofs of Hwcomposer_proofs rest on.
IInv == TypeOK /\ LockInv /\ ListInv /\ PendingInv /\ OneOwner /\ PipeInv /\ FlipInv


\* The pool and its clients keep the promises of the ledger.
Ledger == INSTANCE PlaneLedger WITH
            Planes <- Overlays, Owners <- Devices,
            free <- free["overlay"], reclaimed <- reclaimed["overlay"]
ImplementsLedger == Ledger!Spec

\* What a comment says and the code does not do:

\* "null HWC layer list" is an error that a device reports: no call goes
\* through a null mLayerList.  It does not hold: see the README's findings.
NullListIsReported == Running
=============================================================================
