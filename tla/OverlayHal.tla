----------------------------- MODULE OverlayHal -----------------------------
(***************************************************************************)
(* The legacy overlay HAL (overlayhal/): the PVROverlayHAL object behind   *)
(* the control and data devices of one process, the context it shares, the *)
(* memory of the control blocks and data buffers, and the two overlays of  *)
(* the display controller, against outputs that come and go and calls into *)
(* the kernel that are refused.                                            *)
(*                                                                         *)
(* Threads of a data device's client take and queue its buffers, the       *)
(* window manager's thread opens, places and closes.  The calls of a       *)
(* client thread are cut where another thread can come in between; the     *)
(* context's own mutex makes every access to it one step.  A span stands   *)
(* for both axes of a window.  A client opens a data device for an overlay *)
(* it was given, initializes it once, uses it only if that succeeded, does *)
(* not close it during a call, and shows the video driver's pictures only  *)
(* when none of its own is on the way.  The kernel lets go of memory,      *)
(* mappings and registers whenever it is asked to.                         *)
(***************************************************************************)
EXTENDS Integers, FiniteSets, Functions, OverlayLayout

CONSTANTS
  Devs,       \* data devices
  Threads,    \* for each data device, the threads of its client
  Shapes,     \* the shapes an overlay may be created with
  Spans,      \* the places a window may be put at
  BufferNum,  \* PVR_OVERLAY_BUFFER_NUM
  Starts,     \* how the outputs may be at the start
  Changes,    \* <<output, state>> that it may change to
  MaxRefused, \* bound: things refused in one behaviour
  MaxPlugs,   \* bound: changes of the outputs
  MaxAlloc,   \* bound: memory allocated when a data device is opened
  None

Overlays == {"A", "C"}
Outputs == {"mipi0", "mipi1", "hdmi"}
Cables == {"off", "dark", "on"}   \* gone, connected without a mode, connected and lit

ASSUME NoneAssumption == None \notin Devs
ASSUME FiniteAssumption == IsFiniteSet(Devs) /\ \A d \in Devs : IsFiniteSet(Threads[d])
ASSUME BufferAssumption == BufferNum \in Nat \ {0}
ASSUME ShapeAssumption == Shapes \subseteq [format : Formats, width : 1..MaxDim, height : 1..MaxDim]
ASSUME SpanAssumption == Spans \subseteq [x : Int, w : Int]
ASSUME OutputAssumption == Starts \subseteq [Outputs -> Cables] /\ Changes \subseteq Outputs \X Cables
ASSUME RefusedAssumption == MaxRefused \in Nat

Modes == {"none", "mipi0", "mipi1", "dual", "hdmi", "unknown"}
Pipes == [none |-> 0, mipi0 |-> 0, mipi1 |-> 1, dual |-> 0, hdmi |-> 2, unknown |-> 0]
Slots == 1..BufferNum
\* The width of the mode of an output; an output without a mode has width 0.
Screen == [mipi0 |-> 64, mipi1 |-> 64, hdmi |-> 128]

VARIABLES
  hal,     \* PVROverlayHAL: what is open, mSharedContext, mDrmModeChanged
  pool,    \* mainPool of the WSBM wrapper, which outlives the object
  ctx,     \* the shared context: mode, outputs connected, modes, positions
  ctl,     \* the control device: open, mFreeOverlays, overlays handed out
  dev,     \* the data devices
  thr,     \* the threads of their clients
  mem,     \* PVR2D memory: allocated, in the GTT; what was refused and happened
  ovadd,   \* whose control block each overlay was last told to show, and where
  plug,    \* the outputs as the kernel sees them, and changes so far
  down     \* the process has crashed

vars == <<hal, pool, ctx, ctl, dev, thr, mem, ovadd, plug, down>>

Fresh == [drm |-> FALSE, video |-> FALSE, pvr2d |-> FALSE, ctx |-> FALSE, changed |-> FALSE]
Unread == [mode |-> "none", conn |-> [o \in Outputs |-> FALSE],
           size |-> [o \in Outputs |-> 0], pos |-> [o \in Overlays |-> [x |-> 0, w |-> 0]]]
Closed == [state |-> "closed", block |-> FALSE, index |-> "A",
           slots |-> [i \in Slots |-> "garbage"], count |-> 0,
           own |-> FALSE]
Idle == [at |-> "idle", old |-> "none", own |-> FALSE]
Off == [dev |-> None, pipe |-> 0, on |-> FALSE]

\* Other reasons for a property not to be owed: the HAL was closed under a data
\* device, or the mode was looked at again by other than the device that shows.
Causes == {"torn", "drift"}

TypeOK ==
  /\ hal \in [drm : BOOLEAN, video : BOOLEAN, pvr2d : BOOLEAN, ctx : BOOLEAN, changed : BOOLEAN]
  /\ pool \in {"none", "live", "gone"}
  /\ ctx \in [mode : Modes, conn : [Outputs -> BOOLEAN], size : [Outputs -> Nat],
              pos : [Overlays -> [x : Int, w : Int]]]
  /\ ctl \in [open : BOOLEAN, free : SUBSET Overlays, given : SUBSET Overlays]
  /\ dev \in [Devs -> [state : {"closed", "open", "ready", "failed"}, block : BOOLEAN,
                       index : Overlays, count : Int,
                       slots : [Slots -> {"garbage", "null", "held", "freed"}],
                       own : BOOLEAN]]
  /\ DOMAIN thr = Devs
  /\ \A d \in Devs :
       thr[d] \in [Threads[d] -> [at : {"idle", "asleep", "woken", "holds", "switching", "showing"},
                               old : Modes, own : BOOLEAN]]
  /\ mem \in [alloc : Nat, mapped : Nat, refused : 0..MaxRefused, causes : SUBSET Causes]
  /\ ovadd \in [Overlays -> [dev : Devs \cup {None}, pipe : 0..2, on : BOOLEAN]]
  /\ plug \in [Outputs -> Cables] \X Nat
  /\ down \in BOOLEAN

Init ==
  /\ hal = Fresh /\ pool = "none" /\ ctx = Unread
  /\ ctl = [open |-> FALSE, free |-> Overlays, given |-> {}]
  /\ dev = [d \in Devs |-> Closed]
  /\ thr = [d \in Devs |-> [t \in Threads[d] |-> Idle]]
  /\ mem = [alloc |-> 0, mapped |-> 0, refused |-> 0, causes |-> {}]
  /\ ovadd = [o \in Overlays |-> Off]
  /\ plug \in Starts \X {0}
  /\ down = FALSE

-----------------------------------------------------------------------------
(* Calls into the kernel and the PVR2D library.  An operator takes the      *)
(* memory m and returns the set of its outcomes.                            *)

\* Memory, a mapping, a pool or a context is refused.  Lookups are refused at
\* will: they change nothing.
Refused(m) == IF m.refused < MaxRefused THEN {[m EXCEPT !.refused = @ + 1]} ELSE {}
Excused(causes) == mem.causes \cap causes # {}
Note(m, cause) == [m EXCEPT !.causes = @ \cup {cause}]

allocatePVR2DBuffer(m) ==
  (IF hal.pvr2d THEN {[m |-> [m EXCEPT !.alloc = @ + 1], ok |-> TRUE]} ELSE {[m |-> m, ok |-> FALSE]})
    \cup {[m |-> r, ok |-> FALSE] : r \in Refused(m)}

destroyPVR2DBuffer(m) ==
  IF ~hal.pvr2d THEN [m |-> m, ok |-> FALSE] ELSE [m |-> [m EXCEPT !.alloc = @ - 1], ok |-> TRUE]

gttMap(m) ==
  (IF hal.drm THEN {[m |-> [m EXCEPT !.mapped = @ + 1], ok |-> TRUE]} ELSE {[m |-> m, ok |-> FALSE]})
    \cup {[m |-> r, ok |-> FALSE] : r \in Refused(m)}

gttUnmap(m) ==
  IF ~hal.drm THEN [m |-> m, ok |-> FALSE] ELSE [m |-> [m EXCEPT !.mapped = @ - 1], ok |-> TRUE]

\* A buffer and, for a data buffer, the memory clients write to.  When only the
\* second is refused the first is given back, but the slot still points at it.
allocateOverlayBuffer(m, data) ==
  UNION {
    IF ~a.ok THEN {[m |-> a.m, slot |-> "null"]}
    ELSE UNION {
      IF ~g.ok THEN {[m |-> destroyPVR2DBuffer(g.m).m, slot |-> "null"]}
      ELSE IF ~data THEN {[m |-> g.m, slot |-> "held"]}
      ELSE {IF b.ok THEN [m |-> b.m, slot |-> "held"]
            ELSE [m |-> destroyPVR2DBuffer(gttUnmap(b.m).m).m, slot |-> "freed"] : b \in allocatePVR2DBuffer(g.m)} :
      g \in gttMap(a.m)} :
    a \in allocatePVR2DBuffer(m)}

\* Slip: memory is freed while it is in the GTT when that will not let go of it.
DestroyMapped(m, data) ==
  LET f == destroyPVR2DBuffer(m)
  IN IF f.ok /\ data THEN destroyPVR2DBuffer(f.m).m ELSE f.m

\* What cannot be taken out of the GTT is kept, and with it the rest.
DestroyHeld(m, data) ==
  LET u == gttUnmap(m)
      f == destroyPVR2DBuffer(u.m)
  IN IF ~u.ok THEN m ELSE IF f.ok /\ data THEN destroyPVR2DBuffer(f.m).m ELSE f.m

\* What the slot holds decides: memory, nothing, or an address that is not
\* ours (freed, or never set) and either kills the process or is refused.
destroyOverlayBuffer(m, slot, data) ==
  CASE slot = "held" -> {[m |-> DestroyHeld(m, data), dead |-> FALSE]}
    [] slot = "null" -> {[m |-> m, dead |-> FALSE]}
    [] OTHER -> {[m |-> m, dead |-> b] : b \in BOOLEAN}

-----------------------------------------------------------------------------
(* PVROverlayHAL.                                                           *)

drmInit(h) == [h EXCEPT !.drm = TRUE]
drmDestroy(h) == [h EXCEPT !.drm = FALSE]
getVideoBridgeIoctl(h) == [h EXCEPT !.video = TRUE]
pvr2DInit(h) == [h EXCEPT !.pvr2d = TRUE]
pvr2DDestroy(h) == [h EXCEPT !.pvr2d = FALSE]

\* The pool is made, or WSBM or the kernel refuses first, or the pool itself.
pvrWsbmInitialize(p, m) ==
  {[pool |-> "live", m |-> m]} \cup {[pool |-> q, m |-> r] : q \in {p, "none"}, r \in Refused(m)}

\* Taking down a pool that is not there ends the process.
pvrWsbmTakedown(p) == [pool |-> "gone", dead |-> p # "live"]

\* Every open comes here.  What is open already stays; the WSBM object is made
\* anew each time, and that its pool failed is not noticed.
initialize(m) ==
  LET d == drmInit(hal)
      v == getVideoBridgeIoctl(d)
      Failed(h) == {[hal |-> h, pool |-> pool, m |-> m, ok |-> FALSE]}
  IN (IF hal.drm THEN {} ELSE Failed(hal))
     \cup (IF hal.video THEN {} ELSE Failed(drmDestroy(d)))
     \cup (IF hal.pvr2d THEN {} ELSE Failed(drmDestroy(v)))
     \cup {[hal |-> pvr2DInit(v), pool |-> w.pool, m |-> w.m, ok |-> TRUE] : w \in pvrWsbmInitialize(pool, m)}

\* A context that is there is shared; a new one starts out unread.
createSharedContext(h, m) ==
  IF h.ctx THEN {[hal |-> h, ctx |-> ctx, m |-> m]}
  ELSE {[hal |-> [h EXCEPT !.ctx = TRUE], ctx |-> Unread, m |-> m]}
         \cup {[hal |-> h, ctx |-> Unread, m |-> r] : r \in Refused(m)}

destroySharedContext(h) == [h EXCEPT !.ctx = FALSE]

\* One that could not be made has no descriptor to map either.
openSharedContext(h) == h.ctx

\* The object that takes the place of a deleted one remembers nothing.
DestroyHAL(h) ==
  [drmDestroy(pvr2DDestroy(h)) EXCEPT !.video = FALSE, !.changed = FALSE]

ModeOf(conn) ==
  CASE conn["hdmi"] -> "hdmi"
    [] ~conn["hdmi"] /\ conn["mipi0"] /\ conn["mipi1"] -> "dual"
    [] ~conn["hdmi"] /\ conn["mipi0"] /\ ~conn["mipi1"] -> "mipi0"
    [] ~conn["hdmi"] /\ ~conn["mipi0"] /\ conn["mipi1"] -> "mipi1"
    [] OTHER -> "unknown"

\* Without DRM or its resources nothing changes.  An output without an encoder
\* and a crtc keeps the mode that was last read of it.  A context that was not
\* made is read all the same.
detectDrmModeInfo(h, c) ==
  LET conn == [o \in Outputs |-> plug[1][o] # "off"]
      size == [o \in Outputs |-> IF plug[1][o] = "on" THEN Screen[o] ELSE c.size[o]]
  IN {[ctx |-> c, dead |-> FALSE]}
     \cup (IF ~h.drm THEN {} ELSE IF ~h.ctx THEN {[ctx |-> c, dead |-> TRUE]}
           ELSE {[ctx |-> [c EXCEPT !.conn = conn, !.size = size, !.mode = ModeOf(conn)], dead |-> FALSE]})

\* The mode changed in someone else's hands while an overlay is on.
Drifted(c, m) ==
  IF c.mode # ctx.mode /\ \E o \in Overlays : ovadd[o].on THEN Note(m, "drift") ELSE m

\* The registers in W are told what reg says.
Write(W, reg, regs) == IF hal.drm THEN [o \in Overlays |-> IF o \in W THEN reg[o] ELSE regs[o]] ELSE regs

\* The registers that a mode uses: overlay A, whichever the device was created
\* for, and C for a second panel.
Shown(mode) == CASE mode = "none" -> {} [] mode = "dual" -> Overlays [] OTHER -> {"A"}

\* Slip: an overlay that is turned off is not told so for the second panel.
UpdateFirst(d, mode, on) ==
  LET Reg(pipe) == IF on THEN [dev |-> d, pipe |-> pipe, on |-> TRUE] ELSE Off
  IN IF ~dev[d].block THEN ovadd
     ELSE Write(IF on THEN Shown(mode) ELSE Shown(mode) \ {"C"}, [A |-> Reg(Pipes[mode]), C |-> Reg(1)], ovadd)

\* The control block of device d is what the overlays of the mode now show.
updateOverlay(d, mode, on) ==
  LET Reg(pipe) == IF on THEN [dev |-> d, pipe |-> pipe, on |-> TRUE] ELSE Off
  IN IF ~dev[d].block THEN ovadd ELSE Write(Shown(mode), [A |-> Reg(Pipes[mode]), C |-> Reg(1)], ovadd)

\* It looks the mode up in the context, without a check, once DRM is open.
Unmapped(d) == dev[d].block /\ hal.drm /\ ~hal.ctx

resetOverlay(d, mode) == updateOverlay(d, mode, FALSE)

\* Where the window of a device is shown.
getPosition(d) ==
  IF ctx.mode = "hdmi" THEN [x |-> 0, w |-> ctx.size["hdmi"]]
  ELSE ClippedTo(ctx.pos[dev[d].index], ctx.size["mipi0"])

-----------------------------------------------------------------------------
(* The control device.                                                      *)

\* The open, and the control device with the first look at the outputs.
OpenControl ==
  /\ ~ctl.open /\ ~Excused({"torn"})
  /\ \E i \in initialize(mem) :
       /\ pool' = i.pool
       /\ \/ /\ ~i.ok
             /\ hal' = i.hal /\ mem' = i.m
             /\ UNCHANGED <<ctl, ctx, down>>
          \/ /\ i.ok /\ ctl' = [open |-> TRUE, free |-> Overlays, given |-> {}]
             /\ \E s \in createSharedContext(i.hal, i.m) : \E d \in detectDrmModeInfo(s.hal, s.ctx) :
                  hal' = s.hal /\ ctx' = d.ctx /\ mem' = Drifted(d.ctx, s.m) /\ down' = d.dead
  /\ UNCHANGED <<dev, thr, ovadd, plug>>

\* The HAL object goes with the control device, whoever else uses it.
CloseControl ==
  /\ ctl.open
  /\ ctl' = [open |-> FALSE, free |-> Overlays, given |-> {}]
  /\ hal' = DestroyHAL(destroySharedContext(hal)) /\ ctx' = Unread
  /\ pool' = pvrWsbmTakedown(pool).pool /\ down' = pvrWsbmTakedown(pool).dead
  /\ mem' = IF \E d \in Devs : dev[d].state # "closed" THEN Note(mem, "torn") ELSE mem
  /\ UNCHANGED <<dev, thr, ovadd, plug>>

\* The first free one.
getOverlay == IF "A" \in ctl.free THEN "A" ELSE "C"

CreateOverlay ==
  /\ ctl.open /\ ctl.free # {}
  /\ ctl' = [ctl EXCEPT !.free = @ \ {getOverlay}, !.given = @ \cup {getOverlay}]
  /\ UNCHANGED <<hal, pool, ctx, dev, thr, mem, ovadd, plug, down>>

putOverlay(o) == [ctl EXCEPT !.free = @ \cup {o}, !.given = @ \ {o}]

\* The window manager does so when no device shows on it any more.
DestroyOverlay(o) ==
  /\ o \in ctl.given /\ \A d \in Devs : dev[d].state = "ready" => dev[d].index # o
  /\ ctl' = putOverlay(o)
  /\ UNCHANGED <<hal, pool, ctx, dev, thr, mem, ovadd, plug, down>>

setPosition(o, span) == [ctx EXCEPT !.pos[o] = span]

SetPosition(o, span) ==
  /\ o \in ctl.given /\ hal.ctx
  /\ ctx' = setPosition(o, span)
  /\ UNCHANGED <<hal, pool, ctl, dev, thr, mem, ovadd, plug, down>>

-----------------------------------------------------------------------------
(* The data devices.                                                        *)

Held(d) == {i \in Slots : dev[d].slots[i] = "held"}

\* The open, and the device with its control block, which it may go without.
\* After the HAL was closed under a data device no other is followed.
OpenData(d) ==
  /\ dev[d].state = "closed" /\ ~Excused({"torn"}) /\ ctl.given # {} /\ mem.alloc <= MaxAlloc
  /\ \E i \in initialize(mem) :
       /\ hal' = i.hal /\ pool' = i.pool
       /\ \/ ~i.ok /\ mem' = i.m /\ dev' = dev
          \/ /\ i.ok
             /\ \E b \in allocateOverlayBuffer(i.m, FALSE) :
                  /\ mem' = b.m
                  /\ dev' = [dev EXCEPT ![d] = [Closed EXCEPT !.state = "open", !.block = b.slot = "held"]]
  /\ UNCHANGED <<ctx, ctl, thr, ovadd, plug, down>>

\* The data buffers one after the other, up to the first that is refused.
AllocateSlots(m) ==
  LET filled[i \in 0..BufferNum] ==
        IF i = 0 THEN {[m |-> m, slots |-> Closed.slots, ok |-> TRUE]}
        ELSE UNION {IF ~p.ok THEN {p}
                    ELSE {[m |-> a.m, ok |-> a.slot = "held", slots |-> [p.slots EXCEPT ![i] = a.slot]] :
                            a \in allocateOverlayBuffer(p.m, TRUE)} : p \in filled[i - 1]}
  IN filled[BufferNum]

\* The buffers in the slots are destroyed, in turn.
DestroySlots(m, slots) ==
  LET emptied[i \in 0..BufferNum] ==
        IF i = 0 THEN {[m |-> m, dead |-> FALSE]}
        ELSE UNION {{[x EXCEPT !.dead = @ \/ p.dead] : x \in destroyOverlayBuffer(p.m, slots[i], TRUE)} :
                      p \in emptied[i - 1]}
  IN emptied[BufferNum]

\* A slot whose buffer was refused is not among those that are given back.
GiveBack(a) ==
  {[m |-> x.m, dead |-> x.dead, slots |-> [i \in Slots |-> IF a.slots[i] = "held" THEN "null" ELSE a.slots[i]]] :
     x \in DestroySlots(a.m, [i \in Slots |-> IF a.slots[i] = "held" THEN "held" ELSE "null"])}

\* initialize() of a device for overlay o.
Initialize(d, o) ==
  LET Ready(slots) == [Closed EXCEPT !.state = "ready", !.block = dev[d].block, !.slots = slots, !.index = o,
                                     !.count = BufferNum]
  IN /\ dev[d].state = "open" /\ o \in ctl.given
     /\ \/ /\ ~openSharedContext(hal)
           /\ dev' = [dev EXCEPT ![d].state = "failed"]
           /\ UNCHANGED <<mem, ctx, ovadd, down>>
        \/ /\ openSharedContext(hal)
           /\ \E c \in detectDrmModeInfo(hal, ctx) : \E a \in AllocateSlots(Drifted(c.ctx, mem)) :
                /\ ctx' = c.ctx
                /\ \/ /\ a.ok /\ dev' = [dev EXCEPT ![d] = Ready(a.slots)]
                      /\ ovadd' = resetOverlay(d, c.ctx.mode) /\ mem' = a.m
                      /\ UNCHANGED down
                   \/ /\ ~a.ok
                      /\ \E g \in GiveBack(a) :
                           /\ dev' = [dev EXCEPT ![d].state = "failed", ![d].slots = g.slots]
                           /\ mem' = g.m /\ down' = g.dead
                      /\ UNCHANGED ovadd
     /\ UNCHANGED <<hal, pool, ctl, thr, plug>>

\* ~PVROverlayDataDevice: the overlay off, then the memory.
CloseData(d) ==
  /\ dev[d].state \in {"ready", "failed"}
  /\ \A t \in Threads[d] : thr[d][t].at \in {"idle", "holds"}
  /\ LET regs == resetOverlay(d, ctx.mode)
     IN ovadd' = [o \in Overlays |-> IF regs[o].dev = d THEN [regs[o] EXCEPT !.dev = None] ELSE regs[o]]
  /\ \E b \in destroyOverlayBuffer(mem, IF dev[d].block THEN "held" ELSE "null", FALSE) :
     \E s \in DestroySlots(b.m, dev[d].slots) :
       mem' = s.m /\ down' = (Unmapped(d) \/ b.dead \/ s.dead)
  /\ dev' = [dev EXCEPT ![d] = Closed]
  /\ thr' = [thr EXCEPT ![d] = [t \in Threads[d] |-> Idle]]
  /\ UNCHANGED <<hal, pool, ctx, ctl, plug>>

ResetOverlay(d) ==
  /\ dev[d].state = "ready"
  /\ ovadd' = resetOverlay(d, ctx.mode) /\ down' = Unmapped(d)
  /\ UNCHANGED <<hal, pool, ctx, ctl, dev, thr, mem, plug>>

\* The notice of a hotplug; the call then returns an error all the same.
NotifyHdmi(d) ==
  /\ dev[d].state = "ready" /\ ~hal.changed /\ plug[2] > 0
  /\ hal' = [hal EXCEPT !.changed = TRUE]
  /\ UNCHANGED <<pool, ctx, ctl, dev, thr, mem, ovadd, plug, down>>

-----------------------------------------------------------------------------
(* A client's buffers and pictures.                                         *)

At(d, t, place) == [thr EXCEPT ![d][t].at = place]

\* A buffer is taken for thread t.
getBuffer(d, t) ==
  /\ thr' = [At(d, t, "holds") EXCEPT ![d][t].own = TRUE]
  /\ dev' = [dev EXCEPT ![d].count = @ - 1]

\* Slip: a thread waits for the last buffer to be free as well.
DequeueLast(d, t) ==
  /\ dev[d].state = "ready" /\ thr[d][t].at = "idle"
  /\ IF dev[d].count <= 1 THEN thr' = At(d, t, "asleep") /\ dev' = dev ELSE getBuffer(d, t)
  /\ UNCHANGED <<hal, pool, ctx, ctl, mem, ovadd, plug, down>>

\* dequeueBuffer, up to the wait when there is none.
Dequeue(d, t) ==
  /\ dev[d].state = "ready" /\ thr[d][t].at = "idle"
  /\ IF dev[d].count <= 0 THEN thr' = At(d, t, "asleep") /\ dev' = dev ELSE getBuffer(d, t)
  /\ UNCHANGED <<hal, pool, ctx, ctl, mem, ovadd, plug, down>>

\* The rest of it.  Whether there is a buffer now is not asked again.
Wake(d, t) ==
  /\ thr[d][t].at = "woken"
  /\ getBuffer(d, t)
  /\ UNCHANGED <<hal, pool, ctx, ctl, mem, ovadd, plug, down>>

\* The first half of drmModeChanged for thread t of d, which has a picture to
\* show, its own buffer or another's.
drmModeChanged(d, t, own) ==
  LET Shows == [thr EXCEPT ![d][t] = [at |-> "showing", old |-> "none", own |-> own]]
      Seen == hal' = [hal EXCEPT !.changed = FALSE]
  IN \/ /\ ~hal.changed \/ ~dev[d].block
        /\ Seen /\ thr' = Shows
        /\ UNCHANGED <<ctx, down>>
     \/ /\ hal.changed /\ dev[d].block /\ ~hal.ctx
        /\ down' = TRUE
        /\ UNCHANGED <<hal, thr, ctx>>
     \/ /\ hal.changed /\ dev[d].block /\ hal.ctx
        /\ \E c \in detectDrmModeInfo(hal, ctx) :
             /\ ctx' = c.ctx
             /\ IF c.ctx.mode = ctx.mode THEN Seen /\ thr' = Shows
                ELSE /\ thr' = [thr EXCEPT ![d][t] = [at |-> "switching", old |-> ctx.mode, own |-> own]]
                     /\ hal' = hal
        /\ UNCHANGED down

\* Slip: overlay A is turned off only when it leaves the panel.
DarkPanelOnly(old) ==
  Write((IF old = "hdmi" THEN {} ELSE {"A"}) \cup (IF old \in {"dual", "mipi1"} THEN {"C"} ELSE {}),
        [o \in Overlays |-> Off], ovadd)

\* The overlays that the old mode used are turned off.
Darken(old) ==
  Write({"A"} \cup (IF old \in {"dual", "mipi1"} THEN {"C"} ELSE {}), [o \in Overlays |-> Off], ovadd)

\* queueBuffer: post, as far as the mode is looked at again.
QueueBuffer(d, t) ==
  /\ thr[d][t].at = "holds"
  /\ drmModeChanged(d, t, TRUE)
  /\ UNCHANGED <<pool, ctl, dev, mem, ovadd, plug>>

\* What the video driver calls a buffer, if it knows it.
getBufferHandle == IF hal.video THEN {"refused", "known"} ELSE {"refused"}

\* A pool that is not there ends the process.
pvrWsbmWrapTTMBuffer == {"refused", IF pool = "live" THEN "wrapped" ELSE "dead"}

\* The reference that wrapping takes is dropped before the buffer is shown.
wrapExternalTTMBuffer ==
  IF "known" \in getBufferHandle THEN pvrWsbmWrapTTMBuffer ELSE {"refused"}

\* postExternal, the same far.
PostExternal(d, t) ==
  /\ dev[d].state = "ready" /\ \A u \in Threads[d] : thr[d][u].at = "idle"
  /\ \/ /\ "dead" \in wrapExternalTTMBuffer
        /\ down' = TRUE
        /\ UNCHANGED <<hal, ctx, thr>>
     \/ /\ "wrapped" \in wrapExternalTTMBuffer
        /\ drmModeChanged(d, t, FALSE)
  /\ UNCHANGED <<pool, ctl, dev, mem, ovadd, plug>>

\* The second half of drmModeChanged.
SwitchMode(d, t) ==
  /\ thr[d][t].at = "switching"
  /\ ovadd' = Darken(thr[d][t].old)
  /\ hal' = [hal EXCEPT !.changed = FALSE]
  /\ thr' = [thr EXCEPT ![d][t].at = "showing", ![d][t].old = "none"]
  /\ UNCHANGED <<pool, ctx, ctl, dev, mem, plug, down>>

\* putBuffer wakes one of the threads asleep.
putBuffer(d, t) ==
  LET asleep == {u \in Threads[d] : thr[d][u].at = "asleep"}
      back == [thr EXCEPT ![d][t] = Idle]
  IN IF asleep = {} THEN {back} ELSE {[back EXCEPT ![d][u].at = "woken"] : u \in asleep}

\* The rest of post: the control block is filled in for the picture and shown,
\* and a buffer of the device's own is put back.  The scale is divided by the
\* width of the window, which stays as it was without a context, and a device
\* may have no control block.
Show(d, t) ==
  LET own == thr[d][t].own
      dead == ~dev[d].block \/ (hal.ctx /\ getPosition(d).w = 0) \/ Unmapped(d)
  IN /\ thr[d][t].at = "showing"
     /\ IF dead THEN down' = TRUE /\ UNCHANGED <<dev, thr, ovadd>>
        ELSE /\ dev' = [dev EXCEPT ![d].own = own, ![d].count = @ + (IF own THEN 1 ELSE 0)]
             /\ thr' \in IF own THEN putBuffer(d, t) ELSE {[thr EXCEPT ![d][t] = Idle]}
             /\ ovadd' = updateOverlay(d, ctx.mode, TRUE) /\ UNCHANGED down
     /\ UNCHANGED <<hal, pool, ctx, ctl, mem, plug>>

\* The kernel's outputs: connected and lit, connected without a mode, gone.
Plug(o, state) ==
  /\ plug[2] < MaxPlugs /\ plug[1][o] # state
  /\ plug' = <<[plug[1] EXCEPT ![o] = state], plug[2] + 1>>
  /\ UNCHANGED <<hal, pool, ctx, ctl, dev, thr, mem, ovadd, down>>

Open == OpenControl \/ \E d \in Devs : OpenData(d)

\* Setting a pipe, a usage or a stride changes nothing that is modelled.
SetParameter(d) == ResetOverlay(d) \/ NotifyHdmi(d) \/ \E t \in Threads[d] : PostExternal(d, t)

Next ==
  /\ ~down
  /\ \/ Open \/ CloseControl \/ CreateOverlay
     \/ \E o \in Overlays :
          DestroyOverlay(o) \/ (\E span \in Spans : SetPosition(o, span)) \/ (\E d \in Devs : Initialize(d, o))
     \/ \E d \in Devs :
          \/ CloseData(d) \/ SetParameter(d)
          \/ \E t \in Threads[d] :
               Dequeue(d, t) \/ Wake(d, t) \/ QueueBuffer(d, t) \/ SwitchMode(d, t) \/ Show(d, t)
     \/ \E c \in Changes : Plug(c[1], c[2])

Spec == Init /\ [][Next]_vars

-----------------------------------------------------------------------------
(* Properties.                                                              *)

Ready == {d \in Devs : dev[d].state = "ready"}
Switching == \E d \in Devs : \E t \in Threads[d] : thr[d][t].at = "switching"

\* The process dies only of a control block that was refused, a buffer or a
\* pool that was not made, a context that is gone or was refused, or a picture
\* shown on no screen or in no size.
Nowhere(d) ==
  IF ctx.mode = "hdmi" THEN ctx.size["hdmi"] = 0
  ELSE LET p == ctx.pos[dev[d].index] IN p.w = 0 \/ p.x >= ctx.size["mipi0"] \/ ctx.size["mipi0"] = 0
DeathHasCause == down => mem.refused > 0 \/ \E d \in Ready : Nowhere(d)

\* What is allocated and what is in the GTT is what the open devices point at,
\* through every refused allocation and mapping, until giving back is refused
\* or the control device closes under a data device, or the process dies, which
\* it does for a cause.
AllocationsHeld ==
  \/ Excused({"torn"})
  \/ down /\ DeathHasCause
  \/ LET blocks == {d \in Devs : dev[d].block}
         bufs == {b \in Devs \X Slots : b[2] \in Held(b[1])}
     IN /\ ~down
        /\ mem.alloc = Cardinality(blocks) + 2 * Cardinality(bufs)
        /\ mem.mapped = Cardinality(blocks) + Cardinality(bufs)

\* An overlay that is on shows the control block of a device that is open,
\* whatever mode it was turned on and its device was closed in.
LitIsHeld ==
  Excused({"torn", "drift"}) \/ Switching
  \/ \A o \in Overlays : ovadd[o].on => ovadd[o].dev # None

\* An overlay is off when it is moved from a pipe to another.
PipeMovesDark ==
  [][\/ Excused({"torn", "drift"}) \/ Switching
     \/ \A o \in Overlays : ovadd[o].on /\ ovadd'[o].on => ovadd'[o].pipe = ovadd[o].pipe]_vars

\* A thread asleep is waiting for a thread that will wake it: one that has a
\* buffer, or one already woken, which will have one.
SleeperHasWaker ==
  \A d \in Ready : \A t \in Threads[d] :
    thr[d][t].at = "asleep" =>
      \E u \in Threads[d] : thr[d][u].at = "woken" \/ (thr[d][u].own /\ thr[d][u].at \in {"holds", "switching", "showing"})

\* Of a picture of shape s, what is fetched is what was copied, inside the
\* buffer, no line past its stride, and no scale goes past the end of a line.
FetchedAsWritten(s) ==
  LET at == bufferOffsetSetup(s, 0)
      c == coordinateSetup(s, at)
      Units(sw) == ((sw + 1) \div 2) * 64
  IN /\ at = Written(s)
     /\ Units(c.ySW) \in c.width..Strides(s).y
     /\ at.y + c.rows * Strides(s).y <= BufferSize(s)
     /\ at.v + c.uvRows * Strides(s).uv <= BufferSize(s)
     /\ \A w \in {1, 2, s.width, MaxDim} :
          (w - 1) * scalingSetup(s.width, s.height, w, 1).x <= (s.width - 1) * Page

LayoutsAgree ==
  \A s \in Shapes : (s.format = "NV12" => s.height % 64 = 0) => FetchedAsWritten(s)

\* A device's own picture is fetched from where it was copied to, whatever its
\* shape.  NV12 is laid out as the decoder does it, which agrees with the copy
\* only for heights that fill whole pages.
FetchedIsWritten == \A d \in Ready : dev[d].own => LayoutsAgree
=============================================================================
