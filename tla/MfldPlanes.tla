----------------------------- MODULE MfldPlanes -----------------------------
(* The display planes of the Medfield composer and the manager that lends    *)
(* them out (src/hwc/IntelDisplayPlaneManager.cpp, IntelOverlayPlane.cpp).   *)
(* Three pools of planes; an overlay of the hardware has two planes, one for *)
(* video ("ov") and one that shows RGB layers converted to YUV ("rgb"), each *)
(* with a register block of its own, and the hardware shows the block that   *)
(* was flipped to last.  Operators work on a record s that holds:            *)
(*   free, recl    the two bitmaps of each pool                              *)
(*   lit           overlay planes whose register block has OVERLAY_ENABLE    *)
(*   mapped        overlay planes that hold mapped data buffers              *)
(*   pipe          the display a register block is programmed for            *)
(*   flip          per overlay, the flip posted to the GPU and not yet done  *)
(*   hw            per overlay, what the display controller scans out        *)
EXTENDS Integers, FiniteSetsExt

CONSTANTS Overlays, Sprites, Primaries   \* the indices of each pool

ASSUME PlaneIndices == \A I \in {Overlays, Sprites, Primaries} : I \subseteq 0..31

Pools == {"overlay", "sprite", "primary"}
Indices == [overlay |-> Overlays, sprite |-> Sprites, primary |-> Primaries]

OverlayPlanes == [type : {"ov", "rgb"}, i : Overlays]
Planes == OverlayPlanes \cup [type : {"sprite"}, i : Sprites]
                        \cup [type : {"primary"}, i : Primaries]
NoPlane == [type |-> "none", i |-> 0]

PoolOf(p) == IF p.type \in {"ov", "rgb"} THEN "overlay" ELSE p.type

\* A flip names the register block, the pipe it was sent to and the display
\* whose commit sent it.
Pipes == {"mipi", "hdmi"}
Dark == [plane |-> NoPlane, pipe |-> "mipi", by |-> "mipi"]
Flips == [plane : OverlayPlanes, pipe : Pipes, by : Pipes] \cup {Dark}

\* The constructor: every plane the driver reports is free and reset.
InitPlanes ==
  [free |-> Indices,
   recl |-> [k \in Pools |-> {}],
   lit |-> {},
   mapped |-> {},
   pipe |-> [p \in OverlayPlanes |-> "mipi"],
   flip |-> [i \in Overlays |-> Dark],
   hw |-> [i \in Overlays |-> Dark]]

-----------------------------------------------------------------------------
\* hasFreeSprites, hasFreeOverlays, primaryAvailable
HasFree(s, k) == s.free[k] \cup s.recl[k] # {}
Available(s, k, i) == i \in s.free[k] \cup s.recl[k]

\* getPlane(mask): the lowest reclaimed plane, else the lowest free one.
NextPlane(s, k) == IF s.recl[k] # {} THEN Min(s.recl[k]) ELSE Min(s.free[k])

\* getOverlayPlane, getRGBOverlayPlane, getSpritePlane, getPrimaryPlane: take
\* index i from the reclaimed planes, or if it is not there from the free ones.
Grab(s, k, i) ==
  IF i \in s.recl[k] THEN [s EXCEPT !.recl[k] = @ \ {i}]
                     ELSE [s EXCEPT !.free[k] = @ \ {i}]

Reclaim(s, p) == [s EXCEPT !.recl[PoolOf(p)] = @ \cup {p.i}]

\* IntelOverlayContext::disable: a block that is enabled is switched off and
\* written to the hardware at once, whichever block of the overlay it shows.
Disable(s, p) ==
  IF p \notin s.lit THEN s
  ELSE [s EXCEPT !.lit = @ \ {p}, !.hw[p.i] = Dark]

\* Slip: planes are disabled in memory and their buffers unmapped, but the
\* hardware is not written.
DarkenInMemory(s, P) == [s EXCEPT !.lit = @ \ P, !.mapped = @ \ P]

\* disable, waitForFlipCompletion and invalidateDataBuffer of the planes P: they
\* are switched off and every buffer of their rings is unmapped.
Darken(s, P) ==
  [s EXCEPT !.lit = @ \ P,
            !.mapped = @ \ P,
            !.hw = [i \in Overlays |-> IF \E p \in P \cap s.lit : p.i = i THEN Dark ELSE @[i]]]

\* Slip: only the planes of the video kind are switched off.
DisableReclaimedVideo(s) ==
  [Darken(s, [type : {"ov"}, i : s.recl["overlay"]])
     EXCEPT !.free["overlay"] = @ \cup s.recl["overlay"], !.recl["overlay"] = {}]

\* disableReclaimedPlanes for overlays: the video plane of every reclaimed
\* overlay, and the RGB plane of every overlay, reclaimed or not.
DisableReclaimedOverlays(s) ==
  IF s.recl["overlay"] = {} THEN s
  ELSE [Darken(s, [type : {"ov"}, i : s.recl["overlay"]] \cup [type : {"rgb"}, i : Overlays])
          EXCEPT !.free["overlay"] = @ \cup s.recl["overlay"], !.recl["overlay"] = {}]

\* disableReclaimedPlanes for sprite and primary planes: disable() does nothing
\* there, the planes are free again.
DisableReclaimed(s, k) ==
  [s EXCEPT !.free[k] = @ \cup s.recl[k], !.recl[k] = {}]

-----------------------------------------------------------------------------
\* setPipeByMode
PipeByMode(m) == IF m = "extend" THEN "hdmi" ELSE "mipi"

\* onDrmModeChange of a plane: unless the mode is the old one and overlays are
\* allowed, the overlay is disabled and its block programmed for the new mode.
OnDrmModeChange(s, p, old, new, off) ==
  IF p \notin OverlayPlanes \/ (old = new /\ ~off) THEN s
  ELSE [Disable(s, p) EXCEPT !.pipe[p] = PipeByMode(new)]

\* setDataBuffer of an overlay plane that succeeds: a buffer is mapped and the
\* block enabled, or disabled when overlays are off.
SetData(s, p, off) ==
  LET m == [s EXCEPT !.mapped = @ \cup {p}]
  IN IF off THEN Disable(m, p) ELSE [m EXCEPT !.lit = @ \cup {p}]

\* The GPU comes to the flip of overlay i: the controller reads the register
\* block it names, as it is by then.
Latch(s, i) ==
  [s EXCEPT !.hw[i] = IF s.flip[i].plane \in s.lit THEN s.flip[i] ELSE Dark,
            !.flip[i] = Dark]
=============================================================================
