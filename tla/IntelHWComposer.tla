-------------------------- MODULE IntelHWComposer --------------------------
(***************************************************************************)
(* HDMI hotplug and vsync sources of the Medfield composer (hwc/).  Three  *)
(* threads meet in IntelHWComposer:                                        *)
(*   - the listener thread, on which the multi-display service (MDS) calls *)
(*     IntelExternalDisplayMonitor::onMdsMessage, one message at a time;   *)
(*   - the composer thread, on which SurfaceFlinger calls prepare and      *)
(*     commit for every frame;                                             *)
(*   - SurfaceFlinger's event thread, which calls vsyncControl.            *)
(* mLock is held for a whole prepareDisplays, commitDisplays,              *)
(* handleDisplayModeChange or vsyncControl; the rest of the hotplug        *)
(* handling runs without it.                                               *)
(***************************************************************************)
EXTENDS Naturals, FiniteSets

CONSTANTS
  Timings,     \* HDMI timings, by resolution, refresh rate and flags
  Preferred,   \* the one getSelectMode takes when there is no better
  NoTiming,    \* the zeroed mode of a disconnected output
  MdsModes,    \* the values of MDS_MODE_CHANGE that the model uses
  MaxFaults,   \* bound on the failing VSYNC_SET ioctls
  MaxRefused   \* bound on the unplugs whose dealloc() fails

ASSUME TimingsAssumption == Preferred \in Timings /\ NoTiming \notin Timings
ASSUME ModesAssumption ==
  /\ {"none", "hdmi"} \subseteq MdsModes
  /\ MdsModes \subseteq {"none", "video", "hdmi", "extend"}
ASSUME FaultsAssumption == MaxFaults \in Nat /\ MaxRefused \in Nat

Hdmi(m) == m \in {"hdmi", "extend"}       \* checkMode(m, MDS_HDMI_CONNECTED)
Playing(m) == m \in {"video", "extend"}   \* checkMode(m, MDS_VIDEO_PLAYING)

Sources == {"MIPI", "HDMI", "FAKE"}       \* VSYNC_SRC_*

VARIABLES
  \* IntelExternalDisplayMonitor
  lastMsg,    \* mLastMsg
  mdsMode,    \* mActiveDisplayMode
  ht,         \* where the listener thread is
  job, arg,   \* the message it handles: its kind, and its mode or timing
  \* IntelHWComposerDrm
  connected,  \* the connection of OUTPUT_HDMI
  timing,     \* its mode
  extend,     \* display_mode = OVERLAY_EXTEND
  \* IntelHWComposer
  handle,     \* mHDMIFBHandle.umhandle is set
  buffers,    \* the HDMI framebuffers allocated and not freed
  refused,    \* how often dealloc() failed at an unplug
  hpdDone,    \* mHpdCompletion
  hotplugged, \* mHotplugEvent of the HDMI device
  active,     \* mActiveVsyncs
  on,         \* the sources that run: the kernel's, and mFakeVsync's mEnabled
  toWidi,     \* mExtendedModeInfo.videoSentToWidi
  faults,     \* ioctls that failed so far
  pc,         \* where the composer thread is; off mLock when it is "idle"
  \* SurfaceFlinger
  procs,      \* it has registered its callbacks
  want,       \* its state has an external display
  view,       \* the frame under way composes for one
  dirty,      \* it has a reason to compose
  shown       \* the last commit flipped the HDMI plane

drmVars   == <<connected, timing>>
fbVars    == <<handle, buffers, refused>>
vsyncVars == <<active, on, toWidi, faults>>
frameVars == <<pc, view, shown>>
sfVars    == <<procs, want, dirty>>
vars == <<lastMsg, mdsMode, ht, job, arg, drmVars, extend, fbVars,
          hpdDone, hotplugged, vsyncVars, frameVars, sfVars>>

TypeOK ==
  /\ lastMsg \in {"IN", "OUT", "DYNAMIC"} /\ mdsMode \in MdsModes
  /\ ht \in {"idle", "alloc", "setMode", "inChange", "inCall", "disconnect",
             "outChange", "outCall", "startWait", "wait", "free", "mdsChange"}
  /\ job \in {"mode", "timing", "dynamic"}
  /\ arg \in MdsModes \cup Timings
  /\ connected \in BOOLEAN /\ extend \in BOOLEAN
  /\ timing \in Timings \cup {NoTiming}
  /\ handle \in BOOLEAN /\ buffers \in Nat /\ refused \in 0..MaxRefused
  /\ hpdDone \in BOOLEAN /\ hotplugged \in BOOLEAN
  /\ active \subseteq Sources /\ on \subseteq Sources
  /\ toWidi \in BOOLEAN /\ faults \in 0..MaxFaults
  /\ pc \in {"idle", "prepare", "commit"}
  /\ procs \in BOOLEAN /\ want \in BOOLEAN /\ view \in BOOLEAN
  /\ dirty \in BOOLEAN /\ shown \in BOOLEAN

\* After initialize() and readyToRun().  An HDMI connected at boot has been
\* plugged in by initialize(), perhaps without success; MDS and DRM agree
\* about the cable.
Init ==
  /\ \E plugged \in BOOLEAN :
       /\ mdsMode = IF plugged THEN "hdmi" ELSE "none"
       /\ lastMsg = IF plugged THEN "IN" ELSE "OUT"
       /\ timing = IF plugged THEN Preferred ELSE NoTiming
       /\ connected \in BOOLEAN /\ handle \in BOOLEAN
       /\ IF plugged THEN handle \/ connected ELSE ~handle /\ ~connected
  /\ ht = "idle" /\ job = "mode" /\ arg = mdsMode
  /\ extend = FALSE
  /\ buffers = (IF handle THEN 1 ELSE 0) /\ refused = 0
  /\ hpdDone = TRUE /\ hotplugged \in BOOLEAN
  /\ active = {} /\ on = {} /\ toWidi = FALSE /\ faults = 0
  /\ pc = "idle"
  /\ procs = FALSE /\ want = FALSE /\ view = FALSE
  /\ dirty = TRUE /\ shown = FALSE

Unlocked == pc = "idle"   \* the composer thread is not inside mLock

-----------------------------------------------------------------------------
(* Vsync sources.                                                           *)

\* getTargetVsync(): the one source wanted.
Target(ext, mode) ==
  IF ext THEN "HDMI" ELSE IF toWidi /\ Playing(mode) THEN "FAKE" ELSE "MIPI"

\* Slip: a source leaves mActiveVsyncs although the ioctl failed.
SwitchVsyncsForgetting(target) ==
  LET new == target \ active
      unused == active \ target IN
  \E bad \in SUBSET ((new \cup unused) \ {"FAKE"}) :
    /\ faults + Cardinality(bad) <= MaxFaults
    /\ faults' = faults + Cardinality(bad)
    /\ on' = (on \cup (new \ bad)) \ (unused \ bad)
    /\ active' = IF new = {} THEN active \cap target ELSE new \ bad

\* vsyncControl_l(): enableVsyncs(target), then disableUnusedVsyncs(target).
\* bad are the sources whose ioctl fails; the fake source has none.  When
\* the target runs already enableVsyncs returns all of mActiveVsyncs.
SwitchVsyncs(target) ==
  LET new == target \ active
      unused == active \ target
      enabled(bad) == IF target # {} /\ new = {} THEN active ELSE new \ bad IN
  \E bad \in SUBSET ((new \cup unused) \ {"FAKE"}) :
    /\ faults + Cardinality(bad) <= MaxFaults
    /\ faults' = faults + Cardinality(bad)
    /\ on' = (on \cup (new \ bad)) \ (unused \ bad)
    /\ active' = enabled(bad) \cup (unused \cap bad)

\* vsyncControl(): SurfaceFlinger turns vsync events on or off.
VsyncControl ==
  /\ Unlocked /\ procs
  /\ \E enable \in BOOLEAN :
       SwitchVsyncs(IF enable THEN {Target(extend, mdsMode)} ELSE {})
  /\ UNCHANGED <<lastMsg, mdsMode, ht, job, arg, drmVars, extend, fbVars,
                 hpdDone, hotplugged, toWidi, frameVars, sfVars>>

\* needSwitchVsyncSrc()
NeedSwitch(target) == active # {} /\ active # {target}

\* Slip: the source is chosen before the new display mode is known.
ChangeDisplayModeLate(mode) ==
  /\ Unlocked
  /\ extend' = (mode = "extend" /\ connected)
  /\ LET target == Target(extend, mode) IN
       IF NeedSwitch(target) THEN SwitchVsyncs({target})
                             ELSE UNCHANGED <<active, on, faults>>
  /\ hotplugged' = TRUE
  /\ UNCHANGED toWidi

\* handleDisplayModeChange(): detectMDSModeChange() sets the display mode,
\* the vsync source follows it and the displays hear of the hotplug.
ChangeDisplayMode(mode) ==
  /\ Unlocked
  /\ extend' = (mode = "extend" /\ connected)
  /\ LET target == Target(extend', mode) IN
       IF NeedSwitch(target) THEN SwitchVsyncs({target})
                             ELSE UNCHANGED <<active, on, faults>>
  /\ hotplugged' = TRUE
  /\ UNCHANGED toWidi

-----------------------------------------------------------------------------
(* The composer thread.                                                     *)

\* Slip: the wait for the plug-out holds mLock, so no frame can end it.
StartFrameLockedOut ==
  /\ pc = "idle" /\ procs /\ ht # "wait"
  /\ pc' = "prepare"
  /\ view' = want /\ dirty' = FALSE
  /\ UNCHANGED <<lastMsg, mdsMode, ht, job, arg, drmVars, extend, fbVars,
                 hpdDone, hotplugged, vsyncVars, procs, want, shown>>

\* SurfaceFlinger applies the changes of its displays, then composes.
StartFrame ==
  /\ pc = "idle" /\ procs
  /\ pc' = "prepare"
  /\ view' = want /\ dirty' = FALSE
  /\ UNCHANGED <<lastMsg, mdsMode, ht, job, arg, drmVars, extend, fbVars,
                 hpdDone, hotplugged, vsyncVars, procs, want, shown>>

\* Slip: the flag of the HDMI device is left set.
PrepareKeepingFlag ==
  /\ pc = "prepare"
  /\ pc' = "commit"
  /\ toWidi' \in BOOLEAN
  /\ hpdDone' = (hpdDone \/ ~view)
  /\ UNCHANGED <<lastMsg, mdsMode, ht, job, arg, drmVars, extend, fbVars,
                 hotplugged, active, on, faults, view, shown, sfVars>>

\* prepareDisplays(): an external list is prepared, which consumes the
\* hotplug flag; a null one signals that the plug-out took effect.  The panel
\* may find that its video goes to Widi, or no longer.
Prepare ==
  /\ pc = "prepare"
  /\ pc' = "commit"
  /\ toWidi' \in BOOLEAN
  /\ hotplugged' = (hotplugged /\ ~view)
  /\ hpdDone' = (hpdDone \/ ~view)
  /\ UNCHANGED <<lastMsg, mdsMode, ht, job, arg, drmVars, extend, fbVars,
                 active, on, faults, view, shown, sfVars>>

\* commitDisplays(): HDMI is flipped when it is connected and the last
\* hotplug has been prepared for.
Commit ==
  /\ pc = "commit"
  /\ pc' = "idle"
  /\ shown' = (view /\ ~hotplugged /\ connected)
  /\ UNCHANGED <<lastMsg, mdsMode, ht, job, arg, drmVars, extend, fbVars,
                 hpdDone, hotplugged, vsyncVars, view, sfVars>>

\* SurfaceFlinger starts: it registers its callbacks and asks for the
\* configuration of the external display, which exists when connected.
RegisterProcs ==
  /\ ~procs
  /\ procs' = TRUE /\ want' = connected /\ dirty' = TRUE
  /\ UNCHANGED <<lastMsg, mdsMode, ht, job, arg, drmVars, extend, fbVars,
                 hpdDone, hotplugged, vsyncVars, frameVars>>

-----------------------------------------------------------------------------
(* The listener thread.                                                     *)

Listener(from, to) == ht = from /\ ht' = to

composerVars == <<extend, hotplugged, vsyncVars, frameVars>>

\* onMdsMessage(MDS_MODE_CHANGE)
MdsModeChange ==
  /\ ht = "idle"
  /\ \E m \in MdsModes :
       /\ job' = "mode" /\ arg' = m
       /\ IF Hdmi(mdsMode) /\ ~Hdmi(m)
            THEN ht' = "disconnect" /\ lastMsg' = "OUT"
            ELSE ht' = "mdsChange" /\ UNCHANGED lastMsg
  /\ UNCHANGED <<mdsMode, drmVars, fbVars, hpdDone, composerVars, sfVars>>

\* The tail of it: the mode is kept and the displays change to it.
MdsChange ==
  /\ Listener("mdsChange", "idle")
  /\ mdsMode' = arg
  /\ ChangeDisplayMode(arg)
  /\ UNCHANGED <<lastMsg, job, arg, drmVars, fbVars, hpdDone, frameVars, sfVars>>

\* Slip: mLastMsg stays at the plug-out.
MdsSetTimingKeepingLast ==
  /\ ht = "idle"
  /\ \E t \in Timings :
       /\ arg' = t
       /\ IF lastMsg = "OUT"
            THEN UNCHANGED lastMsg /\ job' = "timing" /\ ht' = "alloc"
            ELSE lastMsg' = "DYNAMIC" /\ job' = "dynamic" /\ timing # t /\ ht' = "disconnect"
  /\ UNCHANGED <<mdsMode, drmVars, fbVars, hpdDone, composerVars, sfVars>>

\* onMdsMessage(MDS_SET_TIMING): the first one after a plug-out is the
\* plug-in, a later one a change of the timing, done as plug-out and plug-in
\* unless the timing is the same.
MdsSetTiming ==
  /\ ht = "idle"
  /\ \E t \in Timings :
       /\ arg' = t
       /\ IF lastMsg = "OUT"
            THEN lastMsg' = "IN" /\ job' = "timing" /\ ht' = "alloc"
            ELSE /\ lastMsg' = "DYNAMIC" /\ job' = "dynamic"
                 /\ ht' = IF timing = t THEN "idle" ELSE "disconnect"
  /\ UNCHANGED <<mdsMode, drmVars, fbVars, hpdDone, composerVars, sfVars>>

\* Plug-in: selectDisplayDrmMode() keeps the timing or takes the requested
\* or the preferred one of the connector; then the framebuffer is allocated.
\* Either may fail.
Alloc ==
  /\ ht = "alloc"
  /\ \/ ht' = "idle" /\ timing # arg /\ UNCHANGED <<timing, fbVars>>
     \/ /\ IF timing = arg THEN UNCHANGED timing ELSE timing' \in {arg, Preferred}
        /\ \/ ht' = "idle" /\ UNCHANGED fbVars
           \/ /\ ht' = "setMode" /\ handle' = TRUE /\ buffers' = buffers + 1
              /\ UNCHANGED refused
  /\ UNCHANGED <<lastMsg, mdsMode, job, arg, connected, hpdDone, composerVars, sfVars>>

\* setDisplayDrmMode(): no connector, a connector without a sink, an error
\* after that, or success.
SetMode ==
  /\ ht = "setMode"
  /\ \/ ht' = "idle" /\ UNCHANGED connected
     \/ ht' = "idle" /\ connected' \in BOOLEAN
     \/ ht' = "inChange" /\ connected' = TRUE
  /\ UNCHANGED <<lastMsg, mdsMode, job, arg, timing, fbVars, hpdDone,
                 composerVars, sfVars>>

PlugInChange ==
  /\ Listener("inChange", "inCall")
  /\ ChangeDisplayMode(mdsMode)
  /\ UNCHANGED <<lastMsg, mdsMode, job, arg, drmVars, fbVars, hpdDone,
                 frameVars, sfVars>>

\* mProcs->hotplug(): SurfaceFlinger changes its state and composes soon.
Callback(there) ==
  IF procs THEN want' = there /\ dirty' = TRUE ELSE UNCHANGED <<want, dirty>>

PlugInCall ==
  /\ Listener("inCall", "idle")
  /\ Callback(TRUE)
  /\ UNCHANGED <<lastMsg, mdsMode, job, arg, drmVars, fbVars, hpdDone,
                 composerVars, procs>>

\* Plug-out: handleDisplayDisConnection(), without mLock.
Disconnect ==
  /\ Listener("disconnect", "outChange")
  /\ connected' = FALSE /\ timing' = NoTiming
  /\ UNCHANGED <<lastMsg, mdsMode, job, arg, fbVars, hpdDone, composerVars, sfVars>>

PlugOutChange ==
  /\ Listener("outChange", "outCall")
  /\ ChangeDisplayMode(mdsMode)
  /\ UNCHANGED <<lastMsg, mdsMode, job, arg, drmVars, fbVars, hpdDone,
                 frameVars, sfVars>>

PlugOutCall ==
  /\ Listener("outCall", "startWait")
  /\ Callback(FALSE)
  /\ UNCHANGED <<lastMsg, mdsMode, job, arg, drmVars, fbVars, hpdDone,
                 composerVars, procs>>

\* Slip: the completion of an earlier plug-out is not reset.
StartWaitStale ==
  /\ Listener("startWait", "wait")
  /\ UNCHANGED <<lastMsg, mdsMode, job, arg, drmVars, fbVars, hpdDone,
                 composerVars, sfVars>>

\* waitForHpdCompletion() resets the completion after the callback ...
StartWait ==
  /\ Listener("startWait", "wait")
  /\ hpdDone' = FALSE
  /\ UNCHANGED <<lastMsg, mdsMode, job, arg, drmVars, fbVars, composerVars, sfVars>>

\* ... and waits for it.  When waitRelative times out the loop waits again,
\* so a time-out is no step.
Wait ==
  /\ Listener("wait", "free")
  /\ hpdDone
  /\ UNCHANGED <<lastMsg, mdsMode, job, arg, drmVars, fbVars, hpdDone,
                 composerVars, sfVars>>

\* deleteDrmFb() and dealloc(); then what the plug-out was a part of.  When
\* dealloc() fails the handle stays: a change of the timing ends there, the
\* mode change of an unplug goes on.
Free ==
  /\ ht = "free"
  /\ \/ /\ ht' = IF job = "dynamic" THEN "alloc" ELSE "mdsChange"
        /\ buffers' = IF handle THEN buffers - 1 ELSE buffers
        /\ handle' = FALSE /\ UNCHANGED refused
     \/ /\ handle /\ job = "dynamic" /\ ht' = "idle"
        /\ UNCHANGED fbVars
     \/ /\ handle /\ job # "dynamic" /\ ht' = "mdsChange"
        /\ refused < MaxRefused /\ refused' = refused + 1
        /\ UNCHANGED <<handle, buffers>>
  /\ UNCHANGED <<lastMsg, mdsMode, job, arg, drmVars, hpdDone, composerVars, sfVars>>

-----------------------------------------------------------------------------
HotplugNext ==
  \/ MdsChange \/ Alloc \/ SetMode \/ PlugInChange \/ PlugInCall \/ Disconnect
  \/ PlugOutChange \/ PlugOutCall \/ StartWait \/ Wait \/ Free

Next ==
  \/ VsyncControl \/ StartFrame \/ Prepare \/ Commit \/ RegisterProcs
  \/ MdsModeChange \/ MdsSetTiming \/ HotplugNext

Spec == Init /\ [][Next]_vars

\* The listener thread acquires an mLock that is free again and again, a
\* frame under way is finished and SurfaceFlinger starts up.
ThreadsRun ==
  /\ SF_vars(HotplugNext) /\ WF_vars(Prepare) /\ WF_vars(Commit) /\ WF_vars(RegisterProcs)

\* SurfaceFlinger composes when a callback or its clients make it to.
IdleScreenSpec == Spec /\ ThreadsRun /\ WF_vars(StartFrame /\ dirty)

\* Something on the screen always moves.
BusyScreenSpec == Spec /\ ThreadsRun /\ WF_vars(StartFrame)

-----------------------------------------------------------------------------
(* Properties.                                                              *)

\* "otherwise SF will bypass the plug-in message as there is no connection
\* change": when a change of the timing tells SurfaceFlinger of the plug-in,
\* it has composed without the display since the plug-out.
PlugInIsNews == ht = "inCall" /\ job = "dynamic" => ~view /\ ~want

\* However plug-ins fail and timings change, beside the HDMI framebuffer of
\* mHDMIFBHandle there are at most those that dealloc() refused to free at an
\* unplug; a refusal in a change of the timing loses none.
FramebuffersKept ==
  /\ buffers <= (IF handle THEN 1 ELSE 0) + refused
  /\ handle => buffers >= 1

\* A source that runs is in mActiveVsyncs, so that somebody will turn it off,
\* also after ioctls that failed.
RunningIsActive == on \subseteq active

\* As long as no ioctl fails, vsync events come from HDMI in extended mode
\* and only then, whoever changed the mode or asked for the events.
VsyncFollowsMode == faults = 0 /\ active # {} => ("HDMI" \in active <=> extend)

\* The inductive invariant behind these properties.

\* Nothing is composed before SurfaceFlinger has started.
StartInv == ~procs => pc = "idle" /\ ~want /\ ~view

PlugOut == {"outChange", "outCall", "startWait", "wait", "free"}
PlugIn  == {"alloc", "setMode", "inChange", "inCall"}

\* The fake plug-out of a change of the timing has taken effect.
TookEffect ==
  \/ ht = "wait" /\ hpdDone
  \/ ht = "free"
  \/ ht \in PlugIn /\ job = "dynamic"

\* From the plug-out on the output is disconnected, after the callback
\* SurfaceFlinger does not want it, and a frame without it ends the wait.
PlugOutInv ==
  /\ ht \in PlugOut => ~connected
  /\ ht \in {"startWait", "wait"} => ~want
  /\ TookEffect => procs /\ ~want /\ ~view

\* A plug-in finds no framebuffer of an earlier one, but for the refused.
BufferInv ==
  /\ FramebuffersKept
  /\ lastMsg = "OUT" /\ ht \in {"idle", "mdsChange"} => buffers <= refused
  /\ lastMsg = "OUT" => ht \notin PlugIn /\ job # "dynamic"
  /\ ht = "alloc" => buffers <= refused
  /\ ht = "mdsChange" => arg \in MdsModes
  /\ ht \in PlugIn => job # "mode" /\ arg \in Timings
  /\ ht \in PlugOut \cup {"disconnect"} => job # "timing"
  /\ ht \in PlugOut \cup {"disconnect"} /\ job = "dynamic" => arg \in Timings
  /\ ht \in PlugOut \cup {"disconnect"} /\ job = "mode" => arg \in MdsModes

\* Without failing ioctls one source at most is active.
VsyncInv ==
  /\ RunningIsActive
  /\ faults = 0 => \A s, t \in active : s = t
  /\ VsyncFollowsMode

IInv == TypeOK /\ StartInv /\ PlugOutInv /\ BufferInv /\ VsyncInv

\* A message of MDS is handled to the end.
MessageHandled == ht # "idle" ~> ht = "idle"

\* A connected display that SurfaceFlinger knows of is flipped, unless MDS
\* interferes.
ConnectedIsShown == (ht = "idle" /\ connected /\ want) ~> (shown \/ ht # "idle")

\* "time out for 300ms": the wait for the plug-out ends by itself.
WaitEnds == ht = "wait" ~> ht # "wait"
=============================================================================
