----------------------- MODULE IntelHWComposer_proofs ----------------------
(***************************************************************************)
(* Proofs about IntelHWComposer for any timings, any of the MDS modes and  *)
(* any number of failing ioctls and refused frees: IInv is inductive, so   *)
(* SurfaceFlinger notices every change of the timing, an HDMI framebuffer  *)
(* is lost only where an unplug could not free it, and mActiveVsyncs       *)
(* covers what runs and follows the display mode.                          *)
(***************************************************************************)
EXTENDS IntelHWComposer, FiniteSetTheorems, TLAPS

\* TypeOK in two parts, for a prover each.
BoolTypes ==
  /\ connected \in BOOLEAN /\ extend \in BOOLEAN /\ handle \in BOOLEAN
  /\ hpdDone \in BOOLEAN /\ hotplugged \in BOOLEAN /\ toWidi \in BOOLEAN
  /\ procs \in BOOLEAN /\ want \in BOOLEAN /\ view \in BOOLEAN
  /\ dirty \in BOOLEAN /\ shown \in BOOLEAN

DataTypes ==
  /\ lastMsg \in {"IN", "OUT", "DYNAMIC"} /\ mdsMode \in MdsModes
  /\ ht \in {"idle", "alloc", "setMode", "inChange", "inCall", "disconnect",
             "outChange", "outCall", "startWait", "wait", "free", "mdsChange"}
  /\ job \in {"mode", "timing", "dynamic"}
  /\ arg \in MdsModes \cup Timings
  /\ timing \in Timings \cup {NoTiming}
  /\ buffers \in Nat /\ refused \in 0..MaxRefused
  /\ active \subseteq Sources /\ on \subseteq Sources
  /\ faults \in 0..MaxFaults
  /\ pc \in {"idle", "prepare", "commit"}

LEMMA TypeParts == (TypeOK <=> BoolTypes /\ DataTypes) /\ (TypeOK <=> BoolTypes /\ DataTypes)'
BY Zenon DEF TypeOK, BoolTypes, DataTypes

LEMMA NoFault ==
  ASSUME NEW S \in SUBSET Sources
  PROVE  Cardinality(S) \in Nat /\ (Cardinality(S) = 0 => S = {})
<1>1. IsFiniteSet({"MIPI"} \cup {"HDMI"})
  BY FS_EmptySet, FS_AddElement, IsFiniteSet({} \cup {"MIPI"})
<1>2. IsFiniteSet(Sources)
  <2>1. IsFiniteSet(({"MIPI"} \cup {"HDMI"}) \cup {"FAKE"})
    BY <1>1, FS_AddElement
  <2>2. Sources = ({"MIPI"} \cup {"HDMI"}) \cup {"FAKE"}
    BY DEF Sources
  <2>. QED BY <2>1, <2>2
<1>3. IsFiniteSet(S)
  BY <1>2, FS_Subset
<1>. QED BY <1>3, FS_CardinalityType, FS_EmptySet

\* A switch to one source or to none keeps what runs in mActiveVsyncs, and
\* leaves nothing else active as long as no ioctl has failed.
LEMMA SwitchLemma ==
  ASSUME active \in SUBSET Sources, on \in SUBSET Sources, faults \in 0..MaxFaults,
         on \subseteq active, faults = 0 => \A s, t \in active : s = t,
         NEW T \in SUBSET Sources, \A s, t \in T : s = t,
         SwitchVsyncs(T)
  PROVE  /\ active' \subseteq Sources /\ on' \subseteq active' /\ faults' \in 0..MaxFaults
         /\ faults' = 0 => faults = 0 /\ active' \subseteq T
<1> DEFINE new == T \ active
           unused == active \ T
           enabled(bad) == IF T # {} /\ new = {} THEN active ELSE new \ bad
<1>1. PICK bad \in SUBSET ((new \cup unused) \ {"FAKE"}) :
        /\ faults + Cardinality(bad) <= MaxFaults
        /\ faults' = faults + Cardinality(bad)
        /\ on' = (on \cup (new \ bad)) \ (unused \ bad)
        /\ active' = enabled(bad) \cup (unused \cap bad)
  BY DEF SwitchVsyncs
<1>2. Cardinality(bad) \in Nat /\ (Cardinality(bad) = 0 => bad = {})
  <2>1. bad \in SUBSET Sources
    OBVIOUS
  <2>. QED BY <2>1, NoFault
<1>3. active' \subseteq Sources /\ on' \subseteq active'
  BY <1>1
<1>4. faults' \in 0..MaxFaults /\ (faults' = 0 => faults = 0 /\ bad = {})
  <2>. DEFINE c == Cardinality(bad)
  <2>1. c \in Nat /\ faults + c <= MaxFaults /\ faults' = faults + c /\ (c = 0 => bad = {})
    BY <1>1, <1>2
  <2>. HIDE DEF c
  <2>. QED BY <2>1, FaultsAssumption
<1>5. ASSUME faults = 0, bad = {} PROVE active' \subseteq T
  BY <1>1, <1>5
<1>. QED BY <1>3, <1>4, <1>5

LEMMA TargetIsSource == ASSUME NEW e, NEW m PROVE Target(e, m) \in Sources
BY DEF Target, Sources

\* The change of the display mode under mLock: the source follows the mode.
LEMMA ChangeLemma ==
  ASSUME TypeOK, VsyncInv, NEW mode \in MdsModes, ChangeDisplayMode(mode)
  PROVE  /\ VsyncInv'
         /\ active' \subseteq Sources /\ on' \subseteq Sources /\ faults' \in 0..MaxFaults
         /\ extend' \in BOOLEAN /\ hotplugged' \in BOOLEAN /\ toWidi' \in BOOLEAN
<1> DEFINE target == Target(extend', mode)
<1>1. /\ extend' \in BOOLEAN /\ hotplugged' \in BOOLEAN /\ toWidi' \in BOOLEAN
      /\ target \in Sources
      /\ target = "HDMI" <=> extend'
  BY DEF ChangeDisplayMode, TypeOK, Target, Sources
<1>2. CASE NeedSwitch(target)
  <2>1. SwitchVsyncs({target})
    BY <1>2 DEF ChangeDisplayMode
  <2>2. /\ active' \subseteq Sources /\ on' \subseteq active' /\ faults' \in 0..MaxFaults
        /\ faults' = 0 => active' \subseteq {target}
    <3>1. {target} \in SUBSET Sources /\ \A s, t \in {target} : s = t
      BY <1>1
    <3>. HIDE DEF target
    <3>. QED BY <2>1, <3>1, SwitchLemma DEF TypeOK, VsyncInv, RunningIsActive
  <2>. HIDE DEF target
  <2>. QED BY <1>1, <2>2 DEF VsyncInv, RunningIsActive, VsyncFollowsMode
<1>3. CASE ~NeedSwitch(target)
  <2>1. active' = active /\ on' = on /\ faults' = faults
    BY <1>3 DEF ChangeDisplayMode
  <2>2. active = {} \/ active = {target}
    BY <1>3 DEF NeedSwitch
  <2>. HIDE DEF target
  <2>. QED BY <1>1, <2>1, <2>2 DEF VsyncInv, RunningIsActive, VsyncFollowsMode, TypeOK
<1>. QED BY <1>2, <1>3

-----------------------------------------------------------------------------
LEMMA InitInv == Init => IInv
<1> SUFFICES ASSUME Init PROVE IInv
  OBVIOUS
<1>1. TypeOK
  <2>1. PICK plugged \in BOOLEAN :
          /\ mdsMode = IF plugged THEN "hdmi" ELSE "none"
          /\ lastMsg = IF plugged THEN "IN" ELSE "OUT"
          /\ timing = IF plugged THEN Preferred ELSE NoTiming
          /\ connected \in BOOLEAN /\ handle \in BOOLEAN
    BY DEF Init
  <2>2. BoolTypes
    BY <2>1 DEF Init, BoolTypes
  <2>3. mdsMode \in MdsModes /\ lastMsg \in {"IN", "OUT"} /\ timing \in Timings \cup {NoTiming}
    BY <2>1, TimingsAssumption, ModesAssumption
  <2>4. buffers \in Nat /\ refused \in 0..MaxRefused /\ faults \in 0..MaxFaults
    BY FaultsAssumption DEF Init
  <2>5. DataTypes
    BY <2>3, <2>4 DEF Init, DataTypes
  <2>. QED BY <2>2, <2>5, TypeParts
<1>2. StartInv /\ PlugOutInv /\ VsyncInv
  BY DEF Init, StartInv, PlugOutInv, PlugOut, PlugIn, TookEffect, VsyncInv,
         RunningIsActive, VsyncFollowsMode
<1>3. BufferInv
  BY ModesAssumption DEF Init, BufferInv, FramebuffersKept, PlugOut, PlugIn
<1>. QED BY <1>1, <1>2, <1>3 DEF IInv

\* The steps of the composer and event threads do not move the listener.
listenerVars == <<lastMsg, mdsMode, ht, job, arg, drmVars, fbVars>>

LEMMA BufferUnchanged == ASSUME BufferInv, UNCHANGED listenerVars PROVE BufferInv'
BY DEF BufferInv, FramebuffersKept, listenerVars, fbVars, PlugIn, PlugOut

LEMMA VsyncUnchanged ==
  ASSUME VsyncInv, UNCHANGED <<active, on, faults, extend>> PROVE VsyncInv'
BY DEF VsyncInv, RunningIsActive, VsyncFollowsMode

LEMMA VsyncControlStep == ASSUME IInv, VsyncControl PROVE IInv'
<1>1. PICK enable \in BOOLEAN :
        SwitchVsyncs(IF enable THEN {Target(extend, mdsMode)} ELSE {})
  BY DEF VsyncControl
<1> DEFINE T == IF enable THEN {Target(extend, mdsMode)} ELSE {}
<1>2. T \in SUBSET Sources /\ (\A s, t \in T : s = t) /\ ("HDMI" \in T => extend)
      /\ (T # {} /\ "HDMI" \notin T => ~extend)
  BY DEF Target, Sources
<1>3. SwitchVsyncs(T)
  BY <1>1
<1>4. /\ active' \subseteq Sources /\ on' \subseteq active' /\ faults' \in 0..MaxFaults
      /\ faults' = 0 => faults = 0 /\ active' \subseteq T
  <2>. HIDE DEF T
  <2>. QED BY <1>2, <1>3, SwitchLemma DEF IInv, TypeOK, VsyncInv, RunningIsActive
<1> HIDE DEF T
<1>5. VsyncInv'
  <2>1. extend' = extend
    BY DEF VsyncControl
  <2>. QED BY <1>2, <1>4, <2>1 DEF VsyncInv, RunningIsActive, VsyncFollowsMode
<1>6. TypeOK'
  BY <1>4 DEF IInv, TypeOK, VsyncControl, drmVars, fbVars, frameVars, sfVars
<1>7. StartInv' /\ PlugOutInv'
  BY DEF IInv, StartInv, PlugOutInv, PlugOut, PlugIn, TookEffect, VsyncControl, drmVars, fbVars,
         frameVars, sfVars
<1>8. BufferInv'
  BY BufferUnchanged DEF IInv, VsyncControl, listenerVars
<1>. QED BY <1>5, <1>6, <1>7, <1>8 DEF IInv

LEMMA FrameStep ==
  ASSUME IInv, StartFrame \/ Prepare \/ Commit \/ RegisterProcs PROVE IInv'
<1> USE DEF IInv, TypeOK, StartInv, PlugOutInv, TookEffect, drmVars, fbVars, vsyncVars,
            frameVars, sfVars
<1>1. CASE StartFrame
  <2>1. TypeOK'
    <3>1. BoolTypes'
      BY <1>1, TypeParts DEF StartFrame, BoolTypes
    <3>2. DataTypes'
      BY <1>1, TypeParts DEF StartFrame, DataTypes
    <3>. QED BY <3>1, <3>2, TypeParts
  <2>2. StartInv' /\ PlugOutInv'
    BY <1>1 DEF StartFrame, PlugOut, PlugIn
  <2>. QED BY <1>1, <2>1, <2>2, BufferUnchanged, VsyncUnchanged DEF StartFrame, listenerVars
<1>2. CASE Prepare
  <2>1. TypeOK'
    BY <1>2 DEF Prepare
  <2>2. StartInv' /\ PlugOutInv'
    BY <1>2 DEF Prepare, PlugOut, PlugIn
  <2>. QED BY <1>2, <2>1, <2>2, BufferUnchanged, VsyncUnchanged DEF Prepare, listenerVars
<1>3. CASE Commit
  <2>1. TypeOK'
    BY <1>3 DEF Commit
  <2>2. StartInv' /\ PlugOutInv'
    BY <1>3 DEF Commit, PlugOut, PlugIn
  <2>. QED BY <1>3, <2>1, <2>2, BufferUnchanged, VsyncUnchanged DEF Commit, listenerVars
<1>4. CASE RegisterProcs
  <2>1. TypeOK'
    BY <1>4 DEF RegisterProcs
  <2>2. StartInv' /\ PlugOutInv'
    BY <1>4 DEF RegisterProcs, PlugOut, PlugIn
  <2>. QED BY <1>4, <2>1, <2>2, BufferUnchanged, VsyncUnchanged DEF RegisterProcs, listenerVars
<1>. QED BY <1>1, <1>2, <1>3, <1>4

\* The listener's steps outside mLock leave the composer's state alone.
LEMMA MessageStep == ASSUME IInv, MdsModeChange \/ MdsSetTiming PROVE IInv'
<1> USE DEF IInv, TypeOK, drmVars, fbVars, vsyncVars, composerVars, frameVars, sfVars
<1>1. CASE MdsModeChange
  <2>1. TypeOK'
    BY <1>1 DEF MdsModeChange
  <2>2. StartInv' /\ PlugOutInv'
    BY <1>1 DEF MdsModeChange, StartInv, PlugOutInv, TookEffect, PlugOut, PlugIn
  <2>3. BufferInv'
    BY <1>1 DEF MdsModeChange, BufferInv, FramebuffersKept, PlugOut, PlugIn
  <2>. QED BY <1>1, <2>1, <2>2, <2>3, VsyncUnchanged DEF MdsModeChange
<1>2. CASE MdsSetTiming
  <2>1. TypeOK'
    BY <1>2 DEF MdsSetTiming
  <2>2. StartInv' /\ PlugOutInv'
    BY <1>2 DEF MdsSetTiming, StartInv, PlugOutInv, TookEffect, PlugOut, PlugIn
  <2>3. BufferInv'
    BY <1>2 DEF MdsSetTiming, BufferInv, FramebuffersKept, PlugOut, PlugIn
  <2>. QED BY <1>2, <2>1, <2>2, <2>3, VsyncUnchanged DEF MdsSetTiming
<1>. QED BY <1>1, <1>2

LEMMA UnlockedStep ==
  ASSUME IInv,
         Alloc \/ SetMode \/ PlugInCall \/ Disconnect \/ PlugOutCall \/ StartWait \/ Wait \/ Free
  PROVE  IInv'
<1> USE TimingsAssumption
<1> USE DEF IInv, drmVars, fbVars, vsyncVars, composerVars, frameVars, sfVars, Listener
<1>1. CASE Alloc
  <2>1. BoolTypes'
    BY <1>1, TypeParts DEF Alloc, BoolTypes
  <2>2. DataTypes'
    <3>2. buffers' \in Nat /\ refused' \in 0..MaxRefused
      BY <1>1 DEF Alloc, TypeOK
    <3>3. arg \in Timings
      BY <1>1 DEF Alloc, BufferInv, PlugIn
    <3>4. timing' \in Timings \cup {NoTiming}
      BY <1>1, <3>3, TypeParts DEF Alloc, DataTypes
    <3>5. ht' \in {"idle", "setMode"}
      BY <1>1 DEF Alloc
    <3>. QED BY <1>1, <3>2, <3>4, <3>5, TypeParts DEF Alloc, DataTypes
  <2>3. StartInv' /\ PlugOutInv'
    BY <1>1 DEF Alloc, StartInv, PlugOutInv, TookEffect, PlugOut, PlugIn, BufferInv, TypeOK
  <2>4. BufferInv'
    BY <1>1 DEF Alloc, BufferInv, FramebuffersKept, PlugOut, PlugIn, TypeOK
  <2>. QED BY <1>1, <2>1, <2>2, <2>3, <2>4, TypeParts, VsyncUnchanged DEF Alloc
<1>2. CASE SetMode
  <2>1. BoolTypes'
    BY <1>2, TypeParts DEF SetMode, BoolTypes
  <2>2. DataTypes'
    BY <1>2, TypeParts DEF SetMode, DataTypes
  <2>3. StartInv' /\ PlugOutInv'
    BY <1>2 DEF SetMode, StartInv, PlugOutInv, TookEffect, PlugOut, PlugIn, BufferInv, TypeOK
  <2>4. BufferInv'
    BY <1>2 DEF SetMode, BufferInv, FramebuffersKept, PlugOut, PlugIn, TypeOK
  <2>. QED BY <1>2, <2>1, <2>2, <2>3, <2>4, TypeParts, VsyncUnchanged DEF SetMode
<1>3. CASE PlugInCall
  <2>1. BoolTypes'
    BY <1>3, TypeParts DEF PlugInCall, Callback, BoolTypes
  <2>2. DataTypes'
    BY <1>3, TypeParts DEF PlugInCall, Callback, DataTypes
  <2>3. StartInv' /\ PlugOutInv'
    BY <1>3 DEF PlugInCall, Callback, StartInv, PlugOutInv, TookEffect, PlugOut, PlugIn, BufferInv, TypeOK
  <2>4. BufferInv'
    BY <1>3 DEF PlugInCall, Callback, BufferInv, FramebuffersKept, PlugOut, PlugIn, TypeOK
  <2>. QED BY <1>3, <2>1, <2>2, <2>3, <2>4, TypeParts, VsyncUnchanged DEF PlugInCall
<1>4. CASE Disconnect
  <2>1. BoolTypes'
    BY <1>4, TypeParts DEF Disconnect, BoolTypes
  <2>2. DataTypes'
    BY <1>4, TypeParts DEF Disconnect, DataTypes
  <2>3. StartInv' /\ PlugOutInv'
    BY <1>4 DEF Disconnect, StartInv, PlugOutInv, TookEffect, PlugOut, PlugIn, BufferInv, TypeOK
  <2>4. BufferInv'
    BY <1>4 DEF Disconnect, BufferInv, FramebuffersKept, PlugOut, PlugIn, TypeOK
  <2>. QED BY <1>4, <2>1, <2>2, <2>3, <2>4, TypeParts, VsyncUnchanged DEF Disconnect
<1>5. CASE PlugOutCall
  <2>1. BoolTypes'
    BY <1>5, TypeParts DEF PlugOutCall, Callback, BoolTypes
  <2>2. DataTypes'
    BY <1>5, TypeParts DEF PlugOutCall, Callback, DataTypes
  <2>3. StartInv' /\ PlugOutInv'
    BY <1>5 DEF PlugOutCall, Callback, StartInv, PlugOutInv, TookEffect, PlugOut, PlugIn, BufferInv, TypeOK
  <2>4. BufferInv'
    BY <1>5 DEF PlugOutCall, Callback, BufferInv, FramebuffersKept, PlugOut, PlugIn, TypeOK
  <2>. QED BY <1>5, <2>1, <2>2, <2>3, <2>4, TypeParts, VsyncUnchanged DEF PlugOutCall
<1>6. CASE StartWait
  <2>1. BoolTypes'
    BY <1>6, TypeParts DEF StartWait, BoolTypes
  <2>2. DataTypes'
    BY <1>6, TypeParts DEF StartWait, DataTypes
  <2>3. StartInv' /\ PlugOutInv'
    BY <1>6 DEF StartWait, StartInv, PlugOutInv, TookEffect, PlugOut, PlugIn, BufferInv, TypeOK
  <2>4. BufferInv'
    BY <1>6 DEF StartWait, BufferInv, FramebuffersKept, PlugOut, PlugIn, TypeOK
  <2>. QED BY <1>6, <2>1, <2>2, <2>3, <2>4, TypeParts, VsyncUnchanged DEF StartWait
<1>7. CASE Wait
  <2>1. BoolTypes'
    BY <1>7, TypeParts DEF Wait, BoolTypes
  <2>2. DataTypes'
    BY <1>7, TypeParts DEF Wait, DataTypes
  <2>3. StartInv' /\ PlugOutInv'
    BY <1>7 DEF Wait, StartInv, PlugOutInv, TookEffect, PlugOut, PlugIn, BufferInv, TypeOK
  <2>4. BufferInv'
    BY <1>7 DEF Wait, BufferInv, FramebuffersKept, PlugOut, PlugIn, TypeOK
  <2>. QED BY <1>7, <2>1, <2>2, <2>3, <2>4, TypeParts, VsyncUnchanged DEF Wait
<1>8. CASE Free
  <2>1. BoolTypes'
    BY <1>8, TypeParts DEF Free, BoolTypes
  <2>2. DataTypes'
    <3>1. buffers' \in Nat /\ refused' \in 0..MaxRefused
      BY <1>8, FaultsAssumption DEF Free, TypeOK, BufferInv, FramebuffersKept
    <3>2. ht' \in {"alloc", "mdsChange", "idle"}
      BY <1>8 DEF Free
    <3>. QED BY <1>8, <3>1, <3>2, TypeParts DEF Free, DataTypes
  <2>3. StartInv' /\ PlugOutInv'
    BY <1>8 DEF Free, StartInv, PlugOutInv, TookEffect, PlugOut, PlugIn, BufferInv, TypeOK
  <2>4. BufferInv'
    BY <1>8 DEF Free, BufferInv, FramebuffersKept, PlugOut, PlugIn, TypeOK
  <2>. QED BY <1>8, <2>1, <2>2, <2>3, <2>4, TypeParts, VsyncUnchanged DEF Free
<1>. QED BY <1>1, <1>2, <1>3, <1>4, <1>5, <1>6, <1>7, <1>8

\* The steps that change the display mode under mLock.
LEMMA ChangeStep == ASSUME IInv, MdsChange \/ PlugInChange \/ PlugOutChange PROVE IInv'
<1> USE DEF IInv, drmVars, fbVars, vsyncVars, frameVars, sfVars, Listener
<1>1. CASE MdsChange
  <2>1. /\ VsyncInv'
        /\ active' \subseteq Sources /\ on' \subseteq Sources /\ faults' \in 0..MaxFaults
        /\ extend' \in BOOLEAN /\ hotplugged' \in BOOLEAN /\ toWidi' \in BOOLEAN
    BY <1>1, ChangeLemma DEF MdsChange, BufferInv
  <2>2. TypeOK'
    BY <1>1, <2>1 DEF MdsChange, TypeOK, BufferInv
  <2>3. StartInv' /\ PlugOutInv' /\ BufferInv'
    BY <1>1 DEF MdsChange, StartInv, PlugOutInv, TookEffect, BufferInv, FramebuffersKept,
                PlugOut, PlugIn
  <2>. QED BY <2>1, <2>2, <2>3
<1>2. CASE PlugInChange
  <2>1. /\ VsyncInv'
        /\ active' \subseteq Sources /\ on' \subseteq Sources /\ faults' \in 0..MaxFaults
        /\ extend' \in BOOLEAN /\ hotplugged' \in BOOLEAN /\ toWidi' \in BOOLEAN
    BY <1>2, ChangeLemma DEF PlugInChange, TypeOK
  <2>2. TypeOK'
    BY <1>2, <2>1 DEF PlugInChange, TypeOK
  <2>3. StartInv' /\ PlugOutInv' /\ BufferInv'
    BY <1>2 DEF PlugInChange, StartInv, PlugOutInv, TookEffect, BufferInv, FramebuffersKept,
                PlugOut, PlugIn
  <2>. QED BY <2>1, <2>2, <2>3
<1>3. CASE PlugOutChange
  <2>1. /\ VsyncInv'
        /\ active' \subseteq Sources /\ on' \subseteq Sources /\ faults' \in 0..MaxFaults
        /\ extend' \in BOOLEAN /\ hotplugged' \in BOOLEAN /\ toWidi' \in BOOLEAN
    BY <1>3, ChangeLemma DEF PlugOutChange, TypeOK
  <2>2. TypeOK'
    BY <1>3, <2>1 DEF PlugOutChange, TypeOK
  <2>3. StartInv' /\ PlugOutInv' /\ BufferInv'
    BY <1>3 DEF PlugOutChange, StartInv, PlugOutInv, TookEffect, BufferInv, FramebuffersKept,
                PlugOut, PlugIn
  <2>. QED BY <2>1, <2>2, <2>3
<1>. QED BY <1>1, <1>2, <1>3

LEMMA Step == ASSUME IInv, [Next]_vars PROVE IInv'
<1>1. CASE UNCHANGED vars
  <2>1. TypeOK' /\ StartInv' /\ PlugOutInv'
    BY <1>1 DEF vars, drmVars, fbVars, vsyncVars, frameVars, sfVars, IInv, TypeOK, StartInv,
                PlugOutInv, TookEffect, PlugOut, PlugIn
  <2>. QED BY <1>1, <2>1, BufferUnchanged, VsyncUnchanged
         DEF vars, vsyncVars, listenerVars, IInv
<1>2. CASE Next
  BY <1>2, VsyncControlStep, FrameStep, MessageStep, UnlockedStep, ChangeStep
     DEF Next, HotplugNext
<1>. QED BY <1>1, <1>2

-----------------------------------------------------------------------------
\* The hotplug handling, the frames and the vsync sources keep IInv in every
\* interleaving of the three threads (IntelHWComposer).
THEOREM Invariance == Spec => []IInv
<1>1. Init => IInv
  BY InitInv
<1>2. IInv /\ [Next]_vars => IInv'
  BY Step
<1>. QED BY <1>1, <1>2, PTL DEF Spec

\* The variables keep their types.
THEOREM TypeCorrect == Spec => []TypeOK
BY Invariance, PTL DEF IInv

\* handleDynamicModeSetting(): SurfaceFlinger has composed without the
\* external display between the fake plug-out and the plug-in.
THEOREM PlugInIsNewsHolds == Spec => []PlugInIsNews
<1>1. IInv => PlugInIsNews
  BY DEF IInv, PlugOutInv, TookEffect, PlugIn, PlugInIsNews
<1>. QED BY <1>1, Invariance, PTL

\* handleHotplugEvent(): plug-ins that fail lose no framebuffer, and a
\* refused dealloc() loses one at an unplug at most.
THEOREM FramebuffersKeptHolds == Spec => []FramebuffersKept
<1>1. IInv => FramebuffersKept
  BY DEF IInv, BufferInv
<1>. QED BY <1>1, Invariance, PTL

\* vsyncControl_l(): what runs is in mActiveVsyncs, whatever ioctls fail.
THEOREM RunningIsActiveHolds == Spec => []RunningIsActive
<1>1. IInv => RunningIsActive
  BY DEF IInv, VsyncInv
<1>. QED BY <1>1, Invariance, PTL

\* handleDisplayModeChange(): the vsync source follows the display mode.
THEOREM VsyncFollowsModeHolds == Spec => []VsyncFollowsMode
<1>1. IInv => VsyncFollowsMode
  BY DEF IInv, VsyncInv
<1>. QED BY <1>1, Invariance, PTL
=============================================================================
