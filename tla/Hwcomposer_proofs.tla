-------------------------- MODULE Hwcomposer_proofs --------------------------
(* Proofs about Hwcomposer, for every number of planes of each kind.        *)
EXTENDS Hwcomposer, TLAPS

USE DEF Devices, Primary, External, Kinds, Overlays, pool, devVars, hwcVars, plugVars

\* Planes are numbered from 0, and the first two primary planes exist.
LEMMA PlaneIndices ==
  /\ \A k \in Kinds : Indices(k) \subseteq Nat
  /\ Devices \subseteq Indices("primary")
  BY PlaneCountAssumption, PrimaryPlaneAssumption
     DEF PlaneCountAssumption, PrimaryPlaneAssumption, Indices

\* The initial state satisfies the inductive invariant.
LEMMA InitIInv == Init => IInv
<1> SUFFICES ASSUME Init PROVE IInv
  OBVIOUS
<1> USE DEF Init, Analysing
<1>1. TypeOK
  <2>1. PoolTypeOK
    <3>2. free \in [Kinds -> SUBSET Nat] /\ reclaimed \in [Kinds -> SUBSET Nat]
      BY PlaneIndices
    <3>3. \A k \in Kinds : free[k] \subseteq Indices(k)
      OBVIOUS
    <3> QED
      BY <3>2, <3>3 DEF PoolTypeOK
  <2>2. TypeOK \/ ~PoolTypeOK
    BY DEF TypeOK
  <2> QED
    BY <2>1, <2>2
<1>2. LockInv
  BY DEF LockInv
<1>3. ListInv
  BY DEF ListInv, DisconnectedHoldsNothing
<1>4. PendingInv /\ PipeInv
  BY DEF PendingInv, PipeInv
<1>5. OneOwner
  BY DEF OneOwner
<1>6. FlipInv
  BY DEF FlipInv, FlipsOnOwnPipe, FlippedPlanesKept
<1> QED
  BY <1>1, <1>2, <1>3, <1>4, <1>5, <1>6 DEF IInv

\* Every step keeps the variables in their types.
LEMMA TypeStep == TypeOK /\ [Next]_vars => TypeOK'
<1> SUFFICES ASSUME TypeOK, [Next]_vars PROVE TypeOK'
  OBVIOUS
<1> USE DEF TypeOK, PoolTypeOK
<1>1. CASE StartPrepare
  <2>1. PoolTypeOK'
    BY <1>1 DEF StartPrepare, DisableReclaimedPlanes
  <2>2. frame' \in [Devices -> {"null", "same", "changed"}] /\ fresh' \in [Devices -> BOOLEAN]
    BY <1>1 DEF StartPrepare
  <2> QED
    BY <1>1, <2>1, <2>2 DEF StartPrepare
<1>2. CASE PrePrepare
  <2>1. PoolTypeOK'
    <3>1. UNCHANGED reclaimed \/ DeleteList(dev)
      BY <1>2 DEF PrePrepare
    <3>2. ASSUME DeleteList(dev)
          PROVE  /\ reclaimed' \in [Kinds -> SUBSET Nat]
                 /\ \A k \in Kinds : reclaimed'[k] \subseteq Indices(k)
      BY <3>2, PlaneIndices DEF DeleteList
    <3> QED
      BY <1>2, <3>1, <3>2 DEF PrePrepare
  <2>2. held' \in [Devices -> SUBSET Overlays] /\ demoted' \in [Devices -> SUBSET Overlays]
        /\ prim' \subseteq Devices /\ lists' \subseteq Devices
    <3>1. CASE DeleteList(dev)
      BY <3>1 DEF DeleteList
    <3>2. CASE UNCHANGED <<reclaimed, lists, held, demoted, prim>>
      BY <3>2
    <3> QED
      BY <1>2, <3>1, <3>2 DEF PrePrepare
  <2>3. dev' \in Devices /\ pc' \in {pc, "prepare"}
    BY <1>2 DEF PrePrepare, NextDevice
  <2> QED
    BY <1>2, <2>1, <2>2, <2>3 DEF PrePrepare
<1>3. CASE SkipPrepare
  BY <1>3 DEF SkipPrepare, NextDevice
<1>4. CASE BeginPrepare
  <2>1. /\ held' \in [Devices -> SUBSET Overlays] /\ demoted' \in [Devices -> SUBSET Overlays]
        /\ lists' \subseteq Devices /\ prim' \subseteq Devices
    <3>1. CASE frame[dev] = "changed"
      <4>1. {} \in SUBSET Overlays
        OBVIOUS
      <4>2. held' \in [Devices -> SUBSET Overlays] /\ demoted' \in [Devices -> SUBSET Overlays]
        BY <1>4, <3>1, <4>1 DEF BeginPrepare
      <4> QED
        BY <1>4, <3>1, <4>2 DEF BeginPrepare
    <3>2. CASE frame[dev] # "changed"
      BY <1>4, <3>2 DEF BeginPrepare
    <3> QED
      BY <3>1, <3>2
  <2>2. avail' \in BOOLEAN /\ pc' \in {"analyze", "update"}
    BY <1>4 DEF BeginPrepare, HasFree
  <2>3. lock' \in [Devices -> {"none", "hwc", "hotplug"}]
    BY <1>4 DEF BeginPrepare
  <2> QED
    BY <1>4, <2>1, <2>2, <2>3 DEF BeginPrepare
<1>5. CASE AttachOverlay
  BY <1>5 DEF AttachOverlay, GetPlane, LowestBit
<1>6. CASE ReleaseOverlay
  BY <1>6 DEF ReleaseOverlay, PutFree, LowestBit
<1>7. CASE FinishAnalyze
  BY <1>7 DEF FinishAnalyze
<1>8. CASE Update
  BY <1>8 DEF Update
<1>9. CASE CheckCommit
  BY <1>9 DEF CheckCommit, NextDevice
<1>10. CASE Flip
  BY <1>10 DEF Flip
<1>11. CASE Post
  BY <1>11 DEF Post
<1>12. CASE Crashed
  BY <1>12 DEF Crashed, vars
<1>13. CASE HotplugEvent
  BY <1>13 DEF HotplugEvent
<1>14. CASE UpdateConnection
  BY <1>14 DEF UpdateConnection
<1>15. CASE BeginClean
  BY <1>15 DEF BeginClean
<1>16. CASE ReclaimOne
  <2>1. ASSUME reclaimed' = Reclaim("primary", {External})
        PROVE  PoolTypeOK'
    BY <1>16, <2>1, PlaneIndices DEF ReclaimOne, Reclaim
  <2>2. ASSUME NEW o \in held[External], reclaimed' = Reclaim("overlay", {o})
        PROVE  PoolTypeOK'
    <3>1. o \in Indices("overlay") /\ o \in Nat
      BY PlaneIndices
    <3> QED
      BY <1>16, <2>2, <3>1 DEF ReclaimOne, Reclaim
  <2>3. held' \in [Devices -> SUBSET Overlays] /\ prim' \subseteq Devices
    <3>1. CASE UNCHANGED held
      BY <1>16, <3>1 DEF ReclaimOne
    <3>2. ASSUME NEW o \in held[External], held' = [held EXCEPT ![External] = @ \ {o}]
          PROVE  held' \in [Devices -> SUBSET Overlays]
      <4>1. held[External] \ {o} \in SUBSET Overlays
        OBVIOUS
      <4> QED
        BY <3>2, <4>1
    <3>3. prim' \subseteq Devices
      BY <1>16 DEF ReclaimOne
    <3> QED
      BY <1>16, <3>1, <3>2, <3>3 DEF ReclaimOne
  <2> QED
    BY <1>16, <2>1, <2>2, <2>3 DEF ReclaimOne
<1>17. CASE EndClean
  BY <1>17 DEF EndClean
<1>18. CASE Notify
  BY <1>18 DEF Notify
<1>19. CASE UNCHANGED vars
  BY <1>19 DEF vars
<1> QED
  BY <1>1, <1>2, <1>3, <1>4, <1>5, <1>6, <1>7, <1>8, <1>9, <1>10, <1>11, <1>12,
     <1>13, <1>14, <1>15, <1>16, <1>17, <1>18, <1>19
     DEF Next, ComposerNext, HotplugNext

\* What one step of the list's destruction does to the planes: an overlay moves
\* from the external device's list to the reclaimed bitmap, or none does.
LEMMA ReclaimOneEffect ==
  ASSUME TypeOK, ReclaimOne
  PROVE  /\ held'[Primary] = held[Primary]
         /\ held'[External] \subseteq held[External]
         /\ reclaimed'["overlay"] = reclaimed["overlay"] \cup (held[External] \ held'[External])
<1> USE DEF TypeOK, PoolTypeOK
<1>1. CASE reclaimed' = Reclaim("primary", {External}) /\ UNCHANGED held
  BY <1>1 DEF Reclaim
<1>2. ASSUME NEW o \in held[External],
             reclaimed' = Reclaim("overlay", {o}),
             held' = [held EXCEPT ![External] = @ \ {o}]
      PROVE  /\ held'[Primary] = held[Primary]
             /\ held'[External] \subseteq held[External]
             /\ reclaimed'["overlay"] = reclaimed["overlay"] \cup (held[External] \ held'[External])
  <2>1. held'[Primary] = held[Primary] /\ held'[External] = held[External] \ {o}
    BY <1>2
  <2>2. reclaimed'["overlay"] = reclaimed["overlay"] \cup {o}
    BY <1>2 DEF Reclaim
  <2> QED
    BY <2>1, <2>2
<1> QED
  BY <1>1, <1>2 DEF ReclaimOne

\* The mutexes are held where the code holds them.
LEMMA LockStep == TypeOK /\ LockInv /\ [Next]_vars => LockInv'
<1> SUFFICES ASSUME TypeOK, LockInv, [Next]_vars PROVE LockInv'
  OBVIOUS
<1> USE DEF TypeOK, LockInv, Analysing
<1>1. CASE StartPrepare
  BY <1>1 DEF StartPrepare
<1>2. CASE PrePrepare
  BY <1>2 DEF PrePrepare, NextDevice
<1>3. CASE SkipPrepare
  BY <1>3 DEF SkipPrepare, NextDevice
<1>4. CASE BeginPrepare
  BY <1>4 DEF BeginPrepare
<1>5. CASE AttachOverlay
  BY <1>5 DEF AttachOverlay
<1>6. CASE ReleaseOverlay
  BY <1>6 DEF ReleaseOverlay
<1>7. CASE FinishAnalyze
  BY <1>7 DEF FinishAnalyze
<1>8. CASE Update
  BY <1>8 DEF Update
<1>9. CASE CheckCommit
  BY <1>9 DEF CheckCommit, NextDevice
<1>10. CASE Flip
  BY <1>10 DEF Flip
<1>11. CASE Post
  BY <1>11 DEF Post
<1>12. CASE Crashed
  BY <1>12 DEF Crashed, vars
<1>13. CASE HotplugEvent
  BY <1>13 DEF HotplugEvent
<1>14. CASE UpdateConnection
  BY <1>14 DEF UpdateConnection
<1>15. CASE BeginClean
  BY <1>15 DEF BeginClean
<1>16. CASE ReclaimOne
  BY <1>16 DEF ReclaimOne
<1>17. CASE EndClean
  BY <1>17 DEF EndClean
<1>18. CASE Notify
  BY <1>18 DEF Notify
<1>19. CASE UNCHANGED vars
  BY <1>19 DEF vars
<1> QED
  BY <1>1, <1>2, <1>3, <1>4, <1>5, <1>6, <1>7, <1>8, <1>9, <1>10,
     <1>11, <1>12, <1>13, <1>14, <1>15, <1>16, <1>17, <1>18, <1>19
     DEF Next, ComposerNext, HotplugNext

\* Lists and attached planes go with the connection.
LEMMA ListStep == TypeOK /\ LockInv /\ ListInv /\ [Next]_vars => ListInv'
<1> SUFFICES ASSUME TypeOK, LockInv, ListInv, [Next]_vars PROVE ListInv'
  OBVIOUS
<1> USE DEF TypeOK, LockInv, ListInv, DisconnectedHoldsNothing, Analysing
<1>1. CASE StartPrepare
  BY <1>1 DEF StartPrepare
<1>2. CASE PrePrepare
  BY <1>2 DEF PrePrepare, NextDevice, DeleteList
<1>3. CASE SkipPrepare
  BY <1>3 DEF SkipPrepare, NextDevice
<1>4. CASE BeginPrepare
  BY <1>4 DEF BeginPrepare
<1>5. CASE AttachOverlay
  BY <1>5 DEF AttachOverlay
<1>6. CASE ReleaseOverlay
  BY <1>6 DEF ReleaseOverlay
<1>7. CASE FinishAnalyze
  BY <1>7 DEF FinishAnalyze
<1>8. CASE Update
  BY <1>8 DEF Update
<1>9. CASE CheckCommit
  BY <1>9 DEF CheckCommit, NextDevice
<1>10. CASE Flip
  BY <1>10 DEF Flip
<1>11. CASE Post
  BY <1>11 DEF Post
<1>12. CASE Crashed
  BY <1>12 DEF Crashed, vars
<1>13. CASE HotplugEvent
  BY <1>13 DEF HotplugEvent
<1>14. CASE UpdateConnection
  BY <1>14 DEF UpdateConnection
<1>15. CASE BeginClean
  BY <1>15 DEF BeginClean
<1>16. CASE ReclaimOne
  BY <1>16 DEF ReclaimOne
<1>17. CASE EndClean
  BY <1>17 DEF EndClean
<1>18. CASE Notify
  BY <1>18 DEF Notify
<1>19. CASE UNCHANGED vars
  BY <1>19 DEF vars
<1> QED
  BY <1>1, <1>2, <1>3, <1>4, <1>5, <1>6, <1>7, <1>8, <1>9, <1>10,
     <1>11, <1>12, <1>13, <1>14, <1>15, <1>16, <1>17, <1>18, <1>19
     DEF Next, ComposerNext, HotplugNext

\* No list is overwritten.
LEMMA PendingStep == TypeOK /\ LockInv /\ ListInv /\ PendingInv /\ [Next]_vars => PendingInv'
<1> SUFFICES ASSUME TypeOK, LockInv, ListInv, PendingInv, [Next]_vars PROVE PendingInv'
  OBVIOUS
<1> USE DEF TypeOK, LockInv, ListInv, DisconnectedHoldsNothing, PendingInv, Pending, Analysing
<1>1. CASE StartPrepare
  BY <1>1 DEF StartPrepare
<1>2. CASE PrePrepare
  BY <1>2 DEF PrePrepare, NextDevice, DeleteList
<1>3. CASE SkipPrepare
  BY <1>3 DEF SkipPrepare, NextDevice
<1>4. CASE BeginPrepare
  BY <1>4 DEF BeginPrepare
<1>5. CASE AttachOverlay
  BY <1>5 DEF AttachOverlay
<1>6. CASE ReleaseOverlay
  BY <1>6 DEF ReleaseOverlay
<1>7. CASE FinishAnalyze
  BY <1>7 DEF FinishAnalyze
<1>8. CASE Update
  BY <1>8 DEF Update
<1>9. CASE CheckCommit
  BY <1>9 DEF CheckCommit, NextDevice
<1>10. CASE Flip
  BY <1>10 DEF Flip
<1>11. CASE Post
  BY <1>11 DEF Post
<1>12. CASE Crashed
  BY <1>12 DEF Crashed, vars
<1>13. CASE HotplugEvent
  BY <1>13 DEF HotplugEvent
<1>14. CASE UpdateConnection
  BY <1>14 DEF UpdateConnection
<1>15. CASE BeginClean
  BY <1>15 DEF BeginClean
<1>16. CASE ReclaimOne
  BY <1>16 DEF ReclaimOne
<1>17. CASE EndClean
  BY <1>17 DEF EndClean
<1>18. CASE Notify
  BY <1>18 DEF Notify
<1>19. CASE UNCHANGED vars
  BY <1>19 DEF vars
<1> QED
  BY <1>1, <1>2, <1>3, <1>4, <1>5, <1>6, <1>7, <1>8, <1>9, <1>10,
     <1>11, <1>12, <1>13, <1>14, <1>15, <1>16, <1>17, <1>18, <1>19
     DEF Next, ComposerNext, HotplugNext

\* No plane is lost or shared.
LEMMA OwnerStep == TypeOK /\ LockInv /\ ListInv /\ PendingInv /\ OneOwner /\ [Next]_vars => OneOwner'
<1> SUFFICES ASSUME TypeOK, LockInv, ListInv, PendingInv, OneOwner, [Next]_vars PROVE OneOwner'
  OBVIOUS
<1> USE DEF TypeOK, PoolTypeOK, LockInv, ListInv, PendingInv, Pending, OneOwner, Analysing
<1>1. CASE StartPrepare
  BY <1>1 DEF StartPrepare, DisableReclaimedPlanes
<1>2. CASE PrePrepare
  BY <1>2 DEF PrePrepare, NextDevice, DeleteList
<1>3. CASE SkipPrepare
  BY <1>3 DEF SkipPrepare, NextDevice
<1>4. CASE BeginPrepare
  BY <1>4 DEF BeginPrepare
<1>5. CASE AttachOverlay
  BY <1>5 DEF AttachOverlay, GetPlane, LowestBit
<1>6. CASE ReleaseOverlay
  BY <1>6 DEF ReleaseOverlay, PutFree, LowestBit
<1>7. CASE FinishAnalyze
  BY <1>7 DEF FinishAnalyze
<1>8. CASE Update
  BY <1>8 DEF Update
<1>9. CASE CheckCommit
  BY <1>9 DEF CheckCommit, NextDevice
<1>10. CASE Flip
  BY <1>10 DEF Flip
<1>11. CASE Post
  BY <1>11 DEF Post
<1>12. CASE Crashed
  BY <1>12 DEF Crashed, vars
<1>13. CASE HotplugEvent
  BY <1>13 DEF HotplugEvent
<1>14. CASE UpdateConnection
  BY <1>14 DEF UpdateConnection
<1>15. CASE BeginClean
  BY <1>15 DEF BeginClean
<1>16. CASE ReclaimOne
  BY <1>16 DEF ReclaimOne, Reclaim
<1>17. CASE EndClean
  BY <1>17 DEF EndClean
<1>18. CASE Notify
  BY <1>18 DEF Notify
<1>19. CASE UNCHANGED vars
  BY <1>19 DEF vars
<1> QED
  BY <1>1, <1>2, <1>3, <1>4, <1>5, <1>6, <1>7, <1>8, <1>9, <1>10,
     <1>11, <1>12, <1>13, <1>14, <1>15, <1>16, <1>17, <1>18, <1>19
     DEF Next, ComposerNext, HotplugNext

\* A list that has been updated has its overlays on its own pipe.
LEMMA PipeStep == TypeOK /\ LockInv /\ ListInv /\ OneOwner /\ PipeInv /\ [Next]_vars => PipeInv'
<1> SUFFICES ASSUME TypeOK, LockInv, ListInv, OneOwner, PipeInv, [Next]_vars PROVE PipeInv'
  OBVIOUS
<1> USE DEF TypeOK, LockInv, ListInv, PipeInv, Analysing
<1>1. CASE StartPrepare
  BY <1>1 DEF StartPrepare
<1>2. CASE PrePrepare
  BY <1>2 DEF PrePrepare, NextDevice, DeleteList
<1>3. CASE SkipPrepare
  BY <1>3 DEF SkipPrepare, NextDevice
<1>4. CASE BeginPrepare
  BY <1>4 DEF BeginPrepare
<1>5. CASE AttachOverlay
  BY <1>5 DEF AttachOverlay
<1>6. CASE ReleaseOverlay
  BY <1>6 DEF ReleaseOverlay
<1>7. CASE FinishAnalyze
  BY <1>7 DEF FinishAnalyze
<1>8. CASE Update
  <2>1. dev \in Devices /\ pc = "update" /\ held' = held
    BY <1>8 DEF Update
  <2>2. \A o \in held[dev] : pipe'[o] = dev
    BY <1>8 DEF Update
  <2>3. ASSUME NEW d \in Devices, d # dev, NEW o \in held[d] PROVE pipe'[o] = d
    BY <1>8, <2>3 DEF Update, OneOwner
  <2> QED
    BY <2>1, <2>2, <2>3
<1>9. CASE CheckCommit
  BY <1>9 DEF CheckCommit, NextDevice
<1>10. CASE Flip
  BY <1>10 DEF Flip
<1>11. CASE Post
  BY <1>11 DEF Post
<1>12. CASE Crashed
  BY <1>12 DEF Crashed, vars
<1>13. CASE HotplugEvent
  BY <1>13 DEF HotplugEvent
<1>14. CASE UpdateConnection
  BY <1>14 DEF UpdateConnection
<1>15. CASE BeginClean
  BY <1>15 DEF BeginClean
<1>16. CASE ReclaimOne
  <2>1. \A d \in Devices : held'[d] \subseteq held[d]
    BY <1>16, ReclaimOneEffect
  <2>2. UNCHANGED <<pipe, pc, dev, demoted>>
    BY <1>16 DEF ReclaimOne
  <2> QED
    BY <2>1, <2>2
<1>17. CASE EndClean
  BY <1>17 DEF EndClean
<1>18. CASE Notify
  BY <1>18 DEF Notify
<1>19. CASE UNCHANGED vars
  BY <1>19 DEF vars
<1> QED
  BY <1>1, <1>2, <1>3, <1>4, <1>5, <1>6, <1>7, <1>8, <1>9, <1>10,
     <1>11, <1>12, <1>13, <1>14, <1>15, <1>16, <1>17, <1>18, <1>19
     DEF Next, ComposerNext, HotplugNext

\* Flipped overlays stay with the flipping device, or are reclaimed from it.
LEMMA FlipStep == TypeOK /\ LockInv /\ ListInv /\ PipeInv /\ FlipInv /\ [Next]_vars => FlipInv'
<1> SUFFICES ASSUME TypeOK, LockInv, ListInv, PipeInv, FlipInv, [Next]_vars PROVE FlipInv'
  OBVIOUS
<1> USE DEF TypeOK, LockInv, ListInv, PipeInv, FlipInv, FlipsOnOwnPipe, FlippedPlanesKept, Analysing
<1>1. CASE StartPrepare
  BY <1>1 DEF StartPrepare, DisableReclaimedPlanes
<1>2. CASE PrePrepare
  BY <1>2 DEF PrePrepare, NextDevice, DeleteList
<1>3. CASE SkipPrepare
  BY <1>3 DEF SkipPrepare, NextDevice
<1>4. CASE BeginPrepare
  BY <1>4 DEF BeginPrepare
<1>5. CASE AttachOverlay
  BY <1>5 DEF AttachOverlay, GetPlane
<1>6. CASE ReleaseOverlay
  BY <1>6 DEF ReleaseOverlay
<1>7. CASE FinishAnalyze
  BY <1>7 DEF FinishAnalyze
<1>8. CASE Update
  BY <1>8 DEF Update
<1>9. CASE CheckCommit
  BY <1>9 DEF CheckCommit, NextDevice
<1>10. CASE Flip
  BY <1>10 DEF Flip
<1>11. CASE Post
  BY <1>11 DEF Post
<1>12. CASE Crashed
  BY <1>12 DEF Crashed, vars
<1>13. CASE HotplugEvent
  BY <1>13 DEF HotplugEvent
<1>14. CASE UpdateConnection
  BY <1>14 DEF UpdateConnection
<1>15. CASE BeginClean
  BY <1>15 DEF BeginClean
<1>16. CASE ReclaimOne
  <2>1. flips' = flips /\ pc' = pc
    BY <1>16 DEF ReclaimOne
  <2>2. held'[Primary] = held[Primary]
    BY <1>16, ReclaimOneEffect
  <2>3. \A o \in held[External] : o \in held'[External] \cup reclaimed'["overlay"]
    BY <1>16, ReclaimOneEffect
  <2>4. reclaimed["overlay"] \subseteq reclaimed'["overlay"]
    BY <1>16, ReclaimOneEffect
  <2>5. \A f \in flips : f[2] = Primary \/ f[2] = External
    OBVIOUS
  <2>6. pipe' = pipe
    BY <1>16 DEF ReclaimOne
  <2>7. FlippedPlanesKept'
    BY <2>1, <2>2, <2>3, <2>4, <2>5
  <2>8. FlipsOnOwnPipe' /\ (pc' \notin {"commit", "flip", "post", "crashed"} => flips' = {})
    BY <2>1, <2>6
  <2> QED
    BY <2>7, <2>8
<1>17. CASE EndClean
  BY <1>17 DEF EndClean
<1>18. CASE Notify
  BY <1>18 DEF Notify
<1>19. CASE UNCHANGED vars
  BY <1>19 DEF vars
<1> QED
  BY <1>1, <1>2, <1>3, <1>4, <1>5, <1>6, <1>7, <1>8, <1>9, <1>10,
     <1>11, <1>12, <1>13, <1>14, <1>15, <1>16, <1>17, <1>18, <1>19
     DEF Next, ComposerNext, HotplugNext

\* IInv is inductive.
LEMMA IInvStep == IInv /\ [Next]_vars => IInv'
BY TypeStep, LockStep, ListStep, PendingStep, OwnerStep, PipeStep, FlipStep DEF IInv

\* The inductive invariant holds in every reachable state.
THEOREM Invariance == Spec => []IInv
<1>1. Init => IInv
  BY InitIInv
<1>2. IInv /\ [Next]_vars => IInv'
  BY IInvStep
<1> QED
  BY <1>1, <1>2, PTL DEF Spec

\* The variables keep their types.
THEOREM TypeCorrect == Spec => []TypeOK
<1>1. IInv => TypeOK
  BY DEF IInv
<1> QED
  BY <1>1, Invariance, PTL

\* Whatever the number of overlays and however the threads interleave, each
\* overlay is free, reclaimed or attached in one list (reclaimPlane,
\* getOverlayPlane, putOverlayPlane, disableReclaimedPlanes).
THEOREM OneOwnerHolds == Spec => []OneOwner
<1>1. IInv => OneOwner
  BY DEF IInv
<1> QED
  BY <1>1, Invariance, PTL

\* The hotplug thread and prepare() agree on who cleans up: an unplugged
\* display that has been handled holds no plane (MrflHdmiDevice::onHotplug).
THEOREM DisconnectedHoldsNothingHolds == Spec => []DisconnectedHoldsNothing
<1>1. IInv => DisconnectedHoldsNothing
  BY DEF IInv, ListInv
<1> QED
  BY <1>1, Invariance, PTL

\* All planes are back before the panel's analysis asks for one
\* (Hwcomposer::prepare, the loop over prePrepare before that over prepare).
THEOREM ReclaimedBeforeAssignedHolds == Spec => []ReclaimedBeforeAssigned
<1>1. IInv => ReclaimedBeforeAssigned
  BY DEF IInv, ReclaimedBeforeAssigned, TypeOK, ListInv, PendingInv, Pending, Analysing
<1> QED
  BY <1>1, Invariance, PTL

\* Between the flip and Post2 nobody takes or disables a flipped overlay
\* (Mrfl{Mipi,Hdmi}Device::commit).
THEOREM FlippedPlanesKeptHolds == Spec => []FlippedPlanesKept
<1>1. IInv => FlippedPlanesKept
  BY DEF IInv, FlipInv
<1> QED
  BY <1>1, Invariance, PTL

\* A flipped overlay is on the pipe of its display, whichever display had it
\* before (OverlayPlane::assignToPipe).
THEOREM FlipsOnOwnPipeHolds == Spec => []FlipsOnOwnPipe
<1>1. IInv => FlipsOnOwnPipe
  BY DEF IInv, FlipInv
<1> QED
  BY <1>1, Invariance, PTL

\* Without extended video mode no plane goes back to the free bitmap lit.
LEMMA DarkStep ==
  ASSUME ~ExtendVideo, IInv, IInv', FreePlanesDark, [Next]_vars
  PROVE  FreePlanesDark'
<1> USE DEF IInv, TypeOK, PoolTypeOK, FreePlanesDark
<1>1. CASE StartPrepare
  BY <1>1 DEF StartPrepare, DisableReclaimedPlanes
<1>2. CASE AttachOverlay
  <2>1. free'["overlay"] \subseteq free["overlay"]
    BY <1>2 DEF AttachOverlay, GetPlane
  <2> QED
    BY <1>2, <2>1 DEF AttachOverlay
<1>3. CASE ReleaseOverlay
  BY <1>3 DEF ReleaseOverlay, VideoExtended
<1>4. CASE Update
  <2>1. PICK ok \in SUBSET held[dev] : lit' \subseteq lit \cup ok
    BY <1>4 DEF Update
  <2>2. UNCHANGED free
    BY <1>4 DEF Update
  <2> QED
    BY <2>1, <2>2 DEF OneOwner
<1>5. CASE UNCHANGED <<free, lit>>
  BY <1>5
<1> QED
  BY <1>1, <1>2, <1>3, <1>4, <1>5
     DEF Next, ComposerNext, HotplugNext, vars, PrePrepare, SkipPrepare, BeginPrepare,
         FinishAnalyze, CheckCommit, Flip, Post, Crashed, HotplugEvent,
         UpdateConnection, BeginClean, ReclaimOne, EndClean, Notify

\* Outside extended video mode a plane on the free bitmap shows nothing: it
\* was disabled by disableReclaimedPlanes() on its way there.
THEOREM FreePlanesDarkHolds ==
  ASSUME ~ExtendVideo
  PROVE  Spec => []FreePlanesDark
<1>1. Init => FreePlanesDark
  BY DEF Init, FreePlanesDark
<1>2. IInv /\ IInv' /\ FreePlanesDark /\ [Next]_vars => FreePlanesDark'
  BY DarkStep
<1> QED
  BY <1>1, <1>2, Invariance, PTL DEF Spec

\* The pool starts out as an empty ledger.
LEMMA LedgerInit == Init => Ledger!Init
  BY DEF Init, Ledger!Init

\* Each step of the two threads is a step of the ledger or leaves it alone.
LEMMA LedgerStep ==
  ASSUME IInv, [Next]_vars
  PROVE  [Ledger!Next]_(Ledger!vars)
<1> USE DEF IInv, TypeOK, PoolTypeOK
<1>1. CASE StartPrepare
  <2>1. Ledger!Retire
    BY <1>1 DEF StartPrepare, DisableReclaimedPlanes, Ledger!Retire
  <2> QED
    BY <2>1 DEF Ledger!Next
<1>2. CASE PrePrepare
  <2>1. CASE DeleteList(dev)
    <3>1. Ledger!GiveUp(dev, held[dev])
      BY <1>2, <2>1 DEF PrePrepare, DeleteList, Ledger!GiveUp
    <3> QED
      BY <3>1 DEF Ledger!Next
  <2>2. CASE UNCHANGED <<reclaimed, lists, held, demoted, prim>>
    BY <1>2, <2>2 DEF PrePrepare, Ledger!vars
  <2> QED
    BY <1>2, <2>1, <2>2 DEF PrePrepare
<1>3. CASE BeginPrepare
  <2>1. held' = held
    <3>1. CASE frame[dev] = "changed"
      <4>1. held[dev] = {}
        BY <1>3, <3>1 DEF BeginPrepare, PendingInv, Pending, ListInv
      <4>2. held' = [held EXCEPT ![dev] = {}]
        BY <1>3, <3>1 DEF BeginPrepare
      <4> QED
        BY <4>1, <4>2
    <3> QED
      BY <1>3, <3>1 DEF BeginPrepare
  <2> QED
    BY <1>3, <2>1 DEF BeginPrepare, Ledger!vars
<1>4. CASE AttachOverlay
  <2>1. PICK o \in Overlays : GetPlane("overlay", o) /\ held' = [held EXCEPT ![dev] = @ \cup {o}]
    BY <1>4 DEF AttachOverlay
  <2>2. lit' = lit
    BY <1>4 DEF AttachOverlay
  <2>3. /\ o \in reclaimed["overlay"] \/ (reclaimed["overlay"] = {} /\ o \in free["overlay"])
        /\ reclaimed'["overlay"] = reclaimed["overlay"] \ {o}
        /\ free'["overlay"] = free["overlay"] \ {o}
    <3>1. CASE LowestBit(o, reclaimed["overlay"])
      BY <2>1, <3>1 DEF GetPlane, LowestBit, OneOwner
    <3>2. CASE reclaimed["overlay"] = {}
      BY <2>1, <3>2 DEF GetPlane, LowestBit, OneOwner
    <3> QED
      BY <2>1, <3>1, <3>2 DEF GetPlane
  <2>4. Ledger!Take(o, dev)
    BY <2>1, <2>2, <2>3 DEF Ledger!Take
  <2> QED
    BY <2>4 DEF Ledger!Next
<1>5. CASE ReleaseOverlay
  <2>1. PICK o \in Overlays : Ledger!Release(o)
    BY <1>5 DEF ReleaseOverlay, LowestBit, PutFree, Ledger!Release
  <2> QED
    BY <2>1 DEF Ledger!Next
<1>6. CASE Update
  <2> DEFINE tried == held[dev] \ demoted[dev]
             switched == {o \in tried : pipe[o] # dev}
  <2>1. PICK ok \in SUBSET tried : lit' = (lit \ switched) \cup ok
    BY <1>6 DEF Update
  <2>2. switched \in SUBSET held[dev] /\ ok \in SUBSET held[dev]
    OBVIOUS
  <2>3. UNCHANGED <<free, reclaimed, held>>
    BY <1>6 DEF Update
  <2> HIDE DEF switched, tried
  <2>4. Ledger!Show(dev, switched, ok)
    BY <2>1, <2>2, <2>3 DEF Ledger!Show
  <2> QED
    BY <2>2, <2>4 DEF Ledger!Next
<1>7. CASE ReclaimOne
  <2> DEFINE given == held[External] \ held'[External]
  <2>1. /\ held'[Primary] = held[Primary]
        /\ held'[External] \subseteq held[External]
        /\ reclaimed'["overlay"] = reclaimed["overlay"] \cup given
    BY <1>7, ReclaimOneEffect
  <2>2. held' \in [Devices -> SUBSET Overlays]
    BY <1>7, TypeStep DEF Next, HotplugNext
  <2>3. held' = [held EXCEPT ![External] = @ \ given]
    BY <2>1, <2>2
  <2>4. given \in SUBSET held[External]
    OBVIOUS
  <2>5. UNCHANGED <<free, lit>>
    BY <1>7 DEF ReclaimOne
  <2> HIDE DEF given
  <2>6. Ledger!GiveUp(External, given)
    BY <2>1, <2>3, <2>4, <2>5 DEF Ledger!GiveUp
  <2> QED
    BY <2>4, <2>6 DEF Ledger!Next
<1>8. CASE UNCHANGED <<pool, held>>
  BY <1>8 DEF Ledger!vars
<1> QED
  BY <1>1, <1>2, <1>3, <1>4, <1>5, <1>6, <1>7, <1>8
     DEF Next, ComposerNext, HotplugNext, vars, SkipPrepare,
         FinishAnalyze, CheckCommit, Flip, Post, Crashed, HotplugEvent,
         UpdateConnection, BeginClean, EndClean, Notify

\* The pool, two unsynchronised threads included, keeps the ledger's promises:
\* an overlay is taken only when free or reclaimed, given up only by its
\* holder, lit only by its holder, freed only dark or by a Release.
THEOREM ImplementsLedgerHolds == Spec => ImplementsLedger
<1>1. Init => Ledger!Init
  BY LedgerInit
<1>2. IInv /\ [Next]_vars => [Ledger!Next]_(Ledger!vars)
  BY LedgerStep
<1> QED
  BY <1>1, <1>2, Invariance, PTL DEF Spec, ImplementsLedger, Ledger!Spec

=============================================================================
