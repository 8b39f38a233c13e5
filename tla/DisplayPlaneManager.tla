------------------------ MODULE DisplayPlaneManager ------------------------
(***************************************************************************)
(* The pool of display planes of hwc/merrifield (DisplayPlaneManager.cpp). *)
(* The six bitmaps mFree*Planes and mReclaimed*Planes are two functions    *)
(* from the kind of plane to the set of the bits that are set.  A plane    *)
(* that is in neither bitmap of its kind is in a client's hands.           *)
(*                                                                         *)
(* The module has no behaviour of its own: its operators are the methods   *)
(* of the manager, and the modules of its clients conjoin them with what   *)
(* the clients do.  Each operator is one indivisible step: the bitmaps     *)
(* have no lock, and torn updates of theirs are not modelled.              *)
(***************************************************************************)
EXTENDS Naturals

CONSTANT PlaneCount      \* m{Sprite,Primary,Overlay}PlaneCount, by kind

Kinds == {"sprite", "primary", "overlay"}

\* A bitmap is a uint32_t and getPlane(mask) looks at bits 0 to 31.
ASSUME PlaneCountAssumption == PlaneCount \in [Kinds -> 0 .. 32]

VARIABLES
  free,        \* m{Sprite,Primary,Overlay} free bitmaps
  reclaimed,   \* the reclaimed bitmaps
  lit          \* overlays whose OCMD enable bit (bit 0) is set

pool == <<free, reclaimed, lit>>

Indices(k) == 0 .. (PlaneCount[k] - 1)

PoolTypeOK ==
  /\ free \in [Kinds -> SUBSET Nat] /\ \A k \in Kinds : free[k] \subseteq Indices(k)
  /\ reclaimed \in [Kinds -> SUBSET Nat] /\ \A k \in Kinds : reclaimed[k] \subseteq Indices(k)
  /\ lit \subseteq Indices("overlay")

\* get{Sprite,Overlay}FreeCount() > 0
HasFree(k) == free[k] \cup reclaimed[k] # {}

\* getPlane(mask): the lowest bit that is set.
LowestBit(i, mask) == i \in mask /\ \A j \in mask : i <= j

\* get{Sprite,Overlay}Plane(): a reclaimed plane if there is one, else a free one.
GetPlane(k, i) ==
  \/ /\ LowestBit(i, reclaimed[k])
     /\ reclaimed' = [reclaimed EXCEPT ![k] = @ \ {i}]
     /\ UNCHANGED free
  \/ /\ reclaimed[k] = {}
     /\ LowestBit(i, free[k])
     /\ free' = [free EXCEPT ![k] = @ \ {i}]
     /\ UNCHANGED reclaimed

\* reclaimPlane(plane): put each given plane on the reclaimed bitmap of its
\* kind; a bit that was set stays set.
Reclaim(k, planes) == [reclaimed EXCEPT ![k] = @ \cup planes]

\* putOverlayPlane(plane): back to the free bitmap, lit or not.
PutFree(k, i) == [free EXCEPT ![k] = @ \cup {i}]

\* Slip: the bitmaps are merged but nothing is disabled.
MergeOnly ==
  /\ free' = [k \in Kinds |-> free[k] \cup reclaimed[k]]
  /\ reclaimed' = [k \in Kinds |-> {}]
  /\ UNCHANGED lit

\* disableReclaimedPlanes(): disable() each reclaimed plane, then merge the
\* bitmaps.  Only an overlay has anything to turn off: the disable() of a
\* primary plane does nothing.
DisableReclaimedPlanes ==
  /\ lit' = lit \ reclaimed["overlay"]
  /\ free' = [k \in Kinds |-> free[k] \cup reclaimed[k]]
  /\ reclaimed' = [k \in Kinds |-> {}]
=============================================================================
