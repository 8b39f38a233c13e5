------------------------ MODULE OverlayHal_proofs -------------------------
(***************************************************************************)
(* Proofs about the overlay HAL, for any data devices, threads, shapes,    *)
(* windows and outputs, and any number of buffers and refusals.            *)
(***************************************************************************)
EXTENDS OverlayHal, FiniteSetTheorems, WellFoundedInduction, TLAPS

-----------------------------------------------------------------------------
(* Recursion over 0..n, as the loops over the buffers of a device use it.   *)

\* A nonempty set of natural numbers has a least element.
LEMMA LeastNumber ==
  ASSUME NEW S \in SUBSET Nat, S # {}
  PROVE  \E x \in S : \A y \in S : x <= y
<1> DEFINE R == StrictSubsetOrdering(Nat)
           upto == {0..x : x \in S}
<1>1. \E x \in upto : \A y \in upto : ~ (<<y, x>> \in R)
  <2>1. IsWellFoundedOn(R, FiniteSubsetsOf(Nat))
    BY FS_StrictSubsetOrderingWellFounded
  <2>2. upto \subseteq FiniteSubsetsOf(Nat)
    <3> SUFFICES ASSUME NEW x \in S PROVE 0..x \in FiniteSubsetsOf(Nat)
      OBVIOUS
    <3>1. IsFiniteSet(0..x)
      BY FS_Interval
    <3> QED
      BY <3>1 DEF FiniteSubsetsOf
  <2>3. upto # {}
    OBVIOUS
  <2> HIDE DEF R, upto
  <2> QED
    BY <2>1, <2>2, <2>3, WFMin
<1>2. PICK x \in S : \A y \in S : ~ (<<0..y, 0..x>> \in R)
  BY <1>1
<1>3. ASSUME NEW y \in S, y < x PROVE FALSE
  <2>1. 0..y \subseteq 0..x /\ x \in 0..x /\ x \notin 0..y
    BY <1>3
  <2>2. 0..y # 0..x /\ 0..y \in SUBSET Nat /\ 0..x \in SUBSET Nat
    BY <2>1
  <2>3. <<0..y, 0..x>> \in R
    BY <2>1, <2>2 DEF StrictSubsetOrdering
  <2> QED
    BY <1>2, <2>3
<1> QED
  BY <1>2, <1>3

\* Counting up from 0 inside a set stays inside it.
LEMMA CountingUp ==
  ASSUME NEW n \in Nat, NEW S, 0 \in S, \A i \in 1..n : i - 1 \in S => i \in S
  PROVE  0..n \subseteq S
<1> DEFINE out == {x \in 0..n : x \notin S}
<1> SUFFICES ASSUME out # {} PROVE FALSE
  OBVIOUS
<1>1. out \in SUBSET Nat
  OBVIOUS
<1>2. PICK x \in out : \A y \in out : x <= y
  BY <1>1, LeastNumber
<1>3. x \in 1..n /\ x - 1 \in 0..n
  OBVIOUS
<1>4. x - 1 \in S
  BY <1>2, <1>3
<1> QED
  BY <1>3, <1>4

\* A recursive function over 0..n exists, whatever its step F.
Follows(f, b, F, k) == f[0] = b /\ \A i \in 1..k : f[i] = F[<<i, f[i - 1]>>]

LEMMA RecursionExists ==
  ASSUME NEW n \in Nat, NEW X, NEW b \in X, NEW F \in [(1..n) \X X -> X]
  PROVE  \E f \in [0..n -> X] : Follows(f, b, F, n)
<1> DEFINE done == {k \in 0..n : \E f \in [0..n -> X] : Follows(f, b, F, k)}
<1>1. 0 \in done
  <2> DEFINE g == [i \in 0..n |-> b]
  <2>1. g \in [0..n -> X] /\ g[0] = b /\ 1..0 = {}
    OBVIOUS
  <2> HIDE DEF g
  <2>2. Follows(g, b, F, 0)
    BY <2>1 DEF Follows
  <2> QED
    BY <2>1, <2>2
<1>2. ASSUME NEW k \in 1..n, k - 1 \in done PROVE k \in done
  <2>1. PICK f \in [0..n -> X] : Follows(f, b, F, k - 1)
    BY <1>2
  <2> DEFINE next == F[<<k, f[k - 1]>>]
             g == [i \in 0..n |-> IF i = k THEN next ELSE f[i]]
  <2>2. k - 1 \in 0..n /\ k \in 0..n
    OBVIOUS
  <2>3. <<k, f[k - 1]>> \in (1..n) \X X
    BY <2>2
  <2>4. next \in X
    BY <2>3
  <2>5. g \in [0..n -> X] /\ g[k] = next /\ \A i \in 0..n \ {k} : g[i] = f[i]
    BY <2>2, <2>4
  <2> HIDE DEF g
  <2>6. g[0] = b
    BY <2>1, <2>5 DEF Follows
  <2>7. ASSUME NEW i \in 1..k PROVE g[i] = F[<<i, g[i - 1]>>]
    <3>1. i - 1 \in 0..n \ {k}
      OBVIOUS
    <3>2. g[i - 1] = f[i - 1]
      BY <2>5, <3>1
    <3>3. CASE i = k
      BY <2>5, <3>2, <3>3
    <3>4. CASE i # k
      <4>1. i \in 1..(k - 1) /\ i \in 0..n \ {k}
        BY <3>4
      <4>2. f[i] = F[<<i, f[i - 1]>>]
        BY <2>1, <4>1 DEF Follows
      <4> QED
        BY <2>5, <3>2, <4>1, <4>2
    <3> QED
      BY <3>3, <3>4
  <2>8. Follows(g, b, F, k)
    BY <2>6, <2>7 DEF Follows
  <2> QED
    BY <2>2, <2>5, <2>8
<1> HIDE DEF done
<1>3. 0..n \subseteq done
  BY <1>1, <1>2, CountingUp
<1>4. n \in done
  BY <1>3
<1> QED
  BY <1>4 DEF done

-----------------------------------------------------------------------------
(* Memory: what the operators that allocate and map do to it.               *)

Memory == [alloc : Int, mapped : Int, refused : 0..MaxRefused, causes : SUBSET Causes]

\* From memory m to n: allocations and mappings grew by so much.
Moved(m, n, allocs, maps) ==
  /\ n \in Memory
  /\ n.alloc = m.alloc + allocs /\ n.mapped = m.mapped + maps
  /\ n.causes = m.causes /\ n.refused >= m.refused

\* Something was refused on the way.
Short(m, n, allocs, maps) == Moved(m, n, allocs, maps) /\ n.refused > 0

HalUp == hal.drm = TRUE /\ hal.pvr2d = TRUE
HalDown == hal.drm = FALSE /\ hal.pvr2d = FALSE

LEMMA MovedAgain ==
  ASSUME NEW m \in Memory, NEW n, NEW k, NEW a \in Int, NEW b \in Int, NEW c \in Int, NEW d \in Int,
         Moved(m, n, a, b), Moved(n, k, c, d)
  PROVE  Moved(m, k, a + c, b + d)
BY RefusedAssumption DEF Moved, Memory

LEMMA RefusedFacts ==
  ASSUME NEW m \in Memory, NEW r \in Refused(m)
  PROVE  Short(m, r, 0, 0)
BY RefusedAssumption DEF Short, Moved, Memory, Refused

LEMMA AllocateFacts ==
  ASSUME NEW m \in Memory, HalUp, NEW a \in allocatePVR2DBuffer(m)
  PROVE  /\ a.ok \in BOOLEAN
         /\ a.ok => Moved(m, a.m, 1, 0)
         /\ ~a.ok => Short(m, a.m, 0, 0)
<1>1. CASE a = [m |-> [m EXCEPT !.alloc = @ + 1], ok |-> TRUE]
  BY <1>1, RefusedAssumption DEF Moved, Memory
<1>2. ASSUME NEW r \in Refused(m), a = [m |-> r, ok |-> FALSE] PROVE Short(m, a.m, 0, 0) /\ a.ok = FALSE
  BY <1>2, RefusedFacts
<1> QED
  BY <1>1, <1>2 DEF allocatePVR2DBuffer, HalUp

LEMMA MapFacts ==
  ASSUME NEW m \in Memory, HalUp, NEW a \in gttMap(m)
  PROVE  /\ a.ok \in BOOLEAN
         /\ a.ok => Moved(m, a.m, 0, 1)
         /\ ~a.ok => Short(m, a.m, 0, 0)
<1>1. CASE a = [m |-> [m EXCEPT !.mapped = @ + 1], ok |-> TRUE]
  BY <1>1, RefusedAssumption DEF Moved, Memory
<1>2. ASSUME NEW r \in Refused(m), a = [m |-> r, ok |-> FALSE] PROVE Short(m, a.m, 0, 0) /\ a.ok = FALSE
  BY <1>2, RefusedFacts
<1> QED
  BY <1>1, <1>2 DEF gttMap, HalUp

LEMMA GiveBackFacts ==
  ASSUME NEW m \in Memory, HalUp
  PROVE  /\ destroyPVR2DBuffer(m).ok = TRUE /\ Moved(m, destroyPVR2DBuffer(m).m, -1, 0)
         /\ gttUnmap(m).ok = TRUE /\ Moved(m, gttUnmap(m).m, 0, -1)
BY RefusedAssumption DEF destroyPVR2DBuffer, gttUnmap, HalUp, Moved, Memory

\* How much a buffer is: its own memory, and for a data buffer the client's too.
Size(data) == IF data THEN 2 ELSE 1

LEMMA AllocateOverlayFacts ==
  ASSUME NEW m \in Memory, HalUp, NEW data \in BOOLEAN, NEW x \in allocateOverlayBuffer(m, data)
  PROVE  /\ x.slot \in {"held", "null", "freed"}
         /\ x.slot = "freed" => data
         /\ x.slot = "held" => Moved(m, x.m, Size(data), 1)
         /\ x.slot # "held" => Short(m, x.m, 0, 0)
<1> DEFINE Granted(n) == IF ~data THEN {[m |-> n, slot |-> "held"]}
                         ELSE {IF b.ok THEN [m |-> b.m, slot |-> "held"]
                               ELSE [m |-> destroyPVR2DBuffer(gttUnmap(b.m).m).m, slot |-> "freed"] :
                                 b \in allocatePVR2DBuffer(n)}
           Mapped(n) == UNION {IF ~g.ok THEN {[m |-> destroyPVR2DBuffer(g.m).m, slot |-> "null"]}
                               ELSE Granted(g.m) : g \in gttMap(n)}
<1>1. allocateOverlayBuffer(m, data) =
        UNION {IF ~a.ok THEN {[m |-> a.m, slot |-> "null"]} ELSE Mapped(a.m) : a \in allocatePVR2DBuffer(m)}
  BY Zenon DEF allocateOverlayBuffer
<1> HIDE DEF Mapped
<1>2. PICK a \in allocatePVR2DBuffer(m) : x \in IF ~a.ok THEN {[m |-> a.m, slot |-> "null"]} ELSE Mapped(a.m)
  BY <1>1
<1>3. CASE ~a.ok
  <2>1. x = [m |-> a.m, slot |-> "null"]
    BY <1>2, <1>3
  <2> QED
    BY <1>3, <2>1, AllocateFacts
<1>4. CASE a.ok
  <2>1. x \in Mapped(a.m)
    BY <1>2, <1>4
  <2>2. Moved(m, a.m, 1, 0) /\ a.m \in Memory
    BY <1>4, AllocateFacts DEF Moved
  <2>3. PICK g \in gttMap(a.m) :
          x \in IF ~g.ok THEN {[m |-> destroyPVR2DBuffer(g.m).m, slot |-> "null"]} ELSE Granted(g.m)
    BY <2>1 DEF Mapped
  <2> HIDE DEF Granted
  <2>4. CASE ~g.ok
    <3>1. x = [m |-> destroyPVR2DBuffer(g.m).m, slot |-> "null"]
      BY <2>3, <2>4
    <3>2. Short(a.m, g.m, 0, 0) /\ g.m \in Memory
      BY <2>2, <2>4, MapFacts DEF Short, Moved
    <3>3. Moved(g.m, x.m, -1, 0)
      BY <3>1, <3>2, GiveBackFacts
    <3> QED
      BY <2>2, <3>1, <3>2, <3>3, RefusedAssumption DEF Short, Moved, Memory
  <2>5. CASE g.ok
    <3>1. x \in Granted(g.m)
      BY <2>3, <2>5
    <3>2. Moved(a.m, g.m, 0, 1) /\ g.m \in Memory
      BY <2>2, <2>5, MapFacts DEF Moved
    <3>3. Moved(m, g.m, 1, 1)
      BY <2>2, <3>2, RefusedAssumption DEF Moved, Memory
    <3>4. CASE ~data
      <4>1. x = [m |-> g.m, slot |-> "held"]
        BY <3>1, <3>4 DEF Granted
      <4> QED
        BY <3>3, <3>4, <4>1 DEF Size
    <3>5. CASE data
      <4>1. PICK b \in allocatePVR2DBuffer(g.m) :
              x = IF b.ok THEN [m |-> b.m, slot |-> "held"]
                  ELSE [m |-> destroyPVR2DBuffer(gttUnmap(b.m).m).m, slot |-> "freed"]
        BY <3>1, <3>5 DEF Granted
      <4>2. CASE b.ok
        <5>1. x = [m |-> b.m, slot |-> "held"] /\ Moved(g.m, b.m, 1, 0)
          BY <3>2, <4>1, <4>2, AllocateFacts
        <5> QED
          BY <3>3, <3>5, <5>1, RefusedAssumption DEF Moved, Memory, Size
      <4>3. CASE ~b.ok
        <5>1. x = [m |-> destroyPVR2DBuffer(gttUnmap(b.m).m).m, slot |-> "freed"]
          BY <4>1, <4>3
        <5>2. Short(g.m, b.m, 0, 0) /\ b.m \in Memory
          BY <3>2, <4>3, AllocateFacts DEF Short, Moved
        <5>3. Moved(b.m, gttUnmap(b.m).m, 0, -1) /\ gttUnmap(b.m).m \in Memory
          BY <5>2, GiveBackFacts DEF Moved
        <5>4. Moved(gttUnmap(b.m).m, x.m, -1, 0)
          BY <5>1, <5>3, GiveBackFacts
        <5> QED
          BY <3>3, <3>5, <5>1, <5>2, <5>3, <5>4, RefusedAssumption DEF Short, Moved, Memory
      <4> QED
        BY <4>2, <4>3
    <3> QED
      BY <3>4, <3>5
  <2> QED
    BY <2>4, <2>5
<1> QED
  BY <1>3, <1>4

\* What is left after buffers were destroyed.
Remains == [m : Memory, dead : BOOLEAN]

LEMMA DestroyOverlayFacts ==
  ASSUME NEW m \in Memory, HalUp, NEW data \in BOOLEAN, NEW slot,
         NEW x \in destroyOverlayBuffer(m, slot, data)
  PROVE  /\ x \in Remains
         /\ slot = "held" => Moved(m, x.m, -Size(data), -1)
         /\ slot # "held" => x.m = m
         /\ slot \in {"held", "null"} => x.dead = FALSE
<1>1. CASE slot = "held"
  <2>1. x = [m |-> DestroyHeld(m, data), dead |-> FALSE]
    BY <1>1 DEF destroyOverlayBuffer
  <2> DEFINE u == gttUnmap(m).m
             f == destroyPVR2DBuffer(u).m
  <2>2. Moved(m, u, 0, -1) /\ u \in Memory
    BY GiveBackFacts DEF Moved
  <2>3. Moved(u, f, -1, 0) /\ f \in Memory
    BY <2>2, GiveBackFacts DEF Moved
  <2>4. Moved(f, destroyPVR2DBuffer(f).m, -1, 0)
    BY <2>3, GiveBackFacts
  <2>5. gttUnmap(m).ok = TRUE /\ destroyPVR2DBuffer(u).ok = TRUE
    BY <2>2, GiveBackFacts
  <2>6. DestroyHeld(m, data) = IF data THEN destroyPVR2DBuffer(f).m ELSE f
    BY <2>5 DEF DestroyHeld
  <2> HIDE DEF u, f
  <2>7. x.m = DestroyHeld(m, data) /\ x.dead = FALSE
    BY <2>1
  <2>0. x.m \in Memory => x \in Remains
    BY <2>1 DEF Remains
  <2>8. CASE data
    <3>1. x.m = destroyPVR2DBuffer(f).m /\ Size(data) = 2
      BY <2>6, <2>7, <2>8 DEF Size
    <3>2. Moved(m, x.m, -2, -1)
      BY <2>2, <2>3, <2>4, <3>1, RefusedAssumption DEF Moved, Memory
    <3>3. x \in Remains
      BY <2>0, <3>2 DEF Moved
    <3> QED
      BY <1>1, <2>7, <3>1, <3>2, <3>3
  <2>9. CASE ~data
    <3>1. x.m = f /\ Size(data) = 1
      BY <2>6, <2>7, <2>9 DEF Size
    <3>2. Moved(m, x.m, -1, -1)
      BY <2>2, <2>3, <3>1, RefusedAssumption DEF Moved, Memory
    <3>3. x \in Remains
      BY <2>0, <3>2 DEF Moved
    <3> QED
      BY <1>1, <2>7, <3>1, <3>2, <3>3
  <2> QED
    BY <2>8, <2>9, Zenon
<1>2. CASE slot = "null"
  <2>1. x = [m |-> m, dead |-> FALSE] /\ slot # "held"
    BY <1>2 DEF destroyOverlayBuffer
  <2> QED
    BY <2>1 DEF Remains
<1>3. CASE slot \notin {"held", "null"}
  <2>1. PICK b \in BOOLEAN : x = [m |-> m, dead |-> b]
    BY <1>3 DEF destroyOverlayBuffer
  <2> QED
    BY <1>3, <2>1 DEF Remains
<1> QED
  BY <1>1, <1>2, <1>3

\* Without DRM and PVR2D nothing is given back.
LEMMA DestroyNothingFacts ==
  ASSUME NEW m \in Memory, HalDown, NEW data \in BOOLEAN, NEW slot,
         NEW x \in destroyOverlayBuffer(m, slot, data)
  PROVE  /\ x \in Remains /\ x.m = m
         /\ slot \in {"held", "null"} => x.dead = FALSE
<1>1. DestroyHeld(m, data) = m
  BY DEF DestroyHeld, gttUnmap, HalDown
<1>2. CASE slot \in {"held", "null"}
  <2>1. x = [m |-> m, dead |-> FALSE]
    BY <1>1, <1>2 DEF destroyOverlayBuffer
  <2> QED
    BY <2>1 DEF Remains
<1>3. CASE slot \notin {"held", "null"}
  <2>1. PICK b \in BOOLEAN : x = [m |-> m, dead |-> b]
    BY <1>3 DEF destroyOverlayBuffer
  <2> QED
    BY <1>3, <2>1 DEF Remains
<1> QED
  BY <1>2, <1>3

-----------------------------------------------------------------------------
(* The buffers of a device, one after the other.                            *)

Contents == {"garbage", "null", "held", "freed"}
Parts == [m : Memory, slots : [Slots -> Contents], ok : BOOLEAN]

\* The first k slots are held, and no others.
HeldUpTo(slots, k) == \A i \in Slots : slots[i] = "held" <=> i <= k

Filled(m, p, n) ==
  /\ p \in Parts
  /\ \E k \in 0..n : /\ HeldUpTo(p.slots, k)
                     /\ Moved(m, p.m, 2 * k, k)
                     /\ p.ok => k = n
                     /\ ~p.ok => p.m.refused > 0

FillNext(i, p) ==
  IF ~p.ok THEN {p}
  ELSE {[m |-> a.m, ok |-> a.slot = "held", slots |-> [p.slots EXCEPT ![i] = a.slot]] :
          a \in allocateOverlayBuffer(p.m, TRUE)}

LEMMA FillNextTypes ==
  ASSUME HalUp, NEW i, NEW p \in Parts
  PROVE  FillNext(i, p) \subseteq Parts
<1> SUFFICES ASSUME NEW q \in FillNext(i, p) PROVE q \in Parts
  OBVIOUS
<1>1. CASE ~p.ok
  BY <1>1 DEF FillNext
<1>2. CASE p.ok
  <2>1. PICK a \in allocateOverlayBuffer(p.m, TRUE) :
          q = [m |-> a.m, ok |-> a.slot = "held", slots |-> [p.slots EXCEPT ![i] = a.slot]]
    BY <1>2 DEF FillNext
  <2>2. p.m \in Memory /\ p.slots \in [Slots -> Contents]
    BY DEF Parts
  <2>3. a.slot \in Contents /\ a.m \in Memory
    BY <2>2, AllocateOverlayFacts DEF Contents, Moved, Short
  <2> QED
    BY <2>1, <2>2, <2>3 DEF Parts
<1> QED
  BY <1>1, <1>2

LEMMA FillNextFills ==
  ASSUME NEW m \in Memory, HalUp, NEW i \in Slots, NEW p, Filled(m, p, i - 1), NEW q \in FillNext(i, p)
  PROVE  Filled(m, q, i)
<1> USE BufferAssumption
<1>1. PICK k \in 0..(i - 1) : /\ HeldUpTo(p.slots, k) /\ Moved(m, p.m, 2 * k, k)
                              /\ p.ok => k = i - 1
                              /\ ~p.ok => p.m.refused > 0
  BY DEF Filled
<1>2. p \in Parts /\ p.m \in Memory /\ p.slots \in [Slots -> Contents] /\ q \in Parts
  BY FillNextTypes DEF Filled, Parts
<1>3. i \in 1..BufferNum /\ k \in 0..i /\ k \in Int /\ i \in 0..i
  BY DEF Slots
<1>4. CASE ~p.ok
  <2>1. q = p
    BY <1>4 DEF FillNext
  <2> QED
    BY <1>1, <1>2, <1>3, <1>4, <2>1 DEF Filled
<1>5. CASE p.ok
  <2>1. PICK a \in allocateOverlayBuffer(p.m, TRUE) :
          q = [m |-> a.m, ok |-> a.slot = "held", slots |-> [p.slots EXCEPT ![i] = a.slot]]
    BY <1>5 DEF FillNext
  <2>2. q.m = a.m /\ q.ok = (a.slot = "held") /\ q.slots = [p.slots EXCEPT ![i] = a.slot] /\ k = i - 1
    BY <1>1, <1>5, <2>1
  <2>3. \A j \in Slots : q.slots[j] = IF j = i THEN a.slot ELSE p.slots[j]
    BY <1>2, <2>2
  <2>4. CASE a.slot = "held"
    <3>1. Moved(p.m, a.m, 2, 1)
      BY <1>2, <2>4, AllocateOverlayFacts DEF Size
    <3>2. Moved(m, q.m, 2 * i, i)
      BY <1>1, <1>3, <2>2, <3>1, RefusedAssumption DEF Moved, Memory
    <3>3. HeldUpTo(q.slots, i)
      BY <1>1, <1>3, <2>2, <2>3, <2>4 DEF HeldUpTo, Slots
    <3> QED
      BY <1>2, <1>3, <2>2, <2>4, <3>2, <3>3 DEF Filled
  <2>5. CASE a.slot # "held"
    <3>1. Short(p.m, a.m, 0, 0)
      BY <1>2, <2>5, AllocateOverlayFacts
    <3>2. Moved(m, q.m, 2 * k, k) /\ q.m.refused > 0
      BY <1>1, <1>3, <2>2, <3>1, RefusedAssumption DEF Short, Moved, Memory
    <3>3. HeldUpTo(q.slots, k)
      BY <1>1, <1>3, <2>2, <2>3, <2>5 DEF HeldUpTo, Slots
    <3> QED
      BY <1>2, <1>3, <2>2, <2>5, <3>2, <3>3 DEF Filled
  <2> QED
    BY <2>4, <2>5
<1> QED
  BY <1>4, <1>5

LEMMA AllocateSlotsFacts ==
  ASSUME NEW m \in Memory, HalUp, NEW p \in AllocateSlots(m)
  PROVE  Filled(m, p, BufferNum)
<1> USE BufferAssumption
<1> DEFINE first == {[m |-> m, slots |-> Closed.slots, ok |-> TRUE]}
           Loop(f) == [i \in 0..BufferNum |->
                          IF i = 0 THEN first ELSE UNION {FillNext(i, q) : q \in f[i - 1]}]
           filled == CHOOSE f : f = Loop(f)
           F == [x \in (1..BufferNum) \X SUBSET Parts |-> UNION {FillNext(x[1], q) : q \in x[2]}]
<1>1. AllocateSlots(m) = filled[BufferNum]
  BY DEF AllocateSlots, FillNext
<1>2. first \in SUBSET Parts /\ \A q \in first : Filled(m, q, 0)
  <2> DEFINE q == [m |-> m, slots |-> Closed.slots, ok |-> TRUE]
  <2>1. q \in Parts
    BY DEF Parts, Closed, Contents
  <2>2. HeldUpTo(q.slots, 0) /\ Moved(m, q.m, 0, 0)
    BY RefusedAssumption DEF HeldUpTo, Slots, Closed, Moved, Memory
  <2>3. Filled(m, q, 0)
    BY <2>1, <2>2 DEF Filled
  <2> QED
    BY <2>1, <2>3
<1> HIDE DEF first
<1>3. F \in [(1..BufferNum) \X SUBSET Parts -> SUBSET Parts]
  <2> SUFFICES ASSUME NEW x \in (1..BufferNum) \X SUBSET Parts
               PROVE  UNION {FillNext(x[1], q) : q \in x[2]} \in SUBSET Parts
    OBVIOUS
  <2> QED
    BY FillNextTypes
<1>4. PICK f \in [0..BufferNum -> SUBSET Parts] : Follows(f, first, F, BufferNum)
  <2> HIDE DEF F
  <2> QED
    BY <1>2, <1>3, RecursionExists
<1>5. f = Loop(f)
  <2>1. f[0] = first
    BY <1>4 DEF Follows
  <2>2. ASSUME NEW i \in 1..BufferNum PROVE f[i] = UNION {FillNext(i, q) : q \in f[i - 1]}
    <3>1. f[i] = F[<<i, f[i - 1]>>]
      BY <1>4 DEF Follows
    <3>2. i - 1 \in 0..BufferNum /\ f[i - 1] \in SUBSET Parts
      OBVIOUS
    <3>3. <<i, f[i - 1]>> \in (1..BufferNum) \X SUBSET Parts
      BY <3>2
    <3> QED
      BY <3>1, <3>3
  <2> QED
    BY <2>1, <2>2
<1>6. filled = Loop(filled)
  BY <1>5
<1> HIDE DEF filled
<1> DEFINE good == {i \in 0..BufferNum : \A q \in filled[i] : Filled(m, q, i)}
<1>7. 0 \in good
  <2>1. 0 \in 0..BufferNum
    OBVIOUS
  <2>2. Loop(filled)[0] = first
    BY <2>1
  <2>3. filled[0] = first
    BY <1>6, <2>2
  <2>4. \A q \in filled[0] : Filled(m, q, 0)
    BY <1>2, <2>3, Zenon
  <2> QED
    BY <2>1, <2>4
<1>8. ASSUME NEW i \in 1..BufferNum, i - 1 \in good PROVE i \in good
  <2>1. filled[i] = UNION {FillNext(i, q) : q \in filled[i - 1]}
    <3>1. Loop(filled)[i] = UNION {FillNext(i, q) : q \in filled[i - 1]}
      OBVIOUS
    <3> HIDE DEF Loop
    <3> QED
      BY <1>6, <3>1
  <2>2. i \in Slots
    BY DEF Slots
  <2>3. ASSUME NEW q \in filled[i] PROVE Filled(m, q, i)
    <3>1. PICK r \in filled[i - 1] : q \in FillNext(i, r)
      BY <2>1
    <3>2. Filled(m, r, i - 1)
      BY <1>8, <3>1
    <3> QED
      BY <2>2, <3>1, <3>2, FillNextFills
  <2> QED
    BY <2>3
<1> HIDE DEF good
<1>9. 0..BufferNum \subseteq good
  BY <1>7, <1>8, CountingUp
<1>10. BufferNum \in good
  BY <1>9
<1> QED
  BY <1>1, <1>10 DEF good

\* What destroying buffers does, and when it can be the end of the process.
Emptied(m, slots, p, n) ==
  /\ p.m \in Memory /\ p.dead \in BOOLEAN
  /\ (\A i \in Slots : slots[i] \in {"held", "null"}) => p.dead = FALSE
  /\ HalDown => p.m = m
  /\ HalUp => \A k \in 0..BufferNum :
       HeldUpTo(slots, k) => LET j == IF n < k THEN n ELSE k IN Moved(m, p.m, 0 - 2 * j, 0 - j)

EmptyNext(slots, i, p) ==
  {[x EXCEPT !.dead = @ \/ p.dead] : x \in destroyOverlayBuffer(p.m, slots[i], TRUE)}

LEMMA EmptyNextTypes ==
  ASSUME HalUp \/ HalDown, NEW slots, NEW i, NEW p \in Remains
  PROVE  EmptyNext(slots, i, p) \subseteq Remains
<1> SUFFICES ASSUME NEW x \in destroyOverlayBuffer(p.m, slots[i], TRUE)
             PROVE  [x EXCEPT !.dead = @ \/ p.dead] \in Remains
  BY DEF EmptyNext
<1>1. p.m \in Memory /\ p.dead \in BOOLEAN
  BY DEF Remains
<1>2. x \in Remains
  <2>1. CASE HalUp
    BY <1>1, <2>1, DestroyOverlayFacts
  <2>2. CASE HalDown
    BY <1>1, <2>2, DestroyNothingFacts
  <2> QED
    BY <2>1, <2>2
<1> QED
  BY <1>1, <1>2 DEF Remains

LEMMA EmptyNextEmpties ==
  ASSUME NEW m \in Memory, HalUp \/ HalDown, NEW slots, NEW i \in Slots, NEW p, Emptied(m, slots, p, i - 1),
         NEW q \in EmptyNext(slots, i, p)
  PROVE  Emptied(m, slots, q, i)
<1> USE BufferAssumption
<1>1. p.m \in Memory /\ p.dead \in BOOLEAN
  BY DEF Emptied
<1>2. PICK x \in destroyOverlayBuffer(p.m, slots[i], TRUE) : q = [x EXCEPT !.dead = @ \/ p.dead]
  BY DEF EmptyNext
<1>3. /\ x \in Remains
      /\ HalDown => x.m = p.m
      /\ HalUp => /\ slots[i] = "held" => Moved(p.m, x.m, -2, -1)
                  /\ slots[i] # "held" => x.m = p.m
      /\ slots[i] \in {"held", "null"} => x.dead = FALSE
  <2> DEFINE slot == slots[i]
  <2>0. x \in destroyOverlayBuffer(p.m, slot, TRUE)
    BY <1>2
  <2> HIDE DEF slot
  <2>1. CASE HalUp
    <3>1. /\ x \in Remains
          /\ slot = "held" => Moved(p.m, x.m, -Size(TRUE), -1)
          /\ slot # "held" => x.m = p.m
          /\ slot \in {"held", "null"} => x.dead = FALSE
      BY <1>1, <2>0, <2>1, DestroyOverlayFacts
    <3>2. -Size(TRUE) = -2 /\ ~HalDown
      BY <2>1 DEF Size, HalUp, HalDown
    <3> QED
      BY <3>1, <3>2 DEF slot
  <2>2. CASE HalDown
    <3>1. /\ x \in Remains /\ x.m = p.m
          /\ slot \in {"held", "null"} => x.dead = FALSE
      BY <1>1, <2>0, <2>2, DestroyNothingFacts
    <3>2. ~HalUp
      BY <2>2 DEF HalUp, HalDown
    <3> QED
      BY <3>1, <3>2 DEF slot
  <2> QED
    BY <2>1, <2>2
<1>4. q.m = x.m /\ q.dead = (x.dead \/ p.dead) /\ q.m \in Memory /\ q.dead \in BOOLEAN
  BY <1>1, <1>2, <1>3 DEF Remains
<1>5. (\A j \in Slots : slots[j] \in {"held", "null"}) => q.dead = FALSE
  BY <1>3, <1>4 DEF Emptied
<1>6. i \in 1..BufferNum
  BY DEF Slots
<1>7. ASSUME HalUp, NEW k \in 0..BufferNum, HeldUpTo(slots, k)
      PROVE  LET j == IF i < k THEN i ELSE k IN Moved(m, q.m, 0 - 2 * j, 0 - j)
  <2> DEFINE j == IF i - 1 < k THEN i - 1 ELSE k
  <2>1. Moved(m, p.m, 0 - 2 * j, 0 - j)
    BY <1>7 DEF Emptied
  <2>2. slots[i] = "held" <=> i <= k
    BY <1>7 DEF HeldUpTo
  <2>3. CASE i <= k
    <3>1. Moved(p.m, q.m, -2, -1) /\ j = i - 1
      BY <1>3, <1>4, <1>6, <1>7, <2>2, <2>3
    <3>2. Moved(m, q.m, 0 - 2 * i, 0 - i)
      BY <1>1, <1>6, <2>1, <3>1, RefusedAssumption DEF Moved, Memory
    <3>3. i = IF i < k THEN i ELSE k
      BY <1>6, <2>3
    <3> QED
      BY <3>2, <3>3
  <2>4. CASE ~ (i <= k)
    <3>1. q.m = p.m /\ j = k /\ k = IF i < k THEN i ELSE k
      BY <1>3, <1>4, <1>6, <1>7, <2>2, <2>4
    <3> QED
      BY <2>1, <3>1
  <2> QED
    BY <2>3, <2>4
<1>8. HalDown => q.m = m
  BY <1>3, <1>4 DEF Emptied
<1> QED
  BY <1>4, <1>5, <1>7, <1>8 DEF Emptied

LEMMA DestroySlotsFacts ==
  ASSUME NEW m \in Memory, HalUp \/ HalDown, NEW slots, NEW p \in DestroySlots(m, slots)
  PROVE  Emptied(m, slots, p, BufferNum)
<1> USE BufferAssumption
<1> DEFINE first == {[m |-> m, dead |-> FALSE]}
           Loop(f) == [i \in 0..BufferNum |->
                          IF i = 0 THEN first ELSE UNION {EmptyNext(slots, i, q) : q \in f[i - 1]}]
           emptied == CHOOSE f : f = Loop(f)
           F == [x \in (1..BufferNum) \X SUBSET Remains |-> UNION {EmptyNext(slots, x[1], q) : q \in x[2]}]
<1>1. DestroySlots(m, slots) = emptied[BufferNum]
  BY DEF DestroySlots, EmptyNext
<1>2. first \in SUBSET Remains /\ \A q \in first : Emptied(m, slots, q, 0)
  <2> DEFINE q == [m |-> m, dead |-> FALSE]
  <2>1. q \in Remains /\ q.dead = FALSE /\ q.m = m
    BY DEF Remains
  <2>2. Moved(m, m, 0, 0)
    BY RefusedAssumption DEF Moved, Memory
  <2> HIDE DEF q
  <2>3. ASSUME NEW k \in 0..BufferNum PROVE LET j == IF 0 < k THEN 0 ELSE k IN Moved(m, q.m, 0 - 2 * j, 0 - j)
    <3> DEFINE j == IF 0 < k THEN 0 ELSE k
    <3>1. j = 0
      OBVIOUS
    <3>2. 0 - 2 * 0 = 0 /\ 0 - 0 = 0
      OBVIOUS
    <3> HIDE DEF j
    <3>3. Moved(m, q.m, 0 - 2 * j, 0 - j)
      BY <2>1, <2>2, <3>1, <3>2
    <3> QED
      BY <3>3 DEF j
  <2>4. Emptied(m, slots, q, 0)
    BY <2>1, <2>3 DEF Emptied
  <2> QED
    BY <2>1, <2>4 DEF q
<1> HIDE DEF first
<1>3. F \in [(1..BufferNum) \X SUBSET Remains -> SUBSET Remains]
  <2> SUFFICES ASSUME NEW x \in (1..BufferNum) \X SUBSET Remains
               PROVE  UNION {EmptyNext(slots, x[1], q) : q \in x[2]} \in SUBSET Remains
    OBVIOUS
  <2> QED
    BY EmptyNextTypes
<1>4. PICK f \in [0..BufferNum -> SUBSET Remains] : Follows(f, first, F, BufferNum)
  <2> HIDE DEF F
  <2> QED
    BY <1>2, <1>3, RecursionExists
<1>5. f = Loop(f)
  <2>1. f[0] = first
    BY <1>4 DEF Follows
  <2>2. ASSUME NEW i \in 1..BufferNum PROVE f[i] = UNION {EmptyNext(slots, i, q) : q \in f[i - 1]}
    <3>1. f[i] = F[<<i, f[i - 1]>>]
      BY <1>4 DEF Follows
    <3>2. i - 1 \in 0..BufferNum /\ f[i - 1] \in SUBSET Remains
      OBVIOUS
    <3>3. <<i, f[i - 1]>> \in (1..BufferNum) \X SUBSET Remains
      BY <3>2
    <3> QED
      BY <3>1, <3>3
  <2> QED
    BY <2>1, <2>2
<1>6. emptied = Loop(emptied)
  BY <1>5
<1> HIDE DEF emptied
<1> DEFINE good == {i \in 0..BufferNum : \A q \in emptied[i] : Emptied(m, slots, q, i)}
<1>7. 0 \in good
  <2>1. 0 \in 0..BufferNum
    OBVIOUS
  <2>2. Loop(emptied)[0] = first
    BY <2>1
  <2>3. emptied[0] = first
    BY <1>6, <2>2
  <2>4. \A q \in emptied[0] : Emptied(m, slots, q, 0)
    BY <1>2, <2>3, Zenon
  <2> QED
    BY <2>1, <2>4
<1>8. ASSUME NEW i \in 1..BufferNum, i - 1 \in good PROVE i \in good
  <2>1. emptied[i] = UNION {EmptyNext(slots, i, q) : q \in emptied[i - 1]}
    <3>1. Loop(emptied)[i] = UNION {EmptyNext(slots, i, q) : q \in emptied[i - 1]}
      OBVIOUS
    <3> HIDE DEF Loop
    <3> QED
      BY <1>6, <3>1
  <2>2. i \in Slots
    BY DEF Slots
  <2>3. ASSUME NEW q \in emptied[i] PROVE Emptied(m, slots, q, i)
    <3>1. PICK r \in emptied[i - 1] : q \in EmptyNext(slots, i, r)
      BY <2>1
    <3>2. Emptied(m, slots, r, i - 1)
      BY <1>8, <3>1
    <3> QED
      BY <2>2, <3>1, <3>2, EmptyNextEmpties
  <2> QED
    BY <2>3
<1> HIDE DEF good
<1>9. 0..BufferNum \subseteq good
  BY <1>7, <1>8, CountingUp
<1>10. BufferNum \in good
  BY <1>9
<1> QED
  BY <1>1, <1>10 DEF good

\* A device whose buffers cannot all be had gives back those that it got.
LEMMA GiveBackSlotsFacts ==
  ASSUME NEW m \in Memory, HalUp, NEW a, Filled(m, a, BufferNum), NEW g \in GiveBack(a)
  PROVE  /\ Moved(m, g.m, 0, 0) /\ g.m.refused >= a.m.refused /\ g.dead = FALSE
         /\ g.slots \in [Slots -> Contents \ {"held"}]
<1> USE BufferAssumption
<1> DEFINE slots == [i \in Slots |-> IF a.slots[i] = "held" THEN "held" ELSE "null"]
<1>1. PICK x \in DestroySlots(a.m, slots) :
        g = [m |-> x.m, dead |-> x.dead,
             slots |-> [i \in Slots |-> IF a.slots[i] = "held" THEN "null" ELSE a.slots[i]]]
  BY DEF GiveBack
<1>2. a.m \in Memory /\ a.slots \in [Slots -> Contents]
  BY DEF Filled, Parts
<1>3. PICK k \in 0..BufferNum : HeldUpTo(a.slots, k) /\ Moved(m, a.m, 2 * k, k)
  BY DEF Filled
<1>4. HeldUpTo(slots, k)
  BY <1>3 DEF HeldUpTo
<1>5. \A i \in Slots : slots[i] \in {"held", "null"}
  OBVIOUS
<1> HIDE DEF slots
<1>6. Emptied(a.m, slots, x, BufferNum)
  BY <1>1, <1>2, DestroySlotsFacts
<1>7. x.dead = FALSE /\ Moved(a.m, x.m, 0 - 2 * k, 0 - k)
  <2>1. k = IF BufferNum < k THEN BufferNum ELSE k
    OBVIOUS
  <2> QED
    BY <1>4, <1>5, <1>6, <2>1 DEF Emptied
<1>8. Moved(m, x.m, 0, 0) /\ x.m.refused >= a.m.refused
  BY <1>3, <1>7, <1>2, RefusedAssumption DEF Moved, Memory
<1>9. g.slots \in [Slots -> Contents \ {"held"}]
  BY <1>1, <1>2 DEF Contents
<1> QED
  BY <1>1, <1>7, <1>8, <1>9

-----------------------------------------------------------------------------
(* The inductive invariant.                                                 *)

Torn == "torn" \in mem.causes
Drift == "drift" \in mem.causes

\* The three handles of the HAL object are open together, and stay as long as the
\* control device is.  What else it has is there unless it was refused.
HalInv ==
  /\ hal.drm = hal.pvr2d /\ (hal.drm => hal.video)
  /\ ctl.given # {} => ctl.open
  /\ ctl.open => /\ hal.drm
                 /\ hal.ctx \/ mem.refused > 0
                 /\ pool = "live" \/ mem.refused > 0
  /\ Torn => ~ctl.open /\ ~hal.drm /\ ~hal.ctx
  /\ ~Torn => \A d \in Devs : dev[d].state # "closed" => ctl.open

\* A device that is ready has all its buffers, any other none; what a device lacks
\* was refused.
DevOk(d) ==
  /\ HeldUpTo(dev[d].slots, IF dev[d].state = "ready" THEN BufferNum ELSE 0)
  /\ dev[d].state = "closed" => ~dev[d].block
  /\ ~Torn /\ (dev[d].state = "failed" \/ (dev[d].state # "closed" /\ ~dev[d].block)) => mem.refused > 0
DevInv == \A d \in Devs : DevOk(d)

\* The threads of a device that have one of its buffers.
Owners(d) == {t \in Threads[d] : thr[d][t].own /\ thr[d][t].at \in {"holds", "switching", "showing"}}

\* mCount and the threads with a buffer add up, and a thread asleep has a waker.
ThreadOk(d) ==
  /\ \A t \in Threads[d] : /\ dev[d].state # "ready" => thr[d][t] = Idle
                           /\ thr[d][t].at = "holds" => thr[d][t].own
  /\ dev[d].state = "ready" =>
       /\ dev[d].count = BufferNum - Cardinality(Owners(d))
       /\ (\E t \in Threads[d] : thr[d][t].at = "asleep") =>
            \E u \in Threads[d] : thr[d][u].at = "woken" \/ u \in Owners(d)
ThreadInv == \A d \in Devs : ThreadOk(d)

Blocks == {d \in Devs : dev[d].block}
MemInv ==
  ~Torn => /\ mem.alloc = Cardinality(Blocks) + 2 * (BufferNum * Cardinality(Ready))
           /\ mem.mapped = Cardinality(Blocks) + BufferNum * Cardinality(Ready)

DeadInv == down /\ ~Torn => DeathHasCause

\* An overlay that is on shows, where the mode wants it, a device that is ready; or
\* it is of an earlier mode and will be turned off by a thread that switches.
RightPipe(o, mode) == IF o = "A" THEN Pipes[mode] ELSE 1
Darkened(mode) == {"A"} \cup (IF mode \in {"dual", "mipi1"} THEN {"C"} ELSE {})
InPlace(o) ==
  /\ o \in Shown(ctx.mode) /\ ovadd[o].pipe = RightPipe(o, ctx.mode)
  /\ ovadd[o].dev \in Ready /\ dev[ovadd[o].dev].block
Doomed(o) ==
  \E d \in Devs : \E t \in Threads[d] : thr[d][t].at = "switching" /\ o \in Darkened(thr[d][t].old)
LitOk(o) == ovadd[o].on => InPlace(o) \/ Doomed(o)
LitInv == ~Torn /\ ~Drift => \A o \in Overlays : LitOk(o)

-----------------------------------------------------------------------------
(* The types, by name.                                                      *)

HalTypes == [drm : BOOLEAN, video : BOOLEAN, pvr2d : BOOLEAN, ctx : BOOLEAN, changed : BOOLEAN]
Pools == {"none", "live", "gone"}
CtxTypes == [mode : Modes, conn : [Outputs -> BOOLEAN], size : [Outputs -> Nat],
             pos : [Overlays -> [x : Int, w : Int]]]
CtlTypes == [open : BOOLEAN, free : SUBSET Overlays, given : SUBSET Overlays]
DevTypes == [state : {"closed", "open", "ready", "failed"}, block : BOOLEAN, index : Overlays, count : Int,
             slots : [Slots -> Contents], own : BOOLEAN]
ThrTypes == [at : {"idle", "asleep", "woken", "holds", "switching", "showing"}, old : Modes, own : BOOLEAN]
MemTypes == [alloc : Nat, mapped : Nat, refused : 0..MaxRefused, causes : SUBSET Causes]
RegTypes == [dev : Devs \cup {None}, pipe : 0..2, on : BOOLEAN]

TypeHal == hal \in HalTypes
TypeCtx == ctx \in CtxTypes
TypeCtl == ctl \in CtlTypes
TypeDev == dev \in [Devs -> DevTypes]
TypeThr == DOMAIN thr = Devs /\ \A d \in Devs : thr[d] \in [Threads[d] -> ThrTypes]
TypeMem == mem \in MemTypes
TypeReg == ovadd \in [Overlays -> RegTypes]
TypeRest == pool \in Pools /\ plug \in [Outputs -> Cables] \X Nat /\ down \in BOOLEAN
Types == TypeHal /\ TypeCtx /\ TypeCtl /\ TypeDev /\ TypeThr /\ TypeMem /\ TypeReg /\ TypeRest

OvInv == Types /\ HalInv /\ DevInv /\ ThreadInv /\ MemInv /\ DeadInv /\ LitInv

LEMMA TypesNamed == TypeOK <=> Types
BY DEF TypeOK, Types, TypeHal, TypeCtx, TypeCtl, TypeDev, TypeThr, TypeMem, TypeReg, TypeRest,
       HalTypes, Pools, CtxTypes, CtlTypes, DevTypes, ThrTypes, MemTypes, RegTypes, Contents

LEMMA MemTypesFacts ==
  ASSUME NEW m \in MemTypes
  PROVE  m \in Memory /\ m.alloc \in Nat /\ m.mapped \in Nat /\ m.refused \in Nat
BY RefusedAssumption DEF MemTypes, Memory

LEMMA ExcusedFacts ==
  /\ Excused({"torn"}) <=> Torn
  /\ Excused({"torn", "drift"}) <=> Torn \/ Drift
BY DEF Excused, Torn, Drift

\* The sets of devices and threads that are counted are finite.
LEMMA Finite ==
  /\ IsFiniteSet(Blocks) /\ Cardinality(Blocks) \in Nat
  /\ IsFiniteSet(Ready) /\ Cardinality(Ready) \in Nat
  /\ \A d \in Devs : IsFiniteSet(Owners(d)) /\ Cardinality(Owners(d)) \in Nat
<1>1. IsFiniteSet(Blocks) /\ IsFiniteSet(Ready)
  BY FiniteAssumption, FS_Subset DEF Blocks, Ready
<1>2. ASSUME NEW d \in Devs PROVE IsFiniteSet(Owners(d))
  <2>1. Owners(d) \subseteq Threads[d]
    BY DEF Owners
  <2> QED
    BY <2>1, FiniteAssumption, FS_Subset
<1> QED
  BY <1>1, <1>2, FS_CardinalityType

-----------------------------------------------------------------------------
(* What the HAL object's operations do.                                     *)

LEMMA InitializeFacts ==
  ASSUME TypeHal, TypeMem, TypeRest, HalInv, NEW i \in initialize(mem)
  PROVE  /\ i.hal \in HalTypes /\ i.pool \in Pools /\ i.ok \in BOOLEAN
         /\ i.hal.ctx = hal.ctx /\ i.hal.changed = hal.changed
         /\ Moved(mem, i.m, 0, 0)
         /\ ~i.ok => /\ i.m = mem /\ i.pool = pool /\ hal.drm = FALSE
                     /\ i.hal.drm = FALSE /\ i.hal.pvr2d = FALSE
         /\ i.ok => /\ i.hal.drm = TRUE /\ i.hal.video = TRUE /\ i.hal.pvr2d = TRUE
                    /\ i.pool = "live" \/ i.m.refused > 0
<1> DEFINE d == drmInit(hal)
           v == getVideoBridgeIoctl(d)
           Failed(h) == [hal |-> h, pool |-> pool, m |-> mem, ok |-> FALSE]
<1>0. hal \in HalTypes /\ mem \in Memory /\ pool \in Pools
  BY MemTypesFacts DEF TypeHal, TypeMem, TypeRest
<1>1. hal.drm = hal.pvr2d /\ (hal.drm => hal.video) /\ hal.drm \in BOOLEAN
  BY <1>0 DEF HalInv, HalTypes
<1>2. Moved(mem, mem, 0, 0)
  BY <1>0, RefusedAssumption DEF Moved, Memory
<1>3. CASE i = Failed(hal) /\ ~hal.drm
  BY <1>0, <1>1, <1>2, <1>3
<1>4. CASE i = Failed(drmDestroy(d)) /\ ~hal.video
  <2>1. /\ i.hal \in HalTypes /\ i.hal.ctx = hal.ctx /\ i.hal.changed = hal.changed
        /\ i.hal.drm = FALSE /\ i.hal.pvr2d = hal.pvr2d
    BY <1>0, <1>4 DEF drmInit, drmDestroy, HalTypes
  <2> QED
    BY <1>0, <1>1, <1>2, <1>4, <2>1
<1>5. CASE i = Failed(drmDestroy(v)) /\ ~hal.pvr2d
  <2>1. /\ i.hal \in HalTypes /\ i.hal.ctx = hal.ctx /\ i.hal.changed = hal.changed
        /\ i.hal.drm = FALSE /\ i.hal.pvr2d = hal.pvr2d
    BY <1>0, <1>5 DEF drmInit, drmDestroy, getVideoBridgeIoctl, HalTypes
  <2> QED
    BY <1>0, <1>1, <1>2, <1>5, <2>1
<1>6. CASE \E w \in pvrWsbmInitialize(pool, mem) : i = [hal |-> pvr2DInit(v), pool |-> w.pool, m |-> w.m, ok |-> TRUE]
  <2>1. PICK w \in pvrWsbmInitialize(pool, mem) :
          i = [hal |-> pvr2DInit(v), pool |-> w.pool, m |-> w.m, ok |-> TRUE]
    BY <1>6
  <2>2. /\ i.hal \in HalTypes /\ i.hal.ctx = hal.ctx /\ i.hal.changed = hal.changed
        /\ i.hal.drm = TRUE /\ i.hal.video = TRUE /\ i.hal.pvr2d = TRUE
    BY <1>0, <2>1 DEF drmInit, pvr2DInit, getVideoBridgeIoctl, HalTypes
  <2>3. CASE w = [pool |-> "live", m |-> mem]
    BY <1>2, <2>1, <2>2, <2>3 DEF Pools
  <2>4. ASSUME NEW q \in {pool, "none"}, NEW r \in Refused(mem), w = [pool |-> q, m |-> r]
        PROVE  i.pool \in Pools /\ Moved(mem, i.m, 0, 0) /\ i.m.refused > 0
    <3>1. Short(mem, r, 0, 0)
      BY <1>0, RefusedFacts
    <3> QED
      BY <1>0, <2>1, <2>4, <3>1 DEF Pools, Short
  <2>5. i.pool \in Pools /\ Moved(mem, i.m, 0, 0) /\ (i.pool = "live" \/ i.m.refused > 0)
    <3>1. w = [pool |-> "live", m |-> mem] \/ \E q \in {pool, "none"}, r \in Refused(mem) : w = [pool |-> q, m |-> r]
      BY DEF pvrWsbmInitialize
    <3> QED
      BY <1>2, <2>1, <2>3, <2>4, <3>1 DEF Pools
  <2> QED
    BY <2>1, <2>2, <2>5
<1> QED
  <2>1. \/ i \in {Failed(hal)} /\ ~hal.drm
        \/ i \in {Failed(drmDestroy(d))} /\ ~hal.video
        \/ i \in {Failed(drmDestroy(v))} /\ ~hal.pvr2d
        \/ i \in {[hal |-> pvr2DInit(v), pool |-> w.pool, m |-> w.m, ok |-> TRUE] : w \in pvrWsbmInitialize(pool, mem)}
    BY Zenon DEF initialize
  <2> HIDE DEF d, v
  <2> QED
    BY <1>3, <1>4, <1>5, <1>6, <2>1

LEMMA ContextFacts ==
  ASSUME NEW h \in HalTypes, NEW m \in Memory, TypeCtx, NEW s \in createSharedContext(h, m)
  PROVE  /\ s.hal \in HalTypes /\ s.ctx \in CtxTypes /\ Moved(m, s.m, 0, 0)
         /\ s.hal.drm = h.drm /\ s.hal.video = h.video /\ s.hal.pvr2d = h.pvr2d /\ s.hal.changed = h.changed
         /\ s.hal.ctx = TRUE \/ s.m.refused > 0
<1>1. Moved(m, m, 0, 0)
  BY RefusedAssumption DEF Moved, Memory
<1>2. Unread \in CtxTypes
  BY DEF Unread, CtxTypes, Modes
<1>3. CASE h.ctx /\ s = [hal |-> h, ctx |-> ctx, m |-> m]
  BY <1>1, <1>3 DEF TypeCtx, HalTypes
<1>4. CASE s = [hal |-> [h EXCEPT !.ctx = TRUE], ctx |-> Unread, m |-> m]
  BY <1>1, <1>2, <1>4 DEF HalTypes
<1>5. ASSUME NEW r \in Refused(m), s = [hal |-> h, ctx |-> Unread, m |-> r]
      PROVE  s.hal = h /\ s.ctx = Unread /\ Short(m, s.m, 0, 0)
  BY <1>5, RefusedFacts
<1>6. CASE \E r \in Refused(m) : s = [hal |-> h, ctx |-> Unread, m |-> r]
  BY <1>2, <1>5, <1>6 DEF Short
<1> QED
  BY <1>3, <1>4, <1>6 DEF createSharedContext

\* Looking at the outputs moves no window, and is the end only without a context.
LEMMA DetectFacts ==
  ASSUME TypeRest, NEW h, NEW c \in CtxTypes, NEW x \in detectDrmModeInfo(h, c)
  PROVE  /\ x.ctx \in CtxTypes /\ x.dead \in BOOLEAN
         /\ x.dead => h.drm /\ ~h.ctx
<1> DEFINE conn == [o \in Outputs |-> plug[1][o] # "off"]
           size == [o \in Outputs |-> IF plug[1][o] = "on" THEN Screen[o] ELSE c.size[o]]
           next == [c EXCEPT !.conn = conn, !.size = size, !.mode = ModeOf(conn)]
<1>1. x = [ctx |-> c, dead |-> FALSE] \/ (h.drm /\ ~h.ctx /\ x = [ctx |-> c, dead |-> TRUE])
        \/ x = [ctx |-> next, dead |-> FALSE]
  BY DEF detectDrmModeInfo
<1>2. conn \in [Outputs -> BOOLEAN]
  OBVIOUS
<1>3. size \in [Outputs -> Nat]
  <2> SUFFICES ASSUME NEW o \in Outputs PROVE (IF plug[1][o] = "on" THEN Screen[o] ELSE c.size[o]) \in Nat
    OBVIOUS
  <2> QED
    BY DEF CtxTypes, Screen, Outputs
<1>4. ModeOf(conn) \in Modes
  BY DEF ModeOf, Modes
<1> HIDE DEF conn, size
<1>5. next \in CtxTypes
  BY <1>2, <1>3, <1>4 DEF CtxTypes
<1> HIDE DEF next
<1>6. CASE x = [ctx |-> c, dead |-> FALSE]
  BY <1>6
<1>7. CASE h.drm /\ ~h.ctx /\ x = [ctx |-> c, dead |-> TRUE]
  <2>1. x.ctx = c /\ x.dead = TRUE
    BY <1>7
  <2> QED
    BY <1>7, <2>1, Zenon
<1>8. CASE x = [ctx |-> next, dead |-> FALSE]
  BY <1>5, <1>8
<1> QED
  BY <1>1, <1>6, <1>7, <1>8, Zenon

LEMMA DriftedFacts ==
  ASSUME NEW c, NEW m \in Memory
  PROVE  /\ Drifted(c, m) \in Memory
         /\ Drifted(c, m).alloc = m.alloc /\ Drifted(c, m).mapped = m.mapped
         /\ Drifted(c, m).refused = m.refused
         /\ m.causes \subseteq Drifted(c, m).causes
         /\ "torn" \in Drifted(c, m).causes <=> "torn" \in m.causes
         /\ c.mode # ctx.mode /\ (\E o \in Overlays : ovadd[o].on) => "drift" \in Drifted(c, m).causes
BY DEF Drifted, Note, Memory, Causes

\* The registers that were not written stay, those that were say what they were told.
LEMMA WriteFacts ==
  ASSUME NEW W, NEW reg, NEW regs, NEW o \in Overlays
  PROVE  /\ hal.drm /\ o \in W => Write(W, reg, regs)[o] = reg[o]
         /\ ~hal.drm \/ o \notin W => Write(W, reg, regs)[o] = regs[o]
BY DEF Write

-----------------------------------------------------------------------------
(* What a step leaves alone stays right.                                    *)

LEMMA LitUntouched ==
  ASSUME LitInv, UNCHANGED <<dev, thr, mem, ovadd>>, ctx'.mode = ctx.mode
  PROVE  LitInv'
BY DEF LitInv, LitOk, InPlace, Doomed, Torn, Drift, Ready

LEMMA DevOkKept ==
  ASSUME NEW d \in Devs, DevOk(d), dev'[d] = dev[d], mem \in Memory, mem' \in Memory,
         mem'.refused >= mem.refused, Torn => Torn'
  PROVE  DevOk(d)'
BY RefusedAssumption DEF DevOk, HeldUpTo, Memory

LEMMA ThreadOkKept ==
  ASSUME NEW d \in Devs, ThreadOk(d), thr'[d] = thr[d],
         dev'[d].state = "ready" <=> dev[d].state = "ready",
         dev[d].state = "ready" => dev'[d].count = dev[d].count
  PROVE  ThreadOk(d)'
<1>1. Owners(d)' = Owners(d)
  BY DEF Owners
<1> QED
  BY <1>1 DEF ThreadOk

LEMMA Untouched ==
  ASSUME DevInv, ThreadInv, MemInv, UNCHANGED <<dev, thr, mem>>
  PROVE  DevInv' /\ ThreadInv' /\ MemInv'
<1>1. DevInv'
  BY DEF DevInv, DevOk, HeldUpTo, Torn
<1>2. ThreadInv'
  BY ThreadOkKept DEF ThreadInv
<1>3. MemInv'
  BY DEF MemInv, Torn, Blocks, Ready
<1> QED
  BY <1>1, <1>2, <1>3

\* Nothing is on when no device is ready, and then nothing can be wrong.
LEMMA OffWhenNoneReady ==
  ASSUME ThreadInv, LitInv, ~Torn, ~Drift, Ready = {}
  PROVE  \A o \in Overlays : ~ovadd[o].on
<1>1. ASSUME NEW d \in Devs, NEW t \in Threads[d] PROVE thr[d][t].at # "switching"
  BY DEF ThreadInv, ThreadOk, Ready, Idle
<1> QED
  BY <1>1 DEF LitInv, LitOk, InPlace, Doomed

LEMMA LitWhenOff ==
  ASSUME \A o \in Overlays : ~ovadd'[o].on
  PROVE  LitInv'
BY DEF LitInv, LitOk

LEMMA DeadOfRefusal ==
  ASSUME mem'.refused > 0
  PROVE  DeadInv'
BY DEF DeadInv, DeathHasCause

LEMMA DeadWhenAlive ==
  ASSUME down' = FALSE
  PROVE  DeadInv'
BY DEF DeadInv

-----------------------------------------------------------------------------
(* The steps of the control device.                                         *)

LEMMA OpenControlKeeps ==
  ASSUME OvInv, OpenControl, down = FALSE
  PROVE  OvInv'
<1>0. /\ Types /\ TypeHal /\ TypeMem /\ TypeRest /\ TypeCtx /\ mem \in Memory /\ HalInv /\ ~Torn /\ ~ctl.open
      /\ UNCHANGED <<dev, thr, ovadd, plug>>
  BY ExcusedFacts, MemTypesFacts DEF OvInv, Types, OpenControl, TypeMem
<1>1. \A d \in Devs : dev[d].state = "closed"
  BY <1>0 DEF HalInv
<1>2. Ready = {}
  BY <1>1 DEF Ready
<1>3. PICK i \in initialize(mem) :
        /\ pool' = i.pool
        /\ \/ /\ ~i.ok
              /\ hal' = i.hal /\ mem' = i.m
              /\ UNCHANGED <<ctl, ctx, down>>
           \/ /\ i.ok /\ ctl' = [open |-> TRUE, free |-> Overlays, given |-> {}]
              /\ \E s \in createSharedContext(i.hal, i.m) : \E d \in detectDrmModeInfo(s.hal, s.ctx) :
                   hal' = s.hal /\ ctx' = d.ctx /\ mem' = Drifted(d.ctx, s.m) /\ down' = d.dead
  BY DEF OpenControl
<1>4. /\ i.hal \in HalTypes /\ i.pool \in Pools /\ i.ok \in BOOLEAN
      /\ i.hal.ctx = hal.ctx /\ i.hal.changed = hal.changed
      /\ Moved(mem, i.m, 0, 0)
      /\ ~i.ok => /\ i.m = mem /\ i.pool = pool /\ hal.drm = FALSE
                  /\ i.hal.drm = FALSE /\ i.hal.pvr2d = FALSE
      /\ i.ok => /\ i.hal.drm = TRUE /\ i.hal.video = TRUE /\ i.hal.pvr2d = TRUE
                 /\ i.pool = "live" \/ i.m.refused > 0
  BY <1>0, InitializeFacts
<1>5. CASE ~i.ok
  <2>1. hal' = i.hal /\ pool' = pool /\ mem' = mem /\ UNCHANGED <<ctl, ctx, down>>
    BY <1>3, <1>4, <1>5
  <2>2. Types'
    BY <1>0, <1>4, <2>1 DEF Types, TypeHal, TypeCtx, TypeCtl, TypeDev, TypeThr, TypeMem, TypeReg, TypeRest
  <2>3. HalInv'
    BY <1>0, <1>1, <1>4, <1>5, <2>1 DEF HalInv, Torn
  <2>4. DevInv' /\ ThreadInv' /\ MemInv' /\ LitInv'
    BY <1>0, <2>1, Untouched, LitUntouched DEF OvInv
  <2> QED
    BY <2>1, <2>2, <2>3, <2>4, DeadWhenAlive DEF OvInv
<1>6. CASE i.ok
  <2>1. PICK s \in createSharedContext(i.hal, i.m) : \E d \in detectDrmModeInfo(s.hal, s.ctx) :
          hal' = s.hal /\ ctx' = d.ctx /\ mem' = Drifted(d.ctx, s.m) /\ down' = d.dead
    BY <1>3, <1>6
  <2>2. PICK d \in detectDrmModeInfo(s.hal, s.ctx) :
          hal' = s.hal /\ ctx' = d.ctx /\ mem' = Drifted(d.ctx, s.m) /\ down' = d.dead
    BY <2>1
  <2>3. i.m \in Memory
    BY <1>4 DEF Moved
  <2>4. /\ s.hal \in HalTypes /\ s.ctx \in CtxTypes /\ Moved(i.m, s.m, 0, 0)
        /\ s.hal.drm = i.hal.drm /\ s.hal.video = i.hal.video /\ s.hal.pvr2d = i.hal.pvr2d
        /\ s.hal.ctx = TRUE \/ s.m.refused > 0
    BY <1>0, <1>4, <2>3, ContextFacts
  <2>5. d.ctx \in CtxTypes /\ d.dead \in BOOLEAN /\ (d.dead => ~s.hal.ctx)
    BY <1>0, <2>4, DetectFacts
  <2>6. s.m \in Memory /\ Moved(mem, s.m, 0, 0)
    BY <1>0, <1>4, <2>3, <2>4, RefusedAssumption DEF Moved, Memory
  <2>7. /\ mem' \in Memory /\ mem'.alloc = s.m.alloc /\ mem'.mapped = s.m.mapped /\ mem'.refused = s.m.refused
        /\ s.m.causes \subseteq mem'.causes /\ (Torn' <=> "torn" \in s.m.causes)
    BY <2>2, <2>6, DriftedFacts DEF Torn
  <2>8. /\ mem'.alloc = mem.alloc /\ mem'.mapped = mem.mapped /\ mem'.refused >= mem.refused /\ ~Torn'
        /\ mem.causes \subseteq mem'.causes
    BY <1>0, <2>6, <2>7 DEF Moved, Torn, Memory
  <2>9. mem' \in MemTypes
    BY <1>0, <2>7, <2>8 DEF Types, TypeMem, MemTypes, Memory
  <2>10. ctl' = [open |-> TRUE, free |-> Overlays, given |-> {}]
    BY <1>3, <1>6
  <2>11. Types'
    BY <1>0, <1>3, <1>4, <2>2, <2>4, <2>5, <2>9, <2>10
       DEF Types, TypeHal, TypeCtx, TypeCtl, TypeDev, TypeThr, TypeMem, TypeReg, TypeRest, CtlTypes
  <2>12. pool' = "live" \/ mem'.refused > 0
    BY <1>3, <1>4, <1>6, <2>3, <2>4, <2>6, <2>7, RefusedAssumption DEF Moved, Memory
  <2>13. HalInv'
    <3>1. hal'.drm = TRUE /\ hal'.pvr2d = TRUE /\ hal'.video = TRUE /\ (hal'.ctx = TRUE \/ mem'.refused > 0)
      BY <1>4, <1>6, <2>2, <2>4, <2>7
    <3> QED
      BY <2>8, <2>10, <2>12, <3>1 DEF HalInv
  <2>14. DevInv'
    BY <1>0, <2>7, <2>8, DevOkKept DEF OvInv, DevInv
  <2>15. ThreadInv'
    BY <1>0, ThreadOkKept DEF OvInv, ThreadInv
  <2>16. MemInv'
    <3>1. Blocks' = Blocks /\ Ready' = Ready
      BY <1>0 DEF Blocks, Ready
    <3> QED
      BY <1>0, <2>8, <3>1 DEF OvInv, MemInv
  <2>17. DeadInv'
    <3>1. CASE d.dead
      BY <2>4, <2>5, <2>7, <3>1, DeadOfRefusal
    <3>2. CASE ~d.dead
      BY <2>2, <2>5, <3>2, DeadWhenAlive
    <3> QED
      BY <3>1, <3>2
  <2>18. LitInv'
    <3>1. CASE Drift
      <4>1. Drift'
        BY <2>8, <3>1 DEF Drift
      <4> QED
        BY <4>1 DEF LitInv
    <3>2. CASE ~Drift
      <4>1. \A o \in Overlays : ~ovadd[o].on
        BY <1>0, <1>2, <3>2, OffWhenNoneReady DEF OvInv
      <4> QED
        BY <1>0, <4>1, LitWhenOff
    <3> QED
      BY <3>1, <3>2
  <2> QED
    BY <2>11, <2>13, <2>14, <2>15, <2>16, <2>17, <2>18 DEF OvInv
<1> QED
  BY <1>5, <1>6

LEMMA CloseControlKeeps ==
  ASSUME OvInv, CloseControl
  PROVE  OvInv'
<1> DEFINE h == destroySharedContext(hal)
<1>0. /\ ctl.open /\ hal \in HalTypes /\ mem \in MemTypes /\ mem \in Memory /\ Types
      /\ UNCHANGED <<dev, thr, ovadd, plug>>
      /\ ctl' = [open |-> FALSE, free |-> Overlays, given |-> {}]
      /\ ctx' = Unread /\ hal' = DestroyHAL(h)
  BY MemTypesFacts DEF OvInv, Types, TypeHal, TypeMem, CloseControl
<1>1. /\ hal' \in HalTypes /\ hal'.drm = FALSE /\ hal'.pvr2d = FALSE /\ hal'.ctx = FALSE
  BY <1>0 DEF DestroyHAL, drmDestroy, pvr2DDestroy, destroySharedContext, HalTypes
<1>2. ctx' \in CtxTypes
  BY <1>0 DEF Unread, CtxTypes, Modes
<1>3. pool' = "gone" /\ down' = (pool # "live")
  BY DEF CloseControl, pvrWsbmTakedown
<1>4. mem' = IF \E d \in Devs : dev[d].state # "closed" THEN Note(mem, "torn") ELSE mem
  BY DEF CloseControl
<1>5. mem' \in MemTypes /\ mem'.refused = mem.refused /\ mem.causes \subseteq mem'.causes
  BY <1>0, <1>4 DEF Note, MemTypes, Causes
<1>6. (\E d \in Devs : dev[d].state # "closed") => Torn'
  BY <1>0, <1>4 DEF Torn, Note, Memory
<1>7. Torn => Torn'
  BY <1>5 DEF Torn
<1>8. Types'
  BY <1>0, <1>1, <1>2, <1>3, <1>5
     DEF Types, TypeHal, TypeCtx, TypeCtl, TypeDev, TypeThr, TypeMem, TypeReg, TypeRest, CtlTypes, Pools
<1>9. HalInv'
  BY <1>0, <1>1, <1>6 DEF HalInv
<1>10. mem' \in Memory /\ mem'.refused >= mem.refused
  BY <1>0, <1>5, MemTypesFacts
<1>11. DevInv'
  BY <1>0, <1>7, <1>10, DevOkKept DEF OvInv, DevInv
<1>12. ThreadInv'
  BY <1>0, ThreadOkKept DEF OvInv, ThreadInv
<1>13. MemInv'
  <2>1. Blocks' = Blocks /\ Ready' = Ready
    BY <1>0 DEF Blocks, Ready
  <2>2. CASE \E d \in Devs : dev[d].state # "closed"
    BY <1>6, <2>2 DEF MemInv
  <2>3. CASE ~ (\E d \in Devs : dev[d].state # "closed")
    BY <1>4, <1>7, <2>1, <2>3 DEF OvInv, MemInv
  <2> QED
    BY <2>2, <2>3
<1>14. DeadInv'
  <2>1. CASE pool = "live"
    BY <1>3, <2>1, DeadWhenAlive
  <2>2. CASE pool # "live"
    <3>1. mem.refused > 0
      BY <1>0, <2>2 DEF OvInv, HalInv
    <3> QED
      BY <1>5, <3>1, DeadOfRefusal
  <2> QED
    BY <2>1, <2>2
<1>15. LitInv'
  <2>1. CASE Torn' \/ Drift'
    BY <2>1 DEF LitInv
  <2>2. CASE ~Torn' /\ ~Drift'
    <3>1. ~Torn /\ ~Drift /\ Ready = {}
      BY <1>5, <1>6, <1>7, <2>2 DEF Drift, Ready
    <3>2. \A o \in Overlays : ~ovadd[o].on
      BY <3>1, OffWhenNoneReady DEF OvInv
    <3> QED
      BY <1>0, <3>2, LitWhenOff
  <2> QED
    BY <2>1, <2>2
<1> QED
  BY <1>8, <1>9, <1>11, <1>12, <1>13, <1>14, <1>15 DEF OvInv

LEMMA OverlaysKeep ==
  ASSUME OvInv, down = FALSE, CreateOverlay \/ \E o \in Overlays : DestroyOverlay(o)
  PROVE  OvInv'
<1>1. UNCHANGED <<hal, pool, ctx, dev, thr, mem, ovadd, plug, down>>
  BY DEF CreateOverlay, DestroyOverlay
<1>2. ctl' \in CtlTypes /\ ctl'.open = ctl.open /\ (ctl'.given # {} => ctl.open)
  <2>1. ctl \in CtlTypes /\ (ctl.given # {} => ctl.open)
    BY DEF OvInv, Types, TypeCtl, HalInv
  <2>2. CASE CreateOverlay
    <3>1. getOverlay \in Overlays
      BY DEF getOverlay, Overlays
    <3> QED
      BY <2>1, <2>2, <3>1 DEF CreateOverlay, CtlTypes
  <2>3. CASE \E o \in Overlays : DestroyOverlay(o)
    BY <2>1, <2>3 DEF DestroyOverlay, putOverlay, CtlTypes
  <2> QED
    BY <2>2, <2>3
<1>3. Types'
  BY <1>1, <1>2 DEF OvInv, Types, TypeHal, TypeCtx, TypeCtl, TypeDev, TypeThr, TypeMem, TypeReg, TypeRest
<1>4. HalInv'
  BY <1>1, <1>2 DEF OvInv, HalInv, Torn
<1>5. DevInv' /\ ThreadInv' /\ MemInv' /\ LitInv'
  BY <1>1, Untouched, LitUntouched DEF OvInv
<1> QED
  BY <1>1, <1>3, <1>4, <1>5, DeadWhenAlive DEF OvInv

LEMMA SetPositionKeeps ==
  ASSUME OvInv, down = FALSE, NEW o \in Overlays, NEW span \in Spans, SetPosition(o, span)
  PROVE  OvInv'
<1>1. UNCHANGED <<hal, pool, ctl, dev, thr, mem, ovadd, plug, down>>
  BY DEF SetPosition
<1>2. ctx' \in CtxTypes /\ ctx'.mode = ctx.mode
  <2>1. ctx \in CtxTypes /\ span \in [x : Int, w : Int]
    BY SpanAssumption DEF OvInv, Types, TypeCtx
  <2>2. ctx' = [ctx EXCEPT !.pos[o] = span]
    BY DEF SetPosition, setPosition
  <2> QED
    BY <2>1, <2>2 DEF CtxTypes
<1>3. Types'
  BY <1>1, <1>2 DEF OvInv, Types, TypeHal, TypeCtx, TypeCtl, TypeDev, TypeThr, TypeMem, TypeReg, TypeRest
<1>4. HalInv'
  BY <1>1 DEF OvInv, HalInv, Torn
<1>5. DevInv' /\ ThreadInv' /\ MemInv' /\ LitInv'
  BY <1>1, <1>2, Untouched, LitUntouched DEF OvInv
<1> QED
  BY <1>1, <1>3, <1>4, <1>5, DeadWhenAlive DEF OvInv

LEMMA PlugKeeps ==
  ASSUME OvInv, down = FALSE, NEW c \in Changes, Plug(c[1], c[2])
  PROVE  OvInv'
<1>1. UNCHANGED <<hal, pool, ctx, ctl, dev, thr, mem, ovadd, down>>
  BY DEF Plug
<1>2. plug' \in [Outputs -> Cables] \X Nat
  <2>1. plug \in [Outputs -> Cables] \X Nat /\ c[1] \in Outputs /\ c[2] \in Cables
    BY OutputAssumption DEF OvInv, Types, TypeRest
  <2>2. plug' = <<[plug[1] EXCEPT ![c[1]] = c[2]], plug[2] + 1>>
    BY DEF Plug
  <2> QED
    BY <2>1, <2>2
<1>3. Types'
  BY <1>1, <1>2 DEF OvInv, Types, TypeHal, TypeCtx, TypeCtl, TypeDev, TypeThr, TypeMem, TypeReg, TypeRest
<1>4. HalInv'
  BY <1>1 DEF OvInv, HalInv, Torn
<1>5. DevInv' /\ ThreadInv' /\ MemInv' /\ LitInv'
  BY <1>1, Untouched, LitUntouched DEF OvInv
<1> QED
  BY <1>1, <1>3, <1>4, <1>5, DeadWhenAlive DEF OvInv

-----------------------------------------------------------------------------
(* What the registers say.                                                  *)

LEMMA ResetFacts ==
  ASSUME TypeReg, NEW d \in Devs, NEW mode \in Modes
  PROVE  /\ resetOverlay(d, mode) \in [Overlays -> RegTypes]
         /\ \A o \in Overlays :
              /\ resetOverlay(d, mode)[o] = ovadd[o] \/ resetOverlay(d, mode)[o] = Off
              /\ dev[d].block /\ hal.drm /\ o \in Shown(mode) => resetOverlay(d, mode)[o] = Off
<1>1. Off \in RegTypes
  BY DEF Off, RegTypes
<1>2. Off.pipe = 0 /\ Off.on = FALSE
  BY DEF Off
<1> DEFINE reg == [A |-> Off, C |-> Off]
<1>3. resetOverlay(d, mode) = IF ~dev[d].block THEN ovadd ELSE Write(Shown(mode), reg, ovadd)
  BY DEF resetOverlay, updateOverlay
<1>4. \A o \in Overlays : reg[o] = Off
  BY DEF Overlays
<1> HIDE DEF reg
<1>5. CASE ~dev[d].block
  BY <1>3, <1>5 DEF TypeReg
<1>6. CASE dev[d].block
  <2>1. resetOverlay(d, mode) = Write(Shown(mode), reg, ovadd)
    BY <1>3, <1>6
  <2>2. \A o \in Overlays : /\ hal.drm /\ o \in Shown(mode) => resetOverlay(d, mode)[o] = Off
                            /\ ~hal.drm \/ o \notin Shown(mode) => resetOverlay(d, mode)[o] = ovadd[o]
    BY <1>4, <2>1, WriteFacts
  <2>3. resetOverlay(d, mode) \in [Overlays -> RegTypes]
    BY <1>1, <1>4, <2>1 DEF Write, TypeReg
  <2> QED
    BY <2>2, <2>3
<1> QED
  BY <1>5, <1>6

LEMMA ShowFacts ==
  ASSUME TypeReg, NEW d \in Devs, NEW mode \in Modes, dev[d].block, hal.drm
  PROVE  /\ updateOverlay(d, mode, TRUE) \in [Overlays -> RegTypes]
         /\ \A o \in Overlays :
              updateOverlay(d, mode, TRUE)[o] =
                IF o \in Shown(mode) THEN [dev |-> d, pipe |-> RightPipe(o, mode), on |-> TRUE] ELSE ovadd[o]
<1> DEFINE Reg(pipe) == [dev |-> d, pipe |-> pipe, on |-> TRUE]
           reg == [A |-> Reg(Pipes[mode]), C |-> Reg(1)]
<1>1. updateOverlay(d, mode, TRUE) = Write(Shown(mode), reg, ovadd)
  BY DEF updateOverlay
<1>2. \A o \in Overlays : reg[o] = Reg(RightPipe(o, mode))
  <2>1. reg["A"] = Reg(RightPipe("A", mode)) /\ reg["C"] = Reg(RightPipe("C", mode))
    BY DEF RightPipe
  <2> HIDE DEF reg, Reg
  <2> QED
    BY <2>1 DEF Overlays
<1>3. \A o \in Overlays : RightPipe(o, mode) \in 0..2
  BY DEF RightPipe, Modes, Pipes
<1>4. \A o \in Overlays : reg[o] \in RegTypes
  <2> HIDE DEF reg
  <2>1. \A pipe \in 0..2 : Reg(pipe) \in RegTypes
    BY DEF RegTypes
  <2> HIDE DEF Reg
  <2> QED
    BY <1>2, <1>3, <2>1
<1> HIDE DEF reg
<1>5. updateOverlay(d, mode, TRUE) \in [Overlays -> RegTypes]
  BY <1>1, <1>4 DEF Write, TypeReg
<1>6. \A o \in Overlays : updateOverlay(d, mode, TRUE)[o] = IF o \in Shown(mode) THEN reg[o] ELSE ovadd[o]
  <2> SUFFICES ASSUME NEW o \in Overlays
               PROVE  updateOverlay(d, mode, TRUE)[o] = IF o \in Shown(mode) THEN reg[o] ELSE ovadd[o]
    OBVIOUS
  <2>1. /\ o \in Shown(mode) => Write(Shown(mode), reg, ovadd)[o] = reg[o]
        /\ o \notin Shown(mode) => Write(Shown(mode), reg, ovadd)[o] = ovadd[o]
    BY WriteFacts
  <2> QED
    BY <1>1, <2>1
<1> QED
  BY <1>2, <1>5, <1>6

\* What was lit for a device that stays ready stays right, as long as the mode does.
LEMMA LitKept ==
  ASSUME LitInv, thr' = thr, Torn => Torn', Drift => Drift',
         \A o \in Overlays : ovadd'[o] = ovadd[o] \/ ~ovadd'[o].on,
         \A c \in Ready : c \in Ready' /\ dev'[c].block = dev[c].block,
         ctx'.mode = ctx.mode \/ ((\E o \in Overlays : ovadd[o].on) => Drift')
  PROVE  LitInv'
<1> SUFFICES ASSUME ~Torn', ~Drift', NEW o \in Overlays, ovadd'[o].on
             PROVE  InPlace(o)' \/ Doomed(o)'
  BY DEF LitInv, LitOk
<1>1. ovadd'[o] = ovadd[o] /\ ovadd[o].on /\ ctx'.mode = ctx.mode
  OBVIOUS
<1>2. InPlace(o) \/ Doomed(o)
  BY <1>1 DEF LitInv, LitOk
<1>3. InPlace(o) => InPlace(o)'
  BY <1>1 DEF InPlace
<1>4. Doomed(o) => Doomed(o)'
  BY DEF Doomed
<1> QED
  BY <1>2, <1>3, <1>4

-----------------------------------------------------------------------------
(* The steps of the data devices.                                           *)

LEMMA HalIsUp ==
  ASSUME TypeHal, HalInv, ctl.open
  PROVE  HalUp /\ ~Torn
BY DEF TypeHal, HalInv, HalTypes, HalUp

LEMMA HalUpOrDown ==
  ASSUME TypeHal, HalInv, NEW d \in Devs, dev[d].state # "closed"
  PROVE  /\ ~Torn => HalUp /\ ctl.open
         /\ Torn => HalDown
BY HalIsUp DEF TypeHal, HalInv, HalTypes, HalDown

LEMMA OpenedFacts ==
  ASSUME NEW held \in BOOLEAN
  PROVE  LET new == [Closed EXCEPT !.state = "open", !.block = held]
         IN /\ new \in DevTypes /\ new.state = "open" /\ new.block = held
            /\ \A j \in Slots : new.slots[j] = "garbage"
<1>1. Closed \in DevTypes /\ \A j \in Slots : Closed.slots[j] = "garbage"
  BY DEF Closed, DevTypes, Contents, Overlays
<1> QED
  BY <1>1 DEF DevTypes

LEMMA OpenDataKeeps ==
  ASSUME OvInv, down = FALSE, NEW d \in Devs, OpenData(d)
  PROVE  OvInv'
<1>0. /\ Types /\ TypeHal /\ TypeMem /\ TypeRest /\ mem \in Memory /\ HalInv /\ dev[d].state = "closed" /\ ctl.open
      /\ ~Torn
      /\ UNCHANGED <<ctx, ctl, thr, ovadd, plug, down>>
  BY ExcusedFacts, MemTypesFacts DEF OvInv, Types, OpenData, TypeMem, HalInv
<1>1. HalUp
  BY <1>0, HalIsUp
<1>2. PICK i \in initialize(mem) :
        /\ hal' = i.hal /\ pool' = i.pool
        /\ \/ ~i.ok /\ mem' = i.m /\ dev' = dev
           \/ /\ i.ok
              /\ \E b \in allocateOverlayBuffer(i.m, FALSE) :
                   /\ mem' = b.m
                   /\ dev' = [dev EXCEPT ![d] = [Closed EXCEPT !.state = "open", !.block = b.slot = "held"]]
  BY DEF OpenData
<1>3. /\ i.hal \in HalTypes /\ i.pool \in Pools /\ i.ok \in BOOLEAN
      /\ i.hal.ctx = hal.ctx
      /\ Moved(mem, i.m, 0, 0)
      /\ ~i.ok => hal.drm = FALSE
      /\ i.ok => /\ i.hal.drm = TRUE /\ i.hal.video = TRUE /\ i.hal.pvr2d = TRUE
                 /\ i.pool = "live" \/ i.m.refused > 0
  BY <1>0, InitializeFacts
<1>4. i.ok
  BY <1>1, <1>3 DEF HalUp
<1>5. PICK b \in allocateOverlayBuffer(i.m, FALSE) :
        /\ mem' = b.m
        /\ dev' = [dev EXCEPT ![d] = [Closed EXCEPT !.state = "open", !.block = b.slot = "held"]]
  BY <1>2, <1>4
<1>6. i.m \in Memory /\ hal' = i.hal /\ pool' = i.pool
  BY <1>2, <1>3 DEF Moved
<1>7. /\ b.slot = "held" => Moved(i.m, b.m, 1, 1)
      /\ b.slot # "held" => Short(i.m, b.m, 0, 0)
  <2>1. \A x \in allocateOverlayBuffer(i.m, FALSE) :
          /\ x.slot = "held" => Moved(i.m, x.m, Size(FALSE), 1)
          /\ x.slot # "held" => Short(i.m, x.m, 0, 0)
    BY <1>1, <1>6, AllocateOverlayFacts
  <2>2. Size(FALSE) = 1
    BY DEF Size
  <2> QED
    BY <2>1, <2>2
<1>8. /\ mem' \in Memory /\ mem'.refused >= mem.refused /\ mem'.refused >= i.m.refused /\ mem'.causes = mem.causes
      /\ b.slot = "held" => mem'.alloc = mem.alloc + 1 /\ mem'.mapped = mem.mapped + 1
      /\ b.slot # "held" => mem'.alloc = mem.alloc /\ mem'.mapped = mem.mapped /\ mem'.refused > 0
  BY <1>0, <1>3, <1>5, <1>6, <1>7, RefusedAssumption DEF Short, Moved, Memory
<1>9. ~Torn'
  BY <1>0, <1>8 DEF Torn
<1>10. mem' \in MemTypes
  BY <1>0, <1>8 DEF TypeMem, MemTypes, Memory
<1>11. /\ dev' \in [Devs -> DevTypes] /\ dev'[d].state = "open" /\ dev'[d].block = (b.slot = "held")
       /\ \A j \in Slots : dev'[d].slots[j] = "garbage"
       /\ \A c \in Devs \ {d} : dev'[c] = dev[c]
  <2>0. dev \in [Devs -> DevTypes]
    BY <1>0 DEF Types, TypeDev
  <2> DEFINE held == b.slot = "held"
             new == [Closed EXCEPT !.state = "open", !.block = held]
  <2>01. held \in BOOLEAN
    OBVIOUS
  <2> HIDE DEF held
  <2>1. /\ new \in DevTypes /\ new.state = "open" /\ new.block = held
        /\ \A j \in Slots : new.slots[j] = "garbage"
    BY <2>01, OpenedFacts
  <2> HIDE DEF new
  <2>2. dev' = [dev EXCEPT ![d] = new]
    BY <1>5 DEF new, held
  <2> QED
    BY <2>0, <2>1, <2>2 DEF held
<1>12. Types'
  BY <1>0, <1>2, <1>3, <1>10, <1>11
     DEF Types, TypeHal, TypeCtx, TypeCtl, TypeDev, TypeThr, TypeMem, TypeReg, TypeRest
<1>13. HalInv'
  <2>1. hal'.drm = TRUE /\ hal'.pvr2d = TRUE /\ hal'.video = TRUE /\ hal'.ctx = hal.ctx
    BY <1>2, <1>3, <1>4
  <2>2. pool' = "live" \/ mem'.refused > 0
    <3>1. i.pool = "live" \/ i.m.refused > 0
      BY <1>3, <1>4
    <3>2. i.m.refused > 0 => mem'.refused > 0
      BY <1>6, <1>8, RefusedAssumption DEF Memory
    <3> QED
      BY <1>6, <3>1, <3>2
  <2>3. hal.ctx \/ mem'.refused > 0
    BY <1>0, <1>8, RefusedAssumption DEF HalInv, Memory
  <2> QED
    BY <1>0, <1>9, <2>1, <2>2, <2>3 DEF HalInv
<1>14. DevInv'
  <2>1. DevOk(d)'
    <3>1. HeldUpTo(dev'[d].slots, 0)
      BY <1>11 DEF HeldUpTo, Slots
    <3>2. ~dev'[d].block => mem'.refused > 0
      BY <1>8, <1>11
    <3> QED
      BY <1>11, <3>1, <3>2 DEF DevOk
  <2>2. ASSUME NEW c \in Devs \ {d} PROVE DevOk(c)'
    BY <1>0, <1>8, <1>11, DevOkKept DEF OvInv, DevInv
  <2> QED
    BY <2>1, <2>2 DEF DevInv
<1>15. ThreadInv'
  <2>1. \A c \in Devs : /\ dev'[c].state = "ready" <=> dev[c].state = "ready"
                        /\ dev[c].state = "ready" => dev'[c].count = dev[c].count
    BY <1>0, <1>11
  <2> QED
    BY <1>0, <2>1, ThreadOkKept DEF OvInv, ThreadInv
<1>16. Ready' = Ready
  BY <1>0, <1>11 DEF Ready
<1>17. MemInv'
  <2>1. d \notin Blocks
    BY <1>0 DEF OvInv, DevInv, DevOk, Blocks
  <2>2. CASE b.slot = "held"
    <3>1. Blocks' = Blocks \cup {d}
      BY <1>11, <2>2 DEF Blocks
    <3>2. Cardinality(Blocks') = Cardinality(Blocks) + 1
      BY <2>1, <3>1, Finite, FS_AddElement
    <3> QED
      BY <1>0, <1>8, <1>16, <2>2, <3>2, Finite, BufferAssumption DEF OvInv, MemInv
  <2>3. CASE b.slot # "held"
    <3>1. Blocks' = Blocks
      BY <1>11, <2>1, <2>3 DEF Blocks
    <3> QED
      BY <1>0, <1>8, <1>16, <2>3, <3>1 DEF OvInv, MemInv
  <2> QED
    BY <2>2, <2>3
<1>18. LitInv'
  <2>1. \A c \in Ready : c \in Ready' /\ dev'[c].block = dev[c].block
    BY <1>0, <1>11 DEF Ready
  <2>2. Drift => Drift'
    BY <1>8 DEF Drift
  <2> QED
    BY <1>0, <2>1, <2>2, LitKept DEF OvInv
<1> QED
  BY <1>0, <1>12, <1>13, <1>14, <1>15, <1>17, <1>18, DeadWhenAlive DEF OvInv

LEMMA ThreadOkIdle ==
  ASSUME NEW d \in Devs, \A t \in Threads[d] : thr'[d][t] = Idle,
         dev'[d].state = "ready" => dev'[d].count = BufferNum
  PROVE  ThreadOk(d)'
<1>1. Owners(d)' = {}
  BY DEF Owners, Idle
<1>2. Cardinality({}) = 0
  BY FS_EmptySet
<1> QED
  BY <1>1, <1>2, BufferAssumption DEF ThreadOk, Idle

\* A device that was initialized.
Readied(block, slots, o) ==
  [Closed EXCEPT !.state = "ready", !.block = block, !.slots = slots, !.index = o, !.count = BufferNum]

LEMMA ReadiedFacts ==
  ASSUME NEW block \in BOOLEAN, NEW slots \in [Slots -> Contents], NEW o \in Overlays
  PROVE  /\ Readied(block, slots, o) \in DevTypes
         /\ Readied(block, slots, o).state = "ready" /\ Readied(block, slots, o).block = block
         /\ Readied(block, slots, o).slots = slots /\ Readied(block, slots, o).count = BufferNum
<1> DEFINE e1 == [Closed EXCEPT !.state = "ready", !.block = block]
           e2 == [e1 EXCEPT !.slots = slots, !.index = o]
<1>1. Closed \in DevTypes
  BY DEF Closed, DevTypes, Contents, Overlays
<1>2. e1 \in DevTypes /\ e1.state = "ready" /\ e1.block = block
  BY <1>1 DEF DevTypes
<1> HIDE DEF e1
<1>3. e2 \in DevTypes /\ e2.state = "ready" /\ e2.block = block /\ e2.slots = slots
  BY <1>2 DEF DevTypes
<1>4. Readied(block, slots, o) = [e2 EXCEPT !.count = BufferNum]
  BY DEF Readied, e1
<1> HIDE DEF e2
<1> QED
  BY <1>3, <1>4, BufferAssumption DEF DevTypes

LEMMA InitializeWithoutContext ==
  ASSUME OvInv, down = FALSE, NEW d \in Devs, dev[d].state = "open", ctl.open, ~hal.ctx,
         dev' = [dev EXCEPT ![d].state = "failed"],
         UNCHANGED <<hal, pool, ctx, ctl, thr, mem, ovadd, plug, down>>
  PROVE  OvInv'
<1>0. Types /\ mem \in Memory
  BY MemTypesFacts DEF OvInv, Types, TypeMem
<1>1. /\ dev' \in [Devs -> DevTypes] /\ dev'[d].state = "failed" /\ dev'[d].slots = dev[d].slots
      /\ dev'[d].block = dev[d].block
      /\ \A c \in Devs \ {d} : dev'[c] = dev[c]
  BY <1>0 DEF Types, TypeDev, DevTypes
<1>2. mem.refused > 0
  BY DEF OvInv, HalInv
<1>3. Types'
  BY <1>0, <1>1 DEF Types, TypeHal, TypeCtx, TypeCtl, TypeDev, TypeThr, TypeMem, TypeReg, TypeRest
<1>4. HalInv'
  BY DEF OvInv, HalInv, Torn
<1>5. DevInv'
  <2>1. DevOk(d)'
    BY <1>1, <1>2 DEF OvInv, DevInv, DevOk, HeldUpTo
  <2>2. ASSUME NEW c \in Devs \ {d} PROVE DevOk(c)'
    BY <1>0, <1>1, DevOkKept, RefusedAssumption DEF OvInv, DevInv, Torn, Memory
  <2> QED
    BY <2>1, <2>2 DEF DevInv
<1>6. ThreadInv'
  <2>1. \A c \in Devs : /\ dev'[c].state = "ready" <=> dev[c].state = "ready"
                        /\ dev[c].state = "ready" => dev'[c].count = dev[c].count
    BY <1>1
  <2> QED
    BY <2>1, ThreadOkKept DEF OvInv, ThreadInv
<1>7. Ready' = Ready /\ Blocks' = Blocks
  BY <1>1 DEF Ready, Blocks
<1>8. MemInv'
  BY <1>7 DEF OvInv, MemInv, Torn
<1>9. LitInv'
  <2>1. \A c \in Ready : c \in Ready' /\ dev'[c].block = dev[c].block
    BY <1>1 DEF Ready
  <2> QED
    BY <2>1, LitKept DEF OvInv, Torn, Drift
<1> QED
  BY <1>3, <1>4, <1>5, <1>6, <1>8, <1>9, DeadWhenAlive DEF OvInv

LEMMA InitializeAllocates ==
  ASSUME OvInv, down = FALSE, NEW d \in Devs, NEW o \in Overlays, dev[d].state = "open", ctl.open, hal.ctx,
         NEW c \in detectDrmModeInfo(hal, ctx), NEW a \in AllocateSlots(Drifted(c.ctx, mem)),
         ctx' = c.ctx, UNCHANGED <<hal, pool, ctl, thr, plug, down>>,
         \/ /\ a.ok /\ mem' = a.m
            /\ dev' = [dev EXCEPT ![d] = Readied(dev[d].block, a.slots, o)]
            /\ ovadd' = resetOverlay(d, c.ctx.mode)
         \/ /\ ~a.ok /\ ovadd' = ovadd
            /\ \E g \in GiveBack(a) :
                 /\ dev' = [dev EXCEPT ![d].state = "failed", ![d].slots = g.slots]
                 /\ mem' = g.m
  PROVE  OvInv'
<1> DEFINE m == Drifted(c.ctx, mem)
<1>0. /\ Types /\ TypeHal /\ TypeCtx /\ TypeRest /\ TypeReg /\ mem \in Memory /\ HalInv /\ dev \in [Devs -> DevTypes]
      /\ HalUp /\ ~Torn
  <2>1. /\ Types /\ TypeHal /\ TypeCtx /\ TypeRest /\ TypeReg /\ mem \in Memory /\ HalInv /\ dev \in [Devs -> DevTypes]
    BY MemTypesFacts DEF OvInv, Types, TypeMem, TypeDev
  <2> QED
    BY <2>1, HalIsUp
<1>1. c.ctx \in CtxTypes
  BY <1>0, DetectFacts DEF TypeCtx
<1>2. /\ m \in Memory /\ m.alloc = mem.alloc /\ m.mapped = mem.mapped /\ m.refused = mem.refused
      /\ mem.causes \subseteq m.causes /\ ("torn" \in m.causes <=> Torn)
      /\ c.ctx.mode # ctx.mode /\ (\E p \in Overlays : ovadd[p].on) => "drift" \in m.causes
  BY <1>0, DriftedFacts DEF Torn
<1> HIDE DEF m
<1>3. Filled(m, a, BufferNum)
  BY <1>0, <1>2, AllocateSlotsFacts DEF m
<1>4. PICK k \in 0..BufferNum : /\ HeldUpTo(a.slots, k) /\ Moved(m, a.m, 2 * k, k)
                                /\ a.ok => k = BufferNum
                                /\ ~a.ok => a.m.refused > 0
  BY <1>3 DEF Filled
<1>5. a \in Parts /\ a.ok \in BOOLEAN /\ a.m \in Memory /\ a.slots \in [Slots -> Contents]
  BY <1>3 DEF Filled, Parts
\* What both outcomes have in common.
<1>6. ASSUME mem' \in Memory, mem'.causes = m.causes, mem'.refused >= mem.refused,
             mem'.alloc >= mem.alloc, mem'.mapped >= mem.mapped,
             dev' \in [Devs -> DevTypes], dev'[d].block = dev[d].block,
             \A e \in Devs \ {d} : dev'[e] = dev[e],
             ovadd' \in [Overlays -> RegTypes],
             \A p \in Overlays : ovadd'[p] = ovadd[p] \/ ~ovadd'[p].on,
             DevOk(d)', ThreadOk(d)', MemInv'
      PROVE  OvInv'
  <2>1. mem' \in MemTypes
    BY <1>0, <1>6, RefusedAssumption DEF Types, TypeMem, MemTypes, Memory
  <2>2. Types'
    BY <1>0, <1>1, <1>6, <2>1 DEF Types, TypeHal, TypeCtx, TypeCtl, TypeDev, TypeThr, TypeMem, TypeReg, TypeRest
  <2>3. ~Torn' /\ (Drift => Drift')
    BY <1>0, <1>2, <1>6 DEF Torn, Drift
  <2>4. HalInv'
    <3>1. mem.refused > 0 => mem'.refused > 0
      BY <1>0, <1>6, RefusedAssumption DEF Memory
    <3> QED
      BY <1>0, <2>3, <3>1 DEF HalInv
  <2>5. DevInv'
    <3>1. ASSUME NEW e \in Devs \ {d} PROVE DevOk(e)'
      BY <1>0, <1>6, DevOkKept DEF OvInv, DevInv
    <3> QED
      BY <1>6, <3>1 DEF DevInv
  <2>6. ThreadInv'
    <3>1. ASSUME NEW e \in Devs \ {d} PROVE ThreadOk(e)'
      BY <1>6, ThreadOkKept DEF OvInv, ThreadInv
    <3> QED
      BY <1>6, <3>1 DEF ThreadInv
  <2>7. LitInv'
    <3>1. \A e \in Ready : e \in Ready' /\ dev'[e].block = dev[e].block
      BY <1>6 DEF Ready
    <3>2. c.ctx.mode # ctx.mode /\ (\E p \in Overlays : ovadd[p].on) => Drift'
      BY <1>2, <1>6 DEF Drift
    <3> QED
      BY <1>0, <1>6, <2>3, <3>1, <3>2, LitKept DEF OvInv
  <2> QED
    BY <1>6, <2>2, <2>4, <2>5, <2>6, <2>7, DeadWhenAlive DEF OvInv
<1>7. \A t \in Threads[d] : thr'[d][t] = Idle
  BY DEF OvInv, ThreadInv, ThreadOk
<1>8. d \notin Ready
  BY DEF Ready
<1>9. CASE a.ok
  <2>1. /\ mem' = a.m /\ ovadd' = resetOverlay(d, c.ctx.mode)
        /\ dev' = [dev EXCEPT ![d] = Readied(dev[d].block, a.slots, o)]
    BY <1>9
  <2>2. /\ mem' \in Memory /\ mem'.causes = m.causes /\ mem'.refused >= mem.refused
        /\ mem'.alloc = mem.alloc + 2 * BufferNum /\ mem'.mapped = mem.mapped + BufferNum
    BY <1>2, <1>4, <1>5, <1>9, <2>1 DEF Moved
  <2>3. /\ dev' \in [Devs -> DevTypes] /\ dev'[d].state = "ready" /\ dev'[d].block = dev[d].block
        /\ dev'[d].slots = a.slots /\ dev'[d].count = BufferNum
        /\ \A e \in Devs \ {d} : dev'[e] = dev[e]
    <3> DEFINE new == Readied(dev[d].block, a.slots, o)
    <3>1. dev[d].block \in BOOLEAN
      BY <1>0 DEF DevTypes
    <3>2. new \in DevTypes /\ new.state = "ready" /\ new.block = dev[d].block /\ new.slots = a.slots
            /\ new.count = BufferNum
      BY <1>5, <3>1, ReadiedFacts
    <3>3. dev' = [dev EXCEPT ![d] = new]
      BY <2>1
    <3> HIDE DEF new
    <3> QED
      BY <1>0, <3>2, <3>3
  <2>4. /\ ovadd' \in [Overlays -> RegTypes]
        /\ \A p \in Overlays : ovadd'[p] = ovadd[p] \/ ~ovadd'[p].on
    <3>1. c.ctx.mode \in Modes /\ Off.on = FALSE
      BY <1>1 DEF CtxTypes, Off
    <3> QED
      BY <1>0, <2>1, <3>1, ResetFacts
  <2>5. DevOk(d)'
    <3>1. HeldUpTo(dev'[d].slots, BufferNum)
      BY <1>4, <1>9, <2>3
    <3>2. ~dev'[d].block => mem'.refused > 0
      <4>1. ~dev[d].block => mem.refused > 0
        BY <1>0 DEF OvInv, DevInv, DevOk
      <4> QED
        BY <1>0, <2>2, <2>3, <4>1, RefusedAssumption DEF Memory
    <3> QED
      BY <2>3, <3>1, <3>2 DEF DevOk
  <2>6. ThreadOk(d)'
    BY <1>7, <2>3, ThreadOkIdle
  <2>7. MemInv'
    <3>1. Blocks' = Blocks /\ Ready' = Ready \cup {d}
      BY <2>3 DEF Blocks, Ready
    <3>2. Cardinality(Ready') = Cardinality(Ready) + 1
      BY <1>8, <3>1, Finite, FS_AddElement
    <3> DEFINE n == Cardinality(Ready)
    <3>3. n \in Nat /\ Cardinality(Blocks) \in Nat
      BY Finite
    <3> HIDE DEF n
    <3>4. BufferNum * (n + 1) = BufferNum * n + BufferNum /\ BufferNum * n \in Nat
      BY <3>3, BufferAssumption
    <3>5. /\ mem.alloc = Cardinality(Blocks) + 2 * (BufferNum * n)
          /\ mem.mapped = Cardinality(Blocks) + BufferNum * n
      BY <1>0 DEF OvInv, MemInv, n
    <3>6. /\ mem'.alloc = Cardinality(Blocks) + 2 * (BufferNum * (n + 1))
          /\ mem'.mapped = Cardinality(Blocks) + BufferNum * (n + 1)
      BY <2>2, <3>3, <3>4, <3>5, BufferAssumption
    <3> QED
      BY <3>1, <3>2, <3>6 DEF MemInv, n
  <2> QED
    BY <1>0, <1>6, <2>2, <2>3, <2>4, <2>5, <2>6, <2>7, BufferAssumption DEF Memory
<1>10. CASE ~a.ok
  <2>1. PICK g \in GiveBack(a) :
          /\ dev' = [dev EXCEPT ![d].state = "failed", ![d].slots = g.slots]
          /\ mem' = g.m
    BY <1>10
  <2>2. /\ Moved(m, g.m, 0, 0) /\ g.m.refused >= a.m.refused
        /\ g.slots \in [Slots -> Contents \ {"held"}]
    BY <1>0, <1>2, <1>3, GiveBackSlotsFacts
  <2>3. /\ mem' \in Memory /\ mem'.causes = m.causes /\ mem'.refused >= mem.refused /\ mem'.refused > 0
        /\ mem'.alloc = mem.alloc /\ mem'.mapped = mem.mapped
    <3>1. mem' \in Memory /\ mem'.causes = m.causes /\ mem'.refused >= m.refused
          /\ mem'.alloc = m.alloc + 0 /\ mem'.mapped = m.mapped + 0
      BY <2>1, <2>2 DEF Moved
    <3>2. mem'.refused > 0
      BY <1>4, <1>5, <1>10, <2>1, <2>2, <3>1, RefusedAssumption DEF Memory
    <3> QED
      BY <1>0, <1>2, <3>1, <3>2, RefusedAssumption DEF Memory
  <2>4. /\ dev' \in [Devs -> DevTypes] /\ dev'[d].state = "failed" /\ dev'[d].block = dev[d].block
        /\ dev'[d].slots = g.slots
        /\ \A e \in Devs \ {d} : dev'[e] = dev[e]
    <3> DEFINE e == [dev EXCEPT ![d].state = "failed"]
    <3>1. g.slots \in [Slots -> Contents]
      <4>1. Contents \ {"held"} \subseteq Contents
        OBVIOUS
      <4> QED
        BY <2>2, <4>1
    <3>2. /\ e \in [Devs -> DevTypes] /\ e[d].state = "failed" /\ e[d].block = dev[d].block
          /\ \A f \in Devs \ {d} : e[f] = dev[f]
      BY <1>0 DEF DevTypes
    <3>3. dev' = [e EXCEPT ![d].slots = g.slots]
      BY <2>1
    <3> HIDE DEF e
    <3> QED
      BY <3>1, <3>2, <3>3 DEF DevTypes
  <2>5. /\ ovadd' \in [Overlays -> RegTypes]
        /\ \A p \in Overlays : ovadd'[p] = ovadd[p]
    BY <1>0, <1>10 DEF TypeReg
  <2>6. DevOk(d)'
    <3>1. HeldUpTo(dev'[d].slots, 0)
      <4>1. \A i \in Slots : g.slots[i] # "held"
        BY <2>2
      <4> QED
        BY <2>4, <4>1, BufferAssumption DEF HeldUpTo, Slots
    <3> QED
      BY <2>3, <2>4, <3>1 DEF DevOk
  <2>7. ThreadOk(d)'
    BY <1>7, <2>4, ThreadOkIdle
  <2>8. MemInv'
    <3>1. Blocks' = Blocks /\ Ready' = Ready
      BY <2>4 DEF Blocks, Ready
    <3> QED
      BY <1>0, <2>3, <3>1 DEF OvInv, MemInv
  <2> QED
    BY <1>0, <1>6, <2>3, <2>4, <2>5, <2>6, <2>7, <2>8 DEF Memory
<1> QED
  BY <1>5, <1>9, <1>10

LEMMA InitializeKeeps ==
  ASSUME OvInv, down = FALSE, NEW d \in Devs, NEW o \in Overlays, Initialize(d, o)
  PROVE  OvInv'
<1>1. dev[d].state = "open" /\ ctl.open
  BY DEF Initialize, OvInv, HalInv
<1>2. CASE ~hal.ctx
  <2>1. /\ dev' = [dev EXCEPT ![d].state = "failed"]
        /\ UNCHANGED <<hal, pool, ctx, ctl, thr, mem, ovadd, plug, down>>
    BY <1>2 DEF Initialize, openSharedContext
  <2> QED
    BY <1>1, <1>2, <2>1, InitializeWithoutContext
<1>3. CASE hal.ctx
  <2>1. PICK c \in detectDrmModeInfo(hal, ctx) : \E a \in AllocateSlots(Drifted(c.ctx, mem)) :
          /\ ctx' = c.ctx
          /\ \/ /\ a.ok /\ mem' = a.m
                /\ dev' = [dev EXCEPT ![d] = Readied(dev[d].block, a.slots, o)]
                /\ ovadd' = resetOverlay(d, c.ctx.mode)
                /\ UNCHANGED down
             \/ /\ ~a.ok
                /\ \E g \in GiveBack(a) :
                     /\ dev' = [dev EXCEPT ![d].state = "failed", ![d].slots = g.slots]
                     /\ mem' = g.m /\ down' = g.dead
                /\ UNCHANGED ovadd
    BY <1>3 DEF Initialize, openSharedContext, Readied
  <2>2. PICK a \in AllocateSlots(Drifted(c.ctx, mem)) :
          /\ ctx' = c.ctx
          /\ \/ /\ a.ok /\ mem' = a.m
                /\ dev' = [dev EXCEPT ![d] = Readied(dev[d].block, a.slots, o)]
                /\ ovadd' = resetOverlay(d, c.ctx.mode)
                /\ UNCHANGED down
             \/ /\ ~a.ok
                /\ \E g \in GiveBack(a) :
                     /\ dev' = [dev EXCEPT ![d].state = "failed", ![d].slots = g.slots]
                     /\ mem' = g.m /\ down' = g.dead
                /\ UNCHANGED ovadd
    BY <2>1
  <2>3. UNCHANGED <<hal, pool, ctl, thr, plug>>
    BY DEF Initialize
  <2>4. \A g \in GiveBack(a) : g.dead = FALSE
    <3>1. HalUp /\ mem \in Memory
      BY <1>1, HalIsUp, MemTypesFacts DEF OvInv, Types, TypeMem
    <3>2. Drifted(c.ctx, mem) \in Memory
      BY <3>1, DriftedFacts
    <3>3. Filled(Drifted(c.ctx, mem), a, BufferNum)
      BY <3>1, <3>2, AllocateSlotsFacts
    <3> QED
      BY <3>1, <3>2, <3>3, GiveBackSlotsFacts
  <2>5. down' = down
    BY <2>2, <2>4
  <2> QED
    BY <1>1, <1>3, <2>2, <2>3, <2>5, InitializeAllocates
<1> QED
  BY <1>2, <1>3

\* What closing a device does to the memory.
LEMMA CloseDataMemory ==
  ASSUME OvInv, NEW d \in Devs, dev[d].state \in {"ready", "failed"},
         NEW b \in destroyOverlayBuffer(mem, IF dev[d].block THEN "held" ELSE "null", FALSE),
         NEW s \in DestroySlots(b.m, dev[d].slots),
         mem' = s.m, dev' = [dev EXCEPT ![d] = Closed]
  PROVE  /\ mem' \in MemTypes /\ mem'.refused >= mem.refused /\ mem'.causes = mem.causes
         /\ MemInv'
         /\ b.dead = FALSE
         /\ s.dead /\ ~Torn => mem'.refused > 0
<1> USE BufferAssumption
<1> DEFINE slot == IF dev[d].block THEN "held" ELSE "null"
           slots == dev[d].slots
           k == IF dev[d].state = "ready" THEN BufferNum ELSE 0
<1>0. /\ mem \in MemTypes /\ mem \in Memory /\ dev \in [Devs -> DevTypes] /\ HeldUpTo(slots, k)
      /\ (~Torn => HalUp) /\ (Torn => HalDown)
  BY MemTypesFacts, HalUpOrDown DEF OvInv, Types, TypeMem, TypeDev, DevInv, DevOk
<1>1. b \in destroyOverlayBuffer(mem, slot, FALSE) /\ slot \in {"held", "null"} /\ (slot = "held" <=> dev[d].block)
  OBVIOUS
<1>2. k \in 0..BufferNum
  OBVIOUS
<1> HIDE DEF slot, k
<1>3. s \in DestroySlots(b.m, slots)
  OBVIOUS
<1> HIDE DEF slots
<1>4. CASE Torn
  <2>1. b.m = mem /\ b.dead = FALSE
    BY <1>0, <1>1, <1>4, DestroyNothingFacts
  <2>2. s.m = mem
    BY <1>0, <1>3, <1>4, <2>1, DestroySlotsFacts DEF Emptied
  <2>3. mem' = mem
    BY <2>2
  <2> QED
    BY <1>0, <1>4, <2>1, <2>3, MemTypesFacts DEF MemInv, Torn
<1>5. CASE ~Torn
  <2>1. /\ b.m \in Memory /\ b.dead = FALSE
        /\ dev[d].block => Moved(mem, b.m, -1, -1)
        /\ ~dev[d].block => b.m = mem
    <3>1. \A x \in destroyOverlayBuffer(mem, slot, FALSE) :
            /\ x \in Remains
            /\ slot = "held" => Moved(mem, x.m, -Size(FALSE), -1)
            /\ slot # "held" => x.m = mem
            /\ slot \in {"held", "null"} => x.dead = FALSE
      BY <1>0, <1>5, DestroyOverlayFacts
    <3>2. -Size(FALSE) = -1
      BY DEF Size
    <3> QED
      BY <1>1, <3>1, <3>2 DEF Remains
  <2>2. Emptied(b.m, slots, s, BufferNum)
    BY <1>0, <1>3, <1>5, <2>1, DestroySlotsFacts
  <2>3. Moved(b.m, s.m, 0 - 2 * k, 0 - k)
    <3>1. k = IF BufferNum < k THEN BufferNum ELSE k
      BY <1>2
    <3> QED
      BY <1>0, <1>2, <1>5, <2>2, <3>1 DEF Emptied
  <2>4. s.dead => mem.refused > 0
    <3>1. CASE dev[d].state = "ready"
      <4>1. \A i \in Slots : slots[i] \in {"held", "null"}
        BY <1>0, <3>1 DEF HeldUpTo, Slots, k
      <4> QED
        BY <2>2, <4>1 DEF Emptied
    <3>2. CASE dev[d].state = "failed"
      BY <1>5, <3>2 DEF OvInv, DevInv, DevOk
    <3> QED
      BY <3>1, <3>2
  <2> DEFINE blocks == IF dev[d].block THEN 1 ELSE 0
  <2>5. /\ mem' \in Memory /\ mem'.refused >= mem.refused /\ mem'.causes = mem.causes
        /\ mem'.alloc = mem.alloc - blocks - 2 * k /\ mem'.mapped = mem.mapped - blocks - k
    <3>1. CASE dev[d].block
      BY <1>0, <1>2, <2>1, <2>3, <3>1, RefusedAssumption DEF Moved, Memory
    <3>2. CASE ~dev[d].block
      BY <1>0, <1>2, <2>1, <2>3, <3>2, RefusedAssumption DEF Moved, Memory
    <3> QED
      BY <3>1, <3>2
  <2>6. Blocks' = Blocks \ {d} /\ Ready' = Ready \ {d}
    BY <1>0 DEF Blocks, Ready, Closed
  <2>7. Cardinality(Blocks') = Cardinality(Blocks) - blocks
    <3>1. d \in Blocks <=> dev[d].block
      BY DEF Blocks
    <3>2. Cardinality(Blocks \ {d}) = IF d \in Blocks THEN Cardinality(Blocks) - 1 ELSE Cardinality(Blocks)
      BY Finite, FS_RemoveElement
    <3>3. Cardinality(Blocks) \in Nat
      BY Finite
    <3> QED
      BY <2>6, <3>1, <3>2, <3>3
  <2>8. Cardinality(Ready') = Cardinality(Ready) - (IF dev[d].state = "ready" THEN 1 ELSE 0)
    <3>1. d \in Ready <=> dev[d].state = "ready"
      BY DEF Ready
    <3>2. Cardinality(Ready \ {d}) = IF d \in Ready THEN Cardinality(Ready) - 1 ELSE Cardinality(Ready)
      BY Finite, FS_RemoveElement
    <3>3. Cardinality(Ready) \in Nat
      BY Finite
    <3> QED
      BY <2>6, <3>1, <3>2, <3>3
  <2> DEFINE n == Cardinality(Ready)
             r == Cardinality(Ready')
             c == Cardinality(Blocks')
  <2>9. n \in Nat /\ r \in Nat /\ c \in Nat /\ Cardinality(Blocks) \in Nat /\ blocks \in Nat
    <3>1. IsFiniteSet(Ready') /\ IsFiniteSet(Blocks')
      BY <2>6, Finite, FS_RemoveElement
    <3> QED
      BY <3>1, Finite, FS_CardinalityType
  <2>10. /\ mem.alloc = Cardinality(Blocks) + 2 * (BufferNum * n)
         /\ mem.mapped = Cardinality(Blocks) + BufferNum * n
    BY <1>5 DEF OvInv, MemInv
  <2>11. BufferNum * n = BufferNum * r + k /\ BufferNum * n \in Nat /\ BufferNum * r \in Nat
    <3>1. CASE dev[d].state = "ready"
      <4>1. n = r + 1 /\ k = BufferNum
        BY <2>8, <2>9, <3>1 DEF k
      <4> HIDE DEF n, r
      <4> QED
        BY <2>9, <4>1
    <3>2. CASE dev[d].state # "ready"
      <4>1. n = r /\ k = 0
        BY <2>8, <2>9, <3>2 DEF k
      <4> HIDE DEF n, r
      <4> QED
        BY <2>9, <4>1
    <3> QED
      BY <3>1, <3>2
  <2> HIDE DEF n, blocks
  <2>12. /\ mem'.alloc = c + 2 * (BufferNum * r)
         /\ mem'.mapped = c + BufferNum * r
    <3>1. c = Cardinality(Blocks) - blocks
      BY <2>7
    <3> HIDE DEF c, r
    <3> QED
      BY <1>2, <2>5, <2>9, <2>10, <2>11, <3>1
  <2>13. mem' \in MemTypes
    <3>1. mem'.alloc \in Nat /\ mem'.mapped \in Nat
      <4> HIDE DEF c, r
      <4> QED
        BY <2>9, <2>11, <2>12
    <3> QED
      BY <2>5, <3>1 DEF Memory, MemTypes
  <2>14. MemInv'
    BY <2>12 DEF MemInv
  <2>15. s.dead => mem'.refused > 0
    BY <1>0, <2>4, <2>5, RefusedAssumption DEF Memory
  <2> QED
    BY <2>1, <2>5, <2>13, <2>14, <2>15
<1> QED
  BY <1>4, <1>5

LEMMA CloseDataKeeps ==
  ASSUME OvInv, down = FALSE, NEW d \in Devs, CloseData(d)
  PROVE  OvInv'
<1> DEFINE regs == resetOverlay(d, ctx.mode)
<1>0. /\ Types /\ TypeReg /\ mem \in MemTypes /\ mem \in Memory /\ HalInv /\ dev \in [Devs -> DevTypes]
      /\ dev[d].state \in {"ready", "failed"} /\ ctx.mode \in Modes
      /\ \A t \in Threads[d] : thr[d][t].at \in {"idle", "holds"}
      /\ UNCHANGED <<hal, pool, ctx, ctl, plug>>
  BY MemTypesFacts DEF OvInv, Types, TypeMem, TypeDev, TypeCtx, CtxTypes, CloseData
<1>1. (~Torn => HalUp /\ ctl.open) /\ (Torn => HalDown)
  BY <1>0, HalUpOrDown DEF Types
<1>2. PICK b \in destroyOverlayBuffer(mem, IF dev[d].block THEN "held" ELSE "null", FALSE) :
        \E s \in DestroySlots(b.m, dev[d].slots) :
          mem' = s.m /\ down' = (Unmapped(d) \/ b.dead \/ s.dead)
  BY DEF CloseData
<1>3. PICK s \in DestroySlots(b.m, dev[d].slots) :
        mem' = s.m /\ down' = (Unmapped(d) \/ b.dead \/ s.dead)
  BY <1>2
<1>4. /\ ovadd' = [o \in Overlays |-> IF regs[o].dev = d THEN [regs[o] EXCEPT !.dev = None] ELSE regs[o]]
      /\ dev' = [dev EXCEPT ![d] = Closed]
      /\ thr' = [thr EXCEPT ![d] = [t \in Threads[d] |-> Idle]]
  BY DEF CloseData
<1>5. /\ mem' \in MemTypes /\ mem'.refused >= mem.refused /\ mem'.causes = mem.causes
      /\ MemInv'
      /\ b.dead = FALSE
      /\ s.dead /\ ~Torn => mem'.refused > 0
  BY <1>0, <1>3, <1>4, CloseDataMemory
<1>6. /\ regs \in [Overlays -> RegTypes]
      /\ \A o \in Overlays : /\ regs[o] = ovadd[o] \/ regs[o] = Off
                             /\ dev[d].block /\ hal.drm /\ o \in Shown(ctx.mode) => regs[o] = Off
  BY <1>0, ResetFacts
<1> HIDE DEF regs
<1>7. /\ dev' \in [Devs -> DevTypes] /\ dev'[d] = Closed /\ \A c \in Devs \ {d} : dev'[c] = dev[c]
  <2>1. Closed \in DevTypes
    BY DEF Closed, DevTypes, Contents, Overlays
  <2> QED
    BY <1>0, <1>4, <2>1
<1>8. /\ DOMAIN thr' = Devs /\ thr'[d] = [t \in Threads[d] |-> Idle]
      /\ \A c \in Devs \ {d} : thr'[c] = thr[c]
  BY <1>0, <1>4 DEF Types, TypeThr
<1>9. TypeThr'
  <2>1. Idle \in ThrTypes
    BY DEF Idle, ThrTypes, Modes
  <2>2. thr'[d] \in [Threads[d] -> ThrTypes]
    BY <1>8, <2>1
  <2> QED
    BY <1>0, <1>8, <2>2 DEF Types, TypeThr
<1>10. ovadd' \in [Overlays -> RegTypes]
  <2> SUFFICES ASSUME NEW o \in Overlays
               PROVE  (IF regs[o].dev = d THEN [regs[o] EXCEPT !.dev = None] ELSE regs[o]) \in RegTypes
    BY <1>4
  <2> QED
    BY <1>6 DEF RegTypes
<1>11. down' \in BOOLEAN
  BY <1>3
<1>12. Types'
  BY <1>0, <1>5, <1>7, <1>9, <1>10, <1>11
     DEF Types, TypeHal, TypeCtx, TypeCtl, TypeDev, TypeMem, TypeReg, TypeRest
<1>13. (Torn' <=> Torn) /\ (Drift' <=> Drift) /\ mem' \in Memory
  BY <1>5, MemTypesFacts DEF Torn, Drift
<1>14. HalInv'
  <2>1. mem.refused > 0 => mem'.refused > 0
    BY <1>0, <1>5, <1>13, RefusedAssumption DEF Memory
  <2>2. \A c \in Devs : dev'[c].state # "closed" => dev[c].state # "closed"
    BY <1>7 DEF Closed
  <2> QED
    BY <1>0, <1>13, <2>1, <2>2 DEF HalInv
<1>15. DevInv'
  <2>1. DevOk(d)'
    <3>1. HeldUpTo(Closed.slots, 0)
      BY BufferAssumption DEF HeldUpTo, Closed, Slots
    <3> QED
      BY <1>7, <3>1 DEF DevOk, Closed
  <2>2. ASSUME NEW c \in Devs \ {d} PROVE DevOk(c)'
    BY <1>0, <1>5, <1>7, <1>13, DevOkKept DEF OvInv, DevInv
  <2> QED
    BY <2>1, <2>2 DEF DevInv
<1>16. ThreadInv'
  <2>1. ThreadOk(d)'
    <3>1. dev'[d].state # "ready"
      BY <1>7 DEF Closed
    <3> QED
      BY <1>8, <3>1, ThreadOkIdle
  <2>2. ASSUME NEW c \in Devs \ {d} PROVE ThreadOk(c)'
    BY <1>7, <1>8, ThreadOkKept DEF OvInv, ThreadInv
  <2> QED
    BY <2>1, <2>2 DEF ThreadInv
<1>17. DeadInv'
  <2>1. CASE mem'.refused > 0 \/ Torn
    BY <1>13, <2>1, DeadOfRefusal DEF DeadInv
  <2>2. CASE ~ (mem'.refused > 0) /\ ~Torn
    <3>1. ~ (mem.refused > 0)
      BY <1>0, <1>5, <1>13, <2>2, RefusedAssumption DEF Memory
    <3>2. hal.ctx
      BY <1>0, <1>1, <2>2, <3>1 DEF HalInv
    <3>3. ~down'
      BY <1>3, <1>5, <2>2, <3>2 DEF Unmapped
    <3> QED
      BY <3>3 DEF DeadInv
  <2> QED
    BY <2>1, <2>2
<1>18. LitInv'
  <2> SUFFICES ASSUME ~Torn, ~Drift, NEW o \in Overlays, ovadd'[o].on
               PROVE  InPlace(o)' \/ Doomed(o)'
    BY <1>13 DEF LitInv, LitOk
  <2>1. regs[o].on
    BY <1>4, <1>6 DEF RegTypes
  <2>2. regs[o] = ovadd[o] /\ ~ (dev[d].block /\ o \in Shown(ctx.mode))
    BY <1>1, <1>6, <2>1 DEF Off, HalUp
  <2>3. InPlace(o) \/ Doomed(o)
    BY <2>1, <2>2 DEF OvInv, LitInv, LitOk
  <2>4. CASE InPlace(o)
    <3>1. ovadd[o].dev # d
      BY <2>2, <2>4 DEF InPlace
    <3>2. ovadd'[o] = ovadd[o] /\ ctx' = ctx
      BY <1>0, <1>4, <2>2, <3>1
    <3>3. ovadd[o].dev \in Devs \ {d}
      BY <2>4, <3>1 DEF InPlace, Ready
    <3>4. InPlace(o)'
      BY <1>7, <2>4, <3>2, <3>3 DEF InPlace, Ready
    <3> QED
      BY <3>4
  <2>5. CASE Doomed(o)
    <3>1. PICK e \in Devs : \E t \in Threads[e] : thr[e][t].at = "switching" /\ o \in Darkened(thr[e][t].old)
      BY <2>5 DEF Doomed
    <3>2. e # d
      BY <1>0, <3>1
    <3>3. thr'[e] = thr[e]
      BY <1>8, <3>2
    <3>4. Doomed(o)'
      BY <3>1, <3>3 DEF Doomed
    <3> QED
      BY <3>4
  <2> QED
    BY <2>3, <2>4, <2>5
<1> QED
  BY <1>5, <1>12, <1>14, <1>15, <1>16, <1>17, <1>18 DEF OvInv

LEMMA ResetOverlayKeeps ==
  ASSUME OvInv, NEW d \in Devs, ResetOverlay(d)
  PROVE  OvInv'
<1>0. /\ Types /\ TypeReg /\ HalInv /\ ctx.mode \in Modes /\ dev[d].state = "ready"
      /\ UNCHANGED <<hal, pool, ctx, ctl, dev, thr, mem, plug>>
      /\ ovadd' = resetOverlay(d, ctx.mode) /\ down' = Unmapped(d)
  BY DEF OvInv, Types, TypeCtx, CtxTypes, ResetOverlay
<1>1. /\ ovadd' \in [Overlays -> RegTypes]
      /\ \A o \in Overlays : ovadd'[o] = ovadd[o] \/ ~ovadd'[o].on
  <2>1. Off.on = FALSE
    BY DEF Off
  <2> QED
    BY <1>0, <2>1, ResetFacts
<1>2. down' \in BOOLEAN
  BY <1>0 DEF Unmapped
<1>3. Types'
  BY <1>0, <1>1, <1>2 DEF Types, TypeHal, TypeCtx, TypeCtl, TypeDev, TypeThr, TypeMem, TypeReg, TypeRest
<1>4. HalInv'
  BY <1>0 DEF HalInv, Torn
<1>5. DevInv' /\ ThreadInv' /\ MemInv'
  BY <1>0, Untouched DEF OvInv
<1>6. DeadInv'
  <2>1. CASE Torn
    BY <1>0, <2>1 DEF DeadInv, Torn
  <2>2. CASE ~Torn
    <3>1. ~hal.ctx => mem.refused > 0
      BY <1>0, <2>2 DEF HalInv
    <3>2. down' => mem'.refused > 0
      BY <1>0, <3>1 DEF Unmapped
    <3> QED
      BY <3>2 DEF DeadInv, DeathHasCause
  <2> QED
    BY <2>1, <2>2
<1>7. LitInv'
  BY <1>0, <1>1, LitKept DEF OvInv, Torn, Drift, Ready
<1> QED
  BY <1>3, <1>4, <1>5, <1>6, <1>7 DEF OvInv

LEMMA NotifyHdmiKeeps ==
  ASSUME OvInv, down = FALSE, NEW d \in Devs, NotifyHdmi(d)
  PROVE  OvInv'
<1>1. UNCHANGED <<pool, ctx, ctl, dev, thr, mem, ovadd, plug, down>> /\ hal' = [hal EXCEPT !.changed = TRUE]
  BY DEF NotifyHdmi
<1>2. /\ hal' \in HalTypes
      /\ hal'.drm = hal.drm /\ hal'.video = hal.video /\ hal'.pvr2d = hal.pvr2d /\ hal'.ctx = hal.ctx
  BY <1>1 DEF OvInv, Types, TypeHal, HalTypes
<1>3. Types'
  BY <1>1, <1>2 DEF OvInv, Types, TypeHal, TypeCtx, TypeCtl, TypeDev, TypeThr, TypeMem, TypeReg, TypeRest
<1>4. HalInv'
  BY <1>1, <1>2 DEF OvInv, HalInv, Torn
<1>5. DevInv' /\ ThreadInv' /\ MemInv' /\ LitInv'
  BY <1>1, Untouched, LitUntouched DEF OvInv
<1> QED
  BY <1>1, <1>3, <1>4, <1>5, DeadWhenAlive DEF OvInv

-----------------------------------------------------------------------------
(* The threads of one device: what changes when one of them does.           *)

OfThreads(f) == DOMAIN f = Devs /\ \A d \in Devs : f[d] \in [Threads[d] -> ThrTypes]

\* From f to g only thread t of d changed, to r.
Changed(f, g, d, t, r) ==
  /\ OfThreads(g) /\ g[d][t] = r
  /\ \A u \in Threads[d] \ {t} : g[d][u] = f[d][u]
  /\ \A c \in Devs \ {d} : g[c] = f[c]

LEMMA ChangedTo ==
  ASSUME NEW f, OfThreads(f), NEW d \in Devs, NEW t \in Threads[d], NEW r \in ThrTypes
  PROVE  Changed(f, [f EXCEPT ![d][t] = r], d, t, r)
BY DEF Changed, OfThreads

Places == {"idle", "asleep", "woken", "holds", "switching", "showing"}

LEMMA ChangedAt ==
  ASSUME NEW f, OfThreads(f), NEW d \in Devs, NEW t \in Threads[d],
         NEW place \in Places
  PROVE  \E r \in ThrTypes : /\ Changed(f, [f EXCEPT ![d][t].at = place], d, t, r)
                             /\ r.at = place /\ r.old = f[d][t].old /\ r.own = f[d][t].own
<1> DEFINE r == [f[d][t] EXCEPT !.at = place]
<1>1. f[d][t] \in ThrTypes
  BY DEF OfThreads
<1>2. r \in ThrTypes /\ r.at = place /\ r.old = f[d][t].old /\ r.own = f[d][t].own
  BY <1>1 DEF ThrTypes, Places
<1>3. [f EXCEPT ![d][t].at = place] = [f EXCEPT ![d][t] = r]
  OBVIOUS
<1> HIDE DEF r
<1>4. Changed(f, [f EXCEPT ![d][t].at = place], d, t, r)
  BY <1>2, <1>3, ChangedTo
<1> QED
  BY <1>2, <1>4

LEMMA ChangedOwn ==
  ASSUME NEW f, OfThreads(f), NEW d \in Devs, NEW t \in Threads[d]
  PROVE  \E r \in ThrTypes : /\ Changed(f, [f EXCEPT ![d][t].own = TRUE], d, t, r)
                             /\ r.at = f[d][t].at /\ r.own = TRUE
<1> DEFINE r == [f[d][t] EXCEPT !.own = TRUE]
<1>1. f[d][t] \in ThrTypes
  BY DEF OfThreads
<1>2. r \in ThrTypes /\ r.at = f[d][t].at /\ r.own = TRUE
  BY <1>1 DEF ThrTypes
<1>3. [f EXCEPT ![d][t].own = TRUE] = [f EXCEPT ![d][t] = r]
  OBVIOUS
<1> HIDE DEF r
<1>4. Changed(f, [f EXCEPT ![d][t].own = TRUE], d, t, r)
  BY <1>2, <1>3, ChangedTo
<1> QED
  BY <1>2, <1>4

LEMMA ChangedOld ==
  ASSUME NEW f, OfThreads(f), NEW d \in Devs, NEW t \in Threads[d]
  PROVE  \E r \in ThrTypes : /\ Changed(f, [f EXCEPT ![d][t].old = "none"], d, t, r)
                             /\ r.at = f[d][t].at /\ r.own = f[d][t].own
<1> DEFINE r == [f[d][t] EXCEPT !.old = "none"]
<1>1. f[d][t] \in ThrTypes
  BY DEF OfThreads
<1>2. r \in ThrTypes /\ r.at = f[d][t].at /\ r.own = f[d][t].own
  BY <1>1 DEF ThrTypes, Modes
<1>3. [f EXCEPT ![d][t].old = "none"] = [f EXCEPT ![d][t] = r]
  OBVIOUS
<1> HIDE DEF r
<1>4. Changed(f, [f EXCEPT ![d][t].old = "none"], d, t, r)
  BY <1>2, <1>3, ChangedTo
<1> QED
  BY <1>2, <1>4

LEMMA ChangedTwice ==
  ASSUME NEW f, NEW g, NEW h, NEW d \in Devs, NEW t \in Threads[d], NEW q, NEW r,
         Changed(f, g, d, t, q), Changed(g, h, d, t, r)
  PROVE  Changed(f, h, d, t, r)
BY DEF Changed

\* A thread that takes a buffer is one more owner, and wakes who is asleep in time.
LEMMA ThreadTakes ==
  ASSUME NEW d \in Devs, NEW t \in Threads[d], NEW r, ThreadOk(d), Changed(thr, thr', d, t, r),
         r.at = "holds", r.own = TRUE, thr[d][t].at \in {"idle", "woken"},
         dev[d].state = "ready", dev'[d].state = "ready", dev'[d].count = dev[d].count - 1
  PROVE  ThreadOk(d)'
<1>1. t \notin Owners(d) /\ Owners(d)' = Owners(d) \cup {t}
  BY DEF Owners, Changed
<1>2. Cardinality(Owners(d)') = Cardinality(Owners(d)) + 1
  BY <1>1, Finite, FS_AddElement
<1>3. dev'[d].count = BufferNum - Cardinality(Owners(d)')
  BY <1>2, Finite, BufferAssumption DEF ThreadOk
<1>4. \A u \in Threads[d] : thr'[d][u].at = "holds" => thr'[d][u].own
  BY DEF ThreadOk, Changed
<1> QED
  BY <1>1, <1>3, <1>4 DEF ThreadOk

\* One that goes on with what it has changes nothing for the others.
LEMMA ThreadGoesOn ==
  ASSUME NEW d \in Devs, NEW t \in Threads[d], NEW r, ThreadOk(d), Changed(thr, thr', d, t, r),
         r.at \in {"switching", "showing"}, r.own <=> t \in Owners(d), thr[d][t].at \notin {"asleep", "woken"},
         dev[d].state = "ready", dev'[d] = dev[d]
  PROVE  ThreadOk(d)'
<1>1. Owners(d)' = Owners(d)
  BY DEF Owners, Changed
<1>2. \A u \in Threads[d] : /\ thr'[d][u].at = "holds" => thr[d][u].at = "holds" /\ thr'[d][u] = thr[d][u]
                            /\ thr'[d][u].at = "asleep" => thr[d][u].at = "asleep"
                            /\ thr[d][u].at = "woken" => thr'[d][u].at = "woken"
  BY DEF Changed
<1> QED
  BY <1>1, <1>2 DEF ThreadOk

\* An overlay that a thread will turn off still will be when another goes on.
LEMMA DoomedKept ==
  ASSUME NEW d \in Devs, NEW t \in Threads[d], NEW r, Changed(thr, thr', d, t, r), thr[d][t].at # "switching",
         NEW o, Doomed(o)
  PROVE  Doomed(o)'
<1>1. PICK e \in Devs : \E u \in Threads[e] : thr[e][u].at = "switching" /\ o \in Darkened(thr[e][u].old)
  BY DEF Doomed
<1>2. PICK u \in Threads[e] : thr[e][u].at = "switching" /\ o \in Darkened(thr[e][u].old)
  BY <1>1
<1>3. thr'[e][u] = thr[e][u]
  BY <1>2 DEF Changed
<1> QED
  BY <1>2, <1>3 DEF Doomed

LEMMA OthersThreadsKept ==
  ASSUME ThreadInv, NEW d \in Devs, NEW t \in Threads[d], NEW r, Changed(thr, thr', d, t, r), ThreadOk(d)',
         \A c \in Devs \ {d} : dev'[c] = dev[c]
  PROVE  ThreadInv' /\ TypeThr'
<1>1. ASSUME NEW c \in Devs \ {d} PROVE ThreadOk(c)'
  BY ThreadOkKept DEF ThreadInv, Changed
<1>2. TypeThr'
  BY DEF Changed, OfThreads, TypeThr
<1> QED
  BY <1>1, <1>2 DEF ThreadInv

\* A thread that is doing something has a device that is ready.
LEMMA BusyFacts ==
  ASSUME OvInv, NEW d \in Devs, NEW t \in Threads[d], thr[d][t].at # "idle" \/ dev[d].state = "ready"
  PROVE  /\ dev[d].state = "ready" /\ ThreadOk(d) /\ OfThreads(thr) /\ dev \in [Devs -> DevTypes]
         /\ ~Torn => HalUp /\ ctl.open
         /\ ~Torn /\ (~hal.ctx \/ ~dev[d].block \/ pool # "live") => mem.refused > 0
<1>1. dev[d].state = "ready" /\ ThreadOk(d) /\ OfThreads(thr) /\ dev \in [Devs -> DevTypes]
  BY DEF OvInv, ThreadInv, ThreadOk, Idle, Types, TypeThr, TypeDev, OfThreads
<1>2. ~Torn => HalUp /\ ctl.open
  BY <1>1, HalUpOrDown DEF OvInv, Types
<1>3. ~Torn /\ (~hal.ctx \/ ~dev[d].block \/ pool # "live") => mem.refused > 0
  BY <1>1, <1>2 DEF OvInv, HalInv, DevInv, DevOk
<1> QED
  BY <1>1, <1>2, <1>3

LEMMA SeenFacts ==
  ASSUME TypeHal, HalInv, hal' = [hal EXCEPT !.changed = FALSE], UNCHANGED <<pool, ctl, dev, mem>>
  PROVE  TypeHal' /\ HalInv'
<1>1. /\ hal' \in HalTypes
      /\ hal'.drm = hal.drm /\ hal'.video = hal.video /\ hal'.pvr2d = hal.pvr2d /\ hal'.ctx = hal.ctx
  BY DEF TypeHal, HalTypes
<1> QED
  BY <1>1 DEF TypeHal, HalInv, Torn

-----------------------------------------------------------------------------
(* Taking a buffer.                                                         *)

LEMMA TakeBufferKeeps ==
  ASSUME OvInv, down = FALSE, NEW d \in Devs, NEW t \in Threads[d], getBuffer(d, t),
         dev[d].state = "ready", thr[d][t].at \in {"idle", "woken"},
         UNCHANGED <<hal, pool, ctx, ctl, mem, ovadd, plug, down>>
  PROVE  OvInv'
<1>0. Types /\ OfThreads(thr) /\ ThreadOk(d) /\ dev \in [Devs -> DevTypes] /\ mem \in Memory
  BY BusyFacts, MemTypesFacts DEF OvInv, Types, TypeMem
<1>1. \E r : Changed(thr, thr', d, t, r) /\ r.at = "holds" /\ r.own = TRUE
  <2> DEFINE g == [thr EXCEPT ![d][t].at = "holds"]
  <2>1. PICK q \in ThrTypes : Changed(thr, g, d, t, q) /\ q.at = "holds"
    <3>1. "holds" \in Places
      BY DEF Places
    <3> QED
      BY <1>0, <3>1, ChangedAt
  <2>2. OfThreads(g) /\ g[d][t].at = "holds"
    BY <2>1 DEF Changed
  <2>3. thr' = [g EXCEPT ![d][t].own = TRUE]
    BY DEF getBuffer, At
  <2> HIDE DEF g
  <2>4. PICK r \in ThrTypes : Changed(g, thr', d, t, r) /\ r.at = "holds" /\ r.own = TRUE
    BY <2>2, <2>3, ChangedOwn
  <2> QED
    BY <2>1, <2>4, ChangedTwice
<1>2. PICK r : Changed(thr, thr', d, t, r) /\ r.at = "holds" /\ r.own = TRUE
  BY <1>1
<1>3. /\ dev' \in [Devs -> DevTypes] /\ dev'[d].count = dev[d].count - 1
      /\ dev'[d].state = dev[d].state /\ dev'[d].block = dev[d].block /\ dev'[d].slots = dev[d].slots
      /\ \A c \in Devs \ {d} : dev'[c] = dev[c]
  BY <1>0 DEF getBuffer, DevTypes
<1>4. ThreadOk(d)'
  BY <1>0, <1>2, <1>3, ThreadTakes
<1>5. ThreadInv' /\ TypeThr'
  BY <1>2, <1>3, <1>4, OthersThreadsKept DEF OvInv
<1>6. Types'
  BY <1>0, <1>3, <1>5 DEF Types, TypeHal, TypeCtx, TypeCtl, TypeDev, TypeMem, TypeReg, TypeRest
<1>7. HalInv'
  <2>1. \A c \in Devs : dev'[c].state = dev[c].state
    BY <1>3
  <2> QED
    BY <2>1 DEF OvInv, HalInv, Torn
<1>8. DevInv'
  <2>1. \A c \in Devs : dev'[c].state = dev[c].state /\ dev'[c].block = dev[c].block /\ dev'[c].slots = dev[c].slots
    BY <1>3
  <2> QED
    BY <2>1 DEF OvInv, DevInv, DevOk, Torn
<1>9. Ready' = Ready /\ Blocks' = Blocks /\ \A c \in Devs : dev'[c].block = dev[c].block
  BY <1>3 DEF Ready, Blocks
<1>10. MemInv'
  BY <1>9 DEF OvInv, MemInv, Torn
<1>11. LitInv'
  <2> SUFFICES ASSUME ~Torn, ~Drift, NEW o \in Overlays, ovadd[o].on
               PROVE  InPlace(o)' \/ Doomed(o)'
    BY DEF LitInv, LitOk, Torn, Drift
  <2>1. InPlace(o) \/ Doomed(o)
    BY DEF OvInv, LitInv, LitOk
  <2>2. InPlace(o) => InPlace(o)'
    BY <1>9 DEF InPlace, Ready
  <2>3. Doomed(o) => Doomed(o)'
    BY <1>2, DoomedKept
  <2> QED
    BY <2>1, <2>2, <2>3
<1> QED
  BY <1>5, <1>6, <1>7, <1>8, <1>10, <1>11, DeadWhenAlive DEF OvInv

LEMMA DequeueKeeps ==
  ASSUME OvInv, down = FALSE, NEW d \in Devs, NEW t \in Threads[d], Dequeue(d, t)
  PROVE  OvInv'
<1>0. /\ dev[d].state = "ready" /\ thr[d][t].at = "idle"
      /\ UNCHANGED <<hal, pool, ctx, ctl, mem, ovadd, plug, down>>
  BY DEF Dequeue
<1>1. CASE ~ (dev[d].count <= 0)
  BY <1>0, <1>1, TakeBufferKeeps DEF Dequeue
<1>2. CASE dev[d].count <= 0
  <2>0. Types /\ OfThreads(thr) /\ ThreadOk(d) /\ dev' = dev
    BY <1>0, <1>2, BusyFacts DEF OvInv, Dequeue
  <2>1. thr' = [thr EXCEPT ![d][t].at = "asleep"]
    BY <1>2 DEF Dequeue, At
  <2>2. PICK r \in ThrTypes : Changed(thr, thr', d, t, r) /\ r.at = "asleep"
    <3>1. "asleep" \in Places
      BY DEF Places
    <3> DEFINE g == [thr EXCEPT ![d][t].at = "asleep"]
    <3>2. \E r \in ThrTypes : Changed(thr, g, d, t, r) /\ r.at = "asleep"
      BY <2>0, <3>1, ChangedAt
    <3> QED
      BY <2>1, <3>2
  <2>3. Owners(d)' = Owners(d)
    BY <1>0, <2>2 DEF Owners, Changed
  <2>4. Owners(d) # {}
    <3>1. CASE Owners(d) = {}
      <4>1. Cardinality(Owners(d)) = 0
        BY <3>1, FS_EmptySet
      <4>2. dev[d].count = BufferNum
        BY <1>0, <2>0, <4>1, BufferAssumption DEF ThreadOk
      <4> QED
        BY <1>2, <4>2, BufferAssumption
    <3> QED
      BY <3>1
  <2>5. ThreadOk(d)'
    <3>1. \A u \in Threads[d] : thr'[d][u].at = "holds" => thr'[d][u].own
      BY <2>0, <2>2 DEF ThreadOk, Changed
    <3>2. \E u \in Threads[d] : u \in Owners(d)'
      BY <2>3, <2>4 DEF Owners
    <3> QED
      BY <1>0, <2>0, <2>3, <3>1, <3>2 DEF ThreadOk
  <2>6. ThreadInv' /\ TypeThr'
    BY <2>0, <2>2, <2>5, OthersThreadsKept DEF OvInv
  <2>7. Types'
    BY <1>0, <2>0, <2>6 DEF Types, TypeHal, TypeCtx, TypeCtl, TypeDev, TypeMem, TypeReg, TypeRest
  <2>8. HalInv' /\ DevInv' /\ MemInv'
    BY <1>0, <2>0 DEF OvInv, HalInv, DevInv, DevOk, HeldUpTo, MemInv, Torn, Ready, Blocks
  <2>9. LitInv'
    <3> SUFFICES ASSUME ~Torn, ~Drift, NEW o \in Overlays, ovadd[o].on
                 PROVE  InPlace(o)' \/ Doomed(o)'
      BY <1>0 DEF LitInv, LitOk, Torn, Drift
    <3>1. InPlace(o) \/ Doomed(o)
      BY DEF OvInv, LitInv, LitOk
    <3>2. InPlace(o) => InPlace(o)'
      BY <1>0, <2>0 DEF InPlace, Ready
    <3>3. Doomed(o) => Doomed(o)'
      BY <1>0, <2>2, DoomedKept
    <3> QED
      BY <3>1, <3>2, <3>3
  <2> QED
    BY <1>0, <2>6, <2>7, <2>8, <2>9, DeadWhenAlive DEF OvInv
<1> QED
  BY <1>1, <1>2

LEMMA WakeKeeps ==
  ASSUME OvInv, down = FALSE, NEW d \in Devs, NEW t \in Threads[d], Wake(d, t)
  PROVE  OvInv'
<1>1. /\ getBuffer(d, t) /\ thr[d][t].at = "woken"
      /\ UNCHANGED <<hal, pool, ctx, ctl, mem, ovadd, plug, down>>
  BY DEF Wake
<1> QED
  BY <1>1, BusyFacts, TakeBufferKeeps

-----------------------------------------------------------------------------
(* Showing a picture.                                                       *)

\* A thread goes on to show its picture in the mode that is, or to switch to a new one.
LEMMA GoesOnKeeps ==
  ASSUME OvInv, down = FALSE, NEW d \in Devs, NEW t \in Threads[d], NEW own \in BOOLEAN, NEW r \in ThrTypes,
         thr[d][t].at \in {"idle", "holds"}, dev[d].state = "ready", own <=> t \in Owners(d),
         thr' = [thr EXCEPT ![d][t] = r], r.own = own, ctx' \in CtxTypes,
         hal' = hal \/ hal' = [hal EXCEPT !.changed = FALSE],
         \/ r.at = "showing" /\ ctx'.mode = ctx.mode
         \/ r.at = "switching" /\ r.old = ctx.mode,
         UNCHANGED <<pool, ctl, dev, mem, ovadd, plug, down>>
  PROVE  OvInv'
<1>0. Types /\ OfThreads(thr) /\ ThreadOk(d)
  BY BusyFacts DEF OvInv
<1>1. Changed(thr, thr', d, t, r)
  BY <1>0, ChangedTo
<1>2. ThreadOk(d)'
  BY <1>0, <1>1, ThreadGoesOn
<1>3. ThreadInv' /\ TypeThr'
  BY <1>1, <1>2, OthersThreadsKept DEF OvInv
<1>4. TypeHal' /\ HalInv'
  <2>1. CASE hal' = hal
    BY <2>1 DEF OvInv, Types, TypeHal, HalInv, Torn
  <2>2. CASE hal' = [hal EXCEPT !.changed = FALSE]
    BY <2>2, SeenFacts DEF OvInv, Types
  <2> QED
    BY <2>1, <2>2
<1>5. Types'
  BY <1>0, <1>3, <1>4 DEF Types, TypeCtx, TypeCtl, TypeDev, TypeMem, TypeReg, TypeRest
<1>6. DevInv' /\ MemInv'
  BY DEF OvInv, DevInv, DevOk, HeldUpTo, MemInv, Torn, Ready, Blocks
<1>7. LitInv'
  <2> SUFFICES ASSUME ~Torn, ~Drift, NEW o \in Overlays, ovadd[o].on
               PROVE  InPlace(o)' \/ Doomed(o)'
    BY DEF LitInv, LitOk, Torn, Drift
  <2>1. InPlace(o) \/ Doomed(o)
    BY DEF OvInv, LitInv, LitOk
  <2>2. CASE Doomed(o)
    <3>1. Doomed(o)'
      BY <1>1, <2>2, DoomedKept
    <3> QED
      BY <3>1
  <2>3. CASE InPlace(o) /\ ctx'.mode = ctx.mode
    BY <2>3 DEF InPlace, Ready
  <2>4. CASE InPlace(o) /\ r.at = "switching" /\ r.old = ctx.mode
    <3>1. o \in Darkened(ctx.mode)
      BY <2>4 DEF InPlace, Shown, Darkened, Overlays
    <3>2. thr'[d][t] = r
      BY <1>1 DEF Changed
    <3>3. Doomed(o)'
      BY <2>4, <3>1, <3>2 DEF Doomed, Darkened
    <3> QED
      BY <3>3
  <2> QED
    BY <2>1, <2>2, <2>3, <2>4
<1> QED
  BY <1>3, <1>4, <1>5, <1>6, <1>7, DeadWhenAlive DEF OvInv

\* The process dies, and nothing else changes, where the code would.
LEMMA DiesKeeps ==
  ASSUME OvInv, NEW d \in Devs, dev[d].state = "ready",
         down' = TRUE, UNCHANGED <<hal, pool, ctx, ctl, dev, thr, mem, ovadd, plug>>,
         ~Torn => mem.refused > 0 \/ Nowhere(d)
  PROVE  OvInv'
<1>1. Types'
  BY DEF OvInv, Types, TypeHal, TypeCtx, TypeCtl, TypeDev, TypeThr, TypeMem, TypeReg, TypeRest
<1>2. HalInv'
  BY DEF OvInv, HalInv, Torn
<1>3. DevInv' /\ ThreadInv' /\ MemInv' /\ LitInv'
  BY Untouched, LitUntouched DEF OvInv
<1>4. DeadInv'
  BY DEF DeadInv, DeathHasCause, Torn, Ready, Nowhere
<1> QED
  BY <1>1, <1>2, <1>3, <1>4 DEF OvInv

LEMMA DrmModeChangedKeeps ==
  ASSUME OvInv, down = FALSE, NEW d \in Devs, NEW t \in Threads[d], NEW own \in BOOLEAN,
         drmModeChanged(d, t, own), thr[d][t].at \in {"idle", "holds"}, dev[d].state = "ready",
         own <=> t \in Owners(d),
         UNCHANGED <<pool, ctl, dev, mem, ovadd, plug>>
  PROVE  OvInv'
<1> DEFINE shows == [at |-> "showing", old |-> "none", own |-> own]
           switches == [at |-> "switching", old |-> ctx.mode, own |-> own]
<1>0. ctx \in CtxTypes /\ ctx.mode \in Modes /\ TypeRest
  BY DEF OvInv, Types, TypeCtx, CtxTypes
<1>1. shows \in ThrTypes /\ switches \in ThrTypes
  BY <1>0 DEF ThrTypes, Modes
<1>2. CASE /\ hal' = [hal EXCEPT !.changed = FALSE] /\ thr' = [thr EXCEPT ![d][t] = shows]
           /\ UNCHANGED <<ctx, down>>
  BY <1>0, <1>1, <1>2, GoesOnKeeps
<1>3. CASE hal.changed /\ dev[d].block /\ ~hal.ctx /\ down' = TRUE /\ UNCHANGED <<hal, thr, ctx>>
  <2>1. ~Torn => mem.refused > 0
    BY <1>3, BusyFacts
  <2> QED
    BY <1>3, <2>1, DiesKeeps
<1>4. ASSUME NEW c \in detectDrmModeInfo(hal, ctx), ctx' = c.ctx, UNCHANGED down,
             IF c.ctx.mode = ctx.mode
             THEN hal' = [hal EXCEPT !.changed = FALSE] /\ thr' = [thr EXCEPT ![d][t] = shows]
             ELSE thr' = [thr EXCEPT ![d][t] = switches] /\ hal' = hal
      PROVE  OvInv'
  <2>1. ctx' \in CtxTypes
    BY <1>0, <1>4, DetectFacts
  <2>2. CASE c.ctx.mode = ctx.mode
    BY <1>1, <1>4, <2>1, <2>2, GoesOnKeeps
  <2>3. CASE c.ctx.mode # ctx.mode
    BY <1>1, <1>4, <2>1, <2>3, GoesOnKeeps
  <2> QED
    BY <2>2, <2>3
<1> QED
  BY <1>2, <1>3, <1>4 DEF drmModeChanged

LEMMA QueueBufferKeeps ==
  ASSUME OvInv, down = FALSE, NEW d \in Devs, NEW t \in Threads[d], QueueBuffer(d, t)
  PROVE  OvInv'
<1>1. thr[d][t].at = "holds" /\ drmModeChanged(d, t, TRUE) /\ UNCHANGED <<pool, ctl, dev, mem, ovadd, plug>>
  BY DEF QueueBuffer
<1>2. dev[d].state = "ready" /\ t \in Owners(d)
  BY <1>1, BusyFacts DEF ThreadOk, Owners
<1> QED
  BY <1>1, <1>2, DrmModeChangedKeeps

LEMMA PostExternalKeeps ==
  ASSUME OvInv, down = FALSE, NEW d \in Devs, NEW t \in Threads[d], PostExternal(d, t)
  PROVE  OvInv'
<1>1. /\ dev[d].state = "ready" /\ thr[d][t].at = "idle" /\ t \notin Owners(d)
      /\ UNCHANGED <<pool, ctl, dev, mem, ovadd, plug>>
  BY DEF PostExternal, Owners
<1>2. CASE "dead" \in wrapExternalTTMBuffer /\ down' = TRUE /\ UNCHANGED <<hal, ctx, thr>>
  <2>1. pool # "live"
    BY <1>2 DEF wrapExternalTTMBuffer, pvrWsbmWrapTTMBuffer
  <2>2. ~Torn => mem.refused > 0
    BY <1>1, <2>1, BusyFacts
  <2> QED
    BY <1>1, <1>2, <2>2, DiesKeeps
<1>3. CASE drmModeChanged(d, t, FALSE)
  BY <1>1, <1>3, DrmModeChangedKeeps
<1> QED
  BY <1>2, <1>3 DEF PostExternal

LEMMA SwitchModeKeeps ==
  ASSUME OvInv, down = FALSE, NEW d \in Devs, NEW t \in Threads[d], SwitchMode(d, t)
  PROVE  OvInv'
<1>0. /\ thr[d][t].at = "switching"
      /\ ovadd' = Darken(thr[d][t].old) /\ hal' = [hal EXCEPT !.changed = FALSE]
      /\ thr' = [thr EXCEPT ![d][t].at = "showing", ![d][t].old = "none"]
      /\ UNCHANGED <<pool, ctx, ctl, dev, mem, plug, down>>
  BY DEF SwitchMode
<1>1. /\ dev[d].state = "ready" /\ ThreadOk(d) /\ OfThreads(thr) /\ Types
      /\ ~Torn => HalUp
  BY <1>0, BusyFacts DEF OvInv
<1>2. \E r : Changed(thr, thr', d, t, r) /\ r.at = "showing" /\ r.own = thr[d][t].own
  <2> DEFINE g == [thr EXCEPT ![d][t].at = "showing"]
  <2>0. "showing" \in Places
    BY DEF Places
  <2>1. PICK q \in ThrTypes : Changed(thr, g, d, t, q) /\ q.at = "showing" /\ q.own = thr[d][t].own
    BY <1>1, <2>0, ChangedAt
  <2>2. OfThreads(g) /\ g[d][t].at = "showing" /\ g[d][t].own = thr[d][t].own
    BY <2>1 DEF Changed
  <2>3. thr' = [g EXCEPT ![d][t].old = "none"]
    BY <1>0
  <2> HIDE DEF g
  <2> DEFINE h == [g EXCEPT ![d][t].old = "none"]
  <2>4. \E r \in ThrTypes : Changed(g, h, d, t, r) /\ r.at = "showing" /\ r.own = thr[d][t].own
    BY <2>2, ChangedOld
  <2>5. PICK r \in ThrTypes : Changed(g, thr', d, t, r) /\ r.at = "showing" /\ r.own = thr[d][t].own
    BY <2>3, <2>4
  <2> QED
    BY <2>1, <2>5, ChangedTwice
<1>3. PICK r : Changed(thr, thr', d, t, r) /\ r.at = "showing" /\ r.own = thr[d][t].own
  BY <1>2
<1>4. ThreadOk(d)'
  <2>1. r.own <=> t \in Owners(d)
    BY <1>0, <1>3 DEF Owners
  <2> QED
    BY <1>0, <1>1, <1>3, <2>1, ThreadGoesOn
<1>5. ThreadInv' /\ TypeThr'
  BY <1>0, <1>3, <1>4, OthersThreadsKept DEF OvInv
<1>6. TypeHal' /\ HalInv'
  BY <1>0, SeenFacts DEF OvInv, Types
<1> DEFINE W == Darkened(thr[d][t].old)
<1>7. ovadd' = Write(W, [o \in Overlays |-> Off], ovadd)
  BY <1>0 DEF Darken, Darkened
<1>8. \A o \in Overlays : /\ hal.drm /\ o \in W => ovadd'[o] = Off
                          /\ ~hal.drm \/ o \notin W => ovadd'[o] = ovadd[o]
  BY <1>7 DEF Write
<1>9. TypeReg'
  <2>1. Off \in RegTypes
    BY DEF Off, RegTypes
  <2>2. ovadd \in [Overlays -> RegTypes]
    BY <1>1 DEF Types, TypeReg
  <2> QED
    BY <1>7, <2>1, <2>2 DEF Write, TypeReg
<1> HIDE DEF W
<1>10. Types'
  BY <1>0, <1>1, <1>5, <1>6, <1>9 DEF Types, TypeCtx, TypeCtl, TypeDev, TypeMem, TypeRest
<1>11. DevInv' /\ MemInv'
  BY <1>0 DEF OvInv, DevInv, DevOk, HeldUpTo, MemInv, Torn, Ready, Blocks
<1>12. LitInv'
  <2> SUFFICES ASSUME ~Torn, ~Drift, NEW o \in Overlays, ovadd'[o].on
               PROVE  InPlace(o)' \/ Doomed(o)'
    BY <1>0 DEF LitInv, LitOk, Torn, Drift
  <2>1. o \notin W /\ ovadd'[o] = ovadd[o]
    BY <1>1, <1>8 DEF HalUp, Off
  <2>2. InPlace(o) \/ Doomed(o)
    BY <2>1 DEF OvInv, LitInv, LitOk
  <2>3. InPlace(o) => InPlace(o)'
    BY <1>0, <2>1 DEF InPlace, Ready
  <2>4. CASE Doomed(o)
    <3>1. PICK e \in Devs : \E u \in Threads[e] : thr[e][u].at = "switching" /\ o \in Darkened(thr[e][u].old)
      BY <2>4 DEF Doomed
    <3>2. PICK u \in Threads[e] : thr[e][u].at = "switching" /\ o \in Darkened(thr[e][u].old)
      BY <3>1
    <3>3. e # d \/ u # t
      BY <2>1, <3>2 DEF W
    <3>4. thr'[e][u] = thr[e][u]
      BY <1>3, <3>3 DEF Changed
    <3>5. Doomed(o)'
      BY <3>2, <3>4 DEF Doomed
    <3> QED
      BY <3>5
  <2> QED
    BY <2>2, <2>3, <2>4
<1> QED
  BY <1>0, <1>5, <1>6, <1>10, <1>11, <1>12, DeadWhenAlive DEF OvInv

\* A picture has no width to be scaled to only when it is shown nowhere.
LEMMA NoWidthIsNowhere ==
  ASSUME TypeCtx, NEW d \in Devs, dev[d].index \in Overlays, getPosition(d).w = 0
  PROVE  Nowhere(d)
<1> DEFINE p == ctx.pos[dev[d].index]
           size == ctx.size["mipi0"]
<1>1. CASE ctx.mode = "hdmi"
  <2>1. getPosition(d).w = ctx.size["hdmi"]
    BY <1>1 DEF getPosition
  <2> QED
    BY <1>1, <2>1 DEF Nowhere
<1>2. CASE ctx.mode # "hdmi"
  <2>1. p \in [x : Int, w : Int] /\ size \in Nat
    BY DEF TypeCtx, CtxTypes, Outputs
  <2>2. getPosition(d) = ClippedTo(p, size)
    BY <1>2 DEF getPosition
  <2>3. ClippedTo(p, size).w = 0
    BY <2>2
  <2> HIDE DEF p, size
  <2>4. p.w = 0 \/ p.x >= size \/ size = 0
    BY <2>1, <2>3 DEF ClippedTo
  <2> QED
    BY <1>2, <2>4 DEF Nowhere, p, size
<1> QED
  BY <1>1, <1>2

\* What putting a thread's buffer back does to the threads of its device.
LEMMA PutBufferFacts ==
  ASSUME OfThreads(thr), NEW d \in Devs, NEW t \in Threads[d], thr[d][t].at = "showing",
         NEW g \in putBuffer(d, t)
  PROVE  /\ OfThreads(g) /\ g[d][t] = Idle /\ \A c \in Devs \ {d} : g[c] = thr[c]
         /\ \A u \in Threads[d] \ {t} :
              \/ g[d][u] = thr[d][u]
              \/ /\ thr[d][u].at = "asleep" /\ g[d][u].at = "woken"
                 /\ g[d][u].own = thr[d][u].own /\ g[d][u].old = thr[d][u].old
         /\ (\E u \in Threads[d] : g[d][u].at = "asleep") => \E u \in Threads[d] : g[d][u].at = "woken"
<1> DEFINE asleep == {u \in Threads[d] : thr[d][u].at = "asleep"}
           back == [thr EXCEPT ![d][t] = Idle]
<1>1. Idle \in ThrTypes /\ Idle.at = "idle"
  BY DEF Idle, ThrTypes, Modes
<1>2. Changed(thr, back, d, t, Idle)
  BY <1>1, ChangedTo
<1>3. g \in IF asleep = {} THEN {back} ELSE {[back EXCEPT ![d][u].at = "woken"] : u \in asleep}
  BY DEF putBuffer
<1> HIDE DEF back
<1>4. CASE asleep = {}
  <2>1. g = back
    BY <1>3, <1>4
  <2>2. \A u \in Threads[d] : g[d][u].at # "asleep"
    BY <1>1, <1>2, <1>4, <2>1 DEF Changed
  <2> QED
    BY <1>2, <2>1, <2>2 DEF Changed
<1>5. CASE asleep # {}
  <2>1. PICK u \in asleep : g = [back EXCEPT ![d][u].at = "woken"]
    BY <1>3, <1>5
  <2>2. u \in Threads[d] /\ u # t /\ OfThreads(back) /\ back[d][u] = thr[d][u]
    BY <1>2, <2>1 DEF Changed
  <2> DEFINE h == [back EXCEPT ![d][u].at = "woken"]
  <2>3. "woken" \in Places
    BY DEF Places
  <2>4. \E r \in ThrTypes : Changed(back, h, d, u, r) /\ r.at = "woken" /\ r.old = back[d][u].old /\ r.own = back[d][u].own
    BY <2>2, <2>3, ChangedAt
  <2>5. PICK r \in ThrTypes :
          Changed(back, g, d, u, r) /\ r.at = "woken" /\ r.old = back[d][u].old /\ r.own = back[d][u].own
    BY <2>1, <2>4
  <2>6. OfThreads(g) /\ g[d][t] = Idle /\ \A c \in Devs \ {d} : g[c] = thr[c]
    BY <1>2, <2>2, <2>5 DEF Changed
  <2>7. /\ thr[d][u].at = "asleep" /\ g[d][u].at = "woken"
        /\ g[d][u].own = thr[d][u].own /\ g[d][u].old = thr[d][u].old
        /\ \A v \in Threads[d] \ {t, u} : g[d][v] = thr[d][v]
    BY <1>2, <2>1, <2>2, <2>5 DEF Changed
  <2> QED
    BY <2>2, <2>6, <2>7
<1> QED
  BY <1>4, <1>5

LEMMA ShowKeeps ==
  ASSUME OvInv, down = FALSE, NEW d \in Devs, NEW t \in Threads[d], Show(d, t)
  PROVE  OvInv'
<1> DEFINE own == thr[d][t].own
           dead == ~dev[d].block \/ (hal.ctx /\ getPosition(d).w = 0) \/ Unmapped(d)
<1>0. /\ thr[d][t].at = "showing" /\ UNCHANGED <<hal, pool, ctx, ctl, mem, plug>>
      /\ IF dead THEN down' = TRUE /\ UNCHANGED <<dev, thr, ovadd>>
         ELSE /\ dev' = [dev EXCEPT ![d].own = own, ![d].count = @ + (IF own THEN 1 ELSE 0)]
              /\ thr' \in IF own THEN putBuffer(d, t) ELSE {[thr EXCEPT ![d][t] = Idle]}
              /\ ovadd' = updateOverlay(d, ctx.mode, TRUE) /\ UNCHANGED down
  BY DEF Show
<1>1. /\ dev[d].state = "ready" /\ ThreadOk(d) /\ OfThreads(thr) /\ Types /\ dev \in [Devs -> DevTypes]
      /\ TypeCtx /\ TypeReg /\ ctx.mode \in Modes /\ dev[d].index \in Overlays /\ own \in BOOLEAN
      /\ ~Torn => HalUp
      /\ ~Torn /\ (~hal.ctx \/ ~dev[d].block \/ pool # "live") => mem.refused > 0
  <2>1. /\ dev[d].state = "ready" /\ ThreadOk(d) /\ OfThreads(thr) /\ Types /\ dev \in [Devs -> DevTypes]
        /\ ~Torn => HalUp
        /\ ~Torn /\ (~hal.ctx \/ ~dev[d].block \/ pool # "live") => mem.refused > 0
    BY <1>0, BusyFacts DEF OvInv
  <2>2. TypeCtx /\ TypeReg /\ ctx.mode \in Modes /\ dev[d].index \in Overlays /\ own \in BOOLEAN
    BY <2>1 DEF Types, TypeCtx, CtxTypes, DevTypes, OfThreads, ThrTypes
  <2> QED
    BY <2>1, <2>2
<1>2. CASE dead
  <2>1. down' = TRUE /\ UNCHANGED <<dev, thr, ovadd>>
    BY <1>0, <1>2
  <2>2. ~Torn => mem.refused > 0 \/ Nowhere(d)
    BY <1>1, <1>2, NoWidthIsNowhere DEF Unmapped
  <2> QED
    BY <1>0, <1>1, <2>1, <2>2, DiesKeeps
<1>3. CASE ~dead
  <2>0. dev[d].block /\ UNCHANGED down /\ ovadd' = updateOverlay(d, ctx.mode, TRUE)
    BY <1>0, <1>3
  <2>1. /\ dev' \in [Devs -> DevTypes] /\ dev'[d].count = dev[d].count + (IF own THEN 1 ELSE 0)
        /\ dev'[d].state = dev[d].state /\ dev'[d].block = dev[d].block /\ dev'[d].slots = dev[d].slots
        /\ \A c \in Devs \ {d} : dev'[c] = dev[c]
    <3> HIDE DEF dead, own
    <3> DEFINE e == [dev EXCEPT ![d].own = own]
               n == dev[d].count + (IF own THEN 1 ELSE 0)
    <3>1. /\ e \in [Devs -> DevTypes] /\ e[d].state = dev[d].state /\ e[d].block = dev[d].block
          /\ e[d].slots = dev[d].slots /\ e[d].count = dev[d].count
          /\ \A c \in Devs \ {d} : e[c] = dev[c]
      BY <1>1 DEF DevTypes
    <3>2. dev' = [e EXCEPT ![d].count = n]
      BY <1>0, <1>3
    <3>3. n \in Int
      BY <1>1 DEF DevTypes
    <3> HIDE DEF e, n
    <3>4. /\ dev' \in [Devs -> DevTypes] /\ dev'[d].count = n
          /\ dev'[d].state = e[d].state /\ dev'[d].block = e[d].block /\ dev'[d].slots = e[d].slots
          /\ \A c \in Devs \ {d} : dev'[c] = e[c]
      BY <3>1, <3>2, <3>3 DEF DevTypes
    <3> QED
      BY <3>1, <3>4 DEF n
  <2>2. /\ OfThreads(thr') /\ thr'[d][t] = Idle /\ \A c \in Devs \ {d} : thr'[c] = thr[c]
        /\ \A u \in Threads[d] \ {t} :
             \/ thr'[d][u] = thr[d][u]
             \/ /\ thr[d][u].at = "asleep" /\ thr'[d][u].at = "woken"
                /\ thr'[d][u].own = thr[d][u].own /\ thr'[d][u].old = thr[d][u].old
        /\ own => ((\E u \in Threads[d] : thr'[d][u].at = "asleep") => \E u \in Threads[d] : thr'[d][u].at = "woken")
        /\ ~own => \A u \in Threads[d] \ {t} : thr'[d][u] = thr[d][u]
    <3>1. CASE own
      <4>1. thr' \in putBuffer(d, t)
        BY <1>0, <1>3, <3>1
      <4> QED
        BY <1>0, <1>1, <3>1, <4>1, PutBufferFacts
    <3>2. CASE ~own
      <4>1. thr' = [thr EXCEPT ![d][t] = Idle]
        BY <1>0, <1>3, <3>2
      <4>2. Idle \in ThrTypes
        BY DEF Idle, ThrTypes, Modes
      <4>3. Changed(thr, [thr EXCEPT ![d][t] = Idle], d, t, Idle)
        BY <1>1, <4>2, ChangedTo
      <4>4. Changed(thr, thr', d, t, Idle)
        BY <4>1, <4>3
      <4> QED
        BY <3>2, <4>4 DEF Changed
    <3> QED
      BY <1>1, <3>1, <3>2
  <2>3. Owners(d)' = Owners(d) \ {t} /\ (own <=> t \in Owners(d))
    BY <1>0, <2>2 DEF Owners, Idle
  <2>4. ThreadOk(d)'
    <3>1. dev'[d].count = BufferNum - Cardinality(Owners(d)')
      <4>1. /\ dev[d].count = BufferNum - Cardinality(Owners(d)) /\ Cardinality(Owners(d)) \in Nat
            /\ IsFiniteSet(Owners(d))
        BY <1>1, Finite DEF ThreadOk
      <4>2. Cardinality(Owners(d) \ {t}) = IF t \in Owners(d) THEN Cardinality(Owners(d)) - 1 ELSE Cardinality(Owners(d))
        BY <4>1, FS_RemoveElement
      <4> QED
        BY <2>1, <2>3, <4>1, <4>2, BufferAssumption
    <3>2. \A u \in Threads[d] : thr'[d][u].at = "holds" => thr'[d][u].own
      BY <1>1, <2>2 DEF ThreadOk, Idle
    <3>3. (\E u \in Threads[d] : thr'[d][u].at = "asleep") =>
            \E u \in Threads[d] : thr'[d][u].at = "woken" \/ u \in Owners(d)'
      <4>1. CASE own
        BY <2>2, <4>1
      <4>2. CASE ~own
        <5>1. Owners(d)' = Owners(d) /\ \A u \in Threads[d] \ {t} : thr'[d][u] = thr[d][u]
          BY <2>2, <2>3, <4>2
        <5>2. thr'[d][t].at # "asleep" /\ thr[d][t].at # "woken"
          BY <1>0, <2>2 DEF Idle
        <5> QED
          BY <1>1, <5>1, <5>2 DEF ThreadOk
      <4> QED
        BY <4>1, <4>2
    <3> QED
      BY <1>1, <2>1, <3>1, <3>2, <3>3 DEF ThreadOk
  <2>5. ThreadInv' /\ TypeThr'
    <3>1. ASSUME NEW c \in Devs \ {d} PROVE ThreadOk(c)'
      BY <2>1, <2>2, ThreadOkKept DEF OvInv, ThreadInv
    <3>2. TypeThr'
      BY <2>2 DEF OfThreads, TypeThr
    <3> QED
      BY <2>4, <3>1, <3>2 DEF ThreadInv
  <2>6. \A c \in Devs : dev'[c].state = dev[c].state /\ dev'[c].block = dev[c].block /\ dev'[c].slots = dev[c].slots
    BY <2>1
  <2>7. HalInv' /\ DevInv'
    BY <1>0, <2>6 DEF OvInv, HalInv, DevInv, DevOk, Torn
  <2>8. Ready' = Ready /\ Blocks' = Blocks
    BY <2>6 DEF Ready, Blocks
  <2>9. MemInv'
    BY <1>0, <2>8 DEF OvInv, MemInv, Torn
  <2>10. ASSUME ~Torn
         PROVE  /\ ovadd' \in [Overlays -> RegTypes]
                /\ \A o \in Overlays :
                     ovadd'[o] = IF o \in Shown(ctx.mode) THEN [dev |-> d, pipe |-> RightPipe(o, ctx.mode), on |-> TRUE]
                                 ELSE ovadd[o]
    BY <1>1, <2>0, <2>10, ShowFacts DEF HalUp
  <2>11. TypeReg'
    <3>1. CASE hal.drm
      BY <1>1, <2>0, <3>1, ShowFacts DEF TypeReg
    <3>2. CASE ~hal.drm
      <4>1. updateOverlay(d, ctx.mode, TRUE) = ovadd
        BY <3>2 DEF updateOverlay, Write
      <4> QED
        BY <1>1, <2>0, <4>1 DEF TypeReg
    <3> QED
      BY <3>1, <3>2
  <2>12. Types'
    BY <1>0, <1>1, <2>0, <2>1, <2>5, <2>11 DEF Types, TypeHal, TypeCtx, TypeCtl, TypeDev, TypeMem, TypeRest
  <2>13. LitInv'
    <3> SUFFICES ASSUME ~Torn, ~Drift, NEW o \in Overlays, ovadd'[o].on
                 PROVE  InPlace(o)' \/ Doomed(o)'
      BY <1>0 DEF LitInv, LitOk, Torn, Drift
    <3>1. CASE o \in Shown(ctx.mode)
      <4>1. ovadd'[o] = [dev |-> d, pipe |-> RightPipe(o, ctx.mode), on |-> TRUE]
        BY <2>10, <3>1
      <4>2. ovadd'[o].dev = d /\ ovadd'[o].pipe = RightPipe(o, ctx.mode) /\ ctx' = ctx /\ d \in Ready'
        BY <1>0, <1>1, <2>8, <4>1 DEF Ready
      <4>3. InPlace(o)'
        BY <2>0, <2>6, <3>1, <4>2 DEF InPlace
      <4> QED
        BY <4>3
    <3>2. CASE o \notin Shown(ctx.mode)
      <4>1. ovadd'[o] = ovadd[o]
        BY <2>10, <3>2
      <4>2. Doomed(o)
        BY <3>2, <4>1 DEF OvInv, LitInv, LitOk, InPlace
      <4>3. PICK e \in Devs : \E u \in Threads[e] : thr[e][u].at = "switching" /\ o \in Darkened(thr[e][u].old)
        BY <4>2 DEF Doomed
      <4>4. PICK u \in Threads[e] : thr[e][u].at = "switching" /\ o \in Darkened(thr[e][u].old)
        BY <4>3
      <4>5. thr'[e][u] = thr[e][u]
        BY <1>0, <2>2, <4>4
      <4>6. Doomed(o)'
        BY <4>4, <4>5 DEF Doomed
      <4> QED
        BY <4>6
    <3> QED
      BY <3>1, <3>2
  <2> QED
    BY <2>0, <2>5, <2>7, <2>9, <2>12, <2>13, DeadWhenAlive DEF OvInv
<1> QED
  BY <1>2, <1>3

-----------------------------------------------------------------------------
(* Every state of the specification.                                        *)

LEMMA InitHolds ==
  ASSUME Init
  PROVE  OvInv
<1>0. /\ hal = Fresh /\ pool = "none" /\ ctx = Unread
      /\ ctl = [open |-> FALSE, free |-> Overlays, given |-> {}]
      /\ dev = [d \in Devs |-> Closed]
      /\ thr = [d \in Devs |-> [t \in Threads[d] |-> Idle]]
      /\ mem = [alloc |-> 0, mapped |-> 0, refused |-> 0, causes |-> {}]
      /\ ovadd = [o \in Overlays |-> Off] /\ plug \in Starts \X {0} /\ down = FALSE
  BY DEF Init
<1>1. Types
  <2>1. TypeHal
    BY <1>0 DEF TypeHal, HalTypes, Fresh
  <2>2. TypeCtx
    BY <1>0 DEF TypeCtx, CtxTypes, Unread, Modes
  <2>3. TypeCtl
    BY <1>0 DEF TypeCtl, CtlTypes
  <2>4. TypeDev
    <3>1. Closed \in DevTypes
      BY DEF Closed, DevTypes, Contents, Overlays
    <3> QED
      BY <1>0, <3>1 DEF TypeDev
  <2>5. TypeThr
    <3>1. Idle \in ThrTypes
      BY DEF Idle, ThrTypes, Modes
    <3> QED
      BY <1>0, <3>1 DEF TypeThr
  <2>6. TypeMem
    BY <1>0, RefusedAssumption DEF TypeMem, MemTypes
  <2>7. TypeReg
    BY <1>0 DEF TypeReg, RegTypes, Off
  <2>8. TypeRest
    <3>1. PICK s \in Starts : plug = <<s, 0>>
      BY <1>0
    <3>2. s \in [Outputs -> Cables]
      BY OutputAssumption
    <3> QED
      BY <1>0, <3>1, <3>2 DEF TypeRest, Pools
  <2> QED
    BY <2>1, <2>2, <2>3, <2>4, <2>5, <2>6, <2>7, <2>8 DEF Types
<1>2. HalInv
  BY <1>0 DEF HalInv, Fresh, Closed, Torn
<1>3. DevInv
  <2>1. HeldUpTo(Closed.slots, 0)
    BY BufferAssumption DEF HeldUpTo, Closed, Slots
  <2>2. Closed.state = "closed" /\ Closed.block = FALSE
    BY DEF Closed
  <2>3. \A d \in Devs : dev[d] = Closed
    BY <1>0
  <2> QED
    BY <2>1, <2>2, <2>3 DEF DevInv, DevOk
<1>4. ThreadInv
  BY <1>0 DEF ThreadInv, ThreadOk, Idle, Closed
<1>5. Ready = {} /\ Blocks = {}
  BY <1>0 DEF Ready, Blocks, Closed
<1>6. MemInv
  BY <1>0, <1>5, FS_EmptySet, BufferAssumption DEF MemInv
<1>7. DeadInv /\ LitInv
  BY <1>0 DEF DeadInv, LitInv, LitOk, Off
<1> QED
  BY <1>1, <1>2, <1>3, <1>4, <1>6, <1>7 DEF OvInv

LEMMA StutterKeeps ==
  ASSUME OvInv, UNCHANGED vars
  PROVE  OvInv'
<1>1. UNCHANGED <<hal, pool, ctx, ctl, dev, thr, mem, ovadd, plug, down>>
  BY DEF vars
<1>2. Types'
  BY <1>1 DEF OvInv, Types, TypeHal, TypeCtx, TypeCtl, TypeDev, TypeThr, TypeMem, TypeReg, TypeRest
<1>3. HalInv' /\ DeadInv'
  BY <1>1 DEF OvInv, HalInv, DeadInv, DeathHasCause, Torn, Ready, Nowhere
<1> QED
  BY <1>1, <1>2, <1>3, Untouched, LitUntouched DEF OvInv

LEMMA NextKeeps ==
  ASSUME OvInv, Next
  PROVE  OvInv'
<1>0. down = FALSE
  BY DEF Next, OvInv, Types, TypeRest
<1>1. CASE OpenControl
  BY <1>0, <1>1, OpenControlKeeps
<1>2. CASE CloseControl
  BY <1>2, CloseControlKeeps
<1>3. CASE CreateOverlay \/ \E o \in Overlays : DestroyOverlay(o)
  BY <1>0, <1>3, OverlaysKeep
<1>4. CASE \E o \in Overlays : \E span \in Spans : SetPosition(o, span)
  BY <1>0, <1>4, SetPositionKeeps
<1>5. CASE \E o \in Overlays : \E d \in Devs : Initialize(d, o)
  BY <1>0, <1>5, InitializeKeeps
<1>6. ASSUME NEW d \in Devs, OpenData(d) \/ CloseData(d) \/ SetParameter(d) PROVE OvInv'
  BY <1>0, <1>6, OpenDataKeeps, CloseDataKeeps, ResetOverlayKeeps, NotifyHdmiKeeps, PostExternalKeeps
     DEF SetParameter
<1>7. ASSUME NEW d \in Devs, NEW t \in Threads[d],
             Dequeue(d, t) \/ Wake(d, t) \/ QueueBuffer(d, t) \/ SwitchMode(d, t) \/ Show(d, t)
      PROVE  OvInv'
  BY <1>0, <1>7, DequeueKeeps, WakeKeeps, QueueBufferKeeps, SwitchModeKeeps, ShowKeeps
<1>8. CASE \E c \in Changes : Plug(c[1], c[2])
  BY <1>0, <1>8, PlugKeeps
<1> QED
  BY <1>1, <1>2, <1>3, <1>4, <1>5, <1>6, <1>7, <1>8 DEF Next, Open

-----------------------------------------------------------------------------
(* How a picture is laid out.                                               *)

LEMMA DivFacts ==
  ASSUME NEW a \in Nat, NEW b \in Nat \ {0}
  PROVE  a \div b \in Nat /\ b * (a \div b) <= a
OBVIOUS

LEMMA Monotone ==
  ASSUME NEW a \in Nat, NEW x \in Nat, NEW y \in Nat, x <= y
  PROVE  a * x <= a * y
OBVIOUS

LEMMA AlignFacts ==
  ASSUME NEW n \in Nat
  PROVE  /\ \E k \in Nat : align_to(n, 64) = 64 * k
         /\ align_to(n, 64) \in Nat /\ align_to(n, 64) >= n
         /\ align_to(n, Page) \in Nat /\ align_to(n, Page) >= n
BY DEF align_to, Page

LEMMA UnitsFetched ==
  ASSUME NEW n \in Nat \ {0}
  PROVE  ((calculateSWidthSW(0, n) + 1) \div 2) * 64 = align_to(n, 64)
BY DEF align_to, calculateSWidthSW

LEMMA WholePages ==
  ASSUME NEW a \in Nat, NEW b \in Nat
  PROVE  (64 * a) * (64 * b) = 4096 * (a * b) /\ align_to(4096 * (a * b), Page) = 4096 * (a * b)
<1> DEFINE c == a * b
<1>1. c \in Nat /\ (64 * a) * (64 * b) = 4096 * c
  OBVIOUS
<1> HIDE DEF c
<1>2. align_to(4096 * c, Page) = 4096 * c
  BY <1>1 DEF align_to, Page
<1> QED
  BY <1>1, <1>2 DEF c

\* A scale, rounded down twice, never goes past the end of a line.
LEMMA ScaleFits ==
  ASSUME NEW srcW \in Nat \ {0}, NEW srcH \in Nat, NEW w \in Nat \ {0}
  PROVE  (w - 1) * scalingSetup(srcW, srcH, w, 1).x <= (srcW - 1) * Page
<1> DEFINE F == IF srcW = w /\ srcH = 1 THEN Page ELSE ((srcW - 1) * Page) \div w
           x == 2 * (F \div 2)
<1>1. scalingSetup(srcW, srcH, w, 1).x = x
  BY DEF scalingSetup
<1>2. CASE srcW = w /\ srcH = 1
  BY <1>1, <1>2 DEF Page
<1>3. CASE ~(srcW = w /\ srcH = 1)
  <2> DEFINE n == (srcW - 1) * Page
             q == n \div w
  <2>1. n \in Nat /\ F = q
    BY <1>3 DEF Page
  <2> HIDE DEF n, F
  <2>2. q \in Nat /\ w * q <= n
    BY <2>1, DivFacts
  <2> HIDE DEF q
  <2>3. x \in Nat /\ x <= q
    BY <2>1, <2>2
  <2> HIDE DEF x
  <2>4. (w - 1) * x <= (w - 1) * q
    BY <2>2, <2>3, Monotone
  <2>5. (w - 1) * q = w * q - q
    BY <2>2
  <2>6. (w - 1) * x \in Nat /\ w * q \in Nat
    BY <2>2, <2>3
  <2>7. (w - 1) * x <= n
    BY <2>1, <2>2, <2>4, <2>5, <2>6
  <2> QED
    BY <1>1, <2>7 DEF n
<1> QED
  BY <1>2, <1>3

AnyShape == [format : Formats, width : 1..MaxDim, height : 1..MaxDim]

LEMMA ShapeFacts ==
  ASSUME NEW s \in AnyShape
  PROVE  /\ s.format \in Formats /\ s.width \in Nat \ {0} /\ s.height \in Nat \ {0}
         /\ s.height \div 2 \in Nat
<1>1. s.format \in Formats /\ s.width \in 1..MaxDim /\ s.height \in 1..MaxDim
  BY DEF AnyShape
<1>2. \A n \in 1..MaxDim : n \in Nat \ {0} /\ n \div 2 \in Nat
  BY DEF MaxDim
<1> QED
  BY <1>1, <1>2

\* The offsets that are fetched are those that were written.
LEMMA SameOffsets ==
  ASSUME NEW s \in AnyShape,
         s.format = "NV12" => s.height % 64 = 0
  PROVE  bufferOffsetSetup(s, 0) = Written(s)
<1> DEFINE y == Strides(s).y
           uv == Strides(s).uv
<1>0. s.width \in Nat /\ s.height \in Nat /\ s.format \in Formats
  BY ShapeFacts
<1>1. CASE s.format = "I420"
  <2>1. y \in Nat
    BY <1>0, <1>1, AlignFacts DEF Strides
  <2> HIDE DEF y, uv
  <2>2. y * s.height \in Nat
    BY <1>0, <2>1
  <2>3. align_to(y * s.height, Page) \in Nat
    BY <2>2, AlignFacts
  <2> DEFINE u == align_to(y * s.height, Page)
  <2>4. 0 + u = u
    BY <2>3
  <2> HIDE DEF u
  <2>5. bufferOffsetSetup(s, 0) = [y |-> 0, u |-> 0 + u, v |-> (0 + u) + align_to(uv * (s.height \div 2), Page)]
    BY <1>1 DEF bufferOffsetSetup, u, y, uv
  <2>6. Written(s) = [y |-> 0, u |-> u, v |-> u + align_to(uv * (s.height \div 2), Page)]
    BY <1>1 DEF Written, u, y, uv
  <2> QED
    BY <2>4, <2>5, <2>6
<1>2. CASE s.format = "NV12"
  <2>1. PICK a \in Nat : y = 64 * a
    BY <1>0, <1>2, AlignFacts DEF Strides
  <2>2. PICK b \in Nat : s.height = 64 * b
    BY <1>0, <1>2
  <2>3. align_to(s.height, 32) = s.height
    BY <2>2 DEF align_to
  <2> HIDE DEF y, uv
  <2>4. y * s.height = 4096 * (a * b) /\ align_to(y * s.height, Page) = y * s.height
    BY <2>1, <2>2, WholePages
  <2>5. 0 + y * s.height = y * s.height
    BY <1>0, <2>1
  <2>6. bufferOffsetSetup(s, 0) = [y |-> 0, u |-> 0 + y * align_to(s.height, 32), v |-> 0]
    BY <1>2 DEF bufferOffsetSetup, y
  <2>7. Written(s) = [y |-> 0, u |-> align_to(y * s.height, Page), v |-> 0]
    BY <1>2 DEF Written, y
  <2> QED
    BY <2>3, <2>4, <2>5, <2>6, <2>7
<1>3. CASE s.format = "YUY2"
  BY <1>3 DEF bufferOffsetSetup, Written
<1> QED
  BY <1>0, <1>1, <1>2, <1>3 DEF Formats

\* The planes end inside the buffer.
LEMMA PlanesFit ==
  ASSUME NEW s \in AnyShape
  PROVE  /\ Written(s).y = 0 /\ Written(s).y + s.height * Strides(s).y <= BufferSize(s)
         /\ Written(s).v + (s.height \div 2) * Strides(s).uv <= BufferSize(s)
<1> DEFINE y == Strides(s).y
           uv == Strides(s).uv
           half == s.height \div 2
           luma == align_to(y * s.height, Page)
           chroma == align_to(uv * half, Page)
           n == ChromaPlanes(s)
<1>0. s.width \in Nat /\ s.height \in Nat /\ s.format \in Formats /\ half \in Nat
  BY ShapeFacts
<1>1. y \in Nat /\ uv \in Nat
  BY <1>0, AlignFacts DEF Strides, Formats
<1>2. Written(s).y = 0
  BY <1>0 DEF Written, Formats
<1>3. Written(s).v = IF s.format = "I420" THEN luma + chroma ELSE 0
  BY <1>0 DEF Written, Formats
<1>4. n = (CASE s.format = "I420" -> 2 [] s.format = "NV12" -> 1 [] OTHER -> 0) /\ (s.format = "YUY2" => uv = 0)
  BY <1>0 DEF ChromaPlanes, Strides
<1>5. BufferSize(s) = luma + n * chroma
  BY DEF BufferSize
<1> HIDE DEF y, uv, half
<1>6. y * s.height \in Nat /\ uv * half \in Nat /\ s.height * y = y * s.height /\ half * uv = uv * half
  BY <1>0, <1>1
<1>7. luma \in Nat /\ luma >= y * s.height /\ chroma \in Nat /\ chroma >= uv * half
  BY <1>6, AlignFacts
<1> HIDE DEF luma, chroma, n
<1>8. s.format = "YUY2" => uv * half = 0
  BY <1>0, <1>4
<1>9. 0 + s.height * y <= luma + n * chroma
  BY <1>0, <1>4, <1>6, <1>7 DEF Formats
<1>10. Written(s).v + half * uv <= luma + n * chroma
  BY <1>0, <1>3, <1>4, <1>6, <1>7, <1>8 DEF Formats
<1> QED
  BY <1>2, <1>5, <1>9, <1>10 DEF y, uv, half

\* Every line is fetched whole, and no further than its stride.
LEMMA LinesFit ==
  ASSUME NEW s \in AnyShape, NEW at, at.y = 0
  PROVE  LET c == coordinateSetup(s, at) IN ((c.ySW + 1) \div 2) * 64 \in c.width..Strides(s).y
<1> DEFINE bytes == IF s.format = "YUY2" THEN 2 * s.width ELSE s.width
<1>0. s.width \in Nat \ {0} /\ s.format \in Formats /\ bytes \in Nat \ {0}
  BY ShapeFacts
<1>1. Strides(s).y = align_to(bytes, 64)
  BY <1>0 DEF Strides, Formats
<1>2. coordinateSetup(s, at).width = bytes /\ coordinateSetup(s, at).ySW = calculateSWidthSW(0, bytes)
  BY DEF coordinateSetup
<1> HIDE DEF bytes
<1>3. ((calculateSWidthSW(0, bytes) + 1) \div 2) * 64 = align_to(bytes, 64)
  BY <1>0, UnitsFetched
<1>4. align_to(bytes, 64) \in bytes..align_to(bytes, 64)
  BY <1>0, AlignFacts
<1> QED
  BY <1>1, <1>2, <1>3, <1>4

LEMMA LayoutAgrees ==
  ASSUME NEW s \in AnyShape, s.format = "NV12" => s.height % 64 = 0
  PROVE  FetchedAsWritten(s)
<1> DEFINE at == bufferOffsetSetup(s, 0)
           c == coordinateSetup(s, at)
<1>1. at = Written(s) /\ at.y = 0
  BY SameOffsets, PlanesFit
<1>2. c.rows = s.height /\ c.uvRows = s.height \div 2
  BY DEF coordinateSetup
<1>3. at.y + c.rows * Strides(s).y <= BufferSize(s) /\ at.v + c.uvRows * Strides(s).uv <= BufferSize(s)
  BY <1>1, <1>2, PlanesFit
<1> HIDE DEF at
<1>4. ((c.ySW + 1) \div 2) * 64 \in c.width..Strides(s).y
  BY <1>1, LinesFit
<1>5. ASSUME NEW w \in {1, 2, s.width, MaxDim}
      PROVE  (w - 1) * scalingSetup(s.width, s.height, w, 1).x <= (s.width - 1) * Page
  <2>1. s.width \in Nat \ {0} /\ s.height \in Nat /\ w \in Nat \ {0}
    BY ShapeFacts DEF MaxDim
  <2> QED
    BY <2>1, ScaleFits
<1> HIDE DEF c
<1>6. /\ at = Written(s)
      /\ ((c.ySW + 1) \div 2) * 64 \in c.width..Strides(s).y
      /\ at.y + c.rows * Strides(s).y <= BufferSize(s)
      /\ at.v + c.uvRows * Strides(s).uv <= BufferSize(s)
      /\ \A w \in {1, 2, s.width, MaxDim} :
           (w - 1) * scalingSetup(s.width, s.height, w, 1).x <= (s.width - 1) * Page
  BY <1>1, <1>3, <1>4, <1>5
<1> QED
  BY <1>6, Zenon DEF FetchedAsWritten, at, c

-----------------------------------------------------------------------------
(* The theorems.                                                            *)

\* The inductive invariant holds: through every open, close, picture, hotplug and
\* refused call, what the object, the devices, their threads, the memory and the
\* registers say of one another goes together.
THEOREM Invariance == Spec => []OvInv
BY InitHolds, NextKeeps, StutterKeeps, PTL DEF Spec

\* Every variable keeps its type.
THEOREM TypeCorrect == Spec => []TypeOK
<1>1. OvInv => TypeOK
  BY TypesNamed DEF OvInv
<1> QED
  BY <1>1, Invariance, PTL

LEMMA BuffersOfReady ==
  ASSUME OvInv
  PROVE  LET bufs == {b \in Devs \X Slots : b[2] \in Held(b[1])}
         IN Cardinality(bufs) = BufferNum * Cardinality(Ready)
<1> DEFINE bufs == {b \in Devs \X Slots : b[2] \in Held(b[1])}
<1>1. ASSUME NEW d \in Devs, NEW i \in Slots
      PROVE  i \in Held(d) <=> d \in Ready
  <2>1. HeldUpTo(dev[d].slots, IF dev[d].state = "ready" THEN BufferNum ELSE 0)
    BY DEF OvInv, DevInv, DevOk
  <2>2. dev[d].slots[i] = "held" <=> i <= (IF dev[d].state = "ready" THEN BufferNum ELSE 0)
    BY <2>1 DEF HeldUpTo
  <2> QED
    BY <2>2, BufferAssumption DEF Held, Ready, Slots
<1>2. bufs = Ready \X Slots
  BY <1>1 DEF Ready
<1>3. IsFiniteSet(Slots) /\ Cardinality(Slots) = BufferNum
  BY BufferAssumption, FS_Interval DEF Slots
<1>4. Cardinality(Ready \X Slots) = Cardinality(Ready) * Cardinality(Slots)
  BY <1>3, Finite, FS_Product
<1>5. Cardinality(Ready) * BufferNum = BufferNum * Cardinality(Ready)
  BY Finite, BufferAssumption
<1> QED
  BY <1>2, <1>3, <1>4, <1>5

\* Memory and mappings are what the open devices point at, no more and no less,
\* through every refused allocation, until the HAL is closed under a data device or
\* the process dies of a cause (allocateOverlayBuffer, destroyOverlayBuffer).
THEOREM AllocationsAreHeld == Spec => []AllocationsHeld
<1>1. ASSUME OvInv PROVE AllocationsHeld
  <2> DEFINE bufs == {b \in Devs \X Slots : b[2] \in Held(b[1])}
  <2>1. CASE Torn
    BY <2>1, ExcusedFacts DEF AllocationsHeld
  <2>2. CASE ~Torn /\ down
    BY <1>1, <2>2 DEF AllocationsHeld, OvInv, DeadInv
  <2>3. CASE ~Torn /\ ~down
    <3>1. /\ mem.alloc = Cardinality(Blocks) + 2 * (BufferNum * Cardinality(Ready))
          /\ mem.mapped = Cardinality(Blocks) + BufferNum * Cardinality(Ready)
      BY <1>1, <2>3 DEF OvInv, MemInv
    <3>2. Cardinality(bufs) = BufferNum * Cardinality(Ready)
      BY <1>1, BuffersOfReady
    <3>3. /\ mem.alloc = Cardinality(Blocks) + 2 * Cardinality(bufs)
          /\ mem.mapped = Cardinality(Blocks) + Cardinality(bufs)
      BY <3>1, <3>2, Zenon
    <3> QED
      BY <2>3, <3>3 DEF AllocationsHeld, Blocks
  <2> QED
    BY <2>1, <2>2, <2>3
<1> QED
  BY <1>1, Invariance, PTL

LEMMA Placed ==
  ASSUME OvInv, ~Excused({"torn", "drift"}), ~Switching, NEW o \in Overlays, ovadd[o].on
  PROVE  InPlace(o)
<1>1. ~Torn /\ ~Drift
  BY ExcusedFacts
<1>2. ~Doomed(o)
  BY DEF Doomed, Switching
<1> QED
  BY <1>1, <1>2 DEF OvInv, LitInv, LitOk

\* An overlay that is on shows the control block of an open device, whatever mode it
\* was turned on in (updateOverlay, resetOverlay, drmModeChanged).
THEOREM LitOverlayIsHeld == Spec => []LitIsHeld
<1>1. ASSUME OvInv PROVE LitIsHeld
  <2> SUFFICES ASSUME ~Excused({"torn", "drift"}), ~Switching, NEW o \in Overlays, ovadd[o].on
               PROVE  ovadd[o].dev # None
    BY DEF LitIsHeld
  <2>1. InPlace(o)
    BY <1>1, Placed
  <2> QED
    BY <2>1, NoneAssumption DEF InPlace, Ready
<1> QED
  BY <1>1, Invariance, PTL

\* A thread asleep in dequeueBuffer has another thread that will wake it.
THEOREM SleeperIsWoken == Spec => []SleeperHasWaker
<1>1. ASSUME OvInv PROVE SleeperHasWaker
  <2> SUFFICES ASSUME NEW d \in Ready, NEW t \in Threads[d], thr[d][t].at = "asleep"
               PROVE  \E u \in Threads[d] : \/ thr[d][u].at = "woken"
                                            \/ thr[d][u].own /\ thr[d][u].at \in {"holds", "switching", "showing"}
    BY DEF SleeperHasWaker
  <2>1. d \in Devs /\ dev[d].state = "ready" /\ ThreadOk(d)
    BY <1>1 DEF Ready, OvInv, ThreadInv
  <2>2. PICK u \in Threads[d] : thr[d][u].at = "woken" \/ u \in Owners(d)
    BY <2>1 DEF ThreadOk
  <2> QED
    BY <2>2 DEF Owners
<1> QED
  BY <1>1, Invariance, PTL

\* What Stays says of overlay o: it is off, or where it was.
Stays(o) == ovadd'[o].on => ovadd'[o].pipe = ovadd[o].pipe

LEMMA StaysWhenReset ==
  ASSUME TypeReg, NEW d \in Devs, NEW mode \in Modes, NEW o \in Overlays, ovadd' = resetOverlay(d, mode)
  PROVE  Stays(o)
<1>1. ovadd'[o] = ovadd[o] \/ ovadd'[o] = Off
  BY ResetFacts
<1> QED
  BY <1>1 DEF Stays, Off

\* Only Show lights an overlay on a pipe it was not on, and then on the one that the
\* mode wants.
LEMMA OnlyShowMoves ==
  ASSUME OvInv, Next, NEW o \in Overlays
  PROVE  Stays(o) \/ (o \in Shown(ctx.mode) /\ ovadd'[o].pipe = RightPipe(o, ctx.mode))
<1>0. /\ Types /\ TypeHal /\ TypeCtx /\ TypeReg /\ TypeRest /\ ctx \in CtxTypes /\ ctx.mode \in Modes
      /\ ovadd \in [Overlays -> RegTypes]
  BY DEF OvInv, Types, TypeCtx, TypeReg, CtxTypes
<1>1. ASSUME UNCHANGED ovadd PROVE Stays(o)
  BY <1>1 DEF Stays
<1>2. ASSUME NEW d \in Devs, NEW p \in Overlays, Initialize(d, p) PROVE Stays(o)
  <2>1. CASE \E c \in detectDrmModeInfo(hal, ctx) : ovadd' = resetOverlay(d, c.ctx.mode)
    <3>1. PICK c \in detectDrmModeInfo(hal, ctx) : ovadd' = resetOverlay(d, c.ctx.mode)
      BY <2>1
    <3>2. c.ctx.mode \in Modes
      BY <1>0, DetectFacts DEF CtxTypes
    <3> QED
      BY <1>0, <3>1, <3>2, StaysWhenReset
  <2> QED
    BY <1>1, <1>2, <2>1 DEF Initialize, Stays
<1>3. ASSUME NEW d \in Devs, CloseData(d) PROVE Stays(o)
  <2> DEFINE regs == resetOverlay(d, ctx.mode)
  <2>1. ovadd' = [q \in Overlays |-> IF regs[q].dev = d THEN [regs[q] EXCEPT !.dev = None] ELSE regs[q]]
    BY <1>3 DEF CloseData
  <2>2. regs \in [Overlays -> RegTypes] /\ (regs[o] = ovadd[o] \/ regs[o] = Off)
    BY <1>0, ResetFacts
  <2> HIDE DEF regs
  <2>3. ovadd'[o].on = regs[o].on /\ ovadd'[o].pipe = regs[o].pipe
    BY <2>1, <2>2 DEF RegTypes
  <2>4. regs[o].on => regs[o].pipe = ovadd[o].pipe
    BY <2>2 DEF Off
  <2> QED
    BY <2>3, <2>4 DEF Stays
<1>4. ASSUME NEW d \in Devs, ResetOverlay(d) PROVE Stays(o)
  BY <1>0, <1>4, StaysWhenReset DEF ResetOverlay
<1>5. ASSUME NEW d \in Devs, NEW t \in Threads[d], SwitchMode(d, t) PROVE Stays(o)
  <2> DEFINE W == Darkened(thr[d][t].old)
  <2>1. ovadd' = Write(W, [q \in Overlays |-> Off], ovadd)
    BY <1>5 DEF SwitchMode, Darken, Darkened
  <2> HIDE DEF W
  <2>2. ovadd'[o] = ovadd[o] \/ ovadd'[o] = Off
    BY <2>1 DEF Write
  <2> QED
    BY <2>2 DEF Stays, Off
<1>6. ASSUME NEW d \in Devs, NEW t \in Threads[d], Show(d, t)
      PROVE  Stays(o) \/ (o \in Shown(ctx.mode) /\ ovadd'[o].pipe = RightPipe(o, ctx.mode))
  <2>1. UNCHANGED ovadd \/ (dev[d].block /\ ovadd' = updateOverlay(d, ctx.mode, TRUE))
    BY <1>6 DEF Show
  <2>2. CASE dev[d].block /\ hal.drm /\ ovadd' = updateOverlay(d, ctx.mode, TRUE)
    <3>1. ovadd'[o] = IF o \in Shown(ctx.mode) THEN [dev |-> d, pipe |-> RightPipe(o, ctx.mode), on |-> TRUE]
                      ELSE ovadd[o]
      BY <1>0, <2>2, ShowFacts
    <3> QED
      BY <3>1 DEF Stays
  <2>3. CASE ~hal.drm /\ ovadd' = updateOverlay(d, ctx.mode, TRUE)
    <3>1. ovadd' = ovadd
      BY <2>3 DEF updateOverlay, Write
    <3> QED
      BY <1>1, <3>1
  <2> QED
    BY <1>1, <2>1, <2>2, <2>3
<1>7. ASSUME NEW d \in Devs, OpenData(d) \/ SetParameter(d) PROVE Stays(o)
  BY <1>1, <1>4, <1>7 DEF OpenData, SetParameter, NotifyHdmi, PostExternal
<1>8. ASSUME NEW d \in Devs, NEW t \in Threads[d], Dequeue(d, t) \/ Wake(d, t) \/ QueueBuffer(d, t) PROVE Stays(o)
  BY <1>1, <1>8 DEF Dequeue, Wake, QueueBuffer
<1>9. ASSUME OpenControl \/ CloseControl \/ CreateOverlay PROVE Stays(o)
  BY <1>1, <1>9 DEF OpenControl, CloseControl, CreateOverlay
<1>10. ASSUME NEW p \in Overlays, DestroyOverlay(p) \/ \E span \in Spans : SetPosition(p, span) PROVE Stays(o)
  BY <1>1, <1>10 DEF DestroyOverlay, SetPosition
<1>11. ASSUME NEW c \in Changes, Plug(c[1], c[2]) PROVE Stays(o)
  BY <1>1, <1>11 DEF Plug
<1> QED
  BY <1>2, <1>3, <1>5, <1>6, <1>7, <1>8, <1>9, <1>10, <1>11 DEF Next, Open

\* An overlay that is on is never told to show on another pipe: it was turned off
\* first (drmModeChanged, updateOverlay).
THEOREM MovesInTheDark == Spec => PipeMovesDark
<1>1. ASSUME OvInv, [Next]_vars
      PROVE  \/ Excused({"torn", "drift"}) \/ Switching
             \/ \A o \in Overlays : ovadd[o].on /\ ovadd'[o].on => ovadd'[o].pipe = ovadd[o].pipe
  <2> SUFFICES ASSUME ~Excused({"torn", "drift"}), ~Switching, NEW o \in Overlays, ovadd[o].on, ovadd'[o].on
               PROVE  ovadd'[o].pipe = ovadd[o].pipe
    OBVIOUS
  <2>1. InPlace(o)
    BY <1>1, Placed
  <2>2. CASE Next
    BY <1>1, <2>1, <2>2, OnlyShowMoves DEF Stays, InPlace
  <2>3. CASE UNCHANGED vars
    BY <2>3 DEF vars
  <2> QED
    BY <1>1, <2>2, <2>3
<1> QED
  BY <1>1, Invariance, PTL DEF Spec, PipeMovesDark

\* A device's own picture is fetched from where it was copied to, whole and inside
\* its buffer, for every size and format that an overlay can be created with, NV12 of
\* whole pages (createOverlay, formatOverlayBuffer, bufferOffsetSetup,
\* coordinateSetup, scalingSetup).
THEOREM PictureIsFetched == Spec => []FetchedIsWritten
<1>1. ASSUME NEW s \in Shapes, s.format = "NV12" => s.height % 64 = 0 PROVE FetchedAsWritten(s)
  BY <1>1, ShapeAssumption, LayoutAgrees DEF AnyShape
<1>2. FetchedIsWritten
  BY <1>1 DEF FetchedIsWritten, LayoutsAgree
<1> QED
  BY <1>2, PTL
=============================================================================
