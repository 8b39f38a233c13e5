------------------------ MODULE MfldBuffers_proofs ------------------------
(***************************************************************************)
(* Proofs about the buffers of the Medfield composer, for any buffers,     *)
(* lengths of rings and number of targets.  BufInv is inductive: the       *)
(* counts of every object follow the slots of the ring (RingPart), what    *)
(* was set last is in the slot before mNextBuffer or in mPrevHitSlot       *)
(* (FrontInv), a plane that is off holds nothing (DarkInv), and provider   *)
(* and converter own what they made (RotInv, ConvInv).  TurnInv adds       *)
(* how old the targets are that the display may read.                      *)
(***************************************************************************)
EXTENDS MfldBuffers, FiniteSetTheorems, WellFoundedInduction, TLAPS

-----------------------------------------------------------------------------
\* What the rings are made of.
Entries == [stamp : Objects, obj : Objects, ttm : BOOLEAN]
Contents == Entries \cup {Empty}
Memory == [ref : [Objects -> Int], gtt : [Objects -> Int], lost : [Objects -> Nat],
           own : SUBSET Objects, fails : Nat]
RingStates == [slot : [Slots -> Contents], next : SlotsOf(user),
               prev : SlotsOf(user) \cup {NoSlot}, k : Memory, ok : BOOLEAN]
Ways == {"ok", "fail", "lost", "dead"}

Held(slot, o) == {i \in Slots : slot[i].obj = o}
Direct(slot, o) == {i \in Held(slot, o) : ~slot[i].ttm}
Counted(k, slot) ==
  \A o \in Objects : /\ k.ref[o] = Cardinality(Held(slot, o)) + k.lost[o]
                     /\ k.gtt[o] = Cardinality(Direct(slot, o))

\* What one entry adds to the references and to the GTT mappings of o.
One(e, o) == IF e.obj = o THEN 1 ELSE 0
OneDirect(e, o) == IF e.obj = o /\ ~e.ttm THEN 1 ELSE 0

LEMMA SlotsAreFinite == IsFiniteSet(Slots)
<1> DEFINE I(u) == 0..(RingOf[u] - 1)
<1>1. \A u \in Users : IsFiniteSet(I(u))
  <2> SUFFICES ASSUME NEW u \in Users PROVE IsFiniteSet(I(u))
    OBVIOUS
  <2>1. RingOf[u] - 1 \in Int
    BY RingsOfTwo
  <2> QED
    BY <2>1, FS_Interval
<1>2. Slots = ((I("overlay") \cup I("rgb")) \cup I("sprite")) \cup I("fb")
  BY DEF Slots, SlotsOf, Users
<1>3. IsFiniteSet(I("overlay")) /\ IsFiniteSet(I("rgb")) /\ IsFiniteSet(I("sprite")) /\ IsFiniteSet(I("fb"))
  BY <1>1 DEF Users
<1> HIDE DEF I
<1>4. IsFiniteSet((I("overlay") \cup I("rgb")) \cup I("sprite"))
  BY <1>3, FS_Union
<1> QED
  BY <1>2, <1>3, <1>4, FS_Union

LEMMA HeldIsFinite ==
  ASSUME NEW slot, NEW o
  PROVE  /\ IsFiniteSet(Held(slot, o)) /\ Cardinality(Held(slot, o)) \in Nat
         /\ IsFiniteSet(Direct(slot, o)) /\ Cardinality(Direct(slot, o)) \in Nat
<1>1. Held(slot, o) \in SUBSET Slots /\ Direct(slot, o) \in SUBSET Slots
  BY DEF Held, Direct
<1>2. IsFiniteSet(Held(slot, o)) /\ IsFiniteSet(Direct(slot, o))
  BY <1>1, SlotsAreFinite, FS_Subset
<1> QED
  BY <1>2, FS_CardinalityType

\* The least slot of a nonempty set of them is in the set.
LEMMA MinIsMember ==
  ASSUME NEW S \in SUBSET Nat, S # {}
  PROVE  Min(S) \in S
<1> DEFINE R == StrictSubsetOrdering(Nat)
           upto == {0..x : x \in S}
<1>1. \E x \in upto : \A y \in upto : ~ (<<y, x>> \in R)
  <2>1. IsWellFoundedOn(R, FiniteSubsetsOf(Nat))
    BY FS_StrictSubsetOrderingWellFounded
  <2>2. upto \subseteq FiniteSubsetsOf(Nat)
    <3> SUFFICES ASSUME NEW x \in S PROVE 0..x \in FiniteSubsetsOf(Nat)
      OBVIOUS
    <3>1. IsFiniteSet(0..x)
      BY FS_Interval
    <3> QED
      BY <3>1 DEF FiniteSubsetsOf
  <2>3. upto # {}
    OBVIOUS
  <2> HIDE DEF R, upto
  <2> QED
    BY <2>1, <2>2, <2>3, WFMin
<1>2. PICK x \in S : \A y \in S : ~ (<<0..y, 0..x>> \in R)
  BY <1>1
<1>3. \A y \in S : x <= y
  <2> SUFFICES ASSUME NEW y \in S, y < x PROVE FALSE
    OBVIOUS
  <2>1. 0..y \subseteq 0..x /\ x \in 0..x /\ x \notin 0..y
    OBVIOUS
  <2>2. 0..y # 0..x /\ 0..y \in SUBSET Nat /\ 0..x \in SUBSET Nat
    BY <2>1
  <2>3. <<0..y, 0..x>> \in R
    BY <2>1, <2>2 DEF StrictSubsetOrdering
  <2> QED
    BY <1>2, <2>3
<1> QED
  BY <1>3 DEF Min

LEMMA RingOfUser ==
  ASSUME user \in Users
  PROVE  /\ RingOf[user] \in Nat \ {0, 1}
         /\ SlotsOf(user) \subseteq Slots /\ 0 \in SlotsOf(user) /\ SlotsOf(user) \subseteq Nat
         /\ \A i \in SlotsOf(user) : After(i) \in SlotsOf(user) /\ After(i) # i
<1>1. RingOf[user] \in Nat \ {0, 1}
  BY RingsOfTwo
<1>2. SlotsOf(user) \subseteq Slots
  BY DEF Slots
<1>3. \A i \in SlotsOf(user) : After(i) = IF i = RingOf[user] - 1 THEN 0 ELSE i + 1
  BY <1>1 DEF SlotsOf, After
<1> QED
  BY <1>1, <1>2, <1>3 DEF SlotsOf

LEMMA SetSlot ==
  ASSUME NEW slot \in [Slots -> Contents], NEW i \in Slots, NEW e \in Contents, NEW o
  PROVE  LET then == [slot EXCEPT ![i] = e]
         IN /\ then \in [Slots -> Contents]
            /\ Cardinality(Held(then, o)) = Cardinality(Held(slot, o)) - One(slot[i], o) + One(e, o)
            /\ Cardinality(Direct(then, o))
                 = Cardinality(Direct(slot, o)) - OneDirect(slot[i], o) + OneDirect(e, o)
<1> DEFINE then == [slot EXCEPT ![i] = e]
           H == Held(slot, o) \ {i}
           D == Direct(slot, o) \ {i}
<1>1. Held(then, o) = IF e.obj = o THEN H \cup {i} ELSE H
  BY DEF Held
<1>2. Direct(then, o) = IF e.obj = o /\ ~e.ttm THEN D \cup {i} ELSE D
  BY DEF Direct, Held
<1>3. i \in Held(slot, o) <=> slot[i].obj = o
  BY DEF Held
<1>4. i \in Direct(slot, o) <=> slot[i].obj = o /\ ~slot[i].ttm
  BY DEF Held, Direct
<1>5. IsFiniteSet(H) /\ Cardinality(H) = Cardinality(Held(slot, o)) - One(slot[i], o)
  BY <1>3, HeldIsFinite, FS_RemoveElement, FS_CardinalityType DEF One
<1>6. IsFiniteSet(D) /\ Cardinality(D) = Cardinality(Direct(slot, o)) - OneDirect(slot[i], o)
  BY <1>4, HeldIsFinite, FS_RemoveElement, FS_CardinalityType DEF OneDirect
<1>7. i \notin H /\ i \notin D /\ Cardinality(H) \in Nat /\ Cardinality(D) \in Nat
  BY <1>5, <1>6, FS_CardinalityType
<1>8. Cardinality(H \cup {i}) = Cardinality(H) + 1 /\ Cardinality(D \cup {i}) = Cardinality(D) + 1
  BY <1>5, <1>6, <1>7, FS_AddElement
<1>9. then \in [Slots -> Contents]
  OBVIOUS
<1> HIDE DEF H, D
<1>10. Cardinality(Held(then, o)) = Cardinality(H) + One(e, o)
  BY <1>1, <1>7, <1>8 DEF One
<1>11. Cardinality(Direct(then, o)) = Cardinality(D) + OneDirect(e, o)
  BY <1>2, <1>7, <1>8 DEF OneDirect
<1> QED
  BY <1>5, <1>6, <1>9, <1>10, <1>11

-----------------------------------------------------------------------------
\* Giving an entry up, and taking one.
LEMMA DropGivesBack ==
  ASSUME NEW k \in Memory, NEW e \in Contents
  PROVE  LET d == Drop(k, e)
         IN /\ d \in Memory /\ d.own = k.own /\ d.fails = k.fails /\ d.lost = k.lost
            /\ \A o \in Objects : /\ d.ref[o] = k.ref[o] - One(e, o)
                                  /\ d.gtt[o] = k.gtt[o] - OneDirect(e, o)
<1>1. CASE e.obj = None
  <2>1. \A o \in Objects : One(e, o) = 0 /\ OneDirect(e, o) = 0
    BY <1>1, NamesDiffer DEF One, OneDirect
  <2>2. Drop(k, e) = k
    BY <1>1 DEF Drop, GraphicUnmap, GraphicUnwrap
  <2> QED
    BY <2>1, <2>2 DEF Memory
<1>2. CASE e.obj # None
  <2>1. e \in Entries /\ e.obj \in Objects /\ e.ttm \in BOOLEAN
    BY <1>2 DEF Contents, Entries, Empty
  <2>2. CASE e.ttm
    <3>1. Drop(k, e) = [k EXCEPT !.ref[e.obj] = @ - 1]
      BY <1>2, <2>2 DEF Drop, GraphicUnwrap
    <3> QED
      BY <2>1, <2>2, <3>1 DEF Memory, One, OneDirect
  <2>3. CASE ~e.ttm
    <3>1. Drop(k, e) = [[k EXCEPT !.gtt[e.obj] = @ - 1] EXCEPT !.ref[e.obj] = @ - 1]
      BY <1>2, <2>3 DEF Drop, GraphicUnmap, GttUnmap
    <3>2. Drop(k, e) = [ref |-> [k.ref EXCEPT ![e.obj] = @ - 1], gtt |-> [k.gtt EXCEPT ![e.obj] = @ - 1],
                        lost |-> k.lost, own |-> k.own, fails |-> k.fails]
      BY <3>1 DEF Memory
    <3> QED
      BY <2>1, <2>3, <3>2 DEF Memory, One, OneDirect
  <2> QED
    BY <2>1, <2>2, <2>3
<1> QED
  BY <1>1, <1>2

\* Only a success leaves something to be given back; what wrap loses is counted,
\* and every failure for want of memory too.
LEMMA TakeAdds ==
  ASSUME NEW k \in Memory, NEW e \in Entries, NEW how \in Ways, how = "lost" => e.ttm
  PROVE  LET d == Take(k, e, how)
         IN /\ d \in Memory /\ d.own = k.own
            /\ d.fails = IF how \in {"fail", "lost"} THEN k.fails + 1 ELSE k.fails
            /\ how = "ok" => /\ d.lost = k.lost
                             /\ \A o \in Objects : /\ d.ref[o] = k.ref[o] + One(e, o)
                                                   /\ d.gtt[o] = k.gtt[o] + OneDirect(e, o)
            /\ how # "ok" => \A o \in Objects : /\ d.ref[o] - d.lost[o] = k.ref[o] - k.lost[o]
                                                /\ d.gtt[o] = k.gtt[o]
<1>0. e.obj \in Objects /\ e.ttm \in BOOLEAN
  BY DEF Entries
<1>1. CASE e.ttm /\ how = "ok"
  <2>1. Take(k, e, how) = [k EXCEPT !.ref[e.obj] = @ + 1]
    BY <1>1 DEF Take, GraphicWrap
  <2> QED
    BY <1>0, <1>1, <2>1 DEF Memory, One, OneDirect
<1>2. CASE e.ttm /\ how = "lost"
  <2>1. Take(k, e, how)
          = [ref |-> [k.ref EXCEPT ![e.obj] = @ + 1], gtt |-> k.gtt,
             lost |-> [k.lost EXCEPT ![e.obj] = @ + 1], own |-> k.own, fails |-> k.fails + 1]
    BY <1>2 DEF Take, GraphicWrap, Short, Memory
  <2> QED
    BY <1>0, <1>2, <2>1 DEF Memory, One, OneDirect
<1>3. CASE how = "fail"
  <2>1. Take(k, e, how) = [k EXCEPT !.fails = @ + 1]
    BY <1>3 DEF Take, GraphicWrap, GraphicMap, Short
  <2> QED
    BY <1>0, <1>3, <2>1 DEF Memory
<1>4. CASE how = "dead"
  <2>1. Take(k, e, how) = k
    BY <1>4 DEF Take, GraphicWrap, GraphicMap
  <2> QED
    BY <1>4, <2>1 DEF Memory
<1>5. CASE ~e.ttm /\ how = "ok"
  <2>1. Take(k, e, how)
          = [ref |-> [k.ref EXCEPT ![e.obj] = @ + 1], gtt |-> [k.gtt EXCEPT ![e.obj] = @ + 1],
             lost |-> k.lost, own |-> k.own, fails |-> k.fails]
    BY <1>5 DEF Take, GraphicMap, GttMap, Memory
  <2> QED
    BY <1>0, <1>5, <2>1 DEF Memory, One, OneDirect
<1> QED
  BY <1>1, <1>2, <1>3, <1>4, <1>5 DEF Ways

LEMMA EvictCounts ==
  ASSUME NEW r \in RingStates, Counted(r.k, r.slot), NEW i \in Slots
  PROVE  LET d == Evict(r, i)
         IN /\ d \in RingStates /\ Counted(d.k, d.slot)
            /\ d.slot = [r.slot EXCEPT ![i] = Empty]
            /\ d.next = r.next /\ d.prev = r.prev /\ d.ok = r.ok
            /\ d.k.own = r.k.own /\ d.k.fails = r.k.fails
<1> DEFINE d == Evict(r, i)
<1>1. r.k \in Memory /\ r.slot \in [Slots -> Contents] /\ r.slot[i] \in Contents
  BY DEF RingStates
<1>2. d = [r EXCEPT !.k = Drop(r.k, r.slot[i]), !.slot[i] = Empty]
  BY DEF Evict
<1>3. Empty \in Contents
  BY DEF Contents
<1>4. Drop(r.k, r.slot[i]) \in Memory
  BY <1>1, DropGivesBack
<1>5. /\ d.k = Drop(r.k, r.slot[i]) /\ d.slot = [r.slot EXCEPT ![i] = Empty]
      /\ d.next = r.next /\ d.prev = r.prev /\ d.ok = r.ok
  BY <1>2 DEF RingStates
<1>6. d \in RingStates
  <2>1. [r.slot EXCEPT ![i] = Empty] \in [Slots -> Contents]
    BY <1>1, <1>3
  <2> QED
    BY <1>2, <1>4, <2>1 DEF RingStates
<1>7. Counted(d.k, d.slot)
  <2> SUFFICES ASSUME NEW o \in Objects
               PROVE  /\ d.k.ref[o] = Cardinality(Held(d.slot, o)) + d.k.lost[o]
                      /\ d.k.gtt[o] = Cardinality(Direct(d.slot, o))
    BY DEF Counted
  <2>1. /\ d.k.ref[o] = r.k.ref[o] - One(r.slot[i], o)
        /\ d.k.gtt[o] = r.k.gtt[o] - OneDirect(r.slot[i], o)
        /\ d.k.lost = r.k.lost
    BY <1>1, <1>5, DropGivesBack
  <2>2. /\ Cardinality(Held(d.slot, o)) = Cardinality(Held(r.slot, o)) - One(r.slot[i], o) + One(Empty, o)
        /\ Cardinality(Direct(d.slot, o))
             = Cardinality(Direct(r.slot, o)) - OneDirect(r.slot[i], o) + OneDirect(Empty, o)
    BY <1>1, <1>3, <1>5, SetSlot
  <2>3. One(Empty, o) = 0 /\ OneDirect(Empty, o) = 0
    BY NamesDiffer DEF One, OneDirect, Empty
  <2>4. /\ r.k.ref[o] = Cardinality(Held(r.slot, o)) + r.k.lost[o]
        /\ r.k.gtt[o] = Cardinality(Direct(r.slot, o))
    BY DEF Counted
  <2>5. One(r.slot[i], o) \in Int /\ OneDirect(r.slot[i], o) \in Int /\ r.k.lost[o] \in Int
    BY <1>1 DEF One, OneDirect, Memory
  <2> QED
    BY <2>1, <2>2, <2>3, <2>4, <2>5, HeldIsFinite
<1> QED
  BY <1>1, <1>5, <1>6, <1>7, DropGivesBack

\* An entry that was taken is kept in an empty slot.
Kept(r, i, e) == Keep([r EXCEPT !.k = Take(r.k, e, "ok")], i, e)

KeptIn(r, d, i, e) ==
  /\ d \in RingStates /\ Counted(d.k, d.slot)
  /\ d.slot = [r.slot EXCEPT ![i] = e]
  /\ d.next = After(i) /\ d.prev = i /\ d.ok = TRUE
  /\ d.k.own = r.k.own /\ d.k.fails = r.k.fails

LEMMA KeepCounts ==
  ASSUME NEW r \in RingStates, Counted(r.k, r.slot), user \in Users,
         NEW i \in SlotsOf(user), r.slot[i] = Empty, NEW e \in Entries
  PROVE  KeptIn(r, Kept(r, i, e), i, e)
<1> DEFINE t == Take(r.k, e, "ok")
           d == Kept(r, i, e)
<1>1. r.k \in Memory /\ r.slot \in [Slots -> Contents] /\ i \in Slots /\ e \in Contents
  BY RingOfUser DEF RingStates, Contents
<1>2. t \in Memory /\ t.own = r.k.own /\ t.fails = r.k.fails /\ t.lost = r.k.lost
  BY <1>1, TakeAdds DEF Ways
<1>3. \A o \in Objects : t.ref[o] = r.k.ref[o] + One(e, o) /\ t.gtt[o] = r.k.gtt[o] + OneDirect(e, o)
  BY <1>1, TakeAdds DEF Ways
<1> HIDE DEF t
<1>4. d = [r EXCEPT !.k = t, !.slot[i] = e, !.next = After(i), !.prev = i, !.ok = TRUE]
  BY DEF Kept, Keep, RingStates, t
<1>5. /\ d.k = t /\ d.slot = [r.slot EXCEPT ![i] = e]
      /\ d.next = After(i) /\ d.prev = i /\ d.ok = TRUE
  BY <1>4 DEF RingStates
<1>6. d \in RingStates
  <2>1. [r.slot EXCEPT ![i] = e] \in [Slots -> Contents]
    BY <1>1
  <2>2. After(i) \in SlotsOf(user)
    BY RingOfUser
  <2> QED
    BY <1>2, <1>4, <2>1, <2>2 DEF RingStates
<1>7. Counted(t, [r.slot EXCEPT ![i] = e])
  <2> SUFFICES ASSUME NEW o \in Objects
               PROVE  /\ t.ref[o] = Cardinality(Held([r.slot EXCEPT ![i] = e], o)) + t.lost[o]
                      /\ t.gtt[o] = Cardinality(Direct([r.slot EXCEPT ![i] = e], o))
    BY DEF Counted
  <2>1. /\ Cardinality(Held([r.slot EXCEPT ![i] = e], o))
             = Cardinality(Held(r.slot, o)) - One(r.slot[i], o) + One(e, o)
        /\ Cardinality(Direct([r.slot EXCEPT ![i] = e], o))
             = Cardinality(Direct(r.slot, o)) - OneDirect(r.slot[i], o) + OneDirect(e, o)
    BY <1>1, SetSlot
  <2>2. One(r.slot[i], o) = 0 /\ OneDirect(r.slot[i], o) = 0
    BY NamesDiffer DEF One, OneDirect, Empty
  <2>3. /\ r.k.ref[o] = Cardinality(Held(r.slot, o)) + r.k.lost[o]
        /\ r.k.gtt[o] = Cardinality(Direct(r.slot, o))
    BY DEF Counted
  <2>4. One(e, o) \in Int /\ OneDirect(e, o) \in Int /\ r.k.lost[o] \in Int
    BY <1>1 DEF One, OneDirect, Memory
  <2> QED
    BY <1>2, <1>3, <2>1, <2>2, <2>3, <2>4, HeldIsFinite
<1> QED
  BY <1>2, <1>5, <1>6, <1>7 DEF t, KeptIn

\* A mapping that failed leaves the counts as they are.
LEMMA MissCounts ==
  ASSUME NEW r \in RingStates, Counted(r.k, r.slot), NEW e \in Entries,
         NEW how \in Ways \ {"ok"}, how = "lost" => e.ttm
  PROVE  LET t == Take(r.k, e, how)
         IN /\ [r EXCEPT !.k = t] \in RingStates /\ Counted(t, r.slot) /\ t.own = r.k.own
            /\ t.fails = IF how \in {"fail", "lost"} THEN r.k.fails + 1 ELSE r.k.fails
<1> DEFINE t == Take(r.k, e, how)
<1>1. r.k \in Memory
  BY DEF RingStates
<1>2. /\ t \in Memory /\ t.own = r.k.own
      /\ t.fails = IF how \in {"fail", "lost"} THEN r.k.fails + 1 ELSE r.k.fails
      /\ \A o \in Objects : t.ref[o] - t.lost[o] = r.k.ref[o] - r.k.lost[o] /\ t.gtt[o] = r.k.gtt[o]
  BY <1>1, TakeAdds
<1> HIDE DEF t
<1>3. [r EXCEPT !.k = t] \in RingStates
  BY <1>2 DEF RingStates
<1>4. ASSUME NEW o \in Objects
      PROVE  /\ t.ref[o] = Cardinality(Held(r.slot, o)) + t.lost[o]
             /\ t.gtt[o] = Cardinality(Direct(r.slot, o))
  <2>1. /\ r.k.ref[o] = Cardinality(Held(r.slot, o)) + r.k.lost[o]
        /\ r.k.gtt[o] = Cardinality(Direct(r.slot, o))
    BY DEF Counted
  <2>2. t.ref[o] \in Int /\ t.lost[o] \in Int /\ r.k.lost[o] \in Int /\ r.k.ref[o] \in Int
    BY <1>1, <1>2 DEF Memory
  <2> QED
    BY <1>2, <2>1, <2>2, HeldIsFinite
<1> QED
  BY <1>2, <1>3, <1>4 DEF Counted, t

-----------------------------------------------------------------------------
\* setDataBuffer of the three kinds of ring: whatever the mapping comes to, the
\* counts stay right and a slot holds what it held, nothing, or the new entry.
Settled(r, d, e) ==
  /\ d \in RingStates /\ Counted(d.k, d.slot)
  /\ d.k.own = r.k.own /\ d.k.fails \in Nat /\ d.k.fails >= r.k.fails
  /\ \A i \in Slots : d.slot[i] \in {r.slot[i], Empty, e}

\* Without a failure the buffer is found or kept.
Fortunate(r, d, how) == d.k.fails = 0 /\ how[1] # "dead"
OverlayShown(r, d, e, how) ==
  Fortunate(r, d, how) =>
    /\ d.ok = TRUE
    /\ \E j \in SlotsOf(user) : d.slot[j] = e /\ d.next = After(j)
    /\ \A i \in Slots \ {r.next} : d.slot[i] = r.slot[i]

LEMMA OverlaySetSettles ==
  ASSUME NEW r \in RingStates, Counted(r.k, r.slot), user \in Users, NEW e \in Entries,
         NEW how \in Ways \X Ways, "lost" \in {how[1], how[2]} => e.ttm
  PROVE  LET d == OverlaySet(r, e, how)
         IN /\ Settled(r, d, e)
            /\ OverlayShown(r, d, e, how)
<1> DEFINE hits == {i \in SlotsOf(user) : r.slot[i] = e}
           once == Evict(r, r.next)
           k1 == Take(once.k, e, how[1])
           missed == [once EXCEPT !.k = k1, !.next = 0]
           twice == Evict(missed, 0)
           k2 == Take(twice.k, e, how[2])
           d == OverlaySet(r, e, how)
<1>0. /\ r.next \in SlotsOf(user) /\ r.next \in Slots /\ 0 \in Slots /\ r.slot \in [Slots -> Contents]
      /\ how[1] \in Ways /\ how[2] \in Ways /\ r.k.fails \in Nat
  BY RingOfUser DEF RingStates, Memory
<1>1. CASE hits # {}
  <2>1. d = Hit(r, Min(hits))
    BY <1>1 DEF OverlaySet
  <2>2. PICK j \in SlotsOf(user) : j = Min(hits) /\ r.slot[j] = e
    <3>1. hits \in SUBSET Nat
      BY RingOfUser
    <3> QED
      BY <1>1, <3>1, MinIsMember
  <2>3. d = [r EXCEPT !.next = After(j), !.ok = TRUE]
    BY <2>1, <2>2 DEF Hit
  <2>4. d \in RingStates /\ d.k = r.k /\ d.slot = r.slot /\ d.ok = TRUE /\ d.next = After(j)
    <3>1. After(j) \in SlotsOf(user)
      BY RingOfUser
    <3> QED
      BY <2>3, <3>1 DEF RingStates
  <2> HIDE DEF d
  <2>5. Settled(r, d, e)
    BY <1>0, <2>4 DEF Settled
  <2> QED
    BY <2>2, <2>4, <2>5 DEF d, OverlayShown
<1>2. /\ once \in RingStates /\ Counted(once.k, once.slot)
      /\ once.slot = [r.slot EXCEPT ![r.next] = Empty]
      /\ once.k.own = r.k.own /\ once.k.fails = r.k.fails
  BY <1>0, EvictCounts
<1>3. once.slot[r.next] = Empty
  BY <1>0, <1>2
<1>4. CASE hits = {} /\ how[1] = "ok"
  <2>1. d = Kept(once, r.next, e)
    BY <1>4 DEF OverlaySet, Kept
  <2> HIDE DEF once, d
  <2>2. /\ d \in RingStates /\ Counted(d.k, d.slot)
        /\ d.slot = [once.slot EXCEPT ![r.next] = e]
        /\ d.next = After(r.next) /\ d.ok = TRUE
        /\ d.k.own = once.k.own /\ d.k.fails = once.k.fails
    <3>1. /\ once \in RingStates /\ Counted(once.k, once.slot)
          /\ r.next \in SlotsOf(user) /\ once.slot[r.next] = Empty
      BY <1>0, <1>2, <1>3
    <3>2. KeptIn(once, d, r.next, e)
      BY <2>1, <3>1, KeepCounts
    <3> QED
      BY <3>2 DEF KeptIn
  <2> HIDE DEF d
  <2>3. d.slot = [r.slot EXCEPT ![r.next] = e]
    BY <1>0, <1>2, <2>2
  <2>4. d.slot[r.next] = e
    BY <1>0, <2>3
  <2>5. Settled(r, d, e)
    BY <1>0, <1>2, <2>2, <2>3 DEF Settled
  <2> QED
    BY <1>0, <2>2, <2>3, <2>4, <2>5 DEF d, OverlayShown
<1>5. CASE hits = {} /\ how[1] # "ok"
  <2>1. /\ [once EXCEPT !.k = k1] \in RingStates /\ Counted(k1, once.slot) /\ k1.own = once.k.own
        /\ k1.fails = IF how[1] \in {"fail", "lost"} THEN once.k.fails + 1 ELSE once.k.fails
    BY <1>0, <1>2, <1>5, MissCounts
  <2> HIDE DEF k1
  <2>2. missed \in RingStates /\ missed.k = k1 /\ missed.slot = once.slot
    BY <1>2, <2>1, RingOfUser DEF RingStates
  <2> HIDE DEF missed
  <2>3. /\ twice \in RingStates /\ Counted(twice.k, twice.slot)
        /\ twice.slot = [missed.slot EXCEPT ![0] = Empty]
        /\ twice.k.own = k1.own /\ twice.k.fails = k1.fails
    BY <1>0, <2>1, <2>2, EvictCounts
  <2>4. twice.slot[0] = Empty
    <3>1. missed.slot \in [Slots -> Contents]
      BY <2>2 DEF RingStates
    <3> QED
      BY <1>0, <2>3, <3>1
  <2>5. \A i \in Slots : twice.slot[i] \in {r.slot[i], Empty}
    BY <1>0, <1>2, <2>2, <2>3
  <2>6. k1.fails \in Nat /\ k1.fails >= r.k.fails /\ (how[1] # "dead" => k1.fails > 0)
    BY <1>0, <1>2, <1>5, <2>1 DEF Ways
  <2>7. CASE how[2] = "ok"
    <3>1. d = Kept(twice, 0, e)
      BY <1>5, <2>7 DEF OverlaySet, missed, k1, Kept
    <3> HIDE DEF twice, d
    <3>2. /\ d \in RingStates /\ Counted(d.k, d.slot)
          /\ d.slot = [twice.slot EXCEPT ![0] = e]
          /\ d.k.own = twice.k.own /\ d.k.fails = twice.k.fails
      <4>1. /\ twice \in RingStates /\ Counted(twice.k, twice.slot)
            /\ 0 \in SlotsOf(user) /\ twice.slot[0] = Empty
        BY <2>3, <2>4, RingOfUser
      <4>2. KeptIn(twice, d, 0, e)
        BY <3>1, <4>1, KeepCounts
      <4> QED
        BY <4>2 DEF KeptIn
    <3> HIDE DEF d
    <3>3. \A i \in Slots : d.slot[i] \in {r.slot[i], Empty, e}
      <4>1. twice.slot \in [Slots -> Contents]
        BY <2>3 DEF RingStates
      <4> QED
        BY <1>0, <2>5, <3>2, <4>1
    <3>4. Settled(r, d, e)
      BY <1>2, <2>1, <2>3, <2>6, <3>2, <3>3 DEF Settled
    <3>5. ~Fortunate(r, d, how)
      BY <1>0, <2>3, <2>6, <3>2 DEF Fortunate
    <3> QED
      BY <3>4, <3>5 DEF d, OverlayShown
  <2>8. CASE how[2] # "ok"
    <3>1. d = [twice EXCEPT !.k = k2]
      BY <1>5, <2>8 DEF OverlaySet, missed, k1
    <3> HIDE DEF twice
    <3>2. /\ [twice EXCEPT !.k = k2] \in RingStates /\ Counted(k2, twice.slot) /\ k2.own = twice.k.own
          /\ k2.fails = IF how[2] \in {"fail", "lost"} THEN twice.k.fails + 1 ELSE twice.k.fails
      BY <1>0, <2>3, <2>8, MissCounts
    <3> HIDE DEF k2
    <3>3. d.k = k2 /\ d.slot = twice.slot
      BY <2>3, <3>1 DEF RingStates
    <3>4. d \in RingStates
      BY <3>1, <3>2
    <3> HIDE DEF d
    <3>5. Settled(r, d, e)
      <4>1. Counted(d.k, d.slot)
        BY <3>2, <3>3
      <4>2. d.k.own = r.k.own /\ d.k.fails \in Nat /\ d.k.fails >= r.k.fails
        BY <1>2, <2>1, <2>3, <2>6, <3>2, <3>3, <1>0
      <4>3. \A i \in Slots : d.slot[i] \in {r.slot[i], Empty, e}
        BY <2>5, <3>3
      <4> QED
        BY <3>4, <4>1, <4>2, <4>3 DEF Settled
    <3>6. ~Fortunate(r, d, how)
      BY <1>0, <2>3, <2>6, <3>2, <3>3 DEF Fortunate
    <3> QED
      BY <3>5, <3>6 DEF d, OverlayShown
  <2> QED
    BY <2>7, <2>8
<1> QED
  BY <1>1, <1>4, <1>5

\* The slot shown last is never the one replaced.
LEMMA SpriteSetSettles ==
  ASSUME NEW r \in RingStates, Counted(r.k, r.slot), user \in Users, NEW e \in Entries, ~e.ttm,
         r.ok = FALSE, NEW how \in Ways \X Ways, "lost" \notin {how[1], how[2]}
  PROVE  LET d == SpriteSet(r, e, how)
         IN /\ Settled(r, d, e)
            /\ d.ok => \E j \in SlotsOf(user) : d.slot[j].stamp = e.stamp /\ d.prev = j
            /\ ~d.ok => d.prev = r.prev
            /\ \A i \in SlotsOf(user) : i = r.prev => d.slot[i] = r.slot[i]
            /\ how[1] = "dead" /\ (\A i \in Slots : r.slot[i] = Empty) => ~d.ok /\ d.slot = r.slot
<1> DEFINE hits == {i \in SlotsOf(user) : r.slot[i].stamp = e.stamp}
           n == IF r.prev = r.next THEN After(r.next) ELSE r.next
           moved == [r EXCEPT !.next = n]
           out == Evict(moved, n)
           k1 == GraphicMap(out.k, e.obj, how[1])
           d == SpriteSet(r, e, how)
<1>0. /\ r.next \in SlotsOf(user) /\ r.slot \in [Slots -> Contents] /\ SlotsOf(user) \subseteq Slots
      /\ how[1] \in Ways /\ how[2] \in Ways /\ r.k.fails \in Nat
  BY RingOfUser DEF RingStates, Memory
<1>1. n \in SlotsOf(user) /\ n \in Slots /\ n # r.prev
  BY <1>0, RingOfUser
<1>2. k1 = Take(out.k, e, how[1])
  BY DEF Take
<1>3. CASE hits # {}
  <2>1. PICK j \in SlotsOf(user) : j = Min(hits) /\ r.slot[j].stamp = e.stamp
    <3>1. hits \in SUBSET Nat
      BY RingOfUser
    <3> QED
      BY <1>3, <3>1, MinIsMember
  <2>2. d = [r EXCEPT !.prev = j, !.ok = TRUE]
    BY <1>3, <2>1 DEF SpriteSet
  <2>3. d \in RingStates /\ d.k = r.k /\ d.slot = r.slot /\ d.ok = TRUE /\ d.prev = j
    BY <2>2 DEF RingStates
  <2> HIDE DEF d
  <2>4. Settled(r, d, e)
    BY <1>0, <2>3 DEF Settled
  <2>5. ~(\A i \in Slots : r.slot[i] = Empty)
    <3>1. e.stamp # None
      BY NamesDiffer DEF Entries
    <3>2. r.slot[j] # Empty
      BY <2>1, <3>1 DEF Empty
    <3> QED
      BY <1>0, <3>2
  <2> QED
    BY <2>1, <2>3, <2>4, <2>5 DEF d
<1>4. moved \in RingStates /\ moved.k = r.k /\ moved.slot = r.slot /\ moved.prev = r.prev /\ moved.ok = r.ok
  BY <1>1 DEF RingStates
<1> HIDE DEF n, moved
<1>5. /\ out \in RingStates /\ Counted(out.k, out.slot)
      /\ out.slot = [moved.slot EXCEPT ![n] = Empty]
      /\ out.prev = r.prev /\ out.ok = r.ok
      /\ out.k.own = r.k.own /\ out.k.fails = r.k.fails
  BY <1>1, <1>4, EvictCounts
<1>6. out.slot[n] = Empty
  BY <1>0, <1>1, <1>4, <1>5
<1>7. CASE hits = {} /\ how[1] = "ok"
  <2>1. d = Kept(out, n, e)
    BY <1>2, <1>7 DEF SpriteSet, n, moved, Kept
  <2> HIDE DEF out, d
  <2>2. /\ d \in RingStates /\ Counted(d.k, d.slot)
        /\ d.slot = [out.slot EXCEPT ![n] = e]
        /\ d.prev = n /\ d.ok = TRUE
        /\ d.k.own = out.k.own /\ d.k.fails = out.k.fails
    <3>1. /\ out \in RingStates /\ Counted(out.k, out.slot)
          /\ n \in SlotsOf(user) /\ out.slot[n] = Empty
      BY <1>1, <1>5, <1>6
    <3>2. KeptIn(out, d, n, e)
      BY <2>1, <3>1, KeepCounts
    <3> QED
      BY <3>2 DEF KeptIn
  <2> HIDE DEF d
  <2>3. d.slot = [r.slot EXCEPT ![n] = e]
    BY <1>0, <1>1, <1>4, <1>5, <2>2
  <2>4. d.slot[n] = e /\ \A i \in Slots \ {n} : d.slot[i] = r.slot[i]
    BY <1>0, <1>1, <2>3
  <2>5. Settled(r, d, e)
    BY <1>0, <1>5, <2>2, <2>4 DEF Settled
  <2> QED
    BY <1>0, <1>1, <1>7, <2>2, <2>4, <2>5 DEF d
<1>8. CASE hits = {} /\ how[1] # "ok"
  <2>1. d = out
    BY <1>8 DEF SpriteSet, n, moved
  <2> HIDE DEF out, d
  <2>2. Settled(r, d, e) /\ d.ok = FALSE /\ d.prev = r.prev
    BY <1>0, <1>1, <1>4, <1>5, <2>1 DEF Settled
  <2>3. \A i \in SlotsOf(user) : i = r.prev => d.slot[i] = r.slot[i]
    BY <1>0, <1>1, <1>4, <1>5, <2>1
  <2>4. (\A i \in Slots : r.slot[i] = Empty) => d.slot = r.slot
    BY <1>0, <1>1, <1>4, <1>5, <2>1
  <2> QED
    BY <2>2, <2>3, <2>4 DEF d
<1> QED
  BY <1>3, <1>7, <1>8

LEMMA FramebufferSetSettles ==
  ASSUME NEW r \in RingStates, Counted(r.k, r.slot), user \in Users, NEW e \in Entries, ~e.ttm,
         r.ok = FALSE, NEW how \in Ways \X Ways, "lost" \notin {how[1], how[2]}
  PROVE  LET d == FramebufferSet(r, e, how)
         IN /\ Settled(r, d, e)
            /\ how[1] = "dead" /\ (\A i \in Slots : r.slot[i] = Empty) => ~d.ok /\ d.slot = r.slot
<1> DEFINE hits == {i \in SlotsOf(user) : r.slot[i].stamp = e.stamp}
           n == r.next
           out == Evict(r, n)
           k1 == GraphicMap(out.k, e.obj, how[1])
           d == FramebufferSet(r, e, how)
<1>0. /\ n \in SlotsOf(user) /\ n \in Slots /\ r.slot \in [Slots -> Contents] /\ SlotsOf(user) \subseteq Slots
      /\ how[1] \in Ways /\ how[2] \in Ways /\ r.k.fails \in Nat
  BY RingOfUser DEF RingStates, Memory
<1>2. k1 = Take(out.k, e, how[1])
  BY DEF Take
<1>3. CASE hits # {}
  <2>1. PICK j \in SlotsOf(user) : r.slot[j].stamp = e.stamp
    BY <1>3
  <2>2. d = [r EXCEPT !.ok = TRUE]
    BY <1>3 DEF FramebufferSet
  <2>3. d \in RingStates /\ d.k = r.k /\ d.slot = r.slot
    BY <2>2 DEF RingStates
  <2> HIDE DEF d
  <2>4. Settled(r, d, e)
    BY <1>0, <2>3 DEF Settled
  <2>5. ~(\A i \in Slots : r.slot[i] = Empty)
    <3>1. e.stamp # None
      BY NamesDiffer DEF Entries
    <3>2. r.slot[j] # Empty
      BY <2>1, <3>1 DEF Empty
    <3> QED
      BY <1>0, <3>2
  <2> QED
    BY <2>4, <2>5 DEF d
<1> HIDE DEF n
<1>5. /\ out \in RingStates /\ Counted(out.k, out.slot)
      /\ out.slot = [r.slot EXCEPT ![n] = Empty] /\ out.ok = r.ok
      /\ out.k.own = r.k.own /\ out.k.fails = r.k.fails
  BY <1>0, EvictCounts
<1>6. out.slot[n] = Empty
  BY <1>0, <1>5
<1>7. CASE hits = {} /\ how[1] = "ok"
  <2>1. d = Kept(out, n, e)
    BY <1>2, <1>7 DEF FramebufferSet, n, Kept
  <2> HIDE DEF out, d
  <2>2. KeptIn(out, d, n, e)
    <3>1. /\ out \in RingStates /\ Counted(out.k, out.slot)
          /\ n \in SlotsOf(user) /\ out.slot[n] = Empty
      BY <1>0, <1>5, <1>6
    <3> QED
      BY <2>1, <3>1, KeepCounts
  <2>3. d.slot = [r.slot EXCEPT ![n] = e]
    BY <1>0, <1>5, <2>2 DEF KeptIn
  <2>4. d.slot[n] = e /\ \A i \in Slots \ {n} : d.slot[i] = r.slot[i]
    BY <1>0, <2>3
  <2>5. Settled(r, d, e)
    BY <1>0, <1>5, <2>2, <2>4 DEF Settled, KeptIn
  <2> QED
    BY <1>7, <2>5 DEF d
<1>8. CASE hits = {} /\ how[1] # "ok"
  <2>1. d = out
    BY <1>8 DEF FramebufferSet, n
  <2> HIDE DEF out, d
  <2>2. Settled(r, d, e) /\ d.ok = FALSE
    BY <1>0, <1>5, <2>1 DEF Settled
  <2>4. (\A i \in Slots : r.slot[i] = Empty) => d.slot = r.slot
    BY <1>0, <1>5, <2>1
  <2> QED
    BY <2>2, <2>4 DEF d
<1> QED
  BY <1>3, <1>7, <1>8

\* What is left of the ring after setDataBuffer, and what of its caller's buffer.
Shown(r, d, e, how) ==
  /\ user \in {"overlay", "rgb"} => OverlayShown(r, d, e, how)
  /\ user = "sprite" =>
       /\ d.ok => \E j \in SlotsOf(user) : d.slot[j].stamp = e.stamp /\ d.prev = j
       /\ ~d.ok => d.prev = r.prev
       /\ \A i \in SlotsOf(user) : i = r.prev => d.slot[i] = r.slot[i]
  /\ user \in {"sprite", "fb"} /\ how[1] = "dead" /\ (\A i \in Slots : r.slot[i] = Empty) =>
       ~d.ok /\ d.slot = r.slot

LEMMA RingSetSettles ==
  ASSUME NEW r \in RingStates, Counted(r.k, r.slot), user \in Users, NEW e \in Entries,
         user \in {"sprite", "fb"} => ~e.ttm,
         r.ok = FALSE, NEW how \in Ways \X Ways, "lost" \in {how[1], how[2]} => e.ttm
  PROVE  Settled(r, RingSet(r, e, how), e) /\ Shown(r, RingSet(r, e, how), e, how)
<1> DEFINE d == RingSet(r, e, how)
<1>1. CASE user \in {"overlay", "rgb"}
  <2>1. d = OverlaySet(r, e, how)
    BY <1>1 DEF RingSet
  <2> HIDE DEF d
  <2>2. Settled(r, d, e) /\ OverlayShown(r, d, e, how)
    BY <2>1, OverlaySetSettles
  <2> QED
    BY <1>1, <2>2 DEF Shown, d
<1>2. CASE user = "sprite"
  <2>1. d = SpriteSet(r, e, how)
    BY <1>2 DEF RingSet
  <2> HIDE DEF d
  <2>2. Settled(r, d, e)
    BY <1>2, <2>1, SpriteSetSettles
  <2>3. /\ d.ok => \E j \in SlotsOf(user) : d.slot[j].stamp = e.stamp /\ d.prev = j
        /\ ~d.ok => d.prev = r.prev
        /\ \A i \in SlotsOf(user) : i = r.prev => d.slot[i] = r.slot[i]
        /\ how[1] = "dead" /\ (\A i \in Slots : r.slot[i] = Empty) => ~d.ok /\ d.slot = r.slot
    BY <1>2, <2>1, SpriteSetSettles
  <2> QED
    BY <1>2, <2>2, <2>3 DEF Shown, d
<1>3. CASE user = "fb"
  <2>1. d = FramebufferSet(r, e, how)
    BY <1>3 DEF RingSet
  <2> HIDE DEF d
  <2>2. Settled(r, d, e)
    BY <1>3, <2>1, FramebufferSetSettles
  <2>3. how[1] = "dead" /\ (\A i \in Slots : r.slot[i] = Empty) => ~d.ok /\ d.slot = r.slot
    BY <1>3, <2>1, FramebufferSetSettles
  <2> QED
    BY <1>3, <2>2, <2>3 DEF Shown, d
<1> QED
  BY <1>1, <1>2, <1>3 DEF Users

-----------------------------------------------------------------------------
\* A call of setDataBuffer by prepare, with the memory k and the entry e.
RingTypes == [slot : [Slots -> Contents], next : SlotsOf(user), prev : SlotsOf(user) \cup {NoSlot}]

\* The mapping can only fail for want of memory.
Mappable(k, e) ==
  sys.fd /\ (e.ttm => sys.pool = "live") /\ (e.obj \in k.own \/ k.ref[e.obj] # 0)

SetSafely(k, e) ==
  /\ mem' \in Memory /\ mem'.own = k.own
  /\ mem'.fails \in Nat /\ mem'.fails <= MaxFails /\ mem'.fails >= k.fails
  /\ ring' \in RingTypes /\ Counted(mem', ring'.slot)
  /\ set' \in {None, e.obj}
  /\ \A i \in Slots : ring'.slot[i] \in {ring.slot[i], Empty, e}

SetInTheDark ==
  /\ user \in {"overlay", "rgb"} /\ ~sys.plane => set' = None /\ ring' = ring
  /\ user \in {"sprite", "fb"} /\ ~sys.fd /\ (\A i \in Slots : ring.slot[i] = Empty) =>
       set' = None /\ ring'.slot = ring.slot

\* What the ring is left with: the entry just before mNextBuffer, or in the slot
\* that was hit; what was in the way is in the slot of mNextBuffer.
SetInFront(k, e) ==
  /\ user \in {"overlay", "rgb"} /\ mem'.fails = 0 /\ Mappable(k, e) =>
       \/ (LastShown = None \/ ~sys.plane) /\ set' = None /\ ring' = ring
       \/ /\ set' = e.obj
          /\ \E j \in SlotsOf(user) : ring'.slot[j] = e /\ ring'.next = After(j)
          /\ \A i \in Slots \ {ring.next} : ring'.slot[i] = ring.slot[i]
  /\ user = "sprite" =>
       /\ set' # None => \E j \in SlotsOf(user) : ring'.slot[j].stamp = e.stamp /\ ring'.prev = j
       /\ set' = None => ring'.prev = ring.prev
       /\ \A i \in SlotsOf(user) : i = ring.prev => ring'.slot[i] = ring.slot[i]

\* Nothing is handed to the plane, and the ring stays.
LEMMA NoBufferIsSafe ==
  ASSUME NEW k \in Memory, k.fails <= MaxFails, Counted(k, ring.slot), ring \in RingTypes,
         user \in Users, NEW e, NoBuffer(k)
  PROVE  SetSafely(k, e) /\ SetInTheDark
<1>1. mem' = k /\ set' = None /\ ring' = ring
  BY DEF NoBuffer
<1>2. k.fails \in Nat /\ ring.slot \in [Slots -> Contents]
  BY DEF Memory, RingTypes
<1> QED
  BY <1>1, <1>2 DEF SetSafely, SetInTheDark

LEMMA SetBufferIsSafe ==
  ASSUME NEW k \in Memory, k.fails <= MaxFails, Counted(k, ring.slot), ring \in RingTypes,
         user \in Users, sys.fd \in BOOLEAN, sys.plane \in BOOLEAN,
         NEW e \in Entries, user \in {"sprite", "fb"} => ~e.ttm,
         SetBuffer(k, e)
  PROVE  SetSafely(k, e) /\ SetInTheDark /\ SetInFront(k, e)
<1>0. e.obj \in Objects /\ e.obj # None /\ k.fails \in Nat
  BY NamesDiffer DEF Entries, Memory
<1>1. CASE user \in {"overlay", "rgb"} /\ (LastShown = None \/ ~sys.plane) /\ NoBuffer(k)
  <2>1. SetSafely(k, e) /\ SetInTheDark
    BY <1>1, NoBufferIsSafe
  <2>2. SetInFront(k, e)
    BY <1>1 DEF SetInFront, NoBuffer
  <2> QED
    BY <2>1, <2>2
<1>2. ASSUME user \in {"overlay", "rgb"} => sys.plane,
             NEW how \in Outcomes(k, e),
             LET r == RingSet([slot |-> ring.slot, next |-> ring.next, prev |-> ring.prev,
                               k |-> k, ok |-> FALSE], e, how)
             IN /\ r.k.fails <= MaxFails
                /\ mem' = r.k
                /\ ring' = [slot |-> r.slot, next |-> r.next, prev |-> r.prev]
                /\ set' = IF r.ok THEN e.obj ELSE None
      PROVE  SetSafely(k, e) /\ SetInTheDark /\ SetInFront(k, e)
  <2> DEFINE r == [slot |-> ring.slot, next |-> ring.next, prev |-> ring.prev, k |-> k, ok |-> FALSE]
             d == RingSet(r, e, how)
  <2>1. /\ d.k.fails <= MaxFails /\ mem' = d.k
        /\ ring' = [slot |-> d.slot, next |-> d.next, prev |-> d.prev]
        /\ set' = IF d.ok THEN e.obj ELSE None
    BY <1>2
  <2>2. /\ r \in RingStates /\ Counted(r.k, r.slot) /\ r.ok = FALSE
        /\ r.slot = ring.slot /\ r.next = ring.next /\ r.prev = ring.prev /\ r.k = k
    BY DEF RingStates, RingTypes
  <2>3. /\ how \in Ways \X Ways /\ ("lost" \in {how[1], how[2]} => e.ttm)
        /\ (how[1] = "dead" => ~Mappable(k, e)) /\ (~sys.fd => how[1] = "dead")
    <3> DEFINE gone == e.obj \notin k.own /\ k.ref[e.obj] = 0
               way == IF ~sys.fd \/ (e.ttm /\ sys.pool # "live") \/ gone THEN {"dead"}
                      ELSE {"ok", "fail"} \cup (IF e.ttm THEN {"lost"} ELSE {})
    <3>1. how \in way \X way
      BY <1>2 DEF Outcomes
    <3>2. /\ way \subseteq Ways /\ ("lost" \in way => e.ttm) /\ ("dead" \in way => ~Mappable(k, e))
          /\ (~sys.fd => way = {"dead"})
      BY DEF Ways, Mappable
    <3> HIDE DEF way
    <3> QED
      BY <3>1, <3>2
  <2> HIDE DEF r
  <2>4. Settled(r, d, e) /\ Shown(r, d, e, how)
    BY <2>2, <2>3, RingSetSettles
  <2> HIDE DEF d
  <2>5. /\ d \in RingStates /\ Counted(d.k, d.slot) /\ d.k.own = k.own
        /\ d.k.fails \in Nat /\ d.k.fails >= k.fails
        /\ \A i \in Slots : d.slot[i] \in {ring.slot[i], Empty, e}
    BY <2>2, <2>4 DEF Settled
  <2>6. ring'.slot = d.slot /\ ring'.next = d.next /\ ring'.prev = d.prev
    BY <2>1
  <2>7. ring' \in RingTypes /\ d.k \in Memory /\ d.ok \in BOOLEAN
    BY <2>1, <2>5 DEF RingStates, RingTypes
  <2>8. SetSafely(k, e)
    <3>1. mem' \in Memory /\ mem'.own = k.own
      BY <2>1, <2>5, <2>7
    <3>2. mem'.fails \in Nat /\ mem'.fails <= MaxFails /\ mem'.fails >= k.fails
      BY <2>1, <2>5
    <3>3. ring' \in RingTypes /\ Counted(mem', ring'.slot)
      BY <2>1, <2>5, <2>6, <2>7
    <3>4. set' \in {None, e.obj} /\ \A i \in Slots : ring'.slot[i] \in {ring.slot[i], Empty, e}
      BY <2>1, <2>5, <2>6
    <3> QED
      BY <3>1, <3>2, <3>3, <3>4 DEF SetSafely
  <2>9. SetInTheDark
    <3>1. user \in {"overlay", "rgb"} /\ ~sys.plane => set' = None /\ ring' = ring
      BY <1>2
    <3>2. ASSUME user \in {"sprite", "fb"}, ~sys.fd, \A i \in Slots : ring.slot[i] = Empty
          PROVE  set' = None /\ ring'.slot = ring.slot
      <4>1. ~d.ok /\ d.slot = r.slot
        BY <2>2, <2>3, <2>4, <3>2 DEF Shown
      <4> QED
        BY <2>1, <2>2, <2>6, <4>1
    <3> QED
      BY <3>1, <3>2 DEF SetInTheDark
  <2>10. SetInFront(k, e)
    <3>1. ASSUME user \in {"overlay", "rgb"}, mem'.fails = 0, Mappable(k, e)
          PROVE  /\ set' = e.obj
                 /\ \E j \in SlotsOf(user) : ring'.slot[j] = e /\ ring'.next = After(j)
                 /\ \A i \in Slots \ {ring.next} : ring'.slot[i] = ring.slot[i]
      <4>1. Fortunate(r, d, how)
        BY <2>1, <2>3, <3>1 DEF Fortunate
      <4>2. /\ d.ok = TRUE
            /\ \E j \in SlotsOf(user) : d.slot[j] = e /\ d.next = After(j)
            /\ \A i \in Slots \ {r.next} : d.slot[i] = r.slot[i]
        BY <2>4, <3>1, <4>1 DEF Shown, OverlayShown
      <4> QED
        BY <2>1, <2>2, <2>6, <4>2
    <3>2. ASSUME user = "sprite"
          PROVE  /\ set' # None => \E j \in SlotsOf(user) : ring'.slot[j].stamp = e.stamp /\ ring'.prev = j
                 /\ set' = None => ring'.prev = ring.prev
                 /\ \A i \in SlotsOf(user) : i = ring.prev => ring'.slot[i] = ring.slot[i]
      <4>1. /\ d.ok => \E j \in SlotsOf(user) : d.slot[j].stamp = e.stamp /\ d.prev = j
            /\ ~d.ok => d.prev = r.prev
            /\ \A i \in SlotsOf(user) : i = r.prev => d.slot[i] = r.slot[i]
        BY <2>4, <3>2 DEF Shown
      <4>2. (set' # None => d.ok) /\ (set' = None => ~d.ok)
        BY <1>0, <2>1, <2>7
      <4> QED
        BY <2>2, <2>6, <4>1, <4>2
    <3> QED
      BY <3>1, <3>2 DEF SetInFront
  <2> QED
    BY <2>8, <2>9, <2>10
<1> QED
  BY <1>1, <1>2 DEF SetBuffer

-----------------------------------------------------------------------------
\* The rotation provider.
Rotations == [va : BOOLEAN, ctx : {"none", "rot90", "rot180"}, tix : Tix,
              target : [Tix -> Made \cup {None}]]
Providers == [k : Memory, rot : Rotations, pay : Made \cup {None},
              wrote : Made \cup {None}, ok : BOOLEAN]

\* The buffers that were made are the targets, each made once.
TargetsHeld(own, rt) ==
  /\ Stamps \subseteq own
  /\ own \cap Made = {rt.target[i] : i \in Tix} \ {None}
  /\ \A i, j \in Tix : rt.target[i] = rt.target[j] /\ rt.target[i] # None => i = j
Bare(rt) == rt.tix = 0 /\ \A i \in Tix : rt.target[i] = None
Unmoved(k, m) == k.ref = m.ref /\ k.gtt = m.gtt /\ k.lost = m.lost

LEMMA TixRing ==
  /\ 0 \in Tix /\ Tix \subseteq Nat
  /\ \A i \in Tix : (i + 1) % Targets = IF i = Targets - 1 THEN 0 ELSE i + 1
  /\ \A i \in Tix : (i + 1) % Targets \in Tix
BY TwoTargets DEF Tix

LEMMA StoppedIsBare == Stopped \in Rotations /\ Bare(Stopped) /\ Stopped.va = FALSE
BY TixRing DEF Stopped, Rotations, Bare

LEMMA StopVAIsSafe ==
  ASSUME NEW v \in Providers, TargetsHeld(v.k.own, v.rot)
  PROVE  LET d == StopVA(v)
         IN /\ d \in Providers /\ TargetsHeld(d.k.own, d.rot)
            /\ Unmoved(d.k, v.k) /\ d.k.fails = v.k.fails
            /\ d.rot = Stopped /\ d.pay = v.pay /\ d.wrote = v.wrote /\ d.ok = v.ok
<1> DEFINE gone == {v.rot.target[i] : i \in Tix}
           k == [v.k EXCEPT !.own = @ \ gone]
           d == StopVA(v)
<1>1. d = [v EXCEPT !.k = k, !.rot = Stopped]
  BY DEF StopVA, Release, Providers
<1>2. v.k \in Memory /\ v.rot \in Rotations
  BY DEF Providers
<1>3. k \in Memory /\ Unmoved(k, v.k) /\ k.fails = v.k.fails /\ k.own = v.k.own \ gone
  BY <1>2 DEF Memory, Unmoved
<1>4. gone \subseteq Made \cup {None} /\ Stamps \cap gone = {}
  BY <1>2, NamesDiffer DEF Rotations, Objects
<1>5. TargetsHeld(v.k.own \ gone, Stopped)
  <2>1. Stamps \subseteq v.k.own \ gone
    BY <1>4 DEF TargetsHeld
  <2>2. (v.k.own \ gone) \cap Made = {}
    BY DEF TargetsHeld
  <2>3. {Stopped.target[i] : i \in Tix} \ {None} = {}
    BY StoppedIsBare DEF Bare
  <2>4. \A i \in Tix : Stopped.target[i] = None
    BY StoppedIsBare DEF Bare
  <2> QED
    BY <2>1, <2>2, <2>3, <2>4 DEF TargetsHeld
<1> HIDE DEF k
<1>6. d \in Providers /\ d.k = k /\ d.rot = Stopped /\ d.pay = v.pay /\ d.wrote = v.wrote /\ d.ok = v.ok
  BY <1>1, <1>3, StoppedIsBare DEF Providers
<1> QED
  BY <1>3, <1>5, <1>6

\* A configuration that changes stops VA.
LEMMA ReconfigureIsSafe ==
  ASSUME NEW v \in Providers, TargetsHeld(v.k.own, v.rot), NEW c \in {"rot90", "rot180"},
         ~v.rot.va => Bare(v.rot)
  PROVE  LET b == Reconfigure(v, c)
         IN /\ b \in Providers /\ TargetsHeld(b.k.own, b.rot)
            /\ Unmoved(b.k, v.k) /\ b.k.fails = v.k.fails
            /\ b.pay = v.pay /\ b.wrote = v.wrote /\ b.ok = v.ok
            /\ (~b.rot.va => Bare(b.rot))
            /\ \/ b.rot.target = v.rot.target /\ b.rot.tix = v.rot.tix
               \/ Bare(b.rot)
<1> DEFINE d == IF v.rot.va /\ v.rot.ctx # c THEN StopVA(v) ELSE v
           b == Reconfigure(v, c)
<1>1. /\ d \in Providers /\ TargetsHeld(d.k.own, d.rot)
      /\ Unmoved(d.k, v.k) /\ d.k.fails = v.k.fails
      /\ d.pay = v.pay /\ d.wrote = v.wrote /\ d.ok = v.ok
      /\ (~d.rot.va => Bare(d.rot))
      /\ (d.rot = v.rot \/ Bare(d.rot))
  <2>1. CASE v.rot.va /\ v.rot.ctx # c
    <3>1. d = StopVA(v)
      BY <2>1
    <3> HIDE DEF d
    <3> QED
      BY <3>1, StopVAIsSafe, StoppedIsBare
  <2>2. CASE ~(v.rot.va /\ v.rot.ctx # c)
    <3>1. d = v
      BY <2>2
    <3> HIDE DEF d
    <3> QED
      BY <3>1 DEF Unmoved
  <2> QED
    BY <2>1, <2>2
<1>2. b = [d EXCEPT !.rot.ctx = c]
  BY DEF Reconfigure
<1> HIDE DEF d
<1>3. /\ b.k = d.k /\ b.rot = [d.rot EXCEPT !.ctx = c] /\ b.pay = d.pay /\ b.wrote = d.wrote /\ b.ok = d.ok
      /\ b \in Providers
  <2>1. [d.rot EXCEPT !.ctx = c] \in Rotations
    BY <1>1 DEF Providers, Rotations
  <2> QED
    BY <1>1, <1>2, <2>1 DEF Providers
<1>4. b.rot.target = d.rot.target /\ b.rot.tix = d.rot.tix /\ b.rot.va = d.rot.va
  BY <1>1, <1>3 DEF Providers, Rotations
<1> HIDE DEF b
<1>5. TargetsHeld(b.k.own, b.rot)
  BY <1>1, <1>3, <1>4 DEF TargetsHeld
<1>6. (~b.rot.va => Bare(b.rot)) /\ (Bare(d.rot) => Bare(b.rot))
  BY <1>1, <1>4 DEF Bare
<1>7. Unmoved(b.k, v.k) /\ b.k.fails = v.k.fails
  BY <1>1, <1>3
<1> QED
  BY <1>1, <1>3, <1>4, <1>5, <1>6, <1>7 DEF b

\* A target is made where there is none, of memory that nobody owns.
LEMMA TargetIsSafe ==
  ASSUME NEW v \in Providers, TargetsHeld(v.k.own, v.rot), v.rot.target[v.rot.tix] = None,
         NEW o \in Made, o \notin v.k.own
  PROVE  LET d == [v EXCEPT !.k = Allocate(v.k, o), !.rot.target[v.rot.tix] = o]
         IN /\ d \in Providers /\ TargetsHeld(d.k.own, d.rot)
            /\ Unmoved(d.k, v.k) /\ d.k.fails = v.k.fails
            /\ d.pay = v.pay /\ d.wrote = v.wrote /\ d.ok = v.ok
            /\ d.rot.target = [v.rot.target EXCEPT ![v.rot.tix] = o]
            /\ d.rot.tix = v.rot.tix /\ d.rot.va = v.rot.va
<1> DEFINE t == v.rot.tix
           k == Allocate(v.k, o)
           tg == [v.rot.target EXCEPT ![t] = o]
           d == [v EXCEPT !.k = k, !.rot.target[t] = o]
<1>1. v.k \in Memory /\ v.rot \in Rotations /\ t \in Tix /\ v.rot.target \in [Tix -> Made \cup {None}]
  BY DEF Providers, Rotations
<1>2. k \in Memory /\ Unmoved(k, v.k) /\ k.fails = v.k.fails /\ k.own = v.k.own \cup {o}
  BY <1>1 DEF Memory, Unmoved, Allocate, Objects
<1>3. tg \in [Tix -> Made \cup {None}] /\ tg[t] = o /\ \A i \in Tix \ {t} : tg[i] = v.rot.target[i]
  BY <1>1
<1> DEFINE rt == [v.rot EXCEPT !.target = tg]
<1>4. /\ d = [v EXCEPT !.k = k, !.rot = rt]
      /\ d.k = k /\ d.rot = rt /\ d.pay = v.pay /\ d.wrote = v.wrote /\ d.ok = v.ok
  BY DEF Providers
<1> HIDE DEF k, t, tg, d
<1>5. rt \in Rotations /\ rt.target = tg /\ rt.tix = v.rot.tix /\ rt.va = v.rot.va
  BY <1>1, <1>3 DEF Rotations
<1> HIDE DEF rt
<1>6. d \in Providers
  BY <1>2, <1>4, <1>5 DEF Providers
<1>7. TargetsHeld(k.own, rt)
  <2>1. o # None /\ o \notin Stamps
    BY NamesDiffer DEF Objects
  <2>2. \A i \in Tix : v.rot.target[i] # o
    BY <2>1 DEF TargetsHeld
  <2>3. Stamps \subseteq k.own
    BY <1>2 DEF TargetsHeld
  <2>4. k.own \cap Made = {tg[i] : i \in Tix} \ {None}
    <3>1. {tg[i] : i \in Tix} \ {None} = ({v.rot.target[i] : i \in Tix} \ {None}) \cup {o}
      BY <1>1, <1>3, <2>1 DEF t
    <3> QED
      BY <1>2, <3>1 DEF TargetsHeld
  <2>5. \A i, j \in Tix : tg[i] = tg[j] /\ tg[i] # None => i = j
    BY <1>1, <1>3, <2>2 DEF TargetsHeld
  <2> QED
    BY <1>5, <2>3, <2>4, <2>5 DEF TargetsHeld
<1> QED
  BY <1>2, <1>4, <1>5, <1>6, <1>7 DEF k, t, tg, d

\* From the provider v to w a frame was rotated into target i, which was there
\* or was made of free memory; the next frame goes to the one after it.
FrameRotated(v, w) ==
  \E i \in Tix :
    /\ w.rot.tix = (i + 1) % Targets
    /\ w.wrote = w.rot.target[i] /\ w.wrote \in Made /\ w.pay = w.wrote /\ w.wrote \in w.k.own
    /\ \/ w.rot.target = v.rot.target /\ i = v.rot.tix
       \/ /\ v.k.ref[w.wrote] = 0
          /\ \/ i = v.rot.tix /\ \A j \in Tix \ {i} : w.rot.target[j] = v.rot.target[j]
             \/ \A j \in Tix \ {i} : w.rot.target[j] = None

SetupSafe(v, w) ==
  /\ w \in Providers /\ TargetsHeld(w.k.own, w.rot) /\ Unmoved(w.k, v.k)
  /\ w.k.fails >= v.k.fails
  /\ ~w.rot.va => w.rot = Stopped
  /\ ~w.ok => w.wrote = None /\ w.rot = Stopped
  /\ w.ok /\ w.k.fails = v.k.fails => FrameRotated(v, w)

LEMMA SetupIsSafe ==
  ASSUME NEW v \in Providers, TargetsHeld(v.k.own, v.rot), ~v.rot.va => Bare(v.rot),
         v.wrote = None, v.ok = FALSE,
         NEW c \in {"rot90", "rot180"}, NEW f \in RotationFaults(v, c), NEW o,
         NeedsTarget(v, c) /\ f \notin {"alloc", "start"} => o \in Free(Reconfigure(v, c).k, Made)
  PROVE  /\ SetupSafe(v, SetupRotation(v, c, f, o))
         /\ f \in {"alloc", "start"} => SetupRotation(v, c, f, o).ok = FALSE
<1> DEFINE b == Reconfigure(v, c)
           m == CASE Starts(v, c) -> StartVA(b, f, o)
                  [] ~Starts(v, c) /\ NeedsTarget(v, c) -> CreateTarget(b, f, o)
                  [] OTHER -> b
           obj == m.rot.target[m.rot.tix]
           w == SetupRotation(v, c, f, o)
           made == [b EXCEPT !.k = Allocate(b.k, o), !.rot.target[b.rot.tix] = o]
<1>1. /\ b \in Providers /\ TargetsHeld(b.k.own, b.rot)
      /\ Unmoved(b.k, v.k) /\ b.k.fails = v.k.fails
      /\ b.pay = v.pay /\ b.wrote = v.wrote /\ b.ok = v.ok
      /\ (~b.rot.va => Bare(b.rot))
      /\ ((b.rot.target = v.rot.target /\ b.rot.tix = v.rot.tix) \/ Bare(b.rot))
  BY ReconfigureIsSafe
<1>2. (Starts(v, c) <=> ~b.rot.va) /\ (NeedsTarget(v, c) <=> b.rot.target[b.rot.tix] = None)
  BY DEF Starts, NeedsTarget
<1>3. b.rot.tix \in Tix /\ b.rot.target \in [Tix -> Made \cup {None}] /\ b.rot.va \in BOOLEAN /\ v.k.fails \in Nat
  BY <1>1 DEF Providers, Rotations, Memory
<1>4. Starts(v, c) => NeedsTarget(v, c)
  BY <1>1, <1>2, <1>3 DEF Bare
<1>5. m = IF NeedsTarget(v, c) /\ f \notin {"alloc", "start"} THEN made ELSE b
  <2>1. f = "start" => Starts(v, c)
    BY DEF RotationFaults
  <2> QED
    BY <1>4, <2>1 DEF StartVA, CreateTarget
<1>6. CASE f \in {"alloc", "start"}
  <2>1. m = b
    BY <1>5, <1>6
  <2>2. w = StopVA(b)
    BY <1>6, <2>1 DEF SetupRotation
  <2> HIDE DEF b, w
  <2>3. /\ w \in Providers /\ TargetsHeld(w.k.own, w.rot)
        /\ Unmoved(w.k, b.k) /\ w.k.fails = b.k.fails
        /\ w.rot = Stopped /\ w.wrote = b.wrote /\ w.ok = b.ok
    BY <1>1, <2>2, StopVAIsSafe
  <2> QED
    BY <1>1, <1>3, <2>3 DEF SetupSafe, Unmoved, w
<1>7. CASE f \notin {"alloc", "start"}
  <2>1. /\ m \in Providers /\ TargetsHeld(m.k.own, m.rot)
        /\ Unmoved(m.k, v.k) /\ m.k.fails = v.k.fails
        /\ m.wrote = None /\ m.ok = FALSE
        /\ m.rot.tix = b.rot.tix /\ obj \in Made
        /\ \/ m.rot.target = b.rot.target
           \/ v.k.ref[obj] = 0 /\ \A j \in Tix \ {b.rot.tix} : m.rot.target[j] = b.rot.target[j]
    <3>1. CASE NeedsTarget(v, c)
      <4>1. m = made
        BY <1>5, <1>7, <3>1
      <4>2. o \in Made /\ o \notin b.k.own /\ b.k.ref[o] = 0
        BY <1>7, <3>1 DEF Free
      <4>3. b.rot.target[b.rot.tix] = None
        BY <1>2, <3>1
      <4> HIDE DEF b, m
      <4>4. /\ m \in Providers /\ TargetsHeld(m.k.own, m.rot)
            /\ Unmoved(m.k, b.k) /\ m.k.fails = b.k.fails
            /\ m.pay = b.pay /\ m.wrote = b.wrote /\ m.ok = b.ok
            /\ m.rot.target = [b.rot.target EXCEPT ![b.rot.tix] = o]
            /\ m.rot.tix = b.rot.tix
        BY <1>1, <4>1, <4>2, <4>3, TargetIsSafe
      <4>5. obj = o /\ \A j \in Tix \ {b.rot.tix} : m.rot.target[j] = b.rot.target[j]
        BY <1>3, <4>4
      <4>6. v.k.ref[o] = 0 /\ Unmoved(m.k, v.k)
        BY <1>1, <4>2, <4>4 DEF Unmoved
      <4> QED
        BY <1>1, <4>2, <4>4, <4>5, <4>6
    <3>2. CASE ~NeedsTarget(v, c)
      <4>1. m = b
        BY <1>5, <3>2
      <4>2. b.rot.target[b.rot.tix] \in Made
        BY <1>2, <1>3, <3>2
      <4> HIDE DEF b, m
      <4> QED
        BY <1>1, <4>1, <4>2
    <3> QED
      BY <3>1, <3>2
  <2>2. /\ m.rot \in Rotations /\ m.k \in Memory /\ m.pay \in Made \cup {None} /\ b.rot.tix \in Tix
        /\ obj = m.rot.target[b.rot.tix]
    BY <1>3, <2>1 DEF Providers
  <2>3. obj \in m.k.own
    <3>1. obj # None
      BY <2>1, NamesDiffer DEF Objects
    <3> HIDE DEF m
    <3> QED
      BY <2>1, <2>2, <3>1 DEF TargetsHeld
  <2>4. CASE f = "none"
    <3> DEFINE rt == [m.rot EXCEPT !.tix = (m.rot.tix + 1) % Targets, !.va = TRUE]
    <3>1. w = [m EXCEPT !.rot = rt, !.wrote = obj, !.pay = obj, !.ok = TRUE]
      <4>1. rt = [Advance(m.rot) EXCEPT !.va = TRUE]
        BY <2>2 DEF Advance, Rotations
      <4> HIDE DEF rt
      <4> QED
        BY <2>4, <4>1 DEF SetupRotation
    <3> HIDE DEF b, m, obj, w
    <3>2. /\ rt \in Rotations /\ rt.target = m.rot.target /\ rt.tix = (b.rot.tix + 1) % Targets /\ rt.va = TRUE
      <4>1. (m.rot.tix + 1) % Targets \in Tix
        BY <2>1, <2>2, TixRing
      <4> QED
        BY <2>1, <2>2, <4>1 DEF Rotations
    <3> HIDE DEF rt
    <3>3. /\ w \in Providers /\ w.k = m.k /\ w.rot = rt /\ w.wrote = obj /\ w.pay = obj /\ w.ok = TRUE
      BY <2>1, <3>1, <3>2 DEF Providers
    <3>4. TargetsHeld(w.k.own, w.rot)
      BY <2>1, <3>2, <3>3 DEF TargetsHeld
    <3>5. FrameRotated(v, w)
      <4>1. /\ w.rot.tix = (b.rot.tix + 1) % Targets
            /\ w.wrote = w.rot.target[b.rot.tix] /\ w.wrote \in Made /\ w.pay = w.wrote /\ w.wrote \in w.k.own
        BY <2>1, <2>2, <2>3, <3>2, <3>3
      <4>2. \/ w.rot.target = v.rot.target /\ b.rot.tix = v.rot.tix
            \/ /\ v.k.ref[w.wrote] = 0
               /\ \/ /\ b.rot.tix = v.rot.tix
                     /\ \A j \in Tix \ {b.rot.tix} : w.rot.target[j] = v.rot.target[j]
                  \/ \A j \in Tix \ {b.rot.tix} : w.rot.target[j] = None
        <5>1. w.rot.target = b.rot.target => ~Bare(b.rot)
          BY <2>1, <2>2, <3>2, <3>3, NamesDiffer DEF Bare, Objects
        <5> QED
          BY <1>1, <2>1, <3>2, <3>3, <5>1 DEF Bare
      <4> QED
        BY <2>2, <4>1, <4>2 DEF FrameRotated
    <3> QED
      BY <1>3, <1>7, <2>1, <3>2, <3>3, <3>4, <3>5 DEF SetupSafe, w
  <2>5. CASE f = "render"
    <3> DEFINE rt == [m.rot EXCEPT !.va = TRUE]
               k == [m.k EXCEPT !.fails = @ + 1]
    <3>1. w = [m EXCEPT !.rot = rt, !.k = k, !.wrote = obj, !.ok = TRUE]
      BY <2>1, <2>5 DEF SetupRotation, Short, Providers
    <3> HIDE DEF b, m, obj, w
    <3>2. /\ rt \in Rotations /\ rt.target = m.rot.target /\ rt.va = TRUE
          /\ k \in Memory /\ k.own = m.k.own /\ k.fails = v.k.fails + 1 /\ Unmoved(k, v.k)
      <4>1. rt \in Rotations /\ rt.target = m.rot.target /\ rt.va = TRUE
        BY <2>2 DEF Rotations
      <4>2. /\ k \in Memory /\ k.own = m.k.own /\ k.fails = m.k.fails + 1
            /\ k.ref = m.k.ref /\ k.gtt = m.k.gtt /\ k.lost = m.k.lost
        BY <2>2 DEF Memory
      <4> HIDE DEF k, rt
      <4> QED
        BY <2>1, <4>1, <4>2 DEF Unmoved
    <3> HIDE DEF rt, k
    <3>3. /\ w \in Providers /\ w.k = k /\ w.rot = rt /\ w.wrote = obj /\ w.ok = TRUE
      BY <2>1, <3>1, <3>2 DEF Providers
    <3>4. TargetsHeld(w.k.own, w.rot)
      BY <2>1, <3>2, <3>3 DEF TargetsHeld
    <3> QED
      BY <1>3, <1>7, <2>1, <3>2, <3>3, <3>4 DEF SetupSafe, w
  <2>6. CASE f \notin {"none", "render"}
    <3>1. w = StopVA(m)
      BY <2>6 DEF SetupRotation
    <3> HIDE DEF b, m, obj, w
    <3>2. /\ w \in Providers /\ TargetsHeld(w.k.own, w.rot)
          /\ Unmoved(w.k, m.k) /\ w.k.fails = m.k.fails
          /\ w.rot = Stopped /\ w.wrote = m.wrote /\ w.ok = m.ok
      BY <2>1, <3>1, StopVAIsSafe
    <3> QED
      BY <1>3, <2>1, <3>2 DEF SetupSafe, Unmoved, w
  <2> QED
    BY <2>4, <2>5, <2>6
<1> QED
  BY <1>6, <1>7

-----------------------------------------------------------------------------
\* The converter.
Conversions == [map : [Stamps -> Made \cup {None}], cur : Stamps \cup {None}]
Converters == [k : Memory, conv : Conversions, obj : Made \cup {None}]

\* The buffers that were made are the YUV buffers, each made once.
YuvHeld(own, map) ==
  /\ Stamps \subseteq own
  /\ own \cap Made = {map[b] : b \in Stamps} \ {None}
  /\ \A b, c \in Stamps : map[b] = map[c] /\ map[b] # None => b = c

ConvertSafe(v, w) ==
  /\ w \in Converters /\ YuvHeld(w.k.own, w.conv.map) /\ Unmoved(w.k, v.k)
  /\ w.k.fails = v.k.fails
  /\ w.obj # None => w.obj \in w.k.own

LEMMA ConvertIsSafe ==
  ASSUME NEW v \in Converters, YuvHeld(v.k.own, v.conv.map), v.obj = None,
         NEW b \in Stamps, NEW f \in ConversionFaults(v, b),
         NEW o, IF NeedsYuv(v, b) THEN o \in Free(v.k, Made) ELSE o = None
  PROVE  ConvertSafe(v, Convert(v, b, f, o))
<1> DEFINE m == IF NeedsYuv(v, b)
                THEN [v EXCEPT !.k = Allocate(v.k, o), !.conv.map[b] = o] ELSE v
           w == Convert(v, b, f, o)
           map == v.conv.map
<1>1. v.k \in Memory /\ v.conv \in Conversions /\ map \in [Stamps -> Made \cup {None}]
  BY DEF Converters, Conversions
<1>2. CASE f = "alloc"
  <2>1. w = v
    BY <1>2 DEF Convert
  <2> HIDE DEF w
  <2> QED
    BY <2>1 DEF ConvertSafe, Unmoved, w
<1>3. /\ m \in Converters /\ YuvHeld(m.k.own, m.conv.map) /\ Unmoved(m.k, v.k)
      /\ m.k.fails = v.k.fails /\ m.obj = None /\ m.conv.map[b] \in Made
  <2>1. CASE NeedsYuv(v, b)
    <3> DEFINE k == Allocate(v.k, o)
               mp == [map EXCEPT ![b] = o]
               cv == [v.conv EXCEPT !.map = mp]
    <3>1. o \in Made /\ o \notin v.k.own /\ map[b] = None
      BY <2>1 DEF Free, NeedsYuv
    <3>2. k \in Memory /\ Unmoved(k, v.k) /\ k.fails = v.k.fails /\ k.own = v.k.own \cup {o}
      BY <1>1, <3>1 DEF Memory, Unmoved, Allocate, Objects
    <3>3. mp \in [Stamps -> Made \cup {None}] /\ mp[b] = o /\ \A c \in Stamps \ {b} : mp[c] = map[c]
      BY <1>1, <3>1
    <3>4. m = [v EXCEPT !.k = k, !.conv = cv]
      BY <2>1 DEF Converters
    <3> HIDE DEF m, k, mp
    <3>5. cv \in Conversions /\ cv.map = mp
      BY <1>1, <3>3 DEF Conversions
    <3> HIDE DEF cv
    <3>6. m \in Converters /\ m.k = k /\ m.conv = cv /\ m.obj = None
      BY <3>2, <3>4, <3>5 DEF Converters
    <3>7. YuvHeld(k.own, mp)
      <4>1. o # None /\ o \notin Stamps
        BY <3>1, NamesDiffer DEF Objects
      <4>2. \A c \in Stamps : map[c] # o
        BY <3>1, <4>1 DEF YuvHeld
      <4>3. {mp[c] : c \in Stamps} \ {None} = ({map[c] : c \in Stamps} \ {None}) \cup {o}
        BY <3>1, <3>3, <4>1
      <4>4. Stamps \subseteq k.own
        BY <3>2 DEF YuvHeld
      <4>5. k.own \cap Made = {mp[c] : c \in Stamps} \ {None}
        BY <3>1, <3>2, <4>3 DEF YuvHeld
      <4>6. \A c, d \in Stamps : mp[c] = mp[d] /\ mp[c] # None => c = d
        BY <3>3, <4>2 DEF YuvHeld
      <4> QED
        BY <4>4, <4>5, <4>6 DEF YuvHeld
    <3> QED
      BY <3>1, <3>2, <3>3, <3>5, <3>6, <3>7
  <2>2. CASE ~NeedsYuv(v, b)
    <3>1. m = v
      BY <2>2
    <3>2. map[b] \in Made
      BY <1>1, <2>2 DEF NeedsYuv
    <3> HIDE DEF m
    <3> QED
      BY <3>1, <3>2 DEF Unmoved
  <2> QED
    BY <2>1, <2>2
<1>4. CASE f = "blit"
  <2> DEFINE g == m.conv.map[b]
             k == [m.k EXCEPT !.own = @ \ {g}]
             mp == [m.conv.map EXCEPT ![b] = None]
             cv == [m.conv EXCEPT !.map = mp]
  <2>1. w = [m EXCEPT !.k = k, !.conv = cv]
    BY <1>3, <1>4 DEF Convert, DropConversion, Release, Converters
  <2> HIDE DEF m, w
  <2>2. m.k \in Memory /\ m.conv \in Conversions /\ m.conv.map \in [Stamps -> Made \cup {None}]
    BY <1>3 DEF Converters, Conversions
  <2>3. k \in Memory /\ Unmoved(k, m.k) /\ k.fails = m.k.fails /\ k.own = m.k.own \ {g}
    BY <2>2 DEF Memory, Unmoved
  <2>4. mp \in [Stamps -> Made \cup {None}] /\ mp[b] = None /\ \A c \in Stamps \ {b} : mp[c] = m.conv.map[c]
    BY <2>2
  <2>5. g \in Made /\ g \notin Stamps /\ g # None
    BY <1>3, NamesDiffer DEF Objects
  <2>6. YuvHeld(k.own, mp)
    <3>1. Stamps \subseteq k.own
      BY <1>3, <2>3, <2>5 DEF YuvHeld
    <3>2. {mp[c] : c \in Stamps} \ {None} = ({m.conv.map[c] : c \in Stamps} \ {None}) \ {g}
      <4>1. \A c \in Stamps \ {b} : m.conv.map[c] # g
        BY <1>3, <2>5 DEF YuvHeld
      <4> QED
        BY <2>4, <2>5, <4>1
    <3>3. k.own \cap Made = {mp[c] : c \in Stamps} \ {None}
      BY <1>3, <2>3, <3>2 DEF YuvHeld
    <3>4. \A c, d \in Stamps : mp[c] = mp[d] /\ mp[c] # None => c = d
      BY <1>3, <2>4 DEF YuvHeld
    <3> QED
      BY <3>1, <3>3, <3>4 DEF YuvHeld
  <2> HIDE DEF k, mp
  <2>7. cv \in Conversions /\ cv.map = mp
    BY <2>2, <2>4 DEF Conversions
  <2> HIDE DEF cv
  <2>8. w \in Converters /\ w.k = k /\ w.conv = cv /\ w.obj = None
    BY <1>3, <2>1, <2>3, <2>7 DEF Converters
  <2> QED
    BY <1>3, <2>3, <2>6, <2>7, <2>8 DEF ConvertSafe, Unmoved, w
<1>5. CASE f = "none"
  <2>1. w = [m EXCEPT !.conv.cur = b, !.obj = m.conv.map[b]]
    BY <1>5 DEF Convert
  <2> DEFINE cv == [m.conv EXCEPT !.cur = b]
  <2>2. w = [m EXCEPT !.conv = cv, !.obj = m.conv.map[b]]
    BY <2>1
  <2> HIDE DEF m, w
  <2>3. cv \in Conversions /\ cv.map = m.conv.map
    BY <1>3 DEF Converters, Conversions
  <2> HIDE DEF cv
  <2>4. w \in Converters /\ w.k = m.k /\ w.conv = cv /\ w.obj = m.conv.map[b]
    BY <1>3, <2>2, <2>3 DEF Converters
  <2>5. w.obj \in w.k.own
    <3>1. m.conv.map[b] # None
      BY <1>3, NamesDiffer DEF Objects
    <3> QED
      BY <1>3, <2>4, <3>1 DEF YuvHeld
  <2> QED
    BY <1>3, <2>3, <2>4, <2>5 DEF ConvertSafe, w
<1> QED
  BY <1>2, <1>4, <1>5 DEF ConversionFaults

\* invalidateDataBuffer leaves no mapping but those that wrap lost.
LEMMA DropAllCounts ==
  ASSUME NEW k \in Memory, Counted(k, ring.slot)
  PROVE  LET d == DropAll(k)
         IN /\ d \in Memory /\ d.own = k.own /\ d.fails = k.fails
            /\ Counted(d, EmptyRing.slot)
<1> DEFINE ref == [o \in Objects |-> k.ref[o] - Cardinality(Held(ring.slot, o))]
           gtt == [o \in Objects |-> k.gtt[o] - Cardinality(Direct(ring.slot, o))]
           d == DropAll(k)
<1>1. d = [k EXCEPT !.ref = ref, !.gtt = gtt]
  BY DEF DropAll, Held, Direct
<1>2. ref \in [Objects -> Int] /\ gtt \in [Objects -> Int]
  BY HeldIsFinite DEF Memory
<1> HIDE DEF d
<1>3. \A o \in Objects : ref[o] = k.lost[o] /\ gtt[o] = 0
  BY HeldIsFinite DEF Counted, Memory
<1> HIDE DEF ref, gtt
<1>4. d \in Memory /\ d.own = k.own /\ d.fails = k.fails /\ d.ref = ref /\ d.gtt = gtt /\ d.lost = k.lost
  BY <1>1, <1>2 DEF Memory
<1>5. \A o \in Objects : Held(EmptyRing.slot, o) = {} /\ Direct(EmptyRing.slot, o) = {}
  BY NamesDiffer DEF Held, Direct, EmptyRing, Empty
<1>6. Counted(d, EmptyRing.slot)
  <2>1. \A o \in Objects : d.ref[o] = d.lost[o] /\ d.gtt[o] = 0 /\ d.lost[o] \in Nat
    BY <1>3, <1>4 DEF Memory
  <2>2. \A o \in Objects : /\ Cardinality(Held(EmptyRing.slot, o)) = 0
                           /\ Cardinality(Direct(EmptyRing.slot, o)) = 0
    BY <1>5, FS_EmptySet
  <2> QED
    BY <2>1, <2>2 DEF Counted
<1> QED
  BY <1>4, <1>6 DEF d

-----------------------------------------------------------------------------
\* The inductive invariant.

\* What was handed to the plane last, or flipped to last.
Freshest == IF set # None THEN set ELSE LastShown

SystemTypes == [phase : {"down", "up", "failed"}, wsbm : SUBSET ({"bcd", "graphic"} \cup Devices),
                pool : {"none", "live", "down"}, twice : BOOLEAN, fd : BOOLEAN, plane : BOOLEAN]
Scans == [hw : Objects \cup {None}, post : Seq(Objects)]
Idle == (\A i \in Slots : ring.slot[i] = Empty) /\ scan.hw = None /\ scan.post = <<>> /\ set = None

ShownTypes ==
  /\ user \in Users /\ scan \in Scans
  /\ pay \in [Stamps -> Made \cup {None}] /\ wrote \in Made \cup {None}

StartInv ==
  /\ sys \in SystemTypes
  /\ sys.phase = "down" => sys = Down
  /\ ~sys.fd => ~sys.plane
  /\ StartHoldsManagers

MemInv == mem \in Memory /\ mem.fails <= MaxFails /\ Stamps \subseteq mem.own

\* The ring holds the mappings; those of a sprite plane or a device are of the
\* buffers that the stamps name; what was handed over last is in front.
HoldInv ==
  /\ ring \in RingTypes /\ Counted(mem, ring.slot) /\ set \in Objects \cup {None}
  /\ user \in {"sprite", "fb"} => \A i \in Slots : ring.slot[i].obj = ring.slot[i].stamp
FrontInv ==
  mem.fails = 0 /\ Freshest # None /\ user # "fb" =>
    \E i \in SlotsOf(user) : /\ ring.slot[i].obj = Freshest
                             /\ user \in {"overlay", "rgb"} => ring.next = After(i)
                             /\ user = "sprite" => ring.prev = i

\* Nothing is mapped or shown before the composer is up, nor without its DRM
\* file; an overlay that has no context shows nothing.
DarkInv ==
  /\ sys.phase # "up" => Idle /\ rot = Stopped
  /\ ~sys.fd => Idle
  /\ user \in {"overlay", "rgb"} /\ ~sys.plane => scan.hw = None /\ scan.post = <<>> /\ set = None

RotInv ==
  /\ rot \in Rotations
  /\ ~rot.va => rot = Stopped
  /\ user # "overlay" => rot = Stopped
  /\ user = "overlay" => TargetsHeld(mem.own, rot)
  /\ sys.pool # "live" => \A i \in Tix : rot.target[i] = None
ConvInv ==
  /\ conv \in Conversions
  /\ user # "rgb" => conv = NoConversions
  /\ user = "rgb" => YuvHeld(mem.own, conv.map)

RingPart == HoldInv /\ FrontInv
BufInv == ShownTypes /\ StartInv /\ MemInv /\ RingPart /\ DarkInv /\ RotInv /\ ConvInv

\* The plane goes on holding what was flipped to last.
StillHeld == user # "fb" /\ LastShown # None /\ mem'.fails = 0 =>
               \E i \in SlotsOf(user) : ring'.slot[i].obj = LastShown

LEMMA LastShownType ==
  ASSUME scan \in Scans
  PROVE  /\ LastShown \in Objects \cup {None}
         /\ LastShown = None => scan.post = <<>> /\ scan.hw = None
<1>1. scan.post \in Seq(Objects) /\ scan.hw \in Objects \cup {None}
  BY DEF Scans
<1>2. scan.post # <<>> => scan.post[Len(scan.post)] \in Objects
  BY <1>1
<1> QED
  BY <1>1, <1>2, NamesDiffer DEF LastShown

\* A prepare that hands nothing over.
LEMMA NoBufferKeepsRing ==
  ASSUME BufInv, Ready, UNCHANGED <<user, sys, scan>>,
         NEW k \in Memory, k.fails <= MaxFails, k.fails >= mem.fails, Unmoved(k, mem), NoBuffer(k)
  PROVE  RingPart' /\ StillHeld /\ mem' = k /\ (Idle => Idle') /\ set' = None
<1>1. mem' = k /\ set' = None /\ ring' = ring /\ set = None
  BY DEF NoBuffer, Ready
<1>2. Counted(k, ring.slot)
  BY DEF BufInv, RingPart, HoldInv, Counted, Unmoved
<1>3. HoldInv'
  BY <1>1, <1>2 DEF BufInv, RingPart, HoldInv, RingTypes, Counted
<1>4. LastShown' = LastShown /\ Freshest' = LastShown /\ Freshest = LastShown
  BY <1>1 DEF LastShown, Freshest
<1>5. mem'.fails = 0 => mem.fails = 0
  BY <1>1 DEF BufInv, MemInv, Memory
<1>6. FrontInv'
  BY <1>1, <1>4, <1>5 DEF BufInv, RingPart, FrontInv, After
<1>7. StillHeld
  BY <1>1, <1>4, <1>5 DEF BufInv, RingPart, FrontInv, StillHeld
<1> QED
  BY <1>1, <1>3, <1>6, <1>7 DEF RingPart, Idle

\* A prepare that calls setDataBuffer.
LEMMA SetBufferKeepsRing ==
  ASSUME BufInv, Ready, UNCHANGED <<user, sys, scan>>,
         NEW k \in Memory, k.fails <= MaxFails, k.fails >= mem.fails, Unmoved(k, mem),
         NEW e \in Entries, user \in {"sprite", "fb"} => ~e.ttm /\ e.obj = e.stamp,
         user \in {"overlay", "rgb"} /\ k.fails = 0 => Mappable(k, e) \/ ~sys.plane,
         SetBuffer(k, e)
  PROVE  /\ RingPart' /\ StillHeld /\ mem' \in Memory /\ mem'.own = k.own
         /\ mem'.fails <= MaxFails /\ mem'.fails >= mem.fails
         /\ ~sys.fd /\ Idle => Idle'
         /\ user \in {"overlay", "rgb"} /\ ~sys.plane => set' = None
<1>0. /\ set = None /\ user \in Users /\ ring \in RingTypes /\ Counted(mem, ring.slot)
      /\ e.obj \in Objects /\ e.obj # None /\ mem.fails \in Nat /\ k.fails \in Nat
  BY NamesDiffer DEF BufInv, Ready, ShownTypes, RingPart, HoldInv, MemInv, Entries, Memory
<1>1. Counted(k, ring.slot)
  BY <1>0 DEF Counted, Unmoved
<1>2. sys.fd \in BOOLEAN /\ sys.plane \in BOOLEAN /\ (~sys.fd => ~sys.plane)
  BY DEF BufInv, StartInv, SystemTypes
<1>3. SetSafely(k, e) /\ SetInTheDark /\ SetInFront(k, e)
  BY <1>0, <1>1, <1>2, SetBufferIsSafe
<1>4. /\ mem' \in Memory /\ mem'.own = k.own /\ mem'.fails <= MaxFails /\ mem'.fails >= k.fails
      /\ mem'.fails \in Nat
      /\ ring' \in RingTypes /\ Counted(mem', ring'.slot) /\ set' \in {None, e.obj}
      /\ \A i \in Slots : ring'.slot[i] \in {ring.slot[i], Empty, e}
  BY <1>3 DEF SetSafely
<1>5. HoldInv'
  <2>1. ring' \in RingTypes'
    BY <1>4 DEF RingTypes
  <2>3. user \in {"sprite", "fb"} => \A i \in Slots : ring'.slot[i].obj = ring'.slot[i].stamp
    BY <1>4 DEF BufInv, RingPart, HoldInv, Empty
  <2> QED
    BY <1>0, <1>4, <2>1, <2>3 DEF HoldInv, Counted
<1>6. LastShown' = LastShown /\ Freshest = LastShown /\ LastShown \in Objects \cup {None}
  BY <1>0, LastShownType DEF LastShown, Freshest, BufInv, ShownTypes
<1>7. /\ mem'.fails = 0 => mem.fails = 0 /\ k.fails = 0
      /\ SlotsOf(user) \subseteq Slots /\ \A i \in SlotsOf(user) : After(i) # i
  BY <1>0, <1>4, RingOfUser
<1>8. CASE user \in {"overlay", "rgb"}
  <2> SUFFICES ASSUME mem'.fails = 0 PROVE FrontInv' /\ StillHeld
    <3>1. ~sys.plane => set' = None /\ ring' = ring
      BY <1>3, <1>8 DEF SetInTheDark
    <3>2. ~sys.fd /\ Idle => Idle'
      BY <1>2, <3>1 DEF Idle
    <3>3. mem'.fails # 0 => FrontInv' /\ StillHeld
      BY DEF FrontInv, StillHeld
    <3>4. mem'.fails >= mem.fails
      BY <1>0, <1>4
    <3> QED
      BY <1>4, <1>5, <3>1, <3>2, <3>3, <3>4 DEF RingPart
  <2>1. \/ (LastShown = None \/ ~sys.plane) /\ set' = None /\ ring' = ring
        \/ /\ set' = e.obj
           /\ \E j \in SlotsOf(user) : ring'.slot[j] = e /\ ring'.next = After(j)
           /\ \A i \in Slots \ {ring.next} : ring'.slot[i] = ring.slot[i]
    <3>1. CASE ~sys.plane
      BY <1>3, <1>8, <3>1 DEF SetInTheDark
    <3>2. CASE Mappable(k, e)
      BY <1>3, <1>8, <3>2 DEF SetInFront
    <3> QED
      BY <1>7, <1>8, <3>1, <3>2
  <2>2. CASE LastShown # None
    <3>1. PICK i \in SlotsOf(user) : ring.slot[i].obj = LastShown /\ ring.next = After(i)
      BY <1>6, <1>7, <1>8, <2>2 DEF BufInv, RingPart, FrontInv
    <3>2. i \in Slots /\ i # ring.next
      BY <1>7, <3>1
    <3>3. ring'.slot[i] = ring.slot[i]
      BY <2>1, <3>2
    <3>4. StillHeld
      BY <3>1, <3>3 DEF StillHeld
    <3>5. FrontInv'
      <4>1. CASE set' = None /\ ring' = ring
        <5>1. Freshest' = LastShown
          BY <1>6, <4>1 DEF Freshest
        <5> QED
          BY <1>8, <3>1, <4>1, <5>1 DEF FrontInv, After
      <4>2. CASE set' = e.obj /\ \E j \in SlotsOf(user) : ring'.slot[j] = e /\ ring'.next = After(j)
        <5>1. Freshest' = e.obj
          BY <1>0, <4>2 DEF Freshest
        <5> QED
          BY <1>8, <4>2, <5>1 DEF FrontInv, After
      <4> QED
        BY <2>1, <4>1, <4>2
    <3> QED
      BY <3>4, <3>5
  <2>3. CASE LastShown = None
    <3>1. StillHeld
      BY <2>3 DEF StillHeld
    <3>2. FrontInv'
      <4>1. CASE set' = None /\ ring' = ring
        <5>1. Freshest' = None
          BY <1>6, <2>3, <4>1 DEF Freshest
        <5> QED
          BY <5>1 DEF FrontInv
      <4>2. CASE set' = e.obj /\ \E j \in SlotsOf(user) : ring'.slot[j] = e /\ ring'.next = After(j)
        <5>1. Freshest' = e.obj
          BY <1>0, <4>2 DEF Freshest
        <5> QED
          BY <1>8, <4>2, <5>1 DEF FrontInv, After
      <4> QED
        BY <2>1, <4>1, <4>2
    <3> QED
      BY <3>1, <3>2
  <2> QED
    BY <2>2, <2>3
<1>9. CASE user = "sprite"
  <2>1. /\ set' # None => \E j \in SlotsOf(user) : ring'.slot[j].stamp = e.stamp /\ ring'.prev = j
        /\ set' = None => ring'.prev = ring.prev
        /\ \A i \in SlotsOf(user) : i = ring.prev => ring'.slot[i] = ring.slot[i]
    BY <1>3, <1>9 DEF SetInFront
  <2>2. StillHeld
    BY <1>6, <1>7, <1>9, <2>1 DEF StillHeld, BufInv, RingPart, FrontInv
  <2>3. FrontInv'
    <3>1. CASE set' = None
      <4>1. Freshest' = LastShown
        BY <1>6, <3>1 DEF Freshest
      <4> QED
        BY <1>6, <1>7, <1>9, <2>1, <3>1, <4>1 DEF BufInv, RingPart, FrontInv
    <3>2. CASE set' # None
      <4>1. Freshest' = e.obj /\ e.obj = e.stamp
        BY <1>4, <1>9, <3>2 DEF Freshest
      <4>2. PICK j \in SlotsOf(user) : ring'.slot[j].stamp = e.stamp /\ ring'.prev = j
        BY <2>1, <3>2
      <4>3. ring'.slot[j].obj = e.obj
        BY <1>5, <1>7, <1>9, <4>1, <4>2 DEF HoldInv
      <4> QED
        BY <1>9, <4>1, <4>2, <4>3 DEF FrontInv
    <3> QED
      BY <3>1, <3>2
  <2>4. ~sys.fd /\ Idle => Idle'
    BY <1>3, <1>9 DEF SetInTheDark, Idle
  <2> QED
    BY <1>0, <1>4, <1>5, <1>9, <2>2, <2>3, <2>4 DEF RingPart
<1>10. CASE user = "fb"
  BY <1>0, <1>3, <1>4, <1>5, <1>10 DEF RingPart, FrontInv, StillHeld, SetInTheDark, Idle
<1> QED
  BY <1>0, <1>8, <1>9, <1>10 DEF Users

-----------------------------------------------------------------------------
\* Init and each action.

LEMMA InitEstablishes == Init => BufInv
<1> SUFFICES ASSUME Init PROVE BufInv
  OBVIOUS
<1> USE DEF Init
<1>1. ShownTypes
  BY DEF ShownTypes, Scans
<1>2. StartInv
  BY DEF StartInv, SystemTypes, Down, StartHoldsManagers
<1>3. MemInv
  BY FlipsBounded DEF MemInv, Memory, Objects
<1>4. HoldInv
  <2>1. ring \in RingTypes
    BY RingOfUser DEF RingTypes, EmptyRing, Contents
  <2>2. \A o \in Objects : Held(ring.slot, o) = {} /\ Direct(ring.slot, o) = {}
    BY NamesDiffer DEF Held, Direct, EmptyRing, Empty
  <2>3. \A o \in Objects : /\ Cardinality(Held(ring.slot, o)) = 0
                           /\ Cardinality(Direct(ring.slot, o)) = 0
    BY <2>2, FS_EmptySet
  <2>4. Counted(mem, ring.slot)
    BY <2>3 DEF Counted
  <2>5. \A i \in Slots : ring.slot[i].obj = ring.slot[i].stamp
    BY DEF EmptyRing, Empty
  <2> QED
    BY <2>1, <2>4, <2>5 DEF HoldInv
<1>5. FrontInv
  BY DEF FrontInv, Freshest, LastShown
<1>6. DarkInv
  BY DEF DarkInv, Idle, EmptyRing
<1>7. RotInv
  <2>1. TargetsHeld(mem.own, rot)
    BY StoppedIsBare, NamesDiffer DEF TargetsHeld, Bare
  <2> QED
    BY <2>1, StoppedIsBare DEF RotInv, Bare
<1>8. ConvInv
  <2>1. conv \in Conversions /\ \A b \in Stamps : conv.map[b] = None
    BY DEF NoConversions, Conversions
  <2>2. YuvHeld(mem.own, conv.map)
    BY <2>1, NamesDiffer DEF YuvHeld
  <2> QED
    BY <2>1, <2>2 DEF ConvInv
<1> QED
  BY <1>1, <1>2, <1>3, <1>4, <1>5, <1>6, <1>7, <1>8 DEF BufInv, RingPart

\* The two calls that the managers and providers make of the pool they share.
WsbmMade(s, d, w, ok) ==
  /\ d \in SystemTypes /\ d.phase = s.phase /\ d.fd = s.fd /\ d.plane = s.plane
  /\ d.wsbm = IF ok THEN s.wsbm \cup {w} ELSE s.wsbm
  /\ d.pool = IF ok THEN "live" ELSE "down"
WsbmGone(s, d, w) ==
  /\ d \in SystemTypes /\ d.phase = s.phase /\ d.fd = s.fd /\ d.plane = s.plane
  /\ d.wsbm = s.wsbm \ {w}

LEMMA WsbmFields ==
  ASSUME NEW s \in SystemTypes, NEW w \in {"bcd", "graphic"} \cup Devices
  PROVE  /\ \A ok \in BOOLEAN : WsbmMade(s, InitWsbm(s, w, ok), w, ok)
         /\ WsbmGone(s, DeleteWsbm(s, w), w)
<1>1. ASSUME NEW ok \in BOOLEAN
      PROVE  WsbmMade(s, InitWsbm(s, w, ok), w, ok)
  <2>1. CASE ok
    <3>1. InitWsbm(s, w, ok) = [s EXCEPT !.wsbm = s.wsbm \cup {w}, !.pool = "live"]
      BY <2>1 DEF InitWsbm, SystemTypes
    <3>2. s.wsbm \cup {w} \in SUBSET ({"bcd", "graphic"} \cup Devices)
      BY DEF SystemTypes
    <3> QED
      BY <2>1, <3>1, <3>2 DEF SystemTypes, WsbmMade
  <2>2. CASE ~ok
    <3>1. InitWsbm(s, w, ok) = [s EXCEPT !.pool = "down", !.twice = s.twice \/ s.pool # "live"]
      BY <2>2 DEF InitWsbm, TakeDown, SystemTypes
    <3> QED
      BY <2>2, <3>1 DEF SystemTypes, WsbmMade
  <2> QED
    BY <2>1, <2>2
<1>2. WsbmGone(s, DeleteWsbm(s, w), w)
  <2> DEFINE t == TakeDown(s)
             ws == t.wsbm \ {w}
  <2>1. t \in SystemTypes /\ t.phase = s.phase /\ t.fd = s.fd /\ t.plane = s.plane /\ t.wsbm = s.wsbm
    BY DEF TakeDown, SystemTypes
  <2>2. DeleteWsbm(s, w) = [t EXCEPT !.wsbm = ws]
    BY <2>1 DEF DeleteWsbm, SystemTypes
  <2>3. ws \in SUBSET ({"bcd", "graphic"} \cup Devices) /\ ws = s.wsbm \ {w}
    BY <2>1 DEF SystemTypes
  <2> HIDE DEF t, ws
  <2> QED
    BY <2>1, <2>2, <2>3 DEF SystemTypes, WsbmGone
<1> QED
  BY <1>1, <1>2

\* Every way of starting leaves the managers as they should be.
StartedSoundly(s) ==
  /\ s \in SystemTypes /\ s.phase # "down" /\ (~s.fd => ~s.plane)
  /\ s.phase = "failed" => s.wsbm = {}
  /\ s.phase = "up" => /\ {"bcd", "graphic"} \subseteq s.wsbm
                       /\ s.pool = "live" \/ "hdmi" \notin s.wsbm

LEMMA StartedIsSound ==
  ASSUME NEW f \in StartFaults, NEW c \in {"ok", "mmap", "other"}, NEW good \in SUBSET Devices
  PROVE  StartedSoundly(Started(f, c, good))
<1> DEFINE s == Started(f, c, good)
           bcd == InitBCD(Down, f)
           gfx == InitGraphic(bcd, f)
           ctx == CreateContext(gfx, c)
           mipi == InitProvider(ctx, "mipi", "mipi" \in good)
           dev == InitProvider(mipi, "hdmi", "hdmi" \in good)
<1>0. Down \in SystemTypes /\ Down.wsbm = {} /\ Down.fd = TRUE /\ Down.plane = FALSE
  BY DEF Down, SystemTypes
<1>1. /\ bcd \in SystemTypes /\ bcd.fd = TRUE /\ bcd.plane = FALSE
      /\ bcd.wsbm = IF f # "bcd" THEN {"bcd"} ELSE {}
  <2>1. bcd = InitWsbm(Down, "bcd", f # "bcd")
    BY DEF InitBCD
  <2> HIDE DEF bcd
  <2> QED
    <3>1. WsbmMade(Down, bcd, "bcd", f # "bcd")
      BY <1>0, <2>1, WsbmFields
    <3> QED
      BY <1>0, <3>1 DEF WsbmMade
<1> HIDE DEF bcd
<1>2. /\ gfx \in SystemTypes /\ gfx.fd = TRUE /\ gfx.plane = FALSE
      /\ f \in {"wsbm", "pvr"} => gfx.wsbm \subseteq {"bcd"}
      /\ f = "none" => gfx.wsbm = {"bcd", "graphic"} /\ gfx.pool = "live"
  <2> DEFINE t == InitWsbm(bcd, "graphic", f # "wsbm")
  <2>1. /\ t \in SystemTypes /\ t.fd = TRUE /\ t.plane = FALSE
        /\ t.wsbm = IF f # "wsbm" THEN bcd.wsbm \cup {"graphic"} ELSE bcd.wsbm
        /\ t.pool = IF f # "wsbm" THEN "live" ELSE "down"
    <3>1. WsbmMade(bcd, t, "graphic", f # "wsbm")
      BY <1>1, WsbmFields
    <3> QED
      BY <1>1, <3>1 DEF WsbmMade
  <2>2. gfx = IF f = "pvr" THEN DeleteWsbm(t, "graphic") ELSE t
    BY DEF InitGraphic
  <2> HIDE DEF gfx, t
  <2>3. CASE f = "pvr"
    <3>1. gfx = DeleteWsbm(t, "graphic")
      BY <2>2, <2>3
    <3>2. gfx \in SystemTypes /\ gfx.fd = TRUE /\ gfx.plane = FALSE /\ gfx.wsbm = t.wsbm \ {"graphic"}
      BY <2>1, <3>1, WsbmFields DEF WsbmGone
    <3> QED
      BY <1>1, <2>1, <2>3, <3>2
  <2>4. CASE f # "pvr"
    BY <1>1, <2>1, <2>2, <2>4
  <2> QED
    BY <2>3, <2>4
<1> HIDE DEF gfx
<1>3. CASE f \in {"gralloc", "drm"}
  <2>1. s = [Down EXCEPT !.phase = "failed"]
    BY <1>3 DEF Started
  <2> QED
    BY <1>0, <2>1 DEF StartedSoundly, SystemTypes
<1>4. CASE f = "bcd"
  <2>1. s = [bcd EXCEPT !.phase = "failed"]
    BY <1>4 DEF Started, bcd
  <2> QED
    BY <1>1, <1>4, <2>1 DEF StartedSoundly, SystemTypes
<1>5. CASE f \in {"wsbm", "pvr"}
  <2> DEFINE t == DeleteWsbm(gfx, "bcd")
  <2>1. s = [t EXCEPT !.phase = "failed"]
    BY <1>5 DEF Started, bcd, gfx
  <2>2. t \in SystemTypes /\ t.fd = TRUE /\ t.plane = FALSE /\ t.wsbm = gfx.wsbm \ {"bcd"}
    BY <1>2, WsbmFields DEF WsbmGone
  <2>3. t.wsbm = {}
    BY <1>2, <1>5, <2>2
  <2> HIDE DEF t
  <2> QED
    BY <2>1, <2>2, <2>3 DEF StartedSoundly, SystemTypes
<1>6. CASE f = "none"
  <2>1. s = [dev EXCEPT !.phase = "up"]
    BY <1>6 DEF Started, bcd, gfx
  <2>2. /\ ctx \in SystemTypes /\ ctx.wsbm = {"bcd", "graphic"} /\ (~ctx.fd => ~ctx.plane)
    BY <1>2, <1>6 DEF CreateContext, SystemTypes
  <2> HIDE DEF ctx
  <2>3. /\ mipi \in SystemTypes /\ mipi.fd = ctx.fd /\ mipi.plane = ctx.plane
        /\ {"bcd", "graphic"} \subseteq mipi.wsbm /\ "hdmi" \notin mipi.wsbm
    <3>1. mipi = InitWsbm(ctx, "mipi", "mipi" \in good /\ ctx.fd)
      BY DEF InitProvider
    <3>2. ("mipi" \in good /\ ctx.fd) \in BOOLEAN
      BY <2>2 DEF SystemTypes
    <3> HIDE DEF mipi
    <3>3. WsbmMade(ctx, mipi, "mipi", "mipi" \in good /\ ctx.fd)
      BY <2>2, <3>1, <3>2, WsbmFields DEF Devices
    <3> QED
      BY <2>2, <3>3 DEF WsbmMade
  <2> HIDE DEF mipi
  <2>4. /\ dev \in SystemTypes /\ dev.fd = mipi.fd /\ dev.plane = mipi.plane
        /\ {"bcd", "graphic"} \subseteq dev.wsbm
        /\ dev.pool = "live" \/ "hdmi" \notin dev.wsbm
    <3>1. dev = InitWsbm(mipi, "hdmi", "hdmi" \in good /\ mipi.fd)
      BY DEF InitProvider
    <3>2. ("hdmi" \in good /\ mipi.fd) \in BOOLEAN
      BY <2>3 DEF SystemTypes
    <3> HIDE DEF dev
    <3>3. WsbmMade(mipi, dev, "hdmi", "hdmi" \in good /\ mipi.fd)
      BY <2>3, <3>1, <3>2, WsbmFields DEF Devices
    <3> QED
      BY <2>3, <3>3 DEF WsbmMade
  <2> HIDE DEF dev
  <2> QED
    BY <2>1, <2>2, <2>3, <2>4 DEF StartedSoundly, SystemTypes
<1> QED
  BY <1>3, <1>4, <1>5, <1>6 DEF StartFaults

LEMMA InitializeKeeps == BufInv /\ Initialize => BufInv'
<1> SUFFICES ASSUME BufInv, Initialize PROVE BufInv'
  OBVIOUS
<1>1. StartedSoundly(sys')
  BY StartedIsSound DEF Initialize
<1>2. UNCHANGED <<user, mem, ring, rot, pay, conv, scan, set, wrote>> /\ sys.phase = "down"
  BY DEF Initialize
<1>3. StartInv'
  BY <1>1 DEF StartInv, StartHoldsManagers, StartedSoundly
<1>4. Idle /\ rot = Stopped
  BY <1>2 DEF BufInv, DarkInv
<1>5. DarkInv' /\ RotInv'
  BY <1>2, <1>4, StoppedIsBare DEF BufInv, DarkInv, RotInv, Idle, Bare
<1>6. ShownTypes' /\ MemInv' /\ ConvInv'
  BY <1>2 DEF BufInv, ShownTypes, MemInv, ConvInv
<1>7. HoldInv'
  BY <1>2 DEF BufInv, RingPart, HoldInv, RingTypes, Counted
<1>8. FrontInv'
  BY <1>2 DEF BufInv, RingPart, FrontInv, Freshest, LastShown, After
<1> QED
  BY <1>3, <1>5, <1>6, <1>7, <1>8 DEF BufInv, RingPart

\* What a prepare does not touch, and what it may not bring to light.
LEMMA PrepareKeepsTheRest ==
  ASSUME BufInv, Ready, UNCHANGED <<user, sys, scan>>, RingPart',
         ~sys.fd /\ Idle => Idle', user \in {"overlay", "rgb"} /\ ~sys.plane => set' = None
  PROVE  StartInv' /\ DarkInv'
<1>1. StartInv'
  BY DEF BufInv, StartInv, StartHoldsManagers
<1>2. DarkInv'
  <2>1. sys'.phase = "up"
    BY DEF Ready
  <2>2. ~sys'.fd => Idle'
    BY DEF BufInv, DarkInv
  <2>3. user' \in {"overlay", "rgb"} /\ ~sys'.plane => scan'.hw = None /\ scan'.post = <<>> /\ set' = None
    BY DEF BufInv, DarkInv
  <2> QED
    BY <2>1, <2>2, <2>3 DEF DarkInv
<1> QED
  BY <1>1, <1>2

LEMMA PlainKeeps ==
  ASSUME BufInv, NEW b \in Stamps, PreparePlain(b)
  PROVE  /\ BufInv' /\ StillHeld /\ mem'.fails >= mem.fails
         /\ user = "overlay" /\ mem'.fails = 0 => set' = b \/ (set' = None /\ ring' = ring)
<1> DEFINE e == [stamp |-> b, obj |-> b, ttm |-> FALSE]
<1>1. /\ Ready /\ user # "rgb" /\ SetBuffer(mem, e) /\ wrote' = None
      /\ UNCHANGED <<user, sys, rot, pay, conv, scan>>
  BY DEF PreparePlain
<1>2. e \in Entries /\ e.obj = e.stamp /\ ~e.ttm /\ e.obj = b
  BY DEF Entries, Objects
<1>3. mem \in Memory /\ mem.fails <= MaxFails /\ Stamps \subseteq mem.own /\ Unmoved(mem, mem) /\ mem.fails >= mem.fails
  BY DEF BufInv, MemInv, Unmoved, Memory
<1>4. Mappable(mem, e) \/ ~sys.plane
  BY <1>2, <1>3 DEF Mappable, BufInv, StartInv
<1> HIDE DEF e
<1>5. /\ RingPart' /\ StillHeld /\ mem' \in Memory /\ mem'.own = mem.own
      /\ mem'.fails <= MaxFails /\ mem'.fails >= mem.fails
      /\ ~sys.fd /\ Idle => Idle'
      /\ user \in {"overlay", "rgb"} /\ ~sys.plane => set' = None
  BY <1>1, <1>2, <1>3, <1>4, SetBufferKeepsRing
<1>6. StartInv' /\ DarkInv'
  BY <1>1, <1>5, PrepareKeepsTheRest
<1>7. ShownTypes' /\ MemInv'
  BY <1>1, <1>3, <1>5 DEF BufInv, ShownTypes, MemInv
<1>8. RotInv' /\ ConvInv'
  BY <1>1, <1>5 DEF BufInv, RotInv, ConvInv
<1>9. user = "overlay" /\ mem'.fails = 0 => set' = b \/ (set' = None /\ ring' = ring)
  <2>1. SetInFront(mem, e) /\ SetInTheDark
    BY <1>1, <1>2, <1>3, SetBufferIsSafe DEF BufInv, RingPart, HoldInv, ShownTypes, StartInv, SystemTypes
  <2>2. CASE user = "overlay" /\ sys.plane /\ mem'.fails = 0
    BY <1>2, <1>4, <2>1, <2>2 DEF SetInFront
  <2>3. CASE user = "overlay" /\ ~sys.plane
    BY <2>1, <2>3 DEF SetInTheDark
  <2> QED
    BY <2>2, <2>3
<1> QED
  BY <1>5, <1>6, <1>7, <1>8, <1>9 DEF BufInv

\* prepare rotated a frame into target i, which was there or was made of free
\* memory, and the next frame goes to the one after it.
FrameWritten(i) ==
  /\ rot'.tix = (i + 1) % Targets /\ wrote' = rot'.target[i]
  /\ \A j \in Tix : rot'.target[j] = wrote' => j = i
  /\ \/ rot'.target = rot.target /\ i = rot.tix
     \/ /\ mem.ref[wrote'] = 0
        /\ \/ i = rot.tix /\ \A j \in Tix \ {i} : rot'.target[j] = rot.target[j]
           \/ \A j \in Tix \ {i} : rot'.target[j] = None

\* What becomes of the frame, until something fails.
FrameHanded ==
  mem'.fails = 0 =>
    /\ mem.fails = 0
    /\ wrote' = None => rot' = Stopped /\ ring' = ring /\ set' = None
    /\ wrote' # None => /\ \E i \in Tix : FrameWritten(i)
                        /\ set' = wrote' \/ (LastShown = None /\ set' = None)

LEMMA RotatedKeeps ==
  ASSUME BufInv, NEW b \in Stamps, NEW c \in {"rot90", "rot180"}, PrepareRotated(b, c)
  PROVE  BufInv' /\ StillHeld /\ FrameHanded
<1> DEFINE v == [k |-> mem, rot |-> rot, pay |-> pay[b], wrote |-> None, ok |-> FALSE]
           some == IF NeedsTarget(v, c) /\ sys.pool = "live"
                   THEN Free(Reconfigure(v, c).k, Made) ELSE {None}
<1>1. /\ Ready /\ user = "overlay" /\ UNCHANGED <<user, sys, conv, scan>>
  BY DEF PrepareRotated
<1>2. PICK f \in RotationFaults(v, c), o \in some :
        LET w == SetupRotation(v, c, f, o)
        IN /\ NeedsTarget(v, c) /\ sys.pool # "live" => f \in {"alloc", "start"}
           /\ w.k.fails <= MaxFails
           /\ rot' = w.rot
           /\ pay' = [pay EXCEPT ![b] = w.pay]
           /\ wrote' = w.wrote
           /\ IF w.ok /\ w.pay # None
              THEN SetBuffer(w.k, [stamp |-> b, obj |-> w.pay, ttm |-> TRUE])
              ELSE NoBuffer(w.k)
  BY DEF PrepareRotated
<1> DEFINE w == SetupRotation(v, c, f, o)
           e == [stamp |-> b, obj |-> w.pay, ttm |-> TRUE]
<1>3. /\ v \in Providers /\ v.wrote = None /\ v.ok = FALSE /\ v.k = mem /\ v.rot = rot
      /\ TargetsHeld(mem.own, rot) /\ (~rot.va => Bare(rot)) /\ mem.fails \in Nat
  BY <1>1, StoppedIsBare DEF BufInv, MemInv, RotInv, ShownTypes, Providers, Memory
<1> HIDE DEF v
<1>4. NeedsTarget(v, c) /\ f \notin {"alloc", "start"} => o \in Free(Reconfigure(v, c).k, Made)
  BY <1>2
<1>5. SetupSafe(v, w) /\ (f \in {"alloc", "start"} => w.ok = FALSE)
  BY <1>3, <1>4, SetupIsSafe
<1>6. /\ w.k.fails <= MaxFails /\ rot' = w.rot /\ pay' = [pay EXCEPT ![b] = w.pay] /\ wrote' = w.wrote
      /\ IF w.ok /\ w.pay # None THEN SetBuffer(w.k, e) ELSE NoBuffer(w.k)
  BY <1>2
<1> HIDE DEF w, e
<1>7. /\ w \in Providers /\ TargetsHeld(w.k.own, w.rot) /\ Unmoved(w.k, mem)
      /\ w.k.fails >= mem.fails
      /\ (~w.rot.va => w.rot = Stopped)
      /\ (~w.ok => w.wrote = None /\ w.rot = Stopped)
      /\ (w.ok /\ w.k.fails = mem.fails => FrameRotated(v, w))
  BY <1>3, <1>5 DEF SetupSafe
<1>8. w.k \in Memory /\ w.rot \in Rotations /\ w.pay \in Made \cup {None} /\ w.wrote \in Made \cup {None}
      /\ w.k.fails \in Nat
  BY <1>7 DEF Providers, Memory
<1>9. sys.pool # "live" => ~w.ok
  <2>1. SUFFICES ASSUME sys.pool # "live" PROVE NeedsTarget(v, c)
    BY <1>2, <1>5
  <2>2. \A i \in Tix : v.rot.target[i] = None
    BY <1>3, <2>1 DEF BufInv, RotInv
  <2> DEFINE r == Reconfigure(v, c)
  <2>3. r \in Providers /\ ((r.rot.target = v.rot.target /\ r.rot.tix = v.rot.tix) \/ Bare(r.rot))
    BY <1>3, ReconfigureIsSafe
  <2> HIDE DEF r
  <2>4. r.rot.tix \in Tix
    BY <2>3 DEF Providers, Rotations
  <2>5. r.rot.target[r.rot.tix] = None
    BY <2>2, <2>3, <2>4 DEF Bare
  <2> QED
    BY <2>5 DEF NeedsTarget, r
<1>10. /\ RingPart' /\ StillHeld /\ mem' \in Memory /\ mem'.own = w.k.own
       /\ mem'.fails <= MaxFails /\ mem'.fails >= mem.fails /\ mem'.fails >= w.k.fails
       /\ ~sys.fd /\ Idle => Idle'
       /\ user \in {"overlay", "rgb"} /\ ~sys.plane => set' = None
  <2>1. CASE w.ok /\ w.pay # None
    <3>1. e \in Entries /\ e.obj = w.pay /\ e.ttm = TRUE
      BY <1>8, <2>1 DEF e, Entries, Objects
    <3>2. w.k.fails = 0 => Mappable(w.k, e) \/ ~sys.plane
      <4>1. w.k.fails = 0 => w.pay \in w.k.own
        BY <1>3, <1>7, <2>1 DEF FrameRotated
      <4> QED
        BY <1>9, <2>1, <3>1, <4>1 DEF Mappable, BufInv, StartInv
    <3>3. SetBuffer(w.k, e)
      BY <1>6, <2>1
    <3>4. Counted(w.k, ring.slot) /\ ring \in RingTypes /\ user \in Users /\ sys.fd \in BOOLEAN /\ sys.plane \in BOOLEAN
      BY <1>7 DEF BufInv, RingPart, HoldInv, Counted, Unmoved, ShownTypes, StartInv, SystemTypes
    <3>5. SetSafely(w.k, e)
      BY <1>1, <1>6, <1>8, <3>1, <3>3, <3>4, SetBufferIsSafe
    <3>6. mem'.fails >= w.k.fails
      BY <3>5 DEF SetSafely
    <3> QED
      BY <1>1, <1>6, <1>7, <1>8, <3>1, <3>2, <3>3, <3>6, SetBufferKeepsRing
  <2>2. CASE ~(w.ok /\ w.pay # None)
    <3>1. NoBuffer(w.k)
      BY <1>6, <2>2
    <3>2. RingPart' /\ StillHeld /\ mem' = w.k /\ (Idle => Idle') /\ set' = None
      BY <1>1, <1>6, <1>7, <1>8, <3>1, NoBufferKeepsRing
    <3> QED
      BY <1>6, <1>7, <1>8, <3>2
  <2> QED
    BY <2>1, <2>2
<1>11. StartInv' /\ DarkInv'
  BY <1>1, <1>10, PrepareKeepsTheRest
<1>12. ShownTypes' /\ MemInv'
  <2>1. pay' \in [Stamps -> Made \cup {None}]
    BY <1>6, <1>8 DEF BufInv, ShownTypes
  <2>2. Stamps \subseteq mem'.own
    BY <1>7, <1>10 DEF TargetsHeld
  <2> QED
    BY <1>1, <1>6, <1>8, <1>10, <2>1, <2>2 DEF BufInv, ShownTypes, MemInv
<1>13. RotInv' /\ ConvInv'
  <2>1. sys'.pool # "live" => \A i \in Tix : rot'.target[i] = None
    BY <1>1, <1>6, <1>7, <1>9, StoppedIsBare DEF Bare
  <2> QED
    BY <1>1, <1>6, <1>7, <1>8, <1>10, <2>1 DEF BufInv, RotInv, ConvInv
<1>14. ASSUME wrote' # None, mem'.fails = 0
       PROVE  /\ \E i \in Tix : FrameWritten(i)
              /\ set' = wrote' \/ (LastShown = None /\ set' = None)
  <2>1. w.ok /\ w.k.fails = 0 /\ mem.fails = 0
    BY <1>3, <1>6, <1>7, <1>8, <1>10, <1>14
  <2>2. FrameRotated(v, w)
    BY <1>7, <2>1
  <2>3. w.pay = w.wrote /\ w.wrote \in Made /\ w.wrote \in w.k.own /\ w.pay # None
    BY <1>6, <1>14, <2>2 DEF FrameRotated
  <2>4. SetBuffer(w.k, e) /\ e = [stamp |-> b, obj |-> w.wrote, ttm |-> TRUE]
    BY <1>6, <2>1, <2>3 DEF e
  <2>5. e \in Entries /\ e.obj = w.wrote /\ e.ttm = TRUE
    BY <2>3, <2>4 DEF Entries, Objects
  <2>6. Counted(w.k, ring.slot) /\ ring \in RingTypes /\ user \in Users /\ sys.fd \in BOOLEAN /\ sys.plane \in BOOLEAN
    BY <1>7 DEF BufInv, RingPart, HoldInv, Counted, Unmoved, ShownTypes, StartInv, SystemTypes
  <2>7. SetInFront(w.k, e) /\ SetSafely(w.k, e)
    BY <1>1, <1>6, <1>8, <2>4, <2>5, <2>6, SetBufferIsSafe
  <2>8. sys.plane => Mappable(w.k, e)
    BY <1>9, <2>1, <2>3, <2>5 DEF Mappable, BufInv, StartInv
  <2>9. sys.plane /\ LastShown # None => set' = w.wrote
    BY <1>1, <1>14, <2>5, <2>7, <2>8 DEF SetInFront
  <2>10. ~sys.plane => LastShown = None /\ set' = None
    BY <1>1, <1>10 DEF BufInv, DarkInv, LastShown
  <2>11. set' \in {None, w.wrote}
    BY <2>5, <2>7 DEF SetSafely
  <2>12. PICK i \in Tix :
           /\ w.rot.tix = (i + 1) % Targets /\ w.wrote = w.rot.target[i]
           /\ \/ w.rot.target = v.rot.target /\ i = v.rot.tix
              \/ /\ v.k.ref[w.wrote] = 0
                 /\ \/ i = v.rot.tix /\ \A j \in Tix \ {i} : w.rot.target[j] = v.rot.target[j]
                    \/ \A j \in Tix \ {i} : w.rot.target[j] = None
    BY <2>2 DEF FrameRotated
  <2>13. \A j \in Tix : w.rot.target[j] = w.wrote => j = i
    BY <1>6, <1>7, <1>14, <2>12 DEF TargetsHeld
  <2>14. FrameWritten(i)
    BY <1>3, <1>6, <2>12, <2>13 DEF FrameWritten
  <2>15. wrote' = w.wrote
    BY <1>6
  <2>16. set' = wrote' \/ (LastShown = None /\ set' = None)
    BY <2>9, <2>10, <2>11, <2>15
  <2> QED
    BY <2>14, <2>16
<1>15. ASSUME wrote' = None, mem'.fails = 0
       PROVE  rot' = Stopped /\ ring' = ring /\ set' = None
  <2>1. ~w.ok
    <3>1. w.k.fails = mem.fails
      BY <1>3, <1>7, <1>8, <1>10, <1>15
    <3>2. w.ok => w.wrote \in Made
      BY <1>7, <3>1 DEF FrameRotated
    <3> QED
      BY <1>6, <1>15, <3>2, NamesDiffer DEF Objects
  <2>2. NoBuffer(w.k)
    BY <1>6, <2>1
  <2> QED
    BY <1>6, <1>7, <2>1, <2>2 DEF NoBuffer
<1>16. FrameHanded
  <2>1. mem'.fails = 0 => mem.fails = 0
    BY <1>3, <1>10
  <2> QED
    BY <1>14, <1>15, <2>1 DEF FrameHanded
<1> QED
  BY <1>7, <1>10, <1>11, <1>12, <1>13, <1>16 DEF BufInv

LEMMA ConvertedKeeps ==
  ASSUME BufInv, NEW b \in Stamps, PrepareConverted(b)
  PROVE  BufInv' /\ StillHeld
<1> DEFINE v == [k |-> mem, conv |-> conv, obj |-> None]
<1>1. /\ Ready /\ user = "rgb" /\ wrote' = None /\ UNCHANGED <<user, sys, rot, pay, scan>>
  BY DEF PrepareConverted
<1>2. PICK f \in ConversionFaults(v, b), o \in IF NeedsYuv(v, b) THEN Free(mem, Made) ELSE {None} :
        LET w == Convert(v, b, f, o)
        IN /\ conv' = w.conv
           /\ IF w.obj = None THEN NoBuffer(w.k)
              ELSE SetBuffer(w.k, [stamp |-> w.obj, obj |-> w.obj, ttm |-> FALSE])
  BY DEF PrepareConverted
<1> DEFINE w == Convert(v, b, f, o)
           e == [stamp |-> w.obj, obj |-> w.obj, ttm |-> FALSE]
<1>3. v \in Converters /\ v.obj = None /\ v.k = mem /\ v.conv = conv /\ YuvHeld(mem.own, conv.map)
      /\ mem.fails \in Nat
  BY <1>1 DEF BufInv, MemInv, ConvInv, Converters, Memory
<1> HIDE DEF v
<1>4. ConvertSafe(v, w)
  <2>1. IF NeedsYuv(v, b) THEN o \in Free(v.k, Made) ELSE o = None
    BY <1>2, <1>3
  <2> QED
    BY <1>3, <2>1, ConvertIsSafe
<1>5. conv' = w.conv /\ IF w.obj = None THEN NoBuffer(w.k) ELSE SetBuffer(w.k, e)
  BY <1>2
<1> HIDE DEF w, e
<1>6. /\ w \in Converters /\ YuvHeld(w.k.own, w.conv.map) /\ Unmoved(w.k, mem)
      /\ w.k.fails = mem.fails /\ (w.obj # None => w.obj \in w.k.own)
      /\ w.k \in Memory /\ w.conv \in Conversions /\ w.obj \in Made \cup {None}
      /\ w.k.fails <= MaxFails /\ w.k.fails >= mem.fails
  BY <1>3, <1>4 DEF ConvertSafe, Converters, BufInv, MemInv
<1>7. /\ RingPart' /\ StillHeld /\ mem' \in Memory /\ mem'.own = w.k.own
      /\ mem'.fails <= MaxFails /\ mem'.fails >= mem.fails
      /\ ~sys.fd /\ Idle => Idle'
      /\ user \in {"overlay", "rgb"} /\ ~sys.plane => set' = None
  <2>1. CASE w.obj # None
    <3>1. e \in Entries /\ e.obj = w.obj /\ e.ttm = FALSE
      BY <1>6, <2>1 DEF e, Entries, Objects
    <3>2. Mappable(w.k, e) \/ ~sys.plane
      BY <1>6, <2>1, <3>1 DEF Mappable, BufInv, StartInv
    <3>3. SetBuffer(w.k, e)
      BY <1>5, <2>1
    <3> QED
      BY <1>1, <1>6, <3>1, <3>2, <3>3, SetBufferKeepsRing
  <2>2. CASE w.obj = None
    <3>1. NoBuffer(w.k)
      BY <1>5, <2>2
    <3>2. RingPart' /\ StillHeld /\ mem' = w.k /\ (Idle => Idle') /\ set' = None
      BY <1>1, <1>6, <3>1, NoBufferKeepsRing
    <3> QED
      BY <1>6, <3>2
  <2> QED
    BY <2>1, <2>2
<1>8. StartInv' /\ DarkInv'
  BY <1>1, <1>7, PrepareKeepsTheRest
<1>9. ShownTypes' /\ MemInv'
  BY <1>1, <1>6, <1>7 DEF BufInv, ShownTypes, MemInv, YuvHeld
<1>10. RotInv' /\ ConvInv'
  BY <1>1, <1>5, <1>6, <1>7 DEF BufInv, RotInv, ConvInv
<1> QED
  BY <1>7, <1>8, <1>9, <1>10 DEF BufInv

LEMMA ScanMoves ==
  ASSUME NEW post \in Seq(Objects), NEW o \in Objects
  PROVE  /\ Append(post, o) \in Seq(Objects) /\ Append(post, o) # <<>>
         /\ Append(post, o)[Len(Append(post, o))] = o
         /\ post # <<>> => /\ Head(post) \in Objects /\ Tail(post) \in Seq(Objects)
                           /\ Tail(post) = <<>> => Head(post) = post[Len(post)]
                           /\ Tail(post) # <<>> => Tail(post)[Len(Tail(post))] = post[Len(post)]
<1>1. Len(Append(post, o)) = Len(post) + 1 /\ Append(post, o)[Len(post) + 1] = o /\ Len(post) \in Nat
  OBVIOUS
<1>2. Append(post, o) # <<>>
  BY <1>1
<1>3. ASSUME post # <<>>
      PROVE  /\ Head(post) \in Objects /\ Tail(post) \in Seq(Objects)
             /\ Tail(post) = <<>> => Head(post) = post[Len(post)]
             /\ Tail(post) # <<>> => Tail(post)[Len(Tail(post))] = post[Len(post)]
  <2>1. /\ Head(post) = post[1] /\ Head(post) \in Objects /\ Tail(post) \in Seq(Objects)
        /\ Len(Tail(post)) = Len(post) - 1 /\ Len(post) >= 1
    BY <1>3
  <2>2. Tail(post) = <<>> => Len(post) = 1
    <3>1. Len(<<>>) = 0
      OBVIOUS
    <3>2. Tail(post) = <<>> => Len(Tail(post)) = 0
      BY <3>1, Zenon
    <3>3. Len(Tail(post)) = Len(post) - 1 /\ Len(post) \in Nat
      BY <2>1
    <3> QED
      BY <3>2, <3>3
  <2>3. ASSUME Tail(post) # <<>> PROVE Tail(post)[Len(Tail(post))] = post[Len(post)]
    <3>1. Len(Tail(post)) >= 1
      BY <2>1, <2>3
    <3>2. Len(Tail(post)) \in 1..Len(Tail(post))
      BY <2>1, <3>1
    <3>3. \A i \in 1..Len(Tail(post)) : Tail(post)[i] = post[i + 1]
      BY <1>3
    <3> QED
      BY <2>1, <3>2, <3>3
  <2> QED
    BY <2>1, <2>2, <2>3
<1> QED
  BY <1>1, <1>2, <1>3

\* The composer is up, with its file, while something is handed over or shown.
LEMMA NotDark ==
  ASSUME BufInv, set # None \/ scan.post # <<>> \/ scan.hw # None
  PROVE  sys.phase = "up" /\ sys.fd /\ (user \in {"overlay", "rgb"} => sys.plane)
BY DEF BufInv, DarkInv, Idle

LEMMA CommitKeeps ==
  ASSUME BufInv, Commit
  PROVE  BufInv'
<1>1. /\ set # None /\ set \in Objects /\ set' = None /\ wrote' = None
      /\ scan' = [hw |-> scan.hw, post |-> Append(scan.post, set)]
      /\ UNCHANGED <<user, sys, mem, ring, rot, pay, conv>>
      /\ scan.post \in Seq(Objects) /\ scan.hw \in Objects \cup {None}
  BY DEF Commit, BufInv, RingPart, HoldInv, ShownTypes, Scans
<1>2. Freshest = set /\ Freshest' = set
  BY <1>1, ScanMoves DEF Freshest, LastShown
<1>3. ShownTypes' /\ StartInv' /\ MemInv' /\ RotInv' /\ ConvInv'
  BY <1>1, ScanMoves DEF BufInv, ShownTypes, Scans, StartInv, StartHoldsManagers, MemInv, RotInv, ConvInv
<1>4. HoldInv'
  BY <1>1 DEF BufInv, RingPart, HoldInv, RingTypes, Counted
<1>5. FrontInv'
  BY <1>1, <1>2 DEF BufInv, RingPart, FrontInv, After
<1>6. DarkInv'
  BY <1>1, NotDark DEF DarkInv
<1> QED
  BY <1>3, <1>4, <1>5, <1>6 DEF BufInv, RingPart

LEMMA LatchKeeps ==
  ASSUME BufInv, Latch
  PROVE  BufInv'
<1>1. /\ scan.post # <<>> /\ scan' = [hw |-> Head(scan.post), post |-> Tail(scan.post)]
      /\ UNCHANGED <<user, sys, mem, ring, rot, pay, conv, set, wrote>>
      /\ scan.post \in Seq(Objects)
  BY DEF Latch, BufInv, ShownTypes, Scans
<1>2. Head(scan.post) \in Objects
  BY <1>1
<1>3. LastShown' = LastShown /\ Freshest' = Freshest
  BY <1>1, <1>2, ScanMoves DEF Freshest, LastShown
<1>4. ShownTypes' /\ StartInv' /\ MemInv' /\ RotInv' /\ ConvInv'
  BY <1>1, <1>2, ScanMoves DEF BufInv, ShownTypes, Scans, StartInv, StartHoldsManagers, MemInv, RotInv, ConvInv
<1>5. HoldInv'
  BY <1>1 DEF BufInv, RingPart, HoldInv, RingTypes, Counted
<1>6. FrontInv'
  BY <1>1, <1>3 DEF BufInv, RingPart, FrontInv, After
<1>7. DarkInv'
  BY <1>1, NotDark DEF DarkInv
<1> QED
  BY <1>4, <1>5, <1>6, <1>7 DEF BufInv, RingPart

LEMMA LeaveKeeps ==
  ASSUME BufInv, Leave
  PROVE  BufInv'
<1>1. /\ Ready /\ user \in {"sprite", "fb"} /\ scan.hw # None /\ scan' = [hw |-> None, post |-> <<>>]
      /\ UNCHANGED <<user, sys, mem, ring, rot, pay, conv, set, wrote>>
  BY DEF Leave
<1>2. Freshest' = None
  BY <1>1 DEF Freshest, LastShown, Ready
<1>3. ShownTypes' /\ StartInv' /\ MemInv' /\ RotInv' /\ ConvInv'
  BY <1>1 DEF BufInv, ShownTypes, Scans, StartInv, StartHoldsManagers, MemInv, RotInv, ConvInv
<1>4. HoldInv'
  BY <1>1 DEF BufInv, RingPart, HoldInv, RingTypes, Counted
<1>5. FrontInv'
  BY <1>2 DEF FrontInv
<1>6. DarkInv'
  BY <1>1, NotDark DEF DarkInv
<1> QED
  BY <1>3, <1>4, <1>5, <1>6 DEF BufInv, RingPart

LEMMA InvalidateKeeps ==
  ASSUME BufInv, Invalidate
  PROVE  BufInv'
<1> DEFINE k == DropAll(mem)
           gone == Range(conv.map)
<1>1. /\ Ready /\ sys.plane /\ user \in {"overlay", "rgb"} /\ mem' = Release(k, gone)
      /\ ring' = EmptyRing /\ conv' = NoConversions /\ scan' = [hw |-> None, post |-> <<>>]
      /\ wrote' = None /\ set = None /\ set' = None /\ UNCHANGED <<user, sys, rot, pay>>
  BY DEF Invalidate, Ready
<1>2. k \in Memory /\ k.own = mem.own /\ k.fails = mem.fails /\ Counted(k, EmptyRing.slot)
  BY DropAllCounts DEF BufInv, RingPart, HoldInv, MemInv
<1> HIDE DEF k
<1>3. conv \in Conversions /\ gone = {conv.map[b] : b \in Stamps} /\ gone \subseteq Made \cup {None}
  BY DEF BufInv, ConvInv, Conversions, Range
<1> HIDE DEF gone
<1>4. mem' \in Memory /\ mem'.own = mem.own \ gone /\ mem'.fails = mem.fails /\ Unmoved(mem', k)
  BY <1>1, <1>2 DEF Release, Memory, Unmoved
<1>5. Stamps \cap gone = {} /\ None \notin mem.own
  BY <1>3, NamesDiffer DEF Objects, BufInv, MemInv, Memory
<1>6. ShownTypes' /\ StartInv' /\ MemInv'
  BY <1>1, <1>4, <1>5 DEF BufInv, ShownTypes, Scans, StartInv, StartHoldsManagers, MemInv
<1>7. HoldInv'
  <2>1. ring' \in RingTypes'
    BY <1>1, RingOfUser DEF BufInv, ShownTypes, RingTypes, EmptyRing, Contents
  <2>2. Counted(mem', ring'.slot)
    BY <1>1, <1>2, <1>4 DEF Counted, Unmoved
  <2>3. user' \notin {"sprite", "fb"}
    BY <1>1
  <2> QED
    BY <1>1, <2>1, <2>2, <2>3 DEF HoldInv, Counted
<1>8. FrontInv' /\ DarkInv'
  <2>1. Freshest' = None
    BY <1>1 DEF Freshest, LastShown
  <2>2. Idle'
    BY <1>1 DEF Idle, EmptyRing
  <2> QED
    BY <1>1, <2>1, <2>2 DEF FrontInv, DarkInv, Idle, Ready
<1>9. ConvInv' /\ \A b \in Stamps : conv'.map[b] = None
  <2>1. conv' \in Conversions /\ \A b \in Stamps : conv'.map[b] = None
    BY <1>1 DEF NoConversions, Conversions
  <2>2. user = "rgb" => YuvHeld(mem'.own, conv'.map)
    BY <1>3, <1>4, <1>5, <2>1 DEF BufInv, ConvInv, YuvHeld
  <2> QED
    BY <1>1, <2>1, <2>2 DEF ConvInv
<1>10. RotInv'
  <2>1. user = "overlay" => TargetsHeld(mem'.own, rot')
    <3>1. user = "overlay" => gone \subseteq {None}
      BY <1>3 DEF BufInv, ConvInv, NoConversions
    <3> QED
      BY <1>1, <1>4, <1>5, <3>1 DEF BufInv, RotInv, TargetsHeld
  <2> QED
    BY <1>1, <2>1 DEF BufInv, RotInv
<1> QED
  BY <1>6, <1>7, <1>8, <1>9, <1>10 DEF BufInv, RingPart

LEMMA StutterKeeps ==
  ASSUME BufInv, UNCHANGED vars
  PROVE  BufInv'
<1> USE DEF vars
<1>1. ShownTypes' /\ StartInv' /\ MemInv' /\ RotInv' /\ ConvInv'
  BY DEF BufInv, ShownTypes, StartInv, StartHoldsManagers, MemInv, RotInv, ConvInv
<1>2. HoldInv'
  BY DEF BufInv, RingPart, HoldInv, RingTypes, Counted
<1>3. FrontInv' /\ DarkInv'
  BY DEF BufInv, RingPart, FrontInv, DarkInv, Idle, Freshest, LastShown, After
<1> QED
  BY <1>1, <1>2, <1>3 DEF BufInv, RingPart

-----------------------------------------------------------------------------
\* The theorems.

LEMMA BufInvIsInductive == BufInv /\ [Next]_vars => BufInv'
<1> SUFFICES ASSUME BufInv, [Next]_vars PROVE BufInv'
  OBVIOUS
<1>1. Client[user] \subseteq Stamps
  BY DEF BufInv, ShownTypes, Stamps
<1>2. CASE Initialize
  BY <1>2, InitializeKeeps
<1>3. ASSUME NEW b \in Client[user], PreparePlain(b) PROVE BufInv'
  BY <1>1, <1>3, PlainKeeps
<1>4. ASSUME NEW b \in Client[user], NEW c \in {"rot90", "rot180"}, PrepareRotated(b, c)
      PROVE BufInv'
  BY <1>1, <1>4, RotatedKeeps
<1>5. ASSUME NEW b \in Client[user], PrepareConverted(b) PROVE BufInv'
  BY <1>1, <1>5, ConvertedKeeps
<1>6. CASE Commit
  BY <1>6, CommitKeeps
<1>7. CASE Latch
  BY <1>7, LatchKeeps
<1>8. CASE Invalidate
  BY <1>8, InvalidateKeeps
<1>9. CASE Leave
  BY <1>9, LeaveKeeps
<1>10. CASE UNCHANGED vars
  BY <1>10, StutterKeeps
<1> QED
  BY <1>2, <1>3, <1>4, <1>5, <1>6, <1>7, <1>8, <1>9, <1>10 DEF Next

\* The ring of a plane or device, what was flipped to, the provider's targets and
\* the converter's buffers stay in the relations that the invariant states,
\* whatever fails, and in whatever order planes prepare, commit and are switched off.
THEOREM Invariance == Spec => []BufInv
<1>1. Init => BufInv
  BY InitEstablishes
<1>2. BufInv /\ [Next]_vars => BufInv'
  BY BufInvIsInductive
<1> QED
  BY <1>1, <1>2, PTL DEF Spec

LEMMA CountsAreNat ==
  ASSUME mem \in Memory, Counted(mem, ring.slot)
  PROVE  mem.ref \in [Objects -> Nat] /\ mem.gtt \in [Objects -> Nat]
BY HeldIsFinite DEF Memory, Counted

\* Every variable keeps its type: no count of references or GTT mappings goes
\* below zero.
THEOREM TypeCorrect == Spec => []TypeOK
<1>1. BufInv => TypeOK
  <2> SUFFICES ASSUME BufInv PROVE TypeOK
    OBVIOUS
  <2>1. \A f \in {mem.ref, mem.gtt, mem.lost} : f \in [Objects -> Nat]
    BY CountsAreNat DEF BufInv, MemInv, RingPart, HoldInv, Memory
  <2>2. mem.fails \in 0..MaxFails /\ mem.own \subseteq Objects
    BY FlipsBounded DEF BufInv, MemInv, Memory
  <2>3. ring \in [slot : [Slots -> [stamp : Objects, obj : Objects, ttm : BOOLEAN] \cup {Empty}],
                  next : SlotsOf(user), prev : SlotsOf(user) \cup {NoSlot}]
    BY DEF BufInv, RingPart, HoldInv, RingTypes, Contents, Entries
  <2>4. {set, wrote} \subseteq Objects \cup {None}
    BY DEF BufInv, RingPart, HoldInv, ShownTypes, Objects
  <2>5. rot \in Rotations /\ conv \in Conversions /\ sys \in SystemTypes /\ scan \in Scans
        /\ user \in Users /\ pay \in [Stamps -> Made \cup {None}]
    BY DEF BufInv, RotInv, ConvInv, StartInv, ShownTypes
  <2> QED
    BY <2>1, <2>2, <2>3, <2>4, <2>5 DEF TypeOK, Rotations, Conversions, SystemTypes, Scans
<1> QED
  BY <1>1, Invariance, PTL

\* No mapping is leaked or undone twice, in rings of any length and for any
\* number of buffers: every reference and every GTT mapping is held by a slot.
THEOREM NoMappingIsLeaked == Spec => []MappingsHeld
<1>1. BufInv => MappingsHeld
  BY DEF BufInv, RingPart, HoldInv, Counted, Held, Direct, MappingsHeld
<1> QED
  BY <1>1, Invariance, PTL

\* No buffer that was allocated for a rotated or converted frame is leaked by a
\* failure or is in use twice; a provider that was stopped starts anew.
THEOREM NoMadeBufferIsLeaked == Spec => []MadeBuffersHeld
<1>1. BufInv => MadeBuffersHeld
  <2> SUFFICES ASSUME BufInv PROVE MadeBuffersHeld
    OBVIOUS
  <2>1. /\ RotInv /\ ConvInv /\ user \in Users
        /\ rot.target \in [Tix -> Made \cup {None}] /\ conv.map \in [Stamps -> Made \cup {None}]
    BY DEF BufInv, RotInv, ConvInv, ShownTypes, Rotations, Conversions
  <2>2. Range(rot.target) = {rot.target[i] : i \in Tix} /\ Range(conv.map) = {conv.map[b] : b \in Stamps}
    BY <2>1 DEF Range
  <2>3. \A b, c \in Stamps : conv.map[b] = conv.map[c] /\ conv.map[b] # None => b = c
    BY <2>1 DEF ConvInv, YuvHeld, NoConversions
  <2> QED
    BY <2>1, <2>2, <2>3 DEF MadeBuffersHeld, RotInv, ConvInv, TargetsHeld, YuvHeld
<1> QED
  BY <1>1, Invariance, PTL

\* A composer that failed to start has given back its managers; one that is up has
\* them, whichever providers failed.
THEOREM StartIsWhole == Spec => []StartHoldsManagers
<1>1. BufInv => StartHoldsManagers
  BY DEF BufInv, StartInv
<1> QED
  BY <1>1, Invariance, PTL

\* A plane's ring never unmaps the buffer that was flipped to last while the plane
\* shows it, in no step, as long as no mapping failed.
THEOREM ShownStaysMapped == Spec => LastShownStaysMapped
<1> DEFINE StaysMapped == user # "fb" /\ LastShown # None /\ mem'.fails = 0 /\ mem.ref[LastShown] > 0
                     /\ LastShown' = LastShown => mem.ref'[LastShown] > 0
<1>1. BufInv /\ BufInv' /\ [Next]_vars => [StaysMapped]_vars
  <2> SUFFICES ASSUME BufInv, BufInv', Next, user # "fb", LastShown # None, mem'.fails = 0,
                      mem.ref[LastShown] > 0, LastShown' = LastShown
               PROVE  mem.ref'[LastShown] > 0
    OBVIOUS
  <2>1. LastShown \in Objects /\ Client[user] \subseteq Stamps
    BY LastShownType DEF BufInv, ShownTypes, Stamps
  <2>2. StillHeld => mem.ref'[LastShown] > 0
    <3> SUFFICES ASSUME StillHeld PROVE mem.ref'[LastShown] > 0
      OBVIOUS
    <3> DEFINE o == LastShown
    <3>1. PICK i \in SlotsOf(user) : ring'.slot[i].obj = o
      BY DEF StillHeld
    <3>2. o \in Objects /\ i \in Slots
      BY <2>1, RingOfUser DEF BufInv, ShownTypes
    <3> HIDE DEF o
    <3>3. Held(ring'.slot, o) # {}
      BY <3>1, <3>2 DEF Held
    <3>4. Cardinality(Held(ring'.slot, o)) \in Nat \ {0}
      BY <3>3, HeldIsFinite, FS_EmptySet
    <3>5. mem'.ref[o] = Cardinality(Held(ring'.slot, o)) + mem'.lost[o] /\ mem'.lost[o] \in Nat
      BY <3>2 DEF BufInv, RingPart, HoldInv, MemInv, Memory, Counted
    <3>6. mem'.ref[o] > 0
      BY <3>4, <3>5
    <3> QED
      BY <3>6 DEF o
  <2>3. mem' = mem => mem.ref'[LastShown] > 0
    OBVIOUS
  <2>4. ASSUME NEW b \in Client[user], PreparePlain(b) PROVE mem.ref'[LastShown] > 0
    BY <2>1, <2>2, <2>4, PlainKeeps
  <2>5. ASSUME NEW b \in Client[user], NEW c \in {"rot90", "rot180"}, PrepareRotated(b, c)
        PROVE mem.ref'[LastShown] > 0
    BY <2>1, <2>2, <2>5, RotatedKeeps
  <2>6. ASSUME NEW b \in Client[user], PrepareConverted(b) PROVE mem.ref'[LastShown] > 0
    BY <2>1, <2>2, <2>6, ConvertedKeeps
  <2>7. ~Invalidate
    BY DEF Invalidate, LastShown
  <2>8. CASE Initialize
    BY <2>3, <2>8 DEF Initialize
  <2>9. CASE Commit
    BY <2>3, <2>9 DEF Commit
  <2>10. CASE Latch
    BY <2>3, <2>10 DEF Latch
  <2>11. CASE Leave
    BY <2>3, <2>11 DEF Leave
  <2> QED
    BY <2>4, <2>5, <2>6, <2>7, <2>8, <2>9, <2>10, <2>11 DEF Next
<1> QED
  BY <1>1, Invariance, PTL DEF Spec, LastShownStaysMapped

-----------------------------------------------------------------------------
\* The frames on screen while a provider goes round its targets.

\* What is on screen until the flip that is posted is done, and what was in front
\* before the freshest frame.
Behind == IF scan.post # <<>> THEN scan.hw ELSE None
Second == IF set # None THEN LastShown ELSE Behind

\* The freshest frame is in the target before mTargetIndex, the one before it in
\* one of the two targets before.
InTurn ==
  \A j \in Tix : rot.target[j] # None =>
    /\ rot.target[j] = Freshest => rot.tix = (j + 1) % Targets
    /\ rot.target[j] = Second => rot.tix \in {(j + 1) % Targets, (j + 2) % Targets}
SecondHeld == Second # None => \E i \in SlotsOf(user) : ring.slot[i].obj = Second
TurnInv ==
  /\ Len(scan.post) <= 1
  /\ user # "overlay" => wrote = None
  /\ mem.fails = 0 /\ user = "overlay" => SecondHeld /\ InTurn
  /\ mem.fails = 0 /\ wrote # None => wrote # LastShown /\ wrote # Behind

LEMMA TwoAhead ==
  ASSUME Targets > 2, NEW j \in Tix
  PROVE  /\ (j + 1) % Targets # j /\ (j + 2) % Targets # j
         /\ (((j + 1) % Targets) + 1) % Targets = (j + 2) % Targets
<1>1. Targets \in Nat /\ j \in Nat /\ j < Targets
  BY TwoTargets DEF Tix
<1>2. (j + 1) % Targets = IF j = Targets - 1 THEN 0 ELSE j + 1
  BY <1>1
<1>3. (j + 2) % Targets = IF j = Targets - 1 THEN 1 ELSE IF j = Targets - 2 THEN 0 ELSE j + 2
  BY <1>1
<1>4. 1 % Targets = 1 /\ Targets % Targets = 0
  BY <1>1
<1> QED
  BY <1>1, <1>2, <1>3, <1>4

\* Whatever is on screen or on its way there was flipped to last, or is behind.
LEMMA ShownIsRecent ==
  ASSUME BufInv, TurnInv
  PROVE  /\ scan.hw \in {LastShown, Behind}
         /\ \A o \in Range(scan.post) : o = LastShown
<1> DEFINE n == Len(scan.post)
<1>1. scan.post \in Seq(Objects) /\ n <= 1
  BY DEF BufInv, ShownTypes, Scans, TurnInv
<1>2. n \in Nat /\ DOMAIN scan.post = 1..n /\ (scan.post # <<>> => n # 0)
  BY <1>1
<1> HIDE DEF n
<1>3. scan.hw \in {LastShown, Behind}
  BY DEF LastShown, Behind
<1>4. ASSUME NEW o \in Range(scan.post) PROVE o = LastShown
  <2>1. PICK i \in 1..n : o = scan.post[i]
    BY <1>2 DEF Range
  <2>2. n = 1 /\ i = 1
    BY <1>1, <1>2, <2>1
  <2>3. scan.post # <<>>
    BY <1>2, <2>2 DEF n
  <2> QED
    BY <2>1, <2>2, <2>3 DEF LastShown, n
<1> QED
  BY <1>3, <1>4

LEMMA TurnsUnchanged ==
  ASSUME TurnInv, UNCHANGED <<user, mem, ring, rot, scan, set, wrote>>
  PROVE  TurnInv'
BY DEF TurnInv, SecondHeld, InTurn, Freshest, Second, Behind, LastShown

LEMMA CommitInTurn ==
  ASSUME BufInv, TurnInv, FlipDepth = 1, Commit
  PROVE  TurnInv'
<1>1. /\ set # None /\ set \in Objects /\ set' = None /\ wrote' = None
      /\ scan' = [hw |-> scan.hw, post |-> Append(scan.post, set)]
      /\ Len(scan.post) < 1 /\ UNCHANGED <<user, mem, ring, rot>>
      /\ scan.post \in Seq(Objects)
  BY DEF Commit, BufInv, RingPart, HoldInv, ShownTypes, Scans
<1>2. scan.post = <<>> /\ Len(scan'.post) = 1
  BY <1>1
<1>3. LastShown = scan.hw /\ LastShown' = set /\ Behind' = scan.hw
  BY <1>1, <1>2, ScanMoves DEF LastShown, Behind
<1>4. Freshest' = Freshest /\ Second' = Second
  BY <1>1, <1>3 DEF Freshest, Second
<1> QED
  BY <1>1, <1>2, <1>4 DEF TurnInv, SecondHeld, InTurn

LEMMA LatchInTurn ==
  ASSUME BufInv, TurnInv, Latch
  PROVE  TurnInv'
<1>1. /\ scan.post # <<>> /\ scan' = [hw |-> Head(scan.post), post |-> Tail(scan.post)]
      /\ UNCHANGED <<user, mem, ring, rot, set, wrote>>
      /\ scan.post \in Seq(Objects) /\ Len(scan.post) <= 1
  BY DEF Latch, BufInv, ShownTypes, Scans, TurnInv
<1>2. Len(scan.post) = 1 /\ Head(scan.post) \in Objects
  <2>1. Len(scan.post) \in Nat \ {0} /\ Head(scan.post) \in Objects
    BY <1>1
  <2>2. Len(scan.post) <= 1
    BY <1>1
  <2> DEFINE n == Len(scan.post)
  <2>3. n = 1
    <3>1. n \in Nat \ {0} /\ n <= 1
      BY <2>1, <2>2
    <3> HIDE DEF n
    <3> QED
      BY <3>1
  <2> QED
    BY <2>1, <2>3
<1>3. Tail(scan.post) = <<>> /\ Len(scan'.post) = 0
  BY <1>1, <1>2
<1>4. LastShown' = LastShown /\ Freshest' = Freshest
  BY <1>1, <1>2, ScanMoves DEF Freshest, LastShown
<1>5. Behind' = None /\ Second' \in {Second, None}
  BY <1>1, <1>3, <1>4 DEF Behind, Second
<1> QED
  BY <1>1, <1>3, <1>4, <1>5 DEF TurnInv, SecondHeld, InTurn

LEMMA DarkInTurn ==
  ASSUME BufInv, TurnInv, Invalidate \/ Leave
  PROVE  TurnInv'
<1>1. /\ set = None /\ set' = None /\ scan' = [hw |-> None, post |-> <<>>]
      /\ UNCHANGED <<user, rot>> /\ wrote' \in {None, wrote}
  BY DEF Invalidate, Leave, Ready
<1>2. LastShown' = None /\ Behind' = None /\ Freshest' = None /\ Second' = None
  BY <1>1 DEF LastShown, Behind, Freshest, Second
<1>3. Len(scan'.post) = 0
  BY <1>1
<1>4. wrote' # None => user # "overlay"
  BY DEF Invalidate, Leave
<1> QED
  BY <1>1, <1>2, <1>3, <1>4 DEF TurnInv, SecondHeld, InTurn

\* A prepare moves what was flipped to last into the second place.
LEMMA PrepareTurns ==
  ASSUME BufInv, TurnInv, Ready, UNCHANGED <<user, scan>>
  PROVE  /\ Freshest = LastShown /\ Second = Behind /\ LastShown' = LastShown /\ Behind' = Behind
         /\ Len(scan'.post) <= 1
         /\ set' # None => Freshest' = set' /\ Second' = LastShown
         /\ set' = None => Freshest' = LastShown /\ Second' = Behind
         /\ LastShown = None => Behind = None
<1>1. LastShown = None => scan.post = <<>>
  BY LastShownType DEF BufInv, ShownTypes
<1> QED
  BY <1>1 DEF Ready, TurnInv, Freshest, Second, Behind, LastShown

LEMMA PlainInTurn ==
  ASSUME BufInv, TurnInv, NEW b \in Stamps, PreparePlain(b), Targets > 2
  PROVE  TurnInv'
<1>1. Ready /\ wrote' = None /\ UNCHANGED <<user, rot, scan>>
  BY DEF PreparePlain
<1>2. /\ BufInv' /\ StillHeld /\ mem'.fails >= mem.fails
      /\ user = "overlay" /\ mem'.fails = 0 => set' = b \/ (set' = None /\ ring' = ring)
  BY PlainKeeps
<1>3. SUFFICES ASSUME user = "overlay", mem'.fails = 0 PROVE SecondHeld' /\ InTurn'
  BY <1>1, PrepareTurns DEF TurnInv
<1>4. mem.fails = 0 /\ SecondHeld /\ InTurn
  BY <1>2, <1>3 DEF TurnInv, BufInv, MemInv, Memory
<1>5. \A j \in Tix : rot.target[j] # b
  BY NamesDiffer DEF BufInv, RotInv, Rotations, Objects
<1>6. CASE set' = b
  <2>1. b # None
    BY NamesDiffer DEF Objects
  <2>2. Freshest' = b /\ Second' = LastShown /\ Freshest = LastShown
    BY <1>1, <1>6, <2>1, PrepareTurns
  <2>3. SecondHeld'
    BY <1>1, <1>2, <1>3, <2>2 DEF SecondHeld, StillHeld
  <2>4. InTurn'
    BY <1>1, <1>4, <1>5, <2>2 DEF InTurn
  <2> QED
    BY <2>3, <2>4
<1>7. CASE set' = None /\ ring' = ring
  <2>1. Freshest' = Freshest /\ Second' = Second
    BY <1>1, <1>7, PrepareTurns
  <2> QED
    BY <1>1, <1>4, <1>7, <2>1 DEF SecondHeld, InTurn
<1> QED
  BY <1>2, <1>3, <1>6, <1>7

\* What the ring holds has references.
LEMMA HeldIsReferred ==
  ASSUME BufInv, NEW o \in Objects, NEW i \in SlotsOf(user), ring.slot[i].obj = o
  PROVE  mem.ref[o] # 0
<1>1. i \in Slots
  BY RingOfUser DEF BufInv, ShownTypes
<1>2. Held(ring.slot, o) # {}
  BY <1>1 DEF Held
<1>3. Cardinality(Held(ring.slot, o)) \in Nat \ {0}
  BY <1>2, HeldIsFinite, FS_EmptySet
<1>4. mem.ref[o] = Cardinality(Held(ring.slot, o)) + mem.lost[o] /\ mem.lost[o] \in Nat
  BY DEF BufInv, RingPart, HoldInv, MemInv, Memory, Counted
<1> QED
  BY <1>3, <1>4

LEMMA RotatedInTurn ==
  ASSUME BufInv, TurnInv, NEW b \in Stamps, NEW c \in {"rot90", "rot180"}, PrepareRotated(b, c),
         Targets > 2
  PROVE  TurnInv'
<1>1. Ready /\ user = "overlay" /\ UNCHANGED <<user, scan>>
  BY DEF PrepareRotated
<1>2. BufInv' /\ StillHeld /\ FrameHanded
  BY RotatedKeeps
<1>3. SUFFICES ASSUME mem'.fails = 0
               PROVE  /\ SecondHeld' /\ InTurn'
                      /\ wrote' # None => wrote' # LastShown /\ wrote' # Behind
  BY <1>1, PrepareTurns DEF TurnInv
<1>4. mem.fails = 0 /\ SecondHeld /\ InTurn
  BY <1>1, <1>2, <1>3 DEF TurnInv, FrameHanded
<1>5. /\ rot.target \in [Tix -> Made \cup {None}] /\ rot.tix \in Tix
      /\ rot'.target \in [Tix -> Made \cup {None}] /\ rot'.tix \in Tix
  BY <1>2 DEF BufInv, RotInv, Rotations
<1>6. CASE wrote' = None
  <2>1. rot' = Stopped /\ ring' = ring /\ set' = None
    BY <1>2, <1>3, <1>6 DEF FrameHanded
  <2>2. Second' = Second
    BY <1>1, <2>1, PrepareTurns
  <2>3. SecondHeld'
    BY <1>1, <1>4, <2>1, <2>2 DEF SecondHeld
  <2>4. InTurn'
    BY <2>1 DEF InTurn, Stopped
  <2> QED
    BY <1>6, <2>3, <2>4
<1>7. CASE wrote' # None
  <2>1. PICK i \in Tix : FrameWritten(i)
    BY <1>2, <1>3, <1>7 DEF FrameHanded
  <2>2. set' = wrote' \/ (LastShown = None /\ set' = None)
    BY <1>2, <1>3, <1>7 DEF FrameHanded
  <2>3. LastShown \in Objects \cup {None} /\ Behind \in Objects \cup {None}
    BY LastShownType DEF BufInv, ShownTypes, Scans, Behind
  <2>4. Freshest = LastShown /\ Second = Behind
    BY <1>1, PrepareTurns
  \* a new buffer is in nobody's ring; an old one is not the last or the one before
  <2>5. wrote' # LastShown /\ wrote' # Behind
    <3>1. CASE mem.ref[wrote'] = 0
      <4>1. LastShown # None => \E s \in SlotsOf(user) : ring.slot[s].obj = LastShown
        BY <1>1, <1>4, <2>4 DEF BufInv, RingPart, FrontInv
      <4>2. Behind # None => \E s \in SlotsOf(user) : ring.slot[s].obj = Behind
        BY <1>4, <2>4 DEF SecondHeld
      <4> QED
        BY <1>7, <2>3, <3>1, <4>1, <4>2, HeldIsReferred
    <3>2. CASE rot'.target = rot.target /\ i = rot.tix
      <4>1. wrote' = rot.target[i]
        BY <2>1, <3>2 DEF FrameWritten
      <4>2. (i + 1) % Targets # i /\ (i + 2) % Targets # i
        BY TwoAhead
      <4> QED
        BY <1>4, <1>7, <2>4, <3>2, <4>1, <4>2 DEF InTurn
    <3> QED
      BY <2>1, <3>1, <3>2 DEF FrameWritten
  <2>6. SecondHeld'
    <3>1. CASE set' = wrote'
      <4>1. Second' = LastShown
        BY <1>1, <1>7, <3>1, PrepareTurns
      <4> QED
        BY <1>1, <1>2, <1>3, <4>1 DEF SecondHeld, StillHeld
    <3>2. CASE LastShown = None /\ set' = None
      <4>1. Second' = None
        BY <1>1, <3>2, PrepareTurns
      <4> QED
        BY <4>1 DEF SecondHeld
    <3> QED
      BY <2>2, <3>1, <3>2
  <2>7. InTurn'
    <3>1. Freshest' \in {wrote', None} /\ Second' \in {LastShown, None}
      <4>1. set' = wrote' => Freshest' = wrote' /\ Second' = LastShown
        BY <1>1, <1>7, PrepareTurns
      <4>2. LastShown = None /\ set' = None => Freshest' = None /\ Second' = None
        BY <1>1, PrepareTurns
      <4> QED
        BY <2>2, <4>1, <4>2
    <3> SUFFICES ASSUME NEW j \in Tix, rot'.target[j] # None
                 PROVE  /\ rot'.target[j] = wrote' => rot'.tix = (j + 1) % Targets
                        /\ rot'.target[j] = LastShown => rot'.tix = (j + 2) % Targets
      BY <3>1 DEF InTurn
    <3>2. rot'.target[j] = wrote' => j = i
      BY <2>1 DEF FrameWritten
    <3>3. rot'.tix = (i + 1) % Targets /\ wrote' = rot'.target[i]
      BY <2>1 DEF FrameWritten
    <3>4. ASSUME rot'.target[j] = LastShown PROVE rot'.tix = (j + 2) % Targets
      <4>1. j # i
        BY <2>5, <3>3, <3>4
      <4>2. rot'.target[j] = rot.target[j] /\ i = rot.tix
        BY <2>1, <4>1 DEF FrameWritten
      <4>3. rot.tix = (j + 1) % Targets
        BY <1>4, <2>4, <3>4, <4>2 DEF InTurn
      <4> QED
        BY <3>3, <4>2, <4>3, TwoAhead
    <3> QED
      BY <3>2, <3>3, <3>4
  <2> QED
    BY <2>5, <2>6, <2>7
<1> QED
  BY <1>6, <1>7

LEMMA ConvertedInTurn ==
  ASSUME BufInv, TurnInv, NEW b \in Stamps, PrepareConverted(b)
  PROVE  TurnInv'
<1>1. Ready /\ user = "rgb" /\ wrote' = None /\ UNCHANGED <<user, scan>>
  BY DEF PrepareConverted
<1> QED
  BY <1>1, PrepareTurns DEF TurnInv

\* While one flip is posted at a time, a provider with more than two targets never
\* rotates a frame into a buffer that is on screen or on its way there, until a
\* mapping or a rendering fails: with any number of targets, of buffers and of
\* slots in the plane's ring.
THEOREM NoFrameIsOverwritten ==
  ASSUME FlipDepth = 1, Targets > 2
  PROVE  Spec => []RotationWritesUnseen
<1>1. Init => TurnInv
  <2> SUFFICES ASSUME Init PROVE TurnInv
    OBVIOUS
  <2>1. LastShown = None /\ Behind = None /\ Freshest = None /\ Second = None /\ wrote = None
    BY DEF Init, LastShown, Behind, Freshest, Second
  <2>2. Len(scan.post) = 0
    BY DEF Init
  <2> QED
    BY <2>1, <2>2 DEF TurnInv, SecondHeld, InTurn
<1>2. BufInv /\ TurnInv /\ [Next]_vars => TurnInv'
  <2> SUFFICES ASSUME BufInv, TurnInv, [Next]_vars PROVE TurnInv'
    OBVIOUS
  <2>1. Client[user] \subseteq Stamps
    BY DEF BufInv, ShownTypes, Stamps
  <2>2. CASE Initialize
    BY <2>2, TurnsUnchanged DEF Initialize
  <2>3. ASSUME NEW b \in Client[user], PreparePlain(b) PROVE TurnInv'
    BY <2>1, <2>3, PlainInTurn
  <2>4. ASSUME NEW b \in Client[user], NEW c \in {"rot90", "rot180"}, PrepareRotated(b, c)
        PROVE TurnInv'
    BY <2>1, <2>4, RotatedInTurn
  <2>5. ASSUME NEW b \in Client[user], PrepareConverted(b) PROVE TurnInv'
    BY <2>1, <2>5, ConvertedInTurn
  <2>6. CASE Commit
    BY <2>6, CommitInTurn
  <2>7. CASE Latch
    BY <2>7, LatchInTurn
  <2>8. CASE Invalidate \/ Leave
    BY <2>8, DarkInTurn
  <2>9. CASE UNCHANGED vars
    BY <2>9, TurnsUnchanged DEF vars
  <2> QED
    BY <2>2, <2>3, <2>4, <2>5, <2>6, <2>7, <2>8, <2>9 DEF Next
<1>3. BufInv /\ TurnInv => RotationWritesUnseen
  BY ShownIsRecent DEF TurnInv, RotationWritesUnseen
<1> QED
  BY <1>1, <1>2, <1>3, Invariance, PTL DEF Spec
=============================================================================
