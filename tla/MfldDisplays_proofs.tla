------------------------ MODULE MfldDisplays_proofs ------------------------
(***************************************************************************)
(* Proofs about the displays and the planes of the Medfield composer, for   *)
(* any overlays, primary planes and layer lists and any number of events,   *)
(* where there are no sprite planes: "no sprite plane on Medfield/CTP"      *)
(* (src/hwc/IntelDisplayPlaneManager.cpp:295).                              *)
(***************************************************************************)
EXTENDS MfldDisplays, FiniteSetTheorems, SequenceTheorems, WellFoundedInduction, TLAPS

-----------------------------------------------------------------------------
(* The composer's records.                                                  *)

Bitmaps == {f \in [Pools -> SUBSET (0..31)] : \A k \in Pools : f[k] \subseteq Indices[k]}
Blocks == SUBSET OverlayPlanes
PipeOf == [OverlayPlanes -> Pipes]
Shows == [Overlays -> Flips]
Lays == [kind : Kinds, plane : Planes \cup {NoPlane}, delay : BOOLEAN, force : BOOLEAN]
LayLists == [Displays -> Seq(Lays)]
Given == [kind : Kinds, comp : Comps]
Handed == [on : BOOLEAN, ls : Seq(Given)]
GivenLists == [Displays -> Handed]
Flags == [Displays -> BOOLEAN]
Counts == 0..2

States ==
  [free : Bitmaps, recl : Bitmaps, lit : Blocks, mapped : Blocks, pipe : PipeOf,
   flip : Shows, hw : Shows, ml : LayLists, sf : GivenLists, owe : Flags, hot : Flags,
   blank : Flags, seek : Flags, shot : BOOLEAN, cnt : Counts, player : BOOLEAN,
   skip : BOOLEAN, gles : BOOLEAN, hasSkip : BOOLEAN]

\* The planes and lists of a record, and its flags.
Core(s) == <<s.free, s.recl, s.lit, s.mapped, s.pipe, s.flip, s.hw, s.ml, s.sf>>
Rest(s) == <<s.owe, s.hot, s.blank, s.seek, s.shot, s.cnt, s.player, s.skip, s.gles, s.hasSkip>>

\* What an assignment to one field leaves alone.
WithBitmaps(s, v, w) == [s EXCEPT !.free = v, !.recl = w]
WithBlocks(s, l, m, h) == [s EXCEPT !.lit = l, !.mapped = m, !.hw = h]
WithFlips(s, h, f) == [s EXCEPT !.hw = h, !.flip = f]

LEMMA SetBitmaps ==
  ASSUME NEW s \in States, NEW v \in Bitmaps, NEW w \in Bitmaps, NEW t, t = WithBitmaps(s, v, w)
  PROVE  /\ t \in States /\ t.free = v /\ t.recl = w
         /\ t.lit = s.lit /\ t.mapped = s.mapped /\ t.pipe = s.pipe
         /\ t.flip = s.flip /\ t.hw = s.hw /\ t.ml = s.ml /\ t.sf = s.sf /\ Rest(t) = Rest(s)
BY DEF States, Rest, WithBitmaps

LEMMA SetRecl ==
  ASSUME NEW s \in States, NEW v \in Bitmaps, NEW t, t = [s EXCEPT !.recl = v]
  PROVE  /\ t \in States /\ t.free = s.free /\ t.recl = v
         /\ t.lit = s.lit /\ t.mapped = s.mapped /\ t.pipe = s.pipe
         /\ t.flip = s.flip /\ t.hw = s.hw /\ t.ml = s.ml /\ t.sf = s.sf /\ Rest(t) = Rest(s)
BY DEF States, Rest

LEMMA SetFree ==
  ASSUME NEW s \in States, NEW v \in Bitmaps, NEW t, t = [s EXCEPT !.free = v]
  PROVE  /\ t \in States /\ t.free = v /\ t.recl = s.recl
         /\ t.lit = s.lit /\ t.mapped = s.mapped /\ t.pipe = s.pipe
         /\ t.flip = s.flip /\ t.hw = s.hw /\ t.ml = s.ml /\ t.sf = s.sf /\ Rest(t) = Rest(s)
BY DEF States, Rest

LEMMA SetBlocks ==
  ASSUME NEW s \in States, NEW l \in Blocks, NEW m \in Blocks, NEW h \in Shows, NEW t,
         t = WithBlocks(s, l, m, h)
  PROVE  /\ t \in States /\ t.free = s.free /\ t.recl = s.recl
         /\ t.lit = l /\ t.mapped = m /\ t.pipe = s.pipe
         /\ t.flip = s.flip /\ t.hw = h /\ t.ml = s.ml /\ t.sf = s.sf /\ Rest(t) = Rest(s)
BY DEF States, Rest, WithBlocks

LEMMA SetPipe ==
  ASSUME NEW s \in States, NEW v \in PipeOf, NEW t, t = [s EXCEPT !.pipe = v]
  PROVE  /\ t \in States /\ t.free = s.free /\ t.recl = s.recl
         /\ t.lit = s.lit /\ t.mapped = s.mapped /\ t.pipe = v
         /\ t.flip = s.flip /\ t.hw = s.hw /\ t.ml = s.ml /\ t.sf = s.sf /\ Rest(t) = Rest(s)
BY DEF States, Rest

LEMMA SetFlip ==
  ASSUME NEW s \in States, NEW v \in Shows, NEW h \in Shows, NEW t, t = WithFlips(s, h, v)
  PROVE  /\ t \in States /\ t.free = s.free /\ t.recl = s.recl
         /\ t.lit = s.lit /\ t.mapped = s.mapped /\ t.pipe = s.pipe
         /\ t.flip = v /\ t.hw = h /\ t.ml = s.ml /\ t.sf = s.sf /\ Rest(t) = Rest(s)
BY DEF States, Rest, WithFlips

LEMMA SetMl ==
  ASSUME NEW s \in States, NEW v \in LayLists, NEW t, t = [s EXCEPT !.ml = v]
  PROVE  /\ t \in States /\ t.free = s.free /\ t.recl = s.recl
         /\ t.lit = s.lit /\ t.mapped = s.mapped /\ t.pipe = s.pipe
         /\ t.flip = s.flip /\ t.hw = s.hw /\ t.ml = v /\ t.sf = s.sf /\ Rest(t) = Rest(s)
BY DEF States, Rest

LEMMA SetSf ==
  ASSUME NEW s \in States, NEW v \in GivenLists, NEW t, t = [s EXCEPT !.sf = v]
  PROVE  /\ t \in States /\ t.free = s.free /\ t.recl = s.recl
         /\ t.lit = s.lit /\ t.mapped = s.mapped /\ t.pipe = s.pipe
         /\ t.flip = s.flip /\ t.hw = s.hw /\ t.ml = s.ml /\ t.sf = v /\ Rest(t) = Rest(s)
BY DEF States, Rest

\* The types of the fields.
LEMMA Fields ==
  ASSUME NEW s \in States
  PROVE  /\ s.free \in Bitmaps /\ s.recl \in Bitmaps /\ s.lit \in Blocks /\ s.mapped \in Blocks
         /\ s.pipe \in PipeOf /\ s.flip \in Shows /\ s.hw \in Shows /\ s.ml \in LayLists
         /\ s.sf \in GivenLists
BY DEF States

-----------------------------------------------------------------------------
(* Lists.                                                                   *)

LEMMA ReplaceOne ==
  ASSUME NEW S, NEW q \in Seq(S), NEW i, NEW e, i \in DOMAIN q => e \in S, NEW r,
         r = [q EXCEPT ![i] = e]
  PROVE  /\ r \in Seq(S) /\ DOMAIN r = DOMAIN q /\ Len(r) = Len(q)
         /\ \A j \in DOMAIN q : r[j] = IF j = i THEN e ELSE q[j]
<1>1. Len(q) \in Nat /\ q \in [1..Len(q) -> S] /\ DOMAIN q = 1..Len(q)
  OBVIOUS
<1>2. r \in [1..Len(q) -> S] /\ \A j \in DOMAIN q : r[j] = IF j = i THEN e ELSE q[j]
  BY <1>1
<1>3. r \in Seq(S) /\ Len(r) = Len(q)
  BY <1>1, <1>2, SeqDef, LenProperties
<1> QED
  BY <1>1, <1>2, <1>3

LEMMA Elements ==
  ASSUME NEW S, NEW q \in Seq(S)
  PROVE  /\ Len(q) \in Nat /\ DOMAIN q = 1..Len(q) /\ \A j \in DOMAIN q : q[j] \in S
OBVIOUS

\* Writing one layer of the composer's list.
SetLayer(s, d, i, l) == [s EXCEPT !.ml[d][i] = l]

LEMMA LayerSet ==
  ASSUME NEW s \in States, NEW d \in Displays, NEW i, NEW l, i \in DOMAIN s.ml[d] => l \in Lays,
         NEW t, t = SetLayer(s, d, i, l)
  PROVE  /\ t \in States /\ t.free = s.free /\ t.recl = s.recl
         /\ t.lit = s.lit /\ t.mapped = s.mapped /\ t.pipe = s.pipe
         /\ t.flip = s.flip /\ t.hw = s.hw /\ t.sf = s.sf /\ Rest(t) = Rest(s)
         /\ \A e \in Displays : /\ DOMAIN t.ml[e] = DOMAIN s.ml[e] /\ Len(t.ml[e]) = Len(s.ml[e])
                                /\ e # d => t.ml[e] = s.ml[e]
                                /\ \A j \in DOMAIN s.ml[e] :
                                     t.ml[e][j] = IF e = d /\ j = i THEN l ELSE s.ml[e][j]
<1> DEFINE r == [s.ml[d] EXCEPT ![i] = l]
           m == [s.ml EXCEPT ![d] = r]
<1>1. t = [s EXCEPT !.ml = m]
  BY DEF SetLayer
<1>2. s.ml \in LayLists /\ s.ml[d] \in Seq(Lays)
  BY Fields DEF LayLists
<1>3. /\ r \in Seq(Lays) /\ DOMAIN r = DOMAIN s.ml[d] /\ Len(r) = Len(s.ml[d])
      /\ \A j \in DOMAIN s.ml[d] : r[j] = IF j = i THEN l ELSE s.ml[d][j]
  BY <1>2, ReplaceOne
<1> HIDE DEF r
<1>4. m \in LayLists /\ m[d] = r /\ \A e \in Displays : e # d => m[e] = s.ml[e]
  BY <1>2, <1>3 DEF LayLists
<1> HIDE DEF m
<1>5. /\ t \in States /\ t.free = s.free /\ t.recl = s.recl
      /\ t.lit = s.lit /\ t.mapped = s.mapped /\ t.pipe = s.pipe
      /\ t.flip = s.flip /\ t.hw = s.hw /\ t.ml = m /\ t.sf = s.sf /\ Rest(t) = Rest(s)
  BY <1>1, <1>4, SetMl
<1> QED
  BY <1>3, <1>4, <1>5

\* Writing the composition type of one of SurfaceFlinger's layers.
LEMMA CompSet ==
  ASSUME NEW s \in States, NEW d \in Displays, NEW i, NEW c \in Comps, NEW t, t = SetComp(s, d, i, c)
  PROVE  /\ t \in States /\ t.free = s.free /\ t.recl = s.recl
         /\ t.lit = s.lit /\ t.mapped = s.mapped /\ t.pipe = s.pipe
         /\ t.flip = s.flip /\ t.hw = s.hw /\ t.ml = s.ml /\ Rest(t) = Rest(s)
         /\ \A e \in Displays : /\ DOMAIN t.sf[e].ls = DOMAIN s.sf[e].ls
                                /\ e # d => t.sf[e] = s.sf[e]
                                /\ \A j \in DOMAIN s.sf[e].ls :
                                     /\ t.sf[e].ls[j].kind = s.sf[e].ls[j].kind
                                     /\ CompOf(t, e, j) = IF e = d /\ j = i THEN c ELSE CompOf(s, e, j)
<1> DEFINE g == [s.sf[d].ls[i] EXCEPT !.comp = c]
           r == [s.sf[d].ls EXCEPT ![i] = g]
           h == [s.sf[d] EXCEPT !.ls = r]
           m == [s.sf EXCEPT ![d] = h]
<1>1. t = [s EXCEPT !.sf = m]
  BY DEF SetComp
<1>2. s.sf \in GivenLists /\ s.sf[d] \in Handed /\ s.sf[d].ls \in Seq(Given)
  BY Fields DEF GivenLists, Handed
<1>3. i \in DOMAIN s.sf[d].ls => g \in Given /\ g.kind = s.sf[d].ls[i].kind /\ g.comp = c
  <2>1. i \in DOMAIN s.sf[d].ls => s.sf[d].ls[i] \in Given
    BY <1>2, Elements
  <2> QED
    BY <2>1 DEF Given
<1> HIDE DEF g
<1>4. /\ r \in Seq(Given) /\ DOMAIN r = DOMAIN s.sf[d].ls
      /\ \A j \in DOMAIN s.sf[d].ls : r[j] = IF j = i THEN g ELSE s.sf[d].ls[j]
  BY <1>2, <1>3, ReplaceOne
<1> HIDE DEF r
<1>5. h \in Handed /\ h.ls = r
  BY <1>2, <1>4 DEF Handed
<1> HIDE DEF h
<1>6. m \in GivenLists /\ m[d] = h /\ \A e \in Displays : e # d => m[e] = s.sf[e]
  BY <1>2, <1>5 DEF GivenLists
<1> HIDE DEF m
<1>7. /\ t \in States /\ t.free = s.free /\ t.recl = s.recl
      /\ t.lit = s.lit /\ t.mapped = s.mapped /\ t.pipe = s.pipe
      /\ t.flip = s.flip /\ t.hw = s.hw /\ t.ml = s.ml /\ t.sf = m /\ Rest(t) = Rest(s)
  BY <1>1, <1>6, SetSf
<1> QED
  BY <1>3, <1>4, <1>5, <1>6, <1>7 DEF CompOf

-----------------------------------------------------------------------------
(* Recursion over 0..n, as the loops over the buffers of a device use it.   *)

\* A nonempty set of natural numbers has a least element.
LEMMA LeastNumber ==
  ASSUME NEW S \in SUBSET Nat, S # {}
  PROVE  \E x \in S : \A y \in S : x <= y
<1> DEFINE R == StrictSubsetOrdering(Nat)
           upto == {0..x : x \in S}
<1>1. \E x \in upto : \A y \in upto : ~ (<<y, x>> \in R)
  <2>1. IsWellFoundedOn(R, FiniteSubsetsOf(Nat))
    BY FS_StrictSubsetOrderingWellFounded
  <2>2. upto \subseteq FiniteSubsetsOf(Nat)
    <3> SUFFICES ASSUME NEW x \in S PROVE 0..x \in FiniteSubsetsOf(Nat)
      OBVIOUS
    <3>1. IsFiniteSet(0..x)
      BY FS_Interval
    <3> QED
      BY <3>1 DEF FiniteSubsetsOf
  <2>3. upto # {}
    OBVIOUS
  <2> HIDE DEF R, upto
  <2> QED
    BY <2>1, <2>2, <2>3, WFMin
<1>2. PICK x \in S : \A y \in S : ~ (<<0..y, 0..x>> \in R)
  BY <1>1
<1>3. ASSUME NEW y \in S, y < x PROVE FALSE
  <2>1. 0..y \subseteq 0..x /\ x \in 0..x /\ x \notin 0..y
    BY <1>3
  <2>2. 0..y # 0..x /\ 0..y \in SUBSET Nat /\ 0..x \in SUBSET Nat
    BY <2>1
  <2>3. <<0..y, 0..x>> \in R
    BY <2>1, <2>2 DEF StrictSubsetOrdering
  <2> QED
    BY <1>2, <2>3
<1> QED
  BY <1>2, <1>3

\* Counting up from 0 inside a set stays inside it.
LEMMA CountingUp ==
  ASSUME NEW n \in Nat, NEW S, 0 \in S, \A i \in 1..n : i - 1 \in S => i \in S
  PROVE  0..n \subseteq S
<1> DEFINE out == {x \in 0..n : x \notin S}
<1> SUFFICES ASSUME out # {} PROVE FALSE
  OBVIOUS
<1>1. out \in SUBSET Nat
  OBVIOUS
<1>2. PICK x \in out : \A y \in out : x <= y
  BY <1>1, LeastNumber
<1>3. x \in 1..n /\ x - 1 \in 0..n
  OBVIOUS
<1>4. x - 1 \in S
  BY <1>2, <1>3
<1> QED
  BY <1>3, <1>4

\* A recursive function over 0..n exists, whatever its step F.
Follows(f, b, F, k) == f[0] = b /\ \A i \in 1..k : f[i] = F[<<i, f[i - 1]>>]

LEMMA RecursionExists ==
  ASSUME NEW n \in Nat, NEW X, NEW b \in X, NEW F \in [(1..n) \X X -> X]
  PROVE  \E f \in [0..n -> X] : Follows(f, b, F, n)
<1> DEFINE done == {k \in 0..n : \E f \in [0..n -> X] : Follows(f, b, F, k)}
<1>1. 0 \in done
  <2> DEFINE g == [i \in 0..n |-> b]
  <2>1. g \in [0..n -> X] /\ g[0] = b /\ 1..0 = {}
    OBVIOUS
  <2> HIDE DEF g
  <2>2. Follows(g, b, F, 0)
    BY <2>1 DEF Follows
  <2> QED
    BY <2>1, <2>2
<1>2. ASSUME NEW k \in 1..n, k - 1 \in done PROVE k \in done
  <2>1. PICK f \in [0..n -> X] : Follows(f, b, F, k - 1)
    BY <1>2
  <2> DEFINE next == F[<<k, f[k - 1]>>]
             g == [i \in 0..n |-> IF i = k THEN next ELSE f[i]]
  <2>2. k - 1 \in 0..n /\ k \in 0..n
    OBVIOUS
  <2>3. <<k, f[k - 1]>> \in (1..n) \X X
    BY <2>2
  <2>4. next \in X
    BY <2>3
  <2>5. g \in [0..n -> X] /\ g[k] = next /\ \A i \in 0..n \ {k} : g[i] = f[i]
    BY <2>2, <2>4
  <2> HIDE DEF g
  <2>6. g[0] = b
    BY <2>1, <2>5 DEF Follows
  <2>7. ASSUME NEW i \in 1..k PROVE g[i] = F[<<i, g[i - 1]>>]
    <3>1. i - 1 \in 0..n \ {k}
      OBVIOUS
    <3>2. g[i - 1] = f[i - 1]
      BY <2>5, <3>1
    <3>3. CASE i = k
      BY <2>5, <3>2, <3>3
    <3>4. CASE i # k
      <4>1. i \in 1..(k - 1) /\ i \in 0..n \ {k}
        BY <3>4
      <4>2. f[i] = F[<<i, f[i - 1]>>]
        BY <2>1, <4>1 DEF Follows
      <4> QED
        BY <2>5, <3>2, <4>1, <4>2
    <3> QED
      BY <3>3, <3>4
  <2>8. Follows(g, b, F, k)
    BY <2>6, <2>7 DEF Follows
  <2> QED
    BY <2>2, <2>5, <2>8
<1> HIDE DEF done
<1>3. 0..n \subseteq done
  BY <1>1, <1>2, CountingUp
<1>4. n \in done
  BY <1>3
<1> QED
  BY <1>4 DEF done

Leads(n, G, T) == \A i \in 1..n : \A x \in G[i - 1] : T[<<i, x>>] \in G[i]
Within(f, n, G) == \A i \in 1..n : f[i - 1] \in G[i - 1]

\* A loop whose step T leads from the set G[i - 1] to G[i].
LEMMA LoopExists ==
  ASSUME NEW n \in Nat, NEW X, NEW G \in [0..n -> SUBSET X], NEW b, b \in G[0],
         NEW T \in [(1..n) \X X -> X], Leads(n, G, T)
  PROVE  \E f \in [0..n -> X] : Follows(f, b, T, n) /\ Within(f, n, G)
<1>1. 0 \in 0..n /\ b \in X
  OBVIOUS
<1>2. PICK f \in [0..n -> X] : Follows(f, b, T, n)
  BY <1>1, RecursionExists
<1> DEFINE in == {i \in 0..n : f[i] \in G[i]}
<1>3. 0 \in in
  BY <1>1, <1>2 DEF Follows
<1>4. ASSUME NEW i \in 1..n, i - 1 \in in PROVE i \in in
  <2>1. f[i] = T[<<i, f[i - 1]>>]
    BY <1>2 DEF Follows
  <2>2. f[i - 1] \in G[i - 1] /\ i \in 0..n
    BY <1>4
  <2> QED
    BY <2>1, <2>2 DEF Leads
<1>5. 0..n \subseteq in
  <2> HIDE DEF in
  <2> QED
    BY <1>3, <1>4, CountingUp
<1>6. ASSUME NEW i \in 1..n PROVE f[i - 1] \in G[i - 1]
  <2>1. i - 1 \in 0..n
    OBVIOUS
  <2> QED
    BY <1>5, <2>1
<1> QED
  BY <1>2, <1>6 DEF Within

-----------------------------------------------------------------------------
(* The inductive invariant, of a composer's record s.                       *)

\* The layers that hold a plane.
Spots(s) == {x \in Displays \X Nat : x[2] \in DOMAIN s.ml[x[1]] /\ s.ml[x[1]][x[2]].plane # NoPlane}
PlaneAt(s, x) == s.ml[x[1]][x[2]].plane
Spare(s, k) == s.free[k] \cup s.recl[k]
IsPlane(p, k, i) == PoolOf(p) = k /\ p.i = i

\* Each index of each pool is free, reclaimed or lent, and lent once.
Accounted(s) ==
  /\ \A k \in Pools : s.free[k] \cap s.recl[k] = {}
  /\ \A k \in Pools : \A i \in Indices[k] :
       i \in Spare(s, k) \/ \E x \in Spots(s) : IsPlane(PlaneAt(s, x), k, i)
  /\ \A k \in Pools, i \in 0..31 : \A x \in Spots(s) : IsPlane(PlaneAt(s, x), k, i) =>
       /\ i \notin Spare(s, k)
       /\ \A y \in Spots(s) : IsPlane(PlaneAt(s, y), k, i) => x = y

\* What is scanned is the block of a plane that is on, a plane that is on has its
\* buffers, and the planes of a free overlay have none.
Shown(s) ==
  /\ \A i \in Overlays : s.hw[i] # Dark => s.hw[i].plane \in s.lit /\ s.hw[i].plane.i = i
  /\ \A i \in Overlays : s.flip[i] # Dark => s.flip[i].plane.i = i
  /\ s.lit \subseteq s.mapped
  /\ \A p \in s.mapped : p.i \notin s.free["overlay"]

\* What the panel flipped was on its pipe.
Flipped(s) == \A i \in Overlays : s.flip[i].by = "mipi" => s.flip[i].pipe = "mipi"

\* The panel's overlays are on its pipe (until a change of mode).
Piped(s) ==
  \A i \in DOMAIN s.ml["mipi"] :
    s.ml["mipi"][i].plane \in OverlayPlanes => s.pipe[s.ml["mipi"][i].plane] = "mipi"

\* The composer's list of the panel is the one SurfaceFlinger handed over.
Listed(s) ==
  /\ DOMAIN s.ml["mipi"] = DOMAIN s.sf["mipi"].ls
  /\ \A i \in DOMAIN s.ml["mipi"] : s.ml["mipi"][i].kind = s.sf["mipi"].ls[i].kind

\* Which layers of the panel may have which planes.
SuitedLayer(s, i) ==
  LET l == s.ml["mipi"][i]
  IN /\ l.plane.type = "ov" => Yuv(l.kind)
     /\ l.plane.type = "rgb" => /\ ~Yuv(l.kind) /\ CompOf(s, "mipi", i) = "overlay"
                                /\ \A j \in DOMAIN s.ml["mipi"] : ~Yuv(s.ml["mipi"][j].kind)
     /\ l.plane.type = "primary" => l.plane.i = 0 /\ IsSprite(l.kind)
Suited(s) == \A i \in DOMAIN s.ml["mipi"] : SuitedLayer(s, i)

Sound(s) == Accounted(s) /\ Shown(s) /\ Flipped(s) /\ Listed(s) /\ Suited(s)

\* Outside smart composition: a layer without a buffer is composed and what the
\* primary plane shows is not; ...
Composing(s) ==
  \A i \in DOMAIN s.ml["mipi"] :
    /\ s.ml["mipi"][i].kind = "dim" => CompOf(s, "mipi", i) = "fb"
    /\ s.ml["mipi"][i].plane.type = "primary" => CompOf(s, "mipi", i) = "overlay"
\* ... an RGB layer that is not composed has a plane; ...
NoDim(s) == \A j \in DOMAIN s.ml["mipi"] : s.ml["mipi"][j].kind # "dim"
Planed(s, n) ==
  NoDim(s) =>
    \A i \in DOMAIN s.ml["mipi"] :
      i <= n /\ ~Yuv(s.ml["mipi"][i].kind) /\ CompOf(s, "mipi", i) = "overlay"
        => s.ml["mipi"][i].plane # NoPlane
\* ... and nothing is composed beside what the primary plane shows.
Covered(s, n) ==
  \A i \in DOMAIN s.ml["mipi"] :
    i <= n /\ s.ml["mipi"][i].plane.type = "primary" =>
      \A j \in DOMAIN s.ml["mipi"] : CompOf(s, "mipi", j) = "overlay"
Plain(s) == Composing(s) /\ Planed(s, Len(s.ml["mipi"])) /\ Covered(s, Len(s.ml["mipi"]))

-----------------------------------------------------------------------------
(* Lending and giving back.                                                 *)

LEMMA Layer ==
  ASSUME NEW s \in States, NEW d \in Displays
  PROVE  /\ s.ml[d] \in Seq(Lays) /\ Len(s.ml[d]) \in Nat /\ DOMAIN s.ml[d] = 1..Len(s.ml[d])
         /\ \A i \in DOMAIN s.ml[d] :
              /\ s.ml[d][i] \in Lays /\ s.ml[d][i].kind \in Kinds
              /\ s.ml[d][i].plane \in Planes \cup {NoPlane}
<1>1. s.ml[d] \in Seq(Lays)
  BY Fields DEF LayLists
<1>2. \A i \in DOMAIN s.ml[d] : s.ml[d][i] \in Lays
  BY <1>1, Elements
<1> QED
  BY <1>1, <1>2, Elements DEF Lays

\* Planes, pools and indices.
LEMMA PlaneTypes ==
  ASSUME NEW p \in Planes, Sprites = {}
  PROVE  /\ PoolOf(p) \in Pools /\ p.i \in Indices[PoolOf(p)] /\ p.i \in 0..31 /\ p # NoPlane
         /\ \/ p \in OverlayPlanes /\ PoolOf(p) = "overlay" /\ p.type \in {"ov", "rgb"} /\ p.i \in Overlays
            \/ p \notin OverlayPlanes /\ PoolOf(p) = "primary" /\ p.type = "primary"
BY PlaneIndices DEF Planes, OverlayPlanes, PoolOf, Pools, Indices, NoPlane

LEMMA SpotFacts ==
  ASSUME NEW s \in States, NEW x \in Spots(s), Sprites = {}
  PROVE  /\ x[1] \in Displays /\ x[2] \in DOMAIN s.ml[x[1]] /\ x = <<x[1], x[2]>>
         /\ PlaneAt(s, x) \in Planes /\ PlaneAt(s, x) = s.ml[x[1]][x[2]].plane
BY Layer DEF Spots, PlaneAt

LEMMA SpotAt ==
  ASSUME NEW s \in States, NEW d \in Displays, NEW i \in DOMAIN s.ml[d], s.ml[d][i].plane # NoPlane
  PROVE  <<d, i>> \in Spots(s) /\ PlaneAt(s, <<d, i>>) = s.ml[d][i].plane
<1>1. i \in Nat
  BY Layer
<1> QED
  BY <1>1 DEF Spots, PlaneAt

LEMMA PlaneIsKnown ==
  ASSUME NEW p \in Planes, NEW k, NEW i, Sprites = {}, IsPlane(p, k, i)
  PROVE  k \in Pools /\ i \in Indices[k] /\ i \in 0..31
BY PlaneTypes DEF IsPlane

\* Layer i of display d, which has none, takes plane p; if p is an overlay its
\* block is set to the display's pipe.
Took(s, t, d, i, p) ==
  /\ t.free[PoolOf(p)] = s.free[PoolOf(p)] \ {p.i} /\ \A k \in Pools : k # PoolOf(p) => t.free[k] = s.free[k]
  /\ t.recl[PoolOf(p)] = s.recl[PoolOf(p)] \ {p.i} /\ \A k \in Pools : k # PoolOf(p) => t.recl[k] = s.recl[k]
  /\ t.lit = s.lit /\ t.mapped = s.mapped /\ t.flip = s.flip /\ t.hw = s.hw /\ t.sf = s.sf
  /\ \A q \in OverlayPlanes : t.pipe[q] = IF q = p THEN d ELSE s.pipe[q]
  /\ Rest(t) = Rest(s)
\* How the composer's layers change when layer i of display d gets plane p.
Placed(s, t, d, i, p) ==
  \A e \in Displays :
    /\ DOMAIN t.ml[e] = DOMAIN s.ml[e] /\ Len(t.ml[e]) = Len(s.ml[e])
    /\ e # d => t.ml[e] = s.ml[e]
    /\ \A j \in DOMAIN s.ml[e] :
         /\ t.ml[e][j].kind = s.ml[e][j].kind
         /\ t.ml[e][j].plane = IF e = d /\ j = i THEN p ELSE s.ml[e][j].plane

\* attachPlane gives the layer its plane and changes no other field.
LEMMA Attaching ==
  ASSUME NEW s \in States, NEW d \in Displays, NEW i \in DOMAIN s.ml[d],
         NEW p \in Planes \cup {NoPlane}, NEW t, t = Attach(s, d, i, p)
  PROVE  /\ t \in States /\ Placed(s, t, d, i, p)
         /\ t.free = s.free /\ t.recl = s.recl
         /\ t.lit = s.lit /\ t.mapped = s.mapped /\ t.pipe = s.pipe
         /\ t.flip = s.flip /\ t.hw = s.hw /\ t.sf = s.sf /\ Rest(t) = Rest(s)
<1> DEFINE l == [s.ml[d][i] EXCEPT !.plane = p]
           u == SetLayer(s, d, i, l)
           m == [u.ml[d][i] EXCEPT !.delay = FALSE]
<1>1. l \in Lays /\ l.plane = p /\ l.kind = s.ml[d][i].kind
  <2>1. s.ml[d][i] \in Lays
    BY Layer
  <2> QED
    BY <2>1 DEF Lays
<1>2. t = SetLayer(u, d, i, m)
  BY DEF SetLayer, Attach
<1> HIDE DEF l
<1>3. /\ u \in States /\ u.free = s.free /\ u.recl = s.recl
      /\ u.lit = s.lit /\ u.mapped = s.mapped /\ u.pipe = s.pipe
      /\ u.flip = s.flip /\ u.hw = s.hw /\ u.sf = s.sf /\ Rest(u) = Rest(s)
      /\ \A e \in Displays : /\ DOMAIN u.ml[e] = DOMAIN s.ml[e] /\ Len(u.ml[e]) = Len(s.ml[e])
                             /\ e # d => u.ml[e] = s.ml[e]
                             /\ \A j \in DOMAIN s.ml[e] :
                                  u.ml[e][j] = IF e = d /\ j = i THEN l ELSE s.ml[e][j]
  BY <1>1, LayerSet
<1> HIDE DEF u
<1>4. m \in Lays /\ m.plane = p /\ m.kind = s.ml[d][i].kind
  <2>1. u.ml[d][i] = l
    BY <1>3
  <2> QED
    BY <1>1, <2>1 DEF Lays
<1> HIDE DEF m
<1>5. /\ t \in States /\ t.free = u.free /\ t.recl = u.recl
      /\ t.lit = u.lit /\ t.mapped = u.mapped /\ t.pipe = u.pipe
      /\ t.flip = u.flip /\ t.hw = u.hw /\ t.sf = u.sf /\ Rest(t) = Rest(u)
      /\ \A e \in Displays : /\ DOMAIN t.ml[e] = DOMAIN u.ml[e] /\ Len(t.ml[e]) = Len(u.ml[e])
                             /\ e # d => t.ml[e] = u.ml[e]
                             /\ \A j \in DOMAIN u.ml[e] :
                                  t.ml[e][j] = IF e = d /\ j = i THEN m ELSE u.ml[e][j]
  <2>1. u \in States
    BY <1>3
  <2> QED
    BY <1>2, <1>4, <2>1, LayerSet
<1>6. Placed(s, t, d, i, p)
  <2> SUFFICES ASSUME NEW e \in Displays
               PROVE  /\ DOMAIN t.ml[e] = DOMAIN s.ml[e] /\ Len(t.ml[e]) = Len(s.ml[e])
                      /\ e # d => t.ml[e] = s.ml[e]
                      /\ \A j \in DOMAIN s.ml[e] :
                           /\ t.ml[e][j].kind = s.ml[e][j].kind
                           /\ t.ml[e][j].plane = IF e = d /\ j = i THEN p ELSE s.ml[e][j].plane
    BY DEF Placed
  <2>1. DOMAIN t.ml[e] = DOMAIN s.ml[e] /\ Len(t.ml[e]) = Len(s.ml[e])
    BY <1>3, <1>5
  <2>2. e # d => t.ml[e] = s.ml[e]
    BY <1>3, <1>5
  <2>3. ASSUME NEW j \in DOMAIN s.ml[e]
        PROVE  t.ml[e][j] = IF e = d /\ j = i THEN m ELSE s.ml[e][j]
    <3>1. j \in DOMAIN u.ml[e] /\ u.ml[e][j] = IF e = d /\ j = i THEN l ELSE s.ml[e][j]
      BY <1>3
    <3>2. t.ml[e][j] = IF e = d /\ j = i THEN m ELSE u.ml[e][j]
      BY <1>5, <3>1
    <3> QED
      BY <3>1, <3>2
  <2>4. \A j \in DOMAIN s.ml[e] :
           /\ t.ml[e][j].kind = s.ml[e][j].kind
           /\ t.ml[e][j].plane = IF e = d /\ j = i THEN p ELSE s.ml[e][j].plane
    BY <1>4, <2>3
  <2> QED
    BY <2>1, <2>2, <2>4
<1> QED
  BY <1>3, <1>5, <1>6

\* Taking a spare index out of its pool.
LEMMA Grabbing ==
  ASSUME NEW s \in States, NEW k \in Pools, NEW i \in Spare(s, k), s.free[k] \cap s.recl[k] = {},
         NEW t, t = Grab(s, k, i)
  PROVE  /\ t \in States
         /\ t.free[k] = s.free[k] \ {i} /\ \A e \in Pools : e # k => t.free[e] = s.free[e]
         /\ t.recl[k] = s.recl[k] \ {i} /\ \A e \in Pools : e # k => t.recl[e] = s.recl[e]
         /\ t.lit = s.lit /\ t.mapped = s.mapped /\ t.pipe = s.pipe /\ t.flip = s.flip
         /\ t.hw = s.hw /\ t.ml = s.ml /\ t.sf = s.sf /\ Rest(t) = Rest(s)
<1>1. s.free \in Bitmaps /\ s.recl \in Bitmaps
  BY Fields
<1>2. CASE i \in s.recl[k]
  <2> DEFINE v == [s.recl EXCEPT ![k] = s.recl[k] \ {i}]
  <2>1. v \in Bitmaps /\ v[k] = s.recl[k] \ {i} /\ \A e \in Pools : e # k => v[e] = s.recl[e]
    BY <1>1 DEF Bitmaps
  <2>2. t = [s EXCEPT !.recl = v]
    BY <1>2 DEF Grab
  <2> HIDE DEF v
  <2>3. i \notin s.free[k]
    BY <1>2
  <2>4. /\ t \in States /\ t.free = s.free /\ t.recl = v
        /\ t.lit = s.lit /\ t.mapped = s.mapped /\ t.pipe = s.pipe
        /\ t.flip = s.flip /\ t.hw = s.hw /\ t.ml = s.ml /\ t.sf = s.sf /\ Rest(t) = Rest(s)
    BY <2>1, <2>2, SetRecl
  <2> QED
    BY <2>1, <2>3, <2>4
<1>3. CASE i \notin s.recl[k]
  <2> DEFINE v == [s.free EXCEPT ![k] = s.free[k] \ {i}]
  <2>1. v \in Bitmaps /\ v[k] = s.free[k] \ {i} /\ \A e \in Pools : e # k => v[e] = s.free[e]
    BY <1>1 DEF Bitmaps
  <2>2. t = [s EXCEPT !.free = v]
    BY <1>3 DEF Grab
  <2> HIDE DEF v
  <2>3. /\ t \in States /\ t.free = v /\ t.recl = s.recl
        /\ t.lit = s.lit /\ t.mapped = s.mapped /\ t.pipe = s.pipe
        /\ t.flip = s.flip /\ t.hw = s.hw /\ t.ml = s.ml /\ t.sf = s.sf /\ Rest(t) = Rest(s)
    BY <2>1, <2>2, SetFree
  <2> QED
    BY <1>3, <2>1, <2>3
<1> QED
  BY <1>2, <1>3

\* An overlay is taken, set to the display's pipe and attached.
LEMMA TakingOverlay ==
  ASSUME NEW s \in States, Accounted(s), NEW d \in Displays, NEW i \in DOMAIN s.ml[d],
         NEW p \in OverlayPlanes, p.i \in Spare(s, "overlay"), Sprites = {},
         NEW t, t = Attach([Grab(s, "overlay", p.i) EXCEPT !.pipe[p] = d], d, i, p)
  PROVE  t \in States /\ Took(s, t, d, i, p) /\ Placed(s, t, d, i, p)
<1> DEFINE g == Grab(s, "overlay", p.i)
           v == [g.pipe EXCEPT ![p] = d]
           u == [g EXCEPT !.pipe = v]
<1>1. t = Attach(u, d, i, p)
  OBVIOUS
<1>2. PoolOf(p) = "overlay" /\ p \in Planes
  BY DEF PoolOf, OverlayPlanes, Planes
<1>3. "overlay" \in Pools
  BY DEF Pools
<1>4. /\ g \in States
      /\ g.free[PoolOf(p)] = s.free[PoolOf(p)] \ {p.i} /\ \A e \in Pools : e # PoolOf(p) => g.free[e] = s.free[e]
      /\ g.recl[PoolOf(p)] = s.recl[PoolOf(p)] \ {p.i} /\ \A e \in Pools : e # PoolOf(p) => g.recl[e] = s.recl[e]
      /\ g.lit = s.lit /\ g.mapped = s.mapped /\ g.pipe = s.pipe /\ g.flip = s.flip
      /\ g.hw = s.hw /\ g.ml = s.ml /\ g.sf = s.sf /\ Rest(g) = Rest(s)
  <2>1. g = Grab(s, PoolOf(p), p.i) /\ p.i \in Spare(s, PoolOf(p)) /\ PoolOf(p) \in Pools
    BY <1>2, <1>3
  <2>2. s.free[PoolOf(p)] \cap s.recl[PoolOf(p)] = {}
    BY <2>1 DEF Accounted
  <2> HIDE DEF g
  <2> QED
    BY <2>1, <2>2, Grabbing
<1> HIDE DEF g
<1>5. v \in PipeOf /\ \A q \in OverlayPlanes : v[q] = IF q = p THEN d ELSE s.pipe[q]
  <2>1. g.pipe \in PipeOf /\ d \in Pipes
    BY <1>4, Fields DEF Displays, Pipes
  <2> QED
    BY <1>4, <2>1 DEF PipeOf
<1> HIDE DEF v
<1>6. /\ u \in States /\ u.free = g.free /\ u.recl = g.recl
      /\ u.lit = g.lit /\ u.mapped = g.mapped /\ u.pipe = v
      /\ u.flip = g.flip /\ u.hw = g.hw /\ u.ml = g.ml /\ u.sf = g.sf /\ Rest(u) = Rest(g)
  BY <1>4, <1>5, SetPipe
<1> HIDE DEF u
<1>7. /\ t \in States /\ Placed(u, t, d, i, p)
      /\ t.free = u.free /\ t.recl = u.recl
      /\ t.lit = u.lit /\ t.mapped = u.mapped /\ t.pipe = u.pipe
      /\ t.flip = u.flip /\ t.hw = u.hw /\ t.sf = u.sf /\ Rest(t) = Rest(u)
  <2>1. i \in DOMAIN u.ml[d]
    BY <1>4, <1>6
  <2> QED
    BY <1>1, <1>2, <1>6, <2>1, Attaching
<1>8. Took(s, t, d, i, p)
  <2>1. /\ t.free[PoolOf(p)] = s.free[PoolOf(p)] \ {p.i} /\ \A k \in Pools : k # PoolOf(p) => t.free[k] = s.free[k]
        /\ t.recl[PoolOf(p)] = s.recl[PoolOf(p)] \ {p.i} /\ \A k \in Pools : k # PoolOf(p) => t.recl[k] = s.recl[k]
    BY <1>4, <1>6, <1>7
  <2>2. /\ t.lit = s.lit /\ t.mapped = s.mapped /\ t.flip = s.flip /\ t.hw = s.hw /\ t.sf = s.sf
        /\ Rest(t) = Rest(s)
    BY <1>4, <1>6, <1>7
  <2>3. \A q \in OverlayPlanes : t.pipe[q] = IF q = p THEN d ELSE s.pipe[q]
    <3>1. t.pipe = v
      BY <1>6, <1>7
    <3> QED
      BY <1>5, <3>1
  <2> QED
    BY <2>1, <2>2, <2>3 DEF Took
<1>9. Placed(s, t, d, i, p)
  <2>1. u.ml = s.ml
    BY <1>4, <1>6
  <2> QED
    BY <1>7, <2>1 DEF Placed
<1> QED
  BY <1>7, <1>8, <1>9

\* The primary plane is taken and attached.
LEMMA TakingPrimary ==
  ASSUME NEW s \in States, Accounted(s), NEW d \in Displays, NEW i \in DOMAIN s.ml[d],
         NEW p \in Planes, p.type = "primary", p.i \in Spare(s, "primary"), Sprites = {},
         NEW t, t = Attach(Grab(s, "primary", p.i), d, i, p)
  PROVE  t \in States /\ Took(s, t, d, i, p) /\ Placed(s, t, d, i, p)
<1> DEFINE g == Grab(s, "primary", p.i)
<1>1. PoolOf(p) = "primary" /\ p \notin OverlayPlanes
  BY DEF PoolOf, OverlayPlanes
<1>2. "primary" \in Pools
  BY DEF Pools
<1>3. /\ g \in States
      /\ g.free[PoolOf(p)] = s.free[PoolOf(p)] \ {p.i} /\ \A e \in Pools : e # PoolOf(p) => g.free[e] = s.free[e]
      /\ g.recl[PoolOf(p)] = s.recl[PoolOf(p)] \ {p.i} /\ \A e \in Pools : e # PoolOf(p) => g.recl[e] = s.recl[e]
      /\ g.lit = s.lit /\ g.mapped = s.mapped /\ g.pipe = s.pipe /\ g.flip = s.flip
      /\ g.hw = s.hw /\ g.ml = s.ml /\ g.sf = s.sf /\ Rest(g) = Rest(s)
  <2>1. g = Grab(s, PoolOf(p), p.i) /\ p.i \in Spare(s, PoolOf(p)) /\ PoolOf(p) \in Pools
    BY <1>1, <1>2
  <2>2. s.free[PoolOf(p)] \cap s.recl[PoolOf(p)] = {}
    BY <2>1 DEF Accounted
  <2> HIDE DEF g
  <2> QED
    BY <2>1, <2>2, Grabbing
<1> HIDE DEF g
<1>4. /\ t \in States /\ Placed(g, t, d, i, p)
      /\ t.free = g.free /\ t.recl = g.recl
      /\ t.lit = g.lit /\ t.mapped = g.mapped /\ t.pipe = g.pipe
      /\ t.flip = g.flip /\ t.hw = g.hw /\ t.sf = g.sf /\ Rest(t) = Rest(g)
  <2>1. i \in DOMAIN g.ml[d] /\ t = Attach(g, d, i, p)
    BY <1>3 DEF g
  <2> QED
    BY <1>3, <2>1, Attaching
<1>5. Took(s, t, d, i, p)
  BY <1>1, <1>3, <1>4 DEF Took
<1>6. Placed(s, t, d, i, p)
  BY <1>3, <1>4 DEF Placed
<1> QED
  BY <1>4, <1>5, <1>6

\* detachPlane: the plane of layer i of display d is reclaimed.
Gave(s, t, d, i) ==
  LET p == s.ml[d][i].plane
  IN /\ t.free = s.free
     /\ t.recl[PoolOf(p)] = s.recl[PoolOf(p)] \cup {p.i} /\ \A k \in Pools : k # PoolOf(p) => t.recl[k] = s.recl[k]
     /\ t.lit = s.lit /\ t.mapped = s.mapped /\ t.pipe = s.pipe /\ t.flip = s.flip /\ t.hw = s.hw
     /\ t.sf = s.sf /\ Rest(t) = Rest(s)

LEMMA Detaching ==
  ASSUME NEW s \in States, NEW d \in Displays, NEW i \in DOMAIN s.ml[d],
         s.ml[d][i].plane # NoPlane, Sprites = {}, NEW t, t = Detach(s, d, i)
  PROVE  t \in States /\ Gave(s, t, d, i) /\ Placed(s, t, d, i, NoPlane)
<1> DEFINE p == s.ml[d][i].plane
           v == [s.recl EXCEPT ![PoolOf(p)] = s.recl[PoolOf(p)] \cup {p.i}]
           u == [s EXCEPT !.recl = v]
<1>1. t = Attach(u, d, i, NoPlane)
  BY DEF Detach, Attach, Reclaim
<1>2. PoolOf(p) \in Pools /\ p.i \in Indices[PoolOf(p)] /\ p.i \in 0..31
  BY Layer, PlaneTypes
<1>3. /\ v \in Bitmaps
      /\ v[PoolOf(p)] = s.recl[PoolOf(p)] \cup {p.i} /\ \A k \in Pools : k # PoolOf(p) => v[k] = s.recl[k]
  <2>1. s.recl \in Bitmaps
    BY Fields
  <2> HIDE DEF p
  <2> QED
    BY <1>2, <2>1 DEF Bitmaps
<1> HIDE DEF v
<1>4. /\ u \in States /\ u.free = s.free /\ u.recl = v
      /\ u.lit = s.lit /\ u.mapped = s.mapped /\ u.pipe = s.pipe
      /\ u.flip = s.flip /\ u.hw = s.hw /\ u.ml = s.ml /\ u.sf = s.sf /\ Rest(u) = Rest(s)
  BY <1>3, SetRecl
<1> HIDE DEF u
<1>5. /\ t \in States /\ Placed(u, t, d, i, NoPlane)
      /\ t.free = u.free /\ t.recl = u.recl
      /\ t.lit = u.lit /\ t.mapped = u.mapped /\ t.pipe = u.pipe
      /\ t.flip = u.flip /\ t.hw = u.hw /\ t.sf = u.sf /\ Rest(t) = Rest(u)
  <2>1. i \in DOMAIN u.ml[d]
    BY <1>4
  <2> QED
    BY <1>1, <1>4, <2>1, Attaching
<1>6. Gave(s, t, d, i)
  BY <1>3, <1>4, <1>5 DEF Gave
<1>7. Placed(s, t, d, i, NoPlane)
  BY <1>4, <1>5 DEF Placed
<1> QED
  BY <1>5, <1>6, <1>7

\* Lending a spare index, and giving one back, leaves every index accounted for.
LEMMA Lending ==
  ASSUME NEW s \in States, NEW t \in States, Accounted(s), Sprites = {},
         NEW d \in Displays, NEW i \in DOMAIN s.ml[d], s.ml[d][i].plane = NoPlane,
         NEW p \in Planes, p.i \in Spare(s, PoolOf(p)), Took(s, t, d, i, p), Placed(s, t, d, i, p)
  PROVE  Accounted(t)
<1> DEFINE x == <<d, i>>
           k == PoolOf(p)
<1>1. x \notin Spots(s)
  BY DEF Spots
<1>2. Spots(t) = Spots(s) \cup {x} /\ PlaneAt(t, x) = p
      /\ \A y \in Spots(s) : PlaneAt(t, y) = PlaneAt(s, y)
  <2>1. p # NoPlane
    BY PlaneTypes
  <2>2. i \in Nat
    BY Layer
  <2>3. ASSUME NEW e \in Displays, NEW j \in Nat
        PROVE  <<e, j>> \in Spots(t) <=> <<e, j>> \in Spots(s) \/ <<e, j>> = x
    <3>1. DOMAIN t.ml[e] = DOMAIN s.ml[e]
          /\ \A l \in DOMAIN s.ml[e] :
               t.ml[e][l].plane = IF e = d /\ l = i THEN p ELSE s.ml[e][l].plane
      BY DEF Placed
    <3>2. <<e, j>> = x <=> e = d /\ j = i
      OBVIOUS
    <3>3. /\ <<e, j>> \in Spots(t) <=> j \in DOMAIN t.ml[e] /\ t.ml[e][j].plane # NoPlane
          /\ <<e, j>> \in Spots(s) <=> j \in DOMAIN s.ml[e] /\ s.ml[e][j].plane # NoPlane
      BY DEF Spots
    <3> HIDE DEF x
    <3> QED
      BY <2>1, <3>1, <3>2, <3>3
  <2>4. Spots(t) \subseteq Displays \X Nat /\ Spots(s) \subseteq Displays \X Nat
    BY DEF Spots
  <2>5. x \in Displays \X Nat
    BY <2>2
  <2>6. PlaneAt(t, x) = p
    BY DEF PlaneAt, Placed
  <2>7. ASSUME NEW y \in Spots(s) PROVE PlaneAt(t, y) = PlaneAt(s, y)
    <3>1. y = <<y[1], y[2]>> /\ y[1] \in Displays /\ y[2] \in DOMAIN s.ml[y[1]] /\ s.ml[y[1]][y[2]].plane # NoPlane
      BY DEF Spots
    <3>2. t.ml[y[1]][y[2]].plane = s.ml[y[1]][y[2]].plane
      BY <3>1 DEF Placed
    <3> QED
      BY <3>2 DEF PlaneAt
  <2> HIDE DEF x
  <2> QED
    BY <2>3, <2>4, <2>5, <2>6, <2>7
<1> HIDE DEF x
<1>3. k \in Pools /\ p.i \in 0..31
  BY PlaneTypes
<1>4. IsPlane(p, k, p.i) /\ \A e, j : IsPlane(p, e, j) => e = k /\ j = p.i
  BY DEF IsPlane
<1>5. /\ t.free[k] = s.free[k] \ {p.i} /\ \A e \in Pools : e # k => t.free[e] = s.free[e]
      /\ t.recl[k] = s.recl[k] \ {p.i} /\ \A e \in Pools : e # k => t.recl[e] = s.recl[e]
  BY DEF Took
<1>6. Spare(t, k) = Spare(s, k) \ {p.i} /\ \A e \in Pools : e # k => Spare(t, e) = Spare(s, e)
  BY <1>5 DEF Spare
<1> HIDE DEF k
<1>7. \A e \in Pools : t.free[e] \cap t.recl[e] = {}
  BY <1>5 DEF Accounted
<1>8. ASSUME NEW e \in Pools, NEW j \in Indices[e], j \notin Spare(t, e)
      PROVE  \E y \in Spots(t) : IsPlane(PlaneAt(t, y), e, j)
  <2>1. CASE j \in Spare(s, e)
    <3>1. e = k /\ j = p.i
      BY <1>6, <1>8, <2>1
    <3> QED
      BY <1>2, <1>4, <3>1
  <2>2. CASE j \notin Spare(s, e)
    <3>1. PICK y \in Spots(s) : IsPlane(PlaneAt(s, y), e, j)
      BY <2>2 DEF Accounted
    <3> QED
      BY <1>2, <3>1
  <2> QED
    BY <2>1, <2>2
<1>9. ASSUME NEW e \in Pools, NEW j \in 0..31, NEW y \in Spots(t), IsPlane(PlaneAt(t, y), e, j)
      PROVE  /\ j \notin Spare(t, e)
             /\ \A z \in Spots(t) : IsPlane(PlaneAt(t, z), e, j) => y = z
  <2>1. \A z \in Spots(s) : IsPlane(PlaneAt(s, z), e, j) =>
          /\ j \notin Spare(s, e)
          /\ \A w \in Spots(s) : IsPlane(PlaneAt(s, w), e, j) => z = w
    BY DEF Accounted
  <2>2. CASE y = x
    <3>1. e = k /\ j = p.i
      BY <1>2, <1>4, <1>9, <2>2
    <3>2. \A z \in Spots(s) : ~IsPlane(PlaneAt(s, z), e, j)
      BY <2>1, <3>1 DEF k
    <3> QED
      BY <1>2, <1>6, <2>2, <3>1, <3>2
  <2>3. CASE y \in Spots(s)
    <3>1. IsPlane(PlaneAt(s, y), e, j) /\ j \notin Spare(s, e)
      BY <1>2, <1>9, <2>1, <2>3
    <3>2. ~(e = k /\ j = p.i)
      BY <3>1 DEF k
    <3>3. \A z \in Spots(t) : IsPlane(PlaneAt(t, z), e, j) => z \in Spots(s) /\ PlaneAt(t, z) = PlaneAt(s, z)
      BY <1>2, <1>4, <3>2
    <3>4. j \notin Spare(t, e)
      BY <1>6, <3>1
    <3> QED
      BY <2>1, <2>3, <3>1, <3>3, <3>4
  <2> QED
    BY <1>2, <2>2, <2>3
<1> QED
  BY <1>7, <1>8, <1>9 DEF Accounted

LEMMA GivingBack ==
  ASSUME NEW s \in States, NEW t \in States, Accounted(s), Sprites = {},
         NEW d \in Displays, NEW i \in DOMAIN s.ml[d], s.ml[d][i].plane # NoPlane,
         Gave(s, t, d, i), Placed(s, t, d, i, NoPlane)
  PROVE  Accounted(t)
<1> DEFINE x == <<d, i>>
           p == s.ml[d][i].plane
           k == PoolOf(p)
<1>1. x \in Spots(s) /\ PlaneAt(s, x) = p
  BY SpotAt
<1>2. Spots(t) = Spots(s) \ {x} /\ \A y \in Spots(t) : PlaneAt(t, y) = PlaneAt(s, y)
  <2>1. ASSUME NEW e \in Displays, NEW j \in Nat
        PROVE  <<e, j>> \in Spots(t) <=> <<e, j>> \in Spots(s) /\ <<e, j>> # x
    BY DEF Spots, Placed
  <2>2. Spots(t) \subseteq Displays \X Nat /\ Spots(s) \subseteq Displays \X Nat
    BY DEF Spots
  <2>3. ASSUME NEW y \in Spots(t) PROVE PlaneAt(t, y) = PlaneAt(s, y)
    <3>1. y = <<y[1], y[2]>> /\ y[1] \in Displays /\ y[2] \in DOMAIN t.ml[y[1]] /\ t.ml[y[1]][y[2]].plane # NoPlane
      BY DEF Spots
    <3>2. t.ml[y[1]][y[2]].plane = s.ml[y[1]][y[2]].plane
      BY <3>1 DEF Placed
    <3> QED
      BY <3>2 DEF PlaneAt
  <2> HIDE DEF x
  <2> QED
    BY <2>1, <2>2, <2>3
<1> HIDE DEF x
<1>3. k \in Pools /\ p.i \in 0..31
  BY Layer, PlaneTypes
<1>4. IsPlane(p, k, p.i) /\ \A e, j : IsPlane(p, e, j) => e = k /\ j = p.i
  BY DEF IsPlane
<1>5. /\ t.free = s.free
      /\ t.recl[k] = s.recl[k] \cup {p.i} /\ \A e \in Pools : e # k => t.recl[e] = s.recl[e]
  BY DEF Gave
<1>6. Spare(t, k) = Spare(s, k) \cup {p.i} /\ \A e \in Pools : e # k => Spare(t, e) = Spare(s, e)
  BY <1>5 DEF Spare
<1> HIDE DEF p, k
<1>7. p.i \notin Spare(s, k) /\ \A y \in Spots(s) : IsPlane(PlaneAt(s, y), k, p.i) => x = y
  BY <1>1, <1>3, <1>4 DEF Accounted
<1>8. \A e \in Pools : t.free[e] \cap t.recl[e] = {}
  BY <1>5, <1>7 DEF Accounted, Spare
<1>9. ASSUME NEW e \in Pools, NEW j \in Indices[e], j \notin Spare(t, e)
      PROVE  \E y \in Spots(t) : IsPlane(PlaneAt(t, y), e, j)
  <2>1. j \notin Spare(s, e) /\ ~(e = k /\ j = p.i)
    BY <1>6, <1>9
  <2>2. PICK y \in Spots(s) : IsPlane(PlaneAt(s, y), e, j)
    BY <2>1 DEF Accounted
  <2>3. y # x
    BY <1>1, <1>4, <2>1, <2>2
  <2> QED
    BY <1>2, <2>2, <2>3
<1>10. ASSUME NEW e \in Pools, NEW j \in 0..31, NEW y \in Spots(t), IsPlane(PlaneAt(t, y), e, j)
       PROVE  /\ j \notin Spare(t, e)
              /\ \A z \in Spots(t) : IsPlane(PlaneAt(t, z), e, j) => y = z
  <2>1. y \in Spots(s) /\ y # x /\ IsPlane(PlaneAt(s, y), e, j)
    BY <1>2, <1>10
  <2>2. /\ j \notin Spare(s, e)
        /\ \A w \in Spots(s) : IsPlane(PlaneAt(s, w), e, j) => y = w
    BY <2>1 DEF Accounted
  <2>3. ~(e = k /\ j = p.i)
    BY <1>7, <2>1
  <2> QED
    BY <1>2, <1>6, <2>2, <2>3
<1> QED
  BY <1>8, <1>9, <1>10 DEF Accounted

-----------------------------------------------------------------------------
(* Steps on one layer.                                                      *)

\* A step from s to t keeps the invariant and the flags.
Keeps(s, t) == t \in States /\ Sound(t) /\ (Piped(s) => Piped(t)) /\ Rest(t) = Rest(s)

\* It concerns layer i of display d only.
Local(s, t, d, i) ==
  /\ \A e \in Displays :
       /\ DOMAIN t.ml[e] = DOMAIN s.ml[e] /\ Len(t.ml[e]) = Len(s.ml[e])
       /\ e # d => t.ml[e] = s.ml[e] /\ t.sf[e] = s.sf[e]
       /\ \A j \in DOMAIN s.ml[e] :
            /\ t.ml[e][j].kind = s.ml[e][j].kind
            /\ (e = d /\ j = i) \/ t.ml[e][j].plane = s.ml[e][j].plane
  /\ \A j \in DOMAIN s.ml["mipi"] :
       (d = "mipi" /\ j = i) \/ CompOf(t, "mipi", j) = CompOf(s, "mipi", j)

LEMMA Reflexive ==
  ASSUME NEW s \in States, Sound(s), NEW d, NEW i
  PROVE  Keeps(s, s) /\ Local(s, s, d, i)
BY DEF Keeps, Local

LEMMA KeepsOn ==
  ASSUME NEW s, NEW t, NEW u, Keeps(s, t), Keeps(t, u)
  PROVE  Keeps(s, u)
BY DEF Keeps

LEMMA LocalOn ==
  ASSUME NEW s, NEW t, NEW u, NEW d, NEW i, Local(s, t, d, i), Local(t, u, d, i)
  PROVE  Local(s, u, d, i)
<1>1. ASSUME NEW e \in Displays
      PROVE  /\ DOMAIN u.ml[e] = DOMAIN s.ml[e] /\ Len(u.ml[e]) = Len(s.ml[e])
             /\ e # d => u.ml[e] = s.ml[e] /\ u.sf[e] = s.sf[e]
             /\ \A j \in DOMAIN s.ml[e] :
                  /\ u.ml[e][j].kind = s.ml[e][j].kind
                  /\ (e = d /\ j = i) \/ u.ml[e][j].plane = s.ml[e][j].plane
  <2>1. /\ DOMAIN t.ml[e] = DOMAIN s.ml[e] /\ Len(t.ml[e]) = Len(s.ml[e])
        /\ e # d => t.ml[e] = s.ml[e] /\ t.sf[e] = s.sf[e]
        /\ \A j \in DOMAIN s.ml[e] :
             /\ t.ml[e][j].kind = s.ml[e][j].kind
             /\ (e = d /\ j = i) \/ t.ml[e][j].plane = s.ml[e][j].plane
    BY DEF Local
  <2>2. /\ DOMAIN u.ml[e] = DOMAIN t.ml[e] /\ Len(u.ml[e]) = Len(t.ml[e])
        /\ e # d => u.ml[e] = t.ml[e] /\ u.sf[e] = t.sf[e]
        /\ \A j \in DOMAIN t.ml[e] :
             /\ u.ml[e][j].kind = t.ml[e][j].kind
             /\ (e = d /\ j = i) \/ u.ml[e][j].plane = t.ml[e][j].plane
    BY DEF Local
  <2> QED
    BY <2>1, <2>2
<1>2. ASSUME NEW j \in DOMAIN s.ml["mipi"]
      PROVE  (d = "mipi" /\ j = i) \/ CompOf(u, "mipi", j) = CompOf(s, "mipi", j)
  <2>1. (d = "mipi" /\ j = i) \/ CompOf(t, "mipi", j) = CompOf(s, "mipi", j)
    BY DEF Local
  <2>2. j \in DOMAIN t.ml["mipi"]
    BY DEF Local, Displays
  <2>3. (d = "mipi" /\ j = i) \/ CompOf(u, "mipi", j) = CompOf(t, "mipi", j)
    BY <2>2 DEF Local
  <2> QED
    BY <2>1, <2>3
<1> QED
  BY <1>1, <1>2 DEF Local

\* The parts of the invariant that do not look at who holds what.
LEMMA SameBooks ==
  ASSUME NEW s, NEW t, t.free = s.free, t.recl = s.recl, Accounted(s),
         \A e \in Displays : /\ DOMAIN t.ml[e] = DOMAIN s.ml[e]
                             /\ \A j \in DOMAIN s.ml[e] : t.ml[e][j].plane = s.ml[e][j].plane
  PROVE  Accounted(t)
<1>1. Spots(t) = Spots(s)
  <2>1. ASSUME NEW e \in Displays, NEW j \in Nat PROVE <<e, j>> \in Spots(t) <=> <<e, j>> \in Spots(s)
    BY DEF Spots
  <2>2. Spots(t) \subseteq Displays \X Nat /\ Spots(s) \subseteq Displays \X Nat
    BY DEF Spots
  <2> QED
    BY <2>1, <2>2
<1>2. ASSUME NEW y \in Spots(s) PROVE PlaneAt(t, y) = PlaneAt(s, y)
  <2>1. y[1] \in Displays /\ y[2] \in DOMAIN s.ml[y[1]]
    BY DEF Spots
  <2> QED
    BY <2>1 DEF PlaneAt
<1>3. \A k : Spare(t, k) = Spare(s, k)
  BY DEF Spare
<1> QED
  BY <1>1, <1>2, <1>3 DEF Accounted

LEMMA SameSuit ==
  ASSUME NEW s, NEW t, NEW i, SuitedLayer(s, i), DOMAIN t.ml["mipi"] = DOMAIN s.ml["mipi"],
         \A j \in DOMAIN s.ml["mipi"] : t.ml["mipi"][j].kind = s.ml["mipi"][j].kind,
         i \in DOMAIN s.ml["mipi"], t.ml["mipi"][i].plane = s.ml["mipi"][i].plane,
         CompOf(t, "mipi", i) = CompOf(s, "mipi", i) \/ CompOf(t, "mipi", i) = "overlay"
           \/ s.ml["mipi"][i].plane.type # "rgb"
  PROVE  SuitedLayer(t, i)
BY DEF SuitedLayer

LEMMA SameList ==
  ASSUME NEW s, NEW t, Listed(s), DOMAIN t.ml["mipi"] = DOMAIN s.ml["mipi"],
         \A j \in DOMAIN s.ml["mipi"] : t.ml["mipi"][j].kind = s.ml["mipi"][j].kind,
         DOMAIN t.sf["mipi"].ls = DOMAIN s.sf["mipi"].ls,
         \A j \in DOMAIN s.sf["mipi"].ls : t.sf["mipi"].ls[j].kind = s.sf["mipi"].ls[j].kind
  PROVE  Listed(t)
BY DEF Listed

\* The invariant but for what suits the layers.
Firm(s) == Accounted(s) /\ Shown(s) /\ Flipped(s) /\ Listed(s)

\* Writing a composition type.
LEMMA CompCore ==
  ASSUME NEW s \in States, Firm(s), NEW d \in Displays, NEW i \in DOMAIN s.ml[d], NEW c \in Comps,
         NEW t, t = SetComp(s, d, i, c)
  PROVE  /\ t \in States /\ Firm(t) /\ (Piped(s) => Piped(t)) /\ Rest(t) = Rest(s)
         /\ Local(s, t, d, i) /\ t.ml = s.ml /\ t.pipe = s.pipe
         /\ t.free = s.free /\ t.recl = s.recl
         /\ d = "mipi" => CompOf(t, "mipi", i) = c
         /\ \A j \in DOMAIN s.ml["mipi"] :
              ~(d = "mipi" /\ j = i) => CompOf(t, "mipi", j) = CompOf(s, "mipi", j)
<1>1. /\ t \in States /\ t.free = s.free /\ t.recl = s.recl
      /\ t.lit = s.lit /\ t.mapped = s.mapped /\ t.pipe = s.pipe
      /\ t.flip = s.flip /\ t.hw = s.hw /\ t.ml = s.ml /\ Rest(t) = Rest(s)
      /\ \A e \in Displays : /\ DOMAIN t.sf[e].ls = DOMAIN s.sf[e].ls
                             /\ e # d => t.sf[e] = s.sf[e]
                             /\ \A j \in DOMAIN s.sf[e].ls :
                                  /\ t.sf[e].ls[j].kind = s.sf[e].ls[j].kind
                                  /\ CompOf(t, e, j) = IF e = d /\ j = i THEN c ELSE CompOf(s, e, j)
  BY CompSet
<1>2. "mipi" \in Displays
  BY DEF Displays
<1>3. /\ DOMAIN t.sf["mipi"].ls = DOMAIN s.sf["mipi"].ls
      /\ \A j \in DOMAIN s.sf["mipi"].ls :
           /\ t.sf["mipi"].ls[j].kind = s.sf["mipi"].ls[j].kind
           /\ ~(d = "mipi" /\ j = i) => CompOf(t, "mipi", j) = CompOf(s, "mipi", j)
           /\ d = "mipi" /\ j = i => CompOf(t, "mipi", j) = c
  BY <1>1, <1>2
<1>4. DOMAIN s.ml["mipi"] = DOMAIN s.sf["mipi"].ls
  BY DEF Firm, Listed
<1>5. Accounted(t)
  BY <1>1, SameBooks DEF Firm
<1>6. Shown(t) /\ Flipped(t) /\ (Piped(s) => Piped(t))
  BY <1>1 DEF Firm, Shown, Flipped, Piped
<1>7. Listed(t)
  BY <1>1, <1>3, SameList DEF Firm
<1>8. Local(s, t, d, i)
  BY <1>1, <1>3, <1>4 DEF Local
<1> QED
  BY <1>1, <1>3, <1>4, <1>5, <1>6, <1>7, <1>8 DEF Firm

\* Writing a composition type; a layer on an RGB overlay stays out of the framebuffer.
LEMMA CompStep ==
  ASSUME NEW s \in States, Sound(s), NEW d \in Displays, NEW i \in DOMAIN s.ml[d], NEW c \in Comps,
         d = "mipi" /\ s.ml["mipi"][i].plane.type = "rgb" => c = "overlay",
         NEW t, t = SetComp(s, d, i, c)
  PROVE  /\ Keeps(s, t) /\ Local(s, t, d, i) /\ t.ml = s.ml /\ t.pipe = s.pipe
         /\ t.free = s.free /\ t.recl = s.recl
         /\ d = "mipi" => CompOf(t, "mipi", i) = c
<1>1. Firm(s)
  BY DEF Firm, Sound
<1>2. /\ t \in States /\ Firm(t) /\ (Piped(s) => Piped(t)) /\ Rest(t) = Rest(s)
      /\ Local(s, t, d, i) /\ t.ml = s.ml /\ t.pipe = s.pipe
      /\ t.free = s.free /\ t.recl = s.recl
      /\ d = "mipi" => CompOf(t, "mipi", i) = c
      /\ \A j \in DOMAIN s.ml["mipi"] :
           ~(d = "mipi" /\ j = i) => CompOf(t, "mipi", j) = CompOf(s, "mipi", j)
  BY <1>1, CompCore
<1>3. Suited(t)
  <2> SUFFICES ASSUME NEW j \in DOMAIN s.ml["mipi"] PROVE SuitedLayer(t, j)
    BY <1>2 DEF Suited
  <2>1. SuitedLayer(s, j)
    BY DEF Sound, Suited
  <2> QED
    BY <1>2, <2>1, SameSuit
<1> QED
  BY <1>2, <1>3 DEF Keeps, Sound, Firm

\* Lending a plane.
LEMMA LendCore ==
  ASSUME NEW s \in States, NEW t \in States, Sound(s), Sprites = {},
         NEW d \in Displays, NEW i \in DOMAIN s.ml[d], s.ml[d][i].plane = NoPlane,
         NEW p \in Planes, p.i \in Spare(s, PoolOf(p)), Took(s, t, d, i, p), Placed(s, t, d, i, p)
  PROVE  /\ Firm(t) /\ (Piped(s) => Piped(t)) /\ Rest(t) = Rest(s)
         /\ Local(s, t, d, i) /\ t.sf = s.sf /\ t.ml[d][i].plane = p
         /\ \A j \in DOMAIN s.ml["mipi"] : ~(d = "mipi" /\ j = i) => SuitedLayer(t, j)
<1>1. Accounted(t)
  BY Lending DEF Sound
<1>2. t.free["overlay"] \subseteq s.free["overlay"]
  <2>1. PoolOf(p) \in Pools /\ "overlay" \in Pools
    BY PlaneTypes DEF Pools
  <2> QED
    BY <2>1 DEF Took
<1>3. t.lit = s.lit /\ t.mapped = s.mapped /\ t.flip = s.flip /\ t.hw = s.hw /\ t.sf = s.sf /\ Rest(t) = Rest(s)
  BY DEF Took
<1>4. Shown(t)
  BY <1>2, <1>3 DEF Sound, Shown
<1>5. Flipped(t)
  BY <1>3 DEF Sound, Flipped
<1>6. /\ DOMAIN t.ml["mipi"] = DOMAIN s.ml["mipi"]
      /\ \A j \in DOMAIN s.ml["mipi"] :
           /\ t.ml["mipi"][j].kind = s.ml["mipi"][j].kind
           /\ ~(d = "mipi" /\ j = i) => t.ml["mipi"][j].plane = s.ml["mipi"][j].plane
           /\ d = "mipi" /\ j = i => t.ml["mipi"][j].plane = p
  BY DEF Placed, Displays
<1>7. Listed(t)
  BY <1>3, <1>6, SameList DEF Sound
<1>8. ASSUME NEW j \in DOMAIN s.ml["mipi"], ~(d = "mipi" /\ j = i) PROVE SuitedLayer(t, j)
  <2>1. SuitedLayer(s, j) /\ CompOf(t, "mipi", j) = CompOf(s, "mipi", j)
    BY <1>3 DEF Sound, Suited, CompOf
  <2> QED
    BY <1>6, <1>8, <2>1, SameSuit
<1>9. ASSUME Piped(s) PROVE Piped(t)
  <2> SUFFICES ASSUME NEW j \in DOMAIN s.ml["mipi"], t.ml["mipi"][j].plane \in OverlayPlanes
               PROVE  t.pipe[t.ml["mipi"][j].plane] = "mipi"
    BY <1>6 DEF Piped
  <2>1. CASE d = "mipi" /\ j = i
    BY <1>6, <2>1 DEF Took
  <2>2. CASE ~(d = "mipi" /\ j = i)
    <3> DEFINE q == s.ml["mipi"][j].plane
    <3>1. q = t.ml["mipi"][j].plane /\ s.pipe[q] = "mipi"
      BY <1>6, <1>9, <2>2 DEF Piped
    <3>2. q # NoPlane
      BY <3>1 DEF OverlayPlanes, NoPlane
    <3>3. <<"mipi", j>> \in Spots(s) /\ PlaneAt(s, <<"mipi", j>>) = q
      BY <3>2, SpotAt DEF Displays
    <3>4. PoolOf(p) \in Pools /\ p.i \in 0..31
      BY PlaneTypes
    <3>5. q # p
      BY <3>3, <3>4 DEF Sound, Accounted, IsPlane
    <3> QED
      BY <3>1, <3>5 DEF Took
  <2> QED
    BY <2>1, <2>2
<1>10. Local(s, t, d, i)
  BY <1>3 DEF Local, Placed, CompOf
<1> QED
  BY <1>1, <1>3, <1>4, <1>5, <1>7, <1>8, <1>9, <1>10 DEF Firm, Placed

\* Lending a plane that suits the layer.
LEMMA LendStep ==
  ASSUME NEW s \in States, NEW t \in States, Sound(s), Sprites = {},
         NEW d \in Displays, NEW i \in DOMAIN s.ml[d], s.ml[d][i].plane = NoPlane,
         NEW p \in Planes, p.i \in Spare(s, PoolOf(p)), Took(s, t, d, i, p), Placed(s, t, d, i, p),
         d = "mipi" => SuitedLayer(t, i)
  PROVE  Keeps(s, t) /\ Local(s, t, d, i) /\ t.sf = s.sf /\ t.ml[d][i].plane = p
<1>1. /\ Firm(t) /\ (Piped(s) => Piped(t)) /\ Rest(t) = Rest(s)
      /\ Local(s, t, d, i) /\ t.sf = s.sf /\ t.ml[d][i].plane = p
      /\ \A j \in DOMAIN s.ml["mipi"] : ~(d = "mipi" /\ j = i) => SuitedLayer(t, j)
  BY LendCore
<1>2. DOMAIN t.ml["mipi"] = DOMAIN s.ml["mipi"]
  BY <1>1 DEF Local, Displays
<1>3. Suited(t)
  BY <1>1, <1>2 DEF Suited
<1> QED
  BY <1>1, <1>3 DEF Keeps, Sound, Firm

\* Giving a plane back.
LEMMA GiveStep ==
  ASSUME NEW s \in States, Sound(s), Sprites = {}, NEW d \in Displays, NEW i \in DOMAIN s.ml[d],
         s.ml[d][i].plane # NoPlane, NEW t, t = Detach(s, d, i)
  PROVE  /\ Keeps(s, t) /\ Local(s, t, d, i) /\ t.sf = s.sf /\ t.ml[d][i].plane = NoPlane
         /\ s.ml[d][i].plane.i \in Spare(t, PoolOf(s.ml[d][i].plane))
<1>1. t \in States /\ Gave(s, t, d, i) /\ Placed(s, t, d, i, NoPlane)
  BY Detaching
<1>2. Accounted(t)
  BY <1>1, GivingBack DEF Sound
<1>3. t.free = s.free /\ t.lit = s.lit /\ t.mapped = s.mapped /\ t.pipe = s.pipe /\ t.flip = s.flip
      /\ t.hw = s.hw /\ t.sf = s.sf /\ Rest(t) = Rest(s)
  BY <1>1 DEF Gave
<1>4. Shown(t) /\ Flipped(t)
  BY <1>3 DEF Sound, Shown, Flipped
<1>5. /\ DOMAIN t.ml["mipi"] = DOMAIN s.ml["mipi"]
      /\ \A j \in DOMAIN s.ml["mipi"] :
           /\ t.ml["mipi"][j].kind = s.ml["mipi"][j].kind
           /\ ~(d = "mipi" /\ j = i) => t.ml["mipi"][j].plane = s.ml["mipi"][j].plane
           /\ d = "mipi" /\ j = i => t.ml["mipi"][j].plane = NoPlane
  BY <1>1 DEF Placed, Displays
<1>6. Listed(t)
  BY <1>3, <1>5, SameList DEF Sound
<1>7. Suited(t)
  <2> SUFFICES ASSUME NEW j \in DOMAIN s.ml["mipi"] PROVE SuitedLayer(t, j)
    BY <1>5 DEF Suited
  <2>1. CASE d = "mipi" /\ j = i
    BY <1>5, <2>1 DEF SuitedLayer, NoPlane
  <2>2. CASE ~(d = "mipi" /\ j = i)
    <3>1. SuitedLayer(s, j) /\ CompOf(t, "mipi", j) = CompOf(s, "mipi", j)
      BY <1>3 DEF Sound, Suited, CompOf
    <3> QED
      BY <1>5, <2>2, <3>1, SameSuit
  <2> QED
    BY <2>1, <2>2
<1>8. Piped(s) => Piped(t)
  BY <1>3, <1>5 DEF Piped, NoPlane, OverlayPlanes
<1>9. Local(s, t, d, i)
  BY <1>1, <1>3 DEF Local, Placed, CompOf
<1>10. s.ml[d][i].plane.i \in Spare(t, PoolOf(s.ml[d][i].plane))
  BY <1>1 DEF Gave, Spare
<1> QED
  BY <1>1, <1>2, <1>3, <1>4, <1>6, <1>7, <1>8, <1>9, <1>10 DEF Keeps, Sound, Placed

-----------------------------------------------------------------------------
(* Steps on the register blocks, and on a layer's flags.                    *)

LEMMA BlockStep ==
  ASSUME NEW s \in States, NEW t \in States, Sound(s), Shown(t), Flipped(t),
         Piped(s) => Piped(t), t.free = s.free, t.recl = s.recl, t.ml = s.ml, t.sf = s.sf,
         Rest(t) = Rest(s)
  PROVE  Keeps(s, t) /\ \A d \in Displays : \A i : Local(s, t, d, i)
<1>1. Accounted(t)
  BY SameBooks DEF Sound
<1>2. Listed(t) /\ Suited(t)
  BY DEF Sound, Listed, Suited, SuitedLayer, CompOf
<1> QED
  BY <1>1, <1>2 DEF Keeps, Local, Sound, CompOf

LEMMA DisableStep ==
  ASSUME NEW s \in States, Sound(s), NEW p, NEW t, t = Disable(s, p)
  PROVE  /\ Keeps(s, t) /\ \A d \in Displays : \A i : Local(s, t, d, i)
         /\ t.free = s.free /\ t.recl = s.recl /\ t.mapped = s.mapped /\ t.pipe = s.pipe
         /\ t.ml = s.ml /\ t.sf = s.sf
         /\ p \notin t.lit
<1>1. CASE p \notin s.lit
  BY <1>1, Reflexive DEF Disable
<1>2. CASE p \in s.lit
  <2> DEFINE l == s.lit \ {p}
             h == [s.hw EXCEPT ![p.i] = Dark]
  <2>1. t = WithBlocks(s, l, s.mapped, h)
    BY <1>2 DEF Disable, States, WithBlocks
  <2>2. l \in Blocks /\ s.mapped \in Blocks /\ p \in OverlayPlanes /\ p.i \in Overlays
    BY <1>2, Fields DEF Blocks, OverlayPlanes
  <2>3. h \in Shows /\ h[p.i] = Dark /\ \A i \in Overlays : i # p.i => h[i] = s.hw[i]
    BY <2>2, Fields DEF Shows, Flips
  <2> HIDE DEF h, l
  <2>4. /\ t \in States /\ t.free = s.free /\ t.recl = s.recl
        /\ t.lit = l /\ t.mapped = s.mapped /\ t.pipe = s.pipe
        /\ t.flip = s.flip /\ t.hw = h /\ t.ml = s.ml /\ t.sf = s.sf /\ Rest(t) = Rest(s)
    BY <2>1, <2>2, <2>3, SetBlocks
  <2>5. Shown(t)
    <3>1. \A i \in Overlays : t.hw[i] # Dark => t.hw[i].plane \in t.lit /\ t.hw[i].plane.i = i
      BY <2>3, <2>4 DEF Sound, Shown, l
    <3> QED
      BY <2>4, <3>1 DEF Sound, Shown, l
  <2>6. Flipped(t) /\ (Piped(s) => Piped(t))
    BY <2>4 DEF Sound, Flipped, Piped
  <2>7. p \notin t.lit
    BY <2>4 DEF l
  <2> QED
    BY <2>4, <2>5, <2>6, <2>7, BlockStep
<1> QED
  BY <1>1, <1>2

\* setDataBuffer of a plane that is not of a free overlay.
LEMMA SetDataStep ==
  ASSUME NEW s \in States, Sound(s), NEW p \in OverlayPlanes, p.i \notin s.free["overlay"],
         NEW off \in BOOLEAN, NEW t, t = SetData(s, p, off)
  PROVE  /\ Keeps(s, t) /\ \A d \in Displays : \A i : Local(s, t, d, i)
         /\ t.ml = s.ml /\ t.sf = s.sf
<1> DEFINE m == [s EXCEPT !.mapped = s.mapped \cup {p}]
           n == s.mapped \cup {p}
<1>1. s.lit \in Blocks /\ n \in Blocks /\ s.hw \in Shows /\ s.lit \cup {p} \in Blocks
  BY Fields DEF Blocks
<1>2. m = WithBlocks(s, s.lit, n, s.hw)
  BY DEF States, WithBlocks
<1>3. /\ m \in States /\ m.free = s.free /\ m.recl = s.recl
      /\ m.lit = s.lit /\ m.mapped = n /\ m.pipe = s.pipe
      /\ m.flip = s.flip /\ m.hw = s.hw /\ m.ml = s.ml /\ m.sf = s.sf /\ Rest(m) = Rest(s)
  BY <1>1, <1>2, SetBlocks
<1>4. Shown(m) /\ Flipped(m) /\ (Piped(s) => Piped(m))
  BY <1>3 DEF Sound, Shown, Flipped, Piped
<1>5. Keeps(s, m) /\ \A d \in Displays : \A i : Local(s, m, d, i)
  BY <1>3, <1>4, BlockStep
<1>6. t = IF off THEN Disable(m, p) ELSE [m EXCEPT !.lit = m.lit \cup {p}]
  BY DEF SetData
<1> HIDE DEF m
<1>7. CASE off
  <2>1. /\ Keeps(m, t) /\ \A d \in Displays : \A i : Local(m, t, d, i)
        /\ t.ml = m.ml /\ t.sf = m.sf
    BY <1>3, <1>5, <1>6, <1>7, DisableStep DEF Keeps
  <2> QED
    BY <1>3, <1>5, <2>1, KeepsOn, LocalOn
<1>8. CASE ~off
  <2> DEFINE l == s.lit \cup {p}
  <2>0. m.lit = s.lit /\ m.mapped = n /\ m.hw = s.hw /\ m \in States
    BY <1>3
  <2>1. t = WithBlocks(m, l, n, s.hw)
    <3>1. t = [m EXCEPT !.lit = l]
      BY <1>6, <1>8, <2>0
    <3> HIDE DEF l, n
    <3> QED
      BY <2>0, <3>1 DEF States, WithBlocks
  <2> HIDE DEF l, n
  <2>2. l \in Blocks /\ n \in Blocks /\ s.hw \in Shows
    BY <1>1 DEF l
  <2>3. /\ t \in States /\ t.free = m.free /\ t.recl = m.recl
        /\ t.lit = l /\ t.mapped = n /\ t.pipe = m.pipe
        /\ t.flip = m.flip /\ t.hw = s.hw /\ t.ml = m.ml /\ t.sf = m.sf /\ Rest(t) = Rest(m)
    BY <2>0, <2>1, <2>2, SetBlocks
  <2>4. Shown(t) /\ Flipped(t) /\ (Piped(s) => Piped(t))
    BY <1>3, <1>4, <2>3 DEF Sound, Shown, Flipped, Piped, l, n
  <2> QED
    BY <1>3, <2>3, <2>4, BlockStep
<1> QED
  BY <1>7, <1>8

\* Only the flags of a layer are written.
LEMMA FlagStep ==
  ASSUME NEW s \in States, Sound(s), NEW d \in Displays, NEW i \in DOMAIN s.ml[d], NEW l \in Lays,
         l.kind = s.ml[d][i].kind, l.plane = s.ml[d][i].plane, NEW t, t = SetLayer(s, d, i, l)
  PROVE  /\ Keeps(s, t) /\ Local(s, t, d, i)
         /\ t.free = s.free /\ t.recl = s.recl /\ t.pipe = s.pipe /\ t.sf = s.sf
         /\ t.ml[d][i].plane = s.ml[d][i].plane
<1>1. /\ t \in States /\ t.free = s.free /\ t.recl = s.recl
      /\ t.lit = s.lit /\ t.mapped = s.mapped /\ t.pipe = s.pipe
      /\ t.flip = s.flip /\ t.hw = s.hw /\ t.sf = s.sf /\ Rest(t) = Rest(s)
      /\ \A e \in Displays : /\ DOMAIN t.ml[e] = DOMAIN s.ml[e] /\ Len(t.ml[e]) = Len(s.ml[e])
                             /\ e # d => t.ml[e] = s.ml[e]
                             /\ \A j \in DOMAIN s.ml[e] :
                                  t.ml[e][j] = IF e = d /\ j = i THEN l ELSE s.ml[e][j]
  BY LayerSet
<1>2. \A e \in Displays :
        /\ DOMAIN t.ml[e] = DOMAIN s.ml[e] /\ Len(t.ml[e]) = Len(s.ml[e])
        /\ e # d => t.ml[e] = s.ml[e]
        /\ \A j \in DOMAIN s.ml[e] :
             t.ml[e][j].kind = s.ml[e][j].kind /\ t.ml[e][j].plane = s.ml[e][j].plane
  BY <1>1
<1>3. Accounted(t)
  BY <1>1, <1>2, SameBooks DEF Sound
<1>4. /\ DOMAIN t.ml["mipi"] = DOMAIN s.ml["mipi"]
      /\ \A j \in DOMAIN s.ml["mipi"] :
           t.ml["mipi"][j].kind = s.ml["mipi"][j].kind /\ t.ml["mipi"][j].plane = s.ml["mipi"][j].plane
  BY <1>2 DEF Displays
<1>5. Shown(t) /\ Flipped(t) /\ (Piped(s) => Piped(t))
  BY <1>1, <1>4 DEF Sound, Shown, Flipped, Piped
<1>6. Listed(t)
  BY <1>1, <1>4, SameList DEF Sound
<1>7. Suited(t)
  <2> SUFFICES ASSUME NEW j \in DOMAIN s.ml["mipi"] PROVE SuitedLayer(t, j)
    BY <1>4 DEF Suited
  <2>1. SuitedLayer(s, j) /\ CompOf(t, "mipi", j) = CompOf(s, "mipi", j)
    BY <1>1 DEF Sound, Suited, CompOf
  <2> QED
    BY <1>4, <2>1, SameSuit
<1>8. Local(s, t, d, i)
  BY <1>1, <1>2 DEF Local, CompOf
<1> QED
  BY <1>1, <1>2, <1>3, <1>5, <1>6, <1>7, <1>8 DEF Keeps, Sound

\* getPlane finds a spare plane.
LEMMA NextIsSpare ==
  ASSUME NEW s \in States, NEW k \in Pools, HasFree(s, k)
  PROVE  NextPlane(s, k) \in Spare(s, k) /\ NextPlane(s, k) \in Indices[k]
<1>1. /\ s.free[k] \subseteq Indices[k] /\ s.recl[k] \subseteq Indices[k]
      /\ s.free[k] \in SUBSET Nat /\ s.recl[k] \in SUBSET Nat
  <2>1. s.free \in Bitmaps /\ s.recl \in Bitmaps
    BY Fields
  <2>2. 0..31 \subseteq Nat
    OBVIOUS
  <2> QED
    BY <2>1, <2>2 DEF Bitmaps
<1>2. ASSUME NEW S \in SUBSET Nat, S # {} PROVE Min(S) \in S
  <2>1. \E x \in S : \A y \in S : x <= y
    BY <1>2, LeastNumber
  <2> QED
    BY <2>1, Zenon DEF Min
<1>3. s.free[k] # {} \/ s.recl[k] # {}
  BY DEF HasFree
<1>4. NextPlane(s, k) \in s.free[k] \/ NextPlane(s, k) \in s.recl[k]
  <2>1. CASE s.recl[k] # {}
    BY <1>1, <1>2, <2>1 DEF NextPlane
  <2>2. CASE s.recl[k] = {}
    BY <1>1, <1>2, <1>3, <2>2 DEF NextPlane
  <2> QED
    BY <2>1, <2>2
<1> QED
  BY <1>1, <1>4 DEF Spare

-----------------------------------------------------------------------------
(* onGeometryChanged of the panel.                                          *)

LEMMA LendOverlay ==
  ASSUME NEW s \in States, Sound(s), Sprites = {}, HasFree(s, "overlay"),
         NEW d \in Displays, NEW i \in DOMAIN s.ml[d], s.ml[d][i].plane = NoPlane,
         NEW ty \in {"ov", "rgb"}, NEW p, p = [type |-> ty, i |-> NextPlane(s, "overlay")],
         NEW t, t = Attach([Grab(s, "overlay", NextPlane(s, "overlay")) EXCEPT !.pipe[p] = d], d, i, p)
  PROVE  /\ t \in States /\ p \in OverlayPlanes
         /\ Firm(t) /\ (Piped(s) => Piped(t)) /\ Rest(t) = Rest(s)
         /\ Local(s, t, d, i) /\ t.sf = s.sf /\ t.ml[d][i].plane = p
         /\ \A j \in DOMAIN s.ml["mipi"] : ~(d = "mipi" /\ j = i) => SuitedLayer(t, j)
<1>1. "overlay" \in Pools /\ Indices["overlay"] = Overlays
  BY DEF Pools, Indices
<1>2. NextPlane(s, "overlay") \in Spare(s, "overlay") /\ NextPlane(s, "overlay") \in Overlays
  BY <1>1, NextIsSpare
<1>3. p \in OverlayPlanes /\ p.i = NextPlane(s, "overlay") /\ p.type = ty
  BY <1>2 DEF OverlayPlanes
<1>4. p \in Planes /\ PoolOf(p) = "overlay"
  BY <1>3 DEF Planes, PoolOf
<1>5. t \in States /\ Took(s, t, d, i, p) /\ Placed(s, t, d, i, p)
  BY <1>2, <1>3, TakingOverlay DEF Sound
<1>6. p.i \in Spare(s, PoolOf(p))
  BY <1>2, <1>3, <1>4
<1> QED
  BY <1>3, <1>4, <1>5, <1>6, LendCore

LEMMA ForceStep ==
  ASSUME NEW s \in States, Sound(s), NEW i \in DOMAIN s.ml["mipi"], NEW v \in BOOLEAN,
         NEW t, t = SetLayer(s, "mipi", i, [s.ml["mipi"][i] EXCEPT !.force = v])
  PROVE  /\ Keeps(s, t) /\ Local(s, t, "mipi", i)
         /\ t.sf = s.sf /\ t.ml["mipi"][i].plane = s.ml["mipi"][i].plane
<1> DEFINE l == [s.ml["mipi"][i] EXCEPT !.force = v]
<1>1. "mipi" \in Displays
  BY DEF Displays
<1>2. l \in Lays /\ l.kind = s.ml["mipi"][i].kind /\ l.plane = s.ml["mipi"][i].plane
  <2>1. s.ml["mipi"][i] \in Lays
    BY <1>1, Layer
  <2> QED
    BY <2>1 DEF Lays
<1>3. t = SetLayer(s, "mipi", i, l)
  OBVIOUS
<1> HIDE DEF l
<1> QED
  BY <1>1, <1>2, <1>3, FlagStep

\* What a layer is left with: no primary plane, and if it has no video in it and is
\* not composed, some plane.
Assigned(t, i) ==
  /\ t.ml["mipi"][i].plane.type # "primary"
  /\ t.ml["mipi"][i].kind # "dim" /\ ~Yuv(t.ml["mipi"][i].kind) /\ CompOf(t, "mipi", i) = "overlay"
       => t.ml["mipi"][i].plane # NoPlane

LEMMA OverlayStep ==
  ASSUME NEW s \in States, Sound(s), Sprites = {}, NEW i \in DOMAIN s.ml["mipi"],
         s.ml["mipi"][i].plane = NoPlane, Yuv(s.ml["mipi"][i].kind), NEW t, t = OverlayPrepare(s, i)
  PROVE  Keeps(s, t) /\ Local(s, t, "mipi", i) /\ Assigned(t, i)
<1> DEFINE h == NextPlane(s, "overlay")
           p == [type |-> "ov", i |-> h]
           u == Attach([Grab(s, "overlay", h) EXCEPT !.pipe[p] = "mipi"], "mipi", i, p)
<1>1. "mipi" \in Displays /\ {"fb", "overlay"} \subseteq Comps /\ NoPlane.type = "none"
  BY DEF Displays, Comps, NoPlane
<1>2. ASSUME NEW c \in {"fb", "overlay"}, t = SetComp(s, "mipi", i, c)
      PROVE  Keeps(s, t) /\ Local(s, t, "mipi", i) /\ Assigned(t, i)
  <2>1. Keeps(s, t) /\ Local(s, t, "mipi", i) /\ t.ml = s.ml
    BY <1>1, <1>2, CompStep
  <2> QED
    BY <1>1, <2>1 DEF Assigned
<1>3. ASSUME HasFree(s, "overlay"), t = SetComp(u, "mipi", i, "overlay")
      PROVE  Keeps(s, t) /\ Local(s, t, "mipi", i) /\ Assigned(t, i)
  <2>0. u = Attach([Grab(s, "overlay", h) EXCEPT !.pipe[p] = "mipi"], "mipi", i, p) /\ p.type = "ov"
    OBVIOUS
  <2> HIDE DEF u
  <2>1. /\ u \in States /\ p \in OverlayPlanes
        /\ Firm(u) /\ (Piped(s) => Piped(u)) /\ Rest(u) = Rest(s)
        /\ Local(s, u, "mipi", i) /\ u.sf = s.sf /\ u.ml["mipi"][i].plane = p
        /\ \A j \in DOMAIN s.ml["mipi"] : j # i => SuitedLayer(u, j)
    BY <1>1, <1>3, <2>0, LendOverlay
  <2> HIDE DEF p, h
  <2>2. DOMAIN u.ml["mipi"] = DOMAIN s.ml["mipi"] /\ u.ml["mipi"][i].kind = s.ml["mipi"][i].kind
    BY <1>1, <2>1 DEF Local
  <2>3. SuitedLayer(u, i)
    BY <2>0, <2>1, <2>2 DEF SuitedLayer
  <2>4. Suited(u)
    BY <2>1, <2>2, <2>3 DEF Suited
  <2>5. Sound(u) /\ Keeps(s, u)
    BY <2>1, <2>4 DEF Sound, Firm, Keeps
  <2>6. Keeps(u, t) /\ Local(u, t, "mipi", i) /\ t.ml = u.ml
    BY <1>1, <1>3, <2>1, <2>2, <2>5, CompStep
  <2>7. Keeps(s, t) /\ Local(s, t, "mipi", i)
    BY <2>1, <2>5, <2>6, KeepsOn, LocalOn
  <2>8. Assigned(t, i)
    BY <2>0, <2>1, <2>2, <2>6 DEF Assigned
  <2> QED
    BY <2>7, <2>8
<1> HIDE DEF u, p, h
<1> QED
  <2>1. \/ t = SetComp(s, "mipi", i, "overlay")
        \/ t = SetComp(s, "mipi", i, "fb")
        \/ HasFree(s, "overlay") /\ t = SetComp(u, "mipi", i, "overlay")
    BY DEF OverlayPrepare, u, p, h
  <2> QED
    BY <1>2, <1>3, <2>1

LEMMA RGBStep ==
  ASSUME NEW s \in States, Sound(s), Sprites = {}, NEW i \in DOMAIN s.ml["mipi"],
         s.ml["mipi"][i].plane = NoPlane, HasFree(s, "overlay"), RGBOverlayLayer(s, i),
         NEW t, t = RGBOverlayPrepare(s, i)
  PROVE  Keeps(s, t) /\ Local(s, t, "mipi", i) /\ Assigned(t, i)
<1> DEFINE h == NextPlane(s, "overlay")
           p == [type |-> "rgb", i |-> h]
           u == Attach([Grab(s, "overlay", h) EXCEPT !.pipe[p] = "mipi"], "mipi", i, p)
<1>1. "mipi" \in Displays /\ "overlay" \in Comps
  BY DEF Displays, Comps
<1>2. t = SetComp(u, "mipi", i, "overlay")
  BY DEF RGBOverlayPrepare
<1>3. u = Attach([Grab(s, "overlay", h) EXCEPT !.pipe[p] = "mipi"], "mipi", i, p) /\ p.type = "rgb"
  OBVIOUS
<1> HIDE DEF u
<1>4. /\ u \in States /\ p \in OverlayPlanes
      /\ Firm(u) /\ (Piped(s) => Piped(u)) /\ Rest(u) = Rest(s)
      /\ Local(s, u, "mipi", i) /\ u.sf = s.sf /\ u.ml["mipi"][i].plane = p
      /\ \A j \in DOMAIN s.ml["mipi"] : j # i => SuitedLayer(u, j)
  BY <1>1, <1>3, LendOverlay
<1> HIDE DEF p, h
<1>5. /\ DOMAIN u.ml["mipi"] = DOMAIN s.ml["mipi"]
      /\ \A j \in DOMAIN s.ml["mipi"] : u.ml["mipi"][j].kind = s.ml["mipi"][j].kind
  BY <1>1, <1>4 DEF Local
<1>6. /\ t \in States /\ Firm(t) /\ (Piped(u) => Piped(t)) /\ Rest(t) = Rest(u)
      /\ Local(u, t, "mipi", i) /\ t.ml = u.ml /\ CompOf(t, "mipi", i) = "overlay"
      /\ \A j \in DOMAIN u.ml["mipi"] : j # i => CompOf(t, "mipi", j) = CompOf(u, "mipi", j)
  BY <1>1, <1>2, <1>4, <1>5, CompCore
<1>7. \A j \in DOMAIN s.ml["mipi"] : ~Yuv(s.ml["mipi"][j].kind)
  BY DEF RGBOverlayLayer
<1>8. Suited(t)
  <2>1. SuitedLayer(t, i)
    <3>1. t.ml["mipi"][i].plane.type = "rgb"
      BY <1>3, <1>4, <1>6
    <3>2. \A j \in DOMAIN t.ml["mipi"] : ~Yuv(t.ml["mipi"][j].kind)
      BY <1>5, <1>6, <1>7
    <3>3. i \in DOMAIN t.ml["mipi"]
      BY <1>5, <1>6
    <3> QED
      BY <1>6, <3>1, <3>2, <3>3 DEF SuitedLayer
  <2>2. ASSUME NEW j \in DOMAIN s.ml["mipi"], j # i PROVE SuitedLayer(t, j)
    BY <1>4, <1>5, <1>6, <2>2, SameSuit
  <2> QED
    BY <1>5, <1>6, <2>1, <2>2 DEF Suited
<1>9. Keeps(s, t)
  BY <1>4, <1>6, <1>8 DEF Keeps, Sound, Firm
<1>10. Local(s, t, "mipi", i)
  BY <1>4, <1>6, LocalOn
<1>11. Assigned(t, i)
  <2>1. t.ml["mipi"][i].plane = p /\ p # NoPlane
    BY <1>3, <1>4, <1>6 DEF NoPlane
  <2> QED
    BY <1>3, <2>1 DEF Assigned
<1> QED
  BY <1>9, <1>10, <1>11

LEMMA NoSprites ==
  ASSUME NEW s \in States, Sprites = {}
  PROVE  ~HasFree(s, "sprite")
<1>1. "sprite" \in Pools /\ Indices["sprite"] = {}
  BY DEF Pools, Indices
<1>2. s.free \in Bitmaps /\ s.recl \in Bitmaps
  BY Fields
<1> QED
  BY <1>1, <1>2 DEF HasFree, Bitmaps

LEMMA AssignStep ==
  ASSUME NEW s \in States, Sound(s), Sprites = {}, NEW i \in DOMAIN s.ml["mipi"],
         s.ml["mipi"][i].plane = NoPlane, NEW t, t = AssignPlane(s, i)
  PROVE  Keeps(s, t) /\ Local(s, t, "mipi", i) /\ Assigned(t, i)
         /\ (s.ml["mipi"][i].kind = "dim" => t = s)
<1> DEFINE k == s.ml["mipi"][i].kind
<1>0. "mipi" \in Displays /\ "fb" \in Comps /\ NoPlane.type = "none"
  BY DEF Displays, Comps, NoPlane
<1>1. CASE ~IsHWCLayer(k)
  <2>1. k = "dim"
    BY <1>1 DEF IsHWCLayer
  <2>2. ~OverlayLayer(s, i) /\ ~RGBOverlayLayer(s, i)
    BY <2>1 DEF OverlayLayer, ForceOverlay, RGBOverlayLayer, Yuv
  <2>3. t = s
    BY <1>1, <2>2 DEF AssignPlane
  <2> QED
    BY <1>0, <2>1, <2>3, Reflexive DEF Assigned
<1>2. CASE IsHWCLayer(k) /\ OverlayLayer(s, i)
  <2> DEFINE v == ForceOverlay(s, i)
             u == [s EXCEPT !.ml.mipi[i].force = v]
  <2>1. v \in BOOLEAN /\ Yuv(k)
    BY <1>2 DEF OverlayLayer, ForceOverlay
  <2>2. t = OverlayPrepare(u, i)
    BY <1>2 DEF AssignPlane
  <2>3. u = SetLayer(s, "mipi", i, [s.ml["mipi"][i] EXCEPT !.force = v])
    BY DEF SetLayer
  <2> HIDE DEF v, u
  <2>4. /\ Keeps(s, u) /\ Local(s, u, "mipi", i)
        /\ u.sf = s.sf /\ u.ml["mipi"][i].plane = s.ml["mipi"][i].plane
    BY <2>1, <2>3, ForceStep
  <2>5. /\ u \in States /\ Sound(u) /\ i \in DOMAIN u.ml["mipi"]
        /\ Yuv(u.ml["mipi"][i].kind) /\ u.ml["mipi"][i].plane = NoPlane
    BY <1>0, <2>1, <2>4 DEF Keeps, Local
  <2>6. Keeps(u, t) /\ Local(u, t, "mipi", i) /\ Assigned(t, i)
    BY <2>2, <2>5, OverlayStep
  <2>7. k # "dim"
    BY <1>2 DEF IsHWCLayer
  <2> QED
    BY <2>4, <2>6, <2>7, KeepsOn, LocalOn
<1>3. CASE IsHWCLayer(k) /\ ~OverlayLayer(s, i) /\ HasFree(s, "overlay") /\ RGBOverlayLayer(s, i)
  <2>1. t = RGBOverlayPrepare(s, i) /\ k # "dim"
    BY <1>3 DEF AssignPlane, IsHWCLayer
  <2> QED
    BY <1>3, <2>1, RGBStep
<1>4. CASE IsHWCLayer(k) /\ ~OverlayLayer(s, i) /\ ~(HasFree(s, "overlay") /\ RGBOverlayLayer(s, i))
  <2>1. t = SetComp(s, "mipi", i, "fb") /\ k # "dim"
    BY <1>4, NoSprites DEF AssignPlane, IsHWCLayer
  <2>2. /\ Keeps(s, t) /\ Local(s, t, "mipi", i) /\ t.ml = s.ml
        /\ CompOf(t, "mipi", i) = "fb"
    BY <1>0, <2>1, CompStep
  <2> QED
    BY <1>0, <2>1, <2>2 DEF Assigned
<1> QED
  BY <1>1, <1>2, <1>3, <1>4

-----------------------------------------------------------------------------
(* revisitLayerList.                                                        *)

\* The panel's primary plane is one, and is not spare while a layer has it.
LEMMA OnePrimary ==
  ASSUME NEW s \in States, Sound(s), Sprites = {}, NEW i \in DOMAIN s.ml["mipi"],
         s.ml["mipi"][i].plane.type = "primary"
  PROVE  /\ s.ml["mipi"][i].plane.i = 0 /\ s.ml["mipi"][i].plane # NoPlane
         /\ 0 \notin Spare(s, "primary")
         /\ \A j \in DOMAIN s.ml["mipi"] : s.ml["mipi"][j].plane.type = "primary" => j = i
<1>1. ASSUME NEW j \in DOMAIN s.ml["mipi"], s.ml["mipi"][j].plane.type = "primary"
      PROVE  /\ <<"mipi", j>> \in Spots(s) /\ IsPlane(PlaneAt(s, <<"mipi", j>>), "primary", 0)
             /\ s.ml["mipi"][j].plane.i = 0 /\ s.ml["mipi"][j].plane # NoPlane
  <2>1. s.ml["mipi"][j].plane # NoPlane /\ "mipi" \in Displays
    BY <1>1 DEF NoPlane, Displays
  <2>2. <<"mipi", j>> \in Spots(s) /\ PlaneAt(s, <<"mipi", j>>) = s.ml["mipi"][j].plane
    BY <2>1, SpotAt
  <2>3. s.ml["mipi"][j].plane.i = 0
    BY <1>1 DEF Sound, Suited, SuitedLayer
  <2>4. PoolOf(s.ml["mipi"][j].plane) = "primary"
    BY <1>1 DEF PoolOf
  <2> QED
    BY <2>1, <2>2, <2>3, <2>4 DEF IsPlane
<1>2. "primary" \in Pools /\ 0 \in 0..31
  BY DEF Pools
<1>3. ASSUME NEW j \in DOMAIN s.ml["mipi"], s.ml["mipi"][j].plane.type = "primary"
      PROVE  0 \notin Spare(s, "primary") /\ <<"mipi", j>> = <<"mipi", i>>
  <2>1. \A x \in Spots(s) : IsPlane(PlaneAt(s, x), "primary", 0) =>
          /\ 0 \notin Spare(s, "primary")
          /\ \A y \in Spots(s) : IsPlane(PlaneAt(s, y), "primary", 0) => x = y
    BY <1>2 DEF Sound, Accounted
  <2> QED
    BY <1>1, <1>3, <2>1
<1> QED
  BY <1>1, <1>3

\* What holds outside smart composition up to layer n, while the list is revisited.
Settled(s, n) == Composing(s) /\ Planed(s, Len(s.ml["mipi"])) /\ Covered(s, n)

\* isPrimaryLayer and primaryPrepare end in one of four ways: nothing changes,
\* the layer loses the primary plane, it gets it, or it is composed.
LEMMA TryPrimaryStep ==
  ASSUME NEW s \in States, Sound(s), Sprites = {}, NEW i \in DOMAIN s.ml["mipi"],
         NEW t, t = TryPrimary(s, i)
  PROVE  /\ Keeps(s, t) /\ Local(s, t, "mipi", i)
         /\ Settled(s, i - 1) => Settled(t, i)
<1> DEFINE p == s.ml["mipi"][i].plane
           k == s.ml["mipi"][i].kind
           held == CompOf(s, "mipi", i) = "overlay"
           r == IF held /\ p.type = "primary" THEN SetComp(Detach(s, "mipi", i), "mipi", i, "fb")
                                              ELSE s
           keep == \/ held /\ p.type \in {"ov", "rgb", "sprite"}
                   \/ \E j \in Layers(s, "mipi") \ {i} : CompOf(r, "mipi", j) # "overlay"
                   \/ ~IsSprite(k)
           f == [type |-> "primary", i |-> 0]
           a == Attach(Grab(r, "primary", 0), "mipi", i, f)
<1>1. \/ keep /\ t = r
      \/ ~keep /\ Available(r, "primary", 0) /\ t = SetComp(a, "mipi", i, "overlay")
      \/ ~keep /\ ~Available(r, "primary", 0) /\ t = SetComp(r, "mipi", i, "fb")
  BY DEF TryPrimary
<1>2. "mipi" \in Displays /\ {"fb", "overlay"} \subseteq Comps /\ NoPlane.type = "none"
  BY DEF Displays, Comps, NoPlane
<1>3. /\ p \in Planes \cup {NoPlane} /\ (p # NoPlane => p.type \in {"ov", "rgb", "primary"})
      /\ DOMAIN s.ml["mipi"] = 1..Len(s.ml["mipi"]) /\ Len(s.ml["mipi"]) \in Nat
  BY <1>2, Layer, PlaneTypes
<1>4. SuitedLayer(s, i)
  BY DEF Sound, Suited
\* The layer as it is without the primary plane.
<1>5. /\ Keeps(s, r) /\ Local(s, r, "mipi", i)
      /\ held /\ p.type = "primary" =>
           r.ml["mipi"][i].plane = NoPlane /\ CompOf(r, "mipi", i) = "fb" /\ Available(r, "primary", 0)
      /\ ~(held /\ p.type = "primary") => r = s
  <2>1. CASE held /\ p.type = "primary"
    <3> DEFINE u == Detach(s, "mipi", i)
    <3>1. p.i = 0 /\ p # NoPlane /\ PoolOf(p) = "primary"
      BY <2>1, OnePrimary DEF PoolOf
    <3>2. /\ Keeps(s, u) /\ Local(s, u, "mipi", i) /\ u.sf = s.sf /\ u.ml["mipi"][i].plane = NoPlane
          /\ p.i \in Spare(u, PoolOf(p))
      BY <1>2, <3>1, GiveStep
    <3>3. r = SetComp(u, "mipi", i, "fb")
      BY <2>1
    <3> HIDE DEF u, r
    <3>4. u \in States /\ Sound(u) /\ i \in DOMAIN u.ml["mipi"]
      BY <1>2, <3>2 DEF Keeps, Local
    <3>5. /\ Keeps(u, r) /\ Local(u, r, "mipi", i) /\ r.ml = u.ml /\ r.free = u.free /\ r.recl = u.recl
          /\ CompOf(r, "mipi", i) = "fb"
      BY <1>2, <3>2, <3>3, <3>4, CompStep
    <3>6. Available(r, "primary", 0)
      BY <3>1, <3>2, <3>5 DEF Available, Spare
    <3> QED
      BY <2>1, <3>2, <3>5, <3>6, KeepsOn, LocalOn
  <2>2. CASE ~(held /\ p.type = "primary")
    BY <2>2, Reflexive
  <2> QED
    BY <2>1, <2>2
<1> HIDE DEF r
<1>6. r \in States /\ Sound(r) /\ Rest(r) = Rest(s)
  BY <1>5 DEF Keeps
<1>7. /\ DOMAIN r.ml["mipi"] = DOMAIN s.ml["mipi"] /\ Len(r.ml["mipi"]) = Len(s.ml["mipi"])
      /\ \A j \in DOMAIN s.ml["mipi"] :
           /\ r.ml["mipi"][j].kind = s.ml["mipi"][j].kind
           /\ j # i => /\ r.ml["mipi"][j].plane = s.ml["mipi"][j].plane
                       /\ CompOf(r, "mipi", j) = CompOf(s, "mipi", j)
  BY <1>2, <1>5 DEF Local
\* Nothing else to do.
<1>8. ASSUME keep, t = r
      PROVE  /\ Keeps(s, t) /\ Local(s, t, "mipi", i)
             /\ Settled(s, i - 1) => Settled(t, i)
  <2>1. ASSUME Settled(s, i - 1) PROVE Settled(t, i)
    <3>1. CASE held /\ p.type = "primary"
      <4>1. \A j \in DOMAIN t.ml["mipi"] : t.ml["mipi"][j].plane.type # "primary"
        BY <1>2, <1>5, <1>7, <1>8, <3>1, OnePrimary
      <4>2. Composing(t)
        <5>1. Composing(s) /\ t = r /\ CompOf(r, "mipi", i) = "fb"
          BY <1>5, <1>8, <2>1, <3>1 DEF Settled
        <5>2. \A j \in DOMAIN s.ml["mipi"] :
                s.ml["mipi"][j].kind = "dim" => CompOf(r, "mipi", j) = "fb"
          BY <1>7, <5>1 DEF Composing
        <5> QED
          BY <1>7, <4>1, <5>1, <5>2 DEF Composing
      <4>3. Planed(t, Len(t.ml["mipi"]))
        BY <1>5, <1>7, <1>8, <2>1, <3>1 DEF Settled, Planed, NoDim
      <4> QED
        BY <4>1, <4>2, <4>3 DEF Settled, Covered
    <3>2. CASE ~(held /\ p.type = "primary")
      <4>1. t = s /\ p.type # "primary"
        <5>1. t = s
          BY <1>5, <1>8, <3>2
        <5>2. p.type = "primary" => held
          BY <2>1 DEF Settled, Composing
        <5> QED
          BY <3>2, <5>1, <5>2
      <4>2. Covered(t, i)
        BY <1>3, <2>1, <4>1 DEF Settled, Covered
      <4> QED
        BY <2>1, <4>1, <4>2 DEF Settled
    <3> QED
      BY <3>1, <3>2
  <2> QED
    BY <1>5, <1>8, <2>1
\* It gets the plane.
<1>9. ASSUME ~keep, Available(r, "primary", 0), t = SetComp(a, "mipi", i, "overlay")
      PROVE  /\ Keeps(s, t) /\ Local(s, t, "mipi", i)
             /\ Settled(s, i - 1) => Settled(t, i)
  <2>1. r.ml["mipi"][i].plane = NoPlane
    <3>1. CASE held /\ p.type = "primary"
      BY <1>5, <3>1
    <3>2. CASE ~(held /\ p.type = "primary")
      <4>1. r = s /\ IsSprite(k)
        BY <1>5, <1>9, <3>2
      <4>2. p.type # "ov" /\ p.type # "rgb"
        BY <1>4, <1>9, <4>1 DEF SuitedLayer, IsSprite, Yuv
      <4>3. p.type # "primary"
        BY <1>9, <4>1, OnePrimary DEF Available, Spare
      <4> QED
        BY <1>3, <4>1, <4>2, <4>3
    <3> QED
      BY <3>1, <3>2
  <2>2. f \in Planes /\ f.type = "primary" /\ f.i = 0 /\ PoolOf(f) = "primary" /\ f # NoPlane
        /\ f.i \in Spare(r, PoolOf(f))
    <3>1. 0 \in Spare(r, "primary")
      BY <1>9 DEF Available, Spare
    <3>2. "primary" \in Pools /\ Indices["primary"] = Primaries /\ r.free \in Bitmaps /\ r.recl \in Bitmaps
      BY <1>6, Fields DEF Pools, Indices
    <3>3. 0 \in Primaries
      BY <3>1, <3>2 DEF Spare, Bitmaps
    <3> QED
      BY <3>1, <3>3 DEF Planes, PoolOf, NoPlane
  <2>3. a = Attach(Grab(r, "primary", f.i), "mipi", i, f)
    BY <2>2
  <2> HIDE DEF a, f
  <2>4. i \in DOMAIN r.ml["mipi"] /\ Accounted(r) /\ f.i \in Spare(r, "primary")
    BY <1>6, <1>7, <2>2 DEF Sound
  <2>5. a \in States /\ Took(r, a, "mipi", i, f) /\ Placed(r, a, "mipi", i, f)
    BY <1>2, <1>6, <2>2, <2>3, <2>4, TakingPrimary
  <2>6. SuitedLayer(a, i)
    <3>1. a.ml["mipi"][i].plane = f /\ a.ml["mipi"][i].kind = k
      BY <1>2, <1>7, <2>5 DEF Placed
    <3>2. IsSprite(k)
      BY <1>9
    <3> QED
      BY <2>2, <3>1, <3>2 DEF SuitedLayer
  <2>7. Keeps(r, a) /\ Local(r, a, "mipi", i) /\ a.ml["mipi"][i].plane = f
    BY <1>2, <1>6, <2>1, <2>2, <2>4, <2>5, <2>6, LendStep
  <2>8. a \in States /\ Sound(a) /\ i \in DOMAIN a.ml["mipi"]
    BY <1>2, <2>4, <2>7 DEF Keeps, Local
  <2>9. Keeps(a, t) /\ Local(a, t, "mipi", i) /\ t.ml = a.ml /\ CompOf(t, "mipi", i) = "overlay"
    BY <1>2, <1>9, <2>8, CompStep
  <2>10. Keeps(s, t) /\ Local(s, t, "mipi", i)
    BY <1>5, <2>7, <2>9, KeepsOn, LocalOn
  <2>11. /\ DOMAIN t.ml["mipi"] = DOMAIN s.ml["mipi"] /\ Len(t.ml["mipi"]) = Len(s.ml["mipi"])
         /\ \A j \in DOMAIN s.ml["mipi"] :
              /\ t.ml["mipi"][j].kind = s.ml["mipi"][j].kind
              /\ j # i => /\ t.ml["mipi"][j].plane = s.ml["mipi"][j].plane
                          /\ CompOf(t, "mipi", j) = CompOf(s, "mipi", j)
    BY <1>2, <2>10 DEF Local
  <2>12. \A j \in DOMAIN s.ml["mipi"] : CompOf(t, "mipi", j) = "overlay"
    BY <1>7, <1>9, <2>9, <2>11 DEF Layers
  <2>13. ASSUME Settled(s, i - 1) PROVE Settled(t, i)
    <3>1. Composing(t)
      <4>1. k # "dim"
        BY <1>9 DEF IsSprite
      <4> QED
        BY <2>11, <2>12, <2>13, <4>1 DEF Settled, Composing
    <3>2. Planed(t, Len(t.ml["mipi"]))
      BY <2>2, <2>7, <2>9, <2>11, <2>13 DEF Settled, Planed, NoDim
    <3>3. Covered(t, i)
      BY <2>11, <2>12 DEF Covered
    <3> QED
      BY <3>1, <3>2, <3>3 DEF Settled
  <2> QED
    BY <2>10, <2>13
\* The plane is elsewhere and the layer is composed.
<1>10. ASSUME ~keep, ~Available(r, "primary", 0), t = SetComp(r, "mipi", i, "fb")
       PROVE  /\ Keeps(s, t) /\ Local(s, t, "mipi", i)
              /\ Settled(s, i - 1) => Settled(t, i)
  <2>1. r = s /\ ~(held /\ p.type = "primary") /\ IsSprite(k)
    BY <1>5, <1>10
  <2>2. p.type # "ov" /\ p.type # "rgb"
    BY <1>4, <1>10, <2>1 DEF SuitedLayer, IsSprite, Yuv
  <2>3. /\ Keeps(s, t) /\ Local(s, t, "mipi", i) /\ t.ml = s.ml /\ CompOf(t, "mipi", i) = "fb"
    BY <1>2, <1>10, <2>1, <2>2, CompStep
  <2>4. \A j \in DOMAIN s.ml["mipi"] : j # i => CompOf(t, "mipi", j) = CompOf(s, "mipi", j)
    BY <2>3 DEF Local
  <2>5. ASSUME Settled(s, i - 1) PROVE Settled(t, i)
    <3>1. p.type # "primary" /\ p = NoPlane
      BY <1>3, <2>1, <2>2, <2>5 DEF Settled, Composing
    <3>2. Composing(t)
      BY <2>3, <2>4, <2>5, <3>1 DEF Settled, Composing
    <3>3. Planed(t, Len(t.ml["mipi"]))
      BY <2>3, <2>4, <2>5 DEF Settled, Planed, NoDim
    <3>4. Covered(t, i)
      <4> SUFFICES ASSUME NEW j \in DOMAIN s.ml["mipi"], j <= i, s.ml["mipi"][j].plane.type = "primary"
                   PROVE  FALSE
        BY <2>3 DEF Covered
      <4>1. j <= i - 1
        BY <1>3, <3>1
      <4>2. \A m \in DOMAIN s.ml["mipi"] : CompOf(s, "mipi", m) = "overlay"
        BY <2>5, <4>1 DEF Settled, Covered
      <4>3. NoDim(s)
        BY <2>5, <4>2 DEF Settled, Composing, NoDim
      <4>4. ~Yuv(k)
        BY <2>1 DEF IsSprite, Yuv
      <4> QED
        BY <1>3, <2>5, <3>1, <4>2, <4>3, <4>4 DEF Settled, Planed
    <3> QED
      BY <3>2, <3>3, <3>4 DEF Settled
  <2> QED
    BY <2>3, <2>5
<1> HIDE DEF keep, a
<1> QED
  BY <1>1, <1>8, <1>9, <1>10

-----------------------------------------------------------------------------
(* The loops over the layers.                                               *)

\* The list of the panel has the same layers.
Shape(s, t) ==
  /\ DOMAIN t.ml["mipi"] = DOMAIN s.ml["mipi"] /\ Len(t.ml["mipi"]) = Len(s.ml["mipi"])
  /\ \A j \in DOMAIN s.ml["mipi"] : t.ml["mipi"][j].kind = s.ml["mipi"][j].kind

\* The first i layers of the panel are assigned their planes.
AssignedTo(s, x, i) ==
  /\ Keeps(s, x) /\ Shape(s, x)
  /\ \A j \in DOMAIN s.ml["mipi"] :
       /\ j <= i => Assigned(x, j)
       /\ j > i => x.ml["mipi"][j].plane = NoPlane
       /\ s.ml["mipi"][j].kind = "dim" => CompOf(x, "mipi", j) = CompOf(s, "mipi", j)

LEMMA AssignedStep ==
  ASSUME NEW s \in States, Sprites = {}, NEW i \in DOMAIN s.ml["mipi"], NEW x,
         AssignedTo(s, x, i - 1), NEW t, t = AssignPlane(x, i)
  PROVE  AssignedTo(s, t, i)
<1>1. "mipi" \in Displays /\ DOMAIN s.ml["mipi"] = 1..Len(s.ml["mipi"]) /\ Len(s.ml["mipi"]) \in Nat
  BY Layer DEF Displays
<1>2. /\ Keeps(s, x) /\ Shape(s, x)
      /\ \A j \in DOMAIN s.ml["mipi"] :
           /\ j <= i - 1 => Assigned(x, j)
           /\ j > i - 1 => x.ml["mipi"][j].plane = NoPlane
           /\ s.ml["mipi"][j].kind = "dim" => CompOf(x, "mipi", j) = CompOf(s, "mipi", j)
  BY DEF AssignedTo
<1>3. x \in States /\ Sound(x) /\ i \in DOMAIN x.ml["mipi"] /\ x.ml["mipi"][i].plane = NoPlane
  BY <1>1, <1>2 DEF Keeps, Shape
<1>4. Keeps(x, t) /\ Local(x, t, "mipi", i) /\ Assigned(t, i)
      /\ (x.ml["mipi"][i].kind = "dim" => t = x)
  BY <1>3, AssignStep
<1>5. /\ DOMAIN t.ml["mipi"] = DOMAIN x.ml["mipi"] /\ Len(t.ml["mipi"]) = Len(x.ml["mipi"])
      /\ \A j \in DOMAIN x.ml["mipi"] :
           /\ t.ml["mipi"][j].kind = x.ml["mipi"][j].kind
           /\ j # i => /\ t.ml["mipi"][j].plane = x.ml["mipi"][j].plane
                       /\ CompOf(t, "mipi", j) = CompOf(x, "mipi", j)
  BY <1>1, <1>4 DEF Local
<1>6. Keeps(s, t)
  BY <1>2, <1>4, KeepsOn
<1>7. Shape(s, t)
  BY <1>2, <1>5 DEF Shape
<1>8. ASSUME NEW j \in DOMAIN s.ml["mipi"]
      PROVE  /\ j <= i => Assigned(t, j)
             /\ j > i => t.ml["mipi"][j].plane = NoPlane
             /\ s.ml["mipi"][j].kind = "dim" => CompOf(t, "mipi", j) = CompOf(s, "mipi", j)
  <2>0. j \in DOMAIN x.ml["mipi"] /\ x.ml["mipi"][j].kind = s.ml["mipi"][j].kind
    BY <1>2 DEF Shape
  <2>1. CASE j = i
    BY <1>1, <1>2, <1>4, <2>0, <2>1
  <2>2. CASE j # i
    <3>1. /\ t.ml["mipi"][j].kind = x.ml["mipi"][j].kind
          /\ t.ml["mipi"][j].plane = x.ml["mipi"][j].plane
          /\ CompOf(t, "mipi", j) = CompOf(x, "mipi", j)
      BY <1>5, <2>0, <2>2
    <3>2. j <= i => Assigned(x, j)
      BY <1>1, <1>2, <2>2
    <3>3. j > i => j > i - 1
      BY <1>1
    <3> QED
      BY <1>2, <3>1, <3>2, <3>3 DEF Assigned
  <2> QED
    BY <2>1, <2>2
<1> QED
  BY <1>6, <1>7, <1>8 DEF AssignedTo

LEMMA AssignPlanesFacts ==
  ASSUME NEW s \in States, Sound(s), Sprites = {},
         \A j \in DOMAIN s.ml["mipi"] : s.ml["mipi"][j].plane = NoPlane
  PROVE  AssignedTo(s, AssignPlanes(s), Len(s.ml["mipi"]))
<1> DEFINE n == Len(s.ml["mipi"])
           Loop(f) == [i \in 0..n |-> IF i = 0 THEN s ELSE AssignPlane(f[i - 1], i)]
           assigned == CHOOSE f : f = Loop(f)
           G == [i \in 0..n |-> {x \in States : AssignedTo(s, x, i)}]
           T == [y \in (1..n) \X States |->
                   IF AssignPlane(y[2], y[1]) \in States THEN AssignPlane(y[2], y[1]) ELSE s]
<1>1. AssignPlanes(s) = assigned[n]
  BY DEF AssignPlanes
<1>2. n \in Nat /\ DOMAIN s.ml["mipi"] = 1..n
  BY Layer DEF Displays
<1> HIDE DEF n
<1>3. s \in States /\ AssignedTo(s, s, 0)
  BY <1>2, Reflexive DEF AssignedTo, Shape
<1>4. ASSUME NEW i \in 1..n, NEW x, AssignedTo(s, x, i - 1)
      PROVE  AssignPlane(x, i) \in States /\ AssignedTo(s, AssignPlane(x, i), i)
  <2>1. AssignedTo(s, AssignPlane(x, i), i)
    BY <1>2, <1>4, AssignedStep
  <2> QED
    BY <2>1 DEF AssignedTo, Keeps
<1>5. /\ G \in [0..n -> SUBSET States]
      /\ \A i \in 0..n, x \in States : x \in G[i] <=> AssignedTo(s, x, i)
  OBVIOUS
<1>6. /\ T \in [(1..n) \X States -> States]
      /\ \A i \in 1..n, x \in States :
           AssignPlane(x, i) \in States => T[<<i, x>>] = AssignPlane(x, i)
  BY <1>3
<1> HIDE DEF G, T
<1>7. PICK f \in [0..n -> States] :
        f[0] = s /\ \A i \in 1..n : f[i - 1] \in G[i - 1] /\ f[i] = T[<<i, f[i - 1]>>]
  <2>1. s \in G[0]
    BY <1>2, <1>3, <1>5
  <2>2. ASSUME NEW i \in 1..n, NEW x \in G[i - 1] PROVE T[<<i, x>>] \in G[i]
    <3>1. i \in 0..n /\ i - 1 \in 0..n
      BY <1>2
    <3>2. x \in States /\ AssignedTo(s, x, i - 1)
      BY <1>5, <3>1
    <3> QED
      BY <1>4, <1>5, <1>6, <3>1, <3>2
  <2>3. Leads(n, G, T)
    BY <2>2 DEF Leads
  <2>4. n \in Nat /\ G \in [0..n -> SUBSET States] /\ T \in [(1..n) \X States -> States]
    BY <1>2, <1>5, <1>6
  <2>5. PICK f \in [0..n -> States] : Follows(f, s, T, n) /\ Within(f, n, G)
    BY <2>1, <2>3, <2>4, LoopExists
  <2> QED
    BY <2>5 DEF Follows, Within
<1>8. f = Loop(f)
  <2>1. ASSUME NEW i \in 1..n PROVE f[i] = AssignPlane(f[i - 1], i)
    <3>1. f[i - 1] \in G[i - 1] /\ f[i] = T[<<i, f[i - 1]>>]
      BY <1>7
    <3>2. i - 1 \in 0..n
      BY <1>2
    <3>3. f[i - 1] \in States /\ AssignedTo(s, f[i - 1], i - 1)
      BY <1>5, <3>1, <3>2
    <3> QED
      BY <1>4, <1>6, <3>1, <3>3
  <2> QED
    BY <1>2, <1>7, <2>1
<1>9. assigned = Loop(assigned)
  BY <1>8
<1> HIDE DEF assigned
<1> DEFINE good == {i \in 0..n : AssignedTo(s, assigned[i], i)}
<1>10. 0 \in good
  <2>1. Loop(assigned)[0] = s /\ 0 \in 0..n
    BY <1>2
  <2> QED
    BY <1>3, <1>9, <2>1
<1>11. ASSUME NEW i \in 1..n, i - 1 \in good PROVE i \in good
  <2>1. Loop(assigned)[i] = AssignPlane(assigned[i - 1], i)
    BY <1>2
  <2> HIDE DEF Loop
  <2> QED
    BY <1>4, <1>9, <1>11, <2>1
<1> HIDE DEF good
<1>12. 0..n \subseteq good
  BY <1>2, <1>10, <1>11, CountingUp
<1>13. n \in good
  BY <1>2, <1>12
<1> QED
  BY <1>1, <1>13 DEF good, n

\* After the first pass over the panel's list.
LEMMA AssignedSettled ==
  ASSUME NEW s \in States, Composing(s), NEW a, AssignedTo(s, a, Len(s.ml["mipi"]))
  PROVE  Settled(a, 0)
<1>1. DOMAIN s.ml["mipi"] = 1..Len(s.ml["mipi"]) /\ Len(s.ml["mipi"]) \in Nat
  BY Layer DEF Displays
<1>2. /\ Shape(s, a)
      /\ \A j \in DOMAIN s.ml["mipi"] :
           /\ Assigned(a, j)
           /\ s.ml["mipi"][j].kind = "dim" => CompOf(a, "mipi", j) = CompOf(s, "mipi", j)
  BY <1>1 DEF AssignedTo
<1>3. Composing(a)
  BY <1>2 DEF Composing, Assigned, Shape
<1>4. Planed(a, Len(a.ml["mipi"]))
  BY <1>2 DEF Planed, NoDim, Assigned, Shape
<1>5. Covered(a, 0)
  BY <1>1, <1>2 DEF Covered, Shape
<1> QED
  BY <1>3, <1>4, <1>5 DEF Settled

-----------------------------------------------------------------------------
(* revisitLayerList, layer by layer.                                        *)

\* The panel's lists are not touched.
Aside(s, t) == t.ml["mipi"] = s.ml["mipi"] /\ t.sf["mipi"] = s.sf["mipi"]

LEMMA AsideLists ==
  ASSUME NEW s, NEW t, Aside(s, t)
  PROVE  (Listed(s) => Listed(t)) /\ (Suited(s) => Suited(t))
<1>1. t.ml["mipi"] = s.ml["mipi"] /\ t.sf["mipi"] = s.sf["mipi"]
  BY DEF Aside
<1>2. Listed(s) => Listed(t)
  BY <1>1 DEF Listed
<1>3. \A i : SuitedLayer(s, i) => SuitedLayer(t, i)
  BY <1>1 DEF SuitedLayer, CompOf
<1> QED
  BY <1>1, <1>2, <1>3 DEF Suited

Lengths(s, t) == \A e \in Displays : DOMAIN t.ml[e] = DOMAIN s.ml[e] /\ Len(t.ml[e]) = Len(s.ml[e])

LEMMA LocalShape ==
  ASSUME NEW s, NEW t, NEW d \in Displays, NEW i, Local(s, t, d, i)
  PROVE  Lengths(s, t) /\ Shape(s, t) /\ (d = "hdmi" => Aside(s, t))
BY DEF Local, Lengths, Shape, Aside, Displays

LEMMA ShapeOn ==
  ASSUME NEW s, NEW t, NEW u, Lengths(s, t), Shape(s, t), Lengths(t, u), Shape(t, u)
  PROVE  Lengths(s, u) /\ Shape(s, u)
<1>1. Lengths(s, u)
  BY DEF Lengths
<1>2. Shape(s, u)
  BY DEF Shape
<1> QED
  BY <1>1, <1>2

\* The first i layers of display d are looked at again.
RevisitedTo(s, x, d, i) ==
  /\ Keeps(s, x) /\ Lengths(s, x) /\ Shape(s, x)
  /\ d = "hdmi" => Aside(s, x)
  /\ d = "mipi" => (Settled(s, 0) => Settled(x, i))

LEMMA RevisitLayerStep ==
  ASSUME NEW s \in States, Sound(s), Sprites = {}, NEW d \in Displays, NEW i \in DOMAIN s.ml[d],
         NEW t, t = RevisitLayer(s, d, i)
  PROVE  Keeps(s, t) /\ Local(s, t, d, i)
         /\ (d = "mipi" => (Settled(s, i - 1) => Settled(t, i)))
<1> DEFINE u == IF s.ml[d][i].kind = "prot" THEN SetComp(s, d, i, "overlay") ELSE s
<1>1. t = IF ~IsHWCLayer(s.ml[d][i].kind) THEN s ELSE IF d = "mipi" THEN TryPrimary(u, i) ELSE u
  BY DEF RevisitLayer
<1>2. DOMAIN s.ml[d] = 1..Len(s.ml[d]) /\ Len(s.ml[d]) \in Nat
  BY Layer
<1>3. CASE ~IsHWCLayer(s.ml[d][i].kind)
  <2>1. t = s
    BY <1>1, <1>3
  <2>2. ASSUME d = "mipi", Settled(s, i - 1) PROVE Settled(s, i)
    <3>1. SuitedLayer(s, i) /\ s.ml["mipi"][i].kind = "dim"
      BY <1>3, <2>2 DEF Sound, Suited, IsHWCLayer
    <3>2. s.ml["mipi"][i].plane.type # "primary"
      BY <3>1 DEF SuitedLayer, IsSprite
    <3>3. Covered(s, i)
      BY <1>2, <2>2, <3>2 DEF Settled, Covered
    <3> QED
      BY <2>2, <3>3 DEF Settled
  <2> QED
    BY <2>1, <2>2, Reflexive
<1>4. Keeps(s, u) /\ Local(s, u, d, i) /\ (d = "mipi" => (Settled(s, i - 1) => Settled(u, i - 1)))
  <2>1. CASE s.ml[d][i].kind = "prot"
    <3>1. u = SetComp(s, d, i, "overlay") /\ "overlay" \in Comps
      BY <2>1 DEF Comps
    <3> HIDE DEF u
    <3>2. /\ Keeps(s, u) /\ Local(s, u, d, i) /\ u.ml = s.ml
          /\ d = "mipi" => CompOf(u, "mipi", i) = "overlay"
      BY <3>1, CompStep
    <3>3. ASSUME d = "mipi", Settled(s, i - 1) PROVE Settled(u, i - 1)
      <4>1. \A j \in DOMAIN s.ml["mipi"] : j # i => CompOf(u, "mipi", j) = CompOf(s, "mipi", j)
        BY <3>2 DEF Local
      <4>2. Composing(u)
        BY <2>1, <3>2, <3>3, <4>1 DEF Settled, Composing
      <4>3. Planed(u, Len(u.ml["mipi"]))
        BY <2>1, <3>2, <3>3, <4>1 DEF Settled, Planed, NoDim, Yuv
      <4>4. Covered(u, i - 1)
        BY <3>2, <3>3, <4>1 DEF Settled, Covered
      <4> QED
        BY <4>2, <4>3, <4>4 DEF Settled
    <3> QED
      BY <3>2, <3>3
  <2>2. CASE s.ml[d][i].kind # "prot"
    BY <2>2, Reflexive
  <2> QED
    BY <2>1, <2>2
<1> HIDE DEF u
<1>5. CASE IsHWCLayer(s.ml[d][i].kind) /\ d = "mipi"
  <2>1. u \in States /\ Sound(u) /\ i \in DOMAIN u.ml["mipi"] /\ t = TryPrimary(u, i)
    BY <1>1, <1>4, <1>5 DEF Keeps, Local
  <2>2. /\ Keeps(u, t) /\ Local(u, t, "mipi", i)
        /\ Settled(u, i - 1) => Settled(t, i)
    BY <2>1, TryPrimaryStep
  <2> QED
    BY <1>4, <1>5, <2>2, KeepsOn, LocalOn
<1>6. CASE IsHWCLayer(s.ml[d][i].kind) /\ d # "mipi"
  BY <1>1, <1>4, <1>6
<1> QED
  BY <1>3, <1>5, <1>6

LEMMA RevisitedStep ==
  ASSUME NEW s \in States, Sprites = {}, NEW d \in Displays, NEW i \in DOMAIN s.ml[d], NEW x,
         RevisitedTo(s, x, d, i - 1), NEW t, t = RevisitLayer(x, d, i)
  PROVE  RevisitedTo(s, t, d, i)
<1>1. x \in States /\ Sound(x) /\ i \in DOMAIN x.ml[d]
  BY DEF RevisitedTo, Keeps, Lengths
<1>2. Keeps(x, t) /\ Local(x, t, d, i) /\ (d = "mipi" => (Settled(x, i - 1) => Settled(t, i)))
  BY <1>1, RevisitLayerStep
<1>3. Lengths(x, t) /\ Shape(x, t) /\ (d = "hdmi" => Aside(x, t))
  BY <1>2, LocalShape
<1>4. Keeps(s, t) /\ Lengths(s, t) /\ Shape(s, t)
  BY <1>2, <1>3, KeepsOn, ShapeOn DEF RevisitedTo
<1>5. d = "hdmi" => Aside(s, t)
  BY <1>3 DEF RevisitedTo, Aside
<1> QED
  BY <1>2, <1>4, <1>5 DEF RevisitedTo

LEMMA RevisitFacts ==
  ASSUME NEW s \in States, Sound(s), Sprites = {}, NEW d \in Displays
  PROVE  RevisitedTo(s, Revisit(s, d), d, Len(s.ml[d]))
<1> DEFINE n == Len(s.ml[d])
           Loop(f) == [i \in 0..n |-> IF i = 0 THEN s ELSE RevisitLayer(f[i - 1], d, i)]
           revisited == CHOOSE f : f = Loop(f)
           G == [i \in 0..n |-> {x \in States : RevisitedTo(s, x, d, i)}]
           T == [y \in (1..n) \X States |->
                   IF RevisitLayer(y[2], d, y[1]) \in States THEN RevisitLayer(y[2], d, y[1]) ELSE s]
<1>1. Revisit(s, d) = revisited[n]
  BY DEF Revisit
<1>2. n \in Nat /\ DOMAIN s.ml[d] = 1..n
  BY Layer
<1> HIDE DEF n
<1>3. s \in States /\ RevisitedTo(s, s, d, 0)
  BY <1>2, Reflexive DEF RevisitedTo, Lengths, Shape, Aside
<1>4. ASSUME NEW i \in 1..n, NEW x, RevisitedTo(s, x, d, i - 1)
      PROVE  RevisitLayer(x, d, i) \in States /\ RevisitedTo(s, RevisitLayer(x, d, i), d, i)
  <2>1. RevisitedTo(s, RevisitLayer(x, d, i), d, i)
    BY <1>2, <1>4, RevisitedStep
  <2> QED
    BY <2>1 DEF RevisitedTo, Keeps
<1>5. /\ G \in [0..n -> SUBSET States]
      /\ \A i \in 0..n, x \in States : x \in G[i] <=> RevisitedTo(s, x, d, i)
  OBVIOUS
<1>6. /\ T \in [(1..n) \X States -> States]
      /\ \A i \in 1..n, x \in States :
           RevisitLayer(x, d, i) \in States => T[<<i, x>>] = RevisitLayer(x, d, i)
  BY <1>3
<1> HIDE DEF G, T
<1>7. PICK f \in [0..n -> States] :
        f[0] = s /\ \A i \in 1..n : f[i - 1] \in G[i - 1] /\ f[i] = T[<<i, f[i - 1]>>]
  <2>1. s \in G[0]
    BY <1>2, <1>3, <1>5
  <2>2. ASSUME NEW i \in 1..n, NEW x \in G[i - 1] PROVE T[<<i, x>>] \in G[i]
    <3>1. i \in 0..n /\ i - 1 \in 0..n
      BY <1>2
    <3>2. x \in States /\ RevisitedTo(s, x, d, i - 1)
      BY <1>5, <3>1
    <3> QED
      BY <1>4, <1>5, <1>6, <3>1, <3>2
  <2>3. Leads(n, G, T)
    BY <2>2 DEF Leads
  <2>4. n \in Nat /\ G \in [0..n -> SUBSET States] /\ T \in [(1..n) \X States -> States]
    BY <1>2, <1>5, <1>6
  <2>5. PICK f \in [0..n -> States] : Follows(f, s, T, n) /\ Within(f, n, G)
    BY <2>1, <2>3, <2>4, LoopExists
  <2> QED
    BY <2>5 DEF Follows, Within
<1>8. f = Loop(f)
  <2>1. ASSUME NEW i \in 1..n PROVE f[i] = RevisitLayer(f[i - 1], d, i)
    <3>1. f[i - 1] \in G[i - 1] /\ f[i] = T[<<i, f[i - 1]>>]
      BY <1>7
    <3>2. i - 1 \in 0..n
      BY <1>2
    <3>3. f[i - 1] \in States /\ RevisitedTo(s, f[i - 1], d, i - 1)
      BY <1>5, <3>1, <3>2
    <3> QED
      BY <1>4, <1>6, <3>1, <3>3
  <2> QED
    BY <1>2, <1>7, <2>1
<1>9. revisited = Loop(revisited)
  BY <1>8
<1> HIDE DEF revisited
<1> DEFINE good == {i \in 0..n : RevisitedTo(s, revisited[i], d, i)}
<1>10. 0 \in good
  <2>1. Loop(revisited)[0] = s /\ 0 \in 0..n
    BY <1>2
  <2> QED
    BY <1>3, <1>9, <2>1
<1>11. ASSUME NEW i \in 1..n, i - 1 \in good PROVE i \in good
  <2>1. Loop(revisited)[i] = RevisitLayer(revisited[i - 1], d, i)
    BY <1>2
  <2> HIDE DEF Loop
  <2> QED
    BY <1>4, <1>9, <1>11, <2>1
<1> HIDE DEF good
<1>12. 0..n \subseteq good
  BY <1>2, <1>10, <1>11, CountingUp
<1>13. n \in good
  BY <1>2, <1>12
<1> QED
  BY <1>1, <1>13 DEF good, n

-----------------------------------------------------------------------------
(* Reclaimed planes, and new lists.                                         *)

\* A step that moves indices between the bitmaps of a pool.
LEMMA SameSpare ==
  ASSUME NEW s, NEW t, Accounted(s), t.ml = s.ml,
         \A k \in Pools : Spare(t, k) = Spare(s, k) /\ t.free[k] \cap t.recl[k] = {}
  PROVE  Accounted(t)
<1>1. Spots(t) = Spots(s) /\ \A x : PlaneAt(t, x) = PlaneAt(s, x)
  BY DEF Spots, PlaneAt
<1> QED
  BY <1>1 DEF Accounted

\* disableReclaimedPlanes: the reclaimed indices of a pool are free.
LEMMA Reclaiming ==
  ASSUME NEW s \in States, Accounted(s), NEW k \in Pools, NEW t, t = DisableReclaimed(s, k)
  PROVE  /\ t \in States /\ Accounted(t)
         /\ t.free[k] = s.free[k] \cup s.recl[k] /\ \A e \in Pools : e # k => t.free[e] = s.free[e]
         /\ t.lit = s.lit /\ t.mapped = s.mapped /\ t.pipe = s.pipe
         /\ t.flip = s.flip /\ t.hw = s.hw /\ t.ml = s.ml /\ t.sf = s.sf /\ Rest(t) = Rest(s)
<1> DEFINE v == [s.free EXCEPT ![k] = s.free[k] \cup s.recl[k]]
           w == [s.recl EXCEPT ![k] = {}]
<1>1. s.free \in Bitmaps /\ s.recl \in Bitmaps
  BY Fields
<1>2. v \in Bitmaps /\ v[k] = s.free[k] \cup s.recl[k] /\ \A e \in Pools : e # k => v[e] = s.free[e]
  BY <1>1 DEF Bitmaps
<1>3. w \in Bitmaps /\ w[k] = {} /\ \A e \in Pools : e # k => w[e] = s.recl[e]
  BY <1>1 DEF Bitmaps
<1>4. t = WithBitmaps(s, v, w)
  BY DEF DisableReclaimed, WithBitmaps, States
<1> HIDE DEF v, w
<1>5. /\ t \in States /\ t.free = v /\ t.recl = w
      /\ t.lit = s.lit /\ t.mapped = s.mapped /\ t.pipe = s.pipe
      /\ t.flip = s.flip /\ t.hw = s.hw /\ t.ml = s.ml /\ t.sf = s.sf /\ Rest(t) = Rest(s)
  BY <1>2, <1>3, <1>4, SetBitmaps
<1>6. \A e \in Pools : Spare(t, e) = Spare(s, e) /\ t.free[e] \cap t.recl[e] = {}
  BY <1>2, <1>3, <1>5 DEF Spare, Accounted
<1>7. Accounted(t)
  BY <1>5, <1>6, SameSpare
<1> QED
  BY <1>2, <1>5, <1>7

\* For the planes that are not overlays nothing else happens.
LEMMA ReclaimStep ==
  ASSUME NEW s \in States, Sound(s), NEW k \in Pools, k # "overlay", NEW t, t = DisableReclaimed(s, k)
  PROVE  Keeps(s, t) /\ t.ml = s.ml /\ t.sf = s.sf
<1>1. /\ t \in States /\ Accounted(t)
      /\ t.free[k] = s.free[k] \cup s.recl[k] /\ \A e \in Pools : e # k => t.free[e] = s.free[e]
      /\ t.lit = s.lit /\ t.mapped = s.mapped /\ t.pipe = s.pipe
      /\ t.flip = s.flip /\ t.hw = s.hw /\ t.ml = s.ml /\ t.sf = s.sf /\ Rest(t) = Rest(s)
  BY Reclaiming DEF Sound
<1>2. t.free["overlay"] = s.free["overlay"]
  BY <1>1 DEF Pools
<1>3. Shown(t) /\ Flipped(t) /\ (Piped(s) => Piped(t))
  BY <1>1, <1>2 DEF Sound, Shown, Flipped, Piped
<1>4. Listed(t) /\ Suited(t)
  BY <1>1 DEF Sound, Listed, Suited, SuitedLayer, CompOf
<1> QED
  BY <1>1, <1>3, <1>4 DEF Keeps, Sound

\* Planes that are switched off and unmapped.
LEMMA DarkenStep ==
  ASSUME NEW s \in States, Shown(s), NEW P, NEW t, t = Darken(s, P)
  PROVE  /\ t \in States /\ Shown(t) /\ t.free = s.free /\ t.recl = s.recl
         /\ t.mapped = s.mapped \ P
         /\ t.pipe = s.pipe /\ t.flip = s.flip /\ t.ml = s.ml /\ t.sf = s.sf /\ Rest(t) = Rest(s)
<1> DEFINE l == s.lit \ P
           m == s.mapped \ P
           h == [i \in Overlays |-> IF \E p \in P \cap s.lit : p.i = i THEN Dark ELSE s.hw[i]]
<1>1. l \in Blocks /\ m \in Blocks
  BY Fields DEF Blocks
<1>2. h \in Shows
  <2>1. s.hw \in Shows
    BY Fields
  <2> QED
    BY <2>1 DEF Shows, Flips
<1>3. t = WithBlocks(s, l, m, h)
  BY DEF Darken, WithBlocks, States
<1>4. \A i \in Overlays : h[i] # Dark => h[i] = s.hw[i] /\ \A p \in P \cap s.lit : p.i # i
  OBVIOUS
<1> HIDE DEF l, m, h
<1>5. /\ t \in States /\ t.free = s.free /\ t.recl = s.recl
      /\ t.lit = l /\ t.mapped = m /\ t.pipe = s.pipe
      /\ t.flip = s.flip /\ t.hw = h /\ t.ml = s.ml /\ t.sf = s.sf /\ Rest(t) = Rest(s)
  BY <1>1, <1>2, <1>3, SetBlocks
<1>6. Shown(t)
  <2>1. ASSUME NEW i \in Overlays, t.hw[i] # Dark PROVE t.hw[i].plane \in t.lit /\ t.hw[i].plane.i = i
    <3>1. s.hw[i] # Dark /\ t.hw[i] = s.hw[i] /\ \A p \in P \cap s.lit : p.i # i
      BY <1>4, <1>5, <2>1
    <3>2. s.hw[i].plane \in s.lit /\ s.hw[i].plane.i = i
      BY <3>1 DEF Shown
    <3> QED
      BY <1>5, <3>1, <3>2 DEF l
  <2>2. t.lit \subseteq t.mapped /\ \A p \in t.mapped : p.i \notin t.free["overlay"]
    BY <1>5 DEF Shown, l, m
  <2> QED
    BY <1>5, <2>1, <2>2 DEF Shown
<1> QED
  BY <1>5, <1>6 DEF m

\* A record whose lists are those of another has its layers listed and suited as there.
LEMMA SameLists ==
  ASSUME NEW s, NEW t, t.ml = s.ml, t.sf = s.sf
  PROVE  /\ Listed(s) => Listed(t)
         /\ Suited(s) => Suited(t)
         /\ Composing(s) => Composing(t)
         /\ \A n : Planed(s, n) => Planed(t, n)
         /\ \A n : Covered(s, n) => Covered(t, n)
BY DEF Listed, Suited, SuitedLayer, CompOf, Composing, Planed, NoDim, Covered

\* disableReclaimedPlanes of overlays: nothing that is free stays mapped.
LEMMA ReclaimOverlays ==
  ASSUME NEW s \in States, Accounted(s), Shown(s), NEW t, t = DisableReclaimedOverlays(s)
  PROVE  /\ t \in States /\ Accounted(t) /\ Shown(t)
         /\ t.pipe = s.pipe /\ t.flip = s.flip /\ t.ml = s.ml /\ t.sf = s.sf /\ Rest(t) = Rest(s)
<1>1. CASE s.recl["overlay"] = {}
  BY <1>1 DEF DisableReclaimedOverlays
<1>2. CASE s.recl["overlay"] # {}
  <2> DEFINE P == [type : {"ov"}, i : s.recl["overlay"]] \cup [type : {"rgb"}, i : Overlays]
             u == Darken(s, P)
  <2>1. /\ u \in States /\ Shown(u) /\ u.free = s.free /\ u.recl = s.recl
        /\ u.mapped = s.mapped \ P
        /\ u.pipe = s.pipe /\ u.flip = s.flip /\ u.ml = s.ml /\ u.sf = s.sf /\ Rest(u) = Rest(s)
    <3> HIDE DEF P
    <3> QED
      BY DarkenStep
  <2>2. t = DisableReclaimed(u, "overlay")
    BY <1>2, <2>1 DEF DisableReclaimedOverlays, DisableReclaimed
  <2>3. \A p \in u.mapped : p.i \notin s.recl["overlay"]
    <3>1. s.mapped \subseteq OverlayPlanes
      BY Fields DEF Blocks
    <3>2. ASSUME NEW p \in OverlayPlanes, p \notin P PROVE p.i \notin s.recl["overlay"]
      BY <3>2 DEF OverlayPlanes
    <3> HIDE DEF P
    <3> QED
      BY <2>1, <3>1, <3>2
  <2> HIDE DEF u, P
  <2>4. Accounted(u)
    BY <2>1, SameSpare DEF Accounted, Spare
  <2>5. "overlay" \in Pools
    BY DEF Pools
  <2>6. /\ t \in States /\ Accounted(t)
        /\ t.free["overlay"] = u.free["overlay"] \cup u.recl["overlay"]
        /\ t.lit = u.lit /\ t.mapped = u.mapped /\ t.pipe = u.pipe
        /\ t.flip = u.flip /\ t.hw = u.hw /\ t.ml = u.ml /\ t.sf = u.sf /\ Rest(t) = Rest(u)
    BY <2>1, <2>2, <2>4, <2>5, Reclaiming
  <2>7. Shown(t)
    BY <2>1, <2>3, <2>6 DEF Shown
  <2> QED
    BY <2>1, <2>6, <2>7
<1> QED
  BY <1>1, <1>2

\* A display's planes are given back and its list is a new one.
Back(s, d, k) == {p.i : p \in {q \in Attached(s, d) : PoolOf(q) = k}}

LEMMA RenewStep ==
  ASSUME NEW s \in States, Accounted(s), Sprites = {}, NEW d \in Displays, NEW fresh \in Seq(Lays),
         \A i \in DOMAIN fresh : fresh[i].plane = NoPlane, NEW t, t = Renew(s, d, fresh)
  PROVE  /\ t \in States /\ Accounted(t)
         /\ t.ml[d] = fresh /\ \A e \in Displays : e # d => t.ml[e] = s.ml[e]
         /\ t.free = s.free /\ t.lit = s.lit /\ t.mapped = s.mapped /\ t.pipe = s.pipe
         /\ t.flip = s.flip /\ t.hw = s.hw /\ t.sf = s.sf /\ Rest(t) = Rest(s)
<1> DEFINE v == [k \in Pools |-> s.recl[k] \cup Back(s, d, k)]
           m == [s.ml EXCEPT ![d] = fresh]
           u == [s EXCEPT !.recl = v]
\* What is given back is what the display's layers held.
<1>1. ASSUME NEW k, NEW i
      PROVE  i \in Back(s, d, k) <=> \E x \in Spots(s) : x[1] = d /\ IsPlane(PlaneAt(s, x), k, i)
  <2>1. ASSUME i \in Back(s, d, k)
        PROVE  \E x \in Spots(s) : x[1] = d /\ IsPlane(PlaneAt(s, x), k, i)
    <3>1. PICK j \in DOMAIN s.ml[d] : /\ s.ml[d][j].plane # NoPlane
                                      /\ PoolOf(s.ml[d][j].plane) = k /\ s.ml[d][j].plane.i = i
      BY <2>1 DEF Back, Attached, Layers
    <3> QED
      BY <3>1, SpotAt DEF IsPlane
  <2>2. ASSUME NEW x \in Spots(s), x[1] = d, IsPlane(PlaneAt(s, x), k, i) PROVE i \in Back(s, d, k)
    <3>1. x[2] \in DOMAIN s.ml[d] /\ s.ml[d][x[2]].plane # NoPlane /\ PlaneAt(s, x) = s.ml[d][x[2]].plane
      BY <2>2 DEF Spots, PlaneAt
    <3> QED
      BY <2>2, <3>1 DEF Back, Attached, Layers, IsPlane
  <2> QED
    BY <2>1, <2>2
<1>2. ASSUME NEW k \in Pools PROVE Back(s, d, k) \subseteq Indices[k] /\ Back(s, d, k) \subseteq 0..31
  <2>1. ASSUME NEW i \in Back(s, d, k) PROVE i \in Indices[k] /\ i \in 0..31
    <3>1. PICK x \in Spots(s) : IsPlane(PlaneAt(s, x), k, i)
      BY <1>1
    <3>2. PlaneAt(s, x) \in Planes
      BY SpotFacts
    <3> QED
      BY <3>1, <3>2, PlaneIsKnown
  <2> QED
    BY <2>1
<1>3. v \in Bitmaps
  <2>1. s.recl \in Bitmaps
    BY Fields
  <2> QED
    BY <1>2, <2>1 DEF Bitmaps
<1>4. \A k \in Pools : v[k] = s.recl[k] \cup Back(s, d, k)
  OBVIOUS
<1>5. m \in LayLists /\ m[d] = fresh /\ \A e \in Displays : e # d => m[e] = s.ml[e]
  BY Fields DEF LayLists
<1>6. t = [u EXCEPT !.ml = m]
  BY DEF Renew, Back
<1> HIDE DEF v, m
<1>7. /\ u \in States /\ u.free = s.free /\ u.recl = v
      /\ u.lit = s.lit /\ u.mapped = s.mapped /\ u.pipe = s.pipe
      /\ u.flip = s.flip /\ u.hw = s.hw /\ u.ml = s.ml /\ u.sf = s.sf /\ Rest(u) = Rest(s)
  BY <1>3, SetRecl
<1> HIDE DEF u
<1>8. /\ t \in States /\ t.free = u.free /\ t.recl = u.recl
      /\ t.lit = u.lit /\ t.mapped = u.mapped /\ t.pipe = u.pipe
      /\ t.flip = u.flip /\ t.hw = u.hw /\ t.ml = m /\ t.sf = u.sf /\ Rest(t) = Rest(u)
  BY <1>5, <1>6, <1>7, SetMl
<1>9. ASSUME NEW x PROVE x \in Spots(t) <=> x \in Spots(s) /\ x[1] # d
  BY <1>5, <1>8 DEF Spots
<1>10. \A x \in Spots(t) : PlaneAt(t, x) = PlaneAt(s, x)
  BY <1>5, <1>8, <1>9 DEF Spots, PlaneAt
<1>11. \A k \in Pools : Spare(t, k) = Spare(s, k) \cup Back(s, d, k)
  BY <1>4, <1>7, <1>8 DEF Spare
<1>12. Accounted(t)
  <2>1. ASSUME NEW k \in Pools, NEW i \in Back(s, d, k)
        PROVE  /\ i \notin Spare(s, k)
               /\ \A y \in Spots(s) : IsPlane(PlaneAt(s, y), k, i) => y[1] = d
    <3>1. PICK x \in Spots(s) : x[1] = d /\ IsPlane(PlaneAt(s, x), k, i)
      BY <1>1
    <3>2. i \in 0..31
      BY <1>2
    <3> QED
      BY <3>1, <3>2 DEF Accounted
  <2>2. \A k \in Pools : t.free[k] \cap t.recl[k] = {}
    BY <1>4, <1>7, <1>8, <2>1 DEF Accounted, Spare
  <2>3. ASSUME NEW k \in Pools, NEW i \in Indices[k], i \notin Spare(t, k)
        PROVE  \E x \in Spots(t) : IsPlane(PlaneAt(t, x), k, i)
    <3>1. i \notin Spare(s, k) /\ i \notin Back(s, d, k)
      BY <1>11, <2>3
    <3>2. PICK x \in Spots(s) : IsPlane(PlaneAt(s, x), k, i)
      BY <3>1 DEF Accounted
    <3>3. x[1] # d
      BY <1>1, <3>1, <3>2
    <3> QED
      BY <1>9, <1>10, <3>2, <3>3
  <2>4. ASSUME NEW k \in Pools, NEW i \in 0..31, NEW x \in Spots(t), IsPlane(PlaneAt(t, x), k, i)
        PROVE  /\ i \notin Spare(t, k)
               /\ \A y \in Spots(t) : IsPlane(PlaneAt(t, y), k, i) => x = y
    <3>1. x \in Spots(s) /\ x[1] # d /\ IsPlane(PlaneAt(s, x), k, i)
      BY <1>9, <1>10, <2>4
    <3>2. /\ i \notin Spare(s, k)
          /\ \A y \in Spots(s) : IsPlane(PlaneAt(s, y), k, i) => x = y
      BY <3>1 DEF Accounted
    <3>3. i \notin Back(s, d, k)
      BY <2>1, <3>1
    <3> QED
      BY <1>9, <1>10, <1>11, <3>2, <3>3
  <2> QED
    BY <2>2, <2>3, <2>4 DEF Accounted
<1> QED
  BY <1>5, <1>7, <1>8, <1>12

-----------------------------------------------------------------------------
(* The flags of a record.                                                   *)

\* What is kept of the invariant while lists are changed.
Based(s) == Accounted(s) /\ Shown(s) /\ Flipped(s)

\* The invariant looks at the planes and the lists only.
LEMMA SameCore ==
  ASSUME NEW s, NEW t, Core(t) = Core(s)
  PROVE  /\ Based(s) => Based(t)
         /\ Sound(s) => Sound(t)
         /\ Piped(s) => Piped(t)
         /\ \A n : Settled(s, n) => Settled(t, n)
         /\ Plain(s) => Plain(t)
         /\ t.ml = s.ml /\ t.sf = s.sf /\ t.recl = s.recl /\ t.pipe = s.pipe
<1>1. /\ t.free = s.free /\ t.recl = s.recl /\ t.lit = s.lit /\ t.mapped = s.mapped /\ t.pipe = s.pipe
      /\ t.flip = s.flip /\ t.hw = s.hw /\ t.ml = s.ml /\ t.sf = s.sf
  BY DEF Core
<1>2. Accounted(s) => Accounted(t)
  BY <1>1, SameSpare DEF Spare, Accounted
<1>3. Shown(s) => Shown(t)
  BY <1>1 DEF Shown
<1>4. (Flipped(s) => Flipped(t)) /\ (Piped(s) => Piped(t))
  BY <1>1 DEF Flipped, Piped
<1>5. /\ Listed(s) => Listed(t)
      /\ Suited(s) => Suited(t)
      /\ Composing(s) => Composing(t)
      /\ \A n : Planed(s, n) => Planed(t, n)
      /\ \A n : Covered(s, n) => Covered(t, n)
  BY <1>1, SameLists
<1> QED
  BY <1>1, <1>2, <1>3, <1>4, <1>5 DEF Based, Sound, Settled, Plain

LEMMA SetShot ==
  ASSUME NEW s \in States, NEW v \in BOOLEAN, NEW t, t = [s EXCEPT !.shot = v]
  PROVE  t \in States /\ Core(t) = Core(s) /\ t.hot = s.hot /\ t.gles = s.gles /\ t.blank = s.blank
BY DEF States, Core

LEMMA SetCount ==
  ASSUME NEW s \in States, NEW v \in Counts, NEW t, t = [s EXCEPT !.cnt = v]
  PROVE  t \in States /\ Core(t) = Core(s) /\ t.hot = s.hot /\ t.gles = s.gles /\ t.blank = s.blank
BY DEF States, Core

LEMMA ClearHot ==
  ASSUME NEW s \in States, NEW d \in Displays, NEW t, t = [s EXCEPT !.hot[d] = FALSE]
  PROVE  /\ t \in States /\ Core(t) = Core(s) /\ t.gles = s.gles /\ t.blank = s.blank
         /\ \A e \in Displays : e # d => t.hot[e] = s.hot[e]
<1> DEFINE f == [s.hot EXCEPT ![d] = FALSE]
<1>1. f \in Flags /\ \A e \in Displays : e # d => f[e] = s.hot[e]
  BY DEF States, Flags
<1>2. t = [s EXCEPT !.hot = f]
  OBVIOUS
<1> HIDE DEF f
<1> QED
  BY <1>1, <1>2 DEF States, Core

LEMMA SetSeek ==
  ASSUME NEW s \in States, NEW d \in Displays, NEW v \in BOOLEAN, NEW t, t = [s EXCEPT !.seek[d] = v]
  PROVE  t \in States /\ Core(t) = Core(s) /\ t.hot = s.hot /\ t.gles = s.gles /\ t.blank = s.blank
<1> DEFINE f == [s.seek EXCEPT ![d] = v]
<1>1. f \in Flags
  BY DEF States, Flags
<1>2. t = [s EXCEPT !.seek = f]
  OBVIOUS
<1> HIDE DEF f
<1> QED
  BY <1>1, <1>2 DEF States, Core

LEMMA SetPlayer ==
  ASSUME NEW s \in States, NEW v \in BOOLEAN, NEW t, t = [s EXCEPT !.player = v]
  PROVE  t \in States /\ Core(t) = Core(s) /\ t.hot = s.hot /\ t.gles = s.gles /\ t.blank = s.blank
BY DEF States, Core

LEMMA SetSkip ==
  ASSUME NEW s \in States, NEW v \in BOOLEAN, NEW t, t = [s EXCEPT !.skip = v]
  PROVE  /\ t \in States /\ Core(t) = Core(s) /\ t.hot = s.hot /\ t.gles = s.gles /\ t.blank = s.blank
         /\ t.hasSkip = s.hasSkip
BY DEF States, Core

WithGles(s, v, w) == [s EXCEPT !.gles = v, !.hasSkip = w]

LEMMA SetGles ==
  ASSUME NEW s \in States, NEW v \in BOOLEAN, NEW w \in BOOLEAN,
         NEW t, t = WithGles(s, v, w)
  PROVE  t \in States /\ Core(t) = Core(s) /\ t.hot = s.hot /\ t.blank = s.blank
BY DEF States, Core, WithGles

LEMMA TurnSkip ==
  ASSUME NEW s \in States, NEW t, t = [s EXCEPT !.skip = ~s.skip]
  PROVE  t \in States /\ Core(t) = Core(s) /\ t.hot = s.hot /\ t.gles = s.gles /\ t.blank = s.blank
BY DEF States, Core

\* Writing a composition type of HDMI's list, or none.
LEMMA HdmiComp ==
  ASSUME NEW s \in States, Sound(s), NEW i, NEW c \in Comps, NEW t, t = SetComp(s, "hdmi", i, c)
  PROVE  Keeps(s, t) /\ Aside(s, t) /\ t.ml = s.ml
<1>1. /\ t \in States /\ t.free = s.free /\ t.recl = s.recl
      /\ t.lit = s.lit /\ t.mapped = s.mapped /\ t.pipe = s.pipe
      /\ t.flip = s.flip /\ t.hw = s.hw /\ t.ml = s.ml /\ Rest(t) = Rest(s)
      /\ t.sf["mipi"] = s.sf["mipi"]
  BY CompSet DEF Displays
<1>2. Accounted(t)
  BY <1>1, SameBooks DEF Sound
<1>3. Shown(t) /\ Flipped(t) /\ (Piped(s) => Piped(t))
  BY <1>1 DEF Sound, Shown, Flipped, Piped
<1>4. Listed(t)
  BY <1>1 DEF Sound, Listed
<1>5. \A j : CompOf(t, "mipi", j) = CompOf(s, "mipi", j)
  BY <1>1 DEF CompOf
<1>6. Suited(t)
  BY <1>1, <1>5 DEF Sound, Suited, SuitedLayer
<1> QED
  BY <1>1, <1>2, <1>3, <1>4, <1>6 DEF Keeps, Sound, Aside

\* A step that does not touch the panel's lists keeps what holds outside smart composition.
LEMMA AsidePlain ==
  ASSUME NEW s, NEW t, Aside(s, t)
  PROVE  Plain(s) => Plain(t)
BY DEF Aside, Plain, Composing, Planed, NoDim, Covered, CompOf

-----------------------------------------------------------------------------
(* A change of geometry on the panel.                                       *)

LEMMA FreshFacts ==
  ASSUME NEW s \in States, NEW d \in Displays, NEW fresh, fresh = Fresh(s.sf[d].ls)
  PROVE  /\ fresh \in Seq(Lays) /\ DOMAIN fresh = DOMAIN s.sf[d].ls
         /\ \A i \in DOMAIN fresh : fresh[i].plane = NoPlane /\ fresh[i].kind = s.sf[d].ls[i].kind
<1> DEFINE q == s.sf[d].ls
<1>1. q \in Seq(Given)
  BY Fields DEF GivenLists, Handed
<1> HIDE DEF q
<1>2. Len(q) \in Nat /\ DOMAIN q = 1..Len(q) /\ \A i \in DOMAIN q : q[i].kind \in Kinds
  <2>1. Len(q) \in Nat /\ DOMAIN q = 1..Len(q) /\ \A i \in DOMAIN q : q[i] \in Given
    BY <1>1, Elements
  <2> QED
    BY <2>1 DEF Given
<1>3. fresh = [i \in 1..Len(q) |-> [kind |-> q[i].kind, plane |-> NoPlane, delay |-> FALSE, force |-> FALSE]]
  BY <1>2 DEF Fresh, q
<1>4. \A i \in 1..Len(q) : [kind |-> q[i].kind, plane |-> NoPlane, delay |-> FALSE, force |-> FALSE] \in Lays
  BY <1>2 DEF Lays
<1>5. fresh \in [1..Len(q) -> Lays]
  BY <1>3, <1>4
<1>6. fresh \in Seq(Lays)
  BY <1>2, <1>5, SeqDef
<1> QED
  BY <1>2, <1>3, <1>6 DEF q

\* A list that SurfaceFlinger handed over: what has no buffer is composed.
DimComposed(s) ==
  \A i \in DOMAIN s.sf["mipi"].ls : s.sf["mipi"].ls[i].kind = "dim" => CompOf(s, "mipi", i) = "fb"

\* The new list has no planes yet.
LEMMA FreshPanel ==
  ASSUME NEW s0 \in States, Based(s0), Sprites = {},
         NEW s, s = Renew(s0, "mipi", Fresh(s0.sf["mipi"].ls))
  PROVE  /\ s \in States /\ Sound(s) /\ Piped(s) /\ Rest(s) = Rest(s0)
         /\ \A j \in DOMAIN s.ml["mipi"] : s.ml["mipi"][j].plane = NoPlane
         /\ DimComposed(s0) => Composing(s)
<1> DEFINE fresh == Fresh(s0.sf["mipi"].ls)
<1>1. "mipi" \in Displays
  BY DEF Displays
<1>2. /\ fresh \in Seq(Lays) /\ DOMAIN fresh = DOMAIN s0.sf["mipi"].ls
      /\ \A i \in DOMAIN fresh : fresh[i].plane = NoPlane /\ fresh[i].kind = s0.sf["mipi"].ls[i].kind
  BY <1>1, FreshFacts
<1> HIDE DEF fresh
<1>3. /\ s \in States /\ Accounted(s)
      /\ s.ml["mipi"] = fresh
      /\ s.free = s0.free /\ s.lit = s0.lit /\ s.mapped = s0.mapped /\ s.pipe = s0.pipe
      /\ s.flip = s0.flip /\ s.hw = s0.hw /\ s.sf = s0.sf /\ Rest(s) = Rest(s0)
  <2>1. s = Renew(s0, "mipi", fresh)
    BY DEF fresh
  <2> QED
    BY <1>1, <1>2, <2>1, RenewStep DEF Based
<1>4. \A j \in DOMAIN s.ml["mipi"] : s.ml["mipi"][j].plane = NoPlane
  BY <1>2, <1>3
<1>5. Shown(s) /\ Flipped(s)
  BY <1>3 DEF Based, Shown, Flipped
<1>6. Listed(s)
  BY <1>2, <1>3 DEF Listed
<1>7. Suited(s)
  <2> SUFFICES ASSUME NEW i \in DOMAIN s.ml["mipi"] PROVE SuitedLayer(s, i)
    BY DEF Suited
  <2>1. s.ml["mipi"][i].plane.type = "none"
    BY <1>4 DEF NoPlane
  <2> QED
    BY <2>1 DEF SuitedLayer
<1>8. Piped(s)
  <2>1. NoPlane \notin OverlayPlanes
    BY DEF NoPlane, OverlayPlanes
  <2> QED
    BY <1>4, <2>1 DEF Piped
<1>9. ASSUME DimComposed(s0) PROVE Composing(s)
  <2> SUFFICES ASSUME NEW i \in DOMAIN s.ml["mipi"]
               PROVE  /\ s.ml["mipi"][i].kind = "dim" => CompOf(s, "mipi", i) = "fb"
                      /\ s.ml["mipi"][i].plane.type = "primary" => CompOf(s, "mipi", i) = "overlay"
    BY DEF Composing
  <2>1. s.ml["mipi"][i].plane.type # "primary"
    BY <1>4 DEF NoPlane
  <2>2. i \in DOMAIN s0.sf["mipi"].ls /\ s.ml["mipi"][i].kind = s0.sf["mipi"].ls[i].kind
    BY <1>2, <1>3
  <2>3. CompOf(s, "mipi", i) = CompOf(s0, "mipi", i)
    BY <1>3 DEF CompOf
  <2> QED
    BY <1>9, <2>1, <2>2, <2>3 DEF DimComposed
<1> QED
  BY <1>3, <1>4, <1>5, <1>6, <1>7, <1>8, <1>9 DEF Sound

\* onGeometryChanged of the panel: the planes of the old list are given back, and
\* whatever the new one gets keeps the invariant.
LEMMA PanelGeometryStep ==
  ASSUME NEW s0 \in States, Based(s0), Sprites = {}, NEW t, t = PanelGeometry(s0)
  PROVE  /\ t \in States /\ Sound(t) /\ Piped(t)
         /\ DimComposed(s0) => Plain(t)
         /\ t.hot = s0.hot /\ t.gles = s0.gles /\ t.blank = s0.blank
<1> DEFINE s == Renew(s0, "mipi", Fresh(s0.sf["mipi"].ls))
           shot == ScreenshotActive(s)
           a == IF shot THEN s ELSE AssignPlanes(s)
           r == Revisit(a, "mipi")
           u == [r EXCEPT !.shot = shot]
           v == DisableReclaimed(u, "sprite")
<1>1. t = DisableReclaimed(v, "primary")
  BY DEF PanelGeometry
<1>2. /\ s \in States /\ Sound(s) /\ Piped(s) /\ Rest(s) = Rest(s0)
      /\ \A j \in DOMAIN s.ml["mipi"] : s.ml["mipi"][j].plane = NoPlane
      /\ DimComposed(s0) => Composing(s)
  BY FreshPanel
<1> HIDE DEF s
<1>3. "mipi" \in Displays /\ "sprite" \in Pools /\ "primary" \in Pools
      /\ DOMAIN s.ml["mipi"] = 1..Len(s.ml["mipi"]) /\ Len(s.ml["mipi"]) \in Nat
  BY <1>2, Layer DEF Displays, Pools
<1>4. shot \in BOOLEAN
  BY DEF ScreenshotActive
<1>5. Keeps(s, a) /\ (DimComposed(s0) => Settled(a, 0))
  <2>1. CASE shot
    <3>1. Covered(s, 0)
      BY <1>2 DEF Covered, NoPlane
    <3>2. ~NoDim(s)
      <4>1. Len(s.ml["mipi"]) \in DOMAIN s.ml["mipi"]
        BY <1>3, <2>1 DEF ScreenshotActive
      <4> QED
        BY <2>1, <4>1 DEF ScreenshotActive, NoDim
    <3> QED
      BY <1>2, <2>1, <3>1, <3>2, Reflexive DEF Settled, Planed
  <2>2. CASE ~shot
    <3>1. AssignedTo(s, a, Len(s.ml["mipi"]))
      BY <1>2, <2>2, AssignPlanesFacts
    <3>2. Keeps(s, a)
      BY <3>1 DEF AssignedTo
    <3> HIDE DEF a
    <3> QED
      BY <1>2, <3>1, <3>2, AssignedSettled
  <2> QED
    BY <2>1, <2>2
<1> HIDE DEF a
<1>6. RevisitedTo(a, r, "mipi", Len(a.ml["mipi"]))
  BY <1>3, <1>5, RevisitFacts DEF Keeps
<1> HIDE DEF r, shot
<1>7. Keeps(a, r) /\ Shape(a, r) /\ (Settled(a, 0) => Settled(r, Len(a.ml["mipi"])))
  BY <1>6 DEF RevisitedTo
<1>8. Keeps(s, r) /\ (DimComposed(s0) => Plain(r))
  BY <1>5, <1>7, KeepsOn DEF Shape, Settled, Plain
<1>9. r \in States /\ Sound(r) /\ Piped(r) /\ Rest(r) = Rest(s0)
  BY <1>2, <1>8 DEF Keeps
<1>10. u \in States /\ Core(u) = Core(r) /\ u.hot = r.hot /\ u.gles = r.gles /\ u.blank = r.blank
  BY <1>4, <1>9, SetShot
<1> HIDE DEF u
<1>11. Sound(u) /\ Piped(u) /\ (DimComposed(s0) => Plain(u))
  BY <1>8, <1>9, <1>10, SameCore
<1>12. Keeps(u, v) /\ v.ml = u.ml /\ v.sf = u.sf
  BY <1>3, <1>10, <1>11, ReclaimStep
<1> HIDE DEF v
<1>13. Keeps(v, t) /\ t.ml = v.ml /\ t.sf = v.sf
  BY <1>1, <1>3, <1>12, ReclaimStep DEF Keeps
<1>14. DimComposed(s0) => Plain(t)
  BY <1>11, <1>12, <1>13, AsidePlain DEF Aside
<1> QED
  BY <1>9, <1>10, <1>11, <1>12, <1>13, <1>14 DEF Keeps, Rest

-----------------------------------------------------------------------------
(* A change of geometry on HDMI.                                            *)

\* HDMI's planes are given back; the panel is not touched.
LEMMA FreshHdmi ==
  ASSUME NEW s \in States, Sound(s), Sprites = {}, NEW fresh \in Seq(Lays),
         \A i \in DOMAIN fresh : fresh[i].plane = NoPlane, NEW t, t = Renew(s, "hdmi", fresh)
  PROVE  Keeps(s, t) /\ Aside(s, t) /\ t.ml["hdmi"] = fresh
<1>1. /\ t \in States /\ Accounted(t)
      /\ t.ml["hdmi"] = fresh /\ t.ml["mipi"] = s.ml["mipi"]
      /\ t.free = s.free /\ t.lit = s.lit /\ t.mapped = s.mapped /\ t.pipe = s.pipe
      /\ t.flip = s.flip /\ t.hw = s.hw /\ t.sf = s.sf /\ Rest(t) = Rest(s)
  BY RenewStep DEF Sound, Displays
<1>2. Shown(t) /\ Flipped(t) /\ (Piped(s) => Piped(t))
  BY <1>1 DEF Sound, Shown, Flipped, Piped
<1>3. Listed(t) /\ Suited(t)
  <2>1. Aside(s, t)
    BY <1>1 DEF Aside
  <2> QED
    BY <2>1, AsideLists DEF Sound
<1> QED
  BY <1>1, <1>2, <1>3 DEF Keeps, Sound, Aside

\* One layer of HDMI.
LEMMA HdmiLayerStep ==
  ASSUME NEW s \in States, Sound(s), Sprites = {}, NEW i \in DOMAIN s.ml["hdmi"],
         s.ml["hdmi"][i].plane = NoPlane, NEW t, t = HdmiLayer(s, i)
  PROVE  Keeps(s, t) /\ Local(s, t, "hdmi", i)
<1> DEFINE k == s.ml["hdmi"][i].kind
           u == SetComp(s, "hdmi", i, "overlay")
           h == NextPlane(u, "overlay")
           p == [type |-> "ov", i |-> h]
<1>1. "hdmi" \in Displays /\ "hdmi" # "mipi" /\ "overlay" \in Comps
  BY DEF Displays, Comps
<1>2. t = s \/ t = u \/ t = HdmiOverlayPrepare(u, i)
  BY DEF HdmiLayer, Yuv
<1> HIDE DEF k
<1>3. Keeps(s, u) /\ Local(s, u, "hdmi", i) /\ u.ml = s.ml
  <2> HIDE DEF u
  <2>1. u = SetComp(s, "hdmi", i, "overlay")
    BY DEF u
  <2> QED
    BY <1>1, <2>1, CompStep
<1> HIDE DEF u
<1>4. CASE t = HdmiOverlayPrepare(u, i) /\ HasFree(u, "overlay")
  <2>1. t = Attach([Grab(u, "overlay", h) EXCEPT !.pipe[p] = "hdmi"], "hdmi", i, p)
    BY <1>4 DEF HdmiOverlayPrepare
  <2>2. /\ t \in States
        /\ Firm(t) /\ (Piped(u) => Piped(t)) /\ Rest(t) = Rest(u)
        /\ Local(u, t, "hdmi", i)
        /\ \A j \in DOMAIN u.ml["mipi"] : SuitedLayer(t, j)
    <3>1. u \in States /\ Sound(u) /\ i \in DOMAIN u.ml["hdmi"] /\ u.ml["hdmi"][i].plane = NoPlane
      BY <1>3 DEF Keeps
    <3> HIDE DEF p
    <3>2. p = [type |-> "ov", i |-> h]
      BY DEF p
    <3> HIDE DEF h
    <3>3. p = [type |-> "ov", i |-> NextPlane(u, "overlay")]
      BY <3>2 DEF h
    <3>4. t = Attach([Grab(u, "overlay", NextPlane(u, "overlay")) EXCEPT !.pipe[p] = "hdmi"], "hdmi", i, p)
      BY <2>1 DEF h
    <3> QED
      BY <1>1, <1>4, <3>1, <3>3, <3>4, LendOverlay
  <2>3. DOMAIN t.ml["mipi"] = DOMAIN u.ml["mipi"]
    BY <2>2 DEF Local, Displays
  <2>4. Keeps(u, t)
    BY <2>2, <2>3 DEF Keeps, Sound, Firm, Suited
  <2> QED
    BY <1>3, <2>2, <2>4, KeepsOn, LocalOn
<1>5. CASE t = HdmiOverlayPrepare(u, i) /\ ~HasFree(u, "overlay")
  <2>1. t = u
    BY <1>5 DEF HdmiOverlayPrepare
  <2> QED
    BY <1>3, <2>1
<1> QED
  BY <1>2, <1>3, <1>4, <1>5, Reflexive

\* The first i layers of HDMI are assigned their planes.
HdmiTo(s, x, i) ==
  /\ Keeps(s, x) /\ Aside(s, x) /\ DOMAIN x.ml["hdmi"] = DOMAIN s.ml["hdmi"]
  /\ \A j \in DOMAIN s.ml["hdmi"] : j > i => x.ml["hdmi"][j].plane = NoPlane

LEMMA HdmiStep ==
  ASSUME NEW s \in States, Sprites = {}, NEW i \in DOMAIN s.ml["hdmi"], NEW x,
         HdmiTo(s, x, i - 1), NEW t, t = HdmiLayer(x, i)
  PROVE  HdmiTo(s, t, i)
<1>1. "hdmi" \in Displays /\ DOMAIN s.ml["hdmi"] = 1..Len(s.ml["hdmi"]) /\ Len(s.ml["hdmi"]) \in Nat
  BY Layer DEF Displays
<1>2. /\ Keeps(s, x) /\ Aside(s, x) /\ DOMAIN x.ml["hdmi"] = DOMAIN s.ml["hdmi"]
      /\ \A j \in DOMAIN s.ml["hdmi"] : j > i - 1 => x.ml["hdmi"][j].plane = NoPlane
  BY DEF HdmiTo
<1>3. x \in States /\ Sound(x) /\ i \in DOMAIN x.ml["hdmi"] /\ x.ml["hdmi"][i].plane = NoPlane
  BY <1>1, <1>2 DEF Keeps
<1>4. Keeps(x, t) /\ Local(x, t, "hdmi", i)
  BY <1>3, HdmiLayerStep
<1>5. /\ DOMAIN t.ml["hdmi"] = DOMAIN x.ml["hdmi"]
      /\ \A j \in DOMAIN x.ml["hdmi"] : j # i => t.ml["hdmi"][j].plane = x.ml["hdmi"][j].plane
  BY <1>1, <1>4 DEF Local
<1>6. Keeps(s, t) /\ Aside(s, t)
  <2>1. Aside(x, t)
    BY <1>1, <1>4, LocalShape
  <2> QED
    BY <1>2, <1>4, <2>1, KeepsOn DEF Aside
<1>7. ASSUME NEW j \in DOMAIN s.ml["hdmi"], j > i PROVE t.ml["hdmi"][j].plane = NoPlane
  <2>1. j > i - 1 /\ j # i
    BY <1>1, <1>7
  <2> QED
    BY <1>2, <1>5, <2>1
<1> QED
  BY <1>2, <1>5, <1>6, <1>7 DEF HdmiTo

LEMMA HdmiLayersFacts ==
  ASSUME NEW s \in States, Sound(s), Sprites = {},
         \A j \in DOMAIN s.ml["hdmi"] : s.ml["hdmi"][j].plane = NoPlane
  PROVE  HdmiTo(s, HdmiLayers(s), Len(s.ml["hdmi"]))
<1> DEFINE n == Len(s.ml["hdmi"])
           Loop(f) == [i \in 0..n |-> IF i = 0 THEN s ELSE HdmiLayer(f[i - 1], i)]
           done == CHOOSE f : f = Loop(f)
           G == [i \in 0..n |-> {x \in States : HdmiTo(s, x, i)}]
           T == [y \in (1..n) \X States |->
                   IF HdmiLayer(y[2], y[1]) \in States THEN HdmiLayer(y[2], y[1]) ELSE s]
<1>1. HdmiLayers(s) = done[n]
  BY DEF HdmiLayers
<1>2. n \in Nat /\ DOMAIN s.ml["hdmi"] = 1..n
  BY Layer DEF Displays
<1> HIDE DEF n
<1>3. s \in States /\ HdmiTo(s, s, 0)
  BY <1>2, Reflexive DEF HdmiTo, Aside
<1>4. ASSUME NEW i \in 1..n, NEW x, HdmiTo(s, x, i - 1)
      PROVE  HdmiLayer(x, i) \in States /\ HdmiTo(s, HdmiLayer(x, i), i)
  <2>1. HdmiTo(s, HdmiLayer(x, i), i)
    BY <1>2, <1>4, HdmiStep
  <2> QED
    BY <2>1 DEF HdmiTo, Keeps
<1>5. /\ G \in [0..n -> SUBSET States]
      /\ \A i \in 0..n, x \in States : x \in G[i] <=> HdmiTo(s, x, i)
  OBVIOUS
<1>6. /\ T \in [(1..n) \X States -> States]
      /\ \A i \in 1..n, x \in States :
           HdmiLayer(x, i) \in States => T[<<i, x>>] = HdmiLayer(x, i)
  BY <1>3
<1> HIDE DEF G, T
<1>7. PICK f \in [0..n -> States] :
        f[0] = s /\ \A i \in 1..n : f[i - 1] \in G[i - 1] /\ f[i] = T[<<i, f[i - 1]>>]
  <2>1. s \in G[0]
    BY <1>2, <1>3, <1>5
  <2>2. ASSUME NEW i \in 1..n, NEW x \in G[i - 1] PROVE T[<<i, x>>] \in G[i]
    <3>1. i \in 0..n /\ i - 1 \in 0..n
      BY <1>2
    <3>2. x \in States /\ HdmiTo(s, x, i - 1)
      BY <1>5, <3>1
    <3> QED
      BY <1>4, <1>5, <1>6, <3>1, <3>2
  <2>3. Leads(n, G, T)
    BY <2>2 DEF Leads
  <2>4. n \in Nat /\ G \in [0..n -> SUBSET States] /\ T \in [(1..n) \X States -> States]
    BY <1>2, <1>5, <1>6
  <2>5. PICK f \in [0..n -> States] : Follows(f, s, T, n) /\ Within(f, n, G)
    BY <2>1, <2>3, <2>4, LoopExists
  <2> QED
    BY <2>5 DEF Follows, Within
<1>8. f = Loop(f)
  <2>1. ASSUME NEW i \in 1..n PROVE f[i] = HdmiLayer(f[i - 1], i)
    <3>1. f[i - 1] \in G[i - 1] /\ f[i] = T[<<i, f[i - 1]>>]
      BY <1>7
    <3>2. i - 1 \in 0..n
      BY <1>2
    <3>3. f[i - 1] \in States /\ HdmiTo(s, f[i - 1], i - 1)
      BY <1>5, <3>1, <3>2
    <3> QED
      BY <1>4, <1>6, <3>1, <3>3
  <2> QED
    BY <1>2, <1>7, <2>1
<1>9. done = Loop(done)
  BY <1>8
<1> HIDE DEF done
<1> DEFINE good == {i \in 0..n : HdmiTo(s, done[i], i)}
<1>10. 0 \in good
  <2>1. Loop(done)[0] = s /\ 0 \in 0..n
    BY <1>2
  <2> QED
    BY <1>3, <1>9, <2>1
<1>11. ASSUME NEW i \in 1..n, i - 1 \in good PROVE i \in good
  <2>1. Loop(done)[i] = HdmiLayer(done[i - 1], i)
    BY <1>2
  <2> HIDE DEF Loop
  <2> QED
    BY <1>4, <1>9, <1>11, <2>1
<1> HIDE DEF good
<1>12. 0..n \subseteq good
  BY <1>2, <1>10, <1>11, CountingUp
<1>13. n \in good
  BY <1>2, <1>12
<1> QED
  BY <1>1, <1>13 DEF good, n

\* onGeometryChanged of HDMI.
LEMMA HdmiGeometryStep ==
  ASSUME NEW s0 \in States, Sound(s0), Sprites = {}, NEW t, t = HdmiGeometry(s0)
  PROVE  Keeps(s0, t) /\ Aside(s0, t)
<1> DEFINE fresh == Fresh(s0.sf["hdmi"].ls)
           s == Renew(s0, "hdmi", fresh)
<1>1. t = IF mode = "extend" THEN HdmiLayers(s) ELSE s
  BY DEF HdmiGeometry
<1>2. fresh \in Seq(Lays) /\ \A i \in DOMAIN fresh : fresh[i].plane = NoPlane
  BY FreshFacts DEF Displays
<1> HIDE DEF fresh
<1>3. Keeps(s0, s) /\ Aside(s0, s) /\ s.ml["hdmi"] = fresh
  BY <1>2, FreshHdmi
<1> HIDE DEF s
<1>4. CASE mode = "extend"
  <2>1. s \in States /\ Sound(s) /\ \A j \in DOMAIN s.ml["hdmi"] : s.ml["hdmi"][j].plane = NoPlane
    BY <1>2, <1>3 DEF Keeps
  <2>2. HdmiTo(s, t, Len(s.ml["hdmi"]))
    BY <1>1, <1>4, <2>1, HdmiLayersFacts
  <2> QED
    BY <1>3, <2>2, KeepsOn DEF HdmiTo, Aside
<1>5. CASE mode # "extend"
  BY <1>1, <1>3, <1>5
<1> QED
  BY <1>4, <1>5

-----------------------------------------------------------------------------
(* updateLayersData, layer by layer.                                        *)

\* What layer i of the panel must be after a step on it.
LEMMA LooseStep ==
  ASSUME NEW s \in States, NEW t, NEW i \in DOMAIN s.ml["mipi"], Local(s, t, "mipi", i), Settled(s, 0),
         s.ml["mipi"][i].kind = "dim" => CompOf(t, "mipi", i) = "fb",
         t.ml["mipi"][i].plane.type = "primary" => CompOf(t, "mipi", i) = "overlay",
         ~Yuv(s.ml["mipi"][i].kind) /\ CompOf(t, "mipi", i) = "overlay" => t.ml["mipi"][i].plane # NoPlane
  PROVE  Settled(t, 0)
<1>1. /\ DOMAIN t.ml["mipi"] = DOMAIN s.ml["mipi"] /\ Len(t.ml["mipi"]) = Len(s.ml["mipi"])
      /\ \A j \in DOMAIN s.ml["mipi"] :
           /\ t.ml["mipi"][j].kind = s.ml["mipi"][j].kind
           /\ j # i => /\ t.ml["mipi"][j].plane = s.ml["mipi"][j].plane
                       /\ CompOf(t, "mipi", j) = CompOf(s, "mipi", j)
  BY DEF Local, Displays
<1>2. DOMAIN s.ml["mipi"] = 1..Len(s.ml["mipi"]) /\ Len(s.ml["mipi"]) \in Nat
  BY Layer DEF Displays
<1>3. Composing(t)
  BY <1>1 DEF Settled, Composing
<1>4. Planed(t, Len(t.ml["mipi"]))
  BY <1>1 DEF Settled, Planed, NoDim
<1>5. Covered(t, 0)
  BY <1>1, <1>2 DEF Covered
<1> QED
  BY <1>3, <1>4, <1>5 DEF Settled

LEMMA PlainIsSettled ==
  ASSUME NEW s \in States, Plain(s)
  PROVE  Settled(s, 0)
<1>1. DOMAIN s.ml["mipi"] = 1..Len(s.ml["mipi"]) /\ Len(s.ml["mipi"]) \in Nat
  BY Layer DEF Displays
<1> QED
  BY <1>1 DEF Plain, Settled, Covered

\* If it does not return to the framebuffer nothing is composed beside the primary plane.
LEMMA TightStep ==
  ASSUME NEW s \in States, NEW t, NEW i \in DOMAIN s.ml["mipi"], Local(s, t, "mipi", i), Plain(s),
         Settled(t, 0), CompOf(t, "mipi", i) \in {"overlay", CompOf(s, "mipi", i)},
         t.ml["mipi"][i].plane.type = "primary" => s.ml["mipi"][i].plane.type = "primary"
  PROVE  Plain(t)
<1>1. /\ DOMAIN t.ml["mipi"] = DOMAIN s.ml["mipi"] /\ Len(t.ml["mipi"]) = Len(s.ml["mipi"])
      /\ \A j \in DOMAIN s.ml["mipi"] :
           j # i => /\ t.ml["mipi"][j].plane = s.ml["mipi"][j].plane
                    /\ CompOf(t, "mipi", j) = CompOf(s, "mipi", j)
  BY DEF Local, Displays
<1>2. Covered(t, Len(t.ml["mipi"]))
  BY <1>1 DEF Plain, Covered
<1> QED
  BY <1>2 DEF Plain, Settled

\* A step that changes neither planes nor composition types.
Quiet(s, t, d, i) ==
  Keeps(s, t) /\ Local(s, t, d, i) /\ t.sf = s.sf /\ t.ml[d][i].plane = s.ml[d][i].plane

LEMMA QuietDisable ==
  ASSUME NEW s \in States, Sound(s), NEW d \in Displays, NEW i, NEW p, NEW t, t = Disable(s, p)
  PROVE  Quiet(s, t, d, i) /\ t.ml = s.ml
<1>1. Keeps(s, t) /\ Local(s, t, d, i) /\ t.ml = s.ml /\ t.sf = s.sf
  BY DisableStep
<1> QED
  BY <1>1 DEF Quiet

LEMMA QuietOn ==
  ASSUME NEW s, NEW t, NEW u, NEW d, NEW i, Quiet(s, t, d, i), Quiet(t, u, d, i)
  PROVE  Quiet(s, u, d, i)
BY KeepsOn, LocalOn DEF Quiet

LEMMA QuietPlain ==
  ASSUME NEW s \in States, NEW t, NEW i \in DOMAIN s.ml["mipi"], Quiet(s, t, "mipi", i)
  PROVE  (Settled(s, 0) => Settled(t, 0)) /\ (Plain(s) => Plain(t))
<1>1. /\ Local(s, t, "mipi", i) /\ t.ml["mipi"][i].plane = s.ml["mipi"][i].plane
      /\ CompOf(t, "mipi", i) = CompOf(s, "mipi", i)
  BY DEF Quiet, CompOf
<1>2. i <= Len(s.ml["mipi"])
  BY Layer DEF Displays
<1>3. ASSUME Settled(s, 0) PROVE Settled(t, 0)
  <2>1. NoDim(s) \/ ~NoDim(s)
    OBVIOUS
  <2>2. /\ s.ml["mipi"][i].kind = "dim" => CompOf(t, "mipi", i) = "fb"
        /\ t.ml["mipi"][i].plane.type = "primary" => CompOf(t, "mipi", i) = "overlay"
    BY <1>1, <1>3 DEF Settled, Composing
  <2>3. CASE NoDim(s)
    <3>1. ~Yuv(s.ml["mipi"][i].kind) /\ CompOf(t, "mipi", i) = "overlay" => t.ml["mipi"][i].plane # NoPlane
      BY <1>1, <1>2, <1>3, <2>3 DEF Settled, Planed
    <3> QED
      BY <1>1, <1>3, <2>2, <3>1, LooseStep
  <2>4. CASE ~NoDim(s)
    <3>1. /\ DOMAIN t.ml["mipi"] = DOMAIN s.ml["mipi"] /\ Len(t.ml["mipi"]) = Len(s.ml["mipi"])
          /\ \A j \in DOMAIN s.ml["mipi"] :
               /\ t.ml["mipi"][j].kind = s.ml["mipi"][j].kind
               /\ t.ml["mipi"][j].plane = s.ml["mipi"][j].plane
               /\ CompOf(t, "mipi", j) = CompOf(s, "mipi", j)
      BY <1>1 DEF Local, Displays
    <3> QED
      BY <1>3, <3>1 DEF Settled, Composing, Planed, NoDim, Covered
  <2> QED
    BY <2>3, <2>4
<1>4. ASSUME Plain(s) PROVE Plain(t)
  <2>1. Settled(s, 0)
    BY <1>4, PlainIsSettled
  <2> QED
    BY <1>1, <1>3, <1>4, <2>1, TightStep
<1> QED
  BY <1>3, <1>4

\* A layer without a plane that is not composed, and its companions: what one
\* layer of a display gets in a frame.
Step(s, t, d, i) == Keeps(s, t) /\ Local(s, t, d, i) /\ (d = "mipi" => (Settled(s, 0) => Settled(t, 0)))

\* The layer is composed; it has no plane but an overlay for video.
LEMMA FbStep ==
  ASSUME NEW s \in States, Sound(s), NEW d \in Displays, NEW i \in DOMAIN s.ml[d],
         s.ml[d][i].plane.type \notin {"rgb", "primary"}, NEW t, t = SetComp(s, d, i, "fb")
  PROVE  Step(s, t, d, i)
<1>1. Keeps(s, t) /\ Local(s, t, d, i) /\ t.ml = s.ml /\ (d = "mipi" => CompOf(t, "mipi", i) = "fb")
  BY CompStep DEF Comps
<1>2. ASSUME d = "mipi", Settled(s, 0) PROVE Settled(t, 0)
  BY <1>1, <1>2, LooseStep
<1> QED
  BY <1>1, <1>2 DEF Step

\* A layer of video is not composed.
LEMMA HideStep ==
  ASSUME NEW s \in States, Sound(s), NEW d \in Displays, NEW i \in DOMAIN s.ml[d],
         Yuv(s.ml[d][i].kind) \/ d = "hdmi", NEW t, t = SetComp(s, d, i, "overlay")
  PROVE  Step(s, t, d, i) /\ (d = "mipi" => (Plain(s) => Plain(t)))
<1>1. Keeps(s, t) /\ Local(s, t, d, i) /\ t.ml = s.ml /\ (d = "mipi" => CompOf(t, "mipi", i) = "overlay")
  BY CompStep DEF Comps
<1>2. ASSUME d = "mipi", Settled(s, 0) PROVE Settled(t, 0)
  <2>1. Yuv(s.ml["mipi"][i].kind) /\ s.ml["mipi"][i].kind # "dim"
    BY <1>2 DEF Yuv
  <2> QED
    BY <1>1, <1>2, <2>1, LooseStep
<1>3. ASSUME d = "mipi", Plain(s) PROVE Plain(t)
  <2>1. Settled(s, 0)
    BY <1>3, PlainIsSettled
  <2> QED
    BY <1>1, <1>2, <1>3, <2>1, TightStep
<1> QED
  BY <1>1, <1>2, <1>3 DEF Step

\* The layer loses its plane and is composed, or if it is of video is hidden.
LEMMA LoseStep ==
  ASSUME NEW s \in States, Sound(s), Sprites = {}, NEW d \in Displays, NEW i \in DOMAIN s.ml[d],
         s.ml[d][i].plane # NoPlane, NEW c \in Comps,
         c = "overlay" => Yuv(s.ml[d][i].kind) \/ d = "hdmi",
         NEW t, t = SetComp(Detach(s, d, i), d, i, c)
  PROVE  Step(s, t, d, i)
<1> DEFINE r == Detach(s, d, i)
<1>1. Keeps(s, r) /\ Local(s, r, d, i) /\ r.ml[d][i].plane = NoPlane
  BY GiveStep
<1> HIDE DEF r
<1>2. /\ r \in States /\ Sound(r) /\ i \in DOMAIN r.ml[d] /\ r.ml[d][i].kind = s.ml[d][i].kind
  BY <1>1 DEF Keeps, Local
<1>3. Keeps(r, t) /\ Local(r, t, d, i) /\ t.ml = r.ml /\ (d = "mipi" => CompOf(t, "mipi", i) = c)
  <2>1. t = SetComp(r, d, i, c)
    BY DEF r
  <2>2. r.ml[d][i].plane.type # "rgb"
    BY <1>1 DEF NoPlane
  <2> QED
    BY <1>2, <2>1, <2>2, CompStep
<1>4. Keeps(s, t) /\ Local(s, t, d, i) /\ t.ml[d][i].plane = NoPlane
  BY <1>1, <1>3, KeepsOn, LocalOn
<1>5. ASSUME d = "mipi", Settled(s, 0) PROVE Settled(t, 0)
  <2>1. CompOf(t, "mipi", i) = c /\ t.ml["mipi"][i].plane = NoPlane /\ t.ml["mipi"][i].plane.type # "primary"
    BY <1>3, <1>4, <1>5 DEF NoPlane
  <2>2. c = "fb" \/ (c = "overlay" /\ Yuv(s.ml["mipi"][i].kind) /\ s.ml["mipi"][i].kind # "dim")
    BY <1>5 DEF Comps, Yuv
  <2>3. c = "fb" => c # "overlay"
    OBVIOUS
  <2> QED
    BY <1>4, <1>5, <2>1, <2>2, <2>3, LooseStep
<1> QED
  BY <1>4, <1>5 DEF Step

\* A layer's mark for a late buffer.
LEMMA DelayStep ==
  ASSUME NEW s \in States, Sound(s), NEW d \in Displays, NEW i \in DOMAIN s.ml[d], NEW v \in BOOLEAN,
         NEW t, t = SetLayer(s, d, i, [s.ml[d][i] EXCEPT !.delay = v])
  PROVE  Quiet(s, t, d, i)
<1> DEFINE l == [s.ml[d][i] EXCEPT !.delay = v]
<1>1. s.ml[d][i] \in Lays
  BY Layer
<1>2. l \in Lays /\ l.kind = s.ml[d][i].kind /\ l.plane = s.ml[d][i].plane
  BY <1>1 DEF Lays
<1> HIDE DEF l
<1>3. t = SetLayer(s, d, i, l)
  BY DEF l
<1> QED
  BY <1>2, <1>3, FlagStep DEF Quiet

\* The overlay of a layer gets a buffer.
LEMMA BufferStep ==
  ASSUME NEW s \in States, Sound(s), Sprites = {}, NEW d \in Displays, NEW i \in DOMAIN s.ml[d],
         s.ml[d][i].plane \in OverlayPlanes, NEW off \in BOOLEAN,
         NEW t, t = SetData(s, s.ml[d][i].plane, off)
  PROVE  Quiet(s, t, d, i)
<1> DEFINE p == s.ml[d][i].plane
<1>1. p # NoPlane /\ PoolOf(p) = "overlay" /\ p.i \in 0..31 /\ "overlay" \in Pools
  BY PlaneIndices DEF OverlayPlanes, NoPlane, PoolOf, Pools
<1>2. <<d, i>> \in Spots(s) /\ PlaneAt(s, <<d, i>>) = p
  BY <1>1, SpotAt
<1>3. p.i \notin s.free["overlay"]
  BY <1>1, <1>2 DEF Sound, Accounted, IsPlane, Spare
<1> HIDE DEF p
<1>4. p \in OverlayPlanes /\ t = SetData(s, p, off)
  BY DEF p
<1>5. Keeps(s, t) /\ Local(s, t, d, i) /\ t.ml = s.ml /\ t.sf = s.sf
  BY <1>3, <1>4, SetDataStep
<1> QED
  BY <1>5 DEF Quiet

\* The frame's record: the composer, whether the list must be looked at again, and
\* the last layer with a video buffer.
Updates == [s : States, ok : BOOLEAN, yuv : Nat]

Did(u, t, d, i) ==
  /\ t \in Updates /\ Step(u.s, t.s, d, i)
  /\ t.ok => u.ok /\ (d = "mipi" => (Plain(u.s) => Plain(t.s)))
  /\ t.yuv = u.yuv \/ (t.yuv = i /\ u.s.ml[d][i].kind = "video")

WithState(u, x) == [u EXCEPT !.s = x]

LEMMA Fails ==
  ASSUME NEW u \in Updates, NEW y, NEW d, NEW i, Step(u.s, y, d, i),
         NEW t, t = [s |-> y, ok |-> FALSE, yuv |-> u.yuv]
  PROVE  Did(u, t, d, i)
<1>1. y \in States /\ u.yuv \in Nat
  BY DEF Step, Keeps, Updates
<1>2. t \in Updates /\ t.s = y /\ t.ok = FALSE /\ t.yuv = u.yuv
  BY <1>1 DEF Updates
<1> QED
  BY <1>2 DEF Did

LEMMA Composes ==
  ASSUME NEW u \in Updates, NEW x, NEW d, NEW i, Step(u.s, SetComp(x, d, i, "fb"), d, i),
         NEW t, t = ToFramebuffer(WithState(u, x), d, i)
  PROVE  Did(u, t, d, i)
<1> DEFINE y == SetComp(x, d, i, "fb")
<1>1. t = [[u EXCEPT !.s = x] EXCEPT !.s = y, !.ok = FALSE]
  BY DEF ToFramebuffer, Updates, WithState
<1>2. Step(u.s, y, d, i)
  OBVIOUS
<1> HIDE DEF y
<1>3. t = [s |-> y, ok |-> FALSE, yuv |-> u.yuv]
  BY <1>1 DEF Updates
<1> QED
  BY <1>2, <1>3, Fails

LEMMA Stays ==
  ASSUME NEW u \in Updates, NEW y, NEW d \in Displays, NEW i \in DOMAIN u.s.ml[d], Step(u.s, y, d, i),
         d = "mipi" => (Plain(u.s) => Plain(y)), NEW v \in {u.yuv, i},
         v = i => u.s.ml[d][i].kind = "video" \/ v = u.yuv,
         NEW t, t = [u EXCEPT !.s = y, !.yuv = v]
  PROVE  Did(u, t, d, i)
<1>1. y \in States
  BY DEF Step, Keeps
<1>2. u.s \in States /\ u.yuv \in Nat
  BY DEF Updates
<1>3. v \in Nat
  BY <1>2, Layer
<1>4. t = [s |-> y, ok |-> u.ok, yuv |-> v]
  BY DEF Updates
<1>5. t \in Updates /\ t.s = y /\ t.ok = u.ok /\ t.yuv = v
  BY <1>1, <1>3, <1>4 DEF Updates
<1> QED
  BY <1>5 DEF Did

LEMMA QuietStep ==
  ASSUME NEW s \in States, NEW t, NEW d \in Displays, NEW i \in DOMAIN s.ml[d], Quiet(s, t, d, i)
  PROVE  Step(s, t, d, i) /\ (d = "mipi" => (Plain(s) => Plain(t)))
BY QuietPlain DEF Step, Quiet

LEMMA StepOn ==
  ASSUME NEW s, NEW t, NEW u, NEW d, NEW i, Step(s, t, d, i), Step(t, u, d, i)
  PROVE  Step(s, u, d, i)
BY KeepsOn, LocalOn DEF Step

\* The layer's plane is dropped, after steps that change neither planes nor types.
LEMMA Drops ==
  ASSUME NEW u \in Updates, Sound(u.s), Sprites = {}, NEW d \in Displays, NEW i \in DOMAIN u.s.ml[d],
         u.s.ml[d][i].plane # NoPlane, NEW x, Quiet(u.s, x, d, i),
         NEW t, t = ToFramebuffer(WithState(u, Detach(x, d, i)), d, i)
  PROVE  Did(u, t, d, i)
<1>1. x \in States /\ Sound(x) /\ i \in DOMAIN x.ml[d] /\ x.ml[d][i].plane # NoPlane
  BY DEF Quiet, Keeps, Local
<1>2. Step(x, SetComp(Detach(x, d, i), d, i, "fb"), d, i)
  BY <1>1, LoseStep DEF Comps
<1>3. Step(u.s, x, d, i)
  BY QuietStep DEF Updates
<1>4. Step(u.s, SetComp(Detach(x, d, i), d, i, "fb"), d, i)
  BY <1>2, <1>3, StepOn
<1> HIDE DEF Detach
<1> QED
  BY <1>4, Composes

\* An overlay plane of the video kind.
LEMMA UpdateOverlayStep ==
  ASSUME NEW u \in Updates, Sound(u.s), Sprites = {}, NEW d \in Displays, NEW i \in DOMAIN u.s.ml[d],
         u.s.ml[d][i].plane.type = "ov", u.s.ml[d][i].plane # NoPlane, mds.off \in BOOLEAN,
         NEW in, NEW t, t = UpdateOverlay(u, d, i, in)
  PROVE  Did(u, t, d, i)
<1> DEFINE s == u.s
           l == s.ml[d][i]
           x == IF l.delay THEN [Disable(s, l.plane) EXCEPT !.ml[d][i].delay = FALSE] ELSE s
           late == [x EXCEPT !.ml[d][i].delay = TRUE]
           data == SetData(x, l.plane, mds.off)
           set == SetComp(data, d, i, "overlay")
           v == IF l.kind = "video" THEN i ELSE u.yuv
<1>1. s \in States /\ l \in Lays /\ l.plane \in OverlayPlanes
  <2>1. s \in States
    BY DEF Updates
  <2>2. l \in Lays /\ l.plane \in Planes \cup {NoPlane}
    BY <2>1, Layer
  <2> QED
    BY <2>1, <2>2, PlaneTypes
<1>2. d = "mipi" => Yuv(l.kind)
  BY DEF Sound, Suited, SuitedLayer
<1>3. \/ t = ToFramebuffer([u EXCEPT !.s = Disable(s, l.plane)], d, i)
      \/ t = [u EXCEPT !.s = SetComp(Detach(x, d, i), d, i, "overlay"), !.ok = FALSE]
      \/ t = [u EXCEPT !.s = late]
      \/ t = ToFramebuffer([u EXCEPT !.s = late], d, i)
      \/ t = DropPlane([u EXCEPT !.s = x], d, i)
      \/ t = [u EXCEPT !.s = set, !.yuv = v]
  <2> DEFINE A == ToFramebuffer([u EXCEPT !.s = Disable(s, l.plane)], d, i)
             B == [u EXCEPT !.s = SetComp(Detach(x, d, i), d, i, "overlay"), !.ok = FALSE]
             C == [u EXCEPT !.s = late]
             D == ToFramebuffer([u EXCEPT !.s = late], d, i)
             E == DropPlane([u EXCEPT !.s = x], d, i)
             F == [u EXCEPT !.s = set, !.yuv = v]
             turns == in.rot /\ mode = "extend" /\ ~PresentationMode(x) /\ ~OnlyHdmiHasVideo(x)
  <2>1. t = CASE mds.off -> A
              [] ~mds.off /\ turns -> B
              [] OTHER -> CASE Faulty(in, d, i, "late") -> IF l.force THEN C ELSE D
                            [] Faulty(in, d, i, "bad") -> E
                            [] OTHER -> F
    BY Zenon DEF UpdateOverlay
  <2> HIDE DEF A, B, C, D, E, F, turns, x, l, late, set, v
  <2>2. Faulty(in, d, i, "late") => ~Faulty(in, d, i, "bad")
    BY DEF Faulty
  <2> QED
    BY <2>1, <2>2 DEF A, B, C, D, E, F
\* Nothing but the marks and the blocks has changed so far.
<1>4. Quiet(s, x, d, i)
  <2>1. CASE l.delay
    <3> DEFINE y == Disable(s, l.plane)
    <3>1. Quiet(s, y, d, i) /\ y.ml = s.ml
      <4> HIDE DEF y
      <4>1. y = Disable(s, l.plane)
        BY DEF y
      <4> QED
        BY <1>1, <4>1, QuietDisable
    <3>2. x = SetLayer(y, d, i, [y.ml[d][i] EXCEPT !.delay = FALSE])
      BY <2>1 DEF SetLayer
    <3> HIDE DEF y, x
    <3>3. Quiet(y, x, d, i)
      <4>1. y \in States /\ Sound(y) /\ i \in DOMAIN y.ml[d]
        BY <3>1 DEF Quiet, Keeps
      <4> QED
        BY <3>2, <4>1, DelayStep
    <3> QED
      BY <3>1, <3>3, QuietOn
  <2>2. CASE ~l.delay
    BY <1>1, <2>2, Reflexive DEF Quiet
  <2> QED
    BY <2>1, <2>2
<1> HIDE DEF x
<1>5. x \in States /\ Sound(x) /\ i \in DOMAIN x.ml[d] /\ x.ml[d][i].plane = l.plane
      /\ x.ml[d][i].kind = l.kind
  BY <1>4 DEF Quiet, Keeps, Local
<1>6. Step(s, x, d, i) /\ (d = "mipi" => (Plain(s) => Plain(x)))
  BY <1>1, <1>4, QuietStep
<1>7. Quiet(s, late, d, i)
  <2>1. late = SetLayer(x, d, i, [x.ml[d][i] EXCEPT !.delay = TRUE])
    BY DEF SetLayer
  <2> HIDE DEF late
  <2>2. Quiet(x, late, d, i)
    BY <1>5, <2>1, DelayStep
  <2> QED
    BY <1>4, <2>2, QuietOn
<1>8. Quiet(s, data, d, i)
  <2> HIDE DEF data
  <2>1. data = SetData(x, x.ml[d][i].plane, mds.off)
    BY <1>5 DEF data
  <2>2. Quiet(x, data, d, i)
    BY <1>1, <1>5, <2>1, BufferStep
  <2> QED
    BY <1>4, <2>2, QuietOn
<1> HIDE DEF late, data
\* Composing a layer after a quiet step.
<1>9. ASSUME NEW y, Quiet(s, y, d, i) PROVE Step(s, SetComp(y, d, i, "fb"), d, i)
  <2>1. y \in States /\ Sound(y) /\ i \in DOMAIN y.ml[d] /\ y.ml[d][i].plane.type = "ov"
    BY <1>9 DEF Quiet, Keeps, Local
  <2>2. Step(y, SetComp(y, d, i, "fb"), d, i)
    BY <2>1, FbStep
  <2> QED
    BY <1>1, <1>9, <2>2, QuietStep, StepOn
<1>10. CASE t = ToFramebuffer([u EXCEPT !.s = Disable(s, l.plane)], d, i)
  <2> DEFINE y == Disable(s, l.plane)
  <2>1. Quiet(s, y, d, i)
    <3> HIDE DEF y
    <3>1. y = Disable(s, l.plane)
      BY DEF y
    <3> QED
      BY <1>1, <3>1, QuietDisable
  <2> HIDE DEF y
  <2>2. Step(s, SetComp(y, d, i, "fb"), d, i)
    BY <1>9, <2>1
  <2>3. t = ToFramebuffer([u EXCEPT !.s = y], d, i)
    BY <1>10 DEF y
  <2> QED
    BY <2>2, <2>3, Composes DEF WithState
<1>11. CASE t = [u EXCEPT !.s = SetComp(Detach(x, d, i), d, i, "overlay"), !.ok = FALSE]
  <2> DEFINE y == SetComp(Detach(x, d, i), d, i, "overlay")
  <2>1. Step(x, y, d, i)
    <3> HIDE DEF y
    <3>1. y = SetComp(Detach(x, d, i), d, i, "overlay") /\ "overlay" \in Comps
      BY DEF y, Comps
    <3>2. x.ml[d][i].plane # NoPlane /\ (Yuv(x.ml[d][i].kind) \/ d = "hdmi")
      BY <1>2, <1>5 DEF Displays
    <3> QED
      BY <1>5, <3>1, <3>2, LoseStep
  <2> HIDE DEF y
  <2>2. Step(s, y, d, i) /\ y \in States
    BY <1>6, <2>1, StepOn DEF Step, Keeps
  <2>3. t = [s |-> y, ok |-> FALSE, yuv |-> u.yuv]
    BY <1>11 DEF Updates, y
  <2> QED
    BY <2>2, <2>3, Fails
<1>12. CASE t = [u EXCEPT !.s = late]
  <2>1. t = [u EXCEPT !.s = late, !.yuv = u.yuv]
    BY <1>12 DEF Updates
  <2>2. Step(s, late, d, i) /\ (d = "mipi" => (Plain(s) => Plain(late)))
    BY <1>1, <1>7, QuietStep
  <2> QED
    BY <2>1, <2>2, Stays
<1>13. CASE t = ToFramebuffer([u EXCEPT !.s = late], d, i)
  BY <1>7, <1>9, <1>13, Composes DEF WithState
<1>14. CASE t = DropPlane([u EXCEPT !.s = x], d, i)
  <2>1. t = ToFramebuffer([u EXCEPT !.s = Detach(x, d, i)], d, i)
    BY <1>14 DEF DropPlane, Updates
  <2> QED
    BY <1>4, <2>1, Drops DEF WithState
<1>15. CASE t = [u EXCEPT !.s = set, !.yuv = v]
  <2>1. data \in States /\ Sound(data) /\ i \in DOMAIN data.ml[d] /\ data.ml[d][i].kind = l.kind
    BY <1>8 DEF Quiet, Keeps, Local
  <2>2. set = SetComp(data, d, i, "overlay") /\ (Yuv(data.ml[d][i].kind) \/ d = "hdmi")
    BY <1>2, <2>1 DEF Displays
  <2>3. v \in {u.yuv, i} /\ (v = i => l.kind = "video" \/ v = u.yuv)
    OBVIOUS
  <2> HIDE DEF set, v
  <2>4. Step(data, set, d, i) /\ (d = "mipi" => (Plain(data) => Plain(set)))
    BY <2>1, <2>2, HideStep
  <2>5. Step(s, data, d, i) /\ (d = "mipi" => (Plain(s) => Plain(data)))
    BY <1>1, <1>8, QuietStep
  <2>6. Step(s, set, d, i) /\ (d = "mipi" => (Plain(s) => Plain(set)))
    BY <2>4, <2>5, StepOn
  <2> QED
    BY <1>15, <2>3, <2>6, Stays
<1> QED
  BY <1>3, <1>10, <1>11, <1>12, <1>13, <1>14, <1>15

\* What one layer gets in a frame.
LEMMA UpdateLayerStep ==
  ASSUME NEW u \in Updates, Sound(u.s), Sprites = {}, NEW d \in Displays, NEW i \in DOMAIN u.s.ml[d],
         mds.off \in BOOLEAN, NEW in, NEW t, t = UpdateLayer(u, d, i, in)
  PROVE  Did(u, t, d, i)
<1> DEFINE s == u.s
           l == s.ml[d][i]
           p == l.plane
           shows == IsHWCLayer(l.kind) /\ p # NoPlane
           lost == \/ Faulty(in, d, i, "tiny")
                   \/ p.type # "ov" /\ Faulty(in, d, i, "bad")
           data == SetData(s, p, mds.off)
<1>1. s \in States /\ p \in Planes \cup {NoPlane}
  <2>1. s \in States
    BY DEF Updates
  <2> QED
    BY <2>1, Layer
<1>2. \/ shows /\ t = DropPlane(u, d, i)
      \/ shows /\ p.type = "ov" /\ t = UpdateOverlay(u, d, i, in)
      \/ shows /\ p.type = "rgb" /\ t = [u EXCEPT !.s = data]
      \/ t = u
  <2> DEFINE A == DropPlane(u, d, i)
             B == UpdateOverlay(u, d, i, in)
             C == [u EXCEPT !.s = data]
  <2>1. t = CASE shows /\ lost -> A
              [] shows /\ ~lost /\ p.type = "ov" -> B
              [] shows /\ ~lost /\ p.type = "rgb" /\ ~Faulty(in, d, i, "noconv") -> C
              [] OTHER -> u
    BY Zenon DEF UpdateLayer
  <2> HIDE DEF A, B, C, shows, lost, p
  <2> QED
    BY <2>1 DEF A, B, C
<1>3. CASE shows /\ t = DropPlane(u, d, i)
  <2>1. t = ToFramebuffer(WithState(u, Detach(s, d, i)), d, i)
    BY <1>3 DEF DropPlane, WithState
  <2>2. Quiet(s, s, d, i)
    BY <1>1, Reflexive DEF Quiet
  <2> QED
    BY <1>3, <2>1, <2>2, Drops
<1>4. CASE shows /\ p.type = "ov" /\ t = UpdateOverlay(u, d, i, in)
  BY <1>4, UpdateOverlayStep
<1>5. CASE shows /\ p.type = "rgb" /\ t = [u EXCEPT !.s = data]
  <2>1. p \in OverlayPlanes
    BY <1>1, <1>5, PlaneTypes
  <2>2. Quiet(s, data, d, i)
    <3> HIDE DEF data
    <3>1. data = SetData(s, s.ml[d][i].plane, mds.off)
      BY DEF data
    <3> QED
      BY <1>1, <2>1, <3>1, BufferStep
  <2> HIDE DEF data
  <2>3. Step(s, data, d, i) /\ (d = "mipi" => (Plain(s) => Plain(data)))
    BY <1>1, <2>2, QuietStep
  <2>4. t = [u EXCEPT !.s = data, !.yuv = u.yuv]
    BY <1>5 DEF Updates
  <2> QED
    BY <2>3, <2>4, Stays
<1>6. CASE t = u
  BY <1>1, <1>6, Reflexive DEF Did, Step
<1> QED
  BY <1>2, <1>3, <1>4, <1>5, <1>6

\* The first i layers of display d have got what the frame brings.
UpdatedTo(s, u, d, i) ==
  /\ u \in Updates /\ Keeps(s, u.s) /\ Lengths(s, u.s) /\ Shape(s, u.s)
  /\ d = "hdmi" => Aside(s, u.s)
  /\ d = "mipi" /\ Plain(s) => Settled(u.s, 0) /\ (u.ok => Plain(u.s))
  /\ d = "mipi" /\ u.yuv # 0 =>
       u.yuv \in DOMAIN s.ml["mipi"] /\ s.ml["mipi"][u.yuv].kind = "video"

LEMMA UpdatedStep ==
  ASSUME NEW s \in States, Sprites = {}, NEW d \in Displays, NEW i \in DOMAIN s.ml[d], NEW u,
         UpdatedTo(s, u, d, i - 1), mds.off \in BOOLEAN, NEW in, NEW t, t = UpdateLayer(u, d, i, in)
  PROVE  UpdatedTo(s, t, d, i)
<1>1. /\ u \in Updates /\ Keeps(s, u.s) /\ Lengths(s, u.s) /\ Shape(s, u.s)
      /\ d = "hdmi" => Aside(s, u.s)
      /\ d = "mipi" /\ Plain(s) => Settled(u.s, 0) /\ (u.ok => Plain(u.s))
      /\ d = "mipi" /\ u.yuv # 0 =>
           u.yuv \in DOMAIN s.ml["mipi"] /\ s.ml["mipi"][u.yuv].kind = "video"
  BY DEF UpdatedTo
<1>2. Sound(u.s) /\ i \in DOMAIN u.s.ml[d]
  BY <1>1 DEF Keeps, Lengths
<1>3. Did(u, t, d, i)
  BY <1>1, <1>2, UpdateLayerStep
<1>4. /\ t \in Updates /\ Keeps(u.s, t.s) /\ Local(u.s, t.s, d, i)
      /\ d = "mipi" => (Settled(u.s, 0) => Settled(t.s, 0))
      /\ t.ok => u.ok /\ (d = "mipi" => (Plain(u.s) => Plain(t.s)))
      /\ t.yuv = u.yuv \/ (t.yuv = i /\ u.s.ml[d][i].kind = "video")
  BY <1>3 DEF Did, Step
<1>5. Lengths(u.s, t.s) /\ Shape(u.s, t.s) /\ (d = "hdmi" => Aside(u.s, t.s))
  BY <1>4, LocalShape
<1>6. Keeps(s, t.s) /\ Lengths(s, t.s) /\ Shape(s, t.s)
  BY <1>1, <1>4, <1>5, KeepsOn, ShapeOn
<1>7. d = "hdmi" => Aside(s, t.s)
  BY <1>1, <1>5 DEF Aside
<1>8. d = "mipi" => u.s.ml[d][i].kind = s.ml["mipi"][i].kind
  BY <1>1 DEF Shape
<1> QED
  BY <1>1, <1>4, <1>6, <1>7, <1>8 DEF UpdatedTo

LEMMA UpdateLayersFacts ==
  ASSUME NEW s \in States, Sound(s), Sprites = {}, NEW d \in Displays, mds.off \in BOOLEAN, NEW in
  PROVE  UpdatedTo(s, UpdateLayers(s, d, in), d, Len(s.ml[d]))
<1> DEFINE start == [s |-> s, ok |-> TRUE, yuv |-> 0]
<1>0. /\ start \in Updates /\ start.s = s /\ start.yuv = 0
      /\ UpdateLayers(s, d, in) =
           LET updated[i \in 0..Len(s.ml[d])] ==
                 IF i = 0 THEN start ELSE UpdateLayer(updated[i - 1], d, i, in)
           IN updated[Len(s.ml[d])]
  BY DEF Updates, UpdateLayers
<1> HIDE DEF start
<1> DEFINE n == Len(s.ml[d])
           Loop(f) == [i \in 0..n |-> IF i = 0 THEN start ELSE UpdateLayer(f[i - 1], d, i, in)]
           updated == CHOOSE f : f = Loop(f)
           G == [i \in 0..n |-> {x \in Updates : UpdatedTo(s, x, d, i)}]
           T == [y \in (1..n) \X Updates |->
                   IF UpdateLayer(y[2], d, y[1], in) \in Updates THEN UpdateLayer(y[2], d, y[1], in) ELSE start]
<1>1. UpdateLayers(s, d, in) = updated[n]
  BY <1>0
<1>2. n \in Nat /\ DOMAIN s.ml[d] = 1..n
  BY Layer
<1> HIDE DEF n
<1>3. start \in Updates /\ UpdatedTo(s, start, d, 0)
  BY <1>0, <1>2, PlainIsSettled, Reflexive DEF UpdatedTo, Lengths, Shape, Aside
<1>4. ASSUME NEW i \in 1..n, NEW x, UpdatedTo(s, x, d, i - 1)
      PROVE  UpdateLayer(x, d, i, in) \in Updates /\ UpdatedTo(s, UpdateLayer(x, d, i, in), d, i)
  <2>1. UpdatedTo(s, UpdateLayer(x, d, i, in), d, i)
    BY <1>2, <1>4, UpdatedStep
  <2> QED
    BY <2>1 DEF UpdatedTo
<1>5. /\ G \in [0..n -> SUBSET Updates]
      /\ \A i \in 0..n, x \in Updates : x \in G[i] <=> UpdatedTo(s, x, d, i)
  OBVIOUS
<1>6. /\ T \in [(1..n) \X Updates -> Updates]
      /\ \A i \in 1..n, x \in Updates :
           UpdateLayer(x, d, i, in) \in Updates => T[<<i, x>>] = UpdateLayer(x, d, i, in)
  BY <1>3
<1> HIDE DEF G, T
<1>7. PICK f \in [0..n -> Updates] :
        f[0] = start /\ \A i \in 1..n : f[i - 1] \in G[i - 1] /\ f[i] = T[<<i, f[i - 1]>>]
  <2>1. start \in G[0]
    BY <1>2, <1>3, <1>5
  <2>2. ASSUME NEW i \in 1..n, NEW x \in G[i - 1] PROVE T[<<i, x>>] \in G[i]
    <3>1. i \in 0..n /\ i - 1 \in 0..n
      BY <1>2
    <3>2. x \in Updates /\ UpdatedTo(s, x, d, i - 1)
      BY <1>5, <3>1
    <3> QED
      BY <1>4, <1>5, <1>6, <3>1, <3>2
  <2>3. Leads(n, G, T)
    BY <2>2 DEF Leads
  <2>4. n \in Nat /\ G \in [0..n -> SUBSET Updates] /\ T \in [(1..n) \X Updates -> Updates]
    BY <1>2, <1>5, <1>6
  <2>5. PICK f \in [0..n -> Updates] : Follows(f, start, T, n) /\ Within(f, n, G)
    BY <2>1, <2>3, <2>4, LoopExists
  <2> QED
    BY <2>5 DEF Follows, Within
<1>8. f = Loop(f)
  <2>1. ASSUME NEW i \in 1..n PROVE f[i] = UpdateLayer(f[i - 1], d, i, in)
    <3>1. f[i - 1] \in G[i - 1] /\ f[i] = T[<<i, f[i - 1]>>]
      BY <1>7
    <3>2. i - 1 \in 0..n
      BY <1>2
    <3>3. f[i - 1] \in Updates /\ UpdatedTo(s, f[i - 1], d, i - 1)
      BY <1>5, <3>1, <3>2
    <3> QED
      BY <1>4, <1>6, <3>1, <3>3
  <2> QED
    BY <1>2, <1>7, <2>1
<1>9. updated = Loop(updated)
  BY <1>8
<1> HIDE DEF updated
<1> DEFINE good == {i \in 0..n : UpdatedTo(s, updated[i], d, i)}
<1>10. 0 \in good
  <2>1. Loop(updated)[0] = start /\ 0 \in 0..n
    BY <1>2
  <2> QED
    BY <1>3, <1>9, <2>1
<1>11. ASSUME NEW i \in 1..n, i - 1 \in good PROVE i \in good
  <2>1. Loop(updated)[i] = UpdateLayer(updated[i - 1], d, i, in)
    BY <1>2
  <2> HIDE DEF Loop
  <2> QED
    BY <1>4, <1>9, <1>11, <2>1
<1> HIDE DEF good
<1>12. 0..n \subseteq good
  BY <1>2, <1>10, <1>11, CountingUp
<1>13. n \in good
  BY <1>2, <1>12
<1> QED
  BY <1>1, <1>13 DEF good, n

-----------------------------------------------------------------------------
(* handleSmartComposition.                                                  *)

\* Other composition types for the panel's layers.
LEMMA RetypeStep ==
  ASSUME NEW s \in States, Sound(s), NEW ls \in Seq(Given), DOMAIN ls = DOMAIN s.sf["mipi"].ls,
         \A i \in DOMAIN ls : ls[i].kind = s.sf["mipi"].ls[i].kind,
         NEW v \in DOMAIN s.ml["mipi"], Yuv(s.ml["mipi"][v].kind),
         NEW t, t = [s EXCEPT !.sf["mipi"].ls = ls]
  PROVE  Keeps(s, t)
<1> DEFINE h == [s.sf["mipi"] EXCEPT !.ls = ls]
           m == [s.sf EXCEPT !["mipi"] = h]
<1>1. t = [s EXCEPT !.sf = m]
  OBVIOUS
<1>2. s.sf \in GivenLists /\ s.sf["mipi"] \in Handed
  BY Fields DEF GivenLists, Displays
<1>3. h \in Handed /\ h.ls = ls
  BY <1>2 DEF Handed
<1> HIDE DEF h
<1>4. m \in GivenLists /\ m["mipi"] = h
  BY <1>2, <1>3 DEF GivenLists, Displays
<1> HIDE DEF m
<1>5. /\ t \in States /\ t.free = s.free /\ t.recl = s.recl
      /\ t.lit = s.lit /\ t.mapped = s.mapped /\ t.pipe = s.pipe
      /\ t.flip = s.flip /\ t.hw = s.hw /\ t.ml = s.ml /\ t.sf = m /\ Rest(t) = Rest(s)
  BY <1>1, <1>4, SetSf
<1>6. Accounted(t)
  BY <1>5, SameBooks DEF Sound
<1>7. Shown(t) /\ Flipped(t) /\ (Piped(s) => Piped(t))
  BY <1>5 DEF Sound, Shown, Flipped, Piped
<1>8. Listed(t)
  BY <1>3, <1>4, <1>5 DEF Sound, Listed
<1>9. Suited(t)
  <2> SUFFICES ASSUME NEW j \in DOMAIN s.ml["mipi"] PROVE SuitedLayer(t, j)
    BY <1>5 DEF Suited
  <2>1. SuitedLayer(s, j)
    BY DEF Sound, Suited
  <2>2. s.ml["mipi"][j].plane.type # "rgb"
    BY <2>1 DEF SuitedLayer
  <2> QED
    BY <1>5, <2>1, <2>2 DEF SuitedLayer
<1> QED
  BY <1>5, <1>6, <1>7, <1>8, <1>9 DEF Keeps, Sound

LEMMA SmartStep ==
  ASSUME NEW s \in States, Sound(s), NEW geo \in BOOLEAN, NEW yuv,
         yuv # 0 => yuv \in DOMAIN s.ml["mipi"] /\ Yuv(s.ml["mipi"][yuv].kind),
         NEW in, NEW t, t = SmartComposition(s, geo, yuv, in)
  PROVE  /\ t \in States /\ Sound(t) /\ (Piped(s) => Piped(t)) /\ t.hot = s.hot /\ t.blank = s.blank
         /\ ~t.gles /\ Plain(s) => Plain(t)
         /\ ~geo => t.gles = s.gles
<1> DEFINE ls == s.sf["mipi"].ls
           g == \E i \in DOMAIN ls : ls[i].comp = "fb" /\ ~Yuv(ls[i].kind)
           h == \E i \in DOMAIN ls : ls[i].kind = "dim"
           u == IF ~geo THEN s ELSE [s EXCEPT !.gles = g, !.hasSkip = h]
           dirty == geo \/ in.dirty
           none == yuv = 0 \/ ~u.gles \/ u.hasSkip \/ Len(ls) \notin 3..5
           new == [i \in DOMAIN ls |-> IF i = yuv THEN ls[i]
                                       ELSE [ls[i] EXCEPT !.comp = IF u.skip THEN "fb" ELSE "overlay"]]
<1>1. /\ u \in States /\ Core(u) = Core(s) /\ u.hot = s.hot /\ u.blank = s.blank
      /\ ~geo => u.gles = s.gles
  <2>1. CASE ~geo
    BY <2>1
  <2>2. CASE geo
    <3>1. g \in BOOLEAN /\ h \in BOOLEAN /\ u = WithGles(s, g, h)
      BY <2>2 DEF WithGles
    <3> HIDE DEF g, h, u
    <3>2. u \in States /\ Core(u) = Core(s) /\ u.hot = s.hot /\ u.blank = s.blank
      BY <3>1, SetGles
    <3> QED
      BY <2>2, <3>2
  <2> QED
    BY <2>1, <2>2
<1> DEFINE A == [u EXCEPT !.skip = FALSE]
           B == [u EXCEPT !.skip = ~u.skip, !.sf["mipi"].ls = new]
<1>2. t = A \/ t = u \/ (yuv # 0 /\ u.gles /\ t = B)
  <2>1. t = IF none THEN A ELSE IF u.skip # dirty THEN u ELSE B
    BY Zenon DEF SmartComposition
  <2>2. ~none => yuv # 0 /\ u.gles
    OBVIOUS
  <2> HIDE DEF A, B, none, dirty, u, new
  <2>3. t = A \/ t = u \/ (~none /\ t = B)
    BY <2>1
  <2> QED
    BY <2>2, <2>3, Zenon
<1> HIDE DEF u
<1>3. Sound(u) /\ (Piped(s) => Piped(u)) /\ (Plain(s) => Plain(u)) /\ u.ml = s.ml /\ u.sf = s.sf
  BY <1>1, SameCore
<1>4. ls \in Seq(Given)
  BY Fields DEF GivenLists, Handed, Displays
<1>5. u.skip \in BOOLEAN /\ (u.gles \in BOOLEAN)
  BY <1>1 DEF States
<1>6. CASE t = [u EXCEPT !.skip = FALSE]
  <2>1. t \in States /\ Core(t) = Core(u) /\ t.hot = u.hot /\ t.gles = u.gles /\ t.blank = u.blank
    BY <1>1, <1>6, SetSkip
  <2> QED
    BY <1>1, <1>3, <2>1, SameCore
<1>7. CASE t = u
  BY <1>1, <1>3, <1>7
<1>8. CASE yuv # 0 /\ u.gles /\ t = [u EXCEPT !.skip = ~u.skip, !.sf["mipi"].ls = new]
  <2> DEFINE w == [u EXCEPT !.skip = ~u.skip]
             c == IF u.skip THEN "fb" ELSE "overlay"
  <2>1. t = [w EXCEPT !.sf["mipi"].ls = new]
    BY <1>8
  <2>2. w \in States /\ Core(w) = Core(u) /\ w.hot = u.hot /\ w.gles = u.gles /\ w.blank = u.blank
    <3> HIDE DEF w
    <3>1. w = [u EXCEPT !.skip = ~u.skip]
      BY DEF w
    <3> QED
      BY <1>1, <3>1, TurnSkip
  <2> HIDE DEF w
  <2>3. Sound(w) /\ (Piped(u) => Piped(w)) /\ w.ml = s.ml /\ w.sf = s.sf
    BY <1>3, <2>2, SameCore
  <2>4. new \in Seq(Given) /\ DOMAIN new = DOMAIN ls /\ \A i \in DOMAIN new : new[i].kind = ls[i].kind
    <3> HIDE DEF ls
    <3>1. Len(ls) \in Nat /\ DOMAIN ls = 1..Len(ls) /\ \A i \in DOMAIN ls : ls[i] \in Given
      BY <1>4, Elements
    <3>2. c \in Comps
      BY DEF Comps
    <3> HIDE DEF c
    <3>3. new = [i \in 1..Len(ls) |-> IF i = yuv THEN ls[i] ELSE [ls[i] EXCEPT !.comp = c]]
      BY <3>1 DEF c
    <3>4. ASSUME NEW e \in Given PROVE [e EXCEPT !.comp = c] \in Given /\ [e EXCEPT !.comp = c].kind = e.kind
      BY <3>2 DEF Given
    <3>5. \A i \in 1..Len(ls) : /\ (IF i = yuv THEN ls[i] ELSE [ls[i] EXCEPT !.comp = c]) \in Given
                                /\ (IF i = yuv THEN ls[i] ELSE [ls[i] EXCEPT !.comp = c]).kind = ls[i].kind
      BY <3>1, <3>4
    <3>6. new \in [1..Len(ls) -> Given] /\ \A i \in 1..Len(ls) : new[i].kind = ls[i].kind
      BY <3>3, <3>5
    <3> HIDE DEF new
    <3> QED
      BY <3>1, <3>6, SeqDef
  <2> HIDE DEF new
  <2>5. Keeps(w, t)
    <3>1. yuv \in DOMAIN w.ml["mipi"] /\ Yuv(w.ml["mipi"][yuv].kind)
      BY <1>8, <2>3
    <3>2. DOMAIN new = DOMAIN w.sf["mipi"].ls /\ \A i \in DOMAIN new : new[i].kind = w.sf["mipi"].ls[i].kind
      BY <2>3, <2>4
    <3> QED
      BY <2>1, <2>2, <2>3, <2>4, <3>1, <3>2, RetypeStep
  <2>6. t.gles = u.gles /\ t.hot = u.hot /\ t.blank = u.blank
    BY <2>2, <2>5 DEF Keeps, Rest
  <2> QED
    BY <1>1, <1>3, <1>8, <2>3, <2>5, <2>6 DEF Keeps
<1> QED
  BY <1>2, <1>6, <1>7, <1>8

-----------------------------------------------------------------------------
(* prepare.                                                                 *)

\* The composer between two calls: the panel's overlays are on its pipe unless a
\* mode change is yet to be handled, and what smart composition does not disturb.
Good(s) == s \in States /\ Sound(s) /\ (s.hot["mipi"] \/ Piped(s)) /\ (s.gles \/ Plain(s))

LEMMA PlainComposes ==
  ASSUME NEW s, Listed(s), Plain(s)
  PROVE  DimComposed(s)
BY DEF Listed, Plain, Composing, DimComposed

\* prepare of the panel, with a list that SurfaceFlinger may just have handed over.
LEMMA PreparePanelStep ==
  ASSUME NEW s0 \in States, Based(s0), Sprites = {}, NEW geo \in BOOLEAN,
         geo => DimComposed(s0) /\ ~s0.blank["mipi"], ~geo => Good(s0),
         mds.off \in BOOLEAN, mds.video \in BOOLEAN, NEW in, NEW z, z = PreparePanel(s0, geo, in)
  PROVE  Good(z)
<1> DEFINE due == s0.recl["overlay"] # {} /\ (~s0.shot \/ s0.cnt = 2)
           s == IF due THEN [DisableReclaimedOverlays(s0) EXCEPT !.cnt = 0]
                ELSE IF s0.recl["overlay"] # {} THEN [s0 EXCEPT !.cnt = s0.cnt + 1] ELSE s0
           trick == Trick(s, "mipi", in)
           redo == \/ geo \/ s.hot["mipi"]
                   \/ trick # s.seek["mipi"]
                   \/ mds.video # s.player
           t == [s EXCEPT !.seek["mipi"] = trick, !.player = mds.video]
           g == IF redo THEN [PanelGeometry(t) EXCEPT !.hot["mipi"] = FALSE] ELSE t
           u == UpdateLayers(g, "mipi", in)
           r == IF u.ok THEN u.s ELSE Revisit(u.s, "mipi")
<1>1. z = IF s0.blank["mipi"] THEN s0 ELSE SmartComposition(r, geo, u.yuv, in)
  BY Zenon DEF PreparePanel
<1>2. "mipi" \in Displays
  BY DEF Displays
<1>3. /\ s \in States /\ Based(s) /\ s.ml = s0.ml /\ s.sf = s0.sf /\ s.pipe = s0.pipe
      /\ s.hot = s0.hot /\ s.gles = s0.gles
  <2>1. CASE due
    <3> DEFINE d == DisableReclaimedOverlays(s0)
    <3>1. /\ d \in States /\ Accounted(d) /\ Shown(d)
          /\ d.pipe = s0.pipe /\ d.flip = s0.flip /\ d.ml = s0.ml /\ d.sf = s0.sf /\ Rest(d) = Rest(s0)
      <4> HIDE DEF d
      <4>1. d = DisableReclaimedOverlays(s0)
        BY DEF d
      <4> QED
        BY <4>1, ReclaimOverlays DEF Based
    <3> HIDE DEF d
    <3>2. Based(d) /\ d.hot = s0.hot /\ d.gles = s0.gles
      BY <3>1 DEF Based, Flipped, Rest
    <3>3. s = [d EXCEPT !.cnt = 0]
      BY <2>1 DEF d
    <3> HIDE DEF s
    <3>4. s \in States /\ Core(s) = Core(d) /\ s.hot = d.hot /\ s.gles = d.gles
      BY <3>1, <3>3, SetCount DEF Counts
    <3> QED
      BY <3>1, <3>2, <3>4, SameCore
  <2>2. CASE ~due /\ s0.recl["overlay"] # {}
    <3>1. s0.cnt \in Counts /\ s0.cnt # 2
      BY <2>2 DEF States
    <3>2. s0.cnt + 1 \in Counts /\ s = [s0 EXCEPT !.cnt = s0.cnt + 1]
      BY <2>2, <3>1 DEF Counts
    <3> HIDE DEF s
    <3>3. s \in States /\ Core(s) = Core(s0) /\ s.hot = s0.hot /\ s.gles = s0.gles
      BY <3>2, SetCount
    <3> QED
      BY <3>3, SameCore
  <2>3. CASE ~due /\ s0.recl["overlay"] = {}
    BY <2>3
  <2> QED
    BY <2>1, <2>2, <2>3
<1> HIDE DEF s
<1>4. /\ t \in States /\ Core(t) = Core(s) /\ t.hot = s.hot /\ t.gles = s.gles
  <2> DEFINE w == [s EXCEPT !.seek["mipi"] = trick]
  <2>1. trick \in BOOLEAN
    BY DEF Trick
  <2> HIDE DEF trick
  <2>2. w \in States /\ Core(w) = Core(s) /\ w.hot = s.hot /\ w.gles = s.gles
    <3> HIDE DEF w
    <3>1. w = [s EXCEPT !.seek["mipi"] = trick]
      BY DEF w
    <3> QED
      BY <1>2, <1>3, <2>1, <3>1, SetSeek
  <2>3. t = [w EXCEPT !.player = mds.video]
    OBVIOUS
  <2> HIDE DEF w, t
  <2>4. t \in States /\ Core(t) = Core(w) /\ t.hot = w.hot /\ t.gles = w.gles
    BY <2>2, <2>3, SetPlayer
  <2> QED
    BY <2>2, <2>4
<1> HIDE DEF t
<1>5. Based(t) /\ t.ml = s0.ml /\ t.sf = s0.sf /\ t.pipe = s0.pipe
  BY <1>3, <1>4, SameCore
<1>6. ASSUME ~geo
      PROVE  /\ Sound(t) /\ (s0.hot["mipi"] \/ Piped(t)) /\ (s0.gles \/ Plain(t))
             /\ s0.gles \/ DimComposed(t)
  <2>1. Sound(s0) /\ (s0.hot["mipi"] \/ Piped(s0)) /\ (s0.gles \/ Plain(s0))
    BY <1>6 DEF Good
  <2>2. Listed(t) /\ Suited(t) /\ (Plain(s0) => Plain(t))
    BY <1>5, <2>1, SameLists DEF Sound, Plain
  <2>3. Piped(s0) => Piped(t)
    BY <1>5 DEF Piped
  <2> QED
    BY <1>5, <2>1, <2>2, <2>3, PlainComposes DEF Sound, Based
\* The planes are assigned anew, or they need not be.
<1>7. g \in States /\ Sound(g) /\ Piped(g) /\ g.gles = s0.gles /\ (geo \/ ~s0.gles => Plain(g))
  <2>1. CASE redo
    <3> DEFINE p == PanelGeometry(t)
    <3>1. /\ p \in States /\ Sound(p) /\ Piped(p) /\ (DimComposed(t) => Plain(p)) /\ p.gles = t.gles
      <4> HIDE DEF p
      <4>1. p = PanelGeometry(t)
        BY DEF p
      <4> QED
        BY <1>4, <1>5, <4>1, PanelGeometryStep
    <3> HIDE DEF p
    <3>2. g = [p EXCEPT !.hot["mipi"] = FALSE]
      BY <2>1 DEF p
    <3> HIDE DEF g, redo
    <3>3. g \in States /\ Core(g) = Core(p) /\ g.gles = p.gles
      BY <1>2, <3>1, <3>2, ClearHot
    <3>4. Sound(g) /\ Piped(g) /\ (DimComposed(t) => Plain(g))
      BY <3>1, <3>3, SameCore
    <3>5. geo => DimComposed(t)
      BY <1>5 DEF DimComposed, CompOf
    <3> QED
      BY <1>3, <1>4, <1>6, <3>1, <3>3, <3>4, <3>5
  <2>2. CASE ~redo
    <3>1. ~geo /\ ~s0.hot["mipi"] /\ g = t
      BY <1>3, <2>2
    <3> HIDE DEF g, redo
    <3> QED
      BY <1>3, <1>4, <1>6, <3>1
  <2> QED
    BY <2>1, <2>2
<1> HIDE DEF g
<1>8. UpdatedTo(g, u, "mipi", Len(g.ml["mipi"]))
  BY <1>2, <1>7, UpdateLayersFacts
<1> HIDE DEF u
<1>9. /\ u.s \in States /\ Sound(u.s) /\ Keeps(g, u.s) /\ Shape(g, u.s)
      /\ Plain(g) => Settled(u.s, 0) /\ (u.ok => Plain(u.s))
      /\ u.yuv # 0 => u.yuv \in DOMAIN g.ml["mipi"] /\ g.ml["mipi"][u.yuv].kind = "video"
  BY <1>8 DEF UpdatedTo, Keeps
<1>10. Keeps(g, r) /\ Shape(g, r) /\ (Plain(g) => Plain(r))
  <2>1. CASE u.ok
    BY <1>9, <2>1
  <2>2. CASE ~u.ok
    <3>1. RevisitedTo(u.s, r, "mipi", Len(u.s.ml["mipi"]))
      BY <1>2, <1>9, <2>2, RevisitFacts
    <3> HIDE DEF r
    <3>2. Keeps(u.s, r) /\ Shape(u.s, r) /\ Lengths(u.s, r) /\ (Settled(u.s, 0) => Settled(r, Len(u.s.ml["mipi"])))
      BY <3>1 DEF RevisitedTo
    <3>3. Keeps(g, r)
      BY <1>9, <3>2, KeepsOn
    <3>4. Shape(g, r)
      BY <1>9, <3>2 DEF Shape
    <3> QED
      BY <1>9, <3>2, <3>3, <3>4 DEF Shape, Settled, Plain
  <2> QED
    BY <2>1, <2>2
<1> HIDE DEF r
<1>11. CASE ~s0.blank["mipi"]
  <2>1. r \in States /\ Sound(r) /\ Piped(r) /\ r.gles = s0.gles
    BY <1>7, <1>10 DEF Keeps, Rest
  <2>2. u.yuv # 0 => u.yuv \in DOMAIN r.ml["mipi"] /\ Yuv(r.ml["mipi"][u.yuv].kind)
    BY <1>9, <1>10 DEF Shape, Yuv
  <2>3. z = SmartComposition(r, geo, u.yuv, in)
    BY <1>1, <1>11
  <2>4. /\ z \in States /\ Sound(z) /\ (Piped(r) => Piped(z))
        /\ ~z.gles /\ Plain(r) => Plain(z)
        /\ ~geo => z.gles = r.gles
    BY <2>1, <2>2, <2>3, SmartStep
  <2> QED
    BY <1>7, <1>10, <2>1, <2>4 DEF Good
<1>12. CASE s0.blank["mipi"]
  BY <1>1, <1>12
<1> QED
  BY <1>11, <1>12

\* prepare of HDMI leaves the panel alone.
LEMMA PrepareHdmiStep ==
  ASSUME NEW s, Good(s), Sprites = {}, mds.off \in BOOLEAN, NEW geo, NEW in,
         NEW z, z = PrepareHdmi(s, geo, in)
  PROVE  Good(z)
<1> DEFINE trick == Trick(s, "hdmi", in)
           t == [s EXCEPT !.seek["hdmi"] = trick]
           hint == CHOOSE i \in DOMAIN s.sf["hdmi"].ls : s.sf["hdmi"].ls[i].kind = "video"
           h == HdmiGeometry(t)
           g == IF geo \/ trick # s.seek["hdmi"]
                THEN IF trick THEN SetComp(h, "hdmi", hint, "fb") ELSE h
                ELSE t
           f == [g EXCEPT !.hot["hdmi"] = FALSE]
           u == UpdateLayers(f, "hdmi", in)
<1>1. z = s \/ z = u.s \/ z = Revisit(u.s, "hdmi")
  <2>1. z = CASE s.blank["hdmi"] -> s
              [] ~s.blank["hdmi"] /\ u.ok -> u.s
              [] OTHER -> Revisit(u.s, "hdmi")
    BY Zenon DEF PrepareHdmi
  <2> HIDE DEF u
  <2> QED
    BY <2>1
<1>2. "hdmi" \in Displays /\ "mipi" \in Displays /\ "hdmi" # "mipi" /\ "fb" \in Comps
  BY DEF Displays, Comps
<1>3. s \in States /\ Sound(s)
  BY DEF Good
<1>4. t \in States /\ Core(t) = Core(s) /\ t.hot = s.hot /\ t.gles = s.gles
  <2>1. trick \in BOOLEAN
    BY DEF Trick
  <2> HIDE DEF trick, t
  <2>2. t = [s EXCEPT !.seek["hdmi"] = trick]
    BY DEF t
  <2> QED
    BY <1>2, <1>3, <2>1, <2>2, SetSeek
<1> HIDE DEF t, trick
<1>5. Sound(t) /\ (Piped(s) => Piped(t)) /\ (Plain(s) => Plain(t))
  BY <1>3, <1>4, SameCore
<1>6. Keeps(t, h) /\ Aside(t, h)
  BY <1>4, <1>5, HdmiGeometryStep
<1> HIDE DEF h
<1>7. Keeps(t, g) /\ Aside(t, g)
  <2>1. CASE g = SetComp(h, "hdmi", hint, "fb")
    <3>1. h \in States /\ Sound(h)
      BY <1>6 DEF Keeps
    <3> HIDE DEF g, hint
    <3>2. Keeps(h, g) /\ Aside(h, g)
      BY <1>2, <2>1, <3>1, HdmiComp
    <3> QED
      BY <1>6, <3>2, KeepsOn DEF Aside
  <2>2. CASE g = h
    BY <1>6, <2>2
  <2>3. CASE g = t
    BY <1>4, <1>5, <2>3, Reflexive DEF Aside
  <2> QED
    BY <2>1, <2>2, <2>3
<1> HIDE DEF g
<1>8. g \in States /\ Sound(g) /\ (Piped(t) => Piped(g)) /\ (Plain(t) => Plain(g)) /\ g.hot = t.hot /\ g.gles = t.gles
  BY <1>7, AsidePlain DEF Keeps, Rest
<1>9. f \in States /\ Core(f) = Core(g) /\ f.gles = g.gles /\ f.hot["mipi"] = g.hot["mipi"]
  <2> HIDE DEF f
  <2>1. f = [g EXCEPT !.hot["hdmi"] = FALSE]
    BY DEF f
  <2> QED
    BY <1>2, <1>8, <2>1, ClearHot
<1> HIDE DEF f
<1>10. Sound(f) /\ (Piped(g) => Piped(f)) /\ (Plain(g) => Plain(f))
  BY <1>8, <1>9, SameCore
<1>11. UpdatedTo(f, u, "hdmi", Len(f.ml["hdmi"]))
  BY <1>2, <1>9, <1>10, UpdateLayersFacts
<1> HIDE DEF u
<1>12. Keeps(f, u.s) /\ Aside(f, u.s) /\ u.s \in States /\ Sound(u.s)
  BY <1>11 DEF UpdatedTo, Keeps
<1>13. ASSUME NEW y, Keeps(f, y), Aside(f, y) PROVE Good(y)
  <2>1. (Plain(f) => Plain(y)) /\ y \in States /\ Sound(y) /\ (Piped(f) => Piped(y))
        /\ y.hot = f.hot /\ y.gles = f.gles
    BY <1>13, AsidePlain DEF Keeps, Rest
  <2> QED
    BY <1>4, <1>5, <1>8, <1>9, <1>10, <2>1 DEF Good
<1>14. CASE z = Revisit(u.s, "hdmi")
  <2>1. RevisitedTo(u.s, z, "hdmi", Len(u.s.ml["hdmi"]))
    BY <1>2, <1>12, <1>14, RevisitFacts
  <2>2. Keeps(u.s, z) /\ Aside(u.s, z)
    BY <2>1 DEF RevisitedTo
  <2>3. Keeps(f, z) /\ Aside(f, z)
    BY <1>12, <2>2, KeepsOn DEF Aside
  <2> QED
    BY <1>13, <2>3
<1> QED
  BY <1>1, <1>12, <1>13, <1>14

-----------------------------------------------------------------------------
(* commit, the flips, blanking.                                             *)

\* The panel flips what is on its pipe.
OnPipe(s, d, P) == d = "mipi" => \A p \in P : s.pipe[p] = "mipi"

\* Flips are posted of overlays that are on the display's pipe.
LEMMA PostStep ==
  ASSUME NEW s \in States, Sound(s), NEW d \in Displays, NEW P \in SUBSET OverlayPlanes,
         OnPipe(s, d, P), NEW t, t = Post(s, d, P)
  PROVE  Keeps(s, t) /\ t.ml = s.ml /\ t.sf = s.sf
<1> DEFINE sent(p) == [plane |-> p, pipe |-> s.pipe[p], by |-> d]
           f == [i \in Overlays |->
                   IF \E p \in P : p.i = i THEN sent(CHOOSE q \in P : q.i = i) ELSE s.flip[i]]
<1>1. s.flip \in Shows /\ s.hw \in Shows /\ s.pipe \in PipeOf
  BY Fields
<1>2. t = WithFlips(s, s.hw, f)
  BY DEF Post, WithFlips, States
<1>3. ASSUME NEW i \in Overlays
      PROVE  \/ f[i] = s.flip[i]
             \/ \E p \in P : p.i = i /\ f[i] = sent(p)
  <2>1. CASE \E p \in P : p.i = i
    <3> DEFINE c == CHOOSE q \in P : q.i = i
    <3>1. c \in P /\ c.i = i
      BY <2>1
    <3>2. f[i] = sent(c)
      BY <2>1
    <3> QED
      BY <3>1, <3>2
  <2>2. CASE ~ \E p \in P : p.i = i
    BY <2>2
  <2> QED
    BY <2>1, <2>2
<1>4. ASSUME NEW p \in P
      PROVE  /\ sent(p) \in Flips /\ sent(p).plane = p
             /\ sent(p).by = "mipi" => sent(p).pipe = "mipi"
  <2>1. p \in OverlayPlanes /\ s.pipe[p] \in Pipes
    BY <1>1 DEF PipeOf
  <2> QED
    BY <2>1 DEF Flips, Pipes, Displays, OnPipe
<1>5. f \in Shows
  <2>1. \A i \in Overlays : f[i] \in Flips
    <3> SUFFICES ASSUME NEW i \in Overlays PROVE f[i] \in Flips
      OBVIOUS
    <3>1. s.flip[i] \in Flips
      BY <1>1 DEF Shows
    <3> HIDE DEF f, sent
    <3> QED
      BY <1>3, <1>4, <3>1
  <2>2. f = [i \in Overlays |-> f[i]]
    OBVIOUS
  <2> HIDE DEF f
  <2> QED
    BY <2>1, <2>2 DEF Shows
<1> HIDE DEF f, sent
<1>6. /\ t \in States /\ t.free = s.free /\ t.recl = s.recl
      /\ t.lit = s.lit /\ t.mapped = s.mapped /\ t.pipe = s.pipe
      /\ t.flip = f /\ t.hw = s.hw /\ t.ml = s.ml /\ t.sf = s.sf /\ Rest(t) = Rest(s)
  <2> DEFINE h == s.hw
  <2>1. t = WithFlips(s, h, f) /\ h \in Shows
    BY <1>1, <1>2
  <2> HIDE DEF h
  <2>2. /\ t \in States /\ t.free = s.free /\ t.recl = s.recl
        /\ t.lit = s.lit /\ t.mapped = s.mapped /\ t.pipe = s.pipe
        /\ t.flip = f /\ t.hw = h /\ t.ml = s.ml /\ t.sf = s.sf /\ Rest(t) = Rest(s)
    BY <1>5, <2>1 DEF States, Rest, WithFlips
  <2> QED
    BY <2>2 DEF h
<1>7. Shown(t)
  <2>1. \A i \in Overlays : t.flip[i] # Dark => t.flip[i].plane.i = i
    BY <1>3, <1>4, <1>6 DEF Sound, Shown
  <2> QED
    BY <1>6, <2>1 DEF Sound, Shown
<1>8. Flipped(t) /\ (Piped(s) => Piped(t))
  BY <1>3, <1>4, <1>6 DEF Sound, Flipped, Piped
<1> QED
  BY <1>6, <1>7, <1>8, BlockStep

\* A step that leaves the panel's list alone keeps a good record good.
LEMMA GoodOn ==
  ASSUME NEW s, Good(s), NEW t, Keeps(s, t), Aside(s, t)
  PROVE  Good(t)
<1>1. Plain(s) => Plain(t)
  BY AsidePlain
<1>2. t.hot = s.hot /\ t.gles = s.gles
  BY DEF Keeps, Rest
<1> QED
  BY <1>1, <1>2 DEF Good, Keeps

LEMMA CommitStep ==
  ASSUME NEW s, Good(s), NEW d \in Displays, NEW t, t = CommitDisplay(s, d)
  PROVE  Good(t)
<1> DEFINE ready(i) ==
             LET l == s.ml[d][i]
             IN /\ l.plane \in OverlayPlanes
                /\ d = "mipi" => l.kind # "dim"
                /\ CompOf(s, d, i) = "overlay"
                /\ ~l.delay /\ ~mds.off
           P == {s.ml[d][i].plane : i \in {j \in Layers(s, d) : ready(j)}}
<1>1. t = IF s.blank[d] \/ s.hot[d] \/ (d = "hdmi" /\ ~Connected) THEN s ELSE Post(s, d, P)
  BY DEF CommitDisplay
<1>2. s \in States /\ Sound(s)
  BY DEF Good
<1>3. CASE t = s
  BY <1>3
<1>4. CASE ~s.hot[d] /\ t = Post(s, d, P)
  <2>1. P \in SUBSET OverlayPlanes
    OBVIOUS
  <2>2. ASSUME d = "mipi", NEW p \in P PROVE s.pipe[p] = "mipi"
    <3>1. PICK i \in DOMAIN s.ml["mipi"] : p = s.ml["mipi"][i].plane /\ p \in OverlayPlanes
      BY <2>2 DEF Layers
    <3>2. Piped(s)
      BY <1>4, <2>2 DEF Good
    <3> QED
      BY <3>1, <3>2 DEF Piped
  <2> HIDE DEF P
  <2>3. Keeps(s, t) /\ t.ml = s.ml /\ t.sf = s.sf
    BY <1>2, <1>4, <2>1, <2>2, PostStep DEF OnPipe
  <2> QED
    BY <2>3, GoodOn DEF Aside
<1> HIDE DEF P
<1> QED
  BY <1>1, <1>3, <1>4

\* The GPU does a flip: the display scans the block if it is on.
LEMMA LatchStep ==
  ASSUME NEW s, Good(s), NEW i \in Overlays, NEW t, t = Latch(s, i)
  PROVE  Good(t)
<1> DEFINE e == IF s.flip[i].plane \in s.lit THEN s.flip[i] ELSE Dark
           h == [s.hw EXCEPT ![i] = e]
           f == [s.flip EXCEPT ![i] = Dark]
<1>1. s \in States /\ Sound(s) /\ s.flip \in Shows /\ s.hw \in Shows
  BY Fields DEF Good
<1>2. t = WithFlips(s, h, f)
  BY DEF Latch, WithFlips
<1>3. e \in Flips /\ (e # Dark => e.plane \in s.lit /\ e.plane.i = i)
  BY <1>1 DEF Shows, Flips, Sound, Shown
<1> HIDE DEF e
<1>4. /\ h \in Shows /\ h[i] = e /\ \A j \in Overlays : j # i => h[j] = s.hw[j]
      /\ f \in Shows /\ f[i] = Dark /\ \A j \in Overlays : j # i => f[j] = s.flip[j]
  BY <1>1, <1>3 DEF Shows, Flips
<1> HIDE DEF h, f
<1>5. /\ t \in States /\ t.free = s.free /\ t.recl = s.recl
      /\ t.lit = s.lit /\ t.mapped = s.mapped /\ t.pipe = s.pipe
      /\ t.flip = f /\ t.hw = h /\ t.ml = s.ml /\ t.sf = s.sf /\ Rest(t) = Rest(s)
  BY <1>1, <1>2, <1>4 DEF States, Rest, WithFlips
<1>6. Shown(t)
  BY <1>1, <1>3, <1>4, <1>5 DEF Sound, Shown
<1>7. Flipped(t) /\ (Piped(s) => Piped(t))
  BY <1>1, <1>4, <1>5 DEF Sound, Flipped, Piped, Dark
<1>8. Keeps(s, t)
  BY <1>1, <1>5, <1>6, <1>7, BlockStep
<1> QED
  BY <1>5, <1>8, GoodOn DEF Aside

\* release of a display: its planes go dark but stay attached.
LEMMA ReleaseStep ==
  ASSUME NEW s, Good(s), NEW d \in Displays, NEW t, t = Release(s, d)
  PROVE  Good(t)
<1>1. s \in States /\ Sound(s) /\ Shown(s)
  BY DEF Good, Sound
<1>2. /\ t \in States /\ Shown(t) /\ t.free = s.free /\ t.recl = s.recl
      /\ t.pipe = s.pipe /\ t.flip = s.flip /\ t.ml = s.ml /\ t.sf = s.sf /\ Rest(t) = Rest(s)
  BY <1>1, DarkenStep DEF Release
<1>3. Flipped(t) /\ (Piped(s) => Piped(t))
  BY <1>1, <1>2 DEF Sound, Flipped, Piped
<1>4. Keeps(s, t)
  BY <1>1, <1>2, <1>3, BlockStep
<1> QED
  BY <1>2, <1>4, GoodOn DEF Aside

\* Flags that the invariant does not look at.
LEMMA GoodCore ==
  ASSUME NEW s, Good(s), NEW t \in States, Core(t) = Core(s), t.hot = s.hot, t.gles = s.gles
  PROVE  Good(t)
BY SameCore DEF Good

LEMMA SetBlank ==
  ASSUME NEW s \in States, NEW d \in Displays, NEW t,
         t = [s EXCEPT !.blank[d] = TRUE, !.owe[d] = TRUE] \/ t = [s EXCEPT !.blank[d] = FALSE]
  PROVE  t \in States /\ Core(t) = Core(s) /\ t.hot = s.hot /\ t.gles = s.gles
<1> DEFINE f == [s.blank EXCEPT ![d] = TRUE]
           g == [s.blank EXCEPT ![d] = FALSE]
           o == [s.owe EXCEPT ![d] = TRUE]
<1>1. f \in Flags /\ g \in Flags /\ o \in Flags
  BY DEF States, Flags
<1>2. t = [s EXCEPT !.blank = f, !.owe = o] \/ t = [s EXCEPT !.blank = g]
  OBVIOUS
<1> HIDE DEF f, g, o
<1>3. CASE t = [s EXCEPT !.blank = f, !.owe = o]
  BY <1>1, <1>3 DEF States, Core
<1>4. CASE t = [s EXCEPT !.blank = g]
  BY <1>1, <1>4 DEF States, Core
<1> QED
  BY <1>2, <1>3, <1>4

-----------------------------------------------------------------------------
(* A change of the display mode.                                            *)

\* The overlays of a display are switched off and may be set to another pipe.
Changed(s, x) ==
  x \in States /\ Sound(x) /\ x.ml = s.ml /\ x.sf = s.sf /\ Rest(x) = Rest(s)

LEMMA ChangedStep ==
  ASSUME NEW s \in States, NEW x, Changed(s, x), NEW p, NEW old, NEW new, NEW off,
         NEW t, t = OnDrmModeChange(x, p, old, new, off)
  PROVE  Changed(s, t)
<1>1. x \in States /\ Sound(x) /\ x.ml = s.ml /\ x.sf = s.sf /\ Rest(x) = Rest(s)
  BY DEF Changed
<1> DEFINE u == Disable(x, p)
           v == [u.pipe EXCEPT ![p] = PipeByMode(new)]
<1>2. t = x \/ (p \in OverlayPlanes /\ t = [u EXCEPT !.pipe = v])
  BY DEF OnDrmModeChange
<1>3. Keeps(x, u) /\ u.ml = x.ml /\ u.sf = x.sf
  <2> HIDE DEF u
  <2>1. u = Disable(x, p)
    BY DEF u
  <2> QED
    BY <1>1, <2>1, DisableStep
<1> HIDE DEF u
<1>4. CASE t = x
  BY <1>4
<1>5. CASE p \in OverlayPlanes /\ t = [u EXCEPT !.pipe = v]
  <2>1. u \in States /\ Sound(u) /\ Rest(u) = Rest(x)
    BY <1>3 DEF Keeps
  <2>2. v \in PipeOf
    BY <2>1, Fields DEF PipeOf, PipeByMode, Pipes
  <2> HIDE DEF v
  <2>3. /\ t \in States /\ t.free = u.free /\ t.recl = u.recl
        /\ t.lit = u.lit /\ t.mapped = u.mapped /\ t.pipe = v
        /\ t.flip = u.flip /\ t.hw = u.hw /\ t.ml = u.ml /\ t.sf = u.sf /\ Rest(t) = Rest(u)
    BY <1>5, <2>1, <2>2, SetPipe
  <2>4. Accounted(t)
    BY <2>1, <2>3, SameBooks DEF Sound
  <2>5. Shown(t) /\ Flipped(t)
    BY <2>1, <2>3 DEF Sound, Shown, Flipped
  <2>6. Listed(t) /\ Suited(t)
    BY <2>1, <2>3, SameLists DEF Sound
  <2> QED
    BY <1>1, <1>3, <2>1, <2>3, <2>4, <2>5, <2>6 DEF Changed, Sound
<1> QED
  BY <1>2, <1>4, <1>5

LEMMA ChangePlanesFacts ==
  ASSUME NEW s \in States, Sound(s), NEW d \in Displays, NEW old, NEW new, NEW off
  PROVE  Changed(s, ChangePlanes(s, d, old, new, off))
<1> DEFINE n == Len(s.ml[d])
           Loop(f) == [i \in 0..n |-> IF i = 0 THEN s ELSE OnDrmModeChange(f[i - 1], s.ml[d][i].plane, old, new, off)]
           changed == CHOOSE f : f = Loop(f)
           G == [i \in 0..n |-> {x \in States : Changed(s, x)}]
           T == [y \in (1..n) \X States |->
                   IF OnDrmModeChange(y[2], s.ml[d][y[1]].plane, old, new, off) \in States THEN OnDrmModeChange(y[2], s.ml[d][y[1]].plane, old, new, off) ELSE s]
<1>1. ChangePlanes(s, d, old, new, off) = changed[n]
  BY DEF ChangePlanes
<1>2. n \in Nat /\ DOMAIN s.ml[d] = 1..n
  BY Layer
<1> HIDE DEF n
<1>3. s \in States /\ Changed(s, s)
  BY <1>2 DEF Changed
<1>4. ASSUME NEW i \in 1..n, NEW x, Changed(s, x)
      PROVE  OnDrmModeChange(x, s.ml[d][i].plane, old, new, off) \in States /\ Changed(s, OnDrmModeChange(x, s.ml[d][i].plane, old, new, off))
  <2>1. Changed(s, OnDrmModeChange(x, s.ml[d][i].plane, old, new, off))
    BY <1>2, <1>4, ChangedStep
  <2> QED
    BY <2>1 DEF Changed
<1>5. /\ G \in [0..n -> SUBSET States]
      /\ \A i \in 0..n, x \in States : x \in G[i] <=> Changed(s, x)
  OBVIOUS
<1>6. /\ T \in [(1..n) \X States -> States]
      /\ \A i \in 1..n, x \in States :
           OnDrmModeChange(x, s.ml[d][i].plane, old, new, off) \in States => T[<<i, x>>] = OnDrmModeChange(x, s.ml[d][i].plane, old, new, off)
  BY <1>3
<1> HIDE DEF G, T
<1>7. PICK f \in [0..n -> States] :
        f[0] = s /\ \A i \in 1..n : f[i - 1] \in G[i - 1] /\ f[i] = T[<<i, f[i - 1]>>]
  <2>1. s \in G[0]
    BY <1>2, <1>3, <1>5
  <2>2. ASSUME NEW i \in 1..n, NEW x \in G[i - 1] PROVE T[<<i, x>>] \in G[i]
    <3>1. i \in 0..n /\ i - 1 \in 0..n
      BY <1>2
    <3>2. x \in States /\ Changed(s, x)
      BY <1>5, <3>1
    <3> QED
      BY <1>4, <1>5, <1>6, <3>1, <3>2
  <2>3. Leads(n, G, T)
    BY <2>2 DEF Leads
  <2>4. n \in Nat /\ G \in [0..n -> SUBSET States] /\ T \in [(1..n) \X States -> States]
    BY <1>2, <1>5, <1>6
  <2>5. PICK f \in [0..n -> States] : Follows(f, s, T, n) /\ Within(f, n, G)
    BY <2>1, <2>3, <2>4, LoopExists
  <2> QED
    BY <2>5 DEF Follows, Within
<1>8. f = Loop(f)
  <2>1. ASSUME NEW i \in 1..n PROVE f[i] = OnDrmModeChange(f[i - 1], s.ml[d][i].plane, old, new, off)
    <3>1. f[i - 1] \in G[i - 1] /\ f[i] = T[<<i, f[i - 1]>>]
      BY <1>7
    <3>2. i - 1 \in 0..n
      BY <1>2
    <3>3. f[i - 1] \in States /\ Changed(s, f[i - 1])
      BY <1>5, <3>1, <3>2
    <3> QED
      BY <1>4, <1>6, <3>1, <3>3
  <2> QED
    BY <1>2, <1>7, <2>1
<1>9. changed = Loop(changed)
  BY <1>8
<1> HIDE DEF changed
<1> DEFINE good == {i \in 0..n : Changed(s, changed[i])}
<1>10. 0 \in good
  <2>1. Loop(changed)[0] = s /\ 0 \in 0..n
    BY <1>2
  <2> QED
    BY <1>3, <1>9, <2>1
<1>11. ASSUME NEW i \in 1..n, i - 1 \in good PROVE i \in good
  <2>1. Loop(changed)[i] = OnDrmModeChange(changed[i - 1], s.ml[d][i].plane, old, new, off)
    BY <1>2
  <2> HIDE DEF Loop
  <2> QED
    BY <1>4, <1>9, <1>11, <2>1
<1> HIDE DEF good
<1>12. 0..n \subseteq good
  BY <1>2, <1>10, <1>11, CountingUp
<1>13. n \in good
  BY <1>2, <1>12
<1> QED
  BY <1>1, <1>13 DEF good, n

Hot(s, d) == [s EXCEPT !.hot[d] = TRUE]

LEMMA HotStep ==
  ASSUME NEW s \in States, NEW d \in Displays, NEW t, t = Hot(s, d)
  PROVE  /\ t \in States /\ Core(t) = Core(s) /\ t.gles = s.gles
         /\ t.hot[d] /\ \A e \in Displays : e # d => t.hot[e] = s.hot[e]
<1> DEFINE f == [s.hot EXCEPT ![d] = TRUE]
<1>1. f \in Flags /\ f[d] /\ \A e \in Displays : e # d => f[e] = s.hot[e]
  BY DEF States, Flags
<1>2. t = [s EXCEPT !.hot = f]
  BY DEF Hot
<1> HIDE DEF f
<1> QED
  BY <1>1, <1>2 DEF States, Core

\* onHotplugEvent: the panel's planes are to be assigned anew.
LEMMA HotplugStep ==
  ASSUME NEW s \in States, Sound(s), Sprites = {}, NEW d \in Displays, NEW old, NEW new, NEW off,
         NEW t, t = OnHotplugEvent(s, d, old, new, off)
  PROVE  /\ t \in States /\ Sound(t) /\ Aside(s, t) /\ t.gles = s.gles
         /\ d = "mipi" \/ s.hot["mipi"] => t.hot["mipi"]
<1> DEFINE c == ChangePlanes(s, d, old, new, off)
           h == Hot(c, d)
           r == IF off THEN DisableReclaimedOverlays(h) ELSE h
<1>1. t = r \/ t = Renew(r, "hdmi", <<>>)
  BY DEF OnHotplugEvent, Hot
<1>2. c \in States /\ Sound(c) /\ c.ml = s.ml /\ c.sf = s.sf /\ Rest(c) = Rest(s)
  BY ChangePlanesFacts DEF Changed
<1> HIDE DEF c
<1>3. /\ h \in States /\ Core(h) = Core(c) /\ h.gles = c.gles
      /\ h.hot[d] /\ \A e \in Displays : e # d => h.hot[e] = c.hot[e]
  <2> HIDE DEF h
  <2>1. h = Hot(c, d)
    BY DEF h
  <2> QED
    BY <1>2, <2>1, HotStep
<1> HIDE DEF h
<1>4. Sound(h) /\ h.ml = s.ml /\ h.sf = s.sf /\ h.gles = s.gles
      /\ (d = "mipi" \/ s.hot["mipi"] => h.hot["mipi"])
  BY <1>2, <1>3, SameCore DEF Rest, Displays
<1>5. /\ r \in States /\ Sound(r) /\ r.ml = s.ml /\ r.sf = s.sf /\ r.gles = s.gles
      /\ d = "mipi" \/ s.hot["mipi"] => r.hot["mipi"]
  <2>1. CASE off
    <3> HIDE DEF r
    <3>1. r = DisableReclaimedOverlays(h)
      BY <2>1 DEF r
    <3>2. /\ r \in States /\ Accounted(r) /\ Shown(r)
          /\ r.pipe = h.pipe /\ r.flip = h.flip /\ r.ml = h.ml /\ r.sf = h.sf /\ Rest(r) = Rest(h)
      BY <1>3, <1>4, <3>1, ReclaimOverlays DEF Sound
    <3>3. Flipped(r)
      BY <1>4, <3>2 DEF Sound, Flipped
    <3>4. Listed(r) /\ Suited(r)
      BY <1>4, <3>2, SameLists DEF Sound
    <3> QED
      BY <1>4, <3>2, <3>3, <3>4 DEF Sound, Rest
  <2>2. CASE ~off
    BY <1>3, <1>4, <2>2
  <2> QED
    BY <2>1, <2>2
<1> HIDE DEF r
<1>6. CASE t = r
  BY <1>5, <1>6 DEF Aside
<1>7. CASE t = Renew(r, "hdmi", <<>>)
  <2>1. <<>> \in Seq(Lays) /\ \A i \in DOMAIN <<>> : FALSE
    OBVIOUS
  <2>2. Keeps(r, t) /\ Aside(r, t)
    BY <1>5, <1>7, <2>1, FreshHdmi
  <2> QED
    BY <1>5, <2>2 DEF Keeps, Aside, Rest
<1> QED
  BY <1>1, <1>6, <1>7

-----------------------------------------------------------------------------
(* The invariant.                                                           *)

Reports == [hdmi : {"none", "clone", "ext"}, off : BOOLEAN, video : BOOLEAN]

IInv ==
  /\ Good(st)
  /\ mode \in Modes /\ mds \in Reports /\ msg \in BOOLEAN
  /\ pc \in {"idle", "ready"} /\ events \in 0..MaxEvents

LEMMA InitialRecord ==
  ASSUME Init
  PROVE  st = [free |-> Indices, recl |-> [k \in Pools |-> {}], lit |-> {}, mapped |-> {},
               pipe |-> [p \in OverlayPlanes |-> "mipi"],
               flip |-> [i \in Overlays |-> Dark], hw |-> [i \in Overlays |-> Dark],
               ml |-> [d \in Displays |-> <<>>],
               sf |-> [d \in Displays |-> NoList],
               owe |-> [d \in Displays |-> TRUE],
               hot |-> [d \in Displays |-> FALSE],
               blank |-> [d \in Displays |-> FALSE],
               seek |-> [d \in Displays |-> FALSE],
               shot |-> FALSE, cnt |-> 0, player |-> FALSE,
               skip |-> FALSE, gles |-> FALSE, hasSkip |-> FALSE]
BY DEF Init, InitPlanes

LEMMA InitGood ==
  ASSUME Init
  PROVE  IInv
<1>1. st \in States
  <2>1. Indices \in Bitmaps /\ [k \in Pools |-> {}] \in Bitmaps
    BY PlaneIndices DEF Bitmaps, Indices, Pools
  <2>2. {} \in Blocks /\ [p \in OverlayPlanes |-> "mipi"] \in PipeOf
    BY DEF Blocks, PipeOf, Pipes
  <2>3. [i \in Overlays |-> Dark] \in Shows
    BY DEF Shows, Flips
  <2>4. [d \in Displays |-> <<>>] \in LayLists
    <3>1. <<>> \in Seq(Lays)
      OBVIOUS
    <3> QED
      BY <3>1 DEF LayLists
  <2>5. [d \in Displays |-> NoList] \in GivenLists
    <3>1. <<>> \in Seq(Given)
      OBVIOUS
    <3>2. NoList \in Handed
      BY <3>1 DEF NoList, Handed
    <3> QED
      BY <3>2 DEF GivenLists
  <2>6. [d \in Displays |-> TRUE] \in Flags /\ [d \in Displays |-> FALSE] \in Flags /\ 0 \in Counts
    BY DEF Flags, Counts
  <2> DEFINE e == [k \in Pools |-> {}]
             p == [p \in OverlayPlanes |-> "mipi"]
             f == [i \in Overlays |-> Dark]
             m == [d \in Displays |-> <<>>]
             g == [d \in Displays |-> NoList]
             x == [d \in Displays |-> TRUE]
             y == [d \in Displays |-> FALSE]
  <2>7. st = [free |-> Indices, recl |-> e, lit |-> {}, mapped |-> {}, pipe |-> p,
              flip |-> f, hw |-> f, ml |-> m, sf |-> g, owe |-> x, hot |-> y, blank |-> y,
              seek |-> y, shot |-> FALSE, cnt |-> 0, player |-> FALSE,
              skip |-> FALSE, gles |-> FALSE, hasSkip |-> FALSE]
    BY InitialRecord
  <2>8. /\ e \in Bitmaps /\ p \in PipeOf /\ f \in Shows /\ m \in LayLists
        /\ g \in GivenLists /\ x \in Flags /\ y \in Flags
    BY <2>1, <2>2, <2>3, <2>4, <2>5, <2>6
  <2> HIDE DEF e, p, f, m, g, x, y
  <2> QED
    BY <2>1, <2>2, <2>6, <2>7, <2>8 DEF States
<1>2. /\ st.free = Indices /\ st.recl = [k \in Pools |-> {}] /\ st.lit = {} /\ st.mapped = {}
      /\ \A i \in Overlays : st.flip[i] = Dark /\ st.hw[i] = Dark
      /\ \A d \in Displays : st.ml[d] = <<>> /\ st.sf[d] = NoList
  BY InitialRecord
<1>3. "mipi" \in Displays /\ "hdmi" \in Displays
  BY DEF Displays
<1>4. DOMAIN st.ml["mipi"] = {} /\ Len(st.ml["mipi"]) = 0 /\ DOMAIN st.sf["mipi"].ls = {}
  BY <1>2, <1>3 DEF NoList
<1>5. Spots(st) = {}
  <2>1. ASSUME NEW x \in Spots(st) PROVE FALSE
    <3>1. x[1] \in Displays /\ x[2] \in DOMAIN st.ml[x[1]]
      BY DEF Spots
    <3>2. st.ml[x[1]] = <<>>
      BY <1>2, <3>1
    <3> QED
      BY <3>1, <3>2
  <2> QED
    BY <2>1
<1>6. Accounted(st)
  <2>1. \A k \in Pools : st.recl[k] = {}
    BY <1>2
  <2> QED
    BY <1>2, <1>5, <2>1 DEF Accounted, Spare
<1>7. Shown(st) /\ Flipped(st)
  BY <1>2 DEF Shown, Flipped, Dark
<1>8. Listed(st) /\ Suited(st) /\ Piped(st)
  BY <1>4 DEF Listed, Suited, Piped
<1>9. Plain(st)
  BY <1>4 DEF Plain, Composing, Planed, Covered
<1>10. Good(st)
  BY <1>1, <1>6, <1>7, <1>8, <1>9 DEF Good, Sound
<1> QED
  BY <1>10, EventsBounded DEF IInv, Init, Modes, Reports

-----------------------------------------------------------------------------
(* prepare.                                                                 *)

\* What SurfaceFlinger hands over for a display.
Offer(d, p) ==
  /\ p.geo \in BOOLEAN /\ p.list \in Handed
  /\ ~p.geo => p.list = st.sf[d]
  /\ p.geo => ~st.blank[d] /\ p.list.on /\ \A i \in DOMAIN p.list.ls : p.list.ls[i].comp = "fb"

LEMMA PresentList ==
  ASSUME NEW l \in Seq(Kinds)
  PROVE  /\ Present(l) \in Handed /\ Present(l).on
         /\ \A i \in DOMAIN Present(l).ls : Present(l).ls[i].comp = "fb"
<1> DEFINE c == [i \in 1..Len(l) |-> [kind |-> l[i], comp |-> "fb"]]
<1>1. DOMAIN l = 1..Len(l) /\ Len(l) \in Nat /\ \A i \in 1..Len(l) : l[i] \in Kinds
  OBVIOUS
<1>2. \A i \in 1..Len(l) : [kind |-> l[i], comp |-> "fb"] \in Given
  BY <1>1 DEF Given, Comps
<1>3. c \in Seq(Given)
  BY <1>1, <1>2
<1>4. Composed(l) = c
  BY <1>1 DEF Composed
<1>5. DOMAIN c = 1..Len(l) /\ \A i \in DOMAIN c : c[i].comp = "fb"
  OBVIOUS
<1> HIDE DEF c
<1> QED
  BY <1>3, <1>4, <1>5 DEF Present, Handed

LEMMA Offers ==
  ASSUME st \in States, NEW d \in Displays, NEW L \in SUBSET (Lists \cup HdmiLists),
         NEW p \in NewLists(d, L)
  PROVE  Offer(d, p)
<1>1. st.sf[d] \in Handed /\ st.blank[d] \in BOOLEAN
  BY DEF States, GivenLists, Flags
<1>2. \/ p = [geo |-> FALSE, list |-> st.sf[d]]
      \/ ~st.blank[d] /\ \E l \in L : p = [geo |-> TRUE, list |-> Present(l)]
  BY DEF NewLists
<1>3. CASE p = [geo |-> FALSE, list |-> st.sf[d]]
  BY <1>1, <1>3 DEF Offer
<1>4. CASE ~st.blank[d] /\ \E l \in L : p = [geo |-> TRUE, list |-> Present(l)]
  <2>1. PICK l \in L : p = [geo |-> TRUE, list |-> Present(l)]
    BY <1>4
  <2>2. l \in Seq(Kinds)
    BY ListsOfKinds
  <2>3. /\ Present(l) \in Handed /\ Present(l).on
        /\ \A i \in DOMAIN Present(l).ls : Present(l).ls[i].comp = "fb"
    BY <2>2, PresentList
  <2> QED
    BY <1>4, <2>1, <2>3 DEF Offer
<1> QED
  BY <1>2, <1>3, <1>4

\* The composer's record with other lists of SurfaceFlinger.
WithLists(x, o) == [st EXCEPT !.sf = x, !.owe = o]

LEMMA HandOverStep ==
  ASSUME Good(st), NEW p, Offer("mipi", p), NEW o \in Flags,
         NEW x \in GivenLists, x["mipi"] = p.list, NEW s, s = WithLists(x, o)
  PROVE  /\ s \in States /\ Based(s) /\ s.blank = st.blank
         /\ ~p.geo => Good(s)
         /\ p.geo => DimComposed(s) /\ ~s.blank["mipi"]
<1>1. st \in States /\ Sound(st)
  BY DEF Good
<1>3. /\ s \in States /\ s.free = st.free /\ s.recl = st.recl
      /\ s.lit = st.lit /\ s.mapped = st.mapped /\ s.pipe = st.pipe
      /\ s.flip = st.flip /\ s.hw = st.hw /\ s.ml = st.ml /\ s.sf = x
      /\ s.hot = st.hot /\ s.gles = st.gles /\ s.blank = st.blank
  BY <1>1 DEF States, WithLists
<1>4. Accounted(s)
  BY <1>1, <1>3, SameBooks DEF Sound
<1>5. Shown(s) /\ Flipped(s) /\ (Piped(st) => Piped(s))
  BY <1>1, <1>3 DEF Sound, Shown, Flipped, Piped
<1>6. ASSUME ~p.geo PROVE Good(s)
  <2>1. s.sf["mipi"] = st.sf["mipi"] /\ Aside(st, s)
    BY <1>3, <1>6 DEF Offer, Aside
  <2>2. Plain(st) => Plain(s)
    BY <2>1, AsidePlain
  <2>3. Listed(s) /\ Suited(s)
    BY <1>1, <1>3, <2>1 DEF Sound, Listed, Suited, SuitedLayer, CompOf
  <2> QED
    BY <1>3, <1>4, <1>5, <2>2, <2>3 DEF Good, Sound
<1>7. ASSUME p.geo PROVE DimComposed(s) /\ ~s.blank["mipi"]
  BY <1>3, <1>7 DEF Offer, DimComposed, CompOf
<1> QED
  BY <1>3, <1>4, <1>5, <1>6, <1>7 DEF Based

LEMMA PrepareKeeps ==
  ASSUME IInv, Prepare, Sprites = {}
  PROVE  IInv'
<1>1. PICK p \in NewLists("mipi", Lists), h \in HdmiOffers :
      \E in \in Inputs(p.list.ls, h.list.ls) :
        /\ IF Eventful(p, h, in) THEN Event ELSE UNCHANGED events
        /\ st' = Prepared(p, h, in) /\ pc' = "ready" /\ UNCHANGED <<mode, mds, msg>>
  BY DEF Prepare
<1>2. PICK in :
        /\ IF Eventful(p, h, in) THEN Event ELSE UNCHANGED events
        /\ st' = Prepared(p, h, in) /\ pc' = "ready" /\ UNCHANGED <<mode, mds, msg>>
  BY <1>1
<1> DEFINE nothing == [geo |-> FALSE, list |-> NoList]
           x == [mipi |-> p.list, hdmi |-> h.list]
           o == [mipi |-> st.owe["mipi"] /\ ~p.geo,
                 hdmi |-> IF h.list.on THEN st.owe["hdmi"] /\ ~h.geo ELSE TRUE]
           s == WithLists(x, o)
           a == IF p.list.on THEN PreparePanel(s, p.geo, in) ELSE s
           b == IF h.list.on THEN PrepareHdmi(a, h.geo, in) ELSE a
<1>3. Prepared(p, h, in) = b
  BY DEF Prepared, HandOver, WithLists
<1>4. Good(st) /\ st \in States /\ mds \in Reports
  BY DEF IInv, Good
<1>5. Offer("mipi", p)
  <2>1. "mipi" \in Displays /\ Lists \in SUBSET (Lists \cup HdmiLists)
    BY DEF Displays
  <2> QED
    BY <1>4, <2>1, Offers
<1>6. h.list \in Handed /\ h.geo \in BOOLEAN
  <2>1. CASE h = nothing
    <3>1. <<>> \in Seq(Given)
      OBVIOUS
    <3> QED
      BY <2>1, <3>1 DEF NoList, Handed
  <2>2. CASE h \in NewLists("hdmi", HdmiLists)
    <3>1. "hdmi" \in Displays /\ HdmiLists \in SUBSET (Lists \cup HdmiLists)
      BY DEF Displays
    <3>2. Offer("hdmi", h)
      BY <1>4, <2>2, <3>1, Offers
    <3> QED
      BY <3>2 DEF Offer
  <2> QED
    BY <2>1, <2>2 DEF HdmiOffers
<1>7. x \in GivenLists /\ x["mipi"] = p.list /\ o \in Flags
  <2>1. p.list \in Handed
    BY <1>5 DEF Offer
  <2>2. x = [d \in Displays |-> x[d]] /\ o = [d \in Displays |-> o[d]]
    BY DEF Displays
  <2>3. \A d \in Displays : x[d] \in Handed
    BY <1>6, <2>1 DEF Displays
  <2>5. \A d \in Displays : o[d] \in BOOLEAN
    <3>1. o["mipi"] \in BOOLEAN
      BY Zenon
    <3>2. o["hdmi"] \in BOOLEAN
      BY Zenon
    <3> HIDE DEF o
    <3> QED
      BY <3>1, <3>2 DEF Displays
  <2>4. x["mipi"] = p.list
    OBVIOUS
  <2> HIDE DEF x, o
  <2> QED
    BY <2>2, <2>3, <2>4, <2>5 DEF GivenLists, Flags
<1> HIDE DEF x, o
<1>8. /\ s \in States /\ Based(s) /\ s.blank = st.blank
      /\ ~p.geo => Good(s)
      /\ p.geo => DimComposed(s) /\ ~s.blank["mipi"]
  BY <1>4, <1>5, <1>7, HandOverStep
<1> HIDE DEF s
<1>9. Good(a)
  <2>1. CASE p.list.on
    <3>1. a = PreparePanel(s, p.geo, in)
      BY <2>1
    <3>2. p.geo \in BOOLEAN /\ mds.off \in BOOLEAN /\ mds.video \in BOOLEAN
      BY <1>4, <1>5 DEF Offer, Reports
    <3> HIDE DEF a
    <3> QED
      BY <1>8, <3>1, <3>2, PreparePanelStep
  <2>2. CASE ~p.list.on
    <3>1. ~p.geo
      BY <1>5, <2>2 DEF Offer
    <3> QED
      BY <1>8, <2>2, <3>1
  <2> QED
    BY <2>1, <2>2
<1> HIDE DEF a
<1>10. Good(b)
  <2>1. CASE h.list.on
    <3>1. b = PrepareHdmi(a, h.geo, in)
      BY <2>1
    <3>2. mds.off \in BOOLEAN
      BY <1>4 DEF Reports
    <3> HIDE DEF b
    <3> QED
      BY <1>9, <3>1, <3>2, PrepareHdmiStep
  <2>2. CASE ~h.list.on
    BY <1>9, <2>2
  <2> QED
    BY <2>1, <2>2
<1> HIDE DEF b
<1>11. events' \in 0..MaxEvents
  BY <1>2, EventsBounded DEF IInv, Event
<1>12. Good(st)'
  BY <1>2, <1>3, <1>10
<1> QED
  BY <1>2, <1>11, <1>12 DEF IInv
-----------------------------------------------------------------------------
(* The other actions.                                                       *)

LEMMA CommitKeeps ==
  ASSUME IInv, Commit
  PROVE  IInv'
<1> DEFINE a == IF st.sf["mipi"].on THEN CommitDisplay(st, "mipi") ELSE st
           b == IF st.sf["hdmi"].on THEN CommitDisplay(a, "hdmi") ELSE a
<1>1. "mipi" \in Displays /\ "hdmi" \in Displays
  BY DEF Displays
<1>2. st' = b /\ pc' = "idle" /\ UNCHANGED <<mode, mds, msg, events>>
  BY DEF Commit
<1>3. Good(st)
  BY DEF IInv
<1>4. Good(a)
  <2>1. Good(CommitDisplay(st, "mipi"))
    BY <1>1, <1>3, CommitStep
  <2> QED
    BY <1>3, <2>1
<1> HIDE DEF a
<1>5. Good(b)
  <2>1. Good(CommitDisplay(a, "hdmi"))
    BY <1>1, <1>4, CommitStep
  <2> QED
    BY <1>4, <2>1
<1> HIDE DEF b
<1>6. Good(st)'
  BY <1>2, <1>5
<1> QED
  BY <1>2, <1>6 DEF IInv

LEMMA FlipKeeps ==
  ASSUME IInv, NEW i \in Overlays, Flip(i)
  PROVE  IInv'
<1>1. Good(Latch(st, i))
  BY LatchStep DEF IInv
<1>2. Good(st)'
  BY <1>1 DEF Flip
<1> QED
  BY <1>2 DEF IInv, Flip

LEMMA BlankKeeps ==
  ASSUME IInv, NEW d \in Displays, Blank(d)
  PROVE  IInv'
<1> DEFINE s == [st EXCEPT !.blank[d] = TRUE, !.owe[d] = TRUE]
<1>1. st' = Release(s, d) /\ UNCHANGED <<mode, mds, msg, pc>> /\ Event
  BY DEF Blank
<1>2. Good(s)
  <2>1. Good(st) /\ st \in States
    BY DEF IInv, Good
  <2>2. s \in States /\ Core(s) = Core(st) /\ s.hot = st.hot /\ s.gles = st.gles
    BY <2>1, SetBlank
  <2> HIDE DEF s
  <2> QED
    BY <2>1, <2>2, GoodCore
<1> HIDE DEF s
<1>3. Good(Release(s, d))
  BY <1>2, ReleaseStep
<1>4. Good(st)'
  BY <1>1, <1>3
<1> QED
  BY <1>1, <1>4, EventsBounded DEF IInv, Event

LEMMA UnblankKeeps ==
  ASSUME IInv, NEW d \in Displays, Unblank(d)
  PROVE  IInv'
<1> DEFINE s == [st EXCEPT !.blank[d] = FALSE]
<1>1. st' = s /\ UNCHANGED <<mode, mds, msg, pc, events>>
  BY DEF Unblank
<1>2. Good(s)
  <2>1. Good(st) /\ st \in States
    BY DEF IInv, Good
  <2>2. s \in States /\ Core(s) = Core(st) /\ s.hot = st.hot /\ s.gles = st.gles
    BY <2>1, SetBlank
  <2> HIDE DEF s
  <2> QED
    BY <2>1, <2>2, GoodCore
<1> HIDE DEF s
<1>3. Good(st)'
  BY <1>1, <1>2
<1> QED
  BY <1>1, <1>3 DEF IInv

\* Both displays are told of the mode; the panel waits for new planes.
LEMMA ModeKeeps ==
  ASSUME IInv, HandleDisplayModeChange, Sprites = {}
  PROVE  IInv'
<1> DEFINE new == DisplayMode(mds)
           a == OnHotplugEvent(st, "mipi", mode, new, mds.off)
           b == OnHotplugEvent(a, "hdmi", mode, new, mds.off)
<1>1. st' = b /\ mode' = new /\ msg' = FALSE /\ UNCHANGED <<mds, pc, events>>
  BY DEF HandleDisplayModeChange
<1>2. "mipi" \in Displays /\ "hdmi" \in Displays
  BY DEF Displays
<1>3. st \in States /\ Sound(st) /\ (st.gles \/ Plain(st))
  BY DEF IInv, Good
<1>4. new \in Modes
  BY DEF DisplayMode, Modes
<1> HIDE DEF new
<1>5. a \in States /\ Sound(a) /\ Aside(st, a) /\ a.gles = st.gles /\ a.hot["mipi"]
  <2> HIDE DEF a
  <2>1. a = OnHotplugEvent(st, "mipi", mode, new, mds.off)
    BY DEF a
  <2> QED
    BY <1>2, <1>3, <2>1, HotplugStep
<1> HIDE DEF a
<1>6. b \in States /\ Sound(b) /\ Aside(a, b) /\ b.gles = a.gles /\ b.hot["mipi"]
  <2> HIDE DEF b
  <2>1. b = OnHotplugEvent(a, "hdmi", mode, new, mds.off)
    BY DEF b
  <2> QED
    BY <1>2, <1>5, <2>1, HotplugStep
<1> HIDE DEF b
<1>7. (Plain(st) => Plain(a)) /\ (Plain(a) => Plain(b))
  BY <1>5, <1>6, AsidePlain
<1>8. Good(b)
  BY <1>3, <1>5, <1>6, <1>7 DEF Good
<1>9. Good(st)'
  BY <1>1, <1>8
<1> QED
  BY <1>1, <1>4, <1>9 DEF IInv

\* The invariant is kept by every step.
LEMMA NextKeeps ==
  ASSUME IInv, [Next]_vars, Sprites = {}
  PROVE  IInv'
<1>1. CASE Prepare
  BY <1>1, PrepareKeeps
<1>2. CASE Commit
  BY <1>2, CommitKeeps
<1>3. CASE \E i \in Overlays : Flip(i)
  BY <1>3, FlipKeeps
<1>4. CASE \E d \in Displays : Blank(d) \/ Unblank(d)
  BY <1>4, BlankKeeps, UnblankKeeps
<1>5. ASSUME NEW hdmi \in {"none", "clone", "ext"}, NEW off \in BOOLEAN, MdsModeChange(hdmi, off)
      PROVE  IInv'
  <2>1. mds' \in Reports /\ Event /\ msg' = TRUE /\ UNCHANGED <<st, mode, pc>>
    BY <1>5 DEF MdsModeChange, IInv, Reports
  <2>2. Good(st)'
    BY <2>1 DEF IInv
  <2> QED
    BY <2>1, <2>2, EventsBounded DEF IInv, Event
<1>6. CASE MdsVideoStatus
  <2>1. mds' \in Reports /\ Event /\ UNCHANGED <<st, mode, msg, pc>>
    BY <1>6 DEF MdsVideoStatus, IInv, Reports
  <2>2. Good(st)'
    BY <2>1 DEF IInv
  <2> QED
    BY <2>1, <2>2, EventsBounded DEF IInv, Event
<1>7. CASE HandleDisplayModeChange
  BY <1>7, ModeKeeps
<1>8. CASE UNCHANGED vars
  <2>1. Good(st)'
    BY <1>8 DEF vars, IInv
  <2> QED
    BY <1>8, <2>1 DEF IInv, vars
<1> QED
  BY <1>1, <1>2, <1>3, <1>4, <1>5, <1>6, <1>7, <1>8 DEF Next

-----------------------------------------------------------------------------
(* What the invariant says.                                                 *)

LEMMA GoodTyped ==
  ASSUME IInv
  PROVE  TypeOK
<1>1. st \in States
  BY DEF IInv, Good
<1>2. \A k \in Pools : st.free[k] \subseteq Indices[k] /\ st.recl[k] \subseteq Indices[k]
  BY <1>1, Fields DEF Bitmaps
<1>3. /\ st.lit \subseteq OverlayPlanes /\ st.mapped \subseteq OverlayPlanes
      /\ st.pipe \in [OverlayPlanes -> Pipes]
      /\ st.flip \in [Overlays -> Flips] /\ st.hw \in [Overlays -> Flips]
  BY <1>1, Fields DEF Blocks, PipeOf, Shows
<1>4. \A d \in Displays : st.ml[d] \in Seq(Lays) /\ st.sf[d] \in Handed
  BY <1>1, Fields DEF LayLists, GivenLists
<1>5. \A f \in {st.owe, st.hot, st.blank, st.seek} : f \in [Displays -> BOOLEAN]
  BY <1>1 DEF States, Flags
<1>6. st.cnt \in 0..2 /\ {st.shot, st.player, st.skip, st.gles, st.hasSkip} \subseteq BOOLEAN
  BY <1>1 DEF States, Counts
<1> QED
  BY <1>2, <1>3, <1>4, <1>5, <1>6 DEF IInv, TypeOK, Lays, Handed, Given, Reports

LEMMA GoodHeld ==
  ASSUME IInv
  PROVE  PlanesHeld
<1>1. st \in States /\ Accounted(st)
  BY DEF IInv, Good, Sound
<1> SUFFICES ASSUME NEW k \in Pools, NEW i \in Indices[k]
             PROVE  /\ Holders(k, i) = {} <=> i \in st.free[k] \cup st.recl[k]
                    /\ Cardinality(Holders(k, i)) <= 1
                    /\ i \notin st.free[k] \cap st.recl[k]
  BY DEF PlanesHeld
<1>2. i \in 0..31
  BY PlaneIndices DEF Pools, Indices
<1>3. k # "none"
  BY DEF Pools
<1>4. ASSUME NEW x
      PROVE  x \in Holders(k, i) <=> x \in Spots(st) /\ IsPlane(PlaneAt(st, x), k, i)
  <2>1. \A d \in Displays : Layers(st, d) \subseteq Nat
    BY <1>1, Layer DEF Layers
  <2>2. NoPlane.type = "none" /\ PoolOf(NoPlane) # k
    BY <1>3 DEF NoPlane, PoolOf
  <2>3. ASSUME x \in Holders(k, i) PROVE x \in Spots(st) /\ IsPlane(PlaneAt(st, x), k, i)
    <3>1. PICK d \in Displays : x \in {d} \X Layers(st, d)
      BY <2>3 DEF Holders
    <3>2. x = <<d, x[2]>> /\ x[1] = d /\ x[2] \in Layers(st, d)
      BY <3>1
    <3>3. IsPlane(PlaneAt(st, x), k, i)
      BY <2>3 DEF Holders, IsPlane, PlaneAt
    <3>4. x \in Displays \X Nat
      BY <2>1, <3>2
    <3> QED
      BY <2>2, <3>2, <3>3, <3>4 DEF Spots, PlaneAt, IsPlane, Layers
  <2>4. ASSUME x \in Spots(st), IsPlane(PlaneAt(st, x), k, i) PROVE x \in Holders(k, i)
    <3>1. x \in Displays \X Nat /\ x[2] \in Layers(st, x[1])
      BY <2>4 DEF Spots, Layers
    <3>2. x[1] \in Displays /\ x \in {x[1]} \X Layers(st, x[1])
      BY <3>1
    <3>3. x \in UNION {{d} \X Layers(st, d) : d \in Displays}
      BY <3>2
    <3> QED
      BY <2>4, <3>3 DEF Holders, IsPlane, PlaneAt
  <2> QED
    BY <2>3, <2>4
<1>5. Holders(k, i) = {} <=> i \in st.free[k] \cup st.recl[k]
  <2>1. ASSUME Holders(k, i) = {} PROVE i \in Spare(st, k)
    BY <1>1, <1>4, <2>1 DEF Accounted
  <2>2. ASSUME i \in Spare(st, k) PROVE Holders(k, i) = {}
    BY <1>1, <1>2, <1>4, <2>2 DEF Accounted
  <2> QED
    BY <2>1, <2>2 DEF Spare
<1>6. Cardinality(Holders(k, i)) <= 1
  <2>1. \A x, y \in Holders(k, i) : x = y
    BY <1>1, <1>2, <1>4 DEF Accounted
  <2>2. CASE Holders(k, i) = {}
    BY <2>2, FS_EmptySet
  <2>3. CASE Holders(k, i) # {}
    <3>1. PICK x : x \in Holders(k, i)
      BY <2>3
    <3>2. Holders(k, i) = {x}
      BY <2>1, <3>1
    <3>3. Cardinality({x}) = 1
      BY FS_Singleton
    <3> QED
      BY <3>2, <3>3
  <2> QED
    BY <2>2, <2>3
<1>7. i \notin st.free[k] \cap st.recl[k]
  BY <1>1 DEF Accounted
<1> QED
  BY <1>5, <1>6, <1>7

LEMMA GoodDark ==
  ASSUME IInv
  PROVE  FreeOverlaysDark /\ ScannedIsMapped /\ PanelFlipsOnPanel
<1>1. st \in States /\ Shown(st) /\ Flipped(st)
  BY DEF IInv, Good, Sound
<1>2. FreeOverlaysDark
  <2> SUFFICES ASSUME NEW i \in st.free["overlay"]
               PROVE  /\ st.hw[i] = Dark
                      /\ st.flip[i].plane \notin st.lit
                      /\ \A p \in st.mapped : p.i # i
    BY DEF FreeOverlaysDark
  <2>1. i \in Overlays
    BY <1>1, Fields DEF Bitmaps, Pools, Indices
  <2>2. \A p \in st.mapped : p.i # i
    BY <1>1 DEF Shown
  <2>3. st.hw[i] = Dark
    BY <1>1, <2>1, <2>2 DEF Shown
  <2>4. st.flip[i].plane \notin st.lit
    <3>1. CASE st.flip[i] = Dark
      <4>1. NoPlane \notin OverlayPlanes
        BY DEF NoPlane, OverlayPlanes
      <4> QED
        BY <1>1, <3>1, <4>1, Fields DEF Dark, Blocks
    <3>2. CASE st.flip[i] # Dark
      BY <1>1, <2>1, <2>2, <3>2 DEF Shown
    <3> QED
      BY <3>1, <3>2
  <2> QED
    BY <2>2, <2>3, <2>4
<1>3. ScannedIsMapped
  BY <1>1 DEF Shown, ScannedIsMapped
<1>4. PanelFlipsOnPanel
  BY <1>1 DEF Flipped, PanelFlipsOnPanel
<1> QED
  BY <1>2, <1>3, <1>4

LEMMA GoodCovers ==
  ASSUME IInv
  PROVE  PrimaryCoversNothing
<1> SUFFICES ASSUME ~st.gles, NEW p \in Attached(st, "mipi"), p.type = "primary",
                    NEW i \in Layers(st, "mipi"), CompOf(st, "mipi", i) = "fb"
             PROVE  ~IsHWCLayer(st.ml.mipi[i].kind)
  BY DEF PrimaryCoversNothing
<1>1. st \in States /\ Covered(st, Len(st.ml["mipi"]))
  BY DEF IInv, Good, Plain
<1>2. PICK j \in DOMAIN st.ml["mipi"] : st.ml["mipi"][j].plane.type = "primary"
  BY DEF Attached, Layers
<1>3. j <= Len(st.ml["mipi"])
  BY <1>1, Layer DEF Displays
<1>4. CompOf(st, "mipi", i) = "overlay"
  BY <1>1, <1>2, <1>3 DEF Covered, Layers
<1> QED
  BY <1>4

-----------------------------------------------------------------------------
(* The theorems.                                                            *)

\* The inductive invariant: the books balance, what is on has its buffers, the
\* panel's list is SurfaceFlinger's, and outside smart composition and mode
\* changes the panel's planes suit its layers.
THEOREM Inductive ==
  ASSUME Sprites = {}
  PROVE  Spec => []IInv
<1>1. Init => IInv
  BY InitGood
<1>2. IInv /\ [Next]_vars => IInv'
  BY NextKeeps
<1> QED
  BY <1>1, <1>2, PTL DEF Spec

\* Every field of the composer's record keeps its type, the composition types
\* and the planes of its layers included.
THEOREM TypeCorrect ==
  ASSUME Sprites = {}
  PROVE  Spec => []TypeOK
<1>1. IInv => TypeOK
  BY GoodTyped
<1> QED
  BY <1>1, Inductive, PTL

\* No plane is lost or lent twice (IntelHWComposerLayer.cpp), whatever frames,
\* faults, mode changes and blankings there are.
THEOREM NoPlaneLost ==
  ASSUME Sprites = {}
  PROVE  Spec => []PlanesHeld
<1>1. IInv => PlanesHeld
  BY GoodHeld
<1> QED
  BY <1>1, Inductive, PTL

\* An overlay that is free shows nothing and holds no buffer: disabling the
\* reclaimed planes is enough (IntelDisplayPlaneManager.cpp).
THEOREM FreeIsDark ==
  ASSUME Sprites = {}
  PROVE  Spec => []FreeOverlaysDark
<1>1. IInv => FreeOverlaysDark
  BY GoodDark
<1> QED
  BY <1>1, Inductive, PTL

\* What the display controller scans has its buffers mapped, although the flip
\* comes later than its commit and the overlay may be disabled in between.
THEOREM ScansMapped ==
  ASSUME Sprites = {}
  PROVE  Spec => []ScannedIsMapped
<1>1. IInv => ScannedIsMapped
  BY GoodDark
<1> QED
  BY <1>1, Inductive, PTL

\* The panel's commit never flips an overlay that a mode change set to HDMI's
\* pipe (IntelMIPIDisplayDevice.cpp).
THEOREM PanelFlips ==
  ASSUME Sprites = {}
  PROVE  Spec => []PanelFlipsOnPanel
<1>1. IInv => PanelFlipsOnPanel
  BY GoodDark
<1> QED
  BY <1>1, Inductive, PTL

\* The primary plane never replaces a framebuffer into which a layer is composed
\* (primaryPrepare and revisitLayerList).
THEOREM PrimaryCovers ==
  ASSUME Sprites = {}
  PROVE  Spec => []PrimaryCoversNothing
<1>1. IInv => PrimaryCoversNothing
  BY GoodCovers
<1> QED
  BY <1>1, Inductive, PTL
=============================================================================
