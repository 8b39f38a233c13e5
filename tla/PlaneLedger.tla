---------------------------- MODULE PlaneLedger ----------------------------
(***************************************************************************)
(* What the plane pool promises its clients, with no thread, lock or frame *)
(* in sight: a plane is free, reclaimed or held by one owner; only its     *)
(* owner lights it; a reclaimed plane is darkened before it is free again, *)
(* unless the owner-to-be gives it straight back (Release).                *)
(***************************************************************************)
EXTENDS Naturals

CONSTANTS Planes, Owners

VARIABLES free, reclaimed, held, lit

vars == <<free, reclaimed, held, lit>>

TypeOK ==
  /\ free \subseteq Planes
  /\ reclaimed \subseteq Planes
  /\ held \in [Owners -> SUBSET Planes]
  /\ lit \subseteq Planes

Init ==
  /\ free = Planes
  /\ reclaimed = {}
  /\ held = [d \in Owners |-> {}]
  /\ lit = {}

\* A reclaimed plane is handed out first, still lit; a free one only when no
\* reclaimed one is left.
Take(p, d) ==
  /\ \/ p \in reclaimed
     \/ reclaimed = {} /\ p \in free
  /\ reclaimed' = reclaimed \ {p}
  /\ free' = free \ {p}
  /\ held' = [held EXCEPT ![d] = @ \cup {p}]
  /\ UNCHANGED lit

GiveUp(d, planes) ==
  /\ planes \subseteq held[d]
  /\ held' = [held EXCEPT ![d] = @ \ planes]
  /\ reclaimed' = reclaimed \cup planes
  /\ UNCHANGED <<free, lit>>

Retire ==
  /\ lit' = lit \ reclaimed
  /\ free' = free \cup reclaimed
  /\ reclaimed' = {}
  /\ UNCHANGED held

Release(p) ==
  /\ p \in reclaimed
  /\ reclaimed' = reclaimed \ {p}
  /\ free' = free \cup {p}
  /\ UNCHANGED <<held, lit>>

\* The owner d darkens some of its planes and lights others.
Show(d, off, on) ==
  /\ off \subseteq held[d] /\ on \subseteq held[d]
  /\ lit' = (lit \ off) \cup on
  /\ UNCHANGED <<free, reclaimed, held>>

Next ==
  \/ \E p \in Planes, d \in Owners : Take(p, d)
  \/ \E d \in Owners : \E planes \in SUBSET held[d] : GiveUp(d, planes)
  \/ Retire
  \/ \E p \in Planes : Release(p)
  \/ \E d \in Owners : \E off, on \in SUBSET held[d] : Show(d, off, on)

Spec == Init /\ [][Next]_vars
=============================================================================
