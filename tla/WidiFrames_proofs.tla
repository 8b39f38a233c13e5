------------------------- MODULE WidiFrames_proofs -------------------------
(***************************************************************************)
(* Proofs about WidiFrames for any buffers, sizes and listeners: the       *)
(* decoder sees renderStatus exactly as long as its buffer is held, unless *)
(* two objects held it at once; no conversion buffer is lost; frames go to *)
(* the session they were made for.                                         *)
(***************************************************************************)
EXTENDS WidiFrames, FiniteSetTheorems, TLAPS

\* The types the rest of the invariant needs: the composing thread holds a
\* buffer exactly while it sends a frame.
HoldTypes ==
  /\ pc \in {"idle", "sending", "ready"}
  /\ send.key \in Keys \cup {None}
  /\ pc = "idle" <=> send.key = None
  /\ held \subseteq Keys
  /\ busy \in [Videos -> BOOLEAN]
  /\ twice \subseteq Videos

\* Two objects hold decoder buffer v: under two keys, or the one being sent and
\* an older one under its key.  From onFrameReady() on they are the same.
TwoHold(v) ==
  \/ \E j, k \in Holders(v) : j # k
  \/ pc = "sending" /\ send.key \in held \cap KeysOf(v)

TwiceInv == \A v \in Videos : TwoHold(v) => v \in twice

HoldInv == HoldTypes /\ TwiceInv /\ RenderStatusHolds

-----------------------------------------------------------------------------
\* The keys of different buffers differ.
LEMMA KeyFacts ==
  /\ VideoKeys \subseteq Keys /\ Buffers \subseteq Keys
  /\ \A k \in Keys : k \notin VideoKeys => k \in Buffers
  /\ None \notin Keys
  /\ \A k \in VideoKeys : k[1] \in Videos /\ k \in KeysOf(k[1])
  /\ \A v \in Videos : /\ KeysOf(v) \subseteq VideoKeys
                       /\ KeysOf(v) \cap Buffers = {} /\ None \notin KeysOf(v)
                       /\ \A k \in KeysOf(v) : k[1] = v
                       /\ \A s \in Shapes : <<v, s>> \in KeysOf(v)
<1>1. None \notin Keys /\ VideoKeys \cap Buffers = {}
  BY NoneAssumption, KeyAssumption
<1>2. \A v \in Videos : KeysOf(v) \subseteq VideoKeys
  BY DEF KeysOf, VideoKeys
<1>3. \A k \in VideoKeys : k[1] \in Videos /\ k \in KeysOf(k[1])
  BY DEF KeysOf, VideoKeys
<1>4. \A v \in Videos : /\ \A k \in KeysOf(v) : k[1] = v
                        /\ \A s \in Shapes : <<v, s>> \in KeysOf(v)
  BY DEF KeysOf
<1>. QED BY <1>1, <1>2, <1>3, <1>4 DEF Keys

LEMMA HoldInit == Init => HoldInv
<1> SUFFICES ASSUME Init PROVE HoldInv
  OBVIOUS
<1> USE KeyFacts
<1>1. HoldTypes
  BY DEF Init, HoldTypes, NoFrame
<1>2. \A v \in Videos : Holders(v) = {}
  BY DEF Init, Holders, NoFrame
<1>3. TwiceInv /\ RenderStatusHolds
  BY <1>2 DEF Init, TwiceInv, TwoHold, RenderStatusHolds, NoFrame
<1>. QED BY <1>1, <1>3 DEF HoldInv

\* Letting k go clears the renderStatus of its buffer and no other.
LEMMA LetGoFacts ==
  ASSUME HoldTypes, NEW k \in Keys, LetGo(k)
  PROVE  /\ busy' \in [Videos -> BOOLEAN]
         /\ \A v \in Videos : busy'[v] = IF k \in KeysOf(v) THEN FALSE ELSE busy[v]
<1> USE KeyFacts
<1>0. busy \in [Videos -> BOOLEAN]
  BY DEF HoldTypes
<1>1. CASE k \in VideoKeys
  <2>1. k[1] \in Videos /\ busy' = [busy EXCEPT ![k[1]] = FALSE]
    BY <1>1 DEF LetGo
  <2>2. busy' \in [Videos -> BOOLEAN]
    BY <1>0, <2>1
  <2>3. ASSUME NEW v \in Videos PROVE busy'[v] = IF k \in KeysOf(v) THEN FALSE ELSE busy[v]
    <3>1. CASE k \in KeysOf(v)
      <4>1. v = k[1]
        BY <3>1
      <4>. QED BY <1>0, <2>1, <3>1, <4>1
    <3>2. CASE k \notin KeysOf(v)
      <4>1. v # k[1]
        BY <1>1, <3>2
      <4>. QED BY <1>0, <2>1, <3>2, <4>1
    <3>. QED BY <3>1, <3>2
  <2>. QED BY <2>2, <2>3
<1>2. CASE k \notin VideoKeys
  <2>1. busy' = busy
    BY <1>2 DEF LetGo
  <2>2. \A v \in Videos : k \notin KeysOf(v)
    BY <1>2
  <2>. QED BY <1>0, <2>1, <2>2
<1>. QED BY <1>1, <1>2

\* The object under k goes while nothing new is held: then the invariant stays,
\* if whoever still holds the same buffer makes it suspect.
LEMMA LoseStep ==
  ASSUME HoldInv, HoldTypes', NEW k \in Keys, LetGo(k), Remember(twice),
         \A v \in Videos : Holders(v)' \subseteq Holders(v),
         \A v \in Videos : TwoHold(v)' => TwoHold(v),
         \A v \in Videos : k \notin KeysOf(v) => Holders(v)' = Holders(v),
         \A v \in Videos : k \in KeysOf(v) /\ Holders(v)' # {} => TwoHold(v)
  PROVE  HoldInv'
<1> USE KeyFacts
<1>1. \A v \in Videos : v \in twice' <=> v \in twice /\ Holders(v)' # {}
  BY DEF Remember, HoldInv, HoldTypes
<1>2. \A v \in Videos : busy'[v] = IF k \in KeysOf(v) THEN FALSE ELSE busy[v]
  BY LetGoFacts DEF HoldInv
<1>3. \A v \in Videos : TwoHold(v)' => Holders(v)' # {}
  <2> SUFFICES ASSUME NEW v \in Videos, TwoHold(v)' PROVE Holders(v)' # {}
    OBVIOUS
  <2>. QED BY DEF TwoHold, Holders
<1>4. TwiceInv'
  BY <1>1, <1>3 DEF TwiceInv, HoldInv
<1>5. RenderStatusHolds'
  <2> SUFFICES ASSUME NEW v \in Videos
               PROVE IF Holders(v)' = {} THEN ~busy'[v] ELSE busy'[v] \/ v \in twice'
    BY DEF RenderStatusHolds
  <2>1. CASE k \in KeysOf(v)
    BY <2>1, <1>1, <1>2 DEF HoldInv, TwiceInv
  <2>2. CASE k \notin KeysOf(v)
    BY <2>2, <1>1, <1>2 DEF HoldInv, RenderStatusHolds
  <2>. QED BY <2>1, <2>2
<1>. QED BY <1>4, <1>5 DEF HoldInv

\* Nothing is held anew or let go.
LEMMA SameStep ==
  ASSUME HoldInv, HoldTypes', UNCHANGED busy, twice' = twice \/ Remember(twice),
         \A v \in Videos : Holders(v)' = Holders(v),
         \A v \in Videos : TwoHold(v)' => TwoHold(v)
  PROVE  HoldInv'
<1>1. \A v \in Videos : Holders(v)' # {} => (v \in twice' <=> v \in twice)
  BY DEF Remember, HoldInv, HoldTypes
<1>2. \A v \in Videos : TwoHold(v)' => Holders(v)' # {}
  <2> SUFFICES ASSUME NEW v \in Videos, TwoHold(v)' PROVE Holders(v)' # {}
    OBVIOUS
  <2>. QED BY DEF TwoHold, Holders
<1>3. TwiceInv'
  BY <1>1, <1>2 DEF TwiceInv, HoldInv
<1>4. RenderStatusHolds'
  BY <1>1 DEF RenderStatusHolds, HoldInv
<1>. QED BY <1>3, <1>4 DEF HoldInv

-----------------------------------------------------------------------------
\* The client gives a buffer back, before or after onFrameReady() returns.
LEMMA ReturnStep == ASSUME HoldInv, NEW k \in held, Return(k) PROVE HoldInv'
<1> USE KeyFacts DEF Return
<1>0. k \in Keys /\ pc' = pc /\ send' = send /\ held' = held \ {k}
  BY DEF HoldInv, HoldTypes
<1>1. HoldTypes'
  <2>1. busy' \in [Videos -> BOOLEAN]
    BY <1>0, LetGoFacts DEF HoldInv, HoldTypes, KeepAll
  <2>2. twice' \subseteq Videos
    BY DEF HoldInv, HoldTypes, Remember
  <2>. QED BY <1>0, <2>1, <2>2 DEF HoldInv, HoldTypes
<1>2. \A v \in Videos : Holders(v)' \subseteq Holders(v) /\ (TwoHold(v)' => TwoHold(v))
  BY <1>0 DEF Holders, TwoHold
<1>3. CASE pc = "ready" /\ send.key = k
  <2>1. \A v \in Videos : Holders(v)' = Holders(v)
    BY <1>0, <1>3 DEF Holders
  <2>. QED BY <1>1, <1>2, <1>3, <2>1, SameStep DEF KeepAll
<1>4. CASE ~(pc = "ready" /\ send.key = k)
  <2>1. \A v \in Videos : k \notin KeysOf(v) => Holders(v)' = Holders(v)
    BY <1>0 DEF Holders
  <2>2. ASSUME NEW v \in Videos, k \in KeysOf(v), Holders(v)' # {} PROVE TwoHold(v)
    <3>1. k \in Holders(v)
      BY <2>2 DEF Holders
    <3>2. PICK j \in Holders(v)' : TRUE
      BY <2>2
    <3>3. CASE j # k
      BY <3>1, <3>2, <3>3, <1>2 DEF TwoHold
    <3>4. CASE j = k
      BY <3>2, <3>4, <1>0, <1>4, <2>2 DEF Holders, TwoHold, HoldInv, HoldTypes
    <3>. QED BY <3>3, <3>4
  <2>. QED BY <1>0, <1>1, <1>2, <1>4, <2>1, <2>2, LoseStep
<1>. QED BY <1>3, <1>4

\* sendToWidi() ends, and with it goes its reference, the last one if k is not
\* in mHeldBuffers: a frame that failed, one that is not sent, or one that was
\* returned already.
LEMMA EndStep ==
  ASSUME HoldInv, pc # "idle", Idle, Remember(twice), held' \subseteq held,
         held \ {send.key} \subseteq held',
         \/ /\ LetGo(send.key)
            /\ send.key \in held' => pc = "sending"
         \/ KeepAll /\ send.key \in held'
  PROVE  HoldInv'
<1> USE KeyFacts
<1>0. send.key \in Keys /\ pc' = "idle" /\ send'.key = None
  BY DEF Idle, NoFrame, HoldInv, HoldTypes
<1>1. HoldTypes'
  <2>1. busy' \in [Videos -> BOOLEAN]
    BY <1>0, LetGoFacts DEF HoldInv, HoldTypes, KeepAll
  <2>2. twice' \subseteq Videos
    BY DEF HoldInv, HoldTypes, Remember
  <2>. QED BY <1>0, <2>1, <2>2 DEF HoldInv, HoldTypes
<1>2. \A v \in Videos : Holders(v)' = held' \cap KeysOf(v)
  BY <1>0 DEF Holders
<1>3. \A v \in Videos : Holders(v)' \subseteq Holders(v)
  BY <1>2 DEF Holders
<1>4. \A v \in Videos : TwoHold(v)' => TwoHold(v)
  BY <1>0, <1>3 DEF TwoHold
<1>5. CASE LetGo(send.key) /\ (send.key \in held' => pc = "sending")
  <2>1. \A v \in Videos : send.key \notin KeysOf(v) => Holders(v)' = Holders(v)
    BY <1>2 DEF Holders
  <2>2. ASSUME NEW v \in Videos, send.key \in KeysOf(v), Holders(v)' # {} PROVE TwoHold(v)
    <3>1. PICK j \in Holders(v)' : TRUE
      BY <2>2
    <3>2. j \in held' /\ j \in Holders(v) /\ send.key \in Holders(v)
      BY <3>1, <1>2, <1>3, <2>2 DEF Holders
    <3>. QED BY <3>2, <1>5, <2>2 DEF TwoHold
  <2>. QED BY <1>0, <1>1, <1>3, <1>4, <1>5, <2>1, <2>2, LoseStep
<1>6. CASE KeepAll /\ send.key \in held'
  <2>1. \A v \in Videos : Holders(v)' = Holders(v)
    BY <1>2, <1>6 DEF Holders
  <2>. QED BY <1>1, <1>4, <1>6, <2>1, SameStep DEF KeepAll
<1>. QED BY <1>5, <1>6

\* The frame is announced and kept, or let go when it was sent last.
LEMMA TellFrameStep == ASSUME HoldInv, TellFrame PROVE HoldInv'
<1> USE KeyFacts
<1>0. send.key \in Keys /\ pc = "sending" /\ Remember(twice)
  BY DEF TellFrame, HoldInv, HoldTypes
<1>1. CASE Repeated
  BY <1>0, <1>1, EndStep DEF TellFrame
<1>2. CASE ~Repeated
  <2>0. held' = held \cup {send.key} /\ pc' = "ready" /\ send' = send
    BY <1>2 DEF TellFrame
  <2>1. HoldTypes'
    <3>1. busy' \in [Videos -> BOOLEAN]
      BY <1>0, <1>2, LetGoFacts DEF HoldInv, HoldTypes, TellFrame, KeepAll
    <3>2. twice' \subseteq Videos
      BY <1>0 DEF HoldInv, HoldTypes, Remember
    <3>. QED BY <1>0, <2>0, <3>1, <3>2 DEF HoldInv, HoldTypes
  <2>2. \A v \in Videos : Holders(v)' = Holders(v) /\ (TwoHold(v)' => TwoHold(v))
    BY <2>0 DEF Holders, TwoHold
  <2>3. CASE send.key \in held
    <3>1. \A v \in Videos : send.key \in KeysOf(v) => TwoHold(v)
      BY <1>0, <2>3 DEF TwoHold
    <3>. QED BY <1>0, <1>2, <2>1, <2>2, <2>3, <3>1, LoseStep DEF TellFrame
  <2>4. CASE send.key \notin held
    BY <1>0, <1>2, <2>1, <2>2, <2>4, SameStep DEF TellFrame, KeepAll
  <2>. QED BY <2>3, <2>4
<1>. QED BY <1>1, <1>2

LEMMA DeliverStep == ASSUME HoldInv, NEW ok \in BOOLEAN, Deliver(ok) PROVE HoldInv'
<1>1. pc = "ready" /\ Idle /\ Remember(twice)
  BY DEF Deliver
<1>2. held' \subseteq held /\ held \ {send.key} \subseteq held'
  BY DEF Deliver
<1>. QED BY <1>1, <1>2, EndStep DEF Deliver

\* A decoder buffer is held anew, or was for a moment.
LEMMA VideoStep ==
  ASSUME HoldInv, NEW f \in Frames, NEW shape \in Shapes, NEW same \in BOOLEAN,
         PrepareVideo(f, shape, same)
  PROVE  HoldInv'
<1> USE KeyFacts
<1> DEFINE v == f.what
           k == <<v, shape>>
<1>0. v \in Videos /\ k \in KeysOf(v) /\ pc = "idle" /\ send.key = None /\ held' = held
  BY DEF PrepareVideo, HoldInv, HoldTypes
<1>1. CASE UNCHANGED <<busy, twice, pc, send>>
  BY <1>0, <1>1 DEF HoldInv, HoldTypes, TwiceInv, TwoHold, RenderStatusHolds, Holders
<1>2. CASE busy' = [busy EXCEPT ![v] = TRUE] /\ pc' = "sending" /\ send'.key = k /\ twice' = Suspects(v)
  <2>1. HoldTypes'
    BY <1>0, <1>2 DEF HoldInv, HoldTypes, Suspects
  <2>2. Holders(v)' = Holders(v) \cup {k}
    BY <1>0, <1>2 DEF Holders
  <2>3. \A w \in Videos \ {v} : k \notin KeysOf(w)
    BY <1>0
  <2>4. \A w \in Videos \ {v} : Holders(w)' = Holders(w)
    BY <1>0, <1>2, <2>3 DEF Holders
  <2>5. TwoHold(v)' => Holders(v) # {}
    BY <1>0, <1>2, <2>2 DEF TwoHold, Holders
  <2>6. \A w \in Videos \ {v} : TwoHold(w)' => TwoHold(w)
    BY <1>2, <2>3, <2>4 DEF TwoHold
  <2>7. TwiceInv'
    BY <1>2, <2>5, <2>6 DEF TwiceInv, Suspects, HoldInv
  <2>8. RenderStatusHolds'
    BY <1>0, <1>2, <2>2, <2>4 DEF RenderStatusHolds, Suspects, HoldInv, HoldTypes
  <2>. QED BY <2>1, <2>7, <2>8 DEF HoldInv
<1>3. CASE busy' = [busy EXCEPT ![v] = FALSE] /\ UNCHANGED <<pc, send>> /\ twice' = Suspects(v)
  <2>1. HoldTypes'
    BY <1>0, <1>3 DEF HoldInv, HoldTypes, Suspects
  <2>2. \A w \in Videos : Holders(w)' = Holders(w) /\ (TwoHold(w)' => TwoHold(w))
    BY <1>0, <1>3 DEF Holders, TwoHold
  <2>3. TwiceInv'
    BY <1>3, <2>2 DEF TwiceInv, Suspects, HoldInv
  <2>4. RenderStatusHolds'
    BY <1>0, <1>3, <2>2 DEF RenderStatusHolds, Suspects, HoldInv, HoldTypes
  <2>. QED BY <2>1, <2>3, <2>4 DEF HoldInv
<1>. QED BY <1>1, <1>2, <1>3 DEF PrepareVideo

\* Conversion buffers hold no payload.
LEMMA RgbStep ==
  ASSUME HoldInv, (\E f \in Frames : PrepareRgb(f)) \/ BlitFails
  PROVE  HoldInv'
<1> USE KeyFacts
<1>1. UNCHANGED <<held, busy, twice>>
  BY DEF PrepareRgb, BlitFails, GiveBack
<1>2. \/ UNCHANGED <<pc, send>>
      \/ pc = "idle" /\ pc' = "sending" /\ send'.key \in Buffers
      \/ send.key \in Buffers /\ pc' = "idle" /\ send'.key = None
  BY DEF PrepareRgb, BlitFails, Idle, NoFrame
<1>3. HoldTypes'
  BY <1>1, <1>2 DEF HoldInv, HoldTypes
<1>4. \A v \in Videos : Holders(v)' = Holders(v)
  BY <1>1, <1>2 DEF Holders, HoldInv, HoldTypes
<1>5. \A v \in Videos : TwoHold(v)' => TwoHold(v)
  BY <1>1, <1>2, <1>4 DEF TwoHold
<1>. QED BY <1>1, <1>3, <1>4, <1>5, SameStep

LEMMA HoldStep == ASSUME HoldInv, [Next]_vars PROVE HoldInv'
<1>1. CASE UNCHANGED <<pc, send, held, busy, twice>>
  BY <1>1 DEF HoldInv, HoldTypes, TwiceInv, TwoHold, RenderStatusHolds, Holders
<1>2. CASE UNCHANGED vars
  BY <1>1, <1>2 DEF vars
<1>3. ASSUME NEW l \in Listeners, NEW ext \in BOOLEAN, Start(l, ext) PROVE HoldInv'
  BY <1>1, <1>3 DEF Start, Composing
<1>4. CASE Stop
  BY <1>1, <1>4 DEF Stop, Composing
<1>5. ASSUME NEW size \in Sizes, SetResolution(size) PROVE HoldInv'
  BY <1>1, <1>5 DEF SetResolution, Composing
<1>6. CASE PrepareStopped
  BY <1>1, <1>6 DEF PrepareStopped
<1>7. ASSUME NEW f \in Frames, PrepareTarget(f) PROVE HoldInv'
  BY <1>1, <1>7 DEF PrepareTarget
<1>8. CASE TellType
  <2>1. pc = "sending" /\ held' = held /\ Idle /\ Remember(twice) /\ LetGo(send.key)
    BY <1>8 DEF TellType
  <2>. QED BY <2>1, EndStep
<1>. QED
  BY <1>2, <1>3, <1>4, <1>5, <1>6, <1>7, <1>8, ReturnStep, RgbStep, VideoStep,
     TellFrameStep, DeliverStep DEF Next

-----------------------------------------------------------------------------
\* What the composing thread knows of the session and of the frames it sent.
FrameTypes ==
  /\ {next, cur} \subseteq Configs
  /\ send \in [key : Keys \cup {None}, in : Infos, out : Infos, same : BOOLEAN]
  /\ last \in [in : Infos, out : Infos, key : VideoKeys \cup {None}]
  /\ told \in [Listeners -> Infos \cup {None}]

LEMMA InfoFacts ==
  /\ Nothing \in Infos /\ Cleared \in Infos
  /\ \A s \in Shapes : Info("video", s, Zero) \in Infos
  /\ \A s \in Sizes \cup {Zero} : Info("rgb", "plain", s) \in Infos
BY DEF Infos

LEMMA FrameTypesInit == Init => FrameTypes
<1> SUFFICES ASSUME Init PROVE FrameTypes
  OBVIOUS
<1>1. next \in Configs /\ cur = next
  BY DEF Init, Stopped, Configs
<1>2. send \in [key : Keys \cup {None}, in : Infos, out : Infos, same : BOOLEAN]
  BY InfoFacts DEF Init, NoFrame
<1>3. last \in [in : Infos, out : Infos, key : VideoKeys \cup {None}]
  BY InfoFacts DEF Init
<1>4. told \in [Listeners -> Infos \cup {None}]
  BY DEF Init
<1>. QED BY <1>1, <1>2, <1>3, <1>4 DEF FrameTypes

LEMMA FrameTypesStep == ASSUME FrameTypes, [Next]_vars PROVE FrameTypes'
<1> USE InfoFacts, KeyFacts DEF FrameTypes
<1>0. /\ next \in Configs /\ cur \in Configs
      /\ CopyConfig => next' \in Configs /\ cur' \in Configs
      /\ Idle => send' \in [key : Keys \cup {None}, in : Infos, out : Infos, same : BOOLEAN]
  <2>0. next \in Configs /\ cur \in Configs
    OBVIOUS
  <2>1. CopyConfig => next' \in Configs /\ cur' \in Configs
    BY <2>0 DEF CopyConfig, Configs
  <2>2. Idle => send' \in [key : Keys \cup {None}, in : Infos, out : Infos, same : BOOLEAN]
    BY DEF Idle, NoFrame
  <2>. QED BY <2>0, <2>1, <2>2
<1>1. CASE UNCHANGED vars
  BY <1>1 DEF vars
<1>2. ASSUME NEW l \in Listeners, NEW ext \in BOOLEAN, Start(l, ext) PROVE FrameTypes'
  <2>1. next' \in Configs
    BY <1>2 DEF Start, Configs
  <2>. QED BY <1>2, <2>1 DEF Start, Composing
<1>3. CASE Stop
  <2>1. next' \in Configs
    BY <1>3 DEF Stop, Configs
  <2>. QED BY <1>3, <2>1 DEF Stop, Composing
<1>4. ASSUME NEW size \in Sizes, SetResolution(size) PROVE FrameTypes'
  <2>1. next' \in Configs
    BY <1>4 DEF SetResolution, Configs
  <2>. QED BY <1>4, <2>1 DEF SetResolution, Composing
<1>5. ASSUME NEW k \in held, Return(k) PROVE FrameTypes'
  BY <1>5 DEF Return
<1>6. CASE PrepareStopped
  BY <1>0, <1>6 DEF PrepareStopped
<1>7. ASSUME NEW f \in Frames, PrepareTarget(f) PROVE FrameTypes'
  <2>1. told' \in [Listeners -> Infos \cup {None}] /\ last' \in [in : Infos, out : Infos, key : VideoKeys \cup {None}]
    BY <1>7 DEF PrepareTarget
  <2>. QED BY <1>0, <1>7, <2>1 DEF PrepareTarget
<1>8. ASSUME NEW f \in Frames, PrepareRgb(f) PROVE FrameTypes'
  <2>1. send' \in [key : Keys \cup {None}, in : Infos, out : Infos, same : BOOLEAN]
    <3>1. next.size \in Sizes \cup {Zero}
      BY <1>0 DEF Configs
    <3>2. /\ Info("rgb", "plain", Zero) \in Infos /\ Info("rgb", "plain", next.size) \in Infos
          /\ Buffers \subseteq Keys
      BY <3>1
    <3>3. \/ send' = send
          \/ \E b \in Buffers : send' = [key |-> b, in |-> Info("rgb", "plain", Zero),
                                       out |-> Info("rgb", "plain", next.size), same |-> FALSE]
      BY <1>8 DEF PrepareRgb
    <3>4. ASSUME NEW b \in Buffers,
                 send' = [key |-> b, in |-> Info("rgb", "plain", Zero),
                          out |-> Info("rgb", "plain", next.size), same |-> FALSE]
          PROVE  send' \in [key : Keys \cup {None}, in : Infos, out : Infos, same : BOOLEAN]
      <4>1. b \in Keys
        BY <3>2
      <4>. QED BY <4>1, <3>2, <3>4
    <3>. QED BY <3>3, <3>4
  <2>. QED BY <1>0, <1>8, <2>1 DEF PrepareRgb
<1>9. ASSUME NEW f \in Frames, NEW shape \in Shapes, NEW same \in BOOLEAN, PrepareVideo(f, shape, same)
      PROVE  FrameTypes'
  <2>1. <<f.what, shape>> \in Keys
    BY <1>9 DEF PrepareVideo
  <2>2. send' \in [key : Keys \cup {None}, in : Infos, out : Infos, same : BOOLEAN]
    BY <1>9, <2>1 DEF PrepareVideo
  <2>. QED BY <1>0, <1>9, <2>2 DEF PrepareVideo
<1>10. CASE BlitFails
  BY <1>0, <1>10 DEF BlitFails
<1>11. CASE TellType
  <2>1. last' \in [in : Infos, out : Infos, key : VideoKeys \cup {None}]
    BY <1>11 DEF TellType
  <2>. QED BY <1>0, <1>11, <2>1 DEF TellType
<1>12. CASE TellFrame
  <2>1. last' \in [in : Infos, out : Infos, key : VideoKeys \cup {None}]
    BY <1>12 DEF TellFrame
  <2>2. told' \in [Listeners -> Infos \cup {None}]
    BY <1>12 DEF TellFrame
  <2>3. send' \in [key : Keys \cup {None}, in : Infos, out : Infos, same : BOOLEAN]
    BY <1>0, <1>12 DEF TellFrame
  <2>. QED BY <1>12, <2>1, <2>2, <2>3 DEF TellFrame
<1>13. ASSUME NEW ok \in BOOLEAN, Deliver(ok) PROVE FrameTypes'
  <2>1. last' \in [in : Infos, out : Infos, key : VideoKeys \cup {None}]
    BY <1>13 DEF Deliver
  <2>. QED BY <1>0, <1>13, <2>1 DEF Deliver
<1>. QED
  BY <1>1, <1>2, <1>3, <1>4, <1>5, <1>6, <1>7, <1>8, <1>9, <1>10, <1>11, <1>12, <1>13 DEF Next

-----------------------------------------------------------------------------
\* The conversion pool p, its buffers' sizes d and the buffers in use, with what
\* an induction needs to know of them beyond PoolWhole: a buffer that has to be
\* made is neither in use nor in the pool.
PoolTypes(p, d, used) ==
  /\ p.size \in Sizes \cup {Zero} /\ p.avail \in Seq(Buffers) /\ p.create \in Nat
  /\ p = [size |-> p.size, avail |-> p.avail, create |-> p.create]
  /\ d \in [Buffers -> [made : BOOLEAN, size : Sizes \cup {Zero}]]
  /\ used \subseteq Buffers /\ IsFiniteSet(used)

PoolGood(p, d, used) ==
  /\ \A i, j \in DOMAIN p.avail : p.avail[i] = p.avail[j] => i = j
  /\ \A i \in DOMAIN p.avail : /\ p.avail[i] \notin used
                               /\ d[p.avail[i]] = [made |-> TRUE, size |-> p.size]
  /\ \A b \in used : d[b].made
  /\ p.create + Len(p.avail) + Cardinality(used) >= PoolSize

Used == Buffers \cap InUse

\* A buffer being converted into was not in use before.
NewIsNotHeld == pc = "sending" /\ send.key \in Buffers => send.key \notin held

PoolInv ==
  /\ IsFiniteSet(held)
  /\ PoolTypes(pool, dim, Used) /\ PoolGood(pool, dim, Used)
  /\ NewIsNotHeld

LEMMA PoolInit == Init => PoolInv
<1> SUFFICES ASSUME Init PROVE PoolInv
  OBVIOUS
<1>1. Used = {} /\ held = {}
  BY NoneAssumption DEF Init, Used, InUse, NoFrame, Keys
<1>2. IsFiniteSet({}) /\ Cardinality({}) = 0
  BY FS_EmptySet
<1>3. pool = [size |-> Zero, avail |-> <<>>, create |-> PoolSize] /\ dim = [b \in Buffers |-> NoBuffer]
  BY DEF Init
<1>4. pool.avail = <<>> /\ pool.create = PoolSize /\ pool.size = Zero
  BY <1>3
<1>5. PoolTypes(pool, dim, {})
  BY <1>2, <1>3, <1>4, PoolAssumption DEF PoolTypes, NoBuffer
<1>6. PoolGood(pool, dim, {})
  BY <1>2, <1>4, PoolAssumption DEF PoolGood
<1>. QED BY <1>1, <1>2, <1>5, <1>6 DEF PoolInv, NewIsNotHeld, Init

\* A buffer that is given back is out of use: it is in the pool again, or may be
\* made anew.
LEMMA GiveBackFacts ==
  ASSUME NEW b \in Used, PoolTypes(pool, dim, Used), PoolGood(pool, dim, Used), GiveBack(b)
  PROVE  PoolTypes(pool', dim', Used \ {b}) /\ PoolGood(pool', dim', Used \ {b})
<1> DEFINE U == Used \ {b}
<1>1. IsFiniteSet(U) /\ Cardinality(U) = Cardinality(Used) - 1 /\ Cardinality(Used) \in Nat
  BY FS_RemoveElement, FS_CardinalityType DEF PoolTypes
<1>2. b \in Buffers /\ U \subseteq Buffers
  BY DEF PoolTypes
<1>3. \A i \in DOMAIN pool.avail : pool.avail[i] \in Buffers /\ pool.avail[i] # b
  BY DEF PoolTypes, PoolGood
<1> HIDE DEF U
<1>4. CASE dim[b].size = pool.size
  <2>1. dim' = dim /\ pool' = [size |-> pool.size, avail |-> Append(pool.avail, b), create |-> pool.create]
    BY <1>4 DEF GiveBack, PoolTypes
  <2>2. /\ pool'.size = pool.size /\ pool'.create = pool.create
        /\ pool'.avail = Append(pool.avail, b) /\ pool'.avail \in Seq(Buffers)
        /\ Len(pool'.avail) = Len(pool.avail) + 1
    BY <2>1, <1>2 DEF PoolTypes
  <2>3. PoolTypes(pool', dim', U)
    BY <2>1, <2>2, <1>1, <1>2 DEF PoolTypes
  <2>4. \A i \in DOMAIN pool'.avail : IF i = Len(pool.avail) + 1 THEN pool'.avail[i] = b
                                      ELSE i \in DOMAIN pool.avail /\ pool'.avail[i] = pool.avail[i]
    BY <2>2, <1>2 DEF PoolTypes
  <2>5. \A i, j \in DOMAIN pool'.avail : pool'.avail[i] = pool'.avail[j] => i = j
    BY <2>4, <1>3 DEF PoolGood
  <2>6. dim[b] = [made |-> TRUE, size |-> pool.size]
    BY <1>4, <1>2 DEF PoolTypes, PoolGood
  <2>7. \A i \in DOMAIN pool'.avail : /\ pool'.avail[i] \notin U
                                      /\ dim'[pool'.avail[i]] = [made |-> TRUE, size |-> pool'.size]
    <3>1. b \notin U /\ \A i \in DOMAIN pool.avail : pool.avail[i] \notin U
      BY DEF PoolGood, U
    <3>2. /\ dim'[b] = [made |-> TRUE, size |-> pool'.size]
          /\ \A i \in DOMAIN pool.avail : dim'[pool.avail[i]] = [made |-> TRUE, size |-> pool'.size]
      BY <2>1, <2>2, <2>6 DEF PoolGood
    <3>. QED BY <2>4, <3>1, <3>2
  <2>8. pool'.create + Len(pool'.avail) + Cardinality(U) >= PoolSize
    BY <2>2, <1>1, PoolAssumption DEF PoolGood, PoolTypes
  <2>. QED BY <2>1, <2>3, <2>5, <2>7, <2>8 DEF PoolGood, U
<1>5. CASE dim[b].size # pool.size
  <2>1. dim' = [dim EXCEPT ![b] = NoBuffer] /\ pool' = [pool EXCEPT !.create = @ + 1]
    BY <1>5 DEF GiveBack
  <2>2. pool'.size = pool.size /\ pool'.avail = pool.avail /\ pool'.create = pool.create + 1
    BY <2>1 DEF PoolTypes
  <2>3. dim' \in [Buffers -> [made : BOOLEAN, size : Sizes \cup {Zero}]]
    BY <2>1 DEF PoolTypes, NoBuffer
  <2>4. PoolTypes(pool', dim', U)
    BY <2>1, <2>2, <2>3, <1>1, <1>2 DEF PoolTypes
  <2>5. \A c \in Buffers \ {b} : dim'[c] = dim[c]
    BY <2>1 DEF PoolTypes
  <2>6. \A i \in DOMAIN pool.avail : /\ pool.avail[i] \notin U
                                     /\ dim'[pool.avail[i]] = [made |-> TRUE, size |-> pool.size]
    BY <2>5, <1>3 DEF PoolGood, U
  <2>7. \A c \in U : dim'[c].made
    BY <2>5 DEF PoolGood, PoolTypes, U
  <2>8. pool'.create + Len(pool'.avail) + Cardinality(U) >= PoolSize
    BY <2>2, <1>1, PoolAssumption DEF PoolGood, PoolTypes
  <2>. QED BY <2>2, <2>4, <2>6, <2>7, <2>8 DEF PoolGood, U
<1>. QED BY <1>4, <1>5 DEF U

\* A pool of another size starts empty.
LEMMA ResizedFacts ==
  ASSUME NEW size \in Sizes \cup {Zero}, PoolTypes(pool, dim, Used), PoolGood(pool, dim, Used)
  PROVE  LET r == Resized(size)
         IN PoolTypes(r.p, r.d, Used) /\ PoolGood(r.p, r.d, Used) /\ r.p.size = size
<1> DEFINE r == Resized(size)
<1>1. CASE pool.size = size
  BY <1>1 DEF Resized
<1>2. CASE pool.size # size
  <2>1. /\ r.p = [size |-> size, avail |-> <<>>, create |-> PoolSize]
        /\ r.d = [b \in Buffers |-> IF b \in Range(pool.avail) THEN NoBuffer ELSE dim[b]]
    BY <1>2 DEF Resized
  <2>2. r.p.size = size /\ r.p.avail = <<>> /\ r.p.create = PoolSize
    BY <2>1
  <2>3. r.d \in [Buffers -> [made : BOOLEAN, size : Sizes \cup {Zero}]]
    BY <2>1 DEF PoolTypes, NoBuffer
  <2>4. \A b \in Used : r.d[b] = dim[b]
    BY <2>1 DEF PoolTypes, PoolGood, Range
  <2>5. Cardinality(Used) \in Nat
    BY FS_CardinalityType DEF PoolTypes
  <2> HIDE DEF r
  <2>6. PoolTypes(r.p, r.d, Used)
    BY <2>1, <2>2, <2>3, PoolAssumption DEF PoolTypes
  <2>7. PoolGood(r.p, r.d, Used)
    BY <2>2, <2>4, <2>5, PoolAssumption DEF PoolGood
  <2>. QED BY <2>2, <2>6, <2>7 DEF r
<1>. QED BY <1>1, <1>2

\* A buffer that is taken, from the list or made, was not in use, and has the
\* pool's size unless gralloc refused to make it.
LEMMA TakenFacts ==
  ASSUME NEW r, PoolTypes(r.p, r.d, Used), PoolGood(r.p, r.d, Used),
         NEW b \in Buffers, NEW made \in {r.p.size, Zero}, Taken(r, b, made)
  PROVE  /\ b \notin Used /\ dim'[b].size \in {r.p.size, Zero}
         /\ PoolTypes(pool', dim', Used \cup {b}) /\ PoolGood(pool', dim', Used \cup {b})
<1> DEFINE U == Used \cup {b}
<1>0. Cardinality(Used) \in Nat /\ U \subseteq Buffers
  BY FS_CardinalityType DEF PoolTypes
<1>1. CASE r.p.avail # <<>>
  <2>1. /\ b = r.p.avail[1] /\ 1 \in DOMAIN r.p.avail /\ dim' = r.d
        /\ pool' = [size |-> r.p.size, avail |-> Tail(r.p.avail), create |-> r.p.create]
    BY <1>1 DEF Taken, PoolTypes
  <2>2. /\ pool'.size = r.p.size /\ pool'.create = r.p.create
        /\ pool'.avail = Tail(r.p.avail) /\ pool'.avail \in Seq(Buffers)
        /\ Len(pool'.avail) = Len(r.p.avail) - 1
    BY <2>1, <1>1 DEF PoolTypes
  <2>3. \A i \in DOMAIN pool'.avail : i + 1 \in DOMAIN r.p.avail /\ pool'.avail[i] = r.p.avail[i + 1] /\ i # 0
    BY <2>2, <1>1 DEF PoolTypes
  <2>4. b \notin Used /\ dim'[b] = [made |-> TRUE, size |-> r.p.size]
    BY <2>1 DEF PoolGood
  <2>5. IsFiniteSet(U) /\ Cardinality(U) = Cardinality(Used) + 1
    BY <2>4, FS_AddElement DEF PoolTypes
  <2> HIDE DEF U
  <2>6. PoolTypes(pool', dim', U)
    BY <2>1, <2>2, <2>5, <1>0 DEF PoolTypes
  <2>7. \A i, j \in DOMAIN pool'.avail : pool'.avail[i] = pool'.avail[j] => i = j
    <3> SUFFICES ASSUME NEW i \in DOMAIN pool'.avail, NEW j \in DOMAIN pool'.avail,
                        pool'.avail[i] = pool'.avail[j]
                 PROVE  i = j
      OBVIOUS
    <3>1. i + 1 = j + 1
      BY <2>3 DEF PoolGood
    <3>2. i \in Nat /\ j \in Nat
      BY <2>2
    <3>. QED BY <3>1, <3>2
  <2>8. \A i \in DOMAIN pool'.avail : pool'.avail[i] # b
    <3> SUFFICES ASSUME NEW i \in DOMAIN pool'.avail, pool'.avail[i] = b PROVE FALSE
      OBVIOUS
    <3>1. i + 1 = 1 /\ i \in Nat
      BY <2>1, <2>2, <2>3 DEF PoolGood
    <3>. QED BY <3>1, <2>3
  <2>9. \A i \in DOMAIN pool'.avail : /\ pool'.avail[i] \notin U
                                      /\ dim'[pool'.avail[i]] = [made |-> TRUE, size |-> pool'.size]
    <3>1. \A i \in DOMAIN r.p.avail : /\ r.p.avail[i] \notin Used
                                       /\ dim'[r.p.avail[i]] = [made |-> TRUE, size |-> pool'.size]
      BY <2>1, <2>2 DEF PoolGood
    <3>. QED BY <2>3, <2>8, <3>1 DEF U
  <2>10. \A c \in U : dim'[c].made
    BY <2>1, <2>4 DEF PoolGood, U
  <2>11. pool'.create + Len(pool'.avail) + Cardinality(U) >= PoolSize
    BY <2>2, <2>5, <1>0, PoolAssumption DEF PoolGood, PoolTypes
  <2>. QED BY <2>4, <2>6, <2>7, <2>9, <2>10, <2>11 DEF PoolGood, U
<1>2. CASE r.p.avail = <<>>
  <2>1. /\ r.p.create > 0 /\ ~r.d[b].made /\ pool' = [r.p EXCEPT !.create = @ - 1]
        /\ dim' = [r.d EXCEPT ![b] = [made |-> TRUE, size |-> made]]
    BY <1>2 DEF Taken
  <2>2. /\ pool'.size = r.p.size /\ pool'.avail = <<>> /\ pool'.create = r.p.create - 1
        /\ pool'.create \in Nat
    BY <2>1, <1>2 DEF PoolTypes
  <2>3. b \notin Used
    BY <2>1 DEF PoolGood
  <2>4. IsFiniteSet(U) /\ Cardinality(U) = Cardinality(Used) + 1
    BY <2>3, FS_AddElement DEF PoolTypes
  <2>5. dim' \in [Buffers -> [made : BOOLEAN, size : Sizes \cup {Zero}]]
    BY <2>1 DEF PoolTypes
  <2>6. dim'[b] = [made |-> TRUE, size |-> made] /\ \A c \in Buffers \ {b} : dim'[c] = r.d[c]
    BY <2>1 DEF PoolTypes
  <2> HIDE DEF U
  <2>7. PoolTypes(pool', dim', U)
    BY <2>1, <2>2, <2>4, <2>5, <1>0, <1>2 DEF PoolTypes
  <2>8. \A c \in U : dim'[c].made
    BY <2>6 DEF PoolGood, PoolTypes, U
  <2>9. pool'.create + Len(pool'.avail) + Cardinality(U) >= PoolSize
    BY <2>2, <2>4, <1>0, <1>2, PoolAssumption DEF PoolGood, PoolTypes
  <2>. QED BY <2>2, <2>3, <2>6, <2>7, <2>8, <2>9 DEF PoolGood, U
<1>. QED BY <1>1, <1>2

-----------------------------------------------------------------------------
\* The steps and the pool.  Nothing is taken from it or given back.
LEMMA PoolKept ==
  ASSUME PoolInv, UNCHANGED <<pool, dim>>, Used' = Used, NewIsNotHeld', IsFiniteSet(held')
  PROVE  PoolInv'
BY DEF PoolInv, PoolTypes, PoolGood

\* What is let go is out of use afterwards, if it was a conversion buffer.
LEMMA PoolLetGo ==
  ASSUME HoldInv, PoolInv, NEW k \in Keys \cap InUse, LetGo(k), Used' = Used \ {k}, NewIsNotHeld',
         IsFiniteSet(held')
  PROVE  PoolInv'
<1> USE KeyFacts
<1>1. CASE k \in VideoKeys
  <2>1. UNCHANGED <<pool, dim>> /\ k \notin Buffers
    BY <1>1, KeyAssumption DEF LetGo
  <2>2. Used' = Used
    BY <2>1 DEF Used
  <2>. QED BY <2>1, <2>2, PoolKept DEF PoolInv
<1>2. CASE k \notin VideoKeys
  <2>1. k \in Used /\ GiveBack(k)
    BY <1>2 DEF LetGo, Used
  <2>2. PoolTypes(pool', dim', Used') /\ PoolGood(pool', dim', Used')
    BY <2>1, GiveBackFacts DEF PoolInv
  <2>. QED BY <2>2 DEF PoolInv
<1>. QED BY <1>1, <1>2

LEMMA PoolReturn == ASSUME HoldInv, PoolInv, NEW k \in held, Return(k) PROVE PoolInv'
<1> USE KeyFacts DEF Return
<1>0. /\ k \in Keys /\ pc' = pc /\ send' = send /\ held' = held \ {k} /\ IsFiniteSet(held')
  BY FS_RemoveElement DEF HoldInv, HoldTypes, PoolInv
<1>1. NewIsNotHeld'
  BY <1>0 DEF NewIsNotHeld, PoolInv
<1>2. CASE pc = "ready" /\ send.key = k
  <2>1. Used' = Used
    BY <1>0, <1>2 DEF Used, InUse
  <2>. QED BY <1>0, <1>1, <1>2, <2>1, PoolKept DEF KeepAll, PoolInv
<1>3. CASE ~(pc = "ready" /\ send.key = k)
  <2>1. k \in Buffers => send.key # k
    BY <1>0, <1>3 DEF HoldInv, HoldTypes, PoolInv, NewIsNotHeld
  <2>2. Used' = Used \ {k}
    BY <1>0, <2>1 DEF Used, InUse
  <2>. QED BY <1>0, <1>1, <1>3, <2>2, PoolLetGo DEF InUse, PoolInv
<1>. QED BY <1>2, <1>3

\* sendToWidi() ends and its buffer, unless the client has it, goes back.
LEMMA PoolEnd ==
  ASSUME HoldInv, PoolInv, pc # "idle", Idle, held' \subseteq held, held \ {send.key} \subseteq held',
         \/ LetGo(send.key) /\ (send.key \in Buffers => send.key \notin held')
         \/ KeepAll /\ send.key \in held'
  PROVE  PoolInv'
<1> USE KeyFacts
<1>1. send.key \in Keys /\ pc' = "idle" /\ send'.key = None /\ None \notin Buffers
  BY DEF Idle, NoFrame, HoldInv, HoldTypes
<1>2. NewIsNotHeld' /\ IsFiniteSet(held')
  BY <1>1, FS_Subset DEF NewIsNotHeld, PoolInv
<1>3. CASE LetGo(send.key) /\ (send.key \in Buffers => send.key \notin held')
  <2>1. Used' = Used \ {send.key}
    BY <1>1, <1>3 DEF Used, InUse
  <2>. QED BY <1>1, <1>2, <1>3, <2>1, PoolLetGo DEF InUse
<1>4. CASE KeepAll /\ send.key \in held'
  <2>1. Used' = Used
    BY <1>1, <1>4 DEF Used, InUse
  <2>. QED BY <1>2, <1>4, <2>1, PoolKept DEF KeepAll, PoolInv
<1>. QED BY <1>3, <1>4

LEMMA PoolTellFrame == ASSUME HoldInv, FrameTypes, PoolInv, TellFrame PROVE PoolInv'
<1> USE KeyFacts DEF TellFrame
<1>0. send.key \in Keys /\ (send.key \in Buffers => send.key \notin held)
  BY DEF HoldInv, HoldTypes, PoolInv, NewIsNotHeld
<1>1. CASE Repeated
  <2>1. send.key \in VideoKeys
    BY <1>0, <1>1 DEF Repeated, FrameTypes
  <2>. QED BY <1>0, <1>1, <2>1, KeyAssumption, PoolEnd
<1>2. CASE ~Repeated
  <2>1. held' = held \cup {send.key} /\ send' = send /\ pc' = "ready" /\ IsFiniteSet(held')
    BY <1>2, FS_AddElement DEF PoolInv
  <2>2. Used' = Used /\ NewIsNotHeld'
    BY <2>1 DEF Used, InUse, NewIsNotHeld
  <2>3. UNCHANGED <<pool, dim>>
    BY <1>0, <1>2 DEF LetGo, KeepAll
  <2>. QED BY <1>0, <2>1, <2>2, <2>3, PoolKept DEF PoolInv
<1>. QED BY <1>1, <1>2

LEMMA PoolDeliver == ASSUME HoldInv, PoolInv, NEW ok \in BOOLEAN, Deliver(ok) PROVE PoolInv'
<1>1. held' \subseteq held /\ held \ {send.key} \subseteq held' /\ pc = "ready" /\ Idle
  BY DEF Deliver
<1>. QED BY <1>1, PoolEnd DEF Deliver

LEMMA PoolRgb == ASSUME HoldInv, FrameTypes, PoolInv, NEW f \in Frames, PrepareRgb(f) PROVE PoolInv'
<1> DEFINE r == Resized(next.size)
<1>0. /\ pc = "idle" /\ send.key = None /\ None \notin Buffers /\ held' = held
      /\ next.size \in Sizes \cup {Zero}
  BY KeyFacts DEF PrepareRgb, HoldInv, HoldTypes, FrameTypes, Configs
<1>1. PoolTypes(r.p, r.d, Used) /\ PoolGood(r.p, r.d, Used) /\ r.p.size = next.size
  BY <1>0, ResizedFacts DEF PoolInv
<1>2. CASE UNCHANGED <<pool, dim, pc, send>>
  BY <1>0, <1>2, PoolKept DEF Used, InUse, NewIsNotHeld, PoolInv
<1>3. CASE pool' = r.p /\ dim' = r.d /\ UNCHANGED <<pc, send>>
  <2>1. Used' = Used /\ NewIsNotHeld'
    BY <1>0, <1>3 DEF Used, InUse, NewIsNotHeld
  <2>. QED BY <1>0, <1>1, <1>3, <2>1 DEF PoolInv
<1>4. ASSUME NEW b \in Buffers, NEW made \in {next.size, Zero}, Taken(r, b, made),
             pc' = "sending", send'.key = b
      PROVE  PoolInv'
  <2> HIDE DEF r
  <2>1. b \notin Used /\ PoolTypes(pool', dim', Used \cup {b}) /\ PoolGood(pool', dim', Used \cup {b})
    BY <1>1, <1>4, TakenFacts
  <2>2. Used' = Used \cup {b}
    BY <1>0, <1>4 DEF Used, InUse
  <2>3. NewIsNotHeld'
    BY <1>0, <1>4, <2>1 DEF Used, InUse, NewIsNotHeld
  <2>. QED BY <1>0, <2>1, <2>2, <2>3 DEF PoolInv
<1>. QED BY <1>2, <1>3, <1>4 DEF PrepareRgb

LEMMA PoolStep == ASSUME HoldInv, FrameTypes, PoolInv, [Next]_vars PROVE PoolInv'
<1>1. ASSUME UNCHANGED <<pc, send, pool, dim, held>> PROVE PoolInv'
  BY <1>1, PoolKept DEF Used, InUse, NewIsNotHeld, PoolInv
<1>2. CASE UNCHANGED vars
  BY <1>1, <1>2 DEF vars
<1>3. ASSUME NEW l \in Listeners, NEW ext \in BOOLEAN, Start(l, ext) PROVE PoolInv'
  BY <1>1, <1>3 DEF Start, Composing
<1>4. CASE Stop
  BY <1>1, <1>4 DEF Stop, Composing
<1>5. ASSUME NEW size \in Sizes, SetResolution(size) PROVE PoolInv'
  BY <1>1, <1>5 DEF SetResolution, Composing
<1>6. CASE PrepareStopped
  BY <1>1, <1>6 DEF PrepareStopped
<1>7. ASSUME NEW f \in Frames, PrepareTarget(f) PROVE PoolInv'
  BY <1>1, <1>7 DEF PrepareTarget
<1>8. ASSUME NEW f \in Frames, NEW shape \in Shapes, NEW same \in BOOLEAN, PrepareVideo(f, shape, same)
      PROVE  PoolInv'
  <2>1. UNCHANGED <<pool, dim, held>> /\ pc = "idle" /\ f.what \in Videos
    BY <1>8 DEF PrepareVideo
  <2>2. send.key \notin Buffers /\ (UNCHANGED <<pc, send>> \/ send'.key \notin Buffers)
    BY <1>8, <2>1, KeyFacts DEF PrepareVideo, HoldInv, HoldTypes
  <2>3. Used' = Used /\ NewIsNotHeld'
    BY <2>1, <2>2 DEF Used, InUse, NewIsNotHeld
  <2>. QED BY <2>1, <2>3, PoolKept DEF PoolInv
<1>9. CASE BlitFails
  <2>1. LetGo(send.key) /\ send.key \notin held /\ pc = "sending" /\ Idle /\ held' = held
    BY <1>9, KeyAssumption DEF BlitFails, LetGo, PoolInv, NewIsNotHeld
  <2>. QED BY <2>1, PoolEnd
<1>10. CASE TellType
  <2>1. LetGo(send.key) /\ pc = "sending" /\ Idle /\ held' = held
    BY <1>10 DEF TellType
  <2>. QED BY <2>1, PoolEnd DEF PoolInv, NewIsNotHeld
<1>. QED
  BY <1>2, <1>3, <1>4, <1>5, <1>6, <1>7, <1>8, <1>9, <1>10, PoolReturn, PoolRgb, PoolTellFrame,
     PoolDeliver DEF Next

-----------------------------------------------------------------------------
\* What the listeners of this session and of the one that is composed know: at
\* most the frame sent last, and a listener that has just come knows nothing.
ToldInv ==
  /\ next.size # Zero => next.type # None /\ next.frame = next.type
  /\ next.type # None => told[next.type] \in {None, last.out}
  /\ next.type \notin {None, cur.type} => told[next.type] = None
  /\ pc # "idle" => cur.type # None /\ (cur.size # Zero => cur.frame = cur.type)
  /\ pc = "sending" => told[cur.type] \in {None, last.out}
  /\ pc = "ready" => cur.size # Zero /\ told[cur.type] \in {None, send.out}

\* The buffer being converted into has the size of the session, or none.
FitInv ==
  send.key \in Buffers =>
    /\ pc = "sending" => dim[send.key].size \in {cur.size, Zero}
    /\ pc = "ready" => dim[send.key].size = cur.size

LEMMA AgreeInit == Init => ToldInv /\ FitInv
BY NoneAssumption DEF Init, ToldInv, FitInv, Stopped

\* A frame comes to its end, or its buffer back.
LEMMA ToldKept ==
  ASSUME ToldInv, UNCHANGED <<next, cur, told>>, last'.out = last.out,
         pc' = "idle" \/ UNCHANGED <<pc, send>>
  PROVE  ToldInv'
BY DEF ToldInv

\* A frame begins with the configuration of the session.
LEMMA ToldCopied ==
  ASSUME ToldInv, FrameTypes, next.type # None, CopyConfig, UNCHANGED <<told, last>>,
         pc' \in {"idle", "sending"}
  PROVE  ToldInv'
<1>1. cur' = next /\ next'.type = next.type /\ next'.size = next.size /\ next'.frame = next.frame
  BY DEF CopyConfig, FrameTypes, Configs
<1>. QED BY <1>1 DEF ToldInv

LEMMA ToldTarget == ASSUME ToldInv, FrameTypes, NEW f \in Frames, PrepareTarget(f) PROVE ToldInv'
<1>1. /\ cur' = next /\ next'.type = next.type /\ next'.size = next.size /\ next'.frame = next.frame
      /\ next.type \in Listeners /\ pc = "idle" /\ pc' = "idle"
  BY DEF PrepareTarget, CopyConfig, FrameTypes, Configs
<1>2. \/ UNCHANGED <<told, last>>
      \/ told'[next.type] = Nothing /\ last'.out = Nothing
  BY <1>1 DEF PrepareTarget, FrameTypes
<1>. QED BY <1>1, <1>2 DEF ToldInv

LEMMA ToldTellFrame == ASSUME ToldInv, FrameTypes, TellFrame PROVE ToldInv'
<1>1. /\ UNCHANGED <<next, cur>> /\ pc = "sending" /\ cur.size # Zero
      /\ pc' = "idle" \/ (pc' = "ready" /\ send' = send)
      /\ cur.type \in Listeners
  BY DEF TellFrame, Idle, FrameTypes, Configs, ToldInv
<1>2. last'.out = send.out
  BY DEF TellFrame, FrameTypes
<1>3. told'[cur.type] \in {None, send.out} /\ \A l \in Listeners \ {cur.type} : told'[l] = told[l]
  BY <1>1 DEF TellFrame, FrameTypes, ToldInv, OutNews
<1>4. next.type \in Listeners \cup {None}
  BY DEF FrameTypes, Configs
<1>. QED BY <1>1, <1>2, <1>3, <1>4 DEF ToldInv

LEMMA ToldStep == ASSUME ToldInv, FrameTypes, [Next]_vars PROVE ToldInv'
<1>0. next.type \in Listeners \cup {None}
  BY DEF FrameTypes, Configs
<1>1. CASE UNCHANGED vars
  BY <1>1, ToldKept DEF vars
<1>2. ASSUME NEW l \in Listeners, NEW ext \in BOOLEAN, Start(l, ext) PROVE ToldInv'
  <2>1. /\ next'.type = l /\ next'.size = Zero /\ l # cur.type /\ UNCHANGED <<cur, pc, send, last>>
        /\ told' = [told EXCEPT ![l] = None]
    BY <1>2 DEF Start, Composing, FrameTypes, Configs
  <2>2. told'[l] = None /\ \A m \in Listeners : told'[m] \in {told[m], None}
    BY <2>1 DEF FrameTypes
  <2>3. cur.type \in Listeners \cup {None}
    BY DEF FrameTypes, Configs
  <2>. QED BY <2>1, <2>2, <2>3 DEF ToldInv
<1>3. CASE Stop
  <2>1. next'.type = None /\ next'.size = Zero /\ UNCHANGED <<cur, pc, send, last, told>>
    BY <1>3 DEF Stop, Composing, FrameTypes, Configs
  <2>. QED BY <2>1 DEF ToldInv
<1>4. ASSUME NEW size \in Sizes, SetResolution(size) PROVE ToldInv'
  <2>1. /\ next'.type = next.type /\ next'.frame = next.type /\ next.type # None
        /\ UNCHANGED <<cur, pc, send, last, told>>
    BY <1>4 DEF SetResolution, Composing, FrameTypes, Configs
  <2>. QED BY <2>1 DEF ToldInv
<1>5. ASSUME NEW k \in held, Return(k) PROVE ToldInv'
  BY <1>5, ToldKept DEF Return
<1>6. CASE PrepareStopped
  <2>1. /\ cur' = next /\ next.type = None /\ next'.type = None /\ next'.size = next.size
        /\ pc = "idle" /\ pc' = "idle"
    BY <1>6 DEF PrepareStopped, CopyConfig, FrameTypes, Configs
  <2>. QED BY <2>1 DEF ToldInv
<1>7. ASSUME NEW f \in Frames, PrepareRgb(f) PROVE ToldInv'
  <2>1. next.type # None /\ CopyConfig /\ UNCHANGED <<told, last>> /\ pc' \in {"idle", "sending"}
    BY <1>7 DEF PrepareRgb
  <2>. QED BY <2>1, ToldCopied
<1>8. ASSUME NEW f \in Frames, NEW shape \in Shapes, NEW same \in BOOLEAN, PrepareVideo(f, shape, same)
      PROVE  ToldInv'
  <2>1. next.type # None /\ CopyConfig /\ UNCHANGED <<told, last>> /\ pc' \in {"idle", "sending"}
    BY <1>8 DEF PrepareVideo
  <2>. QED BY <2>1, ToldCopied
<1>9. CASE BlitFails
  BY <1>9, ToldKept DEF BlitFails, Idle
<1>10. CASE TellType
  <2>1. last'.out = last.out
    BY <1>10 DEF TellType, FrameTypes
  <2>. QED BY <1>10, <2>1, ToldKept DEF TellType, Idle
<1>11. ASSUME NEW ok \in BOOLEAN, Deliver(ok) PROVE ToldInv'
  <2>1. last'.out = last.out
    BY <1>11 DEF Deliver, FrameTypes
  <2>. QED BY <1>11, <2>1, ToldKept DEF Deliver, Idle
<1>. QED
  BY <1>1, <1>2, <1>3, <1>4, <1>5, <1>6, <1>7, <1>8, <1>9, <1>10, <1>11, ToldTarget, ToldTellFrame
  DEF Next

LEMMA FitReturn == ASSUME HoldInv, PoolInv, FitInv, NEW k \in held, Return(k) PROVE FitInv'
<1> USE KeyFacts
<1>0. UNCHANGED <<cur, pc, send>> /\ k \in Keys
  BY DEF Return, HoldInv, HoldTypes
<1>1. CASE k = send.key /\ send.key \in Buffers
  <2>1. pc = "ready"
    BY <1>0, <1>1 DEF HoldInv, HoldTypes, PoolInv, NewIsNotHeld
  <2>2. dim' = dim
    BY <1>1, <2>1 DEF Return, KeepAll
  <2>. QED BY <1>0, <2>2 DEF FitInv
<1>2. CASE k # send.key /\ send.key \in Buffers
  <2>1. dim'[send.key] = dim[send.key]
    BY <1>2 DEF Return, LetGo, KeepAll, GiveBack, PoolInv, PoolTypes
  <2>. QED BY <1>0, <2>1 DEF FitInv
<1>3. CASE send.key \notin Buffers
  BY <1>0, <1>3 DEF FitInv
<1>. QED BY <1>1, <1>2, <1>3

LEMMA FitRgb == ASSUME HoldInv, FrameTypes, PoolInv, FitInv, NEW f \in Frames, PrepareRgb(f) PROVE FitInv'
<1> DEFINE r == Resized(next.size)
<1>0. /\ pc = "idle" /\ cur' = next /\ next.size \in Sizes \cup {Zero}
      /\ send.key \notin Buffers
  BY KeyFacts DEF PrepareRgb, CopyConfig, HoldInv, HoldTypes, FrameTypes, Configs
<1>1. PoolTypes(r.p, r.d, Used) /\ PoolGood(r.p, r.d, Used) /\ r.p.size = next.size
  BY <1>0, ResizedFacts DEF PoolInv
<1>2. CASE UNCHANGED <<pc, send>>
  BY <1>0, <1>2 DEF FitInv
<1>3. ASSUME NEW b \in Buffers, NEW made \in {next.size, Zero}, Taken(r, b, made),
             pc' = "sending", send'.key = b
      PROVE  FitInv'
  <2> HIDE DEF r
  <2>1. dim'[b].size \in {next.size, Zero}
    BY <1>1, <1>3, TakenFacts
  <2>. QED BY <1>0, <1>3, <2>1 DEF FitInv
<1>. QED BY <1>2, <1>3 DEF PrepareRgb

LEMMA FitTellFrame == ASSUME HoldInv, FrameTypes, PoolInv, FitInv, TellFrame PROVE FitInv'
<1> USE KeyFacts DEF TellFrame
<1>1. CASE Repeated
  BY <1>1 DEF Idle, NoFrame, FitInv
<1>2. CASE ~Repeated
  <2>1. cur' = cur /\ send' = send /\ pc' = "ready" /\ cur.size # Zero /\ Blitted /\ pc = "sending"
    BY <1>2
  <2>2. send.key \in Buffers => dim' = dim
    BY <1>2 DEF KeepAll, PoolInv, NewIsNotHeld
  <2>. QED BY <2>1, <2>2 DEF FitInv, Blitted
<1>. QED BY <1>1, <1>2

LEMMA FitStep == ASSUME HoldInv, FrameTypes, PoolInv, FitInv, [Next]_vars PROVE FitInv'
<1>1. ASSUME UNCHANGED <<send, dim>>, UNCHANGED <<pc, cur>> \/ pc' = "idle" PROVE FitInv'
  BY <1>1 DEF FitInv
<1>2. ASSUME send'.key \notin Buffers PROVE FitInv'
  BY <1>2 DEF FitInv
<1>3. CASE UNCHANGED vars
  BY <1>1, <1>3 DEF vars
<1>4. ASSUME NEW l \in Listeners, NEW ext \in BOOLEAN, Start(l, ext) PROVE FitInv'
  BY <1>1, <1>4 DEF Start, Composing
<1>5. CASE Stop
  BY <1>1, <1>5 DEF Stop, Composing
<1>6. ASSUME NEW size \in Sizes, SetResolution(size) PROVE FitInv'
  BY <1>1, <1>6 DEF SetResolution, Composing
<1>7. CASE PrepareStopped
  BY <1>1, <1>7 DEF PrepareStopped
<1>8. ASSUME NEW f \in Frames, PrepareTarget(f) PROVE FitInv'
  BY <1>1, <1>8 DEF PrepareTarget
<1>9. ASSUME NEW f \in Frames, NEW shape \in Shapes, NEW same \in BOOLEAN, PrepareVideo(f, shape, same)
      PROVE  FitInv'
  <2>1. send'.key \notin Buffers
    BY <1>9, KeyFacts DEF PrepareVideo, HoldInv, HoldTypes
  <2>. QED BY <2>1, <1>2
<1>10. ASSUME Idle PROVE FitInv'
  BY <1>2, <1>10, KeyFacts DEF Idle, NoFrame
<1>. QED
  BY <1>3, <1>4, <1>5, <1>6, <1>7, <1>8, <1>9, <1>10, FitReturn, FitRgb, FitTellFrame
  DEF Next, BlitFails, TellType, Deliver

-----------------------------------------------------------------------------
FrameInv == HoldInv /\ FrameTypes /\ PoolInv /\ ToldInv /\ FitInv

\* The inductive invariant holds in every state.
THEOREM Invariance == Spec => []FrameInv
<1>1. Init => FrameInv
  BY HoldInit, FrameTypesInit, PoolInit, AgreeInit DEF FrameInv
<1>2. FrameInv /\ [Next]_vars => FrameInv'
  BY HoldStep, FrameTypesStep, PoolStep, ToldStep, FitStep DEF FrameInv
<1>. QED BY <1>1, <1>2, PTL DEF Spec

\* No decoder buffer stays marked as being rendered when nobody holds it, and
\* none that is held by one object is unmarked (HeldDecoderBuffer).
THEOREM RenderStatusIsKept == Spec => []RenderStatusHolds
<1>1. FrameInv => RenderStatusHolds
  BY DEF FrameInv, HoldInv
<1>. QED BY Invariance, <1>1, PTL

\* The conversion pool hands out no buffer twice and loses none (HeldCscBuffer,
\* sendToWidi).
THEOREM PoolStaysWhole == Spec => []PoolWhole
<1>1. ASSUME FrameInv PROVE PoolWhole
  <2>1. PoolTypes(pool, dim, Used) /\ PoolGood(pool, dim, Used)
    BY <1>1 DEF FrameInv, PoolInv
  <2>2. \A i \in DOMAIN pool.avail : pool.avail[i] \notin InUse
    BY <2>1 DEF PoolTypes, PoolGood, Used
  <2>. QED BY <2>1, <2>2 DEF PoolWhole, PoolGood, Used
<1>. QED BY Invariance, <1>1, PTL

\* A frame is delivered to the listener of its session, in its resolution and as
\* it was described (sendToWidi, start, stop, setResolution).
THEOREM FramesAreAgreed == Spec => []DeliveredAsAgreed
<1>1. ASSUME FrameInv, pc = "ready", send.key \in Buffers
      PROVE  dim[send.key] = [made |-> TRUE, size |-> cur.size]
  <2>1. dim[send.key] \in [made : BOOLEAN, size : Sizes \cup {Zero}]
    BY <1>1 DEF FrameInv, PoolInv, PoolTypes
  <2>2. dim[send.key].made
    BY <1>1 DEF FrameInv, PoolInv, PoolGood, Used, InUse
  <2>3. dim[send.key].size = cur.size
    BY <1>1 DEF FrameInv, FitInv
  <2>. QED BY <2>1, <2>2, <2>3
<1>2. FrameInv => DeliveredAsAgreed
  BY <1>1 DEF FrameInv, ToldInv, DeliveredAsAgreed
<1>. QED BY Invariance, <1>2, PTL
=============================================================================
