----------------------------- MODULE WidiFrames -----------------------------
(***************************************************************************)
(* The Wi-Di display of the Medfield composer (src/hwc/WidiDisplayDevice):  *)
(* it shows nothing itself but hands one layer of each frame to a frame     *)
(* listener, as it is when the layer is decoded video, converted into a     *)
(* buffer of a small pool when it is not.  The composing thread prepares    *)
(* frames; binder threads of the client start and stop the session, set the *)
(* resolution and give buffers back, at any time in between.                *)
(*                                                                          *)
(* A buffer is held as long as a HeldDecoderBuffer or HeldCscBuffer object  *)
(* refers to it, in mHeldBuffers (held) or in the composing thread (send).  *)
(* Layers, sizes and frame descriptions are abstracted to what tells them   *)
(* apart; a time stamp to whether it is the one sent last.                  *)
(***************************************************************************)
EXTENDS Naturals, Sequences, FiniteSets, SequencesExt

CONSTANTS
  Videos,      \* the decoder's buffers, each with its payload
  Buffers,     \* GraphicBuffers for conversion
  Sizes,       \* resolutions a client sets
  Listeners,   \* frame type listeners, each with its frame listener
  None,
  PoolSize,    \* mCscBuffersToCreate at first: 4 in the code
  MaxCalls     \* bounds the calls of start, stop and setResolution

ASSUME PoolAssumption == PoolSize \in Nat \ {0}
VARIABLES
  next, cur,   \* mNextConfig and mCurrentConfig
  pc,          \* where the composing thread is in prepare()
  send,        \* the frame it is sending, with the buffer it holds
  pool,        \* size, list and number to create of conversion buffers
  dim,         \* the size of each conversion buffer that exists
  held,        \* keys of mHeldBuffers
  busy,        \* renderStatus of each decoder buffer
  twice,       \* decoder buffers that were held by two objects at once
  cache,       \* keys of mMappedBufferCache
  last,        \* mLastInputFrameInfo, mLastOutputFrameInfo, mExtLastKhandle
  told,        \* the last bufferInfoChanged each listener got
  calls

vars == <<next, cur, pc, send, pool, dim, held, busy, twice, cache, last, told, calls>>

Zero == None                     \* scaledWidth and scaledHeight are 0
Shapes == {"plain", "rotated"}   \* which kernel handle of a payload is sent
VideoKeys == Videos \X Shapes
Keys == VideoKeys \cup Buffers
ASSUME NoneAssumption == None \notin Keys \cup Sizes \cup Listeners
ASSUME KeyAssumption == VideoKeys \cap Buffers = {}   \* handles differ

Info(what, shape, size) == [what |-> what, shape |-> shape, size |-> size]
Nothing == Info("nothing", "plain", Zero)
Cleared == Info("cleared", "plain", Zero)   \* as memset() leaves it at first
Infos == {Nothing, Cleared} \cup {Info("video", s, Zero) : s \in Shapes}
           \cup {Info("rgb", "plain", s) : s \in Sizes \cup {Zero}}
Configs == [type : Listeners \cup {None}, frame : Listeners \cup {None},
            size : Sizes \cup {Zero}, ext : BOOLEAN, force : BOOLEAN]
Stopped == [type |-> None, frame |-> None, size |-> Zero, ext |-> FALSE, force |-> FALSE]
NoFrame == [key |-> None, in |-> Cleared, out |-> Cleared, same |-> FALSE]

TypeOK ==
  /\ {next, cur} \subseteq Configs
  /\ pc \in {"idle", "sending", "ready"}
  /\ send \in [key : Keys \cup {None}, in : Infos, out : Infos, same : BOOLEAN]
  /\ pool \in [size : Sizes \cup {Zero}, avail : Seq(Buffers), create : Nat]
  /\ dim \in [Buffers -> [made : BOOLEAN, size : Sizes \cup {Zero}]]
  /\ held \subseteq Keys
  /\ busy \in [Videos -> BOOLEAN] /\ twice \subseteq Videos /\ cache \subseteq Videos
  /\ last \in [in : Infos, out : Infos, key : VideoKeys \cup {None}]
  /\ told \in [Listeners -> Infos \cup {None}]
  /\ calls \in 0..MaxCalls

NoBuffer == [made |-> FALSE, size |-> Zero]

Init ==
  /\ next = Stopped /\ cur = Stopped
  /\ pc = "idle" /\ send = NoFrame
  /\ pool = [size |-> Zero, avail |-> <<>>, create |-> PoolSize]
  /\ dim = [b \in Buffers |-> NoBuffer]
  /\ held = {} /\ busy = [v \in Videos |-> FALSE] /\ twice = {} /\ cache = {}
  /\ last = [in |-> Cleared, out |-> Cleared, key |-> None]
  /\ told = [l \in Listeners |-> None]
  /\ calls = 0

-----------------------------------------------------------------------------
(* Buffers that are held.                                                   *)

\* The objects that hold decoder buffer v, by key.
KeysOf(v) == {v} \X Shapes
Holders(v) == (held \cup {send.key}) \cap KeysOf(v)

\* Slip: whatever size the buffer has, it goes back to the list.
GiveBackAnySize(b) == pool' = [pool EXCEPT !.avail = Append(@, b)] /\ UNCHANGED dim

\* ~HeldCscBuffer: a buffer of the pool's size goes back to it, another is
\* dropped and may be made anew.
GiveBack(b) ==
  IF dim[b].size = pool.size
  THEN pool' = [pool EXCEPT !.avail = Append(@, b)] /\ UNCHANGED dim
  ELSE /\ pool' = [pool EXCEPT !.create = @ + 1]
       /\ dim' = [dim EXCEPT ![b] = NoBuffer]

\* Slip: renderStatus is set with the buffer but not cleared with it.
LetGoUncleared(k) ==
  IF k \in VideoKeys THEN UNCHANGED <<pool, dim, busy>> ELSE GiveBack(k) /\ UNCHANGED busy

\* The last reference to the object under k goes: ~HeldDecoderBuffer clears
\* renderStatus, whoever else holds the payload.
LetGo(k) ==
  IF k \in VideoKeys
  THEN /\ busy' = [busy EXCEPT ![k[1]] = FALSE]
       /\ UNCHANGED <<pool, dim>>
  ELSE GiveBack(k) /\ UNCHANGED busy

KeepAll == UNCHANGED <<pool, dim, busy>>

\* Who was held twice stays suspect until nobody holds it.
Suspects(v) == IF Holders(v) # {} THEN twice \cup {v} ELSE twice
Remember(suspects) ==
  twice' = {v \in suspects : Holders(v)' # {}}

-----------------------------------------------------------------------------
(* The client's calls.                                                      *)

Call == calls < MaxCalls /\ calls' = calls + 1
Composing == <<cur, pc, send, pool, dim, held, busy, twice, cache, last>>

\* Slip: the resolution of the session before is kept.
StartKeepingSize(l, ext) ==
  /\ Call /\ l \notin {cur.type, next.type}
  /\ next' = [next EXCEPT !.type = l, !.ext = ext, !.force = TRUE]
  /\ told' = [told EXCEPT ![l] = None]
  /\ UNCHANGED Composing

\* start(): the listener is a new one, so nothing was told to it.
Start(l, ext) ==
  /\ Call /\ l \notin {cur.type, next.type}
  /\ next' = [next EXCEPT !.type = l, !.size = Zero, !.ext = ext, !.force = TRUE]
  /\ told' = [told EXCEPT ![l] = None]
  /\ UNCHANGED Composing

Stop ==
  /\ Call /\ next.type # None
  /\ next' = [next EXCEPT !.type = None, !.size = Zero, !.ext = FALSE, !.force = FALSE]
  /\ UNCHANGED <<told, Composing>>

\* setResolution(), by the client of this session with its frame listener.
SetResolution(size) ==
  /\ Call /\ next.type # None
  /\ next' = [next EXCEPT !.frame = next.type, !.size = size]
  /\ UNCHANGED <<told, Composing>>

\* notifyBufferReturned(), also while onFrameReady() has not returned yet: then
\* the composing thread still refers to the object.
Return(k) ==
  /\ k \in held
  /\ held' = held \ {k}
  /\ IF pc = "ready" /\ send.key = k THEN KeepAll ELSE LetGo(k)
  /\ UNCHANGED send /\ Remember(twice)
  /\ UNCHANGED <<next, cur, pc, cache, last, told, calls>>

-----------------------------------------------------------------------------
(* The composing thread.                                                    *)

\* What a frame may be: a layer that is decoded video or not, alone and plain,
\* or a video that is playing and on the panel as well (prepareDisplays()).
Rgb == "rgb"
Frames == {f \in [what : Videos \cup {Rgb}, alone : BOOLEAN, ext : BOOLEAN] :
             f.ext => f.what \in Videos}

\* prepare()'s choice of the layer to send.
Target == "target"
Streaming(f, ext) == IF (f.ext /\ ext) \/ f.alone THEN f.what ELSE Target

\* The configuration is copied under mConfigLock, and forceNotify consumed.
CopyConfig == cur' = next /\ next' = [next EXCEPT !.force = FALSE]
Idle == pc' = "idle" /\ send' = NoFrame

PrepareStopped ==
  /\ pc = "idle" /\ next.type = None
  /\ CopyConfig
  /\ UNCHANGED <<pc, send, pool, dim, held, busy, twice, cache, last, told, calls>>

\* The framebuffer target is streamed: the listeners are only told so.
PrepareTarget(f) ==
  /\ pc = "idle" /\ next.type # None /\ Streaming(f, next.ext) = Target
  /\ CopyConfig
  /\ IF next.force \/ last.in # Nothing
     THEN /\ told' = [told EXCEPT ![next.type] = Nothing]
          /\ cache' = {}
          /\ last' = [in |-> Nothing, out |-> Nothing, key |-> None]
     ELSE UNCHANGED <<told, cache, last>>
  /\ UNCHANGED <<pc, send, pool, dim, held, busy, twice, calls>>

\* getMappedBuffer(): a buffer that is not cached is mapped, if it can be.
getMappedBuffer(v) == cache \cup {v}

\* sendToWidi() of decoded video: the payload is mapped, unless it is cached,
\* and held; a payload that is cleared or inconsistent lets it go again.
PrepareVideo(f, shape, same) ==
  LET v == f.what
      i == Info("video", shape, Zero)
  IN /\ pc = "idle" /\ next.type # None /\ Streaming(f, next.ext) = v /\ v \in Videos
     /\ CopyConfig
     /\ \/ cache' \in {cache, getMappedBuffer(v)} /\ UNCHANGED <<busy, twice, pc, send>>
        \/ /\ cache' = getMappedBuffer(v)
           /\ busy' = [busy EXCEPT ![v] = TRUE]
           /\ pc' = "sending"
           /\ send' = [key |-> <<v, shape>>, in |-> i, out |-> i, same |-> same]
           /\ twice' = Suspects(v)
        \/ /\ cache' = getMappedBuffer(v)
           /\ busy' = [busy EXCEPT ![v] = FALSE]
           /\ UNCHANGED <<pc, send>>
           /\ twice' = Suspects(v)
     /\ UNCHANGED <<pool, dim, held, last, told, calls>>

\* The pool under mCscLock: emptied when the resolution changed.
Resized(size) ==
  IF pool.size = size THEN [p |-> pool, d |-> dim]
  ELSE [p |-> [size |-> size, avail |-> <<>>, create |-> PoolSize],
        d |-> [b \in Buffers |-> IF b \in Range(pool.avail) THEN NoBuffer ELSE dim[b]]]

\* A buffer is taken from the list; one is made for it when it is empty, of no
\* size when gralloc refuses.
Taken(r, b, made) ==
  IF r.p.avail # <<>>
  THEN b = Head(r.p.avail) /\ pool' = [r.p EXCEPT !.avail = Tail(@)] /\ dim' = r.d
  ELSE /\ r.p.create > 0 /\ ~r.d[b].made
       /\ pool' = [r.p EXCEPT !.create = @ - 1]
       /\ dim' = [r.d EXCEPT ![b] = [made |-> TRUE, size |-> made]]

\* sendToWidi() of another layer: it has no handle, or there is no buffer left
\* to convert it into and the frame is dropped, or the conversion begins.
PrepareRgb(f) ==
  LET r == Resized(next.size)
      size == next.size
      Converts(b) == send' = [key |-> b, in |-> Info("rgb", "plain", Zero),
                              out |-> Info("rgb", "plain", size), same |-> FALSE]
  IN /\ pc = "idle" /\ next.type # None /\ Streaming(f, next.ext) = Rgb
     /\ CopyConfig
     /\ \/ UNCHANGED <<pool, dim, pc, send>>
        \/ /\ r.p.avail = <<>> /\ r.p.create = 0
           /\ pool' = r.p /\ dim' = r.d /\ UNCHANGED <<pc, send>>
        \/ \E b \in Buffers, made \in {size, Zero} :
             Taken(r, b, made) /\ pc' = "sending" /\ Converts(b)
     /\ UNCHANGED <<held, busy, twice, cache, last, told, calls>>

\* Blit2 fails, as it does without a buffer: the buffer is given back.
BlitFails ==
  /\ pc = "sending" /\ send.key \in Buffers
  /\ GiveBack(send.key) /\ Idle
  /\ UNCHANGED <<next, cur, held, busy, twice, cache, last, told, calls>>

\* The blit needs a buffer that was made.
Blitted == send.key \in Buffers /\ cur.size # Zero => dim[send.key].size # Zero

\* Without a resolution only the frame type is told, and the buffer let go.
TellType ==
  /\ pc = "sending" /\ Blitted /\ cur.size = Zero
  /\ last' = [last EXCEPT !.in = send.in]
  /\ LetGo(send.key) /\ Idle /\ UNCHANGED held /\ Remember(twice)
  /\ UNCHANGED <<next, cur, cache, told, calls>>

\* With one the listener is told what changed; a frame that was sent last is let
\* go, another kept in mHeldBuffers, in the place of one under the same key.
OutNews == cur.force \/ send.out # last.out
Repeated == send.key = last.key /\ send.same

TellFrame ==
  /\ pc = "sending" /\ Blitted /\ cur.size # Zero
  /\ last' = [last EXCEPT !.in = send.in, !.out = send.out]
  /\ told' = IF OutNews THEN [told EXCEPT ![cur.type] = send.out] ELSE told
  /\ cache' = IF OutNews /\ send.key \in Buffers THEN {} ELSE cache
  /\ IF Repeated
     THEN LetGo(send.key) /\ Idle /\ UNCHANGED held
     ELSE /\ IF send.key \in held THEN LetGo(send.key) ELSE KeepAll
          /\ held' = held \cup {send.key}
          /\ pc' = "ready" /\ UNCHANGED send
  /\ Remember(twice)
  /\ UNCHANGED <<next, cur, calls>>

\* onFrameReady() returns; when it failed the buffer leaves mHeldBuffers.
Deliver(ok) ==
  /\ pc = "ready"
  /\ held' = IF ok THEN held ELSE held \ {send.key}
  /\ IF send.key \in held' THEN KeepAll ELSE LetGo(send.key)
  /\ last' = IF send.key \in VideoKeys THEN [last EXCEPT !.key = send.key] ELSE last
  /\ Idle /\ Remember(twice)
  /\ UNCHANGED <<next, cur, cache, told, calls>>

Next ==
  \/ \E l \in Listeners, ext \in BOOLEAN : Start(l, ext)
  \/ Stop
  \/ \E size \in Sizes : SetResolution(size)
  \/ \E k \in held : Return(k)
  \/ PrepareStopped
  \/ \E f \in Frames : PrepareTarget(f) \/ PrepareRgb(f)
  \/ \E f \in Frames, shape \in Shapes, same \in BOOLEAN : PrepareVideo(f, shape, same)
  \/ BlitFails \/ TellType \/ TellFrame
  \/ \E ok \in BOOLEAN : Deliver(ok)

Spec == Init /\ [][Next]_vars

-----------------------------------------------------------------------------
(* Properties.                                                              *)

InUse == held \cup {send.key}

\* The conversion pool (HeldCscBuffer, sendToWidi) hands out no buffer that is
\* still being read by the client, all buffers in it have its size, and none is
\* lost: it runs dry only while PoolSize buffers are in use, whenever buffers
\* come back, resolutions change, sessions end and conversions fail.
PoolWhole ==
  /\ \A i, j \in DOMAIN pool.avail :
       /\ pool.avail[i] = pool.avail[j] => i = j
       /\ pool.avail[i] \notin InUse
       /\ dim[pool.avail[i]] = [made |-> TRUE, size |-> pool.size]
  /\ pool.create + Len(pool.avail) + Cardinality(Buffers \cap InUse) >= PoolSize

\* The decoder sees renderStatus as long as its buffer is held and no longer
\* (HeldDecoderBuffer), except for a buffer that was held by two objects, the
\* first of which to go clears it.
RenderStatusHolds ==
  \A v \in Videos : IF Holders(v) = {} THEN ~busy[v] ELSE busy[v] \/ v \in twice

\* A frame goes to the frame listener of the session whose type listener knows
\* it, in the resolution of that session, and as it was described last, if it
\* was described at all (sendToWidi, start, stop, setResolution).
DeliveredAsAgreed ==
  pc = "ready" =>
    /\ cur.type # None /\ cur.frame = cur.type
    /\ send.key \in Buffers => dim[send.key] = [made |-> TRUE, size |-> cur.size]
    /\ told[cur.type] \in {None, send.out}
=============================================================================
