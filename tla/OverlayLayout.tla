--------------------------- MODULE OverlayLayout ---------------------------
(***************************************************************************)
(* How the overlay HAL lays a picture out: the strides and sizes that      *)
(* createOverlay asks memory for, where formatOverlayBuffer copies each    *)
(* plane, which bytes the control block tells the overlay to fetch, and    *)
(* the window and scale it is shown at (overlayhal/PVROverlayModule.cpp,   *)
(* overlayhal/PVROverlayDataDevice.cpp).  Pure operators, in bytes.        *)
(*                                                                         *)
(* A shape is [format, width, height].  Control-block registers that only  *)
(* repeat others (buffer 1, colour, filter coefficients) are left out.     *)
(***************************************************************************)
EXTENDS Integers

Formats == {"I420", "NV12", "YUY2"}
MaxDim == 2048           \* PVR_OVERLAY_MAX_WIDTH, PVR_OVERLAY_MAX_HEIGHT
Page == 4096

align_to(n, unit) == ((n + unit - 1) \div unit) * unit

\* What createOverlay derives from the size and format it is asked for.
Strides(s) ==
  LET w == s.width IN
  CASE s.format = "I420" -> [y |-> align_to(w, 64), uv |-> align_to(w \div 2, 64)]
    [] s.format = "NV12" -> [y |-> align_to(w, 64), uv |-> align_to(w, 64)]
    [] s.format = "YUY2" -> [y |-> align_to(2 * w, 64), uv |-> 0]

ChromaPlanes(s) == CASE s.format = "I420" -> 2 [] s.format = "NV12" -> 1 [] OTHER -> 0

BufferSize(s) ==
  align_to(Strides(s).y * s.height, Page)
    + ChromaPlanes(s) * align_to(Strides(s).uv * (s.height \div 2), Page)

\* Where the planes of a picture start in the buffer it is copied to.
Written(s) ==
  LET u == align_to(Strides(s).y * s.height, Page)
  IN CASE s.format = "I420" -> [y |-> 0, u |-> u,
                                v |-> u + align_to(Strides(s).uv * (s.height \div 2), Page)]
       [] s.format = "NV12" -> [y |-> 0, u |-> u, v |-> 0]
       [] s.format = "YUY2" -> [y |-> 0, u |-> 0, v |-> 0]

\* Slip: the chroma follows the luma without a page of its own.
UnalignedOffsets(s, base) ==
  LET u == base + Strides(s).y * s.height
  IN [y |-> base, u |-> u, v |-> u + Strides(s).uv * (s.height \div 2)]

\* Where the overlay fetches them.  The height of NV12 is that of the decoder.
bufferOffsetSetup(s, base) ==
  CASE s.format = "I420" ->
         LET u == base + align_to(Strides(s).y * s.height, Page)
         IN [y |-> base, u |-> u, v |-> u + align_to(Strides(s).uv * (s.height \div 2), Page)]
    [] s.format = "NV12" -> [y |-> base, u |-> base + Strides(s).y * align_to(s.height, 32), v |-> 0]
    [] s.format = "YUY2" -> [y |-> base, u |-> 0, v |-> 0]

\* The units of 64 bytes that a line touches, as the register encodes them.
calculateSWidthSW(offset, width) ==
  2 * ((offset + width + 63) \div 64 - offset \div 64) - 1

\* The source registers: bytes per line, and the units fetched of each line.
coordinateSetup(s, at) ==
  LET bytes == IF s.format = "YUY2" THEN 2 * s.width ELSE s.width
  IN [width |-> bytes,
      ySW   |-> calculateSWidthSW(at.y, bytes),
      uvSW  |-> calculateSWidthSW(at.u, bytes \div 2),
      rows  |-> s.height, uvRows |-> s.height \div 2]

\* The part of a span [x, w] that is kept on a screen of this size.
ClippedTo(p, size) ==
  LET x == IF p.x < 0 THEN 0 ELSE p.x
  IN [x |-> x, w |-> IF x + p.w > size THEN size - x ELSE p.w]

\* The scales along the two axes, each a multiple of 2/4096 so that luma and
\* chroma agree.  A window of negative size is a large one to an unsigned
\* division, and none of size 0 can be divided by.
scalingSetup(srcW, srcH, dstW, dstH) ==
  LET same == srcW = dstW /\ srcH = dstH
      Fract(src, dst) == IF same THEN Page ELSE IF dst < 0 THEN 0 ELSE ((src - 1) * Page) \div dst
  IN [x |-> 2 * (Fract(srcW, dstW) \div 2), y |-> 2 * (Fract(srcH, dstH) \div 2)]
=============================================================================
