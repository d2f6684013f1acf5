------------------------------- MODULE Display -------------------------------
(***************************************************************************)
(* How a rendered frame reaches the panel, and how a touch finds its way   *)
(* back.  Slint renders what changed into a buffer it keeps; the changed   *)
(* rectangle, or all of a full frame, is staged row by row, turned with    *)
(* the device, converted to grey, written to the mapped framebuffer and    *)
(* submitted under a marker of its own.  A raw touch is scaled, swapped,   *)
(* inverted and rotated to a pixel of the panel, and turned once more to a *)
(* pixel of the frame.                                                     *)
(*                                                                         *)
(* The framebuffer holds more than the panel shows: rows are padded and a  *)
(* visible surface lies at an offset in a virtual one.                     *)
(***************************************************************************)
EXTENDS Integers, FiniteSets

CONSTANTS
  Capability,   \* framebuffers a probe may report
  Refresh,      \* reviewed capabilities a profile may carry
  Completion,   \* completion policies of a caller: 0 does not wait
  Transform,    \* input transforms a profile may carry
  Color,        \* RGB pixels Slint draws
  Bilevel,      \* threshold of a bilevel conversion; 0 keeps the grey
  MaxU32,       \* the largest u32 of a layout or a region
  MaxMarker     \* the largest u32 of a marker

\* A byte another program wrote.
Foreign == -1

ASSUME DisplayAssumption ==
  /\ Capability \subseteq [bits : Nat, gray : BOOLEAN, width : Nat, height : Nat,
                           virtualWidth : Nat, virtualHeight : Nat,
                           xOffset : Nat, yOffset : Nat, line : Nat, memory : Nat]
  /\ Refresh \subseteq [partial : BOOLEAN, full : BOOLEAN, wait : Nat]
  /\ Completion \subseteq Nat
  /\ Transform \subseteq [rawX : Int \X Int, rawY : Int \X Int, swap : BOOLEAN,
                          invertX : BOOLEAN, invertY : BOOLEAN, rotation : 0 .. 3]
  /\ \A t \in Transform : t.rawX[1] < t.rawX[2] /\ t.rawY[1] < t.rawY[2]
  /\ Color \subseteq [red : 0 .. 255, green : 0 .. 255, blue : 0 .. 255]
  /\ Bilevel \in 0 .. 255
  /\ MaxU32 \in Nat /\ MaxMarker \in Nat /\ MaxMarker > 1

White == [red |-> 255, green |-> 255, blue |-> 255]

VARIABLES
  layout,       \* Gray8FramebufferLayout, chosen with the capability
  refresh,      \* RefreshCapabilities of the resolved profile
  status,       \* Probed, Refused, Running, Failed
  frame,        \* SlintFrameBuffer.render_pixels
  orientation,  \* RuntimeState.orientation: "Upright" or "UpsideDown"
  first,        \* RuntimeState.run_loop: first_frame
  next,         \* UpdateMarkerSequence.next
  memory,       \* device: the bytes of the framebuffer
  panel         \* device: what the panel shows, Foreign where another program drew

device == <<layout, refresh>>
vars   == <<device, status, frame, orientation, first, next, memory, panel>>

(***************************************************************************)
(* Layout                                                                  *)
(***************************************************************************)
\* Gray8FramebufferLayout::try_from_capability and try_new.
Accepted(c) ==
  /\ c.bits = 8 /\ c.gray
  /\ c.width > 0 /\ c.height > 0 /\ c.virtualWidth > 0 /\ c.virtualHeight > 0
  /\ c.line > 0 /\ c.memory > 0
  /\ c.xOffset + c.width <= MaxU32 /\ c.yOffset + c.height <= MaxU32
  /\ c.xOffset + c.width <= c.virtualWidth /\ c.yOffset + c.height <= c.virtualHeight
  /\ c.line >= c.virtualWidth
  /\ c.memory >= c.line * c.virtualHeight

Visible(c) == (0 .. c.width - 1) \X (0 .. c.height - 1)

\* The byte of a visible pixel.
Index(c, x, y) == (c.yOffset + y) * c.line + c.xOffset + x

(***************************************************************************)
(* Regions                                                                 *)
(***************************************************************************)
Region(c) == [x : 0 .. c.width - 1, y : 0 .. c.height - 1,
              width : 1 .. c.width, height : 1 .. c.height]

\* RefreshRegion::try_new.
Fits(r, c) ==
  /\ r.width > 0 /\ r.height > 0
  /\ r.x + r.width <= MaxU32 /\ r.y + r.height <= MaxU32
  /\ r.x + r.width <= c.width /\ r.y + r.height <= c.height

\* RefreshRegion::full.
Full(c) == [x |-> 0, y |-> 0, width |-> c.width, height |-> c.height]

Pixels(r) == (r.x .. r.x + r.width - 1) \X (r.y .. r.y + r.height - 1)

\* orient_region.
OrientRegion(r, c, o) ==
  IF o = "Upright" THEN r
  ELSE [x |-> c.width - r.x - r.width, y |-> c.height - r.y - r.height,
        width |-> r.width, height |-> r.height]

(***************************************************************************)
(* Staging, conversion and writing                                         *)
(***************************************************************************)
\* Mutant: a turned frame has its rows in reverse, not its columns.
StageRowsOnly(f, r, o) ==
  [i \in 0 .. r.width * r.height - 1 |->
     LET row == i \div r.width
     IN f[<<r.x + (i % r.width),
            r.y + (IF o = "Upright" THEN row ELSE r.height - 1 - row)>>]]

\* stage_region: row by row, from the last row and each row backwards when turned.
Stage(f, r, o) ==
  [i \in 0 .. r.width * r.height - 1 |->
     LET row    == i \div r.width
         column == i % r.width
     IN IF o = "Upright"
        THEN f[<<r.x + column, r.y + row>>]
        ELSE f[<<r.x + r.width - 1 - column, r.y + r.height - 1 - row>>]]

\* Gray8Conversion::convert.
Luminance(p) == (p.red * 77 + p.green * 150 + p.blue * 29 + 128) \div 256

Gray(p) == IF Bilevel = 0 THEN Luminance(p)
           ELSE IF Luminance(p) >= Bilevel THEN 255 ELSE 0

\* The checks of write_rgb8_region, all made before the first byte changes; the
\* source holds as many rows of as many pixels as the region.
Writable(r, source) ==
  /\ Fits(r, layout)
  /\ r.width * r.height <= Cardinality(DOMAIN source)
  /\ Index(layout, r.x + r.width - 1, r.y + r.height - 1) < layout.memory

Written(r, source) ==
  LET byte(p) == Gray(source[(p[2] - r.y) * r.width + p[1] - r.x])
      row(i)  == i \div layout.line - layout.yOffset
      at(i)   == <<(i % layout.line) - layout.xOffset, row(i)>>
  IN [i \in DOMAIN memory |-> IF at(i) \in Pixels(r) THEN byte(at(i)) ELSE memory[i]]

(***************************************************************************)
(* Touch                                                                   *)
(***************************************************************************)
\* Mutant: the range is scaled to the extent, not to its last pixel.
NormalizeToExtent(value, range, extent) ==
  LET clamped == IF value < range[1] THEN range[1]
                 ELSE IF value > range[2] THEN range[2] ELSE value
  IN ((clamped - range[1]) * extent) \div (range[2] - range[1])

\* normalize: clamp to the declared range, scale to the last pixel.
Normalize(value, range, extent) ==
  LET clamped == IF value < range[1] THEN range[1]
                 ELSE IF value > range[2] THEN range[2] ELSE value
  IN ((clamped - range[1]) * (extent - 1)) \div (range[2] - range[1])

\* extent_before_rotation: quarter turns 1 and 3 exchange the axes.
Unrotated(c, t) ==
  IF t.rotation \in {1, 3} THEN <<c.height, c.width>> ELSE <<c.width, c.height>>

\* The end of InputTransform::map: invert, then rotate.
Placed(u, v, c, t) ==
  LET w == Unrotated(c, t)[1]
      h == Unrotated(c, t)[2]
      x == IF t.invertX THEN w - 1 - u ELSE u
      y == IF t.invertY THEN h - 1 - v ELSE v
  IN CASE t.rotation = 0 -> <<x, y>>
       [] t.rotation = 1 -> <<h - 1 - y, x>>
       [] t.rotation = 2 -> <<w - 1 - x, h - 1 - y>>
       [] t.rotation = 3 -> <<y, w - 1 - x>>

\* InputTransform::map: swap and scale, then place.
Map(raw, c, t) ==
  LET w == Unrotated(c, t)[1]
      h == Unrotated(c, t)[2]
  IN IF t.swap
     THEN Placed(Normalize(raw[2], t.rawY, w), Normalize(raw[1], t.rawX, h), c, t)
     ELSE Placed(Normalize(raw[1], t.rawX, w), Normalize(raw[2], t.rawY, h), c, t)

\* orient_touch_contact: the pixel of the frame beneath a pixel of the panel.
OrientTouch(p, c, o) ==
  IF o = "Upright" THEN p ELSE <<c.width - 1 - p[1], c.height - 1 - p[2]>>

(***************************************************************************)
(* Actions                                                                 *)
(***************************************************************************)
\* One capability, one profile, before anything is mapped.
Init ==
  /\ layout \in Capability /\ refresh \in Refresh
  /\ status = "Probed"
  /\ frame = <<>> /\ panel = <<>> /\ memory = <<>>
  /\ orientation = "Upright" /\ first = TRUE /\ next = 1

\* RefreshCapabilities::try_new refuses a profile without any mode.
Resolvable == Accepted(layout) /\ (refresh.partial \/ refresh.full)

\* The layout is accepted, the framebuffer mapped with what stock left in it, and
\* a white frame of its extent allocated; or the device is refused.
Resolve ==
  /\ status = "Probed"
  /\ \/ /\ Resolvable /\ status' = "Running"
        /\ frame' = [p \in Visible(layout) |-> White]
        /\ panel' = [p \in Visible(layout) |-> Foreign]
        /\ memory' = [i \in 0 .. layout.memory - 1 |-> Foreign]
     \/ ~Resolvable /\ status' = "Refused" /\ UNCHANGED <<frame, panel, memory>>
  /\ UNCHANGED <<device, orientation, first, next>>

\* Slint draws within the rectangle it reports as changed.  Any frame is reached by
\* rectangles of one color.
Rendered(dirty) ==
  {[p \in Visible(layout) |-> IF p \in Pixels(dirty) THEN c ELSE frame[p]] : c \in Color}

\* RefreshCapabilities::validate.
Validated(full, wait) ==
  /\ IF full THEN refresh.full ELSE refresh.partial
  /\ wait = 0 \/ (refresh.wait > 0 /\ wait <= refresh.wait)

\* UpdateMarkerSequence::allocate: the last marker is followed by one.
Allocate == next' = IF next = MaxMarker THEN 1 ELSE next + 1

\* ZeldaUpdateRequest::encode and the ioctl: the driver is handed the rectangle, and
\* shows what the memory holds there.
Submit(r) ==
  panel' = [p \in Visible(layout) |->
              IF p \in Pixels(r) THEN memory'[Index(layout, p[1], p[2])] ELSE panel[p]]

\* submit_refresh of the foreground target: nothing that waits, and the ioctl may fail;
\* the caller ends its loop at any failure.
SubmitRefresh(r, wait) ==
  \/ wait = 0 /\ Submit(r) /\ first' = FALSE /\ UNCHANGED status
  \/ status' = "Failed" /\ UNCHANGED <<panel, first>>

\* Mutant: the bytes are written before the request is validated.
PresentWritingFirst(r, source, full, wait) ==
  /\ Writable(r, source) /\ memory' = Written(r, source)
  /\ \/ Validated(full, wait) /\ Allocate /\ SubmitRefresh(r, wait)
     \/ /\ ~Validated(full, wait)
        /\ status' = "Failed" /\ UNCHANGED <<panel, next, first>>

\* present_rgb8: validate, write, take a marker, submit.
PresentRgb8(r, source, full, wait) ==
  \/ /\ Validated(full, wait) /\ Writable(r, source)
     /\ memory' = Written(r, source) /\ Allocate /\ SubmitRefresh(r, wait)
  \/ /\ ~Validated(full, wait) \/ ~Writable(r, source)
     /\ status' = "Failed" /\ UNCHANGED <<memory, panel, next, first>>

\* present_if_needed, after Slint has rendered: a full refresh takes all of the retained
\* frame, another the changed rectangle; it is staged, turned and presented.
Present(dirty, full, wait) ==
  LET region == IF full THEN Full(layout) ELSE dirty
  IN PresentRgb8(OrientRegion(region, layout, orientation),
                 Stage(frame', region, orientation), full, wait)

\* One turn of the loop that draws: a first frame is full, so is one that goes
\* with a lightbox transition.
Draw ==
  /\ status = "Running"
  /\ \E dirty \in Region(layout), full \in BOOLEAN, wait \in Completion :
       /\ Fits(dirty, layout) /\ (first => full)
       /\ frame' \in Rendered(dirty)
       /\ Present(dirty, full, wait)
  /\ UNCHANGED <<device, orientation>>

\* The gyro reports the other portrait orientation.
Turn ==
  /\ status = "Running"
  /\ orientation' = IF orientation = "Upright" THEN "UpsideDown" ELSE "Upright"
  /\ first' = TRUE
  /\ UNCHANGED <<device, status, frame, next, memory, panel>>

Next == Resolve \/ Draw \/ Turn

Spec == Init /\ [][Next]_vars

(***************************************************************************)
(* Properties                                                              *)
(***************************************************************************)
\* What the finger touches is what it sees: after any frames and turns of the
\* device, each pixel of the panel shows the pixel of the frame that a touch on it
\* is delivered to.  Only between a turn and the next frame do the two differ.
TouchedIsShown ==
  status = "Running" /\ ~first =>
    \A p \in Visible(layout) :
      panel[p] = Gray(frame[OrientTouch(p, layout, orientation)])

\* "All bounds are checked before the first target byte is changed": bytes change
\* only for a request that spends a marker, and only those of visible pixels; row
\* padding and the rest of the virtual surface keep what stock left there.
OnlyVisibleBytesChange ==
  [][status = "Running" /\ memory' # memory =>
       /\ next' # next
       /\ \A i \in DOMAIN memory : memory'[i] # memory[i] =>
            \E p \in Visible(layout) : i = Index(layout, p[1], p[2])]_vars

RawCorners(t) == {t.rawX[1], t.rawX[2]} \X {t.rawY[1], t.rawY[2]}

\* Every raw sample, in the declared ranges or beyond, lands on the panel, and the
\* four ends of the raw axes land in its four corners: no row or column of pixels
\* is out of the finger's reach.
TouchLandsOnPanel ==
  status = "Probed" /\ Accepted(layout) =>
    \A t \in Transform :
      /\ \A x \in t.rawX[1] - 1 .. t.rawX[2] + 1, y \in t.rawY[1] - 1 .. t.rawY[2] + 1 :
           Map(<<x, y>>, layout, t) \in Visible(layout)
      /\ {Map(raw, layout, t) : raw \in RawCorners(t)}
           = {0, layout.width - 1} \X {0, layout.height - 1}
=============================================================================
