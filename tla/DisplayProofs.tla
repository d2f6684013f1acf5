---------------------------- MODULE DisplayProofs ----------------------------
(***************************************************************************)
(* Presentation and touch agree for every framebuffer layout the code      *)
(* accepts, every profile, palette and marker range.  The argument has     *)
(* three parts: the index of a visible pixel is invertible and stays in    *)
(* the mapped memory; a staged, turned rectangle holds at each place the   *)
(* color of the pixel a touch there is delivered to; and presenting it     *)
(* leaves every other pixel as it was, which a partial update may rely on  *)
(* only because a turn forces a full one.                                  *)
(***************************************************************************)
EXTENDS Display, TLAPS

(***************************************************************************)
(* Arithmetic                                                              *)
(***************************************************************************)
\* Multiplication keeps a strict order by a whole factor.
LEMMA Product ==
  ASSUME NEW a \in Nat, NEW b \in Nat, NEW c \in Nat, a < b
  PROVE  a * c + c <= b * c /\ a * c \in Nat /\ b * c \in Nat
OBVIOUS

\* A number is its quotient times the divisor, and its remainder.
LEMMA Division ==
  ASSUME NEW a \in Nat, NEW b \in Nat \ {0}
  PROVE  /\ a \div b \in Nat
         /\ a % b \in 0 .. b - 1
         /\ a = (a \div b) * b + (a % b)
OBVIOUS

\* Quotient and remainder are the only such pair: the row and the column of a cell
\* are recovered from its index.
LEMMA DivisionUnique ==
  ASSUME NEW q \in Nat, NEW b \in Nat \ {0}, NEW r \in 0 .. b - 1
  PROVE  (q * b + r) \div b = q /\ (q * b + r) % b = r
<1> DEFINE a == q * b + r
           Q == a \div b
           R == a % b
<1>1. a \in Nat
  BY Product, q < q + 1
<1>2. Q \in Nat /\ R \in 0 .. b - 1 /\ a = Q * b + R
  BY <1>1, Division
<1>3. ~(q < Q)
  <2>1. SUFFICES ASSUME q < Q PROVE FALSE
    OBVIOUS
  <2>2. q * b + b <= Q * b /\ q * b \in Nat /\ Q * b \in Nat
    BY <1>2, <2>1, Product
  <2> QED BY <1>2, <2>2
<1>4. ~(Q < q)
  <2>1. SUFFICES ASSUME Q < q PROVE FALSE
    OBVIOUS
  <2>2. Q * b + b <= q * b /\ q * b \in Nat /\ Q * b \in Nat
    BY <1>2, <2>1, Product
  <2> QED BY <1>2, <2>2
<1>5. Q = q
  BY <1>2, <1>3, <1>4
<1>6. q * b \in Nat
  BY Product, q < q + 1
<1> QED BY <1>2, <1>5, <1>6

(***************************************************************************)
(* The memory of a layout                                                  *)
(***************************************************************************)
\* What a probe may report, accepted or not.
Layout ==
  [bits : Nat, gray : BOOLEAN, width : Nat, height : Nat, virtualWidth : Nat,
   virtualHeight : Nat, xOffset : Nat, yOffset : Nat, line : Nat, memory : Nat]

\* The byte of a visible pixel lies in the mapped memory, and its row and column of
\* the virtual surface are those of the pixel.
LEMMA CellOfPixel ==
  ASSUME NEW c \in Layout, Accepted(c),
         NEW x \in 0 .. c.width - 1, NEW y \in 0 .. c.height - 1
  PROVE  LET i == Index(c, x, y)
         IN /\ i \in 0 .. c.memory - 1
            /\ i \div c.line = c.yOffset + y
            /\ i % c.line = c.xOffset + x
<1> DEFINE q == c.yOffset + y
           r == c.xOffset + x
<1>1. /\ q \in Nat /\ r \in 0 .. c.line - 1 /\ c.line \in Nat \ {0}
      /\ q < c.virtualHeight /\ c.virtualHeight \in Nat /\ c.memory \in Nat
      /\ c.memory >= c.line * c.virtualHeight
  BY DEF Layout, Accepted
<1>2. (q * c.line + r) \div c.line = q /\ (q * c.line + r) % c.line = r
  <2> HIDE DEF q, r
  <2> QED BY <1>1, DivisionUnique
<1>3. q * c.line + c.line <= c.virtualHeight * c.line /\ q * c.line \in Nat
  <2> HIDE DEF q, r
  <2> QED BY <1>1, Product
<1>4. Index(c, x, y) = q * c.line + r
  <2>1. Index(c, x, y) = q * c.line + c.xOffset + x
    BY DEF Index
  <2>2. c.xOffset \in Nat /\ x \in Nat
    BY DEF Layout
  <2> HIDE DEF q
  <2> QED BY <2>1, <2>2, <1>3
<1>5. q * c.line + r \in 0 .. c.memory - 1
  <2>1. c.virtualHeight * c.line = c.line * c.virtualHeight
    BY <1>1
  <2> HIDE DEF q, r
  <2> QED BY <1>1, <1>3, <2>1
<1> HIDE DEF q, r
<1>6. /\ Index(c, x, y) \in 0 .. c.memory - 1
      /\ Index(c, x, y) \div c.line = q
      /\ Index(c, x, y) % c.line = r
  BY <1>2, <1>4, <1>5
<1> QED BY <1>6 DEF q, r

\* Conversely, a byte whose row and column are those of a visible pixel is its byte.
LEMMA PixelOfCell ==
  ASSUME NEW c \in Layout, Accepted(c), NEW i \in 0 .. c.memory - 1,
         NEW x \in 0 .. c.width - 1, NEW y \in 0 .. c.height - 1,
         x = (i % c.line) - c.xOffset, y = i \div c.line - c.yOffset
  PROVE  i = Index(c, x, y)
<1> DEFINE row == i \div c.line
           col == i % c.line
<1>1. /\ i \in Nat /\ c.line \in Nat \ {0}
      /\ c.xOffset \in Nat /\ c.yOffset \in Nat /\ x \in Nat /\ y \in Nat
  BY DEF Layout, Accepted
<1>2. row \in Nat /\ col \in 0 .. c.line - 1 /\ i = row * c.line + col
  BY <1>1, Division
<1>3. row = c.yOffset + y /\ col = c.xOffset + x
  <2>1. x = col - c.xOffset /\ y = row - c.yOffset
    OBVIOUS
  <2> HIDE DEF row, col
  <2> QED BY <1>1, <1>2, <2>1
<1>4. i = (c.yOffset + y) * c.line + (c.xOffset + x)
  <2> HIDE DEF row, col
  <2> QED BY <1>2, <1>3
<1>5. (c.yOffset + y) * c.line \in Nat /\ c.xOffset \in Nat
  BY <1>1, Product, c.yOffset + y \in Nat, c.yOffset + y < c.yOffset + y + 1 DEF Layout
<1> QED BY <1>4, <1>5 DEF Index

(***************************************************************************)
(* Turning a rectangle                                                     *)
(***************************************************************************)
\* A turned rectangle lies on the panel when the rectangle lies in the frame.
LEMMA OrientedFits ==
  ASSUME NEW c \in Layout, Accepted(c), NEW r \in Region(c), Fits(r, c), NEW o
  PROVE  OrientRegion(r, c, o) \in Region(c) /\ Fits(OrientRegion(r, c, o), c)
<1>1. CASE o = "Upright"
  BY <1>1 DEF OrientRegion
<1>2. CASE o # "Upright"
  <2> DEFINE t == OrientRegion(r, c, o)
  <2>1. t = [x |-> c.width - r.x - r.width, y |-> c.height - r.y - r.height,
             width |-> r.width, height |-> r.height]
    BY <1>2 DEF OrientRegion
  <2>3. MaxU32 \in Nat
    BY DisplayAssumption
  <2>2. /\ c.width \in Nat /\ c.height \in Nat /\ c.width <= MaxU32 /\ c.height <= MaxU32
        /\ r.x \in 0 .. c.width - 1 /\ r.y \in 0 .. c.height - 1
        /\ r.width \in 1 .. c.width /\ r.height \in 1 .. c.height
        /\ r.x + r.width <= c.width /\ r.y + r.height <= c.height
    <3>1. c.xOffset + c.width <= MaxU32 /\ c.yOffset + c.height <= MaxU32
      BY DEF Accepted
    <3> QED BY <2>3, <3>1 DEF Layout, Region, Fits
  <2>4. /\ t.width = r.width /\ t.height = r.height
        /\ t.x = c.width - r.x - r.width /\ t.y = c.height - r.y - r.height
    BY <2>1
  <2>5. t \in Region(c)
    <3>1. /\ c.width - r.x - r.width \in 0 .. c.width - 1
          /\ c.height - r.y - r.height \in 0 .. c.height - 1
      BY <2>2
    <3> QED BY <2>1, <2>2, <3>1 DEF Region
  <2>6. Fits(t, c)
    <3> HIDE DEF t
    <3> QED BY <2>2, <2>3, <2>4 DEF Fits
  <2> QED BY <2>5, <2>6
<1> QED BY <1>1, <1>2

\* A pixel is in the turned rectangle exactly when the pixel a touch on it is delivered
\* to is in the rectangle.
LEMMA OrientedPixels ==
  ASSUME NEW c \in Layout, NEW r \in Region(c), Fits(r, c), NEW o,
         NEW p \in Visible(c)
  PROVE  /\ OrientTouch(p, c, o) \in Visible(c)
         /\ p \in Pixels(OrientRegion(r, c, o)) <=> OrientTouch(p, c, o) \in Pixels(r)
BY DEF Layout, Region, Fits, OrientRegion, OrientTouch, Pixels, Visible

\* What is staged for a pixel of the turned rectangle is the color of the pixel a touch
\* on it is delivered to.
LEMMA StagedPixel ==
  ASSUME NEW c \in Layout, NEW r \in Region(c), Fits(r, c), NEW o, NEW f,
         NEW p \in Pixels(OrientRegion(r, c, o))
  PROVE  LET t == OrientRegion(r, c, o)
             k == (p[2] - t.y) * t.width + p[1] - t.x
         IN Stage(f, r, o)[k] = f[OrientTouch(p, c, o)]
<1> DEFINE t == OrientRegion(r, c, o)
           row == p[2] - t.y
           col == p[1] - t.x
           w == r.width
           k == row * w + col
<1>1. /\ w \in Nat \ {0} /\ t.width = w /\ row \in Nat /\ row < r.height
      /\ r.height \in Nat /\ col \in 0 .. w - 1 /\ t.x \in Int /\ p[1] \in Int
  BY DEF Layout, Region, Fits, OrientRegion, Pixels
<1>2. k \div w = row /\ k % w = col
  <2> HIDE DEF row, col, w
  <2> QED BY <1>1, DivisionUnique
<1>3. k \in 0 .. w * r.height - 1
  <2>1. row * w + w <= r.height * w /\ row * w \in Nat /\ r.height * w = w * r.height
    <3> HIDE DEF row, w
    <3> QED BY <1>1, Product
  <2> HIDE DEF row, col, w
  <2> QED BY <1>1, <2>1
<1>4. Stage(f, r, o)[k] = IF o = "Upright" THEN f[<<r.x + col, r.y + row>>]
                          ELSE f[<<r.x + w - 1 - col, r.y + r.height - 1 - row>>]
  BY <1>2, <1>3 DEF Stage
<1>5. OrientTouch(p, c, o) = IF o = "Upright" THEN <<r.x + col, r.y + row>>
                             ELSE <<r.x + w - 1 - col, r.y + r.height - 1 - row>>
  BY DEF Layout, Region, Fits, OrientRegion, Pixels, OrientTouch
<1>6. (p[2] - t.y) * t.width + p[1] - t.x = k
  <2>1. row * w \in Int
    BY <1>1
  <2> HIDE DEF w, t
  <2> QED BY <1>1, <2>1
<1> QED BY <1>4, <1>5, <1>6

(***************************************************************************)
(* Writing                                                                 *)
(***************************************************************************)
Pixel == [red : 0 .. 255, green : 0 .. 255, blue : 0 .. 255]

\* A converted pixel is a number.
LEMMA GrayIsByte ==
  ASSUME NEW p \in Pixel
  PROVE  Gray(p) \in Int
<1>1. p.red \in Int /\ p.green \in Int /\ p.blue \in Int
  BY DEF Pixel
<1>2. Luminance(p) \in Int
  BY <1>1 DEF Luminance
<1> QED BY <1>2 DEF Gray

\* The pixels of a rectangle that fits are visible.
LEMMA PixelsAreVisible ==
  ASSUME NEW c \in Layout, NEW r \in Region(c), Fits(r, c), NEW p \in Pixels(r)
  PROVE  p \in Visible(c) /\ p = <<p[1], p[2]>>
BY DEF Layout, Region, Fits, Pixels, Visible

\* Writing a staged rectangle gives its pixels their bytes, and changes the bytes of
\* visible pixels only.
LEMMA WrittenPixels ==
  ASSUME layout \in Layout, Accepted(layout),
         memory \in [0 .. layout.memory - 1 -> Int],
         NEW g \in [Visible(layout) -> Pixel],
         NEW r \in Region(layout), Fits(r, layout), NEW o
  PROVE  LET t == OrientRegion(r, layout, o)
             m == Written(t, Stage(g, r, o))
         IN /\ m \in [0 .. layout.memory - 1 -> Int]
            /\ \A p \in Pixels(t) :
                 m[Index(layout, p[1], p[2])] = Gray(g[OrientTouch(p, layout, o)])
            /\ \A i \in DOMAIN memory : m[i] # memory[i] =>
                 \E p \in Visible(layout) : i = Index(layout, p[1], p[2])
<1> DEFINE t     == OrientRegion(r, layout, o)
           m     == Written(t, Stage(g, r, o))
           at(i) == <<(i % layout.line) - layout.xOffset,
                      i \div layout.line - layout.yOffset>>
           drawn(p) == Gray(g[OrientTouch(p, layout, o)])
<1>1. t \in Region(layout) /\ Fits(t, layout)
  BY OrientedFits
<1>2. \A p \in Pixels(t) : p \in Visible(layout) /\ p = <<p[1], p[2]>>
  BY <1>1, PixelsAreVisible
<1>3. \A p \in Pixels(t) : drawn(p) \in Int
  <2>1. TAKE p \in Pixels(t)
  <2>2. OrientTouch(p, layout, o) \in Visible(layout)
    BY <1>2, OrientedPixels
  <2>3. g[OrientTouch(p, layout, o)] \in Pixel
    BY <2>2
  <2> QED BY <2>3, GrayIsByte
<1>4. m = [i \in 0 .. layout.memory - 1 |->
             IF at(i) \in Pixels(t) THEN drawn(at(i)) ELSE memory[i]]
  <2> DEFINE s    == Stage(g, r, o)
             byte(p) == Gray(s[(p[2] - t.y) * t.width + p[1] - t.x])
  <2>1. m = [i \in 0 .. layout.memory - 1 |->
               IF at(i) \in Pixels(t) THEN byte(at(i)) ELSE memory[i]]
    BY DEF Written
  <2>2. \A p \in Pixels(t) : byte(p) = drawn(p)
    BY StagedPixel
  <2> HIDE DEF m, at, byte, drawn, t
  <2> QED BY <2>1, <2>2
<1>5. m \in [0 .. layout.memory - 1 -> Int]
  <2> HIDE DEF m, at, drawn, t
  <2> QED BY <1>3, <1>4
<1>6. ASSUME NEW p \in Pixels(t)
      PROVE  m[Index(layout, p[1], p[2])] = drawn(p)
  <2> DEFINE i == Index(layout, p[1], p[2])
  <2>1. p \in Visible(layout) /\ p = <<p[1], p[2]>>
    BY <1>2
  <2>2. /\ i \in 0 .. layout.memory - 1
        /\ i \div layout.line = layout.yOffset + p[2]
        /\ i % layout.line = layout.xOffset + p[1]
    BY <2>1, CellOfPixel DEF Visible
  <2>3. at(i) = p
    <3>1. /\ layout.xOffset \in Int /\ layout.yOffset \in Int
          /\ p[1] \in Int /\ p[2] \in Int
      BY <2>1 DEF Visible, Layout
    <3> HIDE DEF i
    <3> QED BY <2>1, <2>2, <3>1
  <2> HIDE DEF m, at, drawn, t, i
  <2>4. m[i] = drawn(p)
    BY <1>4, <2>2, <2>3
  <2> QED BY <2>4 DEF i
<1>7. ASSUME NEW i \in DOMAIN memory, m[i] # memory[i]
      PROVE  \E p \in Visible(layout) : i = Index(layout, p[1], p[2])
  <2>1. i \in 0 .. layout.memory - 1
    OBVIOUS
  <2>2. at(i) \in Pixels(t)
    <3> HIDE DEF m, at, drawn, t
    <3> QED BY <1>4, <1>7, <2>1
  <2>3. at(i) \in Visible(layout)
    BY <1>2, <2>2
  <2>4. i = Index(layout, at(i)[1], at(i)[2])
    BY <2>1, <2>3, PixelOfCell DEF Visible
  <2> HIDE DEF at
  <2> QED BY <2>3, <2>4
<1> QED BY <1>5, <1>6, <1>7

(***************************************************************************)
(* The inductive invariant                                                 *)
(***************************************************************************)
\* Types, and what mapping the framebuffer has established.  The first frame of a
\* session is still due when it starts.
Typed ==
  /\ layout \in Layout
  /\ next \in 1 .. MaxMarker
  /\ status = "Probed" => first = TRUE
  /\ status = "Running" =>
       /\ Accepted(layout)
       /\ frame \in [Visible(layout) -> Pixel]
       /\ memory \in [0 .. layout.memory - 1 -> Int]
       /\ panel \in [Visible(layout) -> Int]

\* TouchedIsShown needs no strengthening but the types: a pixel outside a partial
\* update keeps both its color in the frame and its byte on the panel.
IInv == Typed /\ TouchedIsShown

\* The constants, in the words of this module.
LEMMA AssumedTypes ==
  /\ Capability \subseteq Layout /\ Color \subseteq Pixel
  /\ MaxMarker \in Nat /\ MaxMarker > 1
BY DisplayAssumption DEF Layout, Pixel

\* Nothing is mapped yet.
LEMMA InitIInv == Init => IInv
BY AssumedTypes DEF Init, IInv, Typed, TouchedIsShown

\* Mapping the framebuffer shows nothing: the first frame is still due.
LEMMA ResolveIInv == IInv /\ Resolve => IInv'
<1> SUFFICES ASSUME IInv, Resolve PROVE IInv'
  OBVIOUS
<1>1. /\ layout' = layout /\ next' = next /\ first' = first /\ orientation' = orientation
      /\ status = "Probed"
  BY DEF Resolve, device
<1>2. first = TRUE
  BY <1>1 DEF IInv, Typed
<1>3. TouchedIsShown'
  BY <1>1, <1>2 DEF TouchedIsShown
<1>4. CASE status' = "Refused"
  BY <1>1, <1>3, <1>4 DEF IInv, Typed
<1>5. CASE status' # "Refused"
  <2>1. /\ Resolvable /\ status' = "Running"
        /\ frame' = [p \in Visible(layout) |-> White]
        /\ panel' = [p \in Visible(layout) |-> Foreign]
        /\ memory' = [i \in 0 .. layout.memory - 1 |-> Foreign]
    BY <1>5 DEF Resolve
  <2>2. Accepted(layout) /\ White \in Pixel /\ Foreign \in Int
    BY <2>1 DEF Resolvable, White, Pixel, Foreign
  <2>3. Typed'
    <3> HIDE DEF White, Foreign
    <3> QED BY <1>1, <2>1, <2>2 DEF IInv, Typed
  <2> QED BY <1>3, <2>3 DEF IInv
<1> QED BY <1>4, <1>5

\* A full rectangle is a rectangle like another, and covers the panel.
LEMMA FullFits ==
  ASSUME NEW c \in Layout, Accepted(c)
  PROVE  /\ Full(c) \in Region(c) /\ Fits(Full(c), c)
         /\ Pixels(Full(c)) = Visible(c)
<1>1. /\ c.width \in Nat /\ c.height \in Nat /\ c.width > 0 /\ c.height > 0
      /\ c.width <= MaxU32 /\ c.height <= MaxU32
  <2>1. /\ c.xOffset \in Nat /\ c.yOffset \in Nat /\ c.width \in Nat /\ c.height \in Nat
        /\ c.xOffset + c.width <= MaxU32 /\ c.yOffset + c.height <= MaxU32
        /\ c.width > 0 /\ c.height > 0
    BY DEF Layout, Accepted
  <2>2. MaxU32 \in Nat
    BY DisplayAssumption
  <2> QED BY <2>1, <2>2
<1> QED BY <1>1 DEF Full, Region, Fits, Pixels, Visible

\* A new marker is never the last one, nor zero, which the driver would not complete.
LEMMA AllocateMarker ==
  ASSUME next \in 1 .. MaxMarker, Allocate
  PROVE  next' \in 1 .. MaxMarker /\ next' # next
BY AssumedTypes DEF Allocate

\* The rectangle of the frame that a draw presents.
Shown(dirty, full) == IF full THEN Full(layout) ELSE dirty

\* Presenting fails before anything changes; or it takes a marker, changes bytes of
\* visible pixels only and, when the driver accepts the request, shows the frame in
\* the turned rectangle and leaves the rest of the panel as it was.
LEMMA PresentWrites ==
  ASSUME Typed, status = "Running", frame' \in [Visible(layout) -> Pixel],
         NEW dirty \in Region(layout), Fits(dirty, layout), NEW full \in BOOLEAN,
         NEW wait, Present(dirty, full, wait)
  PROVE  LET t == OrientRegion(Shown(dirty, full), layout, orientation)
         IN \/ /\ status' = "Failed" /\ UNCHANGED <<memory, next, panel>>
            \/ /\ memory' \in [0 .. layout.memory - 1 -> Int]
               /\ next' \in 1 .. MaxMarker /\ next' # next
               /\ \A i \in DOMAIN memory : memory'[i] # memory[i] =>
                    \E p \in Visible(layout) : i = Index(layout, p[1], p[2])
               /\ \/ status' = "Failed" /\ UNCHANGED panel
                  \/ /\ first' = FALSE /\ status' = status
                     /\ panel' = [p \in Visible(layout) |->
                          IF p \in Pixels(t)
                          THEN Gray(frame'[OrientTouch(p, layout, orientation)])
                          ELSE panel[p]]
<1> DEFINE r == Shown(dirty, full)
           t == OrientRegion(r, layout, orientation)
           s == Stage(frame', r, orientation)
<1>1. /\ layout \in Layout /\ Accepted(layout) /\ next \in 1 .. MaxMarker
      /\ memory \in [0 .. layout.memory - 1 -> Int]
  BY DEF Typed
<1>2. r \in Region(layout) /\ Fits(r, layout)
  BY <1>1, FullFits DEF Shown
<1>3. PresentRgb8(t, s, full, wait)
  BY DEF Present, Shown
<1>4. CASE status' = "Failed" /\ UNCHANGED <<memory, panel, next, first>>
  BY <1>4
<1>5. CASE memory' = Written(t, s) /\ Allocate /\ SubmitRefresh(t, wait)
  <2>1. /\ memory' \in [0 .. layout.memory - 1 -> Int]
        /\ \A p \in Pixels(t) : memory'[Index(layout, p[1], p[2])]
             = Gray(frame'[OrientTouch(p, layout, orientation)])
        /\ \A i \in DOMAIN memory : memory'[i] # memory[i] =>
             \E p \in Visible(layout) : i = Index(layout, p[1], p[2])
    <3> HIDE DEF r
    <3> QED BY <1>1, <1>2, <1>5, WrittenPixels
  <2>2. next' \in 1 .. MaxMarker /\ next' # next
    BY <1>1, <1>5, AllocateMarker
  <2>3. CASE status' = "Failed" /\ UNCHANGED panel
    BY <2>1, <2>2, <2>3
  <2>4. CASE Submit(t) /\ first' = FALSE /\ UNCHANGED status
    <3>1. panel' = [p \in Visible(layout) |->
             IF p \in Pixels(t) THEN Gray(frame'[OrientTouch(p, layout, orientation)])
             ELSE panel[p]]
      <4> HIDE DEF r, t
      <4> QED BY <2>1, <2>4 DEF Submit
    <3> HIDE DEF t
    <3> QED BY <2>1, <2>2, <2>4, <3>1 DEF t
  <2> QED BY <1>5, <2>3, <2>4 DEF SubmitRefresh
<1> QED
  <2> HIDE DEF t, s
  <2> QED BY <1>3, <1>4, <1>5 DEF PresentRgb8

\* Rendering changes nothing outside the rectangle it reports.
LEMMA RenderedFrame ==
  ASSUME frame \in [Visible(layout) -> Pixel], NEW dirty, NEW f \in Rendered(dirty)
  PROVE  /\ f \in [Visible(layout) -> Pixel]
         /\ \A p \in Visible(layout) \ Pixels(dirty) : f[p] = frame[p]
BY AssumedTypes DEF Rendered

\* A draw: within the turned rectangle the panel shows what was staged; outside it,
\* the update was partial, so the panel already followed the frame there.
LEMMA DrawIInv == IInv /\ Draw => IInv'
<1> SUFFICES ASSUME IInv, Draw PROVE IInv'
  OBVIOUS
<1>1. PICK dirty \in Region(layout), full \in BOOLEAN, wait \in Completion :
        /\ Fits(dirty, layout) /\ (first => full)
        /\ frame' \in Rendered(dirty)
        /\ Present(dirty, full, wait)
  BY DEF Draw
<1>2. status = "Running" /\ layout' = layout /\ orientation' = orientation
  BY DEF Draw, device
<1>3. /\ Typed /\ layout \in Layout /\ Accepted(layout) /\ next \in 1 .. MaxMarker
      /\ frame \in [Visible(layout) -> Pixel] /\ panel \in [Visible(layout) -> Int]
  BY <1>2 DEF IInv, Typed
<1>4. /\ frame' \in [Visible(layout) -> Pixel]
      /\ \A p \in Visible(layout) \ Pixels(dirty) : frame'[p] = frame[p]
  BY <1>1, <1>3, RenderedFrame
<1> DEFINE r == Shown(dirty, full)
           t == OrientRegion(r, layout, orientation)
           touched(p) == OrientTouch(p, layout, orientation)
<1>5. r \in Region(layout) /\ Fits(r, layout) /\ (full => Pixels(r) = Visible(layout))
  BY <1>1, <1>3, FullFits DEF Shown
<1>6. CASE status' = "Failed"
  <2>1. next' \in 1 .. MaxMarker
    BY <1>1, <1>2, <1>3, <1>4, PresentWrites
  <2> QED BY <1>2, <1>3, <1>6, <2>1 DEF IInv, Typed, TouchedIsShown
<1>7. CASE status' # "Failed"
  <2>1. /\ memory' \in [0 .. layout.memory - 1 -> Int]
        /\ next' \in 1 .. MaxMarker /\ first' = FALSE /\ status' = status
        /\ panel' = [p \in Visible(layout) |->
             IF p \in Pixels(t) THEN Gray(frame'[touched(p)]) ELSE panel[p]]
    BY <1>1, <1>2, <1>3, <1>4, <1>7, PresentWrites
  <2>2. \A p \in Visible(layout) : frame'[touched(p)] \in Pixel
    BY <1>3, <1>4, <1>5, OrientedPixels
  <2>3. panel' \in [Visible(layout) -> Int]
    <3> HIDE DEF t, touched
    <3> QED BY <1>3, <2>1, <2>2, GrayIsByte
  <2>4. ASSUME NEW p \in Visible(layout)
        PROVE  panel'[p] = Gray(frame'[touched(p)])
    <3>1. /\ touched(p) \in Visible(layout)
          /\ p \in Pixels(t) <=> touched(p) \in Pixels(r)
      BY <1>3, <1>5, OrientedPixels
    <3>2. CASE p \in Pixels(t)
      <4> HIDE DEF t, touched
      <4> QED BY <2>1, <3>2
    <3>3. CASE p \notin Pixels(t)
      <4>1. ~full /\ first # TRUE /\ r = dirty
        BY <1>1, <1>5, <3>1, <3>3 DEF Shown
      <4>2. panel[p] = Gray(frame[touched(p)])
        BY <1>2, <4>1 DEF IInv, TouchedIsShown
      <4>3. frame'[touched(p)] = frame[touched(p)]
        BY <1>4, <3>1, <3>3, <4>1
      <4>4. panel'[p] = panel[p]
        <5> HIDE DEF t, touched
        <5> QED BY <2>1, <3>3
      <4> QED BY <4>2, <4>3, <4>4
    <3> QED BY <3>2, <3>3
  <2>5. Typed'
    BY <1>2, <1>3, <1>4, <2>1, <2>3 DEF Typed
  <2>6. TouchedIsShown'
    BY <1>2, <2>4 DEF TouchedIsShown
  <2> QED BY <2>5, <2>6 DEF IInv
<1> QED BY <1>6, <1>7

\* A turn makes the next frame a full one.
LEMMA TurnIInv == IInv /\ Turn => IInv'
BY DEF IInv, Typed, TouchedIsShown, Turn, device

\* Every step keeps the invariant.
LEMMA NextIInv == IInv /\ [Next]_vars => IInv'
<1>1. IInv /\ UNCHANGED vars => IInv'
  BY DEF IInv, Typed, TouchedIsShown, vars, device
<1> QED BY <1>1, ResolveIInv, DrawIInv, TurnIInv DEF Next

(***************************************************************************)
(* Touch                                                                   *)
(***************************************************************************)
\* normalize stays on the axis and reaches both of its ends.
LEMMA NormalizeBounds ==
  ASSUME NEW range \in Int \X Int, range[1] < range[2],
         NEW extent \in Nat \ {0}, NEW value \in Int
  PROVE  /\ Normalize(value, range, extent) \in 0 .. extent - 1
         /\ Normalize(range[1], range, extent) = 0
         /\ Normalize(range[2], range, extent) = extent - 1
<1> DEFINE clamped == IF value < range[1] THEN range[1]
                      ELSE IF value > range[2] THEN range[2] ELSE value
           d == range[2] - range[1]
           e == extent - 1
           n == clamped - range[1]
           q == (n * e) \div d
<1>1. /\ range[1] \in Int /\ range[2] \in Int /\ d \in Nat \ {0} /\ e \in Nat
      /\ n \in Nat /\ n <= d
  OBVIOUS
<1>2. q \in 0 .. e
  <2> HIDE DEF n, e, d
  <2>1. n * e \in Nat /\ n * e <= d * e
    <3>1. CASE n = d
      BY <1>1, <3>1, Product, d < d + 1
    <3>2. CASE n < d
      BY <1>1, <3>2, Product
    <3> QED BY <1>1, <3>1, <3>2
  <2>2. q \in Nat /\ n * e >= q * d /\ q * d \in Nat
    <3>1. q \in Nat /\ (n * e) % d \in 0 .. d - 1 /\ n * e = q * d + ((n * e) % d)
      BY <1>1, <2>1, Division
    <3>2. q * d \in Nat
      BY <1>1, <3>1, Product, q < q + 1
    <3> QED BY <1>1, <3>1, <3>2
  <2>3. ~(e < q)
    <3>1. SUFFICES ASSUME e < q PROVE FALSE
      OBVIOUS
    <3> HIDE DEF q
    <3>2. e * d + d <= q * d /\ e * d \in Nat
      BY <1>1, <2>2, <3>1, Product
    <3>3. d * e = e * d
      BY <1>1
    <3> QED BY <1>1, <2>1, <2>2, <3>2, <3>3
  <2> HIDE DEF q
  <2> QED BY <1>1, <2>2, <2>3
<1>3. Normalize(range[1], range, extent) = 0
  <2>1. Normalize(range[1], range, extent) = ((range[1] - range[1]) * e) \div d
    BY <1>1 DEF Normalize
  <2>2. (range[1] - range[1]) * e = 0 * d + 0
    <3> HIDE DEF e, d
    <3> QED BY <1>1
  <2>3. (0 * d + 0) \div d = 0
    <3> HIDE DEF d
    <3> QED BY <1>1, DivisionUnique
  <2> QED BY <2>1, <2>2, <2>3
<1>4. Normalize(range[2], range, extent) = e
  <2>1. Normalize(range[2], range, extent) = (d * e) \div d
    BY <1>1 DEF Normalize
  <2>2. d * e = e * d + 0
    <3> HIDE DEF e, d
    <3> QED BY <1>1, Product, d < d + 1
  <2>3. (e * d + 0) \div d = e
    <3> HIDE DEF d, e
    <3> QED BY <1>1, DivisionUnique
  <2> QED BY <2>1, <2>2, <2>3
<1>5. Normalize(value, range, extent) = q
  BY DEF Normalize
<1> QED BY <1>2, <1>3, <1>4, <1>5
\* The transforms a profile may carry.
Transforms == [rawX : Int \X Int, rawY : Int \X Int, swap : BOOLEAN,
               invertX : BOOLEAN, invertY : BOOLEAN, rotation : 0 .. 3]

\* No axis is empty before the rotation.
LEMMA UnrotatedExtent ==
  ASSUME NEW c \in Layout, c.width > 0, c.height > 0, NEW t \in Transforms
  PROVE  /\ Unrotated(c, t)[1] \in Nat \ {0} /\ Unrotated(c, t)[2] \in Nat \ {0}
BY DEF Layout, Unrotated

\* Inversion and rotation keep a pixel on the panel.
LEMMA PlacedInside ==
  ASSUME NEW c \in Layout, c.width > 0, c.height > 0, NEW t \in Transforms,
         NEW u \in 0 .. Unrotated(c, t)[1] - 1, NEW v \in 0 .. Unrotated(c, t)[2] - 1
  PROVE  Placed(u, v, c, t) \in Visible(c)
<1>1. /\ c.width \in Nat /\ c.height \in Nat
      /\ t.rotation \in {0, 1, 2, 3} /\ t.invertX \in BOOLEAN /\ t.invertY \in BOOLEAN
  BY DEF Layout, Transforms
<1>2. CASE t.rotation = 0
  BY <1>1, <1>2 DEF Placed, Unrotated, Visible
<1>3. CASE t.rotation = 1
  BY <1>1, <1>3 DEF Placed, Unrotated, Visible
<1>4. CASE t.rotation = 2
  BY <1>1, <1>4 DEF Placed, Unrotated, Visible
<1>5. CASE t.rotation = 3
  BY <1>1, <1>5 DEF Placed, Unrotated, Visible
<1> QED BY <1>1, <1>2, <1>3, <1>4, <1>5

\* The corner pixels of the panel.
Corners(c) == {0, c.width - 1} \X {0, c.height - 1}

\* Inversion and rotation permute the corners.
LEMMA PlacedCorners ==
  ASSUME NEW c \in Layout, c.width > 0, c.height > 0, NEW t \in Transforms
  PROVE  LET us == {0, Unrotated(c, t)[1] - 1}
             vs == {0, Unrotated(c, t)[2] - 1}
         IN /\ \A u \in us, v \in vs : Placed(u, v, c, t) \in Corners(c)
            /\ \A p \in Corners(c) : \E u \in us, v \in vs : Placed(u, v, c, t) = p
<1>1. /\ c.width \in Nat /\ c.height \in Nat
      /\ t.rotation \in {0, 1, 2, 3} /\ t.invertX \in BOOLEAN /\ t.invertY \in BOOLEAN
  BY DEF Layout, Transforms
<1>2. CASE t.rotation = 0
  BY <1>1, <1>2 DEF Placed, Unrotated, Corners
<1>3. CASE t.rotation = 1
  BY <1>1, <1>3 DEF Placed, Unrotated, Corners
<1>4. CASE t.rotation = 2
  BY <1>1, <1>4 DEF Placed, Unrotated, Corners
<1>5. CASE t.rotation = 3
  BY <1>1, <1>5 DEF Placed, Unrotated, Corners
<1> QED BY <1>1, <1>2, <1>3, <1>4, <1>5
\* Every raw sample is mapped to a pixel of the panel, in its declared range or not.
LEMMA MapInside ==
  ASSUME NEW c \in Layout, c.width > 0, c.height > 0, NEW t \in Transforms,
         t.rawX[1] < t.rawX[2], t.rawY[1] < t.rawY[2], NEW x \in Int, NEW y \in Int
  PROVE  Map(<<x, y>>, c, t) \in Visible(c)
<1> DEFINE w == Unrotated(c, t)[1]
           h == Unrotated(c, t)[2]
<1>1. w \in Nat \ {0} /\ h \in Nat \ {0}
  BY UnrotatedExtent
<1>2. t.rawX \in Int \X Int /\ t.rawY \in Int \X Int
  BY DEF Transforms
<1>3. /\ Normalize(x, t.rawX, w) \in 0 .. w - 1 /\ Normalize(x, t.rawX, h) \in 0 .. h - 1
      /\ Normalize(y, t.rawY, w) \in 0 .. w - 1 /\ Normalize(y, t.rawY, h) \in 0 .. h - 1
  <2> HIDE DEF w, h
  <2> QED BY <1>1, <1>2, NormalizeBounds
<1>4. Map(<<x, y>>, c, t) =
        IF t.swap THEN Placed(Normalize(y, t.rawY, w), Normalize(x, t.rawX, h), c, t)
        ELSE Placed(Normalize(x, t.rawX, w), Normalize(y, t.rawY, h), c, t)
  BY DEF Map
<1> QED BY <1>3, <1>4, PlacedInside

\* The ends of the raw axes are mapped onto the corners of the panel, each one reached.
LEMMA MapCorners ==
  ASSUME NEW c \in Layout, c.width > 0, c.height > 0, NEW t \in Transforms,
         t.rawX[1] < t.rawX[2], t.rawY[1] < t.rawY[2]
  PROVE  {Map(raw, c, t) : raw \in RawCorners(t)} = Corners(c)
<1> DEFINE w == Unrotated(c, t)[1]
           h == Unrotated(c, t)[2]
           xs == {t.rawX[1], t.rawX[2]}
           ys == {t.rawY[1], t.rawY[2]}
           n(v, range, e) == Normalize(v, range, e)
<1>1. w \in Nat \ {0} /\ h \in Nat \ {0}
  BY UnrotatedExtent
<1>2. /\ t.rawX \in Int \X Int /\ t.rawY \in Int \X Int
      /\ t.rawX[1] \in Int /\ t.rawX[2] \in Int /\ t.rawY[1] \in Int /\ t.rawY[2] \in Int
  BY DEF Transforms
<1>3. ASSUME NEW e \in {w, h}
      PROVE  /\ n(t.rawX[1], t.rawX, e) = 0 /\ n(t.rawX[2], t.rawX, e) = e - 1
             /\ n(t.rawY[1], t.rawY, e) = 0 /\ n(t.rawY[2], t.rawY, e) = e - 1
  <2> HIDE DEF w, h
  <2> QED BY <1>1, <1>2, NormalizeBounds
<1>4. /\ \A u \in {0, w - 1}, v \in {0, h - 1} : Placed(u, v, c, t) \in Corners(c)
      /\ \A p \in Corners(c) : \E u \in {0, w - 1}, v \in {0, h - 1} : Placed(u, v, c, t) = p
  BY PlacedCorners
<1>5. \A raw \in RawCorners(t) : raw[1] \in xs /\ raw[2] \in ys
  BY DEF RawCorners
<1>6. \A x \in xs, y \in ys : <<x, y>> \in RawCorners(t)
  BY DEF RawCorners
<1>7. CASE t.swap
  <2>1. \A raw \in RawCorners(t) :
          Map(raw, c, t) = Placed(n(raw[2], t.rawY, w), n(raw[1], t.rawX, h), c, t)
    BY <1>7 DEF Map
  <2>2. /\ \A y \in ys : n(y, t.rawY, w) \in {0, w - 1}
        /\ \A x \in xs : n(x, t.rawX, h) \in {0, h - 1}
        /\ \A u \in {0, w - 1} : \E y \in ys : n(y, t.rawY, w) = u
        /\ \A v \in {0, h - 1} : \E x \in xs : n(x, t.rawX, h) = v
    <3> HIDE DEF n, w, h
    <3> QED BY <1>3
  <2>3. \A raw \in RawCorners(t) : Map(raw, c, t) \in Corners(c)
    <3> HIDE DEF n, w, h, xs, ys
    <3> QED BY <1>4, <1>5, <2>1, <2>2
  <2>4. \A p \in Corners(c) : \E raw \in RawCorners(t) : Map(raw, c, t) = p
    <3>1. TAKE p \in Corners(c)
    <3>2. PICK u \in {0, w - 1}, v \in {0, h - 1} : Placed(u, v, c, t) = p
      BY <1>4
    <3>3. PICK y \in ys, x \in xs : n(y, t.rawY, w) = u /\ n(x, t.rawX, h) = v
      BY <2>2
    <3>4. Map(<<x, y>>, c, t) = p
      <4>1. <<x, y>>[1] = x /\ <<x, y>>[2] = y
        OBVIOUS
      <4> HIDE DEF n, w, h, xs, ys
      <4> QED BY <1>6, <2>1, <3>2, <3>3, <4>1
    <3> QED BY <1>6, <3>4
  <2> QED BY <2>3, <2>4
<1>8. CASE ~t.swap
  <2>1. \A raw \in RawCorners(t) :
          Map(raw, c, t) = Placed(n(raw[1], t.rawX, w), n(raw[2], t.rawY, h), c, t)
    BY <1>8 DEF Map
  <2>2. /\ \A x \in xs : n(x, t.rawX, w) \in {0, w - 1}
        /\ \A y \in ys : n(y, t.rawY, h) \in {0, h - 1}
        /\ \A u \in {0, w - 1} : \E x \in xs : n(x, t.rawX, w) = u
        /\ \A v \in {0, h - 1} : \E y \in ys : n(y, t.rawY, h) = v
    <3> HIDE DEF n, w, h
    <3> QED BY <1>3
  <2>3. \A raw \in RawCorners(t) : Map(raw, c, t) \in Corners(c)
    <3> HIDE DEF n, w, h, xs, ys
    <3> QED BY <1>4, <1>5, <2>1, <2>2
  <2>4. \A p \in Corners(c) : \E raw \in RawCorners(t) : Map(raw, c, t) = p
    <3>1. TAKE p \in Corners(c)
    <3>2. PICK u \in {0, w - 1}, v \in {0, h - 1} : Placed(u, v, c, t) = p
      BY <1>4
    <3>3. PICK x \in xs, y \in ys : n(x, t.rawX, w) = u /\ n(y, t.rawY, h) = v
      BY <2>2
    <3>4. Map(<<x, y>>, c, t) = p
      <4>1. <<x, y>>[1] = x /\ <<x, y>>[2] = y
        OBVIOUS
      <4> HIDE DEF n, w, h, xs, ys
      <4> QED BY <1>6, <2>1, <3>2, <3>3, <4>1
    <3> QED BY <1>6, <3>4
  <2> QED BY <2>3, <2>4
<1> QED BY <1>7, <1>8

(***************************************************************************)
(* The theorems                                                            *)
(***************************************************************************)
\* The types and TouchedIsShown hold in every reachable state (RuntimeState.run_loop,
\* present_if_needed, stage_region, write_rgb8_region).
THEOREM Inductive == Spec => []IInv
BY InitIInv, NextIInv, PTL DEF Spec

\* After any frames and turns, each pixel of the panel shows the pixel of the frame a
\* touch on it is delivered to (present_if_needed against orient_touch_contact).
THEOREM TouchShown == Spec => []TouchedIsShown
<1>1. IInv => TouchedIsShown
  BY DEF IInv
<1> QED BY <1>1, Inductive, PTL

\* Framebuffer bytes change only for a request that takes a marker, and only bytes of
\* visible pixels (present_rgb8, write_rgb8_region).
THEOREM VisibleOnly == Spec => OnlyVisibleBytesChange
<1> DEFINE Step ==
      status = "Running" /\ memory' # memory =>
        /\ next' # next
        /\ \A i \in DOMAIN memory : memory'[i] # memory[i] =>
             \E p \in Visible(layout) : i = Index(layout, p[1], p[2])
<1>1. IInv /\ Next => Step
  <2> SUFFICES ASSUME IInv, Next, status = "Running", memory' # memory PROVE Step
    OBVIOUS
  <2>1. Draw
    BY DEF Next, Resolve, Turn
  <2>2. PICK dirty \in Region(layout), full \in BOOLEAN, wait \in Completion :
          /\ Fits(dirty, layout)
          /\ frame' \in Rendered(dirty)
          /\ Present(dirty, full, wait)
    BY <2>1 DEF Draw
  <2>3. Typed /\ frame \in [Visible(layout) -> Pixel]
    BY DEF IInv, Typed
  <2>4. frame' \in [Visible(layout) -> Pixel]
    BY <2>2, <2>3, RenderedFrame
  <2> QED BY <2>2, <2>3, <2>4, PresentWrites
<1>2. IInv /\ [Next]_vars => [Step]_vars
  BY <1>1
<1>3. Spec => [][Step]_vars
  BY <1>2, Inductive, PTL DEF Spec
<1> QED BY <1>3 DEF OnlyVisibleBytesChange
\* For every layout the code accepts and every transform of a profile, raw samples land
\* on the panel and reach all of its corners (InputTransform::map, normalize).
THEOREM TouchReachesPanel == Spec => []TouchLandsOnPanel
<1>1. IInv => TouchLandsOnPanel
  <2>1. SUFFICES ASSUME layout \in Layout, Accepted(layout), NEW t \in Transform
                 PROVE  /\ \A x \in t.rawX[1] - 1 .. t.rawX[2] + 1,
                              y \in t.rawY[1] - 1 .. t.rawY[2] + 1 :
                             Map(<<x, y>>, layout, t) \in Visible(layout)
                        /\ {Map(raw, layout, t) : raw \in RawCorners(t)} = Corners(layout)
    BY DEF IInv, Typed, TouchLandsOnPanel, Corners
  <2>2. layout.width > 0 /\ layout.height > 0
    BY <2>1 DEF Accepted
  <2>3. t \in Transforms /\ t.rawX[1] < t.rawX[2] /\ t.rawY[1] < t.rawY[2]
    BY DisplayAssumption DEF Transforms
  <2>4. \A x \in t.rawX[1] - 1 .. t.rawX[2] + 1 : x \in Int
    BY <2>3 DEF Transforms
  <2>5. \A y \in t.rawY[1] - 1 .. t.rawY[2] + 1 : y \in Int
    BY <2>3 DEF Transforms
  <2> QED BY <2>1, <2>2, <2>3, <2>4, <2>5, MapInside, MapCorners
<1> QED BY <1>1, Inductive, PTL
=============================================================================
