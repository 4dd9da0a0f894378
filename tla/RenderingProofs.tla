------------------------- MODULE RenderingProofs ------------------------
(***************************************************************************)
(* Proofs about the pictures, at any size, length and level: how letters   *)
(* are laid out and drawn, and what the primitives make of them.           *)
(***************************************************************************)
EXTENDS MCRendering, MCDrawing, FunctionProofs

-----------------------------------------------------------------------------
(***************************************************************************)
(* Rendering.                                                              *)
(***************************************************************************)
\* What is drawn lies between black and white.
LEMMA NoiseEnds ==
  Given_("noise") /\ input.level \in 0 .. 255 /\ input.noise \in Int => NoiseSaturates
  <1> SUFFICES ASSUME input.level \in 0 .. 255, input.noise \in Int PROVE NoiseSaturates
    OBVIOUS
  <1> DEFINE l == input.level
             e == input.noise
             exact == 4 * l + e
             after == gaussian_noise_mut(l, e, 4)
  <1>1. l \in 0 .. 255 /\ e \in Int
    OBVIOUS
  <1> HIDE DEF l, e
  <1>2. after = IF exact \div 4 < 0 THEN 0 ELSE IF exact \div 4 > 255 THEN 255 ELSE exact \div 4
    BY <1>1 DEF gaussian_noise_mut, clamp_u8, Clamped, AtLeast, AtMost
  <1>3. /\ after \in 0 .. 255
        /\ exact \in 0 .. 1020 => (4 * after <= exact /\ exact < 4 * after + 4)
        /\ exact < 0 => after = 0
        /\ exact > 1020 => after = 255
    BY <1>1, <1>2
  <1> QED BY <1>3 DEF NoiseSaturates, l, e

\* Half a turn is never reached by a gradient.
LEMMA ArcIs ==
  ASSUME NEW hue \in Int, NEW shift \in -45 .. 45
  PROVE  Arc(hue, hue + shift, 100) = shift
  <1>1. (hue + shift) - hue = shift
    OBVIOUS
  <1>2. shift % 100 = IF shift < 0 THEN shift + 100 ELSE shift
    OBVIOUS
  <1> QED BY <1>1, <1>2 DEF Arc

\* The strength of a deformation is the level; blur is in full as soon as it is on.
LEMMA StrengthIs ==
  ASSUME NEW level \in 0 .. 100, NEW d \in Deformed
  PROVE  /\ Strength(shaped(level), d) = IF level > 0 /\ d = "blur" THEN 100 ELSE level
         /\ shaped(level)[d] = IF level > 0 /\ d = "blur" THEN 100 ELSE level
  BY DEF Strength, shaped, Clamped, AtLeast, AtMost

\* A gradient sweeps its arc: it is under half a turn, so no way round is shorter.
LEMMA GradientSweeps ==
  Given_("paint") /\ input.level \in 0 .. 100 /\ input.hue \in Int => GradientIsTheOneDrawn
  <1> SUFFICES ASSUME input.level \in 0 .. 100, input.hue \in Int,
                      NEW shift \in HueShifts(shaped(input.level))
               PROVE  Arc(input.hue, input.hue + shift, 100) = shift
    BY DEF GradientIsTheOneDrawn
  <1> DEFINE level == input.level
             hue == input.hue
  <1>1. Strength(shaped(level), "gradient") \in 0 .. 100
    BY StrengthIs DEF Deformed
  <1> DEFINE s == Strength(shaped(level), "gradient")
  <1>2. shift \in -((45 * s) \div 100) .. ((45 * s) \div 100)
    BY DEF HueShifts, MAX_GRADIENT_HUE_SHIFT
  <1> HIDE DEF s
  <1>3. shift \in -45 .. 45
    BY <1>1, <1>2 DEF s
  <1>4. hue \in Int
    OBVIOUS
  <1> HIDE DEF hue
  <1> QED BY <1>3, <1>4, ArcIs DEF hue

\* A point of the gradient lies between its ends.
LEMMA BetweenEnds ==
  ASSUME NEW n \in Nat, NEW d \in Nat, NEW s \in 0 .. 100, NEW t \in 0 .. 4
  PROVE  (d * s) * t <= 400 * d /\ 0 <= (d * s) * t
  <1>1. s * t \in 0 .. 400
    OBVIOUS
  <1>2. d * (s * t) <= d * 400 /\ 0 <= d * (s * t)
    BY <1>1
  <1>3. (d * s) * t = d * (s * t)
    OBVIOUS
  <1> QED BY <1>2, <1>3

\* Shading keeps to the band of its mode, and above the floor of its kind.
LEMMA LettersLegible ==
  /\ Given_("paint") /\ input.level \in 0 .. 100 /\ input.dark \in BOOLEAN
  /\ input.near \in glyph_lightness(input.dark) /\ input.drawn \in glyph_lightness(input.dark)
  => LetterStaysLegible
  <1> SUFFICES ASSUME input.level \in 0 .. 100, input.near \in glyph_lightness(input.dark),
                      input.drawn \in glyph_lightness(input.dark)
               PROVE  LetterStaysLegible
    OBVIOUS
  <1> DEFINE level == input.level
             near == input.near
             drawn == input.drawn
             band == glyph_lightness(input.dark)
             deform == shaped(level)
             far == FarLightness(near, drawn, deform)
             floor == IF input.hollow THEN 60 ELSE 35
             s == Strength(deform, "gradient")
             L(t) == 400 * near + (far - 100 * near) * t
  <1>1. s \in 0 .. 100 /\ Strength(deform, "transparency") \in 0 .. 100
    BY StrengthIs DEF Deformed
  <1>2. near \in Nat /\ drawn \in Nat /\ near \in band /\ drawn \in band
    BY DEF glyph_lightness, DARK_MODE_LIGHTNESS, LIGHT_MODE_LIGHTNESS
  <1>3. far = 100 * near + (drawn - near) * s
    BY DEF FarLightness
  <1> HIDE DEF s, far, near, drawn, band
  <1>4. ASSUME NEW t \in 0 .. 4
        PROVE  \E low, high \in band : 400 * low <= L(t) /\ L(t) <= 400 * high
    <2>1. L(t) = 400 * near + ((drawn - near) * s) * t
      BY <1>1, <1>2, <1>3
    <2>2. CASE near <= drawn
      <3> DEFINE d == drawn - near
      <3>1. d \in Nat /\ drawn = near + d
        BY <1>2, <2>2
      <3>2. L(t) = 400 * near + (d * s) * t
        BY <2>1
      <3> HIDE DEF d
      <3>3. (d * s) * t <= 400 * d /\ 0 <= (d * s) * t
        BY <1>1, <3>1, BetweenEnds
      <3> DEFINE p == (d * s) * t
      <3>4. p \in Int
        BY <1>1, <3>1
      <3> HIDE DEF p, L
      <3>5. 400 * near <= L(t) /\ L(t) <= 400 * drawn
        BY <1>2, <3>1, <3>2, <3>3, <3>4 DEF p
      <3> QED BY <1>2, <3>5
    <2>3. CASE ~(near <= drawn)
      <3> DEFINE d == near - drawn
      <3>1. d \in Nat /\ near = drawn + d /\ drawn - near = -d
        BY <1>2, <2>3
      <3>2. ((drawn - near) * s) * t = -((d * s) * t)
        BY <1>1, <1>2
      <3> HIDE DEF d
      <3>3. (d * s) * t <= 400 * d /\ 0 <= (d * s) * t
        BY <1>1, <3>1, BetweenEnds
      <3> DEFINE p == (d * s) * t
      <3>4. p \in Int /\ L(t) = 400 * near - p
        BY <1>1, <1>2, <2>1, <3>1, <3>2
      <3> HIDE DEF p, L
      <3>5. 400 * drawn <= L(t) /\ L(t) <= 400 * near
        BY <1>2, <3>1, <3>3, <3>4 DEF p
      <3> QED BY <1>2, <3>5
    <2> QED BY <2>2, <2>3
  <1>5. FadeFloor(deform, input.hollow) \in floor .. 100
    <2> DEFINE u == Strength(deform, "transparency")
    <2>1. u \in 0 .. 100
      BY <1>1
    <2>2. FadeFloor(deform, input.hollow) = IF input.hollow THEN 100 - (40 * u) \div 100
                                            ELSE 100 - (65 * u) \div 100
      BY DEF FadeFloor, MIN_OUTLINE_OPACITY, MIN_OPACITY
    <2> HIDE DEF u
    <2> QED BY <2>1, <2>2
  <1> QED BY <1>4, <1>5 DEF LetterStaysLegible, far, near, drawn, band

\* A number drawn between two bounds is between them, or the lower if they cross.
LEMMA NextIs ==
  ASSUME NEW min \in Int, NEW max \in Int, NEW m \in get_next(min, max)
  PROVE  m \in Int /\ min <= m /\ (m <= max \/ m = min)
  BY DEF get_next, get_rnd

\* The interference is on the canvas.
LEMMA InterferenceStays ==
  Given_("layout") /\ input.width \in Nat /\ input.height \in Nat => InterferenceOnCanvas
  <1> SUFFICES ASSUME input.width \in Nat, input.height \in Nat,
                      NEW p \in LinePoints(input.width, input.height)
                                  \union CircleCentres(input.width, input.height)
               PROVE  p.x \subseteq 0 .. input.width - 1 /\ p.y \subseteq 0 .. input.height - 1
    BY DEF InterferenceOnCanvas
  <1> DEFINE w == input.width
             h == input.height
  <1>1. w \in Nat /\ h \in Nat /\ p \in LinePoints(w, h) \union CircleCentres(w, h)
    OBVIOUS
  <1> HIDE DEF w, h
  <1>2. CASE p \in CircleCentres(w, h)
    <2>1. w > 25 /\ h > 15 /\ p = [x |-> get_rnd(w - 25), y |-> get_rnd(h - 15)]
      BY <1>1, <1>2 DEF CircleCentres
    <2>2. p.x = 0 .. w - 25 /\ p.y = 0 .. h - 15
      BY <2>1 DEF get_rnd
    <2> QED BY <1>1, <2>1, <2>2 DEF w, h
  <1>3. CASE p \in LinePoints(w, h)
    <2> DEFINE middle == get_next(w \div 4, (w \div 4) * 3)
               below == get_next(5, h - 5)
               upper == get_next(5, h \div 2)
               lower == get_next(h \div 2, h - 5)
    <2>1. w > 5 /\ h > 5
      BY <1>1, <1>3 DEF LinePoints
    <2>2. AtLeast(w - 5, 0) = w - 5 /\ AtLeast(h - 5, 0) = h - 5
      BY <1>1, <2>1 DEF AtLeast
    <2>3. p \in {[x |-> {5}, y |-> upper], [x |-> {w - 5}, y |-> lower], [x |-> middle, y |-> below]}
      BY <1>1, <1>3, <2>1, <2>2 DEF LinePoints
    <2>4. middle \subseteq 0 .. w - 1
      <3>1. ASSUME NEW m \in middle PROVE m \in 0 .. w - 1
        <4> DEFINE q == w \div 4
        <4>1. q \in Nat /\ q * 3 \in Nat /\ q * 3 <= w - 1 /\ q <= w - 1
          BY <1>1, <2>1
        <4>2. m \in get_next(q, q * 3)
          BY <3>1
        <4> DEFINE r == q * 3
        <4> HIDE DEF q, r
        <4>3. m \in Int /\ q <= m /\ (m <= r \/ m = q)
          BY <4>1, <4>2, NextIs DEF r
        <4> QED BY <1>1, <4>1, <4>3 DEF r
      <3> QED BY <3>1
    <2>5. ASSUME NEW a \in Nat, NEW b \in Int, a <= h - 1, b <= h - 1
          PROVE  get_next(a, b) \subseteq 0 .. h - 1
      <3>1. ASSUME NEW m \in get_next(a, b) PROVE m \in 0 .. h - 1
        <4>1. m \in Int /\ a <= m /\ (m <= b \/ m = a)
          BY NextIs
        <4> QED BY <1>1, <2>5, <4>1
      <3> QED BY <3>1
    <2>6. below \subseteq 0 .. h - 1 /\ upper \subseteq 0 .. h - 1 /\ lower \subseteq 0 .. h - 1
      <3> DEFINE half == h \div 2
                 low == h - 5
      <3>1. half \in Nat /\ half <= h - 1 /\ low \in Int /\ low <= h - 1 /\ 5 <= h - 1
        BY <1>1, <2>1
      <3> HIDE DEF half, low
      <3>2. get_next(5, low) \subseteq 0 .. h - 1 /\ get_next(5, half) \subseteq 0 .. h - 1
            /\ get_next(half, low) \subseteq 0 .. h - 1
        BY <2>5, <3>1
      <3> QED BY <3>2 DEF half, low
    <2> HIDE DEF middle, below, upper, lower
    <2>7. p.x \subseteq 0 .. w - 1 /\ p.y \subseteq 0 .. h - 1
      <3> DEFINE first == {5}
                 last == {w - 5}
      <3>1. first \subseteq 0 .. w - 1 /\ last \subseteq 0 .. w - 1
        BY <1>1, <2>1
      <3> HIDE DEF first, last
      <3>2. /\ p.x = first \/ p.x = last \/ p.x = middle
            /\ p.y = upper \/ p.y = lower \/ p.y = below
        BY <2>3 DEF first, last
      <3> QED BY <2>4, <2>6, <3>1, <3>2
    <2> QED BY <2>7 DEF w, h
  <1> QED BY <1>1, <1>2, <1>3

\* Division keeps order, undoes multiplication, and so does rounding.
LEMMA DivIs ==
  ASSUME NEW a \in Int, NEW k \in Nat \ {0}
  PROVE  a \div k \in Int /\ (a \div k) * k <= a /\ a < (a \div k) * k + k
  OBVIOUS

\* Multiples are ordered as what they are multiples of.
LEMMA ProductsOrdered ==
  ASSUME NEW q \in Int, NEW r \in Int, NEW k \in Nat \ {0}, q * k < r * k + k
  PROVE  q <= r
  <1>1. q * k < (r + 1) * k
    OBVIOUS
  <1>2. CASE q > r
    <2>1. q >= r + 1 /\ q - (r + 1) \in Nat
      BY <1>2
    <2>2. (q - (r + 1)) * k >= 0
      BY <2>1
    <2>3. (q - (r + 1)) * k = q * k - (r + 1) * k
      OBVIOUS
    <2> QED BY <1>1, <2>2, <2>3
  <1> QED BY <1>2

\* Division keeps the order.
LEMMA DivOrdered ==
  ASSUME NEW a \in Int, NEW b \in Int, NEW k \in Nat \ {0}, a <= b
  PROVE  a \div k <= b \div k
  <1> DEFINE q == a \div k
             r == b \div k
  <1>1. q \in Int /\ q * k <= a
    BY DivIs
  <1>2. r \in Int /\ b < r * k + k
    BY DivIs
  <1> HIDE DEF q, r
  <1>3. q * k < r * k + k
    <2> DEFINE x == q * k
               y == r * k
    <2>1. x \in Int /\ y \in Int BY <1>1, <1>2
    <2> HIDE DEF x, y
    <2>2. x <= a /\ b < y + k BY <1>1, <1>2 DEF x, y
    <2>3. x < y + k BY <2>1, <2>2
    <2> QED BY <2>3 DEF x, y
  <1>4. q <= r
    BY <1>1, <1>2, <1>3, ProductsOrdered
  <1> QED BY <1>4 DEF q, r

\* Dividing a multiple and less than one divisor more gives the multiple.
LEMMA DivExact ==
  ASSUME NEW m \in Int, NEW k \in Nat \ {0}, NEW e \in 0 .. k - 1
  PROVE  (m * k + e) \div k = m
  <1> DEFINE p == m * k
             q == (p + e) \div k
  <1>1. p \in Int
    OBVIOUS
  <1>2. q \in Int /\ q * k <= p + e /\ p + e < q * k + k
    <2> DEFINE a == p + e
    <2>1. a \in Int BY <1>1
    <2> HIDE DEF a
    <2>2. a \div k \in Int /\ (a \div k) * k <= a /\ a < (a \div k) * k + k
      BY <2>1, DivIs
    <2> QED BY <2>2 DEF a
  <1> HIDE DEF q
  <1>3. q * k < m * k + k /\ m * k < q * k + k
    BY <1>1, <1>2
  <1>4. q <= m /\ m <= q
    BY <1>2, <1>3, ProductsOrdered
  <1>5. q = m
    BY <1>2, <1>4
  <1> QED BY <1>5 DEF q, p

\* Rounding keeps the order.
LEMMA RoundOrdered ==
  ASSUME NEW a \in Nat, NEW b \in Nat, NEW k \in Nat \ {0}, a <= b
  PROVE  RoundDiv(a, k) <= RoundDiv(b, k)
  <1> DEFINE x == 2 * a + k
             y == 2 * b + k
             d == 2 * k
  <1>1. x \in Int /\ y \in Int /\ d \in Nat \ {0} /\ x <= y
    OBVIOUS
  <1>2. RoundDiv(a, k) = x \div d /\ RoundDiv(b, k) = y \div d
    BY DEF RoundDiv
  <1> HIDE DEF x, y, d
  <1> QED BY <1>1, <1>2, DivOrdered

\* A whole number is not rounded.
LEMMA RoundExact ==
  ASSUME NEW m \in Nat, NEW k \in Nat \ {0}
  PROVE  RoundDiv(m * k, k) = m
  <1> DEFINE d == 2 * k
             p == m * k
  <1>1. d \in Nat \ {0} /\ k \in 0 .. d - 1 /\ p \in Nat /\ 2 * p = m * d
    OBVIOUS
  <1>2. RoundDiv(p, k) = (2 * p + k) \div d
    BY <1>1 DEF RoundDiv
  <1> HIDE DEF d, p
  <1>3. (m * d + k) \div d = m
    BY <1>1, DivExact
  <1>4. RoundDiv(p, k) = m
    BY <1>1, <1>2, <1>3
  <1> QED BY <1>4 DEF p

-----------------------------------------------------------------------------
\* Where write_characters puts the pens: at whole steps, or for as much of the
\* width as the crowding leaves, in its middle.
LayoutAsked(width, n, level) == width \in 30 .. 2000 /\ n \in 1 .. 32 /\ level \in 0 .. 100

\* The layout in closed form: the letters span at least 45 of 100 of the room they
\* have, and are moved right by half of what crowding takes from it.
LaidOut(width, n, level) ==
  LET full == width - 10
      span == full * (100 - (55 * level) \div 100)
      at_ == Layout(width, n, shaped(level))
  IN  /\ span \in Nat /\ span <= 100 * full /\ 45 * full <= span
      /\ level = 0 => at_ = [origin |-> 500 * n, step |-> 100 * n * (full \div n)]
      /\ level # 0 => at_ = [origin |-> 500 * n + (100 * n * full - n * span) \div 2,
                             step |-> span]

\* The layout is that one.
LEMMA LayoutIs ==
  ASSUME NEW width, NEW n, NEW level, LayoutAsked(width, n, level)
  PROVE  LaidOut(width, n, level)
  <1>0. width \in 30 .. 2000 /\ n \in 1 .. 32 /\ level \in 0 .. 100
    BY DEF LayoutAsked
  <1> DEFINE full == width - 10
             c == 100 - (55 * level) \div 100
             span == full * c
             deform == shaped(level)
             at_ == Layout(width, n, deform)
  <1>1. full \in 20 .. 1990 /\ AtLeast(width - 10, 0) = full
    BY <1>0 DEF AtLeast
  <1>2. Strength(deform, "clustering") = level /\ deform["clustering"] = level
    <2>1. "clustering" \in Deformed
      BY DEF Deformed
    <2> QED BY <1>0, <2>1, StrengthIs
  <1>3. c \in 45 .. 100
    BY <1>0
  <1>4. span \in Nat /\ span <= 100 * full /\ 45 * full <= span
    <2> HIDE DEF full, c
    <2>1. full * (100 - c) >= 0 /\ full * (c - 45) >= 0
      BY <1>1, <1>3
    <2>2. full * (100 - c) = 100 * full - full * c /\ full * (c - 45) = full * c - 45 * full
      BY <1>1, <1>3
    <2>3. full * c \in Int
      BY <1>1, <1>3
    <2> DEFINE p == full * c
    <2> HIDE DEF p
    <2>4. p \in Nat /\ p <= 100 * full /\ 45 * full <= p
      BY <1>1, <2>1, <2>2, <2>3 DEF p
    <2> QED BY <2>4 DEF p
  <1>5. level = 0 => at_ = [origin |-> 500 * n, step |-> 100 * n * (full \div n)]
    BY <1>0, <1>1, <1>2 DEF Layout
  <1>6. level # 0 => at_ = [origin |-> 500 * n + (100 * n * full - n * span) \div 2, step |-> span]
    <2> DEFINE f == AtLeast(width - 10, 0)
               s == Strength(deform, "clustering")
    <2>1. at_ = LET wide == f * (100 - ((100 - 45) * s) \div 100)
                IN  IF deform["clustering"] > 0 THEN [origin |-> Origin(f, wide, n), step |-> wide]
                    ELSE [origin |-> 500 * n, step |-> 100 * n * (f \div n)]
      BY DEF Layout, MAX_CLUSTERING
    <2>2. 100 - 45 = 55 /\ f = full /\ s = level
      BY <1>0, <1>1, <1>2
    <2> HIDE DEF f, s, full, at_
    <2>3. level # 0 => at_ = [origin |-> Origin(full, span, n), step |-> span]
      BY <1>0, <1>2, <2>1, <2>2
    <2> QED BY <2>3 DEF Origin
  <1> QED BY <1>4, <1>5, <1>6 DEF LaidOut

\* The pens are in order from left to right.
Spaced(width, n, deform) ==
  n \in 1 .. 32 /\ Layout(width, n, deform).origin \in Nat /\ Layout(width, n, deform).step \in Nat

\* The pens stand from left to right.
InOrder(pens, n) == \A i \in 1 .. n - 1 : pens[i - 1] <= pens[i]

\* The pens are in order wherever they start and whatever their step.
LEMMA PensOrdered ==
  ASSUME NEW width, NEW n, NEW deform, Spaced(width, n, deform)
  PROVE  InOrder(Pens(width, n, deform), n)
  <1> SUFFICES ASSUME NEW i \in 1 .. n - 1
               PROVE  Pens(width, n, deform)[i - 1] <= Pens(width, n, deform)[i]
    BY DEF InOrder
  <1> DEFINE origin == Layout(width, n, deform).origin
             step == Layout(width, n, deform).step
             k == 100 * n
             a == origin + (i - 1) * step
             b == origin + i * step
  <1>1. Pens(width, n, deform)[i - 1] = RoundDiv(a, k) /\ Pens(width, n, deform)[i] = RoundDiv(b, k)
    BY DEF Pens, Spaced
  <1>2. a \in Nat /\ b \in Nat /\ a <= b /\ k \in Nat \ {0}
    <2>1. origin \in Nat /\ step \in Nat /\ i \in Nat /\ i - 1 \in Nat /\ n \in 1 .. 32
      BY DEF Spaced
    <2> HIDE DEF origin, step
    <2>2. (i - 1) * step \in Nat /\ i * step \in Nat /\ i * step = (i - 1) * step + step
      BY <2>1
    <2> QED BY <2>1, <2>2
  <1> HIDE DEF a, b, k
  <1> QED BY <1>1, <1>2, RoundOrdered

\* Crowding keeps the letters centred, within the margins and in order.
LEMMA LettersCentred ==
  /\ Given_("layout") /\ input.width \in 30 .. 2000 /\ input.n \in 1 .. 32 /\ input.level \in 0 .. 100
  => LettersStayCentred
  <1> SUFFICES ASSUME input.width \in 30 .. 2000, input.n \in 1 .. 32, input.level \in 0 .. 100
               PROVE  LettersStayCentred
    OBVIOUS
  <1> DEFINE width == input.width
             n == input.n
             level == input.level
             deform == shaped(level)
             at_ == Layout(width, n, deform)
             origin == at_.origin
             step == at_.step
             right == (100 * n) * (width - 5) - (origin + n * step)
             left == origin - 500 * n
             slack == IF level = 0 THEN 100 * n * n ELSE n * 2
             full == width - 10
             span == full * (100 - (55 * level) \div 100)
             all == n * full
  <1>1. width \in 30 .. 2000 /\ n \in 1 .. 32 /\ level \in 0 .. 100
    OBVIOUS
  <1> HIDE DEF width, n, level
  <1>2. /\ span \in Nat /\ span <= 100 * full
        /\ level = 0 => at_ = [origin |-> 500 * n, step |-> 100 * n * (full \div n)]
        /\ level # 0 => at_ = [origin |-> 500 * n + (100 * n * full - n * span) \div 2, step |-> span]
    <2>1. LaidOut(width, n, level)
      <3>1. LayoutAsked(width, n, level)
        BY <1>1 DEF LayoutAsked
      <3> QED BY <3>1, LayoutIs
    <2> QED BY <2>1 DEF LaidOut
  <1>3. full \in Nat /\ all \in Nat /\ (100 * n) * (width - 5) = 100 * all + 500 * n
    BY <1>1
  <1> HIDE DEF at_
  <1>4. /\ AbsOf(right - left) <= slack /\ left >= 0 /\ right >= 0
        /\ origin \in Nat /\ step \in Nat
    <2>1. CASE level = 0
      <3> DEFINE q == full \div n
                 m == n * q
      <3>1. q \in Int /\ q * n <= full /\ full < q * n + n
        BY <1>1, <1>3, DivIs
      <3>2. q \in Nat
        BY <1>1, <1>3
      <3>3. origin = 500 * n /\ step = 100 * n * q
        BY <1>2, <2>1
      <3> HIDE DEF q, full, origin, step
      <3>4. m \in Nat /\ m <= full /\ full < m + n /\ step = 100 * m
        BY <1>1, <3>1, <3>2, <3>3
      <3>5. n * m <= all /\ all <= n * m + n * n /\ n * m \in Nat
        <4> HIDE DEF m
        <4>1. n * (full - m) >= 0 /\ n * (m + n - full) >= 0
          BY <1>1, <1>3, <3>4
        <4>2. n * (full - m) = n * full - n * m /\ n * (m + n - full) = n * m + n * n - n * full
          BY <1>1, <1>3, <3>4
        <4>3. n * m \in Nat /\ n * n \in Nat
          BY <1>1, <3>4
        <4> DEFINE x == n * m  y == n * n
        <4> HIDE DEF x, y
        <4>4. x <= all /\ all <= x + y
          <5> DEFINE z == n * full
          <5>1. z \in Int BY <1>1, <1>3
          <5> HIDE DEF z
          <5>2. z - x >= 0 /\ x + y - z >= 0 BY <4>1, <4>2 DEF x, y, z
          <5>3. all = z BY DEF z
          <5> HIDE DEF all
          <5> QED BY <4>3, <5>1, <5>2, <5>3 DEF x, y
        <4> QED BY <4>3, <4>4 DEF x, y
      <3> DEFINE x == n * m  y == n * n
      <3>6. n * step = 100 * x /\ slack = 100 * y /\ y \in Nat
        BY <1>1, <2>1, <3>4
      <3> HIDE DEF x, all, m
      <3>7. right = 100 * all - 100 * x /\ left = 0
        <4> DEFINE z == n * step  v == (100 * n) * (width - 5)
        <4>1. z = 100 * x /\ v = 100 * all + 500 * n
          BY <1>3, <3>6
        <4> HIDE DEF z, v
        <4>2. v - (origin + z) = 100 * all - 100 * x
          BY <1>1, <1>3, <3>3, <3>5, <4>1 DEF x
        <4>3. left = 0
          BY <1>1, <3>3
        <4> QED BY <4>2, <4>3 DEF z, v
      <3> HIDE DEF right, left, slack, y
      <3>8. all <= x + y /\ x <= all /\ x \in Nat /\ y \in Nat /\ all \in Nat
        BY <1>3, <3>5, <3>6 DEF x, y
      <3>9. AbsOf(right - left) <= slack /\ left >= 0 /\ right >= 0
        BY <3>6, <3>7, <3>8 DEF AbsOf
      <3>10. origin \in Nat /\ step \in Nat
        BY <1>1, <3>3, <3>4
      <3> QED BY <3>9, <3>10
    <2>2. CASE level # 0
      <3> DEFINE x == 100 * n * full - n * span
                 half == x \div 2
      <3>1. origin = 500 * n + half /\ step = span
        BY <1>2, <2>2
      <3>2. x = n * (100 * full - span) /\ x \in Nat
        <4> DEFINE v == 100 * full - span
        <4>1. v \in Nat
          BY <1>2, <1>3
        <4>2. x = n * v
          <5> HIDE DEF full, span
          <5> QED BY <1>1, <1>2, <1>3
        <4> HIDE DEF v, x
        <4>3. x \in Nat
          BY <1>1, <4>1, <4>2
        <4> QED BY <4>2, <4>3 DEF v
      <3>3. n * span \in Nat /\ 100 * n * full = 100 * all
        <4> HIDE DEF span, full
        <4> QED BY <1>1, <1>2, <1>3
      <3> DEFINE ns == n * span
      <3>4. x = 100 * all - ns /\ ns \in Nat
        BY <3>3
      <3>5. right = x - half /\ left = half
        <4> DEFINE v == (100 * n) * (width - 5)
                   z == n * step
        <4>1. v = 100 * all + 500 * n /\ z = ns
          BY <1>3, <3>1
        <4>2. half \in Int
          BY <3>2
        <4> HIDE DEF v, z, ns, all, x, half
        <4>3. v - (origin + z) = x - half
          BY <1>1, <1>3, <3>1, <3>4, <4>1, <4>2
        <4>4. left = half
          BY <1>1, <3>1, <4>2
        <4> QED BY <4>3, <4>4 DEF v, z
      <3> HIDE DEF x, right, left
      <3>6. AbsOf(right - left) <= 1 /\ left >= 0 /\ right >= 0 /\ half \in Nat
        BY <3>2, <3>5 DEF AbsOf
      <3>7. AbsOf(right - left) \in Int
        BY <3>2, <3>5 DEF AbsOf
      <3>8. slack = n * 2 /\ slack >= 2
        BY <1>1, <2>2
      <3>9. AbsOf(right - left) <= slack
        <4> DEFINE v == AbsOf(right - left)
        <4>1. v <= 1 /\ v \in Int BY <3>6, <3>7
        <4> HIDE DEF v, slack
        <4>2. slack \in Int BY <1>1, <3>8
        <4>3. v <= slack BY <3>8, <4>1, <4>2
        <4> QED BY <4>3 DEF v
      <3>10. origin \in Nat /\ step \in Nat
        BY <1>1, <1>2, <3>1, <3>6
      <3> QED BY <3>6, <3>9, <3>10
    <2> QED BY <2>1, <2>2
  <1>5. \A i \in 1 .. n - 1 : Pens(width, n, deform)[i - 1] <= Pens(width, n, deform)[i]
    <2> HIDE DEF deform
    <2>1. Spaced(width, n, deform)
      BY <1>1, <1>4 DEF at_, Spaced
    <2>2. InOrder(Pens(width, n, deform), n)
      BY <2>1, PensOrdered
    <2> QED BY <2>2 DEF InOrder
  <1> HIDE DEF right, left, slack
  <1> QED BY <1>4, <1>5 DEF LettersStayCentred, right, left, slack, at_, width, n, level

\* What shaped gives every deformation at the easiest level.
LEMMA EasyHasNone ==
  ASSUME NEW d \in Deformed
  PROVE  shaped(0)[d] = 0
  BY DEF shaped

\* At level 0 a letter draws its colour alone.
LEMMA EasyDraws == LetterDraws(shaped(0), FALSE) = <<"color">>
  <1> DEFINE deform == shaped(0)
  <1>1. /\ deform["outline"] = 0 /\ deform["transparency"] = 0 /\ deform["blur"] = 0
        /\ deform["gradient"] = 0 /\ deform["scale"] = 0 /\ deform["jitter"] = 0
        /\ deform["skew"] = 0 /\ deform["wave"] = 0 /\ deform["rotation"] = 0
    BY EasyHasNone DEF Deformed
  <1> HIDE DEF deform
  <1>2. <<"color">> \o << >> = <<"color">>
    OBVIOUS
  <1>3. ShadingDraws(deform, FALSE) = <<"color">> \o << >> \o << >> \o << >> \o << >>
    BY <1>1 DEF ShadingDraws
  <1>4. LetterDraws(deform, FALSE)
          = ShadingDraws(deform, FALSE) \o << >> \o << >> \o << >> \o << >> \o << >> \o << >>
    BY <1>1 DEF LetterDraws, spread
  <1>5. ShadingDraws(deform, FALSE) = <<"color">>
    BY <1>2, <1>3
  <1>6. LetterDraws(deform, FALSE) = <<"color">>
    BY <1>2, <1>4, <1>5
  <1> QED BY <1>6 DEF deform

\* Pens that stand whole steps apart, from the margin on.
AtWholeSteps(pens, width, n) ==
  \A i \in 0 .. n - 1 : pens[i] = 5 + i * ((width - 10) \div n)

\* The pens of the easiest level stand whole steps apart (write_characters).
LEMMA EasyPens ==
  ASSUME NEW width, NEW n, LayoutAsked(width, n, 0)
  PROVE  AtWholeSteps(Pens(width, n, shaped(0)), width, n)
  <1>0. width \in 30 .. 2000 /\ n \in 1 .. 32
    BY DEF LayoutAsked
  <1> SUFFICES ASSUME NEW i \in 0 .. n - 1
               PROVE  Pens(width, n, shaped(0))[i] = 5 + i * ((width - 10) \div n)
    BY DEF AtWholeSteps
  <1> DEFINE at_ == Layout(width, n, shaped(0))
             q == (width - 10) \div n
             k == 100 * n
             m == 5 + i * q
  <1>1. at_.origin = 500 * n /\ at_.step = 100 * n * q
    <2>1. LaidOut(width, n, 0)
      BY LayoutIs
    <2> QED BY <2>1 DEF LaidOut
  <1>2. Pens(width, n, shaped(0))[i] = RoundDiv(at_.origin + i * at_.step, k)
    BY DEF Pens
  <1>3. q \in Nat /\ i \in Nat /\ n \in Nat \ {0}
    BY <1>0
  <1> HIDE DEF q, at_
  <1>4. at_.origin + i * at_.step = m * k /\ m \in Nat /\ k \in Nat \ {0}
    <2>1. i * q \in Nat
      BY <1>3
    <2>2. i * (100 * n * q) = (i * q) * (100 * n)
      BY <1>3
    <2> DEFINE p == i * q
    <2> HIDE DEF p
    <2>3. (5 + p) * (100 * n) = 500 * n + p * (100 * n)
      BY <1>3, <2>1 DEF p
    <2> QED BY <1>1, <1>3, <2>1, <2>2, <2>3 DEF p
  <1> DEFINE r == at_.origin + i * at_.step
  <1> HIDE DEF m, k, r
  <1>5. RoundDiv(r, k) = m
    <2>1. RoundDiv(m * k, k) = m
      BY <1>4, RoundExact
    <2> QED BY <1>4, <2>1 DEF r
  <1> QED BY <1>2, <1>5 DEF r, m, q

\* EasyIsUntouched, at every size (Deformations::shaped, render).
LEMMA EasyStaysUntouched ==
  LayoutAsked(input.width, input.n, input.level) => EasyIsUntouched
  <1> SUFFICES ASSUME LayoutAsked(input.width, input.n, input.level), input.level \in Intensity(1)
               PROVE  EasyIsUntouched
    BY Zenon DEF EasyIsUntouched
  <1> DEFINE w == input.width
             n == input.n
             level == input.level
             draws == LetterDraws(shaped(level), FALSE)
  <1>1. level = 0
    BY DEF Intensity, Clamped, AtLeast, AtMost
  <1>2. LayoutAsked(w, n, level)
    OBVIOUS
  <1> HIDE DEF w, n, level
  <1>3. Rendered(4, 0, 0, 0).difficulty = 1
    BY DEF Rendered, Clamped, AtLeast, AtMost
  <1>4. Noise(1) = [mean |-> 0, stddev |-> 0, rate |-> 0]
    BY DEF Noise
  <1>5. \A d \in {"mean", "stddev", "rate"} : Noise(1)[d] = 0
    BY <1>4
  <1>6. AtWholeSteps(Pens(w, n, shaped(level)), w, n)
    BY <1>1, <1>2, EasyPens
  <1>7. draws = <<"color">>
    BY <1>1, EasyDraws, Zenon
  <1>8. Noise(Rendered(4, 0, 0, 0).difficulty) = Noise(1)
    BY <1>3
  <1> QED BY <1>5, <1>6, <1>7, <1>8, Zenon DEF EasyIsUntouched, AtWholeSteps, w, n, level

-----------------------------------------------------------------------------
\* Rounding keeps whole steps.
LEMMA RoundShifted ==
  ASSUME NEW a \in Nat, NEW c \in Nat, NEW k \in Nat \ {0}
  PROVE  RoundDiv(a + c * k, k) = RoundDiv(a, k) + c /\ RoundDiv(a, k) \in Nat
  <1> DEFINE d == 2 * k
             x == 2 * a + k
             q == x \div d
             e == x - q * d
             p == c * k
  <1>1. d \in Nat \ {0} /\ x \in Nat /\ p \in Nat /\ 2 * p = c * d
    OBVIOUS
  <1>2. RoundDiv(a, k) = q /\ RoundDiv(a + p, k) = (2 * p + x) \div d
    <2> HIDE DEF p
    <2>1. a + p \in Nat /\ 2 * (a + p) + k = 2 * p + x
      BY <1>1
    <2> QED BY <2>1 DEF RoundDiv
  <1> HIDE DEF d, x, p
  <1>3. q \in Nat /\ e \in 0 .. d - 1 /\ q * d \in Int
    <2>1. q \in Int /\ q * d <= x /\ x < q * d + d
      BY <1>1, DivIs
    <2>2. q \in Nat
      BY <1>1
    <2> DEFINE y == q * d
    <2>3. y \in Int
      BY <1>1, <2>1
    <2> HIDE DEF q, y
    <2>4. x - y \in 0 .. d - 1
      BY <1>1, <2>1, <2>3 DEF y
    <2> QED BY <2>2, <2>3, <2>4 DEF y
  <1> DEFINE m == q + c
  <1>4. 2 * p + x = m * d + e /\ m \in Int
    <2> HIDE DEF q
    <2>1. (q + c) * d = q * d + c * d
      BY <1>1, <1>3
    <2>2. c * d \in Int
      BY <1>1
    <2> DEFINE y == q * d  z == c * d
    <2> HIDE DEF y, z
    <2>3. z + x = (y + z) + (x - y)
      BY <1>1, <1>3, <2>2 DEF y, z
    <2> QED BY <1>1, <1>3, <2>1, <2>3 DEF y, z
  <1> HIDE DEF q, e, m
  <1>5. (m * d + e) \div d = m
    BY <1>1, <1>3, <1>4, DivExact
  <1> QED BY <1>2, <1>3, <1>4, <1>5 DEF m, p

\* What is apart by whole pixels is as far apart rounded.
LEMMA RoundApart ==
  ASSUME NEW a \in Nat, NEW b \in Nat, NEW c \in Nat, NEW k \in Nat \ {0}, a + c * k <= b
  PROVE  RoundDiv(a, k) + c <= RoundDiv(b, k)
  <1> DEFINE p == a + c * k
  <1>1. p \in Nat
    OBVIOUS
  <1>2. RoundDiv(p, k) = RoundDiv(a, k) + c
    BY RoundShifted
  <1> HIDE DEF p
  <1>3. RoundDiv(p, k) <= RoundDiv(b, k)
    BY <1>1, RoundOrdered DEF p
  <1> QED BY <1>2, <1>3

\* How far apart the pens of at most seven letters stand, and how far a letter
\* can be shifted from its pen.
Room(n) == CASE n <= 3 -> 16 [] n \in 4 .. 5 -> 14 [] OTHER -> 12

\* Two letters are not shifted towards each other by more than that.
LEMMA ShiftsFit ==
  ASSUME NEW n \in 1 .. 7, NEW level \in 0 .. 100, NEW a \in Jitters(n, shaped(level)),
         NEW b \in Jitters(n, shaped(level))
  PROVE  a \in Int /\ b \in Int /\ a - b <= Room(n)
  <1> DEFINE most == RoundDiv(MAX_JITTER * Scale(n) * level, 10000)
  <1>1. shaped(level)["jitter"] = level
    BY StrengthIs DEF Deformed
  <1>2. a \in -most .. most /\ b \in -most .. most
    BY <1>1 DEF Jitters
  <1>3. Scale(n) = (CASE n <= 3 -> 50 [] n \in 4 .. 5 -> 42 [] OTHER -> 35)
    BY DEF Scale
  <1>4. most \in Nat /\ 2 * most <= Room(n)
    <2>1. CASE n <= 3
      <3>1. Scale(n) = 50 /\ Room(n) = 16
        BY <1>3, <2>1 DEF Room
      <3>2. most = (2 * (800 * level) + 10000) \div 20000
        BY <3>1 DEF RoundDiv, MAX_JITTER
      <3> QED BY <3>1, <3>2
    <2>2. CASE n \in 4 .. 5
      <3>1. Scale(n) = 42 /\ Room(n) = 14
        BY <1>3, <2>2 DEF Room
      <3>2. most = (2 * (672 * level) + 10000) \div 20000
        BY <3>1 DEF RoundDiv, MAX_JITTER
      <3> QED BY <3>1, <3>2
    <2>3. CASE n \in 6 .. 7
      <3>1. Scale(n) = 35 /\ Room(n) = 12
        BY <1>3, <2>3 DEF Room
      <3>2. most = (2 * (560 * level) + 10000) \div 20000
        BY <3>1 DEF RoundDiv, MAX_JITTER
      <3> QED BY <3>1, <3>2
    <2> QED BY <2>1, <2>2, <2>3
  <1> HIDE DEF most
  <1>5. Room(n) \in Int
    BY DEF Room
  <1> QED BY <1>2, <1>4, <1>5

\* LettersReadInOrder, at every intensity (write_characters).
LEMMA LettersStayInOrder ==
  Given_("layout") /\ input.n \in 1 .. 32 /\ input.level \in 0 .. 100 => LettersReadInOrder
  <1> SUFFICES ASSUME input.n \in 1 .. 7, input.level \in 0 .. 100, input.width = 220,
                      NEW i \in 1 .. input.n - 1,
                      NEW a \in Jitters(input.n, shaped(input.level)),
                      NEW b \in Jitters(input.n, shaped(input.level))
               PROVE  Pens(220, input.n, shaped(input.level))[i - 1] + a
                        <= Pens(220, input.n, shaped(input.level))[i] + b
    BY DEF LettersReadInOrder
  <1> DEFINE n == input.n
             level == input.level
             at_ == Layout(220, n, shaped(level))
             origin == at_.origin
             step == at_.step
             k == 100 * n
             span == 210 * (100 - (55 * level) \div 100)
             c == Room(n)
             deform == shaped(level)
             left == origin + (i - 1) * step
             next == origin + i * step
  <1>1. n \in 1 .. 7 /\ level \in 0 .. 100 /\ i \in 1 .. n - 1
    OBVIOUS
  <1>2. a \in Jitters(n, deform) /\ b \in Jitters(n, deform)
    OBVIOUS
  <1> HIDE DEF n, level
  <1>3. /\ span \in Nat /\ 9450 <= span /\ span <= 21000
        /\ level = 0 => at_ = [origin |-> 500 * n, step |-> 100 * n * (210 \div n)]
        /\ level # 0 => at_ = [origin |-> 500 * n + (100 * n * 210 - n * span) \div 2, step |-> span]
    <2>1. LayoutAsked(220, n, level)
      BY <1>1 DEF LayoutAsked
    <2>2. LaidOut(220, n, level)
      BY <2>1, LayoutIs
    <2>3. 220 - 10 = 210
      OBVIOUS
    <2>4. span \in Nat /\ 9450 <= span /\ span <= 21000
      BY <1>1
    <2> QED BY <2>2, <2>3, <2>4 DEF LaidOut
  <1>4. a \in Int /\ b \in Int /\ a - b <= c /\ c \in Nat
    <2>1. a \in Int /\ b \in Int /\ a - b <= c
      BY <1>1, <1>2, ShiftsFit
    <2>2. c \in Nat
      BY DEF Room
    <2> QED BY <2>1, <2>2
  <1>5. c * k <= 9100 /\ k \in Nat \ {0}
    BY <1>1 DEF Room
  <1> HIDE DEF at_, span, c
  <1>6. origin \in Nat /\ step \in Nat /\ 9100 <= step
    <2>1. CASE level = 0
      <3> DEFINE q == 210 \div n
      <3>1. q \in Nat /\ 100 * n * q >= 9100
        BY <1>1
      <3> HIDE DEF q
      <3>2. 100 * n * q \in Nat
        BY <1>1, <3>1
      <3>3. origin = 500 * n /\ step = 100 * n * q
        BY <1>3, <2>1 DEF q
      <3> QED BY <1>1, <3>1, <3>2, <3>3
    <2>2. CASE level # 0
      <3>1. origin = 500 * n + (100 * n * 210 - n * span) \div 2 /\ step = span
        BY <1>3, <2>2
      <3>2. n * span \in Nat /\ n * span <= 100 * n * 210
        BY <1>1, <1>3
      <3> DEFINE x == 100 * n * 210 - n * span
      <3>3. x \in Nat
        BY <1>1, <3>2
      <3> HIDE DEF x
      <3>4. x \div 2 \in Nat
        BY <3>3
      <3> QED BY <1>1, <1>3, <3>1, <3>4 DEF x
    <2> QED BY <2>1, <2>2
  <1> HIDE DEF origin, step
  <1>7. left \in Nat /\ next = left + step
    <2>1. (i - 1) * step \in Nat /\ i * step = (i - 1) * step + step
      BY <1>1, <1>6
    <2> QED BY <1>6, <2>1
  <1>8. Pens(220, n, deform)[i - 1] = RoundDiv(left, k) /\ Pens(220, n, deform)[i] = RoundDiv(next, k)
    BY <1>1 DEF Pens, origin, step, at_
  <1> HIDE DEF left, next, k, deform
  <1>9. RoundDiv(left, k) + c <= RoundDiv(next, k)
    <2>1. c * k \in Nat
      BY <1>4, <1>5
    <2>2. left + c * k <= next /\ next \in Nat
      BY <1>5, <1>6, <1>7, <2>1
    <2> QED BY <1>4, <1>5, <1>7, <2>2, RoundApart
  <1>10. RoundDiv(left, k) \in Nat /\ RoundDiv(next, k) \in Nat
    <2>1. next \in Nat
      BY <1>6, <1>7
    <2> QED BY <1>5, <1>7, <2>1, RoundShifted
  <1> DEFINE lp == RoundDiv(left, k)  rp == RoundDiv(next, k)
  <1> HIDE DEF lp, rp
  <1>11. lp + a <= rp + b
    BY <1>4, <1>9, <1>10 DEF lp, rp
  <1> QED BY <1>8, <1>11 DEF lp, rp, n, level, deform

-----------------------------------------------------------------------------
(***************************************************************************)
(* Colours: the brightest and the darkest channel add up to twice the      *)
(* lightness, to the rounding of each.                                     *)
(***************************************************************************)
Hsl(hue, saturation, lightness) ==
  [hue |-> hue, saturation |-> saturation, lightness |-> lightness, turn |-> 24, whole |-> 100]

\* A colour that can be asked for.
HslAsked(hue, saturation, lightness) ==
  hue \in Int /\ saturation \in 0 .. 100 /\ lightness \in 0 .. 100

\* A channel, from what the sector gives it, the lightness and the chroma.
Channel(raw, lightness, chroma) ==
  Clamped(RoundDiv((2 * raw + (200 * lightness - chroma) * 4) * 255, 80000), 0, 255)

\* The three channels are in some order these three.
Permuted(rgb, low, mid, high) ==
  \/ rgb[1] = high /\ rgb[2] = mid /\ rgb[3] = low
  \/ rgb[1] = mid /\ rgb[2] = high /\ rgb[3] = low
  \/ rgb[1] = low /\ rgb[2] = high /\ rgb[3] = mid
  \/ rgb[1] = low /\ rgb[2] = mid /\ rgb[3] = high
  \/ rgb[1] = mid /\ rgb[2] = low /\ rgb[3] = high
  \/ rgb[1] = high /\ rgb[2] = low /\ rgb[3] = mid

\* Three channels in order whose ends add up to twice the lightness, to a level.
Graded(low, mid, high, lightness) ==
  /\ low \in 0 .. 255 /\ mid \in 0 .. 255 /\ high \in 0 .. 255 /\ low <= mid /\ mid <= high
  /\ 510 * lightness - 100 <= 100 * (high + low) /\ 100 * (high + low) <= 510 * lightness + 100

\* Each sixth of the wheel permutes the three raw channels.
LEMMA SectorIs ==
  ASSUME NEW sector, NEW chroma, NEW second
  PROVE  Permuted(Sector(sector, chroma, second), 0, second, chroma)
  <1> DEFINE rgb == Sector(sector, chroma, second)
  <1>1. \/ rgb = <<chroma, second, 0>> \/ rgb = <<second, chroma, 0>> \/ rgb = <<0, chroma, second>>
        \/ rgb = <<0, second, chroma>> \/ rgb = <<second, 0, chroma>> \/ rgb = <<chroma, 0, second>>
    BY DEF Sector
  <1> HIDE DEF rgb
  <1>2. Permuted(rgb, 0, second, chroma)
    BY <1>1 DEF Permuted
  <1> QED BY <1>2 DEF rgb

\* The raw channels that a lightness and a saturation of s make.
RawAsked(lightness, s, chroma, second) ==
  /\ lightness \in 0 .. 100 /\ s \in 0 .. 100 /\ second \in Int
  /\ chroma = (100 - AbsOf(2 * lightness - 100)) * s /\ 0 <= second /\ second <= chroma * 4

\* The channels of a colour, from the raw ones, are graded by its lightness.
LEMMA ChannelsGraded ==
  ASSUME NEW lightness, NEW s, NEW chroma, NEW second, RawAsked(lightness, s, chroma, second)
  PROVE  Graded(Channel(0, lightness, chroma), Channel(second, lightness, chroma),
                Channel(chroma * 4, lightness, chroma), lightness)
  <1> SUFFICES ASSUME lightness \in 0 .. 100, s \in 0 .. 100, second \in Int,
                      chroma = (100 - AbsOf(2 * lightness - 100)) * s,
                      0 <= second, second <= chroma * 4
               PROVE  Graded(Channel(0, lightness, chroma), Channel(second, lightness, chroma),
                             Channel(chroma * 4, lightness, chroma), lightness)
    BY DEF RawAsked
  <1> DEFINE room == 100 - AbsOf(2 * lightness - 100)
             l == lightness
             c == chroma
  <1>1. room \in 0 .. 100 /\ room <= 2 * l /\ room <= 200 - 2 * l
    BY DEF AbsOf
  <1>2. c \in Nat /\ c <= 200 * l /\ c <= 20000 - 200 * l
    <2> HIDE DEF room
    <2>1. c = room * s
      BY DEF room
    <2>2. room * s \in Nat /\ room * s <= room * 100
      <3>1. room * (100 - s) >= 0 /\ room * (100 - s) = room * 100 - room * s /\ room * s \in Nat
        BY <1>1
      <3> DEFINE x == room * s
      <3> HIDE DEF x
      <3>2. x <= room * 100
        BY <1>1, <3>1 DEF x
      <3> QED BY <3>1, <3>2 DEF x
    <2> HIDE DEF c
    <2>3. c \in Nat /\ c <= room * 100
      BY <2>1, <2>2
    <2> QED BY <1>1, <2>3
  <1> HIDE DEF l, c
  <1>3. ASSUME NEW raw \in Int, 0 <= raw, raw <= c * 4
        PROVE  /\ Channel(raw, l, c) = (510 * (2 * raw + (200 * l - c) * 4) + 80000) \div 160000
               /\ Channel(raw, l, c) \in 0 .. 255
    <2> DEFINE v == (2 * raw + (200 * l - c) * 4) * 255
    <2>1. l \in 0 .. 100
      BY DEF l
    <2>2. v \in Nat /\ v <= 20400000
      BY <1>2, <1>3, <2>1
    <2>3. RoundDiv(v, 80000) = (2 * v + 80000) \div 160000
      BY <2>2 DEF RoundDiv
    <2>4. (2 * v + 80000) \div 160000 \in 0 .. 255
      <3> HIDE DEF v
      <3> QED BY <2>2
    <2>5. Channel(raw, l, c) = (2 * v + 80000) \div 160000
      BY <2>3, <2>4 DEF Channel, Clamped, AtLeast, AtMost
    <2>6. 2 * v = 510 * (2 * raw + (200 * l - c) * 4)
      BY <1>2, <2>1
    <2> QED BY <2>4, <2>5, <2>6
  <1> DEFINE low == Channel(0, l, c)
             mid == Channel(second, l, c)
             high == Channel(c * 4, l, c)
  <1>4. /\ low = (510 * (2 * 0 + (200 * l - c) * 4) + 80000) \div 160000 /\ low \in 0 .. 255
        /\ mid = (510 * (2 * second + (200 * l - c) * 4) + 80000) \div 160000 /\ mid \in 0 .. 255
        /\ high = (510 * (2 * (c * 4) + (200 * l - c) * 4) + 80000) \div 160000 /\ high \in 0 .. 255
    <2>1. 0 \in Int /\ c * 4 \in Int /\ 0 <= c * 4 /\ second <= c * 4
      BY <1>2 DEF c
    <2> QED BY <1>3, <2>1
  <1> HIDE DEF low, mid, high
  <1>5. l \in 0 .. 100 /\ second <= c * 4
    BY DEF l, c
  <1>6. low <= mid /\ mid <= high
    BY <1>2, <1>4, <1>5
  <1>7. 510 * l - 100 <= 100 * (high + low) /\ 100 * (high + low) <= 510 * l + 100
    BY <1>2, <1>4, <1>5
  <1>8. Graded(low, mid, high, l)
    BY <1>4, <1>6, <1>7 DEF Graded
  <1> QED BY <1>8 DEF low, mid, high, l, c

\* What hsl_to_rgb makes of a colour.
LEMMA HslGraded ==
  ASSUME NEW hue, NEW saturation, NEW lightness, HslAsked(hue, saturation, lightness)
  PROVE  \E low, mid, high :
           /\ Permuted(hsl_to_rgb(Hsl(hue, saturation, lightness)), low, mid, high)
           /\ Graded(low, mid, high, lightness)
  <1> DEFINE c == Hsl(hue, saturation, lightness)
             sixth == c.turn \div 6
             h == c.hue % c.turn
             s == Clamped(c.saturation, 0, c.whole)
             l == Clamped(c.lightness, 0, c.whole)
             chroma == (c.whole - AbsOf(2 * l - c.whole)) * s
             second == chroma * (sixth - AbsOf((h % (2 * sixth)) - sixth))
             base == (2 * c.whole * l - chroma) * sixth
             rgb == Sector(h \div sixth, chroma * sixth, second)
             level(x) == Clamped(RoundDiv((2 * x + base) * 255, 2 * c.whole * c.whole * sixth), 0, 255)
  <1>1. hsl_to_rgb(c) = [i \in 1 .. 3 |-> level(rgb[i])]
    BY DEF hsl_to_rgb
  <1>2. c.turn = 24 /\ c.whole = 100 /\ c.hue = hue /\ c.saturation = saturation /\ c.lightness = lightness
    BY DEF Hsl
  <1>3. hue \in Int /\ saturation \in 0 .. 100 /\ lightness \in 0 .. 100
    BY DEF HslAsked
  <1> HIDE DEF c
  <1>4. sixth = 4 /\ h = hue % 24 /\ s = saturation /\ l = lightness
    BY <1>2, <1>3 DEF Clamped, AtLeast, AtMost
  <1>5. 2 * c.whole * c.whole * sixth = 80000
    BY <1>2, <1>4
  <1>6. chroma = (100 - AbsOf(2 * lightness - 100)) * saturation
    BY <1>2, <1>4
  <1>7. second \in Int /\ 0 <= second /\ second <= chroma * 4
    <2> DEFINE k == sixth - AbsOf((h % (2 * sixth)) - sixth)
    <2>1. k \in 0 .. 4
      BY <1>3, <1>4 DEF AbsOf
    <2>2. chroma \in Nat
      <3> DEFINE room == 100 - AbsOf(2 * lightness - 100)
      <3>1. room \in 0 .. 100
        BY <1>3 DEF AbsOf
      <3> HIDE DEF room
      <3> QED BY <1>3, <1>6, <3>1 DEF room
    <2> HIDE DEF k, chroma
    <2>3. k = 0 \/ k = 1 \/ k = 2 \/ k = 3 \/ k = 4
      BY <2>1
    <2>4. chroma * k \in Int /\ 0 <= chroma * k /\ chroma * k <= chroma * 4
      BY <2>2, <2>3
    <2> QED BY <2>4 DEF k
  <1>8. base = (200 * lightness - chroma) * 4
    BY <1>2, <1>4
  <1>9. chroma * sixth = chroma * 4
    BY <1>4
  <1> DEFINE low == Channel(0, lightness, chroma)
             mid == Channel(second, lightness, chroma)
             high == Channel(chroma * 4, lightness, chroma)
  <1>10. Permuted(rgb, 0, second, chroma * 4)
    <2> DEFINE most == chroma * sixth
               at_ == h \div sixth
    <2> HIDE DEF most, at_, second
    <2>1. Permuted(Sector(at_, most, second), 0, second, most)
      BY SectorIs
    <2> QED BY <1>9, <2>1 DEF most, at_
  <1> HIDE DEF rgb
  <1>11. \A x : level(x) = Channel(x, lightness, chroma)
    <2> HIDE DEF base
    <2> QED BY <1>5, <1>8 DEF Channel
  <1> HIDE DEF level
  <1> DEFINE made == hsl_to_rgb(c)
  <1>12. made[1] = level(rgb[1]) /\ made[2] = level(rgb[2]) /\ made[3] = level(rgb[3])
    BY <1>1
  <1> HIDE DEF made
  <1>13. Graded(low, mid, high, lightness)
    <2> HIDE DEF second, chroma
    <2>1. RawAsked(lightness, saturation, chroma, second)
      BY <1>3, <1>6, <1>7 DEF RawAsked
    <2> QED BY <2>1, ChannelsGraded
  <1>14. Permuted(made, low, mid, high)
    <2> HIDE DEF second, chroma
    <2>1. level(0) = low /\ level(second) = mid /\ level(chroma * 4) = high
      BY <1>11
    <2> HIDE DEF low, mid, high
    <2> QED BY <1>10, <1>12, <2>1 DEF Permuted
  <1> HIDE DEF low, mid, high
  <1> QED BY <1>13, <1>14 DEF made, c

\* The brightest and the darkest of three channels.
LEMMA EndsOfThree ==
  ASSUME NEW low \in Int, NEW mid \in Int, NEW high \in Int, low <= mid, mid <= high
  PROVE  /\ (CHOOSE m \in {low, mid, high} : \A n \in {low, mid, high} : m <= n) = low
         /\ (CHOOSE m \in {low, mid, high} : \A n \in {low, mid, high} : m >= n) = high
  <1> DEFINE all == {low, mid, high}
  <1>1. low \in all /\ \A n \in all : low <= n
    OBVIOUS
  <1>2. high \in all /\ \A n \in all : high >= n
    OBVIOUS
  <1>3. all \subseteq Int
    OBVIOUS
  <1> HIDE DEF all
  <1> DEFINE a == CHOOSE m \in all : \A n \in all : m <= n
             b == CHOOSE m \in all : \A n \in all : m >= n
  <1>4. a \in all /\ \A n \in all : a <= n
    BY <1>1
  <1>5. b \in all /\ \A n \in all : b >= n
    BY <1>2
  <1> HIDE DEF a, b
  <1>6. a = low /\ b = high
    BY <1>1, <1>2, <1>3, <1>4, <1>5
  <1> QED BY <1>6 DEF a, b, all

\* The speck's side of SpecksAreNotInk, in either mode.
LEMMA SpecksApart ==
  /\ Given_("speck") /\ input.hue \in Int /\ input.saturation \in SpeckSaturation
  /\ input.lightness \in SpeckLightness
  => SpecksAreNotInk
  <1> SUFFICES ASSUME input.hue \in Int, input.saturation \in SpeckSaturation,
                      input.lightness \in SpeckLightness
               PROVE  SpecksAreNotInk
    OBVIOUS
  <1> DEFINE hue == input.hue
             saturation == input.saturation
             lightness == input.lightness
             rgb == Speck(hue, saturation, lightness)
             channels == {rgb[i] : i \in 1 .. 3}
             twice == (CHOOSE m \in channels : \A n \in channels : m <= n)
                      + (CHOOSE m \in channels : \A n \in channels : m >= n)
  <1>1. lightness \in 82 .. 99 \/ lightness \in 0 .. 17
    BY DEF SpeckLightness
  <1>2. HslAsked(hue, saturation, lightness)
    BY DEF HslAsked, SpeckSaturation, SpeckLightness
  <1> HIDE DEF hue, saturation, lightness
  <1>3. PICK low, mid, high : Permuted(rgb, low, mid, high) /\ Graded(low, mid, high, lightness)
    <2>1. rgb = hsl_to_rgb(Hsl(hue, saturation, lightness))
      BY DEF Speck, Hsl
    <2> HIDE DEF rgb
    <2> QED BY <1>2, <2>1, HslGraded
  <1> HIDE DEF rgb
  <1>4. channels = {low, mid, high}
    <2>1. channels = {rgb[1], rgb[2], rgb[3]}
      OBVIOUS
    <2> HIDE DEF channels
    <2> QED BY <1>3, <2>1 DEF Permuted
  <1>5. /\ low \in Int /\ mid \in Int /\ high \in Int /\ low <= mid /\ mid <= high
        /\ 510 * lightness - 100 <= 100 * (high + low) /\ 100 * (high + low) <= 510 * lightness + 100
    BY <1>3 DEF Graded
  <1>6. twice = low + high
    <2> HIDE DEF channels
    <2> QED BY <1>4, <1>5, EndsOfThree
  <1> HIDE DEF twice, channels
  <1>7. ASSUME NEW dark \in BOOLEAN
        PROVE  LET inks == {510 * l : l \in glyph_lightness(dark)}
               IN  (\A ink \in inks : 100 * twice < ink) \/ (\A ink \in inks : 100 * twice > ink)
    <2>1. \A l \in glyph_lightness(dark) : l \in 32 .. 80
      BY DEF glyph_lightness, DARK_MODE_LIGHTNESS, LIGHT_MODE_LIGHTNESS
    <2>2. CASE lightness \in 82 .. 99
      <3>1. 100 * twice >= 41720
        BY <1>5, <1>6, <2>2
      <3>2. twice \in Int
        BY <1>5, <1>6
      <3>3. \A l \in glyph_lightness(dark) : 100 * twice > 510 * l
        BY <2>1, <3>1, <3>2
      <3> QED BY <3>3
    <2>3. CASE lightness \in 0 .. 17
      <3>1. 100 * twice <= 8770
        BY <1>5, <1>6, <2>3
      <3>2. twice \in Int
        BY <1>5, <1>6
      <3>3. \A l \in glyph_lightness(dark) : 100 * twice < 510 * l
        BY <2>1, <3>1, <3>2
      <3> QED BY <3>3
    <2> QED BY <1>1, <2>2, <2>3
  <1> QED BY <1>7 DEF SpecksAreNotInk, twice, channels, rgb, hue, saturation, lightness

-----------------------------------------------------------------------------
\* A product by an opacity keeps to its bounds.
LEMMA OpacityBounds ==
  ASSUME NEW apart \in Int, NEW least \in Nat, NEW opacity \in 35 .. 100
  PROVE  /\ apart >= least => opacity * apart >= 35 * least
         /\ apart <= -least => opacity * apart <= -(35 * least)
  <1>1. ASSUME apart >= least PROVE opacity * apart >= 35 * least
    <2>1. opacity * (apart - least) >= 0
      BY <1>1
    <2>2. (opacity - 35) * least >= 0
      OBVIOUS
    <2>3. opacity * (apart - least) = opacity * apart - opacity * least
          /\ (opacity - 35) * least = opacity * least - 35 * least
      OBVIOUS
    <2> DEFINE x == opacity * apart  y == opacity * least
    <2>4. x \in Int /\ y \in Int
      OBVIOUS
    <2> HIDE DEF x, y
    <2>5. x >= 35 * least
      BY <2>1, <2>2, <2>3, <2>4 DEF x, y
    <2> QED BY <2>5 DEF x
  <1>2. ASSUME apart <= -least PROVE opacity * apart <= -(35 * least)
    <2>1. opacity * (-least - apart) >= 0
      BY <1>2
    <2>2. (opacity - 35) * least >= 0
      OBVIOUS
    <2>3. opacity * (-least - apart) = -(opacity * least) - opacity * apart
          /\ (opacity - 35) * least = opacity * least - 35 * least
      OBVIOUS
    <2> DEFINE x == opacity * apart  y == opacity * least
    <2>4. x \in Int /\ y \in Int
      OBVIOUS
    <2> HIDE DEF x, y
    <2>5. x <= -(35 * least)
      BY <2>1, <2>2, <2>3, <2>4 DEF x, y
    <2> QED BY <2>5 DEF x
  <1> QED BY <1>1, <1>2

\* Ink on its ground, both of them levels of a channel.
InkAsked(ground, ink, opacity) == {ground, ink} \subseteq 0 .. 255 /\ opacity \in 0 .. 100

\* The ink moves the ground towards it by its opacity, to a level.
Inked(ground, ink, opacity) ==
  LET inked == weighted_sum(ground, ink, opacity, 100)
      apart == opacity * ink - opacity * ground
  IN  inked \in Int /\ apart - 99 <= 100 * (inked - ground) /\ 100 * (inked - ground) <= apart

\* One channel of the ground under a share of ink, to the rounding of the sum.
LEMMA InkedIs ==
  ASSUME NEW ground, NEW ink, NEW opacity, InkAsked(ground, ink, opacity)
  PROVE  Inked(ground, ink, opacity)
  <1> SUFFICES ASSUME ground \in 0 .. 255, ink \in 0 .. 255, opacity \in 0 .. 100
               PROVE  Inked(ground, ink, opacity)
    BY DEF InkAsked
  <1> DEFINE x == opacity * ink
             y == opacity * ground
             sum == ground * (100 - opacity) + ink * opacity
  <1>1. sum = 100 * ground - y + x /\ x \in Int /\ y \in Int
    OBVIOUS
  <1>2. sum >= 0 /\ sum <= 25500
    <2>1. ground * (100 - opacity) >= 0 /\ ink * opacity >= 0
      OBVIOUS
    <2>2. (255 - ground) * (100 - opacity) >= 0 /\ (255 - ink) * opacity >= 0
      OBVIOUS
    <2>3. /\ (255 - ground) * (100 - opacity) = 25500 - 255 * opacity - 100 * ground + y
          /\ (255 - ink) * opacity = 255 * opacity - x
      OBVIOUS
    <2> QED BY <1>1, <2>1, <2>2, <2>3
  <1> HIDE DEF x, y
  <1>3. weighted_sum(ground, ink, opacity, 100) = sum \div 100
    <2>1. sum \in Int
      BY <1>1
    <2> HIDE DEF sum
    <2>2. sum \div 100 \in 0 .. 255
      BY <1>2, <2>1
    <2> QED BY <2>2 DEF weighted_sum, clamp_u8, Clamped, AtLeast, AtMost, sum
  <1> DEFINE inked == weighted_sum(ground, ink, opacity, 100)
  <1> HIDE DEF sum
  <1>4. inked \in Int /\ x - y - 99 <= 100 * (inked - ground) /\ 100 * (inked - ground) <= x - y
    BY <1>1, <1>2, <1>3
  <1> QED BY <1>4 DEF x, y, Inked

\* Ink of the lightness of its mode is far from the ground of it.
PaintAsked(dark, near, opacity) ==
  dark \in BOOLEAN /\ near \in glyph_lightness(dark) /\ opacity \in 35 .. 100

\* By how much three channels are brighter in all than three others.
Brighter(ink, ground) == (ink[1] + ink[2] + ink[3]) - (ground[1] + ground[2] + ground[3])

\* Full ink is at least 190 away from its ground, over the three channels.
LEMMA InkFarFromGround ==
  ASSUME NEW dark, NEW near, NEW opacity, PaintAsked(dark, near, opacity),
         NEW rgb, NEW low, NEW mid, NEW high,
         Permuted(rgb, low, mid, high), Graded(low, mid, high, near)
  PROVE  LET ground == background(dark)
         IN  /\ \A i \in 1 .. 3 : ground[i] \in 0 .. 255 /\ rgb[i] \in 0 .. 255
             /\ Brighter(rgb, ground) \in Int
             /\ Brighter(rgb, ground) >= 190 \/ Brighter(rgb, ground) <= -190
  <1> DEFINE ground == background(dark)
  <1>1. /\ low \in 0 .. 255 /\ mid \in 0 .. 255 /\ high \in 0 .. 255 /\ low <= mid /\ mid <= high
        /\ 510 * near - 100 <= 100 * (high + low) /\ 100 * (high + low) <= 510 * near + 100
    BY DEF Graded
  <1>2. rgb[1] \in 0 .. 255 /\ rgb[2] \in 0 .. 255 /\ rgb[3] \in 0 .. 255
        /\ rgb[1] + rgb[2] + rgb[3] = low + mid + high
    <2> DEFINE x == rgb[1]  y == rgb[2]  z == rgb[3]
    <2>1. \/ x = high /\ y = mid /\ z = low
          \/ x = mid /\ y = high /\ z = low
          \/ x = low /\ y = high /\ z = mid
          \/ x = low /\ y = mid /\ z = high
          \/ x = mid /\ y = low /\ z = high
          \/ x = high /\ y = low /\ z = mid
      BY DEF Permuted
    <2> HIDE DEF x, y, z
    <2>2. x \in 0 .. 255 /\ y \in 0 .. 255 /\ z \in 0 .. 255 /\ x + y + z = low + mid + high
      BY <1>1, <2>1
    <2> QED BY <2>2 DEF x, y, z
  <1>3. CASE dark = TRUE
    <2>1. near \in 55 .. 80
      BY <1>3 DEF PaintAsked, glyph_lightness, DARK_MODE_LIGHTNESS
    <2>2. ground[1] = 18 /\ ground[2] = 18 /\ ground[3] = 18
      BY <1>3 DEF background, DARK
    <2> HIDE DEF ground
    <2>3. Brighter(rgb, ground) \in Int /\ Brighter(rgb, ground) >= 190
      BY <1>1, <1>2, <2>1, <2>2 DEF Brighter
    <2> QED BY <1>2, <2>2, <2>3 DEF ground
  <1>4. CASE dark = FALSE
    <2>1. near \in 32 .. 52
      BY <1>4 DEF PaintAsked, glyph_lightness, LIGHT_MODE_LIGHTNESS
    <2>2. ground[1] = 224 /\ ground[2] = 238 /\ ground[3] = 253
      <3>1. ground = LIGHT
        BY <1>4 DEF background
      <3> QED BY <3>1 DEF LIGHT
    <2> HIDE DEF ground
    <2>3. Brighter(rgb, ground) \in Int /\ Brighter(rgb, ground) <= -190
      BY <1>1, <1>2, <2>1, <2>2 DEF Brighter
    <2> QED BY <1>2, <2>2, <2>3 DEF ground
  <1> QED BY <1>3, <1>4 DEF PaintAsked

\* InkStandsOut of one colour (composite_mask, weighted_sum).
LEMMA InkIsSeen ==
  ASSUME NEW dark, NEW near, NEW opacity, PaintAsked(dark, near, opacity),
         NEW hue, NEW saturation, HslAsked(hue, saturation, near)
  PROVE  LET ground == background(dark)
             ink == hsl_to_rgb(Hsl(hue, saturation, near))
             inked(i) == weighted_sum(ground[i], ink[i], opacity, 100)
         IN  AbsOf((inked(1) + inked(2) + inked(3)) - (ground[1] + ground[2] + ground[3])) > 27
  <1> DEFINE ground == background(dark)
             ink == hsl_to_rgb(Hsl(hue, saturation, near))
             inked(i) == weighted_sum(ground[i], ink[i], opacity, 100)
  <1>1. PICK low, mid, high : Permuted(ink, low, mid, high) /\ Graded(low, mid, high, near)
    BY HslGraded
  <1> HIDE DEF ink
  <1>2. /\ \A i \in 1 .. 3 : ground[i] \in 0 .. 255 /\ ink[i] \in 0 .. 255
        /\ Brighter(ink, ground) \in Int
        /\ Brighter(ink, ground) >= 190 \/ Brighter(ink, ground) <= -190
    BY <1>1, InkFarFromGround
  <1>3. opacity \in 35 .. 100
    BY DEF PaintAsked
  <1> HIDE DEF ground
  <1>4. ASSUME NEW i \in 1 .. 3
        PROVE  /\ inked(i) \in Int
               /\ (opacity * ink[i] - opacity * ground[i]) - 99 <= 100 * (inked(i) - ground[i])
               /\ 100 * (inked(i) - ground[i]) <= opacity * ink[i] - opacity * ground[i]
    <2> DEFINE g == ground[i]  k == ink[i]
    <2>1. g \in 0 .. 255 /\ k \in 0 .. 255 /\ opacity \in 0 .. 100
      BY <1>2, <1>3
    <2> HIDE DEF g, k
    <2>2. weighted_sum(g, k, opacity, 100) \in Int
          /\ (opacity * k - opacity * g) - 99 <= 100 * (weighted_sum(g, k, opacity, 100) - g)
          /\ 100 * (weighted_sum(g, k, opacity, 100) - g) <= opacity * k - opacity * g
      <3>1. InkAsked(g, k, opacity)
        BY <2>1 DEF InkAsked
      <3>2. Inked(g, k, opacity)
        BY <3>1, InkedIs
      <3> QED BY <3>2 DEF Inked
    <2> QED BY <2>2 DEF g, k
  <1> DEFINE off == (inked(1) + inked(2) + inked(3)) - (ground[1] + ground[2] + ground[3])
             apart == Brighter(ink, ground)
             g1 == ground[1]  g2 == ground[2]  g3 == ground[3]
             k1 == ink[1]     k2 == ink[2]     k3 == ink[3]
             n1 == inked(1)   n2 == inked(2)   n3 == inked(3)
  <1>5. /\ g1 \in 0 .. 255 /\ g2 \in 0 .. 255 /\ g3 \in 0 .. 255
        /\ k1 \in 0 .. 255 /\ k2 \in 0 .. 255 /\ k3 \in 0 .. 255
        /\ n1 \in Int /\ n2 \in Int /\ n3 \in Int
        /\ (opacity * k1 - opacity * g1) - 99 <= 100 * (n1 - g1) /\ 100 * (n1 - g1) <= opacity * k1 - opacity * g1
        /\ (opacity * k2 - opacity * g2) - 99 <= 100 * (n2 - g2) /\ 100 * (n2 - g2) <= opacity * k2 - opacity * g2
        /\ (opacity * k3 - opacity * g3) - 99 <= 100 * (n3 - g3) /\ 100 * (n3 - g3) <= opacity * k3 - opacity * g3
    <2> HIDE DEF inked
    <2> QED BY <1>2, <1>4
  <1>6. apart = (k1 + k2 + k3) - (g1 + g2 + g3) /\ off = (n1 + n2 + n3) - (g1 + g2 + g3)
    BY DEF Brighter
  <1> HIDE DEF apart, off, g1, g2, g3, k1, k2, k3, n1, n2, n3
  <1>7. opacity * apart - 297 <= 100 * off /\ 100 * off <= opacity * apart /\ off \in Int
    <2> DEFINE a1 == opacity * k1 - opacity * g1
               a2 == opacity * k2 - opacity * g2
               a3 == opacity * k3 - opacity * g3
    <2>1. opacity * apart = a1 + a2 + a3 /\ a1 \in Int /\ a2 \in Int /\ a3 \in Int
      BY <1>3, <1>5, <1>6
    <2> HIDE DEF a1, a2, a3
    <2>2. /\ a1 - 99 <= 100 * (n1 - g1) /\ 100 * (n1 - g1) <= a1
          /\ a2 - 99 <= 100 * (n2 - g2) /\ 100 * (n2 - g2) <= a2
          /\ a3 - 99 <= 100 * (n3 - g3) /\ 100 * (n3 - g3) <= a3
      BY <1>5 DEF a1, a2, a3
    <2> QED BY <1>5, <1>6, <2>1, <2>2
  <1>8. off > 27 \/ off < -27
    <2>1. apart \in Int /\ (apart >= 190 \/ apart <= -190)
      BY <1>2 DEF apart
    <2>2. opacity * apart >= 35 * 190 \/ opacity * apart <= -(35 * 190)
      BY <1>3, <2>1, OpacityBounds
    <2> DEFINE p == opacity * apart
    <2>3. p \in Int
      BY <1>3, <2>1
    <2> HIDE DEF p
    <2>4. p >= 6650 \/ p <= -6650
      BY <2>2 DEF p
    <2> QED BY <1>7, <2>3, <2>4 DEF p
  <1>9. AbsOf(off) > 27
    BY <1>7, <1>8 DEF AbsOf
  <1> QED BY <1>9 DEF off, n1, n2, n3, g1, g2, g3, ground, ink

\* InkStandsOut of every letter, however it is drawn.
LEMMA InkAlwaysStandsOut ==
  /\ Given_("paint") /\ input.level \in 0 .. 100 /\ input.dark \in BOOLEAN
  /\ input.near \in glyph_lightness(input.dark)
  => InkStandsOut
  <1> SUFFICES ASSUME input.level \in 0 .. 100, input.dark \in BOOLEAN,
                      input.near \in glyph_lightness(input.dark)
               PROVE  InkStandsOut
    OBVIOUS
  <1> DEFINE dark == input.dark
             near == input.near
             opacity == FadeFloor(shaped(input.level), input.hollow)
             ground == background(dark)
  <1>1. PaintAsked(dark, near, opacity)
    <2> DEFINE u == Strength(shaped(input.level), "transparency")
    <2>1. u \in 0 .. 100
      BY StrengthIs DEF Deformed
    <2>2. opacity = IF input.hollow THEN 100 - (40 * u) \div 100 ELSE 100 - (65 * u) \div 100
      BY DEF FadeFloor, MIN_OUTLINE_OPACITY, MIN_OPACITY
    <2> HIDE DEF u, opacity
    <2>3. opacity \in 35 .. 100
      BY <2>1, <2>2
    <2> QED BY <2>3 DEF PaintAsked
  <1>2. near \in 0 .. 100
    BY DEF glyph_lightness, DARK_MODE_LIGHTNESS, LIGHT_MODE_LIGHTNESS
  <1>3. Noise(10).mean = 9
    BY DEF Noise
  <1> HIDE DEF dark, near, opacity
  <1>4. ASSUME NEW hue \in {0, 4, 8, 12, 16, 20}, NEW saturation \in {50, 95}
        PROVE  LET ink == hsl_to_rgb(Hsl(hue, saturation, near))
                   inked(i) == weighted_sum(ground[i], ink[i], opacity, 100)
               IN  AbsOf((inked(1) + inked(2) + inked(3)) - (ground[1] + ground[2] + ground[3]))
                     > 3 * Noise(10).mean
    <2>1. HslAsked(hue, saturation, near)
      BY <1>2 DEF HslAsked
    <2>2. 3 * Noise(10).mean = 27
      BY <1>3
    <2> HIDE DEF ground
    <2> QED BY <1>1, <2>1, <2>2, InkIsSeen DEF ground
  <1> QED BY <1>4 DEF InkStandsOut, Hsl, dark, near, opacity

-----------------------------------------------------------------------------
(***************************************************************************)
(* Hollow letters: what outline leaves of a solid square.                  *)
(***************************************************************************)
LEMMA SolidIs ==
  /\ Solid.width = 7 /\ Solid.height = 7 /\ DOMAIN Solid.coverage = Box(7, 7)
  /\ \A p \in Box(7, 7) : Solid.coverage[p] = 1
  BY DEF Solid

\* The solid mask covers its box and nothing else.
LEMMA SolidAt ==
  ASSUME NEW x \in Int, NEW y \in Int
  PROVE  at(Solid, x, y) = IF x \in 0 .. 6 /\ y \in 0 .. 6 THEN 1 ELSE 0
  <1>1. CASE x \in 0 .. 6 /\ y \in 0 .. 6
    <2>1. <<x, y>> \in Box(7, 7)
      BY <1>1 DEF Box
    <2>2. at(Solid, x, y) = Solid.coverage[<<x, y>>]
      BY <1>1, SolidIs DEF at
    <2> QED BY <1>1, <2>1, <2>2, SolidIs
  <1>2. CASE ~(x \in 0 .. 6 /\ y \in 0 .. 6)
    <2>1. x < 0 \/ y < 0 \/ x >= 7 \/ y >= 7
      BY <1>2
    <2>2. at(Solid, x, y) = 0
      BY <2>1, SolidIs DEF at
    <2> QED BY <1>2, <2>2
  <1> QED BY <1>1, <1>2

\* A pixel that far from every edge.
Deep(p, reach) == p[1] \in reach .. 6 - reach /\ p[2] \in reach .. 6 - reach

\* Deep inside, nothing but ink is seen.
LEMMA LeastInside ==
  ASSUME NEW p \in Box(7, 7), NEW reach \in Nat, NEW squared \in Nat, Deep(p, reach)
  PROVE  LeastWithin(Solid, p, squared, reach) = 1
  <1> DEFINE disc == {q \in (-reach .. reach) \X (-reach .. reach) : q[1] * q[1] + q[2] * q[2] <= squared}
             seen == {at(Solid, p[1] + q[1], p[2] + q[2]) : q \in disc}
  <1>1. \A q \in disc : at(Solid, p[1] + q[1], p[2] + q[2]) = 1
    <2> SUFFICES ASSUME NEW q \in disc PROVE at(Solid, p[1] + q[1], p[2] + q[2]) = 1
      OBVIOUS
    <2> DEFINE x == p[1] + q[1]  y == p[2] + q[2]
    <2>1. q[1] \in -reach .. reach /\ q[2] \in -reach .. reach
      OBVIOUS
    <2>2. x \in 0 .. 6 /\ y \in 0 .. 6
      <3> DEFINE a == q[1]  b == q[2]  c == p[1]  d == p[2]
      <3>1. a \in -reach .. reach /\ b \in -reach .. reach
        BY <2>1
      <3>2. c \in reach .. 6 - reach /\ d \in reach .. 6 - reach
        BY DEF Deep
      <3> HIDE DEF a, b, c, d
      <3>3. c + a \in 0 .. 6 /\ d + b \in 0 .. 6
        BY <3>1, <3>2
      <3> QED BY <3>3 DEF a, b, c, d
    <2> HIDE DEF x, y
    <2>3. at(Solid, x, y) = 1
      BY <2>2, SolidAt
    <2> QED BY <2>3 DEF x, y
  <1>2. <<0, 0>> \in disc
    <2>1. <<0, 0>> \in (-reach .. reach) \X (-reach .. reach)
      OBVIOUS
    <2>2. 0 * 0 + 0 * 0 <= squared
      OBVIOUS
    <2> QED BY <2>1, <2>2
  <1> HIDE DEF disc
  <1>3. seen = {1}
    BY <1>1, <1>2
  <1>4. LeastWithin(Solid, p, squared, reach) = CHOOSE m \in seen : \A n \in seen : m <= n
    BY DEF LeastWithin, disc
  <1> HIDE DEF seen
  <1>5. (CHOOSE m \in seen : \A n \in seen : m <= n) \in {1}
    BY <1>3
  <1> QED BY <1>4, <1>5

\* On the edge, what is not ink is seen.
LEMMA LeastOnEdge ==
  ASSUME NEW p \in Box(7, 7), NEW reach \in Nat \ {0}, NEW squared \in Nat, 1 <= squared,
         p[1] = 0 \/ p[1] = 6 \/ p[2] = 0 \/ p[2] = 6
  PROVE  LeastWithin(Solid, p, squared, reach) = 0
  <1> DEFINE disc == {q \in (-reach .. reach) \X (-reach .. reach) : q[1] * q[1] + q[2] * q[2] <= squared}
             seen == {at(Solid, p[1] + q[1], p[2] + q[2]) : q \in disc}
  <1>0. p[1] \in 0 .. 6 /\ p[2] \in 0 .. 6
    BY DEF Box
  <1>1. \A q \in disc : at(Solid, p[1] + q[1], p[2] + q[2]) \in {0, 1}
    <2> SUFFICES ASSUME NEW q \in disc PROVE at(Solid, p[1] + q[1], p[2] + q[2]) \in {0, 1}
      OBVIOUS
    <2> DEFINE x == p[1] + q[1]  y == p[2] + q[2]
    <2>1. x \in Int /\ y \in Int
      BY <1>0
    <2> HIDE DEF x, y
    <2>2. at(Solid, x, y) \in {0, 1}
      BY <2>1, SolidAt
    <2> QED BY <2>2 DEF x, y
  <1>2. \E q \in disc : at(Solid, p[1] + q[1], p[2] + q[2]) = 0
    <2>1. /\ <<1, 0>> \in disc /\ <<-1, 0>> \in disc /\ <<0, 1>> \in disc /\ <<0, -1>> \in disc
      <3>1. 1 * 1 + 0 * 0 <= squared /\ (-1) * (-1) + 0 * 0 <= squared
            /\ 0 * 0 + 1 * 1 <= squared /\ 0 * 0 + (-1) * (-1) <= squared
        OBVIOUS
      <3>2. -1 \in -reach .. reach /\ 0 \in -reach .. reach /\ 1 \in -reach .. reach
        OBVIOUS
      <3> DEFINE minus == -1
      <3>3. minus \in -reach .. reach /\ minus * minus + 0 * 0 <= squared /\ 0 * 0 + minus * minus <= squared
        BY <3>1, <3>2
      <3> HIDE DEF minus
      <3>4. /\ <<1, 0>> \in disc /\ <<minus, 0>> \in disc /\ <<0, 1>> \in disc /\ <<0, minus>> \in disc
        BY <3>1, <3>2, <3>3
      <3> QED BY <3>4 DEF minus
    <2>2. /\ p[1] = 0 => at(Solid, p[1] + -1, p[2] + 0) = 0
          /\ p[1] = 6 => at(Solid, p[1] + 1, p[2] + 0) = 0
          /\ p[2] = 0 => at(Solid, p[1] + 0, p[2] + -1) = 0
          /\ p[2] = 6 => at(Solid, p[1] + 0, p[2] + 1) = 0
      BY <1>0, SolidIs DEF at
    <2> HIDE DEF disc
    <2>3. CASE p[1] = 0
      BY <2>1, <2>2, <2>3
    <2>4. CASE p[1] = 6
      BY <2>1, <2>2, <2>4
    <2>5. CASE p[2] = 0
      BY <2>1, <2>2, <2>5
    <2>6. CASE p[2] = 6
      BY <2>1, <2>2, <2>6
    <2> QED BY <2>3, <2>4, <2>5, <2>6
  <1> HIDE DEF disc
  <1>3. 0 \in seen /\ seen \subseteq {0, 1}
    BY <1>1, <1>2
  <1>4. LeastWithin(Solid, p, squared, reach) = CHOOSE m \in seen : \A n \in seen : m <= n
    BY DEF LeastWithin, disc
  <1> HIDE DEF seen
  <1> DEFINE m == CHOOSE m \in seen : \A n \in seen : m <= n
  <1>5. m \in seen /\ \A n \in seen : m <= n
    <2>1. \A n \in seen : 0 <= n
      BY <1>3
    <2> QED BY <1>3, <2>1
  <1> HIDE DEF m
  <1>6. m = 0
    BY <1>3, <1>5
  <1> QED BY <1>4, <1>6 DEF m

\* A disc of no reach sees its own pixel only.
LEMMA LeastAlone ==
  ASSUME NEW p \in Box(7, 7), NEW reach \in Nat
  PROVE  LeastWithin(Solid, p, 0, reach) = 1
  <1> DEFINE disc == {q \in (-reach .. reach) \X (-reach .. reach) : q[1] * q[1] + q[2] * q[2] <= 0}
             seen == {at(Solid, p[1] + q[1], p[2] + q[2]) : q \in disc}
  <1>1. ASSUME NEW a \in Int, NEW b \in Int, a * a + b * b <= 0 PROVE a = 0 /\ b = 0
    <2>1. a * a >= 0 /\ b * b >= 0
      OBVIOUS
    <2>2. a * a = 0 /\ b * b = 0
      BY <1>1, <2>1
    <2> QED BY <2>2
  <1>2. \A q \in disc : q = <<0, 0>>
    <2> SUFFICES ASSUME NEW a \in -reach .. reach, NEW b \in -reach .. reach, a * a + b * b <= 0
                 PROVE  <<a, b>> = <<0, 0>>
      OBVIOUS
    <2>1. a \in Int /\ b \in Int
      OBVIOUS
    <2> QED BY <1>1, <2>1
  <1>3. <<0, 0>> \in disc
    <2>1. <<0, 0>> \in (-reach .. reach) \X (-reach .. reach) /\ 0 * 0 + 0 * 0 <= 0
      OBVIOUS
    <2> QED BY <2>1
  <1>4. disc = {<<0, 0>>}
    <2> HIDE DEF disc
    <2> QED BY <1>2, <1>3
  <1>5. at(Solid, p[1] + 0, p[2] + 0) = 1
    <2> DEFINE x == p[1]  y == p[2]
    <2>1. x \in 0 .. 6 /\ y \in 0 .. 6
      BY DEF Box
    <2> HIDE DEF x, y
    <2>2. x + 0 = x /\ y + 0 = y /\ at(Solid, x, y) = 1
      BY <2>1, SolidAt
    <2> QED BY <2>2 DEF x, y
  <1>6. LeastWithin(Solid, p, 0, reach) = CHOOSE m \in seen : \A n \in seen : m <= n
    BY DEF LeastWithin
  <1> HIDE DEF disc
  <1>7. seen = {1}
    BY <1>4, <1>5
  <1> HIDE DEF seen
  <1>8. (CHOOSE m \in seen : \A n \in seen : m <= n) \in {1}
    BY <1>7
  <1> QED BY <1>6, <1>8

\* The capped stroke, and the outline of the solid at a pixel, in eighths.
Hollowed(p, stroke) ==
  LET capped == AtMost(stroke, 56)
      reach == capped \div 8 + 1
  IN  8 - Mixed(LeastWithin(Solid, p, (capped \div 8) * (capped \div 8), reach),
                LeastWithin(Solid, p, reach * reach, reach), capped % 8)

\* The hollow mask, pixel by pixel.
LEMMA SolidOutlined ==
  ASSUME NEW stroke \in Nat \ {0}
  PROVE  LET hollow == outline(Solid, stroke)
         IN  /\ hollow.width = 7 /\ hollow.height = 7 /\ DOMAIN hollow.coverage = Box(7, 7)
             /\ \A p \in Box(7, 7) : hollow.coverage[p] = Hollowed(p, stroke)
  <1> DEFINE capped == AtMost(stroke, 8 * AtLeast(Solid.width, Solid.height))
             inner == capped \div 8
             reach == inner + 1
             interior(p) == Mixed(LeastWithin(Solid, p, inner * inner, reach),
                                  LeastWithin(Solid, p, reach * reach, reach), capped % 8)
             cover == [p \in DOMAIN Solid.coverage |-> 8 * Solid.coverage[p] - interior(p)]
             hollow == outline(Solid, stroke)
  <1>1. hollow = [Solid EXCEPT !.coverage = cover]
    BY DEF outline
  <1>2. capped = AtMost(stroke, 56)
    <2>1. 8 * AtLeast(Solid.width, Solid.height) = 56
      BY SolidIs DEF AtLeast
    <2> QED BY <2>1
  <1>3. DOMAIN cover = Box(7, 7) /\ \A p \in Box(7, 7) : cover[p] = Hollowed(p, stroke)
    <2> HIDE DEF capped
    <2>1. \A p \in Box(7, 7) : 8 - interior(p) = Hollowed(p, stroke)
      BY <1>2 DEF Hollowed
    <2> HIDE DEF interior
    <2>2. \A p \in Box(7, 7) : cover[p] = 8 * Solid.coverage[p] - interior(p)
      BY SolidIs
    <2>3. \A p \in Box(7, 7) : 8 * Solid.coverage[p] = 8
      BY SolidIs
    <2>4. DOMAIN cover = Box(7, 7)
      BY SolidIs
    <2> QED BY <2>1, <2>2, <2>3, <2>4
  <1> HIDE DEF cover, hollow
  <1>4. hollow.coverage = cover /\ hollow.width = Solid.width /\ hollow.height = Solid.height
    BY <1>1 DEF Solid
  <1> QED BY <1>3, <1>4, SolidIs DEF hollow

\* Nothing is left deeper than the stroke, and on the edge the stroke's share
\* of a pixel.
LEMMA HollowedIs ==
  ASSUME NEW stroke \in Nat \ {0}, NEW p \in Box(7, 7)
  PROVE  /\ Deep(p, stroke \div 8 + 1) /\ stroke <= 24 => Hollowed(p, stroke) = 0
         /\ p[1] = 0 \/ p[1] = 6 \/ p[2] = 0 \/ p[2] = 6 => Hollowed(p, stroke) = AtMost(stroke, 8)
  <1> DEFINE capped == AtMost(stroke, 56)
             inner == capped \div 8
             reach == inner + 1
             blend == capped % 8
  <1>1. capped \in 1 .. 56 /\ inner \in 0 .. 7 /\ reach \in 1 .. 8 /\ blend \in 0 .. 7
    BY DEF AtMost
  <1>2. inner * inner \in Nat /\ reach * reach \in Nat /\ 1 <= reach * reach
        /\ inner >= 1 => 1 <= inner * inner
    <2> HIDE DEF inner, reach
    <2>1. ASSUME NEW n \in 1 .. 8 PROVE n * n \in Nat /\ 1 <= n * n
      OBVIOUS
    <2>2. inner \in 1 .. 8 \/ inner = 0
      BY <1>1
    <2>3. 0 * 0 = 0
      OBVIOUS
    <2> QED BY <1>1, <2>1, <2>2, <2>3
  <1>3. stroke <= 24 => capped = stroke
    BY DEF AtMost
  <1> DEFINE small == LeastWithin(Solid, p, inner * inner, reach)
             large == LeastWithin(Solid, p, reach * reach, reach)
  <1>4. Hollowed(p, stroke) = 8 - Mixed(small, large, blend)
    BY DEF Hollowed
  <1>5. ASSUME Deep(p, stroke \div 8 + 1), stroke <= 24 PROVE Hollowed(p, stroke) = 0
    <2>1. Deep(p, reach)
      BY <1>3, <1>5
    <2> DEFINE s == inner * inner  t == reach * reach
    <2> HIDE DEF reach, s, t
    <2>2. reach \in Nat /\ s \in Nat /\ t \in Nat
      BY <1>1, <1>2 DEF s, t
    <2>3. LeastWithin(Solid, p, s, reach) = 1 /\ LeastWithin(Solid, p, t, reach) = 1
      BY <2>1, <2>2, LeastInside
    <2>4. small = 1 /\ large = 1
      BY <2>3 DEF s, t
    <2> HIDE DEF small, large, blend
    <2>5. Mixed(small, large, blend) = 8
      BY <1>1, <2>4 DEF Mixed
    <2> QED BY <1>4, <2>5
  <1>6. ASSUME p[1] = 0 \/ p[1] = 6 \/ p[2] = 0 \/ p[2] = 6
        PROVE  Hollowed(p, stroke) = AtMost(stroke, 8)
    <2>1. large = 0
      <3> DEFINE t == reach * reach
      <3> HIDE DEF reach, t
      <3>1. reach \in Nat \ {0} /\ t \in Nat /\ 1 <= t
        BY <1>1, <1>2 DEF t
      <3>2. LeastWithin(Solid, p, t, reach) = 0
        BY <1>6, <3>1, LeastOnEdge
      <3> QED BY <3>2 DEF t
    <2>2. ASSUME inner >= 1 PROVE Hollowed(p, stroke) = AtMost(stroke, 8)
      <3> DEFINE s == inner * inner
      <3>1. AtMost(stroke, 8) = 8
        BY <2>2 DEF AtMost
      <3> HIDE DEF reach, s
      <3>2. reach \in Nat \ {0} /\ s \in Nat /\ 1 <= s
        BY <1>1, <1>2, <2>2 DEF s
      <3>3. LeastWithin(Solid, p, s, reach) = 0
        BY <1>6, <3>2, LeastOnEdge
      <3>4. small = 0
        BY <3>3 DEF s
      <3> HIDE DEF small, large, blend
      <3>5. Mixed(small, large, blend) = 0
        BY <1>1, <2>1, <3>4 DEF Mixed
      <3> QED BY <1>4, <3>1, <3>5
    <2>3. ASSUME inner = 0 PROVE Hollowed(p, stroke) = AtMost(stroke, 8)
      <3>1. AtMost(stroke, 8) = blend
        BY <2>3 DEF AtMost
      <3>2. reach = 1 /\ inner * inner = 0
        BY <2>3
      <3>3. LeastWithin(Solid, p, 0, 1) = 1
        BY LeastAlone
      <3>4. small = 1
        BY <3>2, <3>3
      <3> HIDE DEF small, large, blend
      <3>5. Mixed(small, large, blend) = 8 - blend
        BY <1>1, <2>1, <3>4 DEF Mixed
      <3> QED BY <1>1, <1>4, <3>1, <3>5
    <2>4. inner >= 1 \/ inner = 0
      BY <1>1
    <2> QED BY <2>2, <2>3, <2>4
  <1> QED BY <1>5, <1>6

\* What a fade multiplies a pixel of a box of seven by seven by.
Faded(p, far, cos, sin) ==
  LET ramp == across(7, 7, cos, sin)
  IN  100 * AtLeast(ramp.span, 1) + (far - 100) * RampAt(ramp, p)

\* A faded mask is the mask, pixel by pixel, by the weight of the fade.
LEMMA FadedIs ==
  ASSUME NEW mask, mask.width = 7, mask.height = 7, NEW far, NEW cos, NEW sin,
         NEW top, NEW left, NEW cover,
         mask = [width |-> 7, height |-> 7, left |-> left, top |-> top, coverage |-> cover],
         DOMAIN cover = Box(7, 7), NEW p \in Box(7, 7)
  PROVE  fade(mask, 100, far, 100, cos, sin).coverage[p] = cover[p] * Faded(p, far, cos, sin)
  <1> DEFINE ramp == across(mask.width, mask.height, cos, sin)
             span == AtLeast(ramp.span, 1)
             made == [q \in DOMAIN cover |-> cover[q] * (100 * span + (far - 100) * RampAt(ramp, q))]
  <1>1. fade(mask, 100, far, 100, cos, sin) = [mask EXCEPT !.coverage = made]
    BY DEF fade
  <1>2. made[p] = cover[p] * Faded(p, far, cos, sin)
    BY DEF Faded
  <1> HIDE DEF made
  <1>3. [mask EXCEPT !.coverage = made].coverage = made
    OBVIOUS
  <1> QED BY <1>1, <1>2, <1>3

\* The weight of the fade is a number.
LEMMA FadedInt ==
  ASSUME NEW p \in Box(7, 7), NEW far \in Int, NEW cos \in Int, NEW sin \in Int
  PROVE  Faded(p, far, cos, sin) \in Int
  <1> DEFINE ramp == across(7, 7, cos, sin)
             r == RampAt(ramp, p)
  <1>1. ramp.cos = cos /\ ramp.sin = sin /\ ramp.origin \in Int /\ ramp.span \in Int
    BY DEF across, AtLeast, AtMost, AbsOf
  <1> HIDE DEF ramp
  <1>2. p[1] \in Int /\ p[2] \in Int
    BY DEF Box
  <1>3. r \in Int
    <2>1. p[1] * ramp.cos + p[2] * ramp.sin - ramp.origin \in Int
      BY <1>1, <1>2
    <2> QED BY <1>1, <2>1 DEF RampAt, Clamped, AtLeast, AtMost
  <1>4. AtLeast(ramp.span, 1) \in Int
    BY <1>1 DEF AtLeast
  <1> DEFINE s == AtLeast(ramp.span, 1)
  <1> HIDE DEF r, s
  <1>5. 100 * s + (far - 100) * r \in Int
    BY <1>3, <1>4 DEF s
  <1> QED BY <1>5 DEF Faded, r, s, ramp

\* HollowIsEmptyInside, for every stroke and every fade (Shading::shape).
LEMMA HollowStaysEmpty ==
  /\ Given_("hollow") /\ input.stroke \in Nat \ {0} /\ input.far \in Int
  /\ input.cos \in Int /\ input.sin \in Int
  => HollowIsEmptyInside
  <1> SUFFICES ASSUME input.stroke \in Nat \ {0}, input.far \in Int,
                      input.cos \in Int, input.sin \in Int
               PROVE  HollowIsEmptyInside
    OBVIOUS
  <1> DEFINE stroke == input.stroke
             far == input.far
             cos == input.cos
             sin == input.sin
             hollow == outline(Solid, stroke)
             shaped_ == shape(Solid, stroke, far, cos, sin)
             faded == fade(Solid, 100, far, 100, cos, sin)
             depth(p) == AtMost(AtMost(p[1], 6 - p[1]), AtMost(p[2], 6 - p[2]))
  <1>1. stroke \in Nat \ {0} /\ far \in Int /\ cos \in Int /\ sin \in Int
    OBVIOUS
  <1> HIDE DEF stroke, far, cos, sin
  <1>2. ASSUME NEW p \in Box(7, 7)
        PROVE  /\ 8 * depth(p) > stroke => shaped_.coverage[p] = 0
               /\ depth(p) = 0 => shaped_.coverage[p] = AtMost(stroke, 8) * faded.coverage[p]
    <2> DEFINE x == Faded(p, far, cos, sin)
               h == Hollowed(p, stroke)
    <2>1. x \in Int
      BY <1>1, FadedInt
    <2>2. shaped_.coverage[p] = h * x
      <3> DEFINE cover == hollow.coverage
                 left == hollow.left
                 top == hollow.top
      <3>1. /\ hollow.width = 7 /\ hollow.height = 7 /\ DOMAIN cover = Box(7, 7)
            /\ cover[p] = h
        <4> HIDE DEF hollow
        <4> QED BY <1>1, SolidOutlined DEF hollow
      <3>2. hollow = [width |-> 7, height |-> 7, left |-> left, top |-> top, coverage |-> cover]
        <4>1. hollow = [Solid EXCEPT !.coverage = cover]
          BY <1>1 DEF outline, Solid
        <4> HIDE DEF cover
        <4> QED BY <4>1 DEF Solid
      <3> HIDE DEF hollow, cover, left, top
      <3>3. fade(hollow, 100, far, 100, cos, sin).coverage[p] = cover[p] * x
        BY <3>1, <3>2, FadedIs
      <3> QED BY <3>1, <3>3 DEF shape, hollow
    <2>3. faded.coverage[p] = 1 * x
      <3> DEFINE cover == [q \in Box(7, 7) |-> 1]
      <3>1. Solid = [width |-> 7, height |-> 7, left |-> 0, top |-> 0, coverage |-> cover]
        BY DEF Solid
      <3>2. DOMAIN cover = Box(7, 7) /\ cover[p] = 1
        OBVIOUS
      <3> HIDE DEF cover
      <3>3. fade(Solid, 100, far, 100, cos, sin).coverage[p] = cover[p] * x
        BY <3>1, <3>2, SolidIs, FadedIs
      <3> QED BY <3>2, <3>3
    <2>4. p[1] \in 0 .. 6 /\ p[2] \in 0 .. 6
      BY DEF Box
    <2>5. 8 * depth(p) > stroke => Deep(p, stroke \div 8 + 1) /\ stroke <= 24
      BY <1>1, <2>4 DEF Deep, AtMost
    <2>6. depth(p) = 0 => p[1] = 0 \/ p[1] = 6 \/ p[2] = 0 \/ p[2] = 6
      BY <2>4 DEF AtMost
    <2>7. /\ 8 * depth(p) > stroke => h = 0
          /\ depth(p) = 0 => h = AtMost(stroke, 8)
      BY <1>1, <2>5, <2>6, HollowedIs
    <2> HIDE DEF x, h, shaped_, faded, depth
    <2> QED BY <2>1, <2>2, <2>3, <2>7
  <1> HIDE DEF shaped_, faded
  <1> QED BY <1>2, SolidIs DEF HollowIsEmptyInside, shaped_, faded, stroke, far, cos, sin

-----------------------------------------------------------------------------
(***************************************************************************)
(* Soft letters: a bar of ink, next to a dark ground.                      *)
(***************************************************************************)
Smear == <<1, 2, 1>>

\* Weigh adds up the three taps (the recursion unfolds once for each).
LEMMA WeighThree ==
  ASSUME NEW tap, tap[-1] \in Int, tap[0] \in Int, tap[1] \in Int
  PROVE  Weigh(Smear, tap) = tap[-1] + 2 * tap[0] + tap[1]
  <1> DEFINE a == tap[-1]
             b == tap[0]
             c == tap[1]
             step(f) == [i \in -2 .. 1 |-> IF i < -1 THEN 0 ELSE f[i - 1] + Smear[i + 2] * tap[i]]
             sums == [i \in -2 .. 1 |-> IF i = -2 THEN 0 ELSE IF i = -1 THEN a
                                        ELSE IF i = 0 THEN a + 2 * b ELSE a + 2 * b + c]
  <1>1. Len(Smear) \div 2 = 1 /\ Smear[1] = 1 /\ Smear[2] = 2 /\ Smear[3] = 1
    BY DEF Smear
  <1>2. Weigh(Smear, tap) = (CHOOSE f : f = step(f))[1]
    <2> DEFINE r == Len(Smear) \div 2
    <2>1. Weigh(Smear, tap)
            = (CHOOSE f : f = [i \in -r - 1 .. r |->
                 IF i < -r THEN 0 ELSE f[i - 1] + Smear[i + r + 1] * tap[i]])[r]
      BY DEF Weigh
    <2>2. r = 1 /\ -r - 1 = -2 /\ -r = -1
      BY <1>1
    <2> HIDE DEF r
    <2>3. \A f : [i \in -r - 1 .. r |-> IF i < -r THEN 0 ELSE f[i - 1] + Smear[i + r + 1] * tap[i]]
                   = step(f)
      <3> SUFFICES ASSUME NEW f, NEW i \in -2 .. 1
                   PROVE  (IF i < -r THEN 0 ELSE f[i - 1] + Smear[i + r + 1] * tap[i])
                            = (IF i < -1 THEN 0 ELSE f[i - 1] + Smear[i + 2] * tap[i])
        BY <2>2
      <3>1. i + r + 1 = i + 2
        BY <2>2
      <3> QED BY <2>2, <3>1
    <2> HIDE DEF step
    <2> QED BY <2>1, <2>2, <2>3
  <1>3. sums = step(sums)
    <2>1. \A i \in -2 .. 1 : i = -2 \/ i = -1 \/ i = 0 \/ i = 1
      OBVIOUS
    <2>2. sums[-2] = 0 /\ sums[-1] = a /\ sums[0] = a + 2 * b /\ sums[1] = a + 2 * b + c
      OBVIOUS
    <2> DEFINE most == step(sums)
    <2>3. most[-2] = 0 /\ most[-1] = a /\ most[0] = a + 2 * b /\ most[1] = a + 2 * b + c
      <3> HIDE DEF sums
      <3>1. most[-2] = 0
        OBVIOUS
      <3>2. most[-1] = sums[-2] + Smear[1] * tap[-1]
        OBVIOUS
      <3>3. most[0] = sums[-1] + Smear[2] * tap[0]
        OBVIOUS
      <3>4. most[1] = sums[0] + Smear[3] * tap[1]
        OBVIOUS
      <3> HIDE DEF most
      <3> QED BY <1>1, <2>2, <3>1, <3>2, <3>3, <3>4
    <2>4. DOMAIN sums = -2 .. 1 /\ sums = [i \in -2 .. 1 |-> sums[i]]
          /\ DOMAIN most = -2 .. 1 /\ most = [i \in -2 .. 1 |-> most[i]]
      OBVIOUS
    <2> HIDE DEF sums, most
    <2>5. \A i \in -2 .. 1 : sums[i] = most[i]
      BY <2>1, <2>2, <2>3
    <2>6. sums = most
      BY <2>4, <2>5
    <2> QED BY <2>6 DEF most
  <1> DEFINE to == CHOOSE f : f = step(f)
  <1>4. to = step(to)
    <2> HIDE DEF step, sums
    <2> QED BY <1>3
  <1> HIDE DEF to, sums
  <1>5. to[-2] = 0
    BY <1>4
  <1>6. to[-1] = to[-2] + Smear[1] * tap[-1]
    BY <1>4
  <1>7. to[0] = to[-1] + Smear[2] * tap[0]
    BY <1>4
  <1>8. to[1] = to[0] + Smear[3] * tap[1]
    BY <1>4
  <1> HIDE DEF step
  <1>9. to[1] = a + 2 * b + c
    BY <1>1, <1>5, <1>6, <1>7, <1>8
  <1> QED BY <1>2, <1>9 DEF to

\* The bar of SoftLettersMix, the ground it stands on and its colour.
Bar == [width |-> 2, height |-> 5, left |-> 0, top |-> 0, coverage |-> [p \in Box(2, 5) |-> 1]]
\* The canvas of the property: a dark neighbour, and light ground next to it.
Ground == [p \in Box(9, 5) |-> IF p[1] <= 2 THEN 40 ELSE 240]
\* The colour of its letter.
Grey == [hue |-> 0, saturation |-> 0, lightness |-> 4, turn |-> 24, whole |-> 10]

\* The bar covers its box and nothing else.
LEMMA BarAt ==
  ASSUME NEW x \in Int, NEW y \in Int
  PROVE  at(Bar, x, y) = IF x \in 0 .. 1 /\ y \in 0 .. 4 THEN 1 ELSE 0
  <1>0. Bar.width = 2 /\ Bar.height = 5 /\ \A p \in Box(2, 5) : Bar.coverage[p] = 1
    BY DEF Bar
  <1>1. CASE x \in 0 .. 1 /\ y \in 0 .. 4
    <2>1. <<x, y>> \in Box(2, 5)
      BY <1>1 DEF Box
    <2>2. at(Bar, x, y) = Bar.coverage[<<x, y>>]
      BY <1>0, <1>1 DEF at
    <2> QED BY <1>0, <1>1, <2>1, <2>2
  <1>2. CASE ~(x \in 0 .. 1 /\ y \in 0 .. 4)
    <2>1. x < 0 \/ y < 0 \/ x >= 2 \/ y >= 5
      BY <1>2
    <2>2. at(Bar, x, y) = 0
      BY <1>0, <2>1 DEF at
    <2> QED BY <1>2, <2>2
  <1> QED BY <1>1, <1>2

\* Its channels.
LEMMA GreyIs == hsl_to_rgb(Grey)[1] = 102
  <1> DEFINE c == Grey
             sixth == c.turn \div 6
             h == c.hue % c.turn
             s == Clamped(c.saturation, 0, c.whole)
             l == Clamped(c.lightness, 0, c.whole)
             chroma == (c.whole - AbsOf(2 * l - c.whole)) * s
             second == chroma * (sixth - AbsOf((h % (2 * sixth)) - sixth))
             base == (2 * c.whole * l - chroma) * sixth
             rgb == Sector(h \div sixth, chroma * sixth, second)
             level(x) == Clamped(RoundDiv((2 * x + base) * 255, 2 * c.whole * c.whole * sixth), 0, 255)
  <1>1. hsl_to_rgb(c) = [i \in 1 .. 3 |-> level(rgb[i])]
    BY DEF hsl_to_rgb
  <1>2. c.turn = 24 /\ c.whole = 10 /\ c.hue = 0 /\ c.saturation = 0 /\ c.lightness = 4
    BY DEF Grey
  <1> HIDE DEF c
  <1>3. sixth = 4 /\ h = 0 /\ s = 0 /\ l = 4
    BY <1>2 DEF Clamped, AtLeast, AtMost
  <1>4. 2 * c.whole * c.whole * sixth = 800
    BY <1>2, <1>3
  <1>5. chroma = 0
    BY <1>2, <1>3 DEF AbsOf
  <1> HIDE DEF chroma
  <1>6. base = 320
    BY <1>2, <1>3, <1>5
  <1>7. second = 0
    BY <1>3, <1>5 DEF AbsOf
  <1>8. rgb = <<0, 0, 0>> \/ rgb[1] = 0
    BY <1>3, <1>5, <1>7 DEF Sector
  <1> HIDE DEF rgb, base
  <1>9. rgb[1] = 0
    BY <1>8
  <1>10. level(0) = 102
    BY <1>4, <1>6 DEF RoundDiv, Clamped, AtLeast, AtMost
  <1> HIDE DEF level
  <1>11. hsl_to_rgb(c)[1] = level(rgb[1])
    BY <1>1
  <1> QED BY <1>9, <1>10, <1>11 DEF c

\* The rows and the columns of the softened bar, in the kernel's weights.
Column(x) == IF x = 1 \/ x = 2 THEN 3 ELSE 1
\* How much of the bar the softening finds above and below a row.
Row(y) == IF y = 0 \/ y = 6 THEN 1 ELSE IF y = 1 \/ y = 5 THEN 3 ELSE 4

\* The bar as the softening spreads it.
Halo == blur(Bar, Smear)

\* The spread bar is the product of what is found along a row and along a column.
LEMMA HaloIs ==
  /\ Halo.left = -1 /\ Halo.top = -1 /\ Halo.width = 4 /\ Halo.height = 7
  /\ DOMAIN Halo.coverage = Box(4, 7)
  /\ \A p \in Box(4, 7) : Halo.coverage[p] = Column(p[1]) * Row(p[2])
  <1> DEFINE r == Len(Smear) \div 2
             width == Bar.width + 2 * r
             height == BlurHeight(Bar.height, r)
             horizontal == [p \in Box(width, Bar.height) |->
                              Weigh(Smear, [i \in -r .. r |-> at(Bar, p[1] - r + i, p[2])])]
             cover == [p \in Box(width, height) |->
                         Weigh(Smear, [i \in -r .. r |->
                                          IF p[2] - r + i \in 0 .. Bar.height - 1
                                          THEN horizontal[<<p[1], p[2] - r + i>>] ELSE 0])]
  <1>1. Halo = [width |-> width, height |-> height, left |-> Bar.left - r, top |-> Bar.top - r,
                coverage |-> cover]
    BY DEF Halo, blur
  <1>2. r = 1
    BY DEF Smear
  <1> HIDE DEF r
  <1>3. Bar.width = 2 /\ Bar.height = 5 /\ Bar.left = 0 /\ Bar.top = 0
    BY DEF Bar
  <1>4. width = 4 /\ height = 7 /\ Bar.left - r = -1 /\ Bar.top - r = -1
    BY <1>2, <1>3 DEF BlurHeight
  <1> HIDE DEF width, height
  <1>5. ASSUME NEW x \in 0 .. 3, NEW y \in 0 .. 4
        PROVE  horizontal[<<x, y>>] = Column(x)
    <2> DEFINE tap == [i \in -r .. r |-> at(Bar, x - r + i, y)]
    <2>1. horizontal[<<x, y>>] = Weigh(Smear, tap)
      <3>1. <<x, y>> \in Box(width, Bar.height)
        BY <1>3, <1>4 DEF Box
      <3> QED BY <3>1
    <2>2. tap[-1] = at(Bar, x - 2, y) /\ tap[0] = at(Bar, x - 1, y) /\ tap[1] = at(Bar, x, y)
      <3>1. -1 \in -r .. r /\ 0 \in -r .. r /\ 1 \in -r .. r
        BY <1>2
      <3>2. x - r + -1 = x - 2 /\ x - r + 0 = x - 1 /\ x - r + 1 = x
        BY <1>2
      <3> QED BY <3>1, <3>2
    <2>3. /\ at(Bar, x - 2, y) = IF x \in 2 .. 3 THEN 1 ELSE 0
          /\ at(Bar, x - 1, y) = IF x \in 1 .. 2 THEN 1 ELSE 0
          /\ at(Bar, x, y) = IF x \in 0 .. 1 THEN 1 ELSE 0
      BY BarAt
    <2> HIDE DEF tap, horizontal
    <2>4. tap[-1] \in Int /\ tap[0] \in Int /\ tap[1] \in Int
      BY <2>2, <2>3
    <2>5. Weigh(Smear, tap) = tap[-1] + 2 * tap[0] + tap[1]
      BY <2>4, WeighThree
    <2>6. tap[-1] + 2 * tap[0] + tap[1] = Column(x)
      BY <2>2, <2>3 DEF Column
    <2> QED BY <2>1, <2>5, <2>6
  <1> HIDE DEF horizontal
  <1>6. ASSUME NEW x \in 0 .. 3, NEW y \in 0 .. 6
        PROVE  cover[<<x, y>>] = Column(x) * Row(y)
    <2> DEFINE tap == [i \in -r .. r |-> IF y - r + i \in 0 .. Bar.height - 1
                                         THEN horizontal[<<x, y - r + i>>] ELSE 0]
               c == Column(x)
    <2>1. cover[<<x, y>>] = Weigh(Smear, tap)
      <3>1. <<x, y>> \in Box(width, height)
        BY <1>4 DEF Box
      <3> QED BY <3>1
    <2>2. /\ tap[-1] = IF y \in 2 .. 6 THEN c ELSE 0
          /\ tap[0] = IF y \in 1 .. 5 THEN c ELSE 0
          /\ tap[1] = IF y \in 0 .. 4 THEN c ELSE 0
      <3>1. /\ tap[-1] = IF y - 2 \in 0 .. 4 THEN horizontal[<<x, y - 2>>] ELSE 0
            /\ tap[0] = IF y - 1 \in 0 .. 4 THEN horizontal[<<x, y - 1>>] ELSE 0
            /\ tap[1] = IF y \in 0 .. 4 THEN horizontal[<<x, y>>] ELSE 0
        <4>1. -1 \in -r .. r /\ 0 \in -r .. r /\ 1 \in -r .. r /\ Bar.height - 1 = 4
          BY <1>2, <1>3
        <4>2. y - r + -1 = y - 2 /\ y - r + 0 = y - 1 /\ y - r + 1 = y
          BY <1>2
        <4> QED BY <4>1, <4>2
      <3> HIDE DEF tap, c
      <3>2. /\ y - 2 \in 0 .. 4 => horizontal[<<x, y - 2>>] = c
            /\ y - 1 \in 0 .. 4 => horizontal[<<x, y - 1>>] = c
            /\ y \in 0 .. 4 => horizontal[<<x, y>>] = c
        BY <1>5 DEF c
      <3> QED BY <3>1, <3>2
    <2>3. c \in Int
      BY DEF Column
    <2> HIDE DEF tap, c
    <2>4. Weigh(Smear, tap) = tap[-1] + 2 * tap[0] + tap[1]
      <3>1. tap[-1] \in Int /\ tap[0] \in Int /\ tap[1] \in Int
        BY <2>2, <2>3
      <3> QED BY <3>1, WeighThree
    <2>5. tap[-1] + 2 * tap[0] + tap[1] = c * Row(y)
      <3>1. CASE y = 0 \/ y = 6
        BY <2>2, <2>3, <3>1 DEF Row
      <3>2. CASE y = 1 \/ y = 5
        BY <2>2, <2>3, <3>2 DEF Row
      <3>3. CASE y \in 2 .. 4
        BY <2>2, <2>3, <3>3 DEF Row
      <3> QED BY <3>1, <3>2, <3>3
    <2> QED BY <2>1, <2>4, <2>5 DEF c
  <1>7. ASSUME NEW p \in Box(4, 7) PROVE cover[p] = Column(p[1]) * Row(p[2])
    <2> DEFINE x == p[1]  y == p[2]
    <2>1. x \in 0 .. 3 /\ y \in 0 .. 6 /\ p = <<x, y>>
      BY DEF Box
    <2> HIDE DEF cover, x, y
    <2>2. cover[<<x, y>>] = Column(x) * Row(y)
      BY <1>6, <2>1
    <2> QED BY <2>1, <2>2 DEF x, y
  <1>8. DOMAIN cover = Box(4, 7)
    BY <1>4
  <1> HIDE DEF cover
  <1> QED BY <1>1, <1>4, <1>7, <1>8

\* All of the halo can move a pixel.
LEMMA HaloRegion == Region(Halo, 16) = [x0 |-> 0, x1 |-> 4, y0 |-> 0, y1 |-> 7]
  <1> DEFINE seen == {p \in DOMAIN Halo.coverage : Halo.coverage[p] * BLUR_SPILL_GAIN * 512 > 16}
             xs == {p[1] : p \in seen}
             ys == {p[2] : p \in seen}
  <1>1. seen = Box(4, 7)
    <2>1. ASSUME NEW p \in Box(4, 7) PROVE Halo.coverage[p] * BLUR_SPILL_GAIN * 512 > 16
      <3> DEFINE v == Column(p[1]) * Row(p[2])
      <3>1. v \in Nat /\ v >= 1
        BY DEF Column, Row
      <3>2. Halo.coverage[p] = v
        BY HaloIs
      <3> HIDE DEF v
      <3> QED BY <3>1, <3>2 DEF BLUR_SPILL_GAIN
    <2> QED BY <2>1, HaloIs
  <1> HIDE DEF seen
  <1>2. xs = 0 .. 3 /\ ys = 0 .. 6
    <2>1. \A x \in 0 .. 3, y \in 0 .. 6 : <<x, y>> \in seen
      BY <1>1 DEF Box
    <2>2. \A p \in seen : p[1] \in 0 .. 3 /\ p[2] \in 0 .. 6
      BY <1>1 DEF Box
    <2>3. ASSUME NEW x \in 0 .. 3 PROVE x \in xs
      <3> DEFINE p == <<x, 0>>
      <3>1. p \in seen
        BY <2>1
      <3>2. p[1] = x
        OBVIOUS
      <3> HIDE DEF p
      <3> QED BY <3>1, <3>2
    <2>4. ASSUME NEW y \in 0 .. 6 PROVE y \in ys
      <3> DEFINE p == <<0, y>>
      <3>1. p \in seen
        BY <2>1
      <3>2. p[2] = y
        OBVIOUS
      <3> HIDE DEF p
      <3> QED BY <3>1, <3>2
    <2> QED BY <2>2, <2>3, <2>4
  <1>3. seen # {}
    <2>1. <<0, 0>> \in seen
      BY <1>1 DEF Box
    <2> QED BY <2>1
  <1> HIDE DEF xs, ys
  <1> DEFINE least(s) == CHOOSE m \in s : \A n \in s : m <= n
             most(s) == CHOOSE m \in s : \A n \in s : m >= n
  <1>4. Region(Halo, 16) = [x0 |-> least(xs), x1 |-> most(xs) + 1, y0 |-> least(ys), y1 |-> most(ys) + 1]
    BY <1>3 DEF Region, seen, xs, ys
  <1>5. ASSUME NEW n \in Nat
        PROVE  least(0 .. n) = 0 /\ most(0 .. n) = n
    <2>1. 0 \in 0 .. n /\ \A k \in 0 .. n : 0 <= k
      OBVIOUS
    <2>2. n \in 0 .. n /\ \A k \in 0 .. n : n >= k
      OBVIOUS
    <2>3. least(0 .. n) \in 0 .. n /\ \A k \in 0 .. n : least(0 .. n) <= k
      BY <2>1
    <2>4. most(0 .. n) \in 0 .. n /\ \A k \in 0 .. n : most(0 .. n) >= k
      BY <2>2
    <2> HIDE DEF least, most
    <2> QED BY <2>1, <2>2, <2>3, <2>4
  <1> HIDE DEF least, most
  <1>6. least(xs) = 0 /\ most(xs) = 3 /\ least(ys) = 0 /\ most(ys) = 6
    BY <1>2, <1>5
  <1> QED BY <1>4, <1>6

\* The bar painted on the ground, hard, that far from it.
Hard(gap) == composite_mask_gradient(Ground, Bar, 3 + gap, 0, Grey, Grey, 1, 0, 1, 1)

\* The canvas with the bar painted on it, by column.
HardAt(x, gap) == IF x = 3 + gap \/ x = 4 + gap THEN 102 ELSE IF x <= 2 THEN 40 ELSE 240

\* A gradient between a colour and itself is that colour.
LEMMA GreyStays ==
  ASSUME NEW t \in Int
  PROVE  lerp(Grey, Grey, t, 1) = Grey
  <1>1. /\ Grey.hue = 0 /\ Grey.saturation = 0 /\ Grey.lightness = 4 /\ Grey.turn = 24
        /\ Grey.whole = 10
    BY DEF Grey
  <1>2. Arc(0, 0, 24) = 0
    BY DEF Arc
  <1>3. (Grey.hue * 1 + Arc(Grey.hue, Grey.hue, Grey.turn) * t) % (Grey.turn * 1) = 0
    <2> DEFINE a == Arc(Grey.hue, Grey.hue, Grey.turn)
    <2>1. a = 0
      BY <1>1, <1>2
    <2> HIDE DEF a
    <2>2. a * t = 0
      BY <2>1
    <2>3. Grey.hue * 1 + a * t = 0 /\ Grey.turn * 1 = 24
      BY <1>1, <2>2
    <2> QED BY <2>3 DEF a
  <1>4. /\ Grey.saturation * 1 + (Grey.saturation - Grey.saturation) * t = 0
        /\ Grey.lightness * 1 + (Grey.lightness - Grey.lightness) * t = 4
        /\ Grey.turn * 1 = 24 /\ Grey.whole * 1 = 10
    BY <1>1
  <1> DEFINE h == (Grey.hue * 1 + Arc(Grey.hue, Grey.hue, Grey.turn) * t) % (Grey.turn * 1)
             s == Grey.saturation * 1 + (Grey.saturation - Grey.saturation) * t
             l == Grey.lightness * 1 + (Grey.lightness - Grey.lightness) * t
             n == Grey.turn * 1
             w == Grey.whole * 1
  <1>5. lerp(Grey, Grey, t, 1) = [hue |-> h, saturation |-> s, lightness |-> l, turn |-> n, whole |-> w]
    BY DEF lerp
  <1>6. h = 0 /\ s = 0 /\ l = 4 /\ n = 24 /\ w = 10
    BY <1>3, <1>4
  <1> HIDE DEF h, s, l, n, w
  <1>7. [hue |-> h, saturation |-> s, lightness |-> l, turn |-> n, whole |-> w] = Grey
    BY <1>6 DEF Grey
  <1> QED BY <1>5, <1>7

\* The bar painted hard.
LEMMA HardIs ==
  ASSUME NEW gap \in Nat
  PROVE  /\ DOMAIN Hard(gap) = Box(9, 5)
         /\ \A x \in 0 .. 8, y \in 0 .. 4 : Hard(gap)[<<x, y>>] = HardAt(x, gap)
  <1> DEFINE ramp == across(Bar.width, Bar.height, 1, 0)
             shades == [q \in DOMAIN Bar.coverage |->
                          hsl_to_rgb(lerp(Grey, Grey, RampAt(ramp, q), AtLeast(ramp.span, 1)))[1]]
             left == 3 + gap
             gv(q) == AtMost(at(Bar, q[1], q[2]), 1)
             made == [p \in DOMAIN Ground |->
                        IF gv(Under(Bar, left, 0, p)) <= 0 THEN Ground[p]
                        ELSE weighted_sum(Ground[p], shades[Under(Bar, left, 0, p)],
                                          gv(Under(Bar, left, 0, p)), 1)]
  <1>1. Hard(gap) = made
    BY DEF Hard, composite_mask_gradient, composite_shaded
  <1>2. Bar.width = 2 /\ Bar.height = 5 /\ Bar.left = 0 /\ Bar.top = 0 /\ DOMAIN Bar.coverage = Box(2, 5)
    BY DEF Bar
  <1>3. ASSUME NEW q \in Box(2, 5) PROVE shades[q] = 102
    <2>1. /\ ramp.span = 1 /\ ramp.cos = 1 /\ ramp.sin = 0 /\ ramp.origin = 0
      BY <1>2 DEF across, AtLeast, AtMost, AbsOf
    <2> HIDE DEF ramp
    <2>2. q[1] \in 0 .. 1 /\ q[2] \in 0 .. 4
      BY DEF Box
    <2> DEFINE t == RampAt(ramp, q)
               one == AtLeast(ramp.span, 1)
    <2>3. t \in Int
      BY <2>1, <2>2 DEF RampAt, Clamped, AtLeast, AtMost
    <2>4. one = 1
      BY <2>1 DEF AtLeast
    <2>5. shades[q] = hsl_to_rgb(lerp(Grey, Grey, t, one))[1]
      BY <1>2
    <2> HIDE DEF shades, t, one
    <2>6. lerp(Grey, Grey, t, one) = Grey
      BY <2>3, <2>4, GreyStays
    <2> QED BY <2>5, <2>6, GreyIs
  <1> HIDE DEF shades
  <1>4. DOMAIN Ground = Box(9, 5) /\ \A p \in Box(9, 5) : Ground[p] = IF p[1] <= 2 THEN 40 ELSE 240
    BY DEF Ground
  <1>5. ASSUME NEW x \in 0 .. 8, NEW y \in 0 .. 4
        PROVE  made[<<x, y>>] = HardAt(x, gap)
    <2> DEFINE p == <<x, y>>
               q == <<x - left, y>>
               g == AtMost(at(Bar, x - left, y), 1)
    <2>1. p \in Box(9, 5)
      BY DEF Box
    <2>2. Under(Bar, left, 0, p) = q
      <3>1. p[1] - left - 0 = x - left /\ p[2] - 0 - 0 = y
        OBVIOUS
      <3> QED BY <1>2, <3>1 DEF Under
    <2>3. gv(q) = g
      OBVIOUS
    <2> HIDE DEF gv
    <2>4. made[p] = IF g <= 0 THEN Ground[p] ELSE weighted_sum(Ground[p], shades[q], g, 1)
      BY <1>4, <2>1, <2>2, <2>3
    <2>5. g = IF x - left \in 0 .. 1 THEN 1 ELSE 0
      BY BarAt DEF AtMost
    <2>6. Ground[p] = IF x <= 2 THEN 40 ELSE 240
      BY <1>4, <2>1
    <2> DEFINE under == Ground[p]
               made_ == made[p]
               shade == shades[q]
    <2> HIDE DEF g, under, made_, shade, p
    <2>7. CASE x - left \in 0 .. 1
      <3>1. q \in Box(2, 5)
        BY <2>7 DEF Box
      <3>2. shade = 102
        BY <1>3, <3>1 DEF shade
      <3>3. under \in Int /\ g = 1
        BY <2>5, <2>6, <2>7 DEF under
      <3>4. weighted_sum(under, shade, g, 1) = 102
        BY <3>2, <3>3 DEF weighted_sum, clamp_u8, Clamped, AtLeast, AtMost
      <3>5. made_ = 102
        BY <2>4, <3>3, <3>4 DEF made_, under, shade
      <3> QED BY <2>7, <3>5 DEF HardAt, made_, p
    <2>8. CASE ~(x - left \in 0 .. 1)
      <3>1. made_ = under
        BY <2>4, <2>5, <2>8 DEF made_, under
      <3>2. ~(x = 3 + gap \/ x = 4 + gap)
        BY <2>8
      <3> QED BY <2>6, <3>1, <3>2 DEF HardAt, made_, under, p
    <2> QED BY <2>7, <2>8
  <1>6. DOMAIN made = Box(9, 5)
    BY <1>4
  <1> HIDE DEF made
  <1> QED BY <1>1, <1>5, <1>6

\* The same, softened.
Soft(gap) == blur_over_mask(Hard(gap), 9, 5, Bar, 3 + gap, 0, Smear, 1)

\* A mask in full weighs the square of the kernel's sum.
LEMMA SmearWeighs == Weigh(Smear, [i \in -1 .. 1 |-> 1]) ^ 2 = 16
  <1> DEFINE tap == [i \in -1 .. 1 |-> 1]
  <1>1. tap[-1] = 1 /\ tap[0] = 1 /\ tap[1] = 1
    OBVIOUS
  <1> HIDE DEF tap
  <1>2. tap[-1] \in Int /\ tap[0] \in Int /\ tap[1] \in Int
    BY <1>1
  <1>3. Weigh(Smear, tap) = tap[-1] + 2 * tap[0] + tap[1]
    BY <1>2, WeighThree
  <1>4. Weigh(Smear, tap) = 4
    BY <1>1, <1>3
  <1> DEFINE w == Weigh(Smear, tap)
  <1>5. w = 4
    BY <1>4
  <1> HIDE DEF w
  <1>6. w ^ 2 = 16
    BY <1>5
  <1> QED BY <1>6 DEF w, tap

\* The region a softened bar is blurred in, and the pixels it is blurred from.
Across(x, y, gap) ==
  HardAt(Clamped(x - 1, 0, 8), gap) + 2 * HardAt(x, gap) + HardAt(Clamped(x + 1, 0, 8), gap)

\* How much of a pixel the softening takes from its row.
Share(x, y, gap) == AtMost(Column(x - 2 - gap) * Row(y + 1) * 3, 16)

\* A softened pixel.
SoftAt(x, y, gap) ==
  (HardAt(x, gap) * 16 * (16 - Share(x, y, gap)) + 4 * Across(x, y, gap) * Share(x, y, gap)) \div 256

\* A painted pixel is a level.
LEMMA HardInt ==
  ASSUME NEW x, NEW gap
  PROVE  HardAt(x, gap) \in 40 .. 240
  BY DEF HardAt

\* The softening touches nothing left of the spread bar, and mixes what is in it.
LEMMA SoftIs ==
  ASSUME NEW gap \in Nat
  PROVE  /\ \A x \in 0 .. 8, y \in 0 .. 4 :
              x < 2 + gap => Soft(gap)[<<x, y>>] = HardAt(x, gap)
         /\ gap <= 3 => \A x \in 2 + gap .. 5 + gap, y \in 0 .. 4 :
              Soft(gap)[<<x, y>>] = Clamped(SoftAt(x, y, gap), 0, 255)
  <1> DEFINE canvas == Hard(gap)
             r == Len(Smear) \div 2
             total == Weigh(Smear, [i \in -r .. r |-> 1]) ^ 2
             weight == blur(Bar, Smear)
             left == (3 + gap) + weight.left
             top == 0 + weight.top
             cut == Region(weight, 1 * total)
             x0 == AtLeast(left + cut.x0, 0)
             x1 == AtMost(left + cut.x1, 9)
             y0 == AtLeast(top + cut.y0, 0)
             y1 == AtMost(top + cut.y1, 5)
             rows == Rows(y0, y1, r, 5)
             horizontal == [p \in (x0 .. x1 - 1) \X (rows.from .. rows.to - 1) |->
                              Weigh(Smear, [i \in -r .. r |->
                                              canvas[<<Clamped(p[1] + i, 0, 9 - 1), p[2]>>]])]
             blurred(p) == Weigh(Smear, [i \in -r .. r |->
                             horizontal[<<p[1], Clamped(p[2] + i, rows.from, rows.to - 1)>>]])
             share(p) == AtMost(at(weight, p[1] - left, p[2] - top) * BLUR_SPILL_GAIN, 1 * total)
             made == [p \in DOMAIN canvas |->
                        IF p[1] \in x0 .. x1 - 1 /\ p[2] \in y0 .. y1 - 1 /\ share(p) > 0
                        THEN clamp_u8(canvas[p] * total * (1 * total - share(p)) + blurred(p) * share(p),
                                      1 * total * total)
                        ELSE canvas[p]]
  <1>1. Soft(gap) = made
    BY DEF Soft, blur_over_mask
  <1>2. r = 1
    BY DEF Smear
  <1> HIDE DEF r
  <1>3. total = 16 /\ 1 * total = 16
    <2>1. total = 16
      BY <1>2, SmearWeighs
    <2> HIDE DEF total
    <2> QED BY <2>1
  <1> HIDE DEF total
  <1>4. weight = Halo
    BY DEF Halo
  <1> HIDE DEF weight
  <1>5. left = 2 + gap /\ top = -1
    BY <1>4, HaloIs
  <1> HIDE DEF left, top
  <1>6. cut.x0 = 0 /\ cut.x1 = 4 /\ cut.y0 = 0 /\ cut.y1 = 7
    BY <1>3, <1>4, HaloRegion
  <1> HIDE DEF cut
  <1>7. x0 = 2 + gap /\ (gap <= 3 => x1 = 6 + gap) /\ y0 = 0 /\ y1 = 5
    BY <1>5, <1>6 DEF AtLeast, AtMost
  <1> HIDE DEF x0, x1, y0, y1
  <1>8. rows.from = 0 /\ rows.to = 5
    BY <1>2, <1>7 DEF Rows, AtLeast, AtMost
  <1> HIDE DEF rows
  <1>9. DOMAIN canvas = Box(9, 5) /\ \A x \in 0 .. 8, y \in 0 .. 4 : canvas[<<x, y>>] = HardAt(x, gap)
    BY HardIs
  <1> HIDE DEF canvas
  <1>10. \A p \in Box(9, 5) : made[p] =
           IF p[1] \in x0 .. x1 - 1 /\ p[2] \in y0 .. y1 - 1 /\ share(p) > 0
           THEN clamp_u8(canvas[p] * total * (1 * total - share(p)) + blurred(p) * share(p),
                         1 * total * total)
           ELSE canvas[p]
    <2> HIDE DEF share, blurred
    <2> QED BY <1>9
  <1>11. ASSUME NEW x \in 0 .. 8, NEW y \in 0 .. 4, x < 2 + gap
         PROVE  made[<<x, y>>] = HardAt(x, gap)
    <2> DEFINE p == <<x, y>>
    <2>1. p \in Box(9, 5) /\ p[1] = x
      BY DEF Box
    <2>2. ~(p[1] \in x0 .. x1 - 1)
      BY <1>7, <1>11, <2>1
    <2> HIDE DEF made, share, blurred
    <2>3. made[p] = canvas[p]
      BY <1>10, <2>1, <2>2
    <2> QED BY <1>9, <2>3
  <1>12. ASSUME gap <= 3, NEW x \in 2 + gap .. 5 + gap, NEW y \in 0 .. 4
         PROVE  made[<<x, y>>] = Clamped(SoftAt(x, y, gap), 0, 255)
    <2>0. x \in 0 .. 8
      BY <1>12
    <2>1. ASSUME NEW z \in 0 .. 4 PROVE horizontal[<<x, z>>] = Across(x, y, gap)
      <3> DEFINE tap == [i \in -r .. r |-> canvas[<<Clamped(x + i, 0, 9 - 1), z>>]]
                 before == Clamped(x - 1, 0, 8)
                 after == Clamped(x + 1, 0, 8)
      <3>1. horizontal[<<x, z>>] = Weigh(Smear, tap)
        <4>1. <<x, z>> \in (x0 .. x1 - 1) \X (rows.from .. rows.to - 1)
          BY <1>7, <1>8, <1>12
        <4> QED BY <4>1
      <3>2. before \in 0 .. 8 /\ after \in 0 .. 8
        BY <2>0 DEF Clamped, AtLeast, AtMost
      <3>3. tap[-1] = canvas[<<before, z>>] /\ tap[0] = canvas[<<x, z>>] /\ tap[1] = canvas[<<after, z>>]
        <4>1. -1 \in -r .. r /\ 0 \in -r .. r /\ 1 \in -r .. r
          BY <1>2
        <4>2. /\ Clamped(x + -1, 0, 9 - 1) = before /\ Clamped(x + 0, 0, 9 - 1) = x
              /\ Clamped(x + 1, 0, 9 - 1) = after
          BY <2>0 DEF Clamped, AtLeast, AtMost
        <4> HIDE DEF before, after
        <4> QED BY <4>1, <4>2
      <3> HIDE DEF tap, horizontal, before, after
      <3>4. tap[-1] = HardAt(before, gap) /\ tap[0] = HardAt(x, gap) /\ tap[1] = HardAt(after, gap)
        BY <1>9, <2>0, <3>2, <3>3
      <3>5. tap[-1] \in Int /\ tap[0] \in Int /\ tap[1] \in Int
        BY <3>4, HardInt
      <3>6. Weigh(Smear, tap) = tap[-1] + 2 * tap[0] + tap[1]
        BY <3>5, WeighThree
      <3> QED BY <3>1, <3>4, <3>6 DEF Across, before, after
    <2> DEFINE p == <<x, y>>
               wide == Across(x, y, gap)
               part == Share(x, y, gap)
               was == HardAt(x, gap)
    <2>2. wide \in Int /\ was \in Int
      <3>1. \A z : HardAt(z, gap) \in Int
        BY HardInt
      <3>2. /\ HardAt(Clamped(x - 1, 0, 8), gap) \in Int /\ HardAt(x, gap) \in Int
            /\ HardAt(Clamped(x + 1, 0, 8), gap) \in Int
        BY <3>1
      <3> DEFINE a == HardAt(Clamped(x - 1, 0, 8), gap)
                 b == HardAt(x, gap)
                 c == HardAt(Clamped(x + 1, 0, 8), gap)
      <3> HIDE DEF a, b, c
      <3>3. a + 2 * b + c \in Int
        BY <3>2 DEF a, b, c
      <3> QED BY <3>2, <3>3 DEF Across, a, b, c
    <2>3. blurred(p) = 4 * wide
      <3> DEFINE tap == [i \in -r .. r |-> horizontal[<<x, Clamped(y + i, rows.from, rows.to - 1)>>]]
                 above == Clamped(y - 1, 0, 4)
                 below == Clamped(y + 1, 0, 4)
      <3>1. blurred(p) = Weigh(Smear, tap)
        <4> HIDE DEF horizontal
        <4> QED OBVIOUS
      <3>2. above \in 0 .. 4 /\ below \in 0 .. 4
        BY DEF Clamped, AtLeast, AtMost
      <3> HIDE DEF horizontal, wide
      <3>3. /\ tap[-1] = horizontal[<<x, above>>] /\ tap[0] = horizontal[<<x, y>>]
            /\ tap[1] = horizontal[<<x, below>>]
        <4>1. -1 \in -r .. r /\ 0 \in -r .. r /\ 1 \in -r .. r
          BY <1>2
        <4>2. /\ Clamped(y + -1, rows.from, rows.to - 1) = above
              /\ Clamped(y + 0, rows.from, rows.to - 1) = y
              /\ Clamped(y + 1, rows.from, rows.to - 1) = below
          BY <1>8 DEF Clamped, AtLeast, AtMost
        <4> HIDE DEF above, below
        <4> QED BY <4>1, <4>2
      <3> HIDE DEF tap, above, below, blurred
      <3>4. tap[-1] = wide /\ tap[0] = wide /\ tap[1] = wide
        BY <2>1, <3>2, <3>3 DEF wide
      <3>5. tap[-1] \in Int /\ tap[0] \in Int /\ tap[1] \in Int
        BY <2>2, <3>4
      <3>6. Weigh(Smear, tap) = tap[-1] + 2 * tap[0] + tap[1]
        BY <3>5, WeighThree
      <3> QED BY <2>2, <3>1, <3>4, <3>6
    <2>4. share(p) = part /\ part \in 1 .. 16
      <3> DEFINE a == x - left
                 b == y - top
                 v == Column(a) * Row(b)
      <3>1. a = x - 2 - gap /\ b = y + 1 /\ a \in 0 .. 3 /\ b \in 0 .. 6
        BY <1>5, <1>12
      <3>2. at(weight, a, b) = v
        <4>1. <<a, b>> \in Box(4, 7)
          BY <3>1 DEF Box
        <4>2. weight.width = 4 /\ weight.height = 7
          BY <1>4, HaloIs
        <4> HIDE DEF a, b
        <4>3. at(weight, a, b) = weight.coverage[<<a, b>>]
          BY <3>1, <4>2 DEF at
        <4>4. weight.coverage[<<a, b>>] = Column(a) * Row(b)
          <5> DEFINE q == <<a, b>>
          <5>1. q \in Box(4, 7) /\ q[1] = a /\ q[2] = b
            BY <4>1
          <5> HIDE DEF q
          <5>2. weight.coverage[q] = Column(a) * Row(b)
            BY <1>4, <5>1, HaloIs
          <5> QED BY <5>2 DEF q
        <4> QED BY <4>3, <4>4
      <3>3. share(p) = AtMost(v * 3, 16)
        <4>1. share(p) = AtMost(at(weight, a, b) * BLUR_SPILL_GAIN, 16)
          BY <1>3
        <4> HIDE DEF share, v
        <4> QED BY <3>2, <4>1 DEF BLUR_SPILL_GAIN
      <3>4. v \in Nat /\ v >= 1
        BY DEF Column, Row
      <3>5. part = AtMost(v * 3, 16)
        BY <3>1 DEF Share
      <3> HIDE DEF v, share, part
      <3> QED BY <3>3, <3>4, <3>5 DEF AtMost
    <2> DEFINE sh == share(p)
               bl == blurred(p)
               mine == made[p]
    <2>5. mine = clamp_u8(was * 16 * (16 - sh) + bl * sh, 256)
      <3>1. p \in Box(9, 5) /\ p[1] = x /\ p[2] = y
        BY <2>0 DEF Box
      <3>2. p[1] \in x0 .. x1 - 1 /\ p[2] \in y0 .. y1 - 1
        BY <1>7, <1>12, <3>1
      <3>3. canvas[p] = was
        BY <1>9, <2>0
      <3> HIDE DEF share, blurred, made, was, part, p
      <3>4. sh > 0
        BY <2>4
      <3>5. mine = clamp_u8(canvas[p] * total * (1 * total - sh) + bl * sh, 1 * total * total)
        BY <1>10, <3>1, <3>2, <3>4
      <3>6. 1 * total * total = 256
        BY <1>3
      <3> HIDE DEF sh, bl, mine
      <3> QED BY <1>3, <3>3, <3>5, <3>6
    <2> HIDE DEF share, blurred, made, was, wide, part, p, mine, sh, bl
    <2>6. sh = part /\ bl = 4 * wide
      BY <2>3, <2>4 DEF sh, bl
    <2>7. mine = Clamped((was * 16 * (16 - part) + 4 * wide * part) \div 256, 0, 255)
      BY <2>5, <2>6 DEF clamp_u8
    <2> QED BY <2>7 DEF SoftAt, mine, p, was, wide, part
  <1> HIDE DEF made
  <1> QED BY <1>1, <1>11, <1>12

\* SoftLettersMix, whatever the gap (Shading::paint).
LEMMA SoftLettersDoMix ==
  Given_("neighbour") /\ input.gap \in Nat /\ input.soft \in BOOLEAN => SoftLettersMix
  <1> SUFFICES ASSUME input.gap \in Nat, input.soft \in BOOLEAN PROVE SoftLettersMix
    OBVIOUS
  <1> DEFINE gap == input.gap
             soft == input.soft
             kernel == IF soft THEN <<1, 2, 1>> ELSE <<>>
             painted == paint(Ground, 9, 5, Bar, 3 + gap, 0, Grey, Grey, 1, 0, kernel, 1, 1)
             hard == paint(Ground, 9, 5, Bar, 3 + gap, 0, Grey, Grey, 1, 0, <<>>, 1, 1)
  <1>1. hard = Hard(gap) /\ (~soft => painted = Hard(gap)) /\ (soft => painted = Soft(gap))
    <2> DEFINE first == composite_mask_gradient(Ground, Bar, 3 + gap, 0, Grey, Grey, 1, 0, 1, 1)
               none == <<>>
    <2>1. first = Hard(gap)
      BY DEF Hard
    <2>2. hard = first
      BY DEF paint
    <2>3. ~soft => painted = first
      BY DEF paint
    <2>4. soft => painted = blur_over_mask(first, 9, 5, Bar, 3 + gap, 0, <<1, 2, 1>>, 1)
      <3>1. <<1, 2, 1>> # << >>
        OBVIOUS
      <3> QED BY <3>1 DEF paint
    <2>5. soft => painted = Soft(gap)
      <3> HIDE DEF painted
      <3> QED BY <2>1, <2>4 DEF Soft, Smear
    <2> QED BY <2>1, <2>2, <2>3, <2>5
  <1>2. gap \in Nat /\ soft \in BOOLEAN
    OBVIOUS
  <1> HIDE DEF gap, soft, painted, hard
  <1>3. Hard(gap)[<<2, 2>>] = 40 /\ (gap = 0 => Hard(gap)[<<3, 2>>] = 102)
    <2>1. Hard(gap)[<<2, 2>>] = HardAt(2, gap) /\ Hard(gap)[<<3, 2>>] = HardAt(3, gap)
      BY <1>2, HardIs
    <2>2. HardAt(2, gap) = 40 /\ (gap = 0 => HardAt(3, gap) = 102)
      BY <1>2 DEF HardAt
    <2> QED BY <2>1, <2>2
  <1>4. gap > 1 => Soft(gap)[<<2, 2>>] = 40
    <2>1. gap > 1 => Soft(gap)[<<2, 2>>] = HardAt(2, gap)
      BY <1>2, SoftIs
    <2>2. HardAt(2, gap) = 40
      BY <1>2 DEF HardAt
    <2> QED BY <2>1, <2>2
  <1>5. gap = 0 => Soft(gap)[<<2, 2>>] = 51 /\ Soft(gap)[<<3, 2>>] = 86
    <2>1. Soft(0)[<<2, 2>>] = Clamped(SoftAt(2, 2, 0), 0, 255)
          /\ Soft(0)[<<3, 2>>] = Clamped(SoftAt(3, 2, 0), 0, 255)
      <3>1. \A x \in 2 + 0 .. 5 + 0, y \in 0 .. 4 :
              Soft(0)[<<x, y>>] = Clamped(SoftAt(x, y, 0), 0, 255)
        <4>1. 0 \in Nat /\ 0 <= 3
          OBVIOUS
        <4> QED BY <4>1, SoftIs
      <3>2. 2 \in 2 + 0 .. 5 + 0 /\ 3 \in 2 + 0 .. 5 + 0 /\ 2 \in 0 .. 4
        OBVIOUS
      <3> QED BY <3>1, <3>2
    <2>2. HardAt(1, 0) = 40 /\ HardAt(2, 0) = 40 /\ HardAt(3, 0) = 102 /\ HardAt(4, 0) = 102
      BY DEF HardAt
    <2>3. Across(2, 2, 0) = 222 /\ Across(3, 2, 0) = 346
      BY <2>2 DEF Across, Clamped, AtLeast, AtMost
    <2>4. Share(2, 2, 0) = 12 /\ Share(3, 2, 0) = 16
      BY DEF Share, Column, Row, AtMost
    <2>5. SoftAt(2, 2, 0) = 51 /\ SoftAt(3, 2, 0) = 86
      BY <2>2, <2>3, <2>4 DEF SoftAt
    <2> QED BY <2>1, <2>5 DEF Clamped, AtLeast, AtMost
  <1>6. /\ ~soft => painted[<<2, 2>>] = 40
        /\ (soft /\ gap = 0) => painted[<<2, 2>>] > 40 /\ painted[<<3, 2>>] < hard[<<3, 2>>]
        /\ (soft /\ gap > 1) => painted[<<2, 2>>] = 40
    BY <1>1, <1>3, <1>4, <1>5
  <1> QED BY <1>6 DEF SoftLettersMix, Bar, Ground, Grey, painted, hard, gap, soft

-----------------------------------------------------------------------------
(***************************************************************************)
(* Draws: the deformations that are switched off take their own away.      *)
(***************************************************************************)
Keep(kept, d, off) == IF d \in off THEN kept ELSE Append(kept, d)

\* f holds what is left of the first draws, up to n of them.
LeavesUpTo(f, draws, off, n) ==
  /\ f = [k \in 0 .. n |-> f[k]] /\ f[0] = << >>
  /\ \A k \in 1 .. n : f[k] = Keep(f[k - 1], draws[k], off)

\* Such an f exists, one step at a time.
LEMMA LeavesExist ==
  ASSUME NEW draws, NEW off, NEW n \in Nat
  PROVE  \E f : LeavesUpTo(f, draws, off, n)
  <1> DEFINE wrong == {m \in Nat : ~ \E f : LeavesUpTo(f, draws, off, m)}
  <1>1. wrong = {}
    <2> SUFFICES ASSUME wrong # {} PROVE FALSE
      OBVIOUS
    <2> DEFINE m == Min(wrong)
    <2>1. m \in wrong /\ \A j \in wrong : m <= j
      BY LeastExists
    <2> HIDE DEF m
    <2>2. m \in Nat /\ ~ \E f : LeavesUpTo(f, draws, off, m)
      BY <2>1
    <2>3. m # 0
      <3> DEFINE f == [k \in 0 .. 0 |-> << >>]
      <3>1. LeavesUpTo(f, draws, off, 0)
        <4>1. f = [k \in 0 .. 0 |-> f[k]] /\ f[0] = << >>
          OBVIOUS
        <4> HIDE DEF f
        <4>2. \A k \in 1 .. 0 : f[k] = Keep(f[k - 1], draws[k], off)
          OBVIOUS
        <4> QED BY <4>1, <4>2 DEF LeavesUpTo
      <3> QED BY <2>2, <3>1
    <2> DEFINE l == m - 1
    <2>4. l \in Nat /\ m = l + 1 /\ l < m
      BY <2>2, <2>3
    <2> HIDE DEF l
    <2>5. l \notin wrong
      BY <2>1, <2>2, <2>4
    <2>6. PICK f : LeavesUpTo(f, draws, off, l)
      BY <2>4, <2>5
    <2> DEFINE last == Keep(f[l], draws[m], off)
               g == [k \in 0 .. m |-> IF k = m THEN last ELSE f[k]]
    <2>7. g = [k \in 0 .. m |-> g[k]] /\ g[0] = << >>
      BY <2>2, <2>3, <2>6 DEF LeavesUpTo
    <2>8. ASSUME NEW k \in 1 .. m PROVE g[k] = Keep(g[k - 1], draws[k], off)
      <3>1. CASE k = m
        <4>1. g[k] = last /\ g[k - 1] = f[l] /\ k - 1 = l
          BY <2>2, <2>4, <3>1
        <4> QED BY <3>1, <4>1
      <3>2. CASE k # m
        <4>1. k \in 1 .. l /\ k - 1 \in 0 .. l
          BY <2>2, <2>4, <3>2
        <4>2. f[k] = Keep(f[k - 1], draws[k], off)
          BY <2>6, <4>1 DEF LeavesUpTo
        <4>3. g[k] = f[k] /\ g[k - 1] = f[k - 1]
          BY <2>2, <2>4, <4>1
        <4> QED BY <4>2, <4>3
      <3> QED BY <3>1, <3>2
    <2>9. LeavesUpTo(g, draws, off, m)
      <3> HIDE DEF g
      <3> QED BY <2>7, <2>8 DEF LeavesUpTo
    <2> QED BY <2>2, <2>9
  <1> QED BY <1>1

\* And there is one only.
LEMMA LeavesAgree ==
  ASSUME NEW draws, NEW off, NEW n \in Nat, NEW f, NEW g,
         LeavesUpTo(f, draws, off, n), LeavesUpTo(g, draws, off, n)
  PROVE  \A k \in 0 .. n : f[k] = g[k]
  <1> DEFINE wrong == {k \in 0 .. n : f[k] # g[k]}
  <1> SUFFICES ASSUME wrong # {} PROVE FALSE
    OBVIOUS
  <1> DEFINE m == Min(wrong)
  <1>1. m \in wrong /\ \A j \in wrong : m <= j
    <2>1. wrong \in SUBSET Nat
      OBVIOUS
    <2> HIDE DEF wrong
    <2> QED BY <2>1, LeastExists
  <1> HIDE DEF m
  <1>2. m \in 1 .. n
    BY <1>1 DEF LeavesUpTo
  <1>3. m - 1 \in 0 .. n /\ m - 1 \notin wrong
    BY <1>1, <1>2
  <1>4. f[m - 1] = g[m - 1]
    BY <1>3
  <1>5. f[m] = g[m]
    BY <1>2, <1>4 DEF LeavesUpTo
  <1> QED BY <1>1, <1>5

\* What Without leaves is what any such f leaves of all of the draws.
LEMMA WithoutIs ==
  ASSUME NEW S, NEW draws \in Seq(S), NEW off, NEW f, LeavesUpTo(f, draws, off, Len(draws))
  PROVE  Without(draws, off) = f[Len(draws)]
  <1> DEFINE n == Len(draws)
             step(g) == [k \in 0 .. n |-> IF k = 0 THEN << >>
                           ELSE IF draws[k] \in off THEN g[k - 1] ELSE Append(g[k - 1], draws[k])]
             left == CHOOSE g : g = step(g)
  <1>1. Without(draws, off) = left[n]
    BY DEF Without
  <1>2. n \in Nat
    OBVIOUS
  <1>3. f = step(f)
    <2> HIDE DEF n
    <2>1. f = [k \in 0 .. n |-> f[k]]
      BY DEF LeavesUpTo, n
    <2>2. \A k \in 0 .. n : step(f)[k] = f[k]
      <3> SUFFICES ASSUME NEW k \in 0 .. n PROVE step(f)[k] = f[k]
        OBVIOUS
      <3>1. CASE k = 0
        <4>1. f[0] = << >>
          BY DEF LeavesUpTo
        <4> QED BY <3>1, <4>1
      <3>2. CASE k # 0
        <4>1. f[k] = Keep(f[k - 1], draws[k], off)
          BY <1>2, <3>2 DEF LeavesUpTo, n
        <4> QED BY <3>2, <4>1 DEF Keep
      <3> QED BY <3>1, <3>2
    <2>3. step(f) = [k \in 0 .. n |-> step(f)[k]]
      OBVIOUS
    <2> HIDE DEF step
    <2> QED BY <2>1, <2>2, <2>3
  <1>4. left = step(left)
    <2> HIDE DEF step
    <2> QED BY <1>3
  <1> HIDE DEF left
  <1>5. LeavesUpTo(left, draws, off, n)
    <2>1. left = [k \in 0 .. n |-> left[k]]
      BY <1>4
    <2>2. left[0] = << >>
      BY <1>2, <1>4
    <2>3. ASSUME NEW k \in 1 .. n PROVE left[k] = Keep(left[k - 1], draws[k], off)
      <3>1. \A j \in 0 .. n : left[j] = IF j = 0 THEN << >>
              ELSE IF draws[j] \in off THEN left[j - 1] ELSE Append(left[j - 1], draws[j])
        BY <1>4
      <3> HIDE DEF n, step
      <3>2. k \in 0 .. n /\ k # 0
        BY <1>2, <2>3
      <3> QED BY <3>1, <3>2 DEF Keep
    <2> QED BY <2>1, <2>2, <2>3 DEF LeavesUpTo
  <1> HIDE DEF n, step
  <1>6. \A k \in 0 .. n : f[k] = left[k]
    <2>1. LeavesUpTo(f, draws, off, n)
      BY DEF n
    <2> QED BY <1>2, <1>5, <2>1, LeavesAgree
  <1>7. f[n] = left[n]
    BY <1>2, <1>6
  <1> QED BY <1>1, <1>7 DEF n

\* No draws leave none.
LEMMA WithoutNone == \A off : Without(<< >>, off) = << >>
  <1> SUFFICES ASSUME NEW off PROVE Without(<< >>, off) = << >>
    OBVIOUS
  <1> DEFINE none == << >>
  <1>1. none \in Seq({}) /\ Len(none) = 0
    OBVIOUS
  <1> HIDE DEF none
  <1>2. PICK f : LeavesUpTo(f, none, off, 0)
    BY LeavesExist
  <1>3. Without(none, off) = f[0]
    BY <1>1, <1>2, WithoutIs
  <1> QED BY <1>2, <1>3 DEF LeavesUpTo, none

\* One more draw is kept or left out.
LEMMA WithoutAppend ==
  ASSUME NEW S, NEW draws \in Seq(S), NEW d \in S, NEW off
  PROVE  Without(Append(draws, d), off) = Keep(Without(draws, off), d, off)
  <1> DEFINE n == Len(draws)
             more == Append(draws, d)
  <1>1. n \in Nat /\ more \in Seq(S) /\ Len(more) = n + 1 /\ more[n + 1] = d
        /\ \A k \in 1 .. n : more[k] = draws[k]
    OBVIOUS
  <1> HIDE DEF n, more
  <1>2. PICK f : LeavesUpTo(f, more, off, n + 1)
    <2> DEFINE m == n + 1
    <2>1. m \in Nat
      BY <1>1
    <2> HIDE DEF m
    <2>2. \E f : LeavesUpTo(f, more, off, m)
      BY <2>1, LeavesExist
    <2> QED BY <2>2 DEF m
  <1> DEFINE g == [k \in 0 .. n |-> f[k]]
  <1>3. LeavesUpTo(g, draws, off, n)
    <2>1. \A k \in 0 .. n : g[k] = f[k]
      OBVIOUS
    <2>2. g = [k \in 0 .. n |-> g[k]]
      OBVIOUS
    <2> HIDE DEF g
    <2>3. g[0] = << >>
      BY <1>1, <1>2, <2>1 DEF LeavesUpTo
    <2>4. ASSUME NEW k \in 1 .. n PROVE g[k] = Keep(g[k - 1], draws[k], off)
      <3>1. k \in 1 .. n + 1 /\ k \in 0 .. n /\ k - 1 \in 0 .. n
        BY <1>1
      <3>2. f[k] = Keep(f[k - 1], more[k], off)
        BY <1>2, <3>1 DEF LeavesUpTo
      <3> QED BY <1>1, <2>1, <3>1, <3>2
    <2> QED BY <2>2, <2>3, <2>4 DEF LeavesUpTo
  <1>4. g[n] = f[n]
    BY <1>1
  <1> HIDE DEF g
  <1>5. Without(draws, off) = g[n]
    BY <1>3, WithoutIs DEF n
  <1>6. Without(more, off) = f[n + 1]
    <2>1. LeavesUpTo(f, more, off, Len(more))
      BY <1>1, <1>2
    <2> QED BY <1>1, <2>1, WithoutIs
  <1>7. f[n + 1] = Keep(f[n], d, off)
    <2>1. n + 1 \in 1 .. n + 1 /\ (n + 1) - 1 = n
      BY <1>1
    <2> QED BY <1>1, <1>2, <2>1 DEF LeavesUpTo
  <1> QED BY <1>4, <1>5, <1>6, <1>7 DEF more

\* The draws of one deformation, one to three of them, are kept or left out
\* together.
Group(draws, d) == draws = <<d>> \/ draws = <<d, d>> \/ draws = <<d, d, d>>

\* What a letter can draw for.
Drawn == Deformed \union {"color"}

\* Of the draws of d, those that are left.
Part(off, d, draws) == IF d \in off THEN << >> ELSE draws

\* What is left of the first draws, after which those of d follow.
Follow(first, left, off) == first \in Seq(Drawn) /\ left \in Seq(Drawn) /\ Without(first, off) = left

\* A group follows one draw at a time.
LEMMA GroupAppended ==
  ASSUME NEW S, NEW s \in Seq(S), NEW d \in S
  PROVE  /\ s \o <<d>> = Append(s, d) /\ s \o <<d, d>> = Append(Append(s, d), d)
         /\ s \o <<d, d, d>> = Append(Append(Append(s, d), d), d) /\ s \o << >> = s
  <1>1. s \o <<d>> = Append(s, d)
    OBVIOUS
  <1>2. s \o <<d, d>> = Append(Append(s, d), d)
    OBVIOUS
  <1>3. s \o <<d, d, d>> = Append(Append(Append(s, d), d), d)
    OBVIOUS
  <1>4. s \o << >> = s
    OBVIOUS
  <1> QED BY <1>1, <1>2, <1>3, <1>4

\* Draws left so far are followed by a group that is left as a whole or not at all.
LEMMA WithoutGroup ==
  ASSUME NEW first, NEW left, NEW off, Follow(first, left, off), NEW d \in Drawn,
         NEW draws, Group(draws, d)
  PROVE  Follow(first \o draws, left \o Part(off, d, draws), off)
  <1> DEFINE one == Append(first, d)
             two == Append(one, d)
             three == Append(two, d)
  <1>1. first \in Seq(Drawn) /\ left \in Seq(Drawn) /\ Without(first, off) = left
    BY DEF Follow
  <1>2. one \in Seq(Drawn) /\ two \in Seq(Drawn) /\ three \in Seq(Drawn)
    BY <1>1
  <1> DEFINE lone == Append(left, d)
             ltwo == Append(lone, d)
             lthree == Append(ltwo, d)
  <1>3. lone \in Seq(Drawn) /\ ltwo \in Seq(Drawn) /\ lthree \in Seq(Drawn)
    BY <1>1
  <1>4. /\ first \o <<d>> = one /\ first \o <<d, d>> = two /\ first \o <<d, d, d>> = three
        /\ left \o <<d>> = lone /\ left \o <<d, d>> = ltwo /\ left \o <<d, d, d>> = lthree
        /\ left \o << >> = left
    <2> HIDE DEF Drawn
    <2>1. first \o <<d>> = one /\ first \o <<d, d>> = two /\ first \o <<d, d, d>> = three
      BY <1>1, GroupAppended
    <2>2. /\ left \o <<d>> = lone /\ left \o <<d, d>> = ltwo /\ left \o <<d, d, d>> = lthree
          /\ left \o << >> = left
      BY <1>1, GroupAppended
    <2> QED BY <2>1, <2>2
  <1>5. /\ Without(one, off) = Keep(Without(first, off), d, off)
        /\ Without(two, off) = Keep(Without(one, off), d, off)
        /\ Without(three, off) = Keep(Without(two, off), d, off)
    <2> HIDE DEF Drawn
    <2>1. Without(one, off) = Keep(Without(first, off), d, off)
      BY <1>1, WithoutAppend
    <2> HIDE DEF one
    <2>2. Without(two, off) = Keep(Without(one, off), d, off)
      BY <1>2, WithoutAppend
    <2> HIDE DEF two
    <2>3. Without(three, off) = Keep(Without(two, off), d, off)
      BY <1>2, WithoutAppend
    <2> QED BY <2>1, <2>2, <2>3
  <1> HIDE DEF one, two, three, lone, ltwo, lthree
  <1>6. CASE d \in off
    <2>1. Without(one, off) = left /\ Without(two, off) = left /\ Without(three, off) = left
      BY <1>1, <1>5, <1>6 DEF Keep
    <2>2. CASE draws = <<d>>
      BY <1>1, <1>2, <1>4, <1>6, <2>1, <2>2 DEF Follow, Part
    <2>3. CASE draws = <<d, d>>
      BY <1>1, <1>2, <1>4, <1>6, <2>1, <2>3 DEF Follow, Part
    <2>4. CASE draws = <<d, d, d>>
      BY <1>1, <1>2, <1>4, <1>6, <2>1, <2>4 DEF Follow, Part
    <2> QED BY <2>2, <2>3, <2>4 DEF Group
  <1>7. CASE d \notin off
    <2>1. Without(one, off) = lone /\ Without(two, off) = ltwo /\ Without(three, off) = lthree
      BY <1>1, <1>5, <1>7 DEF Keep, lone, ltwo, lthree
    <2>2. CASE draws = <<d>>
      BY <1>2, <1>3, <1>4, <1>7, <2>1, <2>2 DEF Follow, Part
    <2>3. CASE draws = <<d, d>>
      BY <1>2, <1>3, <1>4, <1>7, <2>1, <2>3 DEF Follow, Part
    <2>4. CASE draws = <<d, d, d>>
      BY <1>2, <1>3, <1>4, <1>7, <2>1, <2>4 DEF Follow, Part
    <2> QED BY <2>2, <2>3, <2>4 DEF Group
  <1> QED BY <1>6, <1>7

\* The intensities of DrawsAreIndependent, with every deformation and without some.
Everything == [d \in Deformed |-> 50]
\* Some of them off.
Less(off) == [d \in Deformed |-> IF d \in off THEN 0 ELSE 50]

\* With everything on, every group is drawn.
LEMMA EverythingIs ==
  ASSUME NEW d \in Deformed, NEW draws
  PROVE  /\ spread(Everything, d, draws) = draws
         /\ (IF Everything[d] > 0 THEN draws ELSE << >>) = draws
  <1>1. Everything[d] = 50
    BY DEF Everything
  <1> QED BY <1>1 DEF spread

\* With some off, the groups of the others are.
LEMMA LessIs ==
  ASSUME NEW off, NEW d \in Deformed, NEW draws
  PROVE  /\ spread(Less(off), d, draws) = Part(off, d, draws)
         /\ (IF Less(off)[d] > 0 THEN draws ELSE << >>) = Part(off, d, draws)
  <1>1. CASE d \in off
    <2>1. Less(off)[d] = 0
      BY <1>1 DEF Less
    <2> QED BY <1>1, <2>1 DEF spread, Part
  <1>2. CASE d \notin off
    <2>1. Less(off)[d] = 50
      BY <1>2 DEF Less
    <2> QED BY <1>2, <2>1 DEF spread, Part
  <1> QED BY <1>1, <1>2

\* The draws of a letter that is deformed in every way.
AllDraws(outlined) ==
  <<"color">> \o outlined \o <<"transparency", "transparency">> \o <<"blur">>
    \o <<"gradient", "gradient", "gradient">> \o <<"scale", "scale">>
    \o <<"jitter", "jitter">> \o <<"skew">> \o <<"wave">> \o <<"wave", "wave">>
    \o <<"rotation">>

\* Those of a letter that is not deformed in some.
SomeDraws(off, outlined) ==
  <<"color">> \o Part(off, "outline", outlined)
    \o Part(off, "transparency", <<"transparency", "transparency">>)
    \o Part(off, "blur", <<"blur">>)
    \o Part(off, "gradient", <<"gradient", "gradient", "gradient">>)
    \o Part(off, "scale", <<"scale", "scale">>)
    \o Part(off, "jitter", <<"jitter", "jitter">>)
    \o Part(off, "skew", <<"skew">>) \o Part(off, "wave", <<"wave">>)
    \o Part(off, "wave", <<"wave", "wave">>) \o Part(off, "rotation", <<"rotation">>)

\* What one letter draws, group by group; outlined is what its outline draws.
LEMMA LetterDrawsAre ==
  ASSUME NEW off, NEW hollow \in BOOLEAN, NEW outlined,
         outlined = IF hollow THEN <<"outline", "outline">> ELSE <<"outline">>
  PROVE  /\ LetterDraws(Everything, hollow) = AllDraws(outlined)
         /\ LetterDraws(Less(off), hollow) = SomeDraws(off, outlined)
  <1> DEFINE t == <<"transparency", "transparency">>
             b == <<"blur">>
             g == <<"gradient", "gradient", "gradient">>
             s == <<"scale", "scale">>
             j == <<"jitter", "jitter">>
             k == <<"skew">>
             v == <<"wave">>
             w == <<"wave", "wave">>
             r == <<"rotation">>
             c == <<"color">>
             none == << >>
             Shading(deform) == ShadingDraws(deform, hollow)
             Letter(deform) == LetterDraws(deform, hollow)
  <1>1. \A deform : Shading(deform)
          = c \o (IF deform["outline"] > 0 THEN outlined ELSE none)
              \o (IF deform["transparency"] > 0 THEN t ELSE none)
              \o (IF deform["blur"] > 0 THEN b ELSE none)
              \o (IF deform["gradient"] > 0 THEN g ELSE none)
    BY DEF ShadingDraws
  <1>2. \A deform : Letter(deform)
          = Shading(deform) \o spread(deform, "scale", s) \o spread(deform, "jitter", j)
              \o spread(deform, "skew", k) \o spread(deform, "wave", v)
              \o (IF deform["wave"] > 0 THEN w ELSE none) \o spread(deform, "rotation", r)
    BY DEF LetterDraws
  <1>3. /\ "outline" \in Deformed /\ "transparency" \in Deformed /\ "blur" \in Deformed
        /\ "gradient" \in Deformed /\ "scale" \in Deformed /\ "jitter" \in Deformed
        /\ "skew" \in Deformed /\ "wave" \in Deformed /\ "rotation" \in Deformed
    BY DEF Deformed
  <1> HIDE DEF t, b, g, s, j, k, v, w, r, c, Shading, Letter
  <1>4. Shading(Everything) = c \o outlined \o t \o b \o g
    <2>1. /\ (IF Everything["outline"] > 0 THEN outlined ELSE none) = outlined
          /\ (IF Everything["transparency"] > 0 THEN t ELSE none) = t
          /\ (IF Everything["blur"] > 0 THEN b ELSE none) = b
          /\ (IF Everything["gradient"] > 0 THEN g ELSE none) = g
      BY <1>3, EverythingIs
    <2> QED BY <1>1, <2>1
  <1>5. Letter(Everything) = Shading(Everything) \o s \o j \o k \o v \o w \o r
    <2>1. /\ spread(Everything, "scale", s) = s /\ spread(Everything, "jitter", j) = j
          /\ spread(Everything, "skew", k) = k /\ spread(Everything, "wave", v) = v
          /\ spread(Everything, "rotation", r) = r
          /\ (IF Everything["wave"] > 0 THEN w ELSE none) = w
      BY <1>3, EverythingIs
    <2> QED BY <1>2, <2>1
  <1>6. Shading(Less(off)) = c \o Part(off, "outline", outlined) \o Part(off, "transparency", t)
                               \o Part(off, "blur", b) \o Part(off, "gradient", g)
    <2>1. /\ (IF Less(off)["outline"] > 0 THEN outlined ELSE none) = Part(off, "outline", outlined)
          /\ (IF Less(off)["transparency"] > 0 THEN t ELSE none) = Part(off, "transparency", t)
          /\ (IF Less(off)["blur"] > 0 THEN b ELSE none) = Part(off, "blur", b)
          /\ (IF Less(off)["gradient"] > 0 THEN g ELSE none) = Part(off, "gradient", g)
      BY <1>3, LessIs
    <2> QED BY <1>1, <2>1
  <1>7. Letter(Less(off)) = Shading(Less(off)) \o Part(off, "scale", s) \o Part(off, "jitter", j)
                              \o Part(off, "skew", k) \o Part(off, "wave", v)
                              \o Part(off, "wave", w) \o Part(off, "rotation", r)
    <2>1. /\ spread(Less(off), "scale", s) = Part(off, "scale", s)
          /\ spread(Less(off), "jitter", j) = Part(off, "jitter", j)
          /\ spread(Less(off), "skew", k) = Part(off, "skew", k)
          /\ spread(Less(off), "wave", v) = Part(off, "wave", v)
          /\ spread(Less(off), "rotation", r) = Part(off, "rotation", r)
          /\ (IF Less(off)["wave"] > 0 THEN w ELSE none) = Part(off, "wave", w)
      BY <1>3, LessIs
    <2> QED BY <1>2, <2>1
  <1> QED BY <1>4, <1>5, <1>6, <1>7 DEF t, b, g, s, j, k, v, w, r, c, Letter, AllDraws, SomeDraws

\* DrawsAreIndependent, whatever is switched off (spread, Shading::draw).
LEMMA DrawsStayIndependent ==
  Given_("draws") /\ input.off \in SUBSET Deformed /\ input.hollow \in BOOLEAN
  => DrawsAreIndependent
  <1> SUFFICES ASSUME input.off \in SUBSET Deformed, input.hollow \in BOOLEAN
               PROVE  DrawsAreIndependent
    OBVIOUS
  <1> DEFINE off == input.off
             hollow == input.hollow
             o == IF hollow THEN <<"outline", "outline">> ELSE <<"outline">>
             c == <<"color">>
             t == <<"transparency", "transparency">>
             b == <<"blur">>
             g == <<"gradient", "gradient", "gradient">>
             s == <<"scale", "scale">>
             j == <<"jitter", "jitter">>
             k == <<"skew">>
             v == <<"wave">>
             w == <<"wave", "wave">>
             r == <<"rotation">>
  <1>1. off \in SUBSET Deformed /\ hollow \in BOOLEAN
    OBVIOUS
  <1> HIDE DEF off, hollow
  <1>2. /\ Group(o, "outline") /\ Group(t, "transparency") /\ Group(b, "blur")
        /\ Group(g, "gradient") /\ Group(s, "scale") /\ Group(j, "jitter") /\ Group(k, "skew")
        /\ Group(v, "wave") /\ Group(w, "wave") /\ Group(r, "rotation")
    BY <1>1 DEF Group
  <1>3. /\ "outline" \in Drawn /\ "transparency" \in Drawn /\ "blur" \in Drawn
        /\ "gradient" \in Drawn /\ "scale" \in Drawn /\ "jitter" \in Drawn
        /\ "skew" \in Drawn /\ "wave" \in Drawn /\ "rotation" \in Drawn
    BY DEF Drawn, Deformed
  <1>4. Follow(c, c, off)
    <2> DEFINE none == << >>
               color == "color"
    <2>1. none \in Seq(Drawn) /\ color \in Drawn /\ Append(none, color) = c /\ c \in Seq(Drawn)
      BY DEF Drawn
    <2>2. color \notin off
      BY <1>1 DEF Deformed
    <2>3. Without(none, off) = none
      BY WithoutNone
    <2> HIDE DEF none, color, c
    <2>4. Without(Append(none, color), off) = Keep(Without(none, off), color, off)
      BY <2>1, WithoutAppend
    <2>5. Without(c, off) = c
      BY <2>1, <2>2, <2>3, <2>4 DEF Keep
    <2> QED BY <2>1, <2>5 DEF Follow
  <1> DEFINE first == c \o o \o t \o b \o g
             left == c \o Part(off, "outline", o) \o Part(off, "transparency", t)
                       \o Part(off, "blur", b) \o Part(off, "gradient", g)
             all == first \o s \o j \o k \o v \o w \o r
             some == left \o Part(off, "scale", s) \o Part(off, "jitter", j)
                       \o Part(off, "skew", k) \o Part(off, "wave", v)
                       \o Part(off, "wave", w) \o Part(off, "rotation", r)
  <1>5. LetterDraws(Everything, hollow) = all /\ LetterDraws(Less(off), hollow) = some
    <2>1. o = IF hollow THEN <<"outline", "outline">> ELSE <<"outline">>
      OBVIOUS
    <2> HIDE DEF o
    <2>2. LetterDraws(Everything, hollow) = AllDraws(o) /\ LetterDraws(Less(off), hollow) = SomeDraws(off, o)
      BY <1>1, <2>1, LetterDrawsAre
    <2> QED BY <2>2 DEF AllDraws, SomeDraws
  <1> HIDE DEF c, o, t, b, g, s, j, k, v, w, r
  <1>6. Follow(first, left, off)
    <2>1. Follow(c \o o, c \o Part(off, "outline", o), off)
      BY <1>2, <1>3, <1>4, WithoutGroup
    <2>2. Follow(c \o o \o t, c \o Part(off, "outline", o) \o Part(off, "transparency", t), off)
      BY <1>2, <1>3, <2>1, WithoutGroup
    <2>3. Follow(c \o o \o t \o b, c \o Part(off, "outline", o) \o Part(off, "transparency", t)
                                       \o Part(off, "blur", b), off)
      BY <1>2, <1>3, <2>2, WithoutGroup
    <2> QED BY <1>2, <1>3, <2>3, WithoutGroup
  <1> HIDE DEF first, left
  <1>7. Follow(all, some, off)
    <2>1. Follow(first \o s, left \o Part(off, "scale", s), off)
      BY <1>2, <1>3, <1>6, WithoutGroup
    <2>2. Follow(first \o s \o j, left \o Part(off, "scale", s) \o Part(off, "jitter", j), off)
      BY <1>2, <1>3, <2>1, WithoutGroup
    <2>3. Follow(first \o s \o j \o k, left \o Part(off, "scale", s) \o Part(off, "jitter", j)
                                            \o Part(off, "skew", k), off)
      BY <1>2, <1>3, <2>2, WithoutGroup
    <2>4. Follow(first \o s \o j \o k \o v,
                 left \o Part(off, "scale", s) \o Part(off, "jitter", j) \o Part(off, "skew", k)
                   \o Part(off, "wave", v), off)
      BY <1>2, <1>3, <2>3, WithoutGroup
    <2>5. Follow(first \o s \o j \o k \o v \o w,
                 left \o Part(off, "scale", s) \o Part(off, "jitter", j) \o Part(off, "skew", k)
                   \o Part(off, "wave", v) \o Part(off, "wave", w), off)
      BY <1>2, <1>3, <2>4, WithoutGroup
    <2> QED BY <1>2, <1>3, <2>5, WithoutGroup
  <1> HIDE DEF all, some
  <1>8. LetterDraws(Less(off), hollow) = Without(LetterDraws(Everything, hollow), off)
    BY <1>5, <1>7 DEF Follow
  <1> QED BY <1>8 DEF DrawsAreIndependent, Everything, Less, off, hollow
-----------------------------------------------------------------------------
\* What a rendering is asked for: a size, a number of letters and a level that
\* validation.rs lets through, the ends of a gradient in the band of the mode,
\* a stroke, however thin, a neighbour somewhere to the left, a colour a
\* speck can draw, a level of a channel.
PictureAsked ==
  /\ Given_("layout") =>
       LayoutAsked(input.width, input.n, input.level) /\ input.height \in Nat
  /\ Given_("draws") => input.off \in SUBSET Deformed /\ input.hollow \in BOOLEAN
  /\ Given_("paint") =>
       /\ input.level \in 0 .. 100 /\ input.dark \in BOOLEAN /\ input.hue \in Int
       /\ input.near \in glyph_lightness(input.dark)
       /\ input.drawn \in glyph_lightness(input.dark)
  /\ Given_("hollow") =>
       /\ input.stroke \in Nat \ {0} /\ input.far \in Int
       /\ input.cos \in Int /\ input.sin \in Int
  /\ Given_("neighbour") => input.gap \in Nat /\ input.soft \in BOOLEAN
  /\ Given_("speck") =>
       /\ input.hue \in Int /\ input.saturation \in SpeckSaturation
       /\ input.lightness \in SpeckLightness
  /\ Given_("noise") => input.level \in 0 .. 255 /\ input.noise \in Int

\* What the layout promises, it promises of every picture.
LEMMA LayoutKept ==
  ASSUME PictureAsked
  PROVE  /\ LettersStayCentred /\ InterferenceOnCanvas /\ EasyIsUntouched /\ LettersReadInOrder
  <1>1. CASE Given_("layout")
    <2>1. /\ LayoutAsked(input.width, input.n, input.level) /\ input.height \in Nat
      BY <1>1 DEF PictureAsked
    <2>2. /\ input.width \in 30 .. 2000 /\ input.n \in 1 .. 32 /\ input.level \in 0 .. 100
      BY <2>1 DEF LayoutAsked
    <2>3. input.width \in Nat
      <3> DEFINE w == input.width
      <3>1. w \in 30 .. 2000
        BY <2>2
      <3> HIDE DEF w
      <3>2. w \in Nat
        BY <3>1
      <3> QED BY <3>2 DEF w
    <2>4. LettersStayCentred
      BY <1>1, <2>2, LettersCentred
    <2>5. InterferenceOnCanvas
      BY <1>1, <2>1, <2>3, InterferenceStays
    <2>6. EasyIsUntouched
      BY <2>1, EasyStaysUntouched
    <2>7. LettersReadInOrder
      BY <1>1, <2>2, LettersStayInOrder
    <2> QED BY <2>4, <2>5, <2>6, <2>7
  <1>2. CASE ~ Given_("layout")
    BY <1>2 DEF LettersStayCentred, InterferenceOnCanvas, EasyIsUntouched, LettersReadInOrder
  <1> QED BY <1>1, <1>2

\* What a letter is painted with keeps it legible.
LEMMA PaintKept ==
  ASSUME PictureAsked
  PROVE  GradientIsTheOneDrawn /\ LetterStaysLegible /\ InkStandsOut
  <1>1. CASE Given_("paint")
    <2>1. /\ input.level \in 0 .. 100 /\ input.dark \in BOOLEAN /\ input.hue \in Int
          /\ input.near \in glyph_lightness(input.dark)
          /\ input.drawn \in glyph_lightness(input.dark)
      BY <1>1 DEF PictureAsked
    <2>2. GradientIsTheOneDrawn
      BY <1>1, <2>1, GradientSweeps
    <2>3. LetterStaysLegible
      BY <1>1, <2>1, LettersLegible
    <2>4. InkStandsOut
      BY <1>1, <2>1, InkAlwaysStandsOut
    <2> QED BY <2>2, <2>3, <2>4
  <1>2. CASE ~ Given_("paint")
    BY <1>2 DEF GradientIsTheOneDrawn, LetterStaysLegible, InkStandsOut
  <1> QED BY <1>1, <1>2

\* At every size, length and level a picture is legible and on its canvas: the
\* letters stand in order between the margins, their ink keeps to the band of
\* its mode and apart from the ground, the specks and the noise, a hollow letter
\* is empty and on its edge as strong as its stroke is wide, a softened one mixes with its neighbour, a gradient sweeps the arc
\* it drew, noise saturates, and a deformation that is off takes only its own
\* draws away.
THEOREM PicturesAreLegible == PictureAsked => PictureIsLegible
  <1> SUFFICES ASSUME PictureAsked PROVE PictureIsLegible
    OBVIOUS
  <1>1. /\ LettersStayCentred /\ InterferenceOnCanvas /\ EasyIsUntouched /\ LettersReadInOrder
    BY LayoutKept
  <1>2. GradientIsTheOneDrawn /\ LetterStaysLegible /\ InkStandsOut
    BY PaintKept
  <1>3. DrawsAreIndependent
    <2>1. CASE Given_("draws")
      BY <2>1, DrawsStayIndependent DEF PictureAsked
    <2>2. CASE ~ Given_("draws")
      BY <2>2 DEF DrawsAreIndependent
    <2> QED BY <2>1, <2>2
  <1>4. HollowIsEmptyInside
    <2>1. CASE Given_("hollow")
      BY <2>1, HollowStaysEmpty DEF PictureAsked
    <2>2. CASE ~ Given_("hollow")
      BY <2>2 DEF HollowIsEmptyInside
    <2> QED BY <2>1, <2>2
  <1>5. SoftLettersMix
    <2>1. CASE Given_("neighbour")
      BY <2>1, SoftLettersDoMix DEF PictureAsked
    <2>2. CASE ~ Given_("neighbour")
      BY <2>2 DEF SoftLettersMix
    <2> QED BY <2>1, <2>2
  <1>6. SpecksAreNotInk
    <2>1. CASE Given_("speck")
      BY <2>1, SpecksApart DEF PictureAsked
    <2>2. CASE ~ Given_("speck")
      BY <2>2 DEF SpecksAreNotInk
    <2> QED BY <2>1, <2>2
  <1>7. NoiseSaturates
    <2>1. CASE Given_("noise")
      BY <2>1, NoiseEnds DEF PictureAsked
    <2>2. CASE ~ Given_("noise")
      BY <2>2 DEF NoiseSaturates
    <2> QED BY <2>1, <2>2
  <1> QED BY <1>1, <1>2, <1>3, <1>4, <1>5, <1>6, <1>7 DEF PictureIsLegible

-----------------------------------------------------------------------------
(***************************************************************************)
(* Lines and circles, at any size.                                         *)
(***************************************************************************)
\* One pixel further along the longer axis of a line.
Advanced(last, dx, dy, step) ==
  IF last.error - 2 * dy < 0
  THEN [error |-> last.error - 2 * dy + 2 * dx, minor |-> last.minor + step]
  ELSE [error |-> last.error - 2 * dy, minor |-> last.minor]

\* The pixels of a line, as BresenhamLineIter counts them.
Walks(g, dx, dy, step, minor, n) ==
  /\ g[0] = [error |-> dx, minor |-> minor]
  /\ \A i \in 1 .. n : g[i] = Advanced(g[i - 1], dx, dy, step)

\* A function of the pixels from the first to the n-th.
Indexed(g, n) == g = [i \in 0 .. n |-> g[i]]

\* There is always one such.
LEMMA WalksExist ==
  ASSUME NEW n \in Nat, NEW dx, NEW dy, NEW step, NEW minor
  PROVE  \E g : Walks(g, dx, dy, step, minor, n) /\ Indexed(g, n)
  <1> DEFINE wrong == {m \in Nat : ~ \E g : Walks(g, dx, dy, step, minor, m) /\ Indexed(g, m)}
             least == Min(wrong)
  <1> SUFFICES ASSUME n \in wrong PROVE FALSE
    OBVIOUS
  <1>1. least \in wrong /\ \A j \in wrong : least <= j
    <2>1. wrong \in SUBSET Nat /\ wrong # {}
      OBVIOUS
    <2> HIDE DEF wrong
    <2> QED BY <2>1, LeastExists
  <1> HIDE DEF least
  <1>2. CASE least = 0
    <2> DEFINE one == [i \in 0 .. 0 |-> [error |-> dx, minor |-> minor]]
    <2>1. Walks(one, dx, dy, step, minor, 0) /\ Indexed(one, 0)
      BY DEF Walks, Indexed
    <2> HIDE DEF one
    <2> QED BY <1>1, <1>2, <2>1
  <1>3. CASE least # 0
    <2>1. least \in Nat /\ least - 1 \in Nat /\ ~ (least <= least - 1)
      BY <1>1, <1>3
    <2>2. PICK g : Walks(g, dx, dy, step, minor, least - 1)
      BY <1>1, <2>1
    <2> DEFINE last == Advanced(g[least - 1], dx, dy, step)
               g2 == [i \in 0 .. least |-> IF i = least THEN last ELSE g[i]]
    <2> HIDE DEF last
    <2>3. Indexed(g2, least)
      BY DEF Indexed
    <2>4. /\ g2[least] = last
          /\ \A i \in 0 .. least - 1 : g2[i] = g[i]
      BY <2>1
    <2> HIDE DEF g2
    <2>5. g2[0] = [error |-> dx, minor |-> minor]
      BY <2>1, <2>2, <2>4 DEF Walks
    <2>6. ASSUME NEW i \in 1 .. least PROVE g2[i] = Advanced(g2[i - 1], dx, dy, step)
      <3>1. CASE i = least
        <4>1. least - 1 \in 0 .. least - 1
          BY <2>1
        <4>2. g2[least - 1] = g[least - 1]
          BY <2>4, <4>1
        <4> QED BY <2>4, <3>1, <4>2 DEF last
      <3>2. CASE i # least
        <4>1. i \in 1 .. least - 1 /\ i \in 0 .. least - 1 /\ i - 1 \in 0 .. least - 1
          BY <2>1, <3>2
        <4>2. g[i] = Advanced(g[i - 1], dx, dy, step)
          BY <2>2, <4>1 DEF Walks
        <4> QED BY <2>4, <4>1, <4>2
      <3> QED BY <3>1, <3>2
    <2>7. Walks(g2, dx, dy, step, minor, least)
      BY <2>5, <2>6 DEF Walks
    <2> QED BY <1>1, <2>3, <2>7
  <1> QED BY <1>2, <1>3

\* How far a line is from its ideal one: the error stays within one step, and
\* counts what is left between the two.
Along(p, dx, dy, step, minor, i) ==
  /\ p.error \in Int /\ p.minor \in Int
  /\ 0 <= p.error /\ p.error <= 2 * dx
  /\ p.error = dx - 2 * (dy * i) + 2 * (dx * (step * (p.minor - minor)))

\* One pixel on it still does.
LEMMA AdvanceKeeps ==
  ASSUME NEW dx \in Nat, NEW dy \in 0 .. dx, NEW step \in {1, -1}, NEW minor \in Int,
         NEW i \in Nat \ {0}, NEW last, Along(last, dx, dy, step, minor, i - 1)
  PROVE  /\ Along(Advanced(last, dx, dy, step), dx, dy, step, minor, i)
         /\ Advanced(last, dx, dy, step).minor - last.minor \in {-1, 0, 1}
  <1> DEFINE e == last.error
             m == last.minor
             t == Advanced(last, dx, dy, step)
             so == dy * (i - 1)
             up == dx * (step * (m - minor))
  <1>1. /\ e \in Int /\ m \in Int /\ 0 <= e /\ e <= 2 * dx /\ e = dx - 2 * so + 2 * up
    BY DEF Along
  <1> HIDE DEF e, m
  <1>2. so \in Int /\ up \in Int
    BY <1>1
  <1>3. dy * i = so + dy
    OBVIOUS
  <1>4. dx * (step * ((m + step) - minor)) = up + dx
    <2>1. step * ((m + step) - minor) = step * (m - minor) + 1 /\ step * (m - minor) \in Int
      BY <1>1
    <2> DEFINE k == step * (m - minor)
    <2> HIDE DEF k
    <2>2. dx * (k + 1) = dx * k + dx
      BY <2>1 DEF k
    <2> QED BY <2>1, <2>2 DEF k
  <1>5. CASE e - 2 * dy < 0
    <2>1. t.error = e - 2 * dy + 2 * dx /\ t.minor = m + step
      BY <1>5 DEF Advanced, e, m
    <2> HIDE DEF t, so, up
    <2>2. t.error \in Int /\ t.minor \in Int /\ 0 <= t.error /\ t.error <= 2 * dx
      BY <1>1, <1>5, <2>1
    <2>3. t.error = dx - 2 * (so + dy) + 2 * (up + dx)
      BY <1>1, <1>2, <2>1
    <2>4. dx * (step * (t.minor - minor)) = up + dx
      <3> DEFINE rise(x) == dx * (step * (x - minor))
                 x == t.minor
      <3>1. rise(m + step) = up + dx
        BY <1>4
      <3>2. x = m + step
        BY <2>1
      <3> HIDE DEF rise, x
      <3>3. rise(x) = up + dx
        BY <3>1, <3>2
      <3> QED BY <3>3 DEF rise, x
    <2>5. Along(t, dx, dy, step, minor, i)
      BY <1>3, <2>2, <2>3, <2>4 DEF Along
    <2>6. t.minor - m \in {-1, 0, 1}
      BY <1>1, <2>1
    <2> QED BY <2>5, <2>6 DEF t, m
  <1>6. CASE ~ (e - 2 * dy < 0)
    <2>1. t.error = e - 2 * dy /\ t.minor = m
      BY <1>6 DEF Advanced, e, m
    <2> HIDE DEF t, so
    <2>2. t.error \in Int /\ t.minor \in Int /\ 0 <= t.error /\ t.error <= 2 * dx
      BY <1>1, <1>6, <2>1
    <2> HIDE DEF up
    <2>3. t.error = dx - 2 * (so + dy) + 2 * up
      BY <1>1, <1>2, <2>1
    <2>4. Along(t, dx, dy, step, minor, i)
      BY <1>3, <2>1, <2>2, <2>3 DEF Along, up
    <2>5. t.minor - m \in {-1, 0, 1}
      BY <1>1, <2>1
    <2> QED BY <2>4, <2>5 DEF t, m
  <1> HIDE DEF t
  <1> QED BY <1>5, <1>6 DEF t, m

\* So every pixel of a line is along it, and next to the one before.
LEMMA WalkStays ==
  ASSUME NEW dx \in Nat, NEW dy \in 0 .. dx, NEW step \in {1, -1}, NEW minor \in Int,
         NEW g, Walks(g, dx, dy, step, minor, dx)
  PROVE  /\ \A i \in 0 .. dx : Along(g[i], dx, dy, step, minor, i)
         /\ \A i \in 1 .. dx : g[i].minor - g[i - 1].minor \in {-1, 0, 1}
  <1> DEFINE Good(i) == Along(g[i], dx, dy, step, minor, i)
             wrong == {i \in 0 .. dx : ~ Good(i)}
             least == Min(wrong)
  <1>1. Good(0)
    <2> DEFINE p == g[0]
    <2>1. p = [error |-> dx, minor |-> minor]
      BY DEF Walks
    <2> HIDE DEF p
    <2>2. p.error = dx /\ p.minor = minor
      BY <2>1
    <2>3. dy * 0 = 0 /\ step * (minor - minor) = 0 /\ dx * 0 = 0
      OBVIOUS
    <2>4. Along(p, dx, dy, step, minor, 0)
      BY <2>2, <2>3 DEF Along
    <2> QED BY <2>4 DEF p
  <1>2. ASSUME NEW i \in 1 .. dx, Good(i - 1)
        PROVE  Good(i) /\ g[i].minor - g[i - 1].minor \in {-1, 0, 1}
    <2> DEFINE last == g[i - 1]
    <2>1. i \in Nat \ {0} /\ Along(last, dx, dy, step, minor, i - 1)
      BY <1>2
    <2>2. g[i] = Advanced(last, dx, dy, step)
      BY DEF Walks
    <2> HIDE DEF last
    <2>3. /\ Along(Advanced(last, dx, dy, step), dx, dy, step, minor, i)
          /\ Advanced(last, dx, dy, step).minor - last.minor \in {-1, 0, 1}
      BY <2>1, AdvanceKeeps
    <2> QED BY <2>2, <2>3 DEF last
  <1> HIDE DEF Good
  <1>3. wrong = {}
    <2> SUFFICES ASSUME wrong # {} PROVE FALSE
      OBVIOUS
    <2>1. wrong \in SUBSET Nat
      OBVIOUS
    <2>2. least \in wrong /\ \A j \in wrong : least <= j
      <3> HIDE DEF wrong
      <3> QED BY <2>1, LeastExists
    <2> HIDE DEF least
    <2>3. least # 0
      BY <1>1, <2>2
    <2>4. least \in 1 .. dx /\ least - 1 \in 0 .. dx /\ ~ (least <= least - 1)
      BY <2>2, <2>3
    <2>5. Good(least - 1)
      BY <2>2, <2>4
    <2>6. Good(least)
      BY <1>2, <2>4, <2>5
    <2> QED BY <2>2, <2>6
  <1>4. \A i \in 0 .. dx : Good(i)
    BY <1>3
  <1>5. \A i \in 1 .. dx : i - 1 \in 0 .. dx
    OBVIOUS
  <1> QED BY <1>2, <1>4, <1>5 DEF Good

\* What is nearer to none than half a step is none.
LEMMA NearestIs ==
  ASSUME NEW dx \in Nat \ {0}, NEW j \in Int, -dx <= 2 * (dx * j), 2 * (dx * j) <= dx
  PROVE  j = 0
  <1>1. CASE j >= 1
    <2>1. dx * j >= dx /\ dx * j \in Int
      BY <1>1
    <2> QED BY <2>1
  <1>2. CASE j <= -1
    <2>1. dx * j <= -dx /\ dx * j \in Int
      BY <1>2
    <2> QED BY <2>1
  <1> QED BY <1>1, <1>2

\* It ends where it should.
LEMMA WalkArrives ==
  ASSUME NEW dx \in Nat, NEW dy \in 0 .. dx, NEW step \in {1, -1}, NEW minor \in Int,
         NEW p, Along(p, dx, dy, step, minor, dx), dx = 0 => p.minor = minor
  PROVE  p.minor = minor + step * dy
  <1> DEFINE m == p.minor
             e == p.error
             k == step * (m - minor)
             j == k - dy
  <1>1. /\ e \in Int /\ m \in Int /\ 0 <= e /\ e <= 2 * dx
        /\ e = dx - 2 * (dy * dx) + 2 * (dx * k)
    BY DEF Along
  <1>2. CASE dx = 0
    BY <1>2
  <1>3. CASE dx # 0
    <2> HIDE DEF m, e
    <2>1. k \in Int
      BY <1>1
    <2>2. m - minor = step * k
      BY <1>1
    <2> HIDE DEF k
    <2>3. dx * j = dx * k - dy * dx /\ dx * k \in Int /\ dy * dx \in Int /\ j \in Int
      BY <2>1
    <2> HIDE DEF j
    <2>4. 2 * (dx * j) = e - dx
      BY <1>1, <2>3
    <2>5. -dx <= 2 * (dx * j) /\ 2 * (dx * j) <= dx
      BY <1>1, <2>4
    <2>6. j = 0
      BY <1>3, <2>3, <2>5, NearestIs
    <2>7. k = dy
      BY <2>1, <2>6 DEF j
    <2>8. m = minor + step * dy
      BY <1>1, <2>2, <2>7
    <2> QED BY <2>8 DEF m
  <1> QED BY <1>2, <1>3

\* A pixel, by its places along the longer axis and the other one.
Point(steep, u, v) == IF steep THEN <<v, u>> ELSE <<u, v>>

\* The ends of a line, by the one it is drawn from and how far it goes.
Joined(start, end, steep, u, v, du, dv) ==
  \/ start = Point(steep, u, v) /\ end = Point(steep, u + du, v + dv)
  \/ end = Point(steep, u, v) /\ start = Point(steep, u + du, v + dv)

\* Its pixels.
Laid(line, steep, u, g, n) == line = [i \in 0 .. n |-> Point(steep, u + i, g[i].minor)]

\* A line is drawn along its longer axis, from the end that comes first on it.
LEMMA LineIs ==
  ASSUME NEW start \in Int \X Int, NEW end \in Int \X Int
  PROVE  \E steep \in BOOLEAN, u \in Int, v \in Int, du \in Nat, dy \in Nat, step \in {1, -1} :
         \E g : /\ dy <= du /\ Walks(g, du, dy, step, v, du)
                /\ Laid(BresenhamLineIter(start, end), steep, u, g, du)
                /\ Joined(start, end, steep, u, v, du, step * dy)
  <1> DEFINE steep == AbsOf(end[2] - start[2]) > AbsOf(end[1] - start[1])
             a == IF steep THEN Swapped(start) ELSE start
             b == IF steep THEN Swapped(end) ELSE end
             from == IF a[1] > b[1] THEN b ELSE a
             to == IF a[1] > b[1] THEN a ELSE b
             u == from[1]
             v == from[2]
             dx == to[1] - from[1]
             dy == AbsOf(to[2] - from[2])
             step == IF from[2] < to[2] THEN 1 ELSE -1
             Step(g) == [n \in 0 .. dx |->
               IF n = 0 THEN [error |-> Seed(dx), minor |-> from[2]]
               ELSE LET last == g[n - 1]  error == last.error - 2 * dy IN
                    IF error < 0 THEN [error |-> error + 2 * dx, minor |-> last.minor + step]
                    ELSE [error |-> error, minor |-> last.minor]]
             walk == CHOOSE g : g = Step(g)
             line == [n \in 0 .. dx |->
               LET p == <<from[1] + n, walk[n].minor>> IN IF steep THEN Swapped(p) ELSE p]
  <1>1. BresenhamLineIter(start, end) = line
    BY DEF BresenhamLineIter
  <1>2. /\ start[1] \in Int /\ start[2] \in Int /\ start = <<start[1], start[2]>>
        /\ end[1] \in Int /\ end[2] \in Int /\ end = <<end[1], end[2]>>
    OBVIOUS
  <1>3. /\ a = IF steep THEN <<start[2], start[1]>> ELSE <<start[1], start[2]>>
        /\ b = IF steep THEN <<end[2], end[1]>> ELSE <<end[1], end[2]>>
    BY <1>2 DEF Swapped
  <1>4. /\ a[1] \in Int /\ a[2] \in Int /\ b[1] \in Int /\ b[2] \in Int
        /\ AbsOf(b[2] - a[2]) <= AbsOf(b[1] - a[1])
    <2> DEFINE p == start[1]
               q == start[2]
               r == end[1]
               t == end[2]
    <2> HIDE DEF p, q, r, t
    <2>1. p \in Int /\ q \in Int /\ r \in Int /\ t \in Int
      BY <1>2 DEF p, q, r, t
    <2>2. CASE steep
      <3>1. a[1] = q /\ a[2] = p /\ b[1] = t /\ b[2] = r
        BY <1>3, <2>2 DEF p, q, r, t
      <3>2. AbsOf(t - q) > AbsOf(r - p)
        BY <2>2 DEF p, q, r, t
      <3> HIDE DEF a, b
      <3> QED BY <2>1, <3>1, <3>2 DEF AbsOf
    <2>3. CASE ~ steep
      <3>1. a[1] = p /\ a[2] = q /\ b[1] = r /\ b[2] = t
        BY <1>3, <2>3 DEF p, q, r, t
      <3>2. ~ (AbsOf(t - q) > AbsOf(r - p))
        BY <2>3 DEF p, q, r, t
      <3> HIDE DEF a, b, steep
      <3> QED BY <2>1, <3>1, <3>2 DEF AbsOf
    <2> QED BY <2>2, <2>3
  <1>5. start = Point(steep, a[1], a[2]) /\ end = Point(steep, b[1], b[2])
    BY <1>2, <1>3 DEF Point
  <1> HIDE DEF a, b, steep
  <1>6. /\ u \in Int /\ v \in Int /\ dx \in Nat /\ dy \in Nat /\ dy <= dx /\ step \in {1, -1}
        /\ to[1] = u + dx /\ to[2] = v + step * dy
    BY <1>4 DEF AbsOf
  <1>7. Joined(start, end, steep, u, v, dx, step * dy)
    <2>1. \/ start = Point(steep, u, v) /\ end = Point(steep, to[1], to[2])
          \/ end = Point(steep, u, v) /\ start = Point(steep, to[1], to[2])
      BY <1>5
    <2> DEFINE x == to[1]
               y == to[2]
               p == u + dx
               q == v + step * dy
    <2>2. x = p /\ y = q
      BY <1>6
    <2> HIDE DEF x, y
    <2>3. \/ start = Point(steep, u, v) /\ end = Point(steep, x, y)
          \/ end = Point(steep, u, v) /\ start = Point(steep, x, y)
      BY <2>1 DEF x, y
    <2> HIDE DEF p, q
    <2>4. \/ start = Point(steep, u, v) /\ end = Point(steep, p, q)
          \/ end = Point(steep, u, v) /\ start = Point(steep, p, q)
      BY <2>2, <2>3
    <2> QED BY <2>4 DEF Joined, p, q
  <1> HIDE DEF dx, dy, step, u, from, to
  <1>8. \A g : Step(g) = [n \in 0 .. dx |->
                 IF n = 0 THEN [error |-> dx, minor |-> v] ELSE Advanced(g[n - 1], dx, dy, step)]
    BY DEF Advanced, Seed
  <1> HIDE DEF v, Step
  <1>9. PICK g : Walks(g, dx, dy, step, v, dx) /\ Indexed(g, dx)
    BY <1>6, WalksExist
  <1>10. g = Step(g)
    <2>1. \A n \in 0 .. dx : g[n] = IF n = 0 THEN [error |-> dx, minor |-> v]
                                    ELSE Advanced(g[n - 1], dx, dy, step)
      <3>1. \A n \in 0 .. dx : n # 0 => n \in 1 .. dx
        BY <1>6
      <3> QED BY <1>9, <3>1 DEF Walks
    <2> QED BY <1>8, <1>9, <2>1 DEF Indexed
  <1>11. walk = Step(walk)
    BY <1>10
  <1> HIDE DEF walk
  <1>12. Walks(walk, dx, dy, step, v, dx)
    <2>1. \A n \in 0 .. dx : walk[n] = IF n = 0 THEN [error |-> dx, minor |-> v]
                                       ELSE Advanced(walk[n - 1], dx, dy, step)
      BY <1>8, <1>11
    <2>2. 0 \in 0 .. dx /\ \A n \in 1 .. dx : n \in 0 .. dx /\ n # 0
      BY <1>6
    <2> QED BY <2>1, <2>2 DEF Walks
  <1>13. Laid(line, steep, u, walk, dx)
    BY DEF Laid, Point, Swapped, u
  <1>14. steep \in BOOLEAN
    BY DEF steep
  <1> QED BY <1>1, <1>6, <1>7, <1>12, <1>13, <1>14

\* What LineIsStraight asks of a line.
IsStraight(line, start, end) ==
  LET dx == end[1] - start[1]
      dy == end[2] - start[2]
      long == AtLeast(AbsOf(dx), AbsOf(dy))
      drawn == {line[n] : n \in DOMAIN line}
      off(p) == AbsOf(dx * (p[2] - start[2]) - dy * (p[1] - start[1]))
  IN  /\ {start, end} \subseteq drawn
      /\ Cardinality(drawn) = long + 1
      /\ \A p \in drawn : 2 * off(p) <= long
      /\ \A n \in DOMAIN line \ {0} : \A k \in 1 .. 2 : AbsOf(line[n][k] - line[n - 1][k]) <= 1

\* Twice what a pixel is off.
OffBy(du, dv, y, n) == 2 * AbsOf(du * y - dv * n)

\* It is the same from the other end, and with the axes swapped.
SameOff(du, dv, y, n) ==
  /\ 2 * AbsOf(dv * n - du * y) = OffBy(du, dv, y, n)
  /\ 2 * AbsOf((-du) * (y - dv) - (-dv) * (n - du)) = OffBy(du, dv, y, n)
  /\ 2 * AbsOf((-dv) * (n - du) - (-du) * (y - dv)) = OffBy(du, dv, y, n)

\* So it always is.
LEMMA OffEitherWay ==
  ASSUME NEW du \in Int, NEW dv \in Int, NEW y \in Int, NEW n \in Int
  PROVE  SameOff(du, dv, y, n)
  <1> DEFINE a == du * y
             b == dv * n
             c == du * dv
  <1>1. a \in Int /\ b \in Int /\ c \in Int
    OBVIOUS
  <1>2. (-du) * (y - dv) = c - a
    OBVIOUS
  <1>3. (-dv) * (n - du) = c - b
    OBVIOUS
  <1> HIDE DEF a, b, c
  <1>4. /\ 2 * AbsOf(b - a) = 2 * AbsOf(a - b)
        /\ 2 * AbsOf((c - a) - (c - b)) = 2 * AbsOf(a - b)
        /\ 2 * AbsOf((c - b) - (c - a)) = 2 * AbsOf(a - b)
    BY <1>1 DEF AbsOf
  <1> QED BY <1>2, <1>3, <1>4 DEF SameOff, OffBy, a, b

\* Off by at most half a step.
LEMMA AlongIsNear ==
  ASSUME NEW dx \in Nat, NEW dy \in 0 .. dx, NEW step \in {1, -1}, NEW minor \in Int,
         NEW i \in Nat, NEW p, Along(p, dx, dy, step, minor, i)
  PROVE  OffBy(dx, step * dy, p.minor - minor, i) <= dx
  <1> DEFINE y == p.minor - minor
             e == p.error
             rise == dx * y
             so == dy * i
  <1>1. /\ e \in Int /\ y \in Int /\ 0 <= e /\ e <= 2 * dx
        /\ e = dx - 2 * (dy * i) + 2 * (dx * (step * y))
    BY DEF Along
  <1> HIDE DEF y, e
  <1>2. rise \in Int /\ so \in Int
    BY <1>1
  <1>3. CASE step = 1
    <2>1. dx * (step * y) = rise /\ (step * dy) * i = so
      BY <1>1, <1>3
    <2> HIDE DEF rise, so
    <2>2. e = dx - 2 * so + 2 * rise
      BY <1>1, <2>1 DEF so
    <2>3. 2 * AbsOf(rise - so) <= dx
      BY <1>1, <1>2, <2>2 DEF AbsOf
    <2> QED BY <2>1, <2>3 DEF OffBy, rise, y
  <1>4. CASE step = -1
    <2>1. dx * (step * y) = -rise /\ (step * dy) * i = -so
      BY <1>1, <1>4
    <2> HIDE DEF rise, so
    <2>2. e = dx - 2 * so + 2 * (-rise)
      BY <1>1, <2>1 DEF so
    <2>3. 2 * AbsOf(rise - (-so)) <= dx
      BY <1>1, <1>2, <2>2 DEF AbsOf
    <2> QED BY <2>1, <2>3 DEF OffBy, rise, y
  <1> QED BY <1>3, <1>4

\* A line that is walked is straight.
LEMMA WalkIsStraight ==
  ASSUME NEW steep \in BOOLEAN, NEW u \in Int, NEW v \in Int, NEW du \in Nat,
         NEW dy \in 0 .. du, NEW step \in {1, -1}, NEW g, Walks(g, du, dy, step, v, du),
         NEW line, Laid(line, steep, u, g, du),
         NEW start, NEW end, Joined(start, end, steep, u, v, du, step * dy)
  PROVE  IsStraight(line, start, end)
  <1> DEFINE dv == step * dy
             w(i) == g[i].minor
             drawn == {line[n] : n \in DOMAIN line}
             dx == end[1] - start[1]
             dz == end[2] - start[2]
             long == AtLeast(AbsOf(dx), AbsOf(dz))
  <1>1. /\ \A i \in 0 .. du : Along(g[i], du, dy, step, v, i)
        /\ \A i \in 1 .. du : w(i) - w(i - 1) \in {-1, 0, 1}
    BY WalkStays
  <1>2. /\ \A i \in 0 .. du : w(i) \in Int
        /\ \A i \in 0 .. du : OffBy(du, dv, w(i) - v, i) <= du
    <2>1. \A i \in 0 .. du : i \in Nat
      OBVIOUS
    <2>2. \A i \in 0 .. du : w(i) \in Int
      BY <1>1 DEF Along
    <2> HIDE DEF w
    <2>3. ASSUME NEW i \in 0 .. du PROVE OffBy(du, dv, w(i) - v, i) <= du
      <3> DEFINE p == g[i]
      <3>1. Along(p, du, dy, step, v, i) /\ i \in Nat
        BY <1>1, <2>1
      <3> HIDE DEF p
      <3>2. OffBy(du, step * dy, p.minor - v, i) <= du
        BY <3>1, AlongIsNear
      <3> QED BY <3>2 DEF p, w
    <2> QED BY <2>2, <2>3
  <1>3. w(0) = v /\ w(du) = v + dv
    <2>1. w(0) = v
      <3> DEFINE p == g[0]
      <3>1. p = [error |-> du, minor |-> v]
        BY DEF Walks
      <3> HIDE DEF p
      <3>2. p.minor = v
        BY <3>1
      <3> QED BY <3>2 DEF p
    <2> DEFINE p == g[du]
    <2>2. Along(p, du, dy, step, v, du)
      BY <1>1
    <2>3. du = 0 => p.minor = v
      BY <2>1
    <2> HIDE DEF p
    <2>4. p.minor = v + step * dy
      BY <2>2, <2>3, WalkArrives
    <2> QED BY <2>1, <2>4 DEF p
  <1>4. /\ dv \in Int /\ AbsOf(dv) = dy
    BY DEF AbsOf
  <1>5. DOMAIN line = 0 .. du /\ \A i \in 0 .. du : line[i] = Point(steep, u + i, w(i))
    BY DEF Laid
  <1> HIDE DEF w, dv
  <1>6. Joined(start, end, steep, u, v, du, dv)
    BY DEF dv
  <1>7. \/ /\ start = Point(steep, u, v) /\ end = Point(steep, u + du, v + dv)
        \/ /\ end = Point(steep, u, v) /\ start = Point(steep, u + du, v + dv)
    BY <1>6 DEF Joined
  <1>8. long = du
    <2> DEFINE z == v + dv
               x == u + du
    <2>1. x \in Int /\ z \in Int /\ x - u = du /\ z - v = dv /\ u - x = -du /\ v - z = -dv
      BY <1>4
    <2>2. \/ start = Point(steep, u, v) /\ end = Point(steep, x, z)
          \/ end = Point(steep, u, v) /\ start = Point(steep, x, z)
      BY <1>7
    <2> HIDE DEF x, z
    <2>3. \/ dx = du /\ dz = dv
          \/ dx = dv /\ dz = du
          \/ dx = -du /\ dz = -dv
          \/ dx = -dv /\ dz = -du
      BY <2>1, <2>2 DEF Point
    <2> HIDE DEF dx, dz
    <2> QED BY <1>4, <2>3 DEF AbsOf, AtLeast
  <1>9. {start, end} \subseteq drawn
    <2>1. line[0] = Point(steep, u + 0, w(0)) /\ line[du] = Point(steep, u + du, w(du))
      BY <1>5
    <2>2. line[0] = Point(steep, u, v) /\ line[du] = Point(steep, u + du, v + dv)
      BY <1>3, <2>1
    <2>3. line[0] \in drawn /\ line[du] \in drawn
      BY <1>5
    <2> QED BY <1>7, <2>2, <2>3
  <1>10. Cardinality(drawn) = long + 1
    <2>1. \A i, j \in 0 .. du : line[i] = line[j] => i = j
      <3> SUFFICES ASSUME NEW i \in 0 .. du, NEW j \in 0 .. du, line[i] = line[j] PROVE i = j
        OBVIOUS
      <3> DEFINE x == u + i
                 z == u + j
      <3>1. Point(steep, x, w(i)) = Point(steep, z, w(j))
        BY <1>5
      <3> HIDE DEF x, z
      <3>2. x = z
        <4>1. CASE steep
          BY <3>1, <4>1 DEF Point
        <4>2. CASE ~ steep
          BY <3>1, <4>2 DEF Point
        <4> QED BY <4>1, <4>2
      <3> QED BY <3>2 DEF x, z
    <2> DEFINE S == 0 .. du
               f == [i \in S |-> line[i]]
    <2>2. drawn = {line[i] : i \in S}
      BY <1>5
    <2>3. f \in Bijection(S, drawn)
      <3>1. f \in [S -> drawn]
        BY <2>2
      <3>2. \A i, j \in S : f[i] = f[j] => i = j
        BY <2>1
      <3>3. \A d \in drawn : \E i \in S : f[i] = d
        BY <2>2
      <3> HIDE DEF f, S, drawn
      <3> QED BY <3>1, <3>2, <3>3 DEF Bijection, Injection, Surjection, IsInjective
    <2>4. IsFiniteSet(S) /\ Cardinality(S) = du + 1
      <3> DEFINE none == 0
      <3>1. none \in Int /\ du \in Int /\ none = 0 /\ ~ (none > du)
        OBVIOUS
      <3> HIDE DEF none
      <3>2. /\ IsFiniteSet(none .. du)
            /\ Cardinality(none .. du) = (IF none > du THEN 0 ELSE du - none + 1)
        BY <3>1, FS_Interval
      <3> QED BY <3>1, <3>2
    <2> HIDE DEF f, S, drawn
    <2>5. Cardinality(drawn) = Cardinality(S)
      <3>1. ExistsBijection(S, drawn)
        BY <2>3 DEF ExistsBijection
      <3> QED BY <2>4, <3>1, FS_Bijection
    <2> QED BY <1>8, <2>4, <2>5
  <1>11. ASSUME NEW i \in 0 .. du
         PROVE  LET p == line[i] IN 2 * AbsOf(dx * (p[2] - start[2]) - dz * (p[1] - start[1])) <= long
    <2> DEFINE z == v + dv
               x == u + du
               s == u + i
               y == w(i) - v
               off == 2 * AbsOf(dx * (line[i][2] - start[2]) - dz * (line[i][1] - start[1]))
    <2>1. /\ x \in Int /\ z \in Int /\ x - u = du /\ z - v = dv /\ u - x = -du /\ v - z = -dv
          /\ y \in Int /\ w(i) - v = y /\ w(i) - z = y - dv /\ s - u = i /\ s - x = i - du
      BY <1>2, <1>4
    <2>2. \/ start = Point(steep, u, v) /\ end = Point(steep, x, z)
          \/ end = Point(steep, u, v) /\ start = Point(steep, x, z)
      BY <1>7
    <2>3. line[i] = Point(steep, s, w(i))
      BY <1>5
    <2>4. OffBy(du, dv, y, i) <= du
      BY <1>2
    <2>5. du \in Int /\ i \in Int /\ y \in Int /\ dv \in Int
      BY <1>4, <2>1
    <2> HIDE DEF x, z, s, y
    <2>6. /\ 2 * AbsOf(dv * i - du * y) = OffBy(du, dv, y, i)
          /\ 2 * AbsOf((-du) * (y - dv) - (-dv) * (i - du)) = OffBy(du, dv, y, i)
          /\ 2 * AbsOf((-dv) * (i - du) - (-du) * (y - dv)) = OffBy(du, dv, y, i)
      <3>1. SameOff(du, dv, y, i)
        BY <2>5, OffEitherWay
      <3> QED BY <3>1 DEF SameOff
    <2>7. \/ off = 2 * AbsOf(dv * i - du * y)
          \/ off = 2 * AbsOf(du * y - dv * i)
          \/ off = 2 * AbsOf((-du) * (y - dv) - (-dv) * (i - du))
          \/ off = 2 * AbsOf((-dv) * (i - du) - (-du) * (y - dv))
      <3>1. CASE steep
        <4>1. CASE start = Point(steep, u, v) /\ end = Point(steep, x, z)
          <5>1. dx = dv /\ dz = du /\ line[i][2] - start[2] = i /\ line[i][1] - start[1] = y
            BY <2>1, <2>3, <3>1, <4>1 DEF Point
          <5> QED BY <5>1
        <4>2. CASE end = Point(steep, u, v) /\ start = Point(steep, x, z)
          <5>1. dx = -dv /\ dz = -du /\ line[i][2] - start[2] = i - du
                /\ line[i][1] - start[1] = y - dv
            BY <2>1, <2>3, <3>1, <4>2 DEF Point
          <5> QED BY <5>1
        <4> QED BY <2>2, <4>1, <4>2
      <3>2. CASE ~ steep
        <4>1. CASE start = Point(steep, u, v) /\ end = Point(steep, x, z)
          <5>1. dx = du /\ dz = dv /\ line[i][2] - start[2] = y /\ line[i][1] - start[1] = i
            BY <2>1, <2>3, <3>2, <4>1 DEF Point
          <5> QED BY <5>1
        <4>2. CASE end = Point(steep, u, v) /\ start = Point(steep, x, z)
          <5>1. dx = -du /\ dz = -dv /\ line[i][2] - start[2] = y - dv
                /\ line[i][1] - start[1] = i - du
            BY <2>1, <2>3, <3>2, <4>2 DEF Point
          <5> QED BY <5>1
        <4> QED BY <2>2, <4>1, <4>2
      <3> QED BY <3>1, <3>2
    <2> HIDE DEF off
    <2>8. off = OffBy(du, dv, y, i)
      BY <2>6, <2>7 DEF OffBy
    <2>9. off <= long
      BY <1>8, <2>4, <2>8
    <2> QED BY <2>9 DEF off
  <1>12. ASSUME NEW i \in 1 .. du, NEW k \in 1 .. 2
         PROVE  AbsOf(line[i][k] - line[i - 1][k]) <= 1
    <2> DEFINE x == u + i
               z == u + (i - 1)
               y == w(i)
               s == w(i - 1)
    <2>1. /\ i \in 0 .. du /\ i - 1 \in 0 .. du
      OBVIOUS
    <2>2. /\ x - z = 1 /\ y - s \in {-1, 0, 1}
      BY <1>1
    <2>3. line[i] = Point(steep, x, y) /\ line[i - 1] = Point(steep, z, s)
      BY <1>5, <2>1
    <2> HIDE DEF x, y, z, s
    <2>4. k = 1 \/ k = 2
      OBVIOUS
    <2>5. line[i][k] - line[i - 1][k] \in {-1, 0, 1}
      <3>1. CASE steep
        BY <2>2, <2>3, <2>4, <3>1 DEF Point
      <3>2. CASE ~ steep
        BY <2>2, <2>3, <2>4, <3>2 DEF Point
      <3> QED BY <3>1, <3>2
    <2> QED BY <2>5 DEF AbsOf
  <1>13. DOMAIN line \ {0} = 1 .. du
    BY <1>5
  <1>14. \A p \in drawn : 2 * AbsOf(dx * (p[2] - start[2]) - dz * (p[1] - start[1])) <= long
    BY <1>5, <1>11
  <1> QED BY <1>9, <1>10, <1>12, <1>13, <1>14 DEF IsStraight

\* A line between any two pixels is straight.
LEMMA LinesAreStraight ==
  ASSUME NEW start \in Int \X Int, NEW end \in Int \X Int
  PROVE  IsStraight(BresenhamLineIter(start, end), start, end)
  <1> DEFINE line == BresenhamLineIter(start, end)
  <1>1. PICK steep \in BOOLEAN, u \in Int, v \in Int, du \in Nat, dy \in Nat, step \in {1, -1} :
           \E g : /\ dy <= du /\ Walks(g, du, dy, step, v, du)
                  /\ Laid(line, steep, u, g, du)
                  /\ Joined(start, end, steep, u, v, du, step * dy)
    BY LineIs
  <1>2. PICK g : /\ dy <= du /\ Walks(g, du, dy, step, v, du)
                 /\ Laid(line, steep, u, g, du)
                 /\ Joined(start, end, steep, u, v, du, step * dy)
    BY <1>1
  <1> DEFINE dv == step * dy
  <1>3. dy \in 0 .. du
    BY <1>2
  <1> HIDE DEF line
  <1>4. IsStraight(line, start, end)
    BY <1>2, <1>3, WalkIsStraight
  <1> QED BY <1>4 DEF line

\* One point of an octant further.
Rounded(last, n) ==
  IF Decide(last.p)
  THEN [x |-> n, y |-> last.y, p |-> last.p + 2 * n + 1]
  ELSE [x |-> n, y |-> last.y - 1, p |-> last.p + 2 * (n - (last.y - 1)) + 1]

\* The points of draw_hollow_circle_mut.
Rounds(g, radius, n) ==
  /\ g[0] = [x |-> 0, y |-> radius, p |-> 1 - radius]
  /\ \A i \in 1 .. n : g[i] = Rounded(g[i - 1], i)

\* There are always such points.
LEMMA RoundsExist ==
  ASSUME NEW n \in Nat, NEW radius
  PROVE  \E g : Rounds(g, radius, n) /\ Indexed(g, n)
  <1> DEFINE wrong == {m \in Nat : ~ \E g : Rounds(g, radius, m) /\ Indexed(g, m)}
             least == Min(wrong)
  <1> SUFFICES ASSUME n \in wrong PROVE FALSE
    OBVIOUS
  <1>1. least \in wrong /\ \A j \in wrong : least <= j
    <2>1. wrong \in SUBSET Nat /\ wrong # {}
      OBVIOUS
    <2> HIDE DEF wrong
    <2> QED BY <2>1, LeastExists
  <1> HIDE DEF least
  <1>2. CASE least = 0
    <2> DEFINE first == [x |-> 0, y |-> radius, p |-> 1 - radius]
               one == [i \in 0 .. 0 |-> first]
    <2> HIDE DEF first
    <2>1. one[0] = first /\ Indexed(one, 0)
      BY DEF Indexed
    <2> HIDE DEF one
    <2>2. Rounds(one, radius, 0)
      BY <2>1 DEF Rounds, first
    <2> QED BY <1>1, <1>2, <2>1, <2>2
  <1>3. CASE least # 0
    <2>1. least \in Nat /\ least - 1 \in Nat /\ ~ (least <= least - 1)
      BY <1>1, <1>3
    <2>2. PICK g : Rounds(g, radius, least - 1)
      BY <1>1, <2>1
    <2> DEFINE last == Rounded(g[least - 1], least)
               g2 == [i \in 0 .. least |-> IF i = least THEN last ELSE g[i]]
    <2> HIDE DEF last
    <2>3. Indexed(g2, least)
      BY DEF Indexed
    <2>4. /\ g2[least] = last
          /\ \A i \in 0 .. least - 1 : g2[i] = g[i]
      BY <2>1
    <2> HIDE DEF g2
    <2>5. g2[0] = g[0]
      BY <2>1, <2>4
    <2>6. ASSUME NEW i \in 1 .. least PROVE g2[i] = Rounded(g2[i - 1], i)
      <3>1. CASE i = least
        <4>1. least - 1 \in 0 .. least - 1
          BY <2>1
        <4>2. g2[least - 1] = g[least - 1]
          BY <2>4, <4>1
        <4> QED BY <2>4, <3>1, <4>2 DEF last
      <3>2. CASE i # least
        <4>1. i \in 1 .. least - 1 /\ i \in 0 .. least - 1 /\ i - 1 \in 0 .. least - 1
          BY <2>1, <3>2
        <4>2. g[i] = Rounded(g[i - 1], i)
          BY <2>2, <4>1 DEF Rounds
        <4> QED BY <2>4, <4>1, <4>2
      <3> QED BY <3>1, <3>2
    <2>7. Rounds(g2, radius, least)
      BY <2>2, <2>5, <2>6 DEF Rounds
    <2> QED BY <1>1, <2>3, <2>7
  <1> QED BY <1>2, <1>3

\* A point is on the circle: the decision is where the middle of the next two
\* lies, and up to the diagonal the circle passes within half a pixel.
OnCircle(s, radius, n) ==
  /\ s.x = n /\ s.y \in Int /\ s.y <= radius
  /\ s.p = (n * n + 2 * n + 1) + s.y * s.y - s.y - radius * radius
  /\ n <= s.y => /\ n * n + s.y * s.y - s.y <= radius * radius
                 /\ radius * radius <= n * n + s.y * s.y + s.y

\* The next one is, too.
LEMMA RoundedKeeps ==
  ASSUME NEW radius \in Nat, NEW n \in Nat \ {0}, NEW s, OnCircle(s, radius, n - 1)
  PROVE  /\ OnCircle(Rounded(s, n), radius, n)
         /\ Rounded(s, n).y \in {s.y, s.y - 1}
  <1> DEFINE t == Rounded(s, n)
             y == s.y
             p == s.p
             m == n - 1
             N == n * n
             Y == y * y
             R == radius * radius
             z == y - 1
  <1>1. /\ y \in Int /\ y <= radius /\ p = (m * m + 2 * m + 1) + Y - y - R
        /\ m <= y => m * m + Y - y <= R /\ R <= m * m + Y + y
    BY DEF OnCircle
  <1> HIDE DEF y, p
  <1>2. N \in Int /\ Y \in Int /\ R \in Int /\ m * m = N - 2 * n + 1 /\ z * z = Y - 2 * y + 1
    BY <1>1
  <1> HIDE DEF N, Y, R
  <1>3. /\ p = N + Y - y - R
        /\ n - 1 <= y => N - 2 * n + 1 + Y - y <= R /\ R <= N - 2 * n + 1 + Y + y
    BY <1>1, <1>2
  <1>4. CASE p < 0
    <2>1. t.x = n /\ t.y = y /\ t.p = p + 2 * n + 1
      BY <1>4 DEF Rounded, Decide, y, p
    <2> HIDE DEF t
    <2>2. p + 2 * n + 1 = (N + 2 * n + 1) + Y - y - R
      BY <1>1, <1>2, <1>3
    <2>3. n <= y => N + Y - y <= R /\ R <= N + Y + y
      BY <1>1, <1>2, <1>3, <1>4
    <2>4. OnCircle(t, radius, n)
      BY <1>1, <2>1, <2>2, <2>3 DEF OnCircle, N, Y, R
    <2> QED BY <2>1, <2>4 DEF t, y
  <1>5. CASE ~ (p < 0)
    <2>1. t.x = n /\ t.y = z /\ t.p = p + 2 * (n - z) + 1
      BY <1>5 DEF Rounded, Decide, y, p
    <2> HIDE DEF t
    <2> DEFINE Z == z * z
    <2>2. Z = Y - 2 * y + 1
      BY <1>2
    <2> HIDE DEF Z
    <2>3. p + 2 * (n - z) + 1 = (N + 2 * n + 1) + Z - z - R
      BY <1>1, <1>2, <1>3, <2>2
    <2>4. n <= z => N + Z - z <= R /\ R <= N + Z + z
      BY <1>1, <1>2, <1>3, <1>5, <2>2
    <2>5. z \in Int /\ z <= radius
      BY <1>1
    <2> HIDE DEF z
    <2>6. OnCircle(t, radius, n)
      BY <2>1, <2>3, <2>4, <2>5 DEF OnCircle, N, Z, R
    <2> QED BY <2>1, <2>6 DEF t, y, z
  <1> HIDE DEF t
  <1> QED BY <1>4, <1>5 DEF t, y

\* So every point is.
LEMMA RoundsStay ==
  ASSUME NEW radius \in Nat, NEW g, Rounds(g, radius, radius)
  PROVE  /\ \A i \in 0 .. radius : OnCircle(g[i], radius, i)
         /\ \A i \in 1 .. radius : g[i].y \in {g[i - 1].y, g[i - 1].y - 1}
         /\ g[0].y = radius
  <1> DEFINE Good(i) == OnCircle(g[i], radius, i)
             wrong == {i \in 0 .. radius : ~ Good(i)}
             least == Min(wrong)
  <1>1. Good(0) /\ g[0].y = radius
    <2> DEFINE s == g[0]
               R == radius * radius
    <2>1. s = [x |-> 0, y |-> radius, p |-> 1 - radius]
      BY DEF Rounds
    <2> HIDE DEF s
    <2>2. s.x = 0 /\ s.y = radius /\ s.p = 1 - radius
      BY <2>1
    <2>3. R \in Int /\ 0 * 0 = 0
      OBVIOUS
    <2>4. OnCircle(s, radius, 0)
      BY <2>2, <2>3 DEF OnCircle
    <2> QED BY <2>2, <2>4 DEF s
  <1>2. ASSUME NEW i \in 1 .. radius, Good(i - 1)
        PROVE  Good(i) /\ g[i].y \in {g[i - 1].y, g[i - 1].y - 1}
    <2> DEFINE s == g[i - 1]
    <2>1. i \in Nat \ {0} /\ OnCircle(s, radius, i - 1) /\ g[i] = Rounded(s, i)
      BY <1>2 DEF Rounds
    <2> HIDE DEF s
    <2>2. OnCircle(Rounded(s, i), radius, i) /\ Rounded(s, i).y \in {s.y, s.y - 1}
      BY <2>1, RoundedKeeps
    <2> QED BY <2>1, <2>2 DEF s
  <1> HIDE DEF Good
  <1>3. wrong = {}
    <2> SUFFICES ASSUME wrong # {} PROVE FALSE
      OBVIOUS
    <2>1. wrong \in SUBSET Nat
      OBVIOUS
    <2>2. least \in wrong /\ \A j \in wrong : least <= j
      <3> HIDE DEF wrong
      <3> QED BY <2>1, LeastExists
    <2> HIDE DEF least
    <2>3. least # 0
      BY <1>1, <2>2
    <2>4. least \in 1 .. radius /\ least - 1 \in 0 .. radius /\ ~ (least <= least - 1)
      BY <2>2, <2>3
    <2>5. Good(least - 1)
      BY <2>2, <2>4
    <2>6. Good(least)
      BY <1>2, <2>4, <2>5
    <2> QED BY <2>2, <2>6
  <1>4. \A i \in 0 .. radius : Good(i)
    BY <1>3
  <1>5. \A i \in 1 .. radius : i - 1 \in 0 .. radius
    OBVIOUS
  <1> QED BY <1>1, <1>2, <1>4, <1>5 DEF Good

\* The octant is those of them up to the diagonal.
LEMMA OctantIs ==
  ASSUME NEW radius \in Nat
  PROVE  \E g : /\ Rounds(g, radius, radius)
                /\ Octant(radius) = {<<g[n].x, g[n].y>> : n \in {m \in 0 .. radius : g[m].x <= g[m].y}}
  <1> DEFINE Step(g) == [n \in 0 .. radius |->
               IF n = 0 THEN [x |-> 0, y |-> radius, p |-> 1 - radius]
               ELSE LET last == g[n - 1] IN
                    IF Decide(last.p)
                    THEN [x |-> n, y |-> last.y, p |-> last.p + 2 * n + 1]
                    ELSE [x |-> n, y |-> last.y - 1, p |-> last.p + 2 * (n - (last.y - 1)) + 1]]
             walk == CHOOSE g : g = Step(g)
             first == [x |-> 0, y |-> radius, p |-> 1 - radius]
  <1>1. Octant(radius) = {<<walk[n].x, walk[n].y>> : n \in {m \in 0 .. radius : walk[m].x <= walk[m].y}}
    BY DEF Octant
  <1>2. \A g : Step(g) = [n \in 0 .. radius |-> IF n = 0 THEN first ELSE Rounded(g[n - 1], n)]
    BY DEF Rounded
  <1> HIDE DEF Step
  <1>3. PICK g : Rounds(g, radius, radius) /\ Indexed(g, radius)
    BY RoundsExist
  <1>4. g = Step(g)
    <2>1. \A n \in 0 .. radius : n # 0 => n \in 1 .. radius
      OBVIOUS
    <2>2. \A n \in 0 .. radius : g[n] = IF n = 0 THEN first ELSE Rounded(g[n - 1], n)
      BY <1>3, <2>1 DEF Rounds
    <2> HIDE DEF first
    <2> QED BY <1>2, <1>3, <2>2 DEF Indexed
  <1>5. walk = Step(walk)
    BY <1>4
  <1> HIDE DEF walk
  <1>6. Rounds(walk, radius, radius)
    <2> HIDE DEF first
    <2>1. \A n \in 0 .. radius : walk[n] = IF n = 0 THEN first ELSE Rounded(walk[n - 1], n)
      BY <1>2, <1>5
    <2>2. 0 \in 0 .. radius /\ \A n \in 1 .. radius : n \in 0 .. radius /\ n # 0
      OBVIOUS
    <2>3. walk[0] = first /\ \A n \in 1 .. radius : walk[n] = Rounded(walk[n - 1], n)
      BY <2>1, <2>2
    <2> QED BY <2>3 DEF Rounds, first
  <1> QED BY <1>1, <1>6

\* Within half a pixel of the circle along one axis.
NearCircle(r, x, y) ==
  LET left == 4 * (Square(r) - Square(x))
  IN  Square(2 * AbsOf(y) - 1) <= left + 1 /\ left <= Square(2 * AbsOf(y) + 1) + 1

\* So is every image of a point of the octant.
LEMMA ImageIsNear ==
  ASSUME NEW r \in Nat, NEW n \in Nat, NEW y \in Int, n <= y, NEW a \in {n, -n}, NEW b \in {y, -y},
         n * n + y * y - y <= r * r, r * r <= n * n + y * y + y
  PROVE  NearCircle(r, a, b)
  <1> DEFINE N == n * n
             Y == y * y
             R == r * r
  <1>1. a * a = N /\ AbsOf(b) = y
    BY DEF AbsOf
  <1>2. (2 * y - 1) * (2 * y - 1) = 4 * Y - 4 * y + 1 /\ (2 * y + 1) * (2 * y + 1) = 4 * Y + 4 * y + 1
    OBVIOUS
  <1>3. N \in Int /\ Y \in Int /\ R \in Int /\ N + Y - y <= R /\ R <= N + Y + y
    OBVIOUS
  <1> HIDE DEF N, Y, R
  <1>4. /\ 4 * Y - 4 * y + 1 <= 4 * (R - N) + 1
        /\ 4 * (R - N) <= 4 * Y + 4 * y + 1 + 1
    BY <1>3
  <1> QED BY <1>1, <1>2, <1>4 DEF NearCircle, Square, R

\* The four images of a point.
Images(n, y) == Signed(<<n, y>>)

\* Points as far from the axes as it is, on both sides.
AreImages(points, n, y) ==
  /\ \A p \in points : p[1] \in {n, -n} /\ p[2] \in {y, -y}
  /\ \E p \in points : p[1] = n
  /\ \E p \in points : p[1] = -n

\* The images are.
LEMMA ImagesAre ==
  ASSUME NEW n \in Int, NEW y \in Int
  PROVE  AreImages(Images(n, y), n, y)
  <1> DEFINE points == Images(n, y)
  <1>1. ASSUME NEW p \in points
        PROVE  p[1] \in {n, -n} /\ p[2] \in {y, -y}
    <2>1. PICK i \in {-1, 1}, j \in {-1, 1} : p = <<i * n, j * y>>
      BY <1>1 DEF Signed, Images
    <2>2. i * n \in {n, -n} /\ j * y \in {y, -y}
      OBVIOUS
    <2> QED BY <2>1, <2>2
  <1>2. 1 * n = n /\ -1 * n = -n /\ 1 * y = y
    OBVIOUS
  <1>3. <<1 * n, 1 * y>> \in points /\ <<-1 * n, 1 * y>> \in points
    BY DEF Signed, Images
  <1>4. <<n, y>> \in points /\ <<-n, y>> \in points
    BY <1>2, <1>3
  <1> HIDE DEF points
  <1>5. (\E p \in points : p[1] = n) /\ (\E p \in points : p[1] = -n)
    BY <1>4
  <1>6. AreImages(points, n, y)
    BY <1>1, <1>5 DEF AreImages
  <1> QED BY <1>6 DEF points

\* Every column of the circle has a point of the octant, or one mirrored at
\* the diagonal.
LEMMA OctantCovers ==
  ASSUME NEW radius \in Nat, NEW g, Rounds(g, radius, radius), NEW m \in 0 .. radius
  PROVE  \E n \in 0 .. radius : n <= g[n].y /\ (n = m \/ g[n].y = m)
  <1>1. /\ \A i \in 0 .. radius : g[i].y \in Int
        /\ \A i \in 1 .. radius : g[i].y \in {g[i - 1].y, g[i - 1].y - 1}
        /\ g[0].y = radius
    BY RoundsStay DEF OnCircle
  <1> DEFINE y(i) == g[i].y
             low == {i \in 0 .. radius : y(i) <= m}
             least == Min(low)
  <1>2. CASE m <= y(m)
    BY <1>2
  <1>3. CASE ~ (m <= y(m))
    <2>1. \A i \in 0 .. radius : y(i) \in Int
      BY <1>1
    <2>2. m \in low
      BY <1>3, <2>1
    <2>3. low \in SUBSET Nat
      OBVIOUS
    <2>4. least \in low /\ \A j \in low : least <= j
      <3> HIDE DEF low
      <3> QED BY <2>2, <2>3, LeastExists
    <2> HIDE DEF least
    <2>5. least \in 0 .. radius /\ y(least) <= m /\ least <= m
      BY <2>2, <2>4
    <2>6. CASE least = 0
      BY <1>1, <2>5, <2>6
    <2>7. CASE least # 0
      <3>1. least \in 1 .. radius /\ least - 1 \in 0 .. radius /\ ~ (least <= least - 1)
        BY <2>5, <2>7
      <3>2. ~ (y(least - 1) <= m)
        BY <2>4, <3>1
      <3>3. y(least) \in {y(least - 1), y(least - 1) - 1}
        BY <1>1, <3>1
      <3>4. y(least) \in Int /\ y(least - 1) \in Int
        BY <2>1, <2>5, <3>1
      <3>5. y(least) = m
        <4> HIDE DEF y
        <4> QED BY <2>5, <3>2, <3>3, <3>4
      <3> QED BY <2>5, <3>5
    <2> QED BY <2>6, <2>7
  <1> QED BY <1>2, <1>3

\* A circle of any radius is round.
LEMMA CirclesAreRound ==
  ASSUME NEW r \in Nat
  PROVE  /\ \A p \in Circle(r) : NearCircle(r, p[1], p[2]) \/ NearCircle(r, p[2], p[1])
         /\ {p[1] : p \in Circle(r)} = -r .. r
  <1>1. PICK g : /\ Rounds(g, r, r)
                 /\ Octant(r) = {<<g[n].x, g[n].y>> : n \in {m \in 0 .. r : g[m].x <= g[m].y}}
    BY OctantIs
  <1> DEFINE y(n) == g[n].y
             up == {n \in 0 .. r : n <= y(n)}
  <1>2. \A n \in 0 .. r : OnCircle(g[n], r, n)
    BY <1>1, RoundsStay
  <1>3. \A n \in 0 .. r : g[n].x = n /\ y(n) \in Int /\ y(n) <= r
    BY <1>2 DEF OnCircle
  <1>4. \A n \in up : n * n + y(n) * y(n) - y(n) <= r * r /\ r * r <= n * n + y(n) * y(n) + y(n)
    BY <1>2 DEF OnCircle
  <1>5. Octant(r) = {<<n, y(n)>> : n \in up}
    BY <1>1, <1>3
  <1>6. \A p : p \in Circle(r) <=> \E n \in up : p \in Images(n, y(n)) \/ p \in Images(y(n), n)
    <2> DEFINE eight(q) == Signed(q) \union Signed(Swapped(q))
    <2>1. \A p : p \in Circle(r) <=> \E q \in Octant(r) : p \in eight(q)
      BY DEF Circle
    <2>2. \A n, m : eight(<<n, m>>) = Images(n, m) \union Images(m, n)
      BY DEF Swapped, Images
    <2> HIDE DEF y, up, eight
    <2>3. \A p : p \in Circle(r) <=> \E n \in up : p \in eight(<<n, y(n)>>)
      BY <1>5, <2>1
    <2>4. \A p, n : p \in eight(<<n, y(n)>>) <=> p \in Images(n, y(n)) \/ p \in Images(y(n), n)
      BY <2>2
    <2> QED BY <2>3, <2>4
  <1>7. \A n \in up : n \in Nat /\ n \in Int /\ y(n) \in Int /\ n <= y(n) /\ y(n) <= r
    BY <1>3
  <1>8. \A m \in 0 .. r : \E n \in up : n = m \/ y(n) = m
    BY <1>1, OctantCovers
  <1> HIDE DEF y, up
  <1>9. ASSUME NEW p \in Circle(r)
        PROVE  (NearCircle(r, p[1], p[2]) \/ NearCircle(r, p[2], p[1])) /\ p[1] \in -r .. r
    <2>1. PICK n \in up : p \in Images(n, y(n)) \/ p \in Images(y(n), n)
      BY <1>6
    <2> DEFINE z == y(n)
    <2>2. n \in Nat /\ n \in Int /\ z \in Int /\ n <= z /\ z <= r
      BY <1>7
    <2>3. n * n + z * z - z <= r * r /\ r * r <= n * n + z * z + z
      BY <1>4
    <2>4. p \in Images(n, z) \/ p \in Images(z, n)
      BY <2>1
    <2> HIDE DEF z
    <2> DEFINE a == p[1]
               b == p[2]
    <2>5. (a \in {n, -n} /\ b \in {z, -z}) \/ (a \in {z, -z} /\ b \in {n, -n})
      BY <2>2, <2>4, ImagesAre DEF AreImages
    <2> HIDE DEF a, b
    <2>6. NearCircle(r, a, b) \/ NearCircle(r, b, a)
      BY <2>2, <2>3, <2>5, ImageIsNear
    <2>7. a \in -r .. r
      BY <2>2, <2>5
    <2> QED BY <2>6, <2>7 DEF a, b
  <1>10. ASSUME NEW c \in -r .. r
         PROVE  \E p \in Circle(r) : p[1] = c
    <2>1. PICK m \in 0 .. r : c = m \/ c = -m
      <3>1. CASE c >= 0
        BY <3>1
      <3>2. CASE ~ (c >= 0)
        <4>1. -c \in 0 .. r /\ c = -(-c)
          BY <3>2
        <4> QED BY <4>1
      <3> QED BY <3>1, <3>2
    <2>2. PICK n \in up : n = m \/ y(n) = m
      BY <1>8
    <2> DEFINE z == y(n)
    <2>3. n \in Int /\ z \in Int
      BY <1>7
    <2>4. \A p : p \in Images(n, z) \/ p \in Images(z, n) => p \in Circle(r)
      BY <1>6
    <2>5. n = m \/ z = m
      BY <2>2
    <2> HIDE DEF z
    <2>6. CASE n = m
      <3>1. AreImages(Images(n, z), n, z)
        BY <2>3, ImagesAre
      <3>2. c = n \/ c = -n
        BY <2>1, <2>6
      <3>3. \E p \in Images(n, z) : p[1] = c
        BY <3>1, <3>2 DEF AreImages
      <3> QED BY <2>4, <3>3
    <2>7. CASE z = m
      <3>1. AreImages(Images(z, n), z, n)
        BY <2>3, ImagesAre
      <3>2. c = z \/ c = -z
        BY <2>1, <2>7
      <3>3. \E p \in Images(z, n) : p[1] = c
        BY <3>1, <3>2 DEF AreImages
      <3> QED BY <2>4, <3>3
    <2> QED BY <2>5, <2>6, <2>7
  <1>11. {p[1] : p \in Circle(r)} = -r .. r
    BY <1>9, <1>10
  <1> QED BY <1>9, <1>11

-----------------------------------------------------------------------------
(***************************************************************************)
(* Colours, ramps, strokes and paint.                                      *)
(***************************************************************************)
\* How far x is along one axis of a ramp.
AlongAxis(x, most, slope) == x * slope - AtMost(slope, 0) * most

\* Along it a ramp runs from its start to its end, whichever way it points.
LEMMA AxisSpanned ==
  ASSUME NEW most \in Nat, NEW slope \in Int
  PROVE  /\ AbsOf(slope) * most \in Nat
         /\ \A x \in 0 .. most : AlongAxis(x, most, slope) \in 0 .. AbsOf(slope) * most
         /\ \E x \in 0 .. most : AlongAxis(x, most, slope) = 0
         /\ \E x \in 0 .. most : AlongAxis(x, most, slope) = AbsOf(slope) * most
  <1> DEFINE u(x) == AlongAxis(x, most, slope)
             all == AbsOf(slope) * most
  <1>0. 0 \in 0 .. most /\ most \in 0 .. most
    OBVIOUS
  <1>1. CASE slope >= 0
    <2>1. all = slope * most /\ \A x \in 0 .. most : u(x) = x * slope
      BY <1>1 DEF AbsOf, AlongAxis, AtMost
    <2>2. slope * most \in Nat /\ 0 * slope = 0 /\ most * slope = slope * most
      BY <1>1
    <2>3. ASSUME NEW x \in 0 .. most PROVE x * slope \in 0 .. slope * most
      <3> DEFINE rest == most - x
      <3>1. rest \in Nat /\ rest * slope \in Nat /\ x * slope \in Nat
        BY <1>1
      <3>2. rest * slope = slope * most - x * slope
        OBVIOUS
      <3> QED BY <2>2, <3>1, <3>2
    <2> QED BY <1>0, <2>1, <2>2, <2>3
  <1>2. CASE ~ (slope >= 0)
    <2> DEFINE down == -slope
    <2>1. down \in Nat
      BY <1>2
    <2>2. all = down * most /\ down * most \in Nat
      BY <1>2, <2>1 DEF AbsOf
    <2>3. ASSUME NEW x \in 0 .. most
          PROVE  u(x) = (most - x) * down /\ u(x) \in 0 .. down * most
      <3>1. u(x) = x * slope - slope * most
        BY <1>2 DEF AlongAxis, AtMost
      <3>2. x * slope - slope * most = (most - x) * down
        OBVIOUS
      <3>3. most - x \in Nat /\ (most - x) * down \in Nat /\ x * down \in Nat
        BY <2>1
      <3>4. (most - x) * down = down * most - x * down
        OBVIOUS
      <3> HIDE DEF u, down
      <3> QED BY <2>2, <3>1, <3>2, <3>3, <3>4
    <2>4. (most - most) * down = 0 /\ (most - 0) * down = down * most
      BY <2>1
    <2>5. u(most) = 0 /\ u(0) = all
      <3> HIDE DEF u, all, down
      <3> QED BY <1>0, <2>2, <2>3, <2>4
    <2>6. all \in Nat /\ \A x \in 0 .. most : u(x) \in 0 .. all
      <3> HIDE DEF u, all, down
      <3> QED BY <2>2, <2>3
    <2> HIDE DEF u, all
    <2>7. (\E x \in 0 .. most : u(x) = 0) /\ (\E x \in 0 .. most : u(x) = all)
      BY <1>0, <2>5
    <2> QED BY <2>6, <2>7 DEF u, all
  <1> QED BY <1>1, <1>2

\* What RampSpansBox asks of a ramp.
Spans(w, h, cos, sin) ==
  LET ramp == across(w, h, cos, sin)
      along == {p[1] * cos + p[2] * sin - ramp.origin : p \in Box(w, h)}
  IN  Box(w, h) # {} =>
        /\ 0 \in along /\ ramp.span \in along
        /\ along \subseteq 0 .. ramp.span
        /\ {RampAt(ramp, p) : p \in Box(w, h)} = along

\* A ramp spans a box of any size, in any direction.
LEMMA RampsSpan ==
  ASSUME NEW w \in Int, NEW h \in Int, NEW cos \in Int, NEW sin \in Int
  PROVE  Spans(w, h, cos, sin)
  <1> DEFINE ramp == across(w, h, cos, sin)
             right == w - 1
             bottom == h - 1
             u(x) == AlongAxis(x, right, cos)
             v(y) == AlongAxis(y, bottom, sin)
             wide == AbsOf(cos) * right
             high == AbsOf(sin) * bottom
             away(p) == p[1] * cos + p[2] * sin - ramp.origin
  <1> SUFFICES ASSUME Box(w, h) # {}
               PROVE  /\ \E p \in Box(w, h) : away(p) = 0
                      /\ \E p \in Box(w, h) : away(p) = ramp.span
                      /\ \A p \in Box(w, h) : away(p) \in 0 .. ramp.span /\ RampAt(ramp, p) = away(p)
    BY DEF Spans
  <1>1. right \in Nat /\ bottom \in Nat
    BY DEF Box
  <1>2. \A p : p \in Box(w, h) <=> \E x \in 0 .. right, y \in 0 .. bottom : p = <<x, y>>
    BY DEF Box
  <1>3. /\ wide \in Nat /\ \A x \in 0 .. right : u(x) \in 0 .. wide
        /\ (\E x \in 0 .. right : u(x) = 0) /\ (\E x \in 0 .. right : u(x) = wide)
    BY <1>1, AxisSpanned
  <1>4. /\ high \in Nat /\ \A y \in 0 .. bottom : v(y) \in 0 .. high
        /\ (\E y \in 0 .. bottom : v(y) = 0) /\ (\E y \in 0 .. bottom : v(y) = high)
    BY <1>1, AxisSpanned
  <1>5. /\ ramp.span = wide + high
        /\ ramp.origin = AtMost(cos, 0) * right + AtMost(sin, 0) * bottom
        /\ ramp.cos = cos /\ ramp.sin = sin
    BY <1>1 DEF across, AtLeast
  <1>6. ASSUME NEW x \in 0 .. right, NEW y \in 0 .. bottom
        PROVE  away(<<x, y>>) = u(x) + v(y)
    <2> DEFINE a == x * cos
               b == y * sin
               c == AtMost(cos, 0) * right
               d == AtMost(sin, 0) * bottom
    <2>1. a \in Int /\ b \in Int /\ c \in Int /\ d \in Int
      BY DEF AtMost
    <2>2. away(<<x, y>>) = a + b - (c + d) /\ u(x) = a - c /\ v(y) = b - d
      BY <1>5 DEF AlongAxis
    <2> HIDE DEF a, b, c, d, away, u, v
    <2> QED BY <2>1, <2>2
  <1>7. \A p \in Box(w, h) : RampAt(ramp, p) = IF ramp.span <= 0 THEN 0 ELSE Clamped(away(p), 0, ramp.span)
    BY <1>5 DEF RampAt
  <1> HIDE DEF ramp, u, v, wide, high, away, right, bottom
  <1>8. \A p \in Box(w, h) : away(p) \in 0 .. ramp.span
    BY <1>2, <1>3, <1>4, <1>5, <1>6
  <1>9. (\E p \in Box(w, h) : away(p) = 0) /\ (\E p \in Box(w, h) : away(p) = ramp.span)
    <2>1. PICK x \in 0 .. right, y \in 0 .. bottom : u(x) = 0 /\ v(y) = 0
      BY <1>3, <1>4
    <2>2. <<x, y>> \in Box(w, h) /\ away(<<x, y>>) = 0
      BY <1>2, <1>6, <2>1
    <2>3. PICK s \in 0 .. right, t \in 0 .. bottom : u(s) = wide /\ v(t) = high
      BY <1>3, <1>4
    <2>4. <<s, t>> \in Box(w, h) /\ away(<<s, t>>) = ramp.span
      BY <1>2, <1>5, <1>6, <2>3
    <2> QED BY <2>2, <2>4
  <1>10. \A p \in Box(w, h) : RampAt(ramp, p) = away(p)
    <2>1. ramp.span \in Nat
      BY <1>3, <1>4, <1>5
    <2> QED BY <1>7, <1>8, <2>1 DEF Clamped, AtLeast, AtMost
  <1> QED BY <1>8, <1>9, <1>10

\* The pixels LeastWithin looks at, from the one it is about.
Disc(squared, reach) ==
  {q \in (-reach .. reach) \X (-reach .. reach) : q[1] * q[1] + q[2] * q[2] <= squared}

\* What it sees there.
SeenAt(mask, p, q) == at(mask, p[1] + q[1], p[2] + q[2])

\* A mask of any size, with any coverage.
IsMask(mask) ==
  /\ DOMAIN mask = {"width", "height", "left", "top", "coverage"}
  /\ mask.width \in Nat /\ mask.height \in Nat
  /\ mask.coverage \in [Box(mask.width, mask.height) -> Nat]

\* Coverage is a number wherever it is looked at.
LEMMA CoverageAt ==
  ASSUME NEW mask, IsMask(mask), NEW x \in Int, NEW y \in Int
  PROVE  /\ at(mask, x, y) \in Nat
         /\ <<x, y>> \in Box(mask.width, mask.height) => at(mask, x, y) = mask.coverage[<<x, y>>]
  <1> DEFINE w == mask.width
             h == mask.height
  <1>1. w \in Nat /\ h \in Nat /\ mask.coverage \in [Box(w, h) -> Nat]
    BY DEF IsMask
  <1> HIDE DEF w, h
  <1>2. <<x, y>> \in Box(w, h) <=> ~ (x < 0 \/ y < 0 \/ x >= w \/ y >= h)
    BY <1>1 DEF Box
  <1>3. at(mask, x, y) = IF <<x, y>> \in Box(w, h) THEN mask.coverage[<<x, y>>] ELSE 0
    BY <1>2 DEF at, w, h
  <1> QED BY <1>1, <1>3 DEF w, h

\* The least coverage of a disc is that of one of its pixels, and of no more.
LEMMA LeastWithinIs ==
  ASSUME NEW mask, IsMask(mask), NEW p \in Int \X Int, NEW squared \in Nat, NEW reach \in Nat
  PROVE  /\ LeastWithin(mask, p, squared, reach) \in Nat
         /\ \A q \in Disc(squared, reach) : LeastWithin(mask, p, squared, reach) <= SeenAt(mask, p, q)
         /\ \E q \in Disc(squared, reach) : LeastWithin(mask, p, squared, reach) = SeenAt(mask, p, q)
  <1> DEFINE disc == Disc(squared, reach)
             seen == {SeenAt(mask, p, q) : q \in disc}
             least == LeastWithin(mask, p, squared, reach)
  <1>1. least = Min(seen)
    BY DEF LeastWithin, Min, Disc, SeenAt
  <1>2. <<0, 0>> \in disc
    BY DEF Disc
  <1>3. \A q \in disc : q[1] \in Int /\ q[2] \in Int
    BY DEF Disc
  <1> HIDE DEF disc, least
  <1>4. ASSUME NEW q \in disc PROVE SeenAt(mask, p, q) \in Nat
    <2> DEFINE x == p[1] + q[1]
               y == p[2] + q[2]
    <2>1. x \in Int /\ y \in Int
      BY <1>3
    <2> HIDE DEF x, y
    <2>2. at(mask, x, y) \in Nat
      BY <2>1, CoverageAt
    <2> QED BY <2>2 DEF SeenAt, x, y
  <1>5. seen \in SUBSET Nat /\ seen # {}
    BY <1>2, <1>4
  <1>6. /\ \A q \in disc : SeenAt(mask, p, q) \in seen
        /\ \A m \in seen : \E q \in disc : m = SeenAt(mask, p, q)
    OBVIOUS
  <1> HIDE DEF seen
  <1>7. least \in seen /\ \A m \in seen : least <= m
    BY <1>1, <1>5, LeastExists
  <1>8. /\ least \in Nat
        /\ \A q \in disc : least <= SeenAt(mask, p, q)
        /\ \E q \in disc : least = SeenAt(mask, p, q)
    BY <1>5, <1>6, <1>7
  <1> QED BY <1>8 DEF disc, least

\* How far beyond a circle is looked does not matter.
LEMMA DiscIs ==
  ASSUME NEW r \in Nat, NEW reach \in Nat, r <= reach
  PROVE  Disc(r * r, reach) = Disc(r * r, r)
  <1>1. \A a \in Int, b \in Int : a * a + b * b <= r * r => a \in -r .. r
    <2> SUFFICES ASSUME NEW a \in Int, NEW b \in Int, a * a + b * b <= r * r PROVE a \in -r .. r
      OBVIOUS
    <2> DEFINE c == AbsOf(a)
    <2>1. c \in Nat /\ c * c = a * a /\ (c <= r => a \in -r .. r)
      BY DEF AbsOf
    <2>2. b * b \in Nat
      <3>1. b * b = AbsOf(b) * AbsOf(b) /\ AbsOf(b) \in Nat
        BY DEF AbsOf
      <3> QED BY <3>1
    <2> HIDE DEF c
    <2>3. CASE c > r
      <3> DEFINE k == c - r
      <3>1. k \in Nat \ {0} /\ c = r + k
        BY <2>1, <2>3
      <3> HIDE DEF k
      <3>2. c * c = r * r + 2 * (r * k) + k * k
        BY <3>1
      <3>3. r * k \in Nat /\ k * k \in Nat \ {0}
        BY <3>1
      <3>4. a * a \in Int /\ r * r \in Int
        OBVIOUS
      <3> QED BY <2>1, <2>2, <3>2, <3>3, <3>4
    <2> QED BY <2>1, <2>3
  <1>2. \A a \in Int, b \in Int : a * a + b * b = b * b + a * a
    OBVIOUS
  <1>3. ASSUME NEW a \in Int, NEW b \in Int, a * a + b * b <= r * r
        PROVE  a \in -r .. r /\ b \in -r .. r
    <2>1. b * b + a * a <= r * r
      BY <1>2, <1>3
    <2> QED BY <1>1, <1>3, <2>1
  <1>4. ASSUME NEW q \in Disc(r * r, reach) PROVE q \in Disc(r * r, r)
    <2>1. PICK a \in -reach .. reach, b \in -reach .. reach : q = <<a, b>> /\ a * a + b * b <= r * r
      BY DEF Disc
    <2>2. a \in -r .. r /\ b \in -r .. r
      BY <1>3, <2>1
    <2> QED BY <2>1, <2>2 DEF Disc
  <1>5. ASSUME NEW q \in Disc(r * r, r) PROVE q \in Disc(r * r, reach)
    <2>1. PICK a \in -r .. r, b \in -r .. r : q = <<a, b>> /\ a * a + b * b <= r * r
      BY DEF Disc
    <2>2. a \in -reach .. reach /\ b \in -reach .. reach
      OBVIOUS
    <2> QED BY <2>1, <2>2 DEF Disc
  <1> QED BY <1>4, <1>5

\* The least coverage within r pixels.
Least(mask, p, r) == LeastWithin(mask, p, r * r, r)

\* What is left of a pixel by a stroke of so many whole pixels and eighths.
Left(mask, p, inner, blend) ==
  8 * mask.coverage[p] - Mixed(Least(mask, p, inner), Least(mask, p, inner + 1), blend)

\* The least within a distance is a number, no more than the coverage of the
\* pixel itself, and no more than the least nearer by.
LEMMA LeastFalls ==
  ASSUME NEW mask, IsMask(mask), NEW p \in Box(mask.width, mask.height), NEW r \in Nat
  PROVE  /\ Least(mask, p, r) \in Nat /\ Least(mask, p, r + 1) \in Nat
         /\ Least(mask, p, r) <= mask.coverage[p]
         /\ Least(mask, p, r + 1) <= Least(mask, p, r)
         /\ mask.coverage[p] \in Nat
         /\ \A reach \in Nat : r <= reach => LeastWithin(mask, p, r * r, reach) = Least(mask, p, r)
  <1> DEFINE R == r * r
             r2 == r + 1
             R2 == r2 * r2
             near == LeastWithin(mask, p, R, r)
             far == LeastWithin(mask, p, R2, r2)
  <1>1. p \in Int \X Int /\ mask.coverage[p] \in Nat
    <2>1. mask.width \in Nat /\ mask.height \in Nat
      BY DEF IsMask
    <2>2. p \in Int \X Int
      BY <2>1 DEF Box
    <2> QED BY <2>2 DEF IsMask
  <1>2. R \in Nat /\ r2 \in Nat /\ R2 \in Nat /\ R2 = R + 2 * r + 1
    OBVIOUS
  <1>3. /\ near \in Nat
        /\ \A q \in Disc(R, r) : near <= SeenAt(mask, p, q)
        /\ \E q \in Disc(R, r) : near = SeenAt(mask, p, q)
    <2> HIDE DEF R
    <2> QED BY <1>1, <1>2, LeastWithinIs
  <1>4. /\ far \in Nat
        /\ \A q \in Disc(R2, r2) : far <= SeenAt(mask, p, q)
    <2> HIDE DEF R2, r2
    <2> QED BY <1>1, <1>2, LeastWithinIs
  <1>5. <<0, 0>> \in Disc(R, r) /\ SeenAt(mask, p, <<0, 0>>) = mask.coverage[p]
    <2>1. <<0, 0>> \in Disc(R, r)
      <3> HIDE DEF R
      <3> QED BY <1>2 DEF Disc
    <2> DEFINE x == p[1]
               y == p[2]
    <2>2. x \in Int /\ y \in Int /\ p = <<x, y>>
      BY <1>1
    <2> HIDE DEF x, y
    <2>3. at(mask, x, y) = mask.coverage[<<x, y>>]
      BY <2>2, CoverageAt
    <2>4. x + 0 = x /\ y + 0 = y
      BY <2>2
    <2>5. SeenAt(mask, p, <<0, 0>>) = at(mask, x + 0, y + 0)
      BY DEF SeenAt, x, y
    <2> QED BY <2>1, <2>2, <2>3, <2>4, <2>5
  <1>6. \A q : q \in Disc(R, r) => q \in Disc(R2, r2)
    <2> HIDE DEF R, R2
    <2>1. R <= R2 /\ \A a \in -r .. r : a \in -r2 .. r2
      BY <1>2
    <2> SUFFICES ASSUME NEW q \in Disc(R, r) PROVE q \in Disc(R2, r2)
      OBVIOUS
    <2>2. PICK a \in -r .. r, b \in -r .. r : q = <<a, b>> /\ a * a + b * b <= R
      BY DEF Disc
    <2>3. a \in -r2 .. r2 /\ b \in -r2 .. r2 /\ a * a + b * b <= R2
      <3>1. a * a + b * b \in Int
        OBVIOUS
      <3> QED BY <1>2, <2>1, <2>2, <3>1
    <2> QED BY <2>2, <2>3 DEF Disc
  <1>7. far <= near
    BY <1>3, <1>4, <1>6
  <1>8. ASSUME NEW reach \in Nat, r <= reach
        PROVE  LeastWithin(mask, p, r * r, reach) = Least(mask, p, r)
    <2>1. Disc(r * r, reach) = Disc(r * r, r)
      BY <1>8, DiscIs
    <2>2. \A s \in Nat : LeastWithin(mask, p, r * r, s) =
            LET seen == {SeenAt(mask, p, q) : q \in Disc(r * r, s)}
            IN  CHOOSE m \in seen : \A n \in seen : m <= n
      BY DEF LeastWithin, Disc, SeenAt
    <2> QED BY <1>8, <2>1, <2>2 DEF Least
  <1>9. near <= mask.coverage[p]
    BY <1>3, <1>5
  <1>10. near = Least(mask, p, r) /\ far = Least(mask, p, r + 1)
    BY DEF Least
  <1> HIDE DEF near, far
  <1> QED BY <1>1, <1>3, <1>4, <1>7, <1>8, <1>9, <1>10

\* An outlined mask, pixel by pixel.
LEMMA OutlinedIs ==
  ASSUME NEW mask, IsMask(mask), NEW stroke \in Nat \ {0}, NEW p \in Box(mask.width, mask.height)
  PROVE  LET capped == AtMost(stroke, 8 * AtLeast(mask.width, mask.height))
         IN  outline(mask, stroke).coverage[p] = Left(mask, p, capped \div 8, capped % 8)
  <1> DEFINE capped == AtMost(stroke, 8 * AtLeast(mask.width, mask.height))
             inner == capped \div 8
             reach == inner + 1
             interior(q) == Mixed(LeastWithin(mask, q, inner * inner, reach),
                                  LeastWithin(mask, q, reach * reach, reach), capped % 8)
             cover == [q \in DOMAIN mask.coverage |-> 8 * mask.coverage[q] - interior(q)]
  <1>1. outline(mask, stroke) = [mask EXCEPT !.coverage = cover]
    BY DEF outline
  <1>2. DOMAIN mask.coverage = Box(mask.width, mask.height)
    BY DEF IsMask
  <1>3. inner \in Nat /\ reach \in Nat
    <2>1. capped \in Nat
      <3>1. mask.width \in Nat /\ mask.height \in Nat
        BY DEF IsMask
      <3> QED BY <3>1 DEF AtMost, AtLeast
    <2> HIDE DEF capped
    <2> QED BY <2>1
  <1> HIDE DEF inner
  <1>4. interior(p) = Mixed(Least(mask, p, inner), Least(mask, p, inner + 1), capped % 8)
    <2>1. \A far \in Nat : inner <= far => LeastWithin(mask, p, inner * inner, far) = Least(mask, p, inner)
      <3> HIDE DEF reach
      <3> QED BY <1>3, LeastFalls
    <2>2. inner <= reach
      BY <1>3
    <2>3. LeastWithin(mask, p, inner * inner, reach) = Least(mask, p, inner)
      BY <1>3, <2>1, <2>2
    <2> QED BY <2>3 DEF Least
  <1>5. cover[p] = Left(mask, p, inner, capped % 8)
    BY <1>2, <1>4 DEF Left
  <1> HIDE DEF cover
  <1>6. outline(mask, stroke).coverage = cover
    BY <1>1 DEF IsMask
  <1> QED BY <1>5, <1>6 DEF inner

\* What StrokeWidensInward asks of a letter and a stroke.
Widens(mask, stroke) ==
  LET hollow == outline(mask, stroke)
      wider == outline(mask, stroke + 1)
      size == AtLeast(mask.width, mask.height)
  IN  \A p \in DOMAIN mask.coverage :
        /\ hollow.coverage[p] <= 8 * mask.coverage[p]
        /\ stroke > 0 => 0 <= hollow.coverage[p] /\ hollow.coverage[p] <= wider.coverage[p]
        /\ stroke >= 8 * size => hollow.coverage[p] = 8 * mask.coverage[p]
        /\ (stroke > 0 /\ ~ \A i \in {-1, 0, 1} : at(mask, p[1] + i, p[2]) > 0) =>
              hollow.coverage[p] = AtMost(stroke, 8) * mask.coverage[p]

\* A pixel whose disc reaches an empty one is left as it was.
LEMMA NothingNear ==
  ASSUME NEW mask, IsMask(mask), NEW p \in Box(mask.width, mask.height), NEW r \in Nat, NEW i \in -r .. r,
         at(mask, p[1] + i, p[2]) = 0
  PROVE  Least(mask, p, r) = 0
  <1> DEFINE R == r * r
             least == LeastWithin(mask, p, R, r)
  <1>1. p \in Int \X Int
    <2>1. mask.width \in Nat /\ mask.height \in Nat
      BY DEF IsMask
    <2> QED BY <2>1 DEF Box
  <1>2. i * i <= R
    <2> DEFINE c == AbsOf(i)
               k == r - c
    <2>1. c \in Nat /\ k \in Nat /\ c * c = i * i /\ r = c + k
      BY DEF AbsOf
    <2> HIDE DEF c, k
    <2>2. R = c * c + 2 * (c * k) + k * k
      BY <2>1
    <2>3. c * k \in Nat /\ k * k \in Nat /\ c * c \in Nat
      BY <2>1
    <2> HIDE DEF R
    <2> QED BY <2>1, <2>2, <2>3
  <1>3. R \in Nat /\ i * i + 0 * 0 = i * i
    OBVIOUS
  <1>4. <<i, 0>> \in Disc(R, r)
    <2> HIDE DEF R
    <2> QED BY <1>2, <1>3 DEF Disc
  <1>5. SeenAt(mask, p, <<i, 0>>) = 0
    <2> DEFINE y == p[2]
    <2>1. y + 0 = y
      BY <1>1
    <2>2. SeenAt(mask, p, <<i, 0>>) = at(mask, p[1] + i, y + 0)
      BY DEF SeenAt
    <2> QED BY <2>1, <2>2
  <1>6. least \in Nat /\ \A q \in Disc(R, r) : least <= SeenAt(mask, p, q)
    <2> HIDE DEF R
    <2> QED BY <1>1, <1>3, LeastWithinIs
  <1> HIDE DEF least
  <1>7. least = 0
    BY <1>4, <1>5, <1>6
  <1> QED BY <1>7 DEF least, Least

\* Nothing nearer than the pixel itself.
LEMMA LeastOfOne ==
  ASSUME NEW mask, IsMask(mask), NEW p \in Box(mask.width, mask.height)
  PROVE  Least(mask, p, 0) = mask.coverage[p]
  <1>1. p \in Int \X Int
    <2>1. mask.width \in Nat /\ mask.height \in Nat
      BY DEF IsMask
    <2> QED BY <2>1 DEF Box
  <1> DEFINE least == LeastWithin(mask, p, 0 * 0, 0)
  <1>2. PICK q \in Disc(0 * 0, 0) : least = SeenAt(mask, p, q)
    <2> DEFINE nought == 0 * 0
               none == 0
    <2>1. nought \in Nat /\ none \in Nat
      OBVIOUS
    <2> HIDE DEF nought, none
    <2>2. \E q \in Disc(nought, none) : LeastWithin(mask, p, nought, none) = SeenAt(mask, p, q)
      BY <1>1, <2>1, LeastWithinIs
    <2> QED BY <2>2 DEF nought, none
  <1>3. q = <<0, 0>>
    <2>1. PICK a \in -0 .. 0, b \in -0 .. 0 : q = <<a, b>>
      BY DEF Disc
    <2>2. a = 0 /\ b = 0
      OBVIOUS
    <2> QED BY <2>1, <2>2
  <1> DEFINE x == p[1]
             y == p[2]
  <1>4. x \in Int /\ y \in Int /\ p = <<x, y>>
    BY <1>1
  <1>5. SeenAt(mask, p, <<0, 0>>) = at(mask, x + 0, y + 0)
    BY DEF SeenAt
  <1> HIDE DEF x, y, least
  <1>6. at(mask, x, y) = mask.coverage[<<x, y>>]
    BY <1>4, CoverageAt
  <1>7. x + 0 = x /\ y + 0 = y
    BY <1>4
  <1> QED BY <1>2, <1>3, <1>4, <1>5, <1>6, <1>7 DEF Least, least

\* Less is left of a pixel by a narrower stroke, and never more than it had;
\* beside what is not ink, all of it or the share of a stroke below a pixel.
LEMMA LeftIs ==
  ASSUME NEW mask, IsMask(mask), NEW p \in Box(mask.width, mask.height), NEW inner \in Nat, NEW blend \in 0 .. 7
  PROVE  /\ 0 <= Left(mask, p, inner, blend) /\ Left(mask, p, inner, blend) <= 8 * mask.coverage[p]
         /\ blend < 7 => Left(mask, p, inner, blend) <= Left(mask, p, inner, blend + 1)
         /\ blend = 7 => Left(mask, p, inner, blend) <= Left(mask, p, inner + 1, 0)
         /\ Least(mask, p, inner) = 0 => Left(mask, p, inner, blend) = 8 * mask.coverage[p]
         /\ inner = 0 /\ Least(mask, p, 1) = 0 => Left(mask, p, inner, blend) = blend * mask.coverage[p]
  <1> DEFINE a == Least(mask, p, inner)
             b == Least(mask, p, inner + 1)
             c == Least(mask, p, inner + 1 + 1)
             k == mask.coverage[p]
  <1>1. a \in Nat /\ b \in Nat /\ k \in Nat /\ a <= k /\ b <= a
    BY LeastFalls
  <1>2. c \in Nat
    <2> DEFINE next == inner + 1
    <2>1. next \in Nat
      OBVIOUS
    <2> HIDE DEF next
    <2>2. Least(mask, p, next + 1) \in Nat
      BY <2>1, LeastFalls
    <2> QED BY <2>2 DEF next
  <1>3. /\ \A m : Left(mask, p, inner, m) = 8 * k - (8 * a + (b - a) * m)
        /\ Left(mask, p, inner + 1, 0) = 8 * k - (8 * b + (c - b) * 0)
    BY DEF Left, Mixed
  <1>4. inner = 0 /\ Least(mask, p, 1) = 0 => a = k /\ b = 0
    BY LeastOfOne
  <1> HIDE DEF a, b, c, k
  <1> DEFINE left(m) == Left(mask, p, inner, m)
             next == Left(mask, p, inner + 1, 0)
             d == a - b
  <1>5. d \in Nat /\ d <= a /\ d <= k /\ next = 8 * k - 8 * b /\ b = a - d
        /\ \A m \in Int : left(m) = 8 * k - 8 * a + d * m
    <2>1. (c - b) * 0 = 0 /\ d \in Nat /\ d <= a /\ d <= k /\ b = a - d
      BY <1>1, <1>2
    <2>2. ASSUME NEW m \in Int PROVE left(m) = 8 * k - 8 * a + d * m
      <3>1. (b - a) * m = -(d * m)
        BY <1>1
      <3> DEFINE e == (b - a) * m
                 f == d * m
      <3>2. e = -f /\ f \in Int
        BY <1>1, <3>1
      <3>3. left(m) = 8 * k - (8 * a + e)
        BY <1>3
      <3> HIDE DEF e, f, left
      <3>4. left(m) = 8 * k - 8 * a + f
        BY <1>1, <3>2, <3>3
      <3> QED BY <3>4 DEF f
    <2>3. next = 8 * k - 8 * b
      <3> HIDE DEF next
      <3> QED BY <1>1, <1>2, <1>3, <2>1 DEF next
    <2> HIDE DEF left, next, d
    <2> QED BY <2>1, <2>2, <2>3
  <1> DEFINE f == d * blend
             g == d * (blend + 1)
  <1>6. f \in Nat /\ g = f + d /\ f <= 7 * d /\ (blend = 7 => f = 7 * d) /\ (d = 0 => f = 0)
    <2> HIDE DEF d
    <2>1. d * blend \in Nat /\ d * (blend + 1) = d * blend + d
      BY <1>5
    <2>2. d * (7 - blend) \in Nat /\ d * (7 - blend) = 7 * d - d * blend
      BY <1>5
    <2>3. blend = 7 => d * blend = 7 * d
      BY <1>5
    <2>4. d = 0 => d * blend = 0
      OBVIOUS
    <2> QED BY <1>5, <2>1, <2>2, <2>3, <2>4
  <1>7. left(blend) = 8 * k - 8 * a + f /\ left(blend + 1) = 8 * k - 8 * a + g
    <2> HIDE DEF left, d
    <2> QED BY <1>5
  <1>8. inner = 0 /\ Least(mask, p, 1) = 0 => f = blend * k
    <2>1. inner = 0 /\ Least(mask, p, 1) = 0 => d = k
      BY <1>1, <1>4
    <2> HIDE DEF d
    <2>2. k * blend = blend * k
      BY <1>1
    <2> QED BY <2>1, <2>2
  <1> DEFINE low == left(blend)
             high == left(blend + 1)
             share == blend * k
  <1>9. low = 8 * k - 8 * a + f /\ high = 8 * k - 8 * a + g
    BY <1>7
  <1> HIDE DEF low, high, left, f, g, d, next, share
  <1>10. /\ 0 <= low /\ low <= 8 * k /\ low <= high
         /\ blend = 7 => low <= next
         /\ a = 0 => low = 8 * k
         /\ (a = k /\ f = share) => low = share
    <2>1. a = 0 => d = 0 /\ f = 0
      BY <1>1, <1>5, <1>6
    <2>2. a \in Nat /\ b \in Nat /\ k \in Nat /\ d \in Nat /\ f \in Nat
      BY <1>1, <1>5, <1>6
    <2>3. d = a - b /\ a <= k /\ next = 8 * k - 8 * b
      BY <1>1, <1>5
    <2>4. 0 <= low /\ low <= 8 * k
      BY <1>6, <1>9, <2>2, <2>3
    <2>5. low <= high
      BY <1>6, <1>9, <2>2
    <2>6. blend = 7 => low <= next
      BY <1>6, <1>9, <2>2, <2>3
    <2>7. a = 0 => low = 8 * k
      BY <1>9, <2>1, <2>2
    <2>8. (a = k /\ f = share) => low = share
      BY <1>9, <2>2
    <2> QED BY <2>4, <2>5, <2>6, <2>7, <2>8
  <1>11. (inner = 0 /\ Least(mask, p, 1) = 0) => low = share
    BY <1>4, <1>8, <1>10 DEF share
  <1> QED BY <1>10, <1>11 DEF a, k, low, high, left, next, share

\* A wider stroke widens inward, whatever the letter.
LEMMA StrokesWiden ==
  ASSUME NEW mask, IsMask(mask), NEW stroke \in Nat
  PROVE  Widens(mask, stroke)
  <1> DEFINE size == AtLeast(mask.width, mask.height)
             capped(s) == AtMost(s, 8 * size)
             solid(p) == 8 * mask.coverage[p]
             hollow(s, p) == outline(mask, s).coverage[p]
  <1>1. DOMAIN mask.coverage = Box(mask.width, mask.height)
    BY DEF IsMask
  <1>2. mask.width \in Nat /\ mask.height \in Nat /\ mask.coverage \in [Box(mask.width, mask.height) -> Nat]
    BY DEF IsMask
  <1>3. size \in Nat /\ mask.width <= size
    BY <1>2 DEF AtLeast
  <1> SUFFICES ASSUME NEW p \in Box(mask.width, mask.height)
      PROVE  /\ hollow(stroke, p) <= solid(p)
             /\ stroke > 0 => 0 <= hollow(stroke, p) /\ hollow(stroke, p) <= hollow(stroke + 1, p)
             /\ stroke >= 8 * size => hollow(stroke, p) = solid(p)
             /\ (stroke > 0 /\ ~ \A i \in {-1, 0, 1} : at(mask, p[1] + i, p[2]) > 0) =>
                   hollow(stroke, p) = AtMost(stroke, 8) * mask.coverage[p]
    BY <1>1 DEF Widens
  <1>4. mask.coverage[p] \in Nat /\ solid(p) \in Nat /\ p[1] \in 0 .. mask.width - 1 /\ p[2] \in Int
    BY <1>2 DEF Box
  <1>5. size >= 1
    BY <1>2, <1>3, <1>4
  <1> HIDE DEF size
  <1>6. CASE stroke = 0
    <2>1. outline(mask, stroke) = [mask EXCEPT !.coverage = [q \in DOMAIN @ |-> 8 * @[q]]]
      BY <1>6 DEF outline
    <2>2. hollow(stroke, p) = solid(p)
      BY <1>1, <2>1 DEF IsMask
    <2> QED BY <1>4, <1>6, <2>2
  <1>7. CASE stroke # 0
    <2> DEFINE s == capped(stroke)
               t == capped(stroke + 1)
               inner == s \div 8
               blend == s % 8
               left(i, m) == Left(mask, p, i, m)
    <2>1. hollow(stroke, p) = left(inner, blend) /\ hollow(stroke + 1, p) = left(t \div 8, t % 8)
      <3> DEFINE outlined(n) == hollow(n, p) = left(capped(n) \div 8, capped(n) % 8)
      <3>1. ASSUME NEW n \in Nat \ {0} PROVE outlined(n)
        BY OutlinedIs DEF size
      <3>2. stroke \in Nat \ {0} /\ stroke + 1 \in Nat \ {0}
        BY <1>7
      <3> HIDE DEF outlined
      <3>3. outlined(stroke) /\ outlined(stroke + 1)
        BY <3>1, <3>2
      <3> QED BY <3>3 DEF outlined
    <2>2. s \in Nat /\ (t = s \/ t = s + 1) /\ (stroke >= 8 => s >= 8) /\ (stroke < 8 => s = stroke)
          /\ (stroke >= 8 * size => s = 8 * size)
      BY <1>3, <1>5 DEF AtMost
    <2> HIDE DEF hollow, capped, s, t
    <2>3. /\ inner \in Nat /\ blend \in 0 .. 7
          /\ t = s => t \div 8 = inner /\ t % 8 = blend
          /\ t = s + 1 /\ blend < 7 => t \div 8 = inner /\ t % 8 = blend + 1
          /\ t = s + 1 /\ blend = 7 => t \div 8 = inner + 1 /\ t % 8 = 0
          /\ s >= 8 => inner >= 1
          /\ s < 8 => inner = 0 /\ blend = s
          /\ s = 8 * size => inner = size
      BY <1>3, <2>2
    <2> HIDE DEF inner, blend
    <2>4. /\ 0 <= left(inner, blend) /\ left(inner, blend) <= solid(p)
          /\ blend < 7 => left(inner, blend) <= left(inner, blend + 1)
          /\ blend = 7 => left(inner, blend) <= left(inner + 1, 0)
          /\ Least(mask, p, inner) = 0 => left(inner, blend) = solid(p)
          /\ inner = 0 /\ Least(mask, p, 1) = 0 => left(inner, blend) = blend * mask.coverage[p]
      BY <2>3, LeftIs
    <2>5. left(inner, blend) \in Int
      <3>1. Least(mask, p, inner) \in Nat /\ Least(mask, p, inner + 1) \in Nat
        BY <2>3, LeastFalls
      <3> QED BY <1>4, <2>3, <3>1 DEF Left, Mixed
    <2>6. left(inner, blend) <= left(t \div 8, t % 8)
      <3>1. blend < 7 \/ blend = 7
        BY <2>3
      <3> HIDE DEF left
      <3> QED BY <2>2, <2>3, <2>4, <2>5, <3>1
    <2>7. ASSUME stroke >= 8 * size PROVE Least(mask, p, inner) = 0
      <3>1. inner = size /\ inner \in -inner .. inner
        BY <1>3, <2>2, <2>3, <2>7
      <3>2. at(mask, p[1] + inner, p[2]) = 0
        BY <1>2, <1>3, <1>4, <3>1 DEF at
      <3> QED BY <2>3, <3>1, <3>2, NothingNear
    <2>8. ASSUME NEW i \in {-1, 0, 1}, ~ (at(mask, p[1] + i, p[2]) > 0),
                 NEW r \in Nat \ {0}
          PROVE  Least(mask, p, r) = 0
      <3>1. i \in -r .. r /\ i \in Int
        OBVIOUS
      <3> DEFINE x == p[1] + i
                 y == p[2]
      <3>2. x \in Int /\ y \in Int
        BY <1>4
      <3> HIDE DEF x, y
      <3>3. at(mask, x, y) \in Nat
        BY <3>2, CoverageAt
      <3>4. at(mask, x, y) = 0
        BY <2>8, <3>3 DEF x, y
      <3> QED BY <3>1, <3>4, NothingNear DEF x, y
    <2>9. ASSUME NEW i \in {-1, 0, 1}, ~ (at(mask, p[1] + i, p[2]) > 0)
          PROVE  hollow(stroke, p) = AtMost(stroke, 8) * mask.coverage[p]
      <3>1. CASE stroke >= 8
        <4>1. inner \in Nat \ {0}
          BY <2>2, <2>3, <3>1
        <4>2. Least(mask, p, inner) = 0
          BY <2>8, <2>9, <4>1
        <4>3. AtMost(stroke, 8) = 8
          BY <3>1 DEF AtMost
        <4> QED BY <2>1, <2>4, <4>2, <4>3
      <3>2. CASE stroke < 8
        <4>1. inner = 0 /\ blend = stroke
          BY <2>2, <2>3, <3>2
        <4>2. 1 \in Nat \ {0}
          OBVIOUS
        <4>3. Least(mask, p, 1) = 0
          BY <2>8, <2>9, <4>2
        <4>4. AtMost(stroke, 8) = stroke
          BY <3>2 DEF AtMost
        <4> QED BY <2>1, <2>4, <4>1, <4>3, <4>4
      <3> QED BY <3>1, <3>2
    <2> HIDE DEF left
    <2> QED BY <2>1, <2>4, <2>6, <2>7, <2>9
  <1> QED BY <1>6, <1>7

\* What GradientKeepsArc asks of two hues.
KeepsArc(a, b, t) ==
  LET hsl(h) == [hue |-> h, saturation |-> 5, lightness |-> 4, turn |-> 24, whole |-> 10]
      distance(g, h, turn) == LET d == (g - h) % turn IN AtMost(d, turn - d)
      at_t == lerp(hsl(a), hsl(b), t, 4).hue
      whole == distance(a, b, 24)
  IN  /\ distance(at_t, 4 * a, 96) = whole * t
      /\ distance(at_t, 4 * b, 96) = whole * (4 - t)

\* A gradient keeps to the arc between any two hues.
LEMMA GradientsKeepArc ==
  ASSUME NEW a \in Int, NEW b \in Int, NEW t \in 0 .. 4
  PROVE  KeepsArc(a, b, t)
  <1> DEFINE distance(g, h, turn) == LET d == (g - h) % turn IN AtMost(d, turn - d)
             arc == Arc(a, b, 24)
             whole == distance(a, b, 24)
             far == AbsOf(arc)
             at_t == (a * 4 + arc * t) % 96
             way == arc * t
             rest == arc * (4 - t)
  <1>1. arc \in -12 .. 12 /\ whole = far /\ far \in 0 .. 12
    BY DEF Arc, AtMost, AbsOf
  <1>2. PICK k \in Int : b = a + arc + 24 * k
    <2> DEFINE ahead == (b - a) % 24
    <2>1. PICK q \in Int : b - a = 24 * q + ahead
      <3>1. b - a = 24 * ((b - a) \div 24) + ahead /\ (b - a) \div 24 \in Int
        OBVIOUS
      <3> QED BY <3>1
    <2>2. arc = IF 2 * ahead > 24 THEN ahead - 24 ELSE ahead
      BY DEF Arc
    <2>3. ahead \in Int
      OBVIOUS
    <2> HIDE DEF ahead, arc
    <2>4. b = a + arc + 24 * q \/ b = a + arc + 24 * (q + 1)
      BY <2>1, <2>2, <2>3
    <2>5. q + 1 \in Int
      OBVIOUS
    <2> QED BY <2>4, <2>5
  <1> HIDE DEF arc
  <1>3. t = 0 \/ t = 1 \/ t = 2 \/ t = 3 \/ t = 4
    OBVIOUS
  <1>4. way \in -48 .. 48 /\ AbsOf(way) = far * t /\ rest \in -48 .. 48 /\ AbsOf(rest) = far * (4 - t)
        /\ way + rest = 4 * arc
    BY <1>1, <1>3 DEF AbsOf
  <1> HIDE DEF way, rest
  <1>5. at_t = (4 * a + way) % 96
    BY DEF way
  <1> HIDE DEF far, whole, at_t
  <1>6. distance(at_t, 4 * a, 96) = AbsOf(way)
    <2>1. (at_t - 4 * a) % 96 = way % 96
      BY <1>4, <1>5
    <2> QED BY <1>4, <2>1 DEF AtMost, AbsOf
  <1>7. distance(at_t, 4 * b, 96) = AbsOf(rest)
    <2>1. (at_t - 4 * b) % 96 = (-rest) % 96
      BY <1>1, <1>2, <1>4, <1>5
    <2> QED BY <1>4, <2>1 DEF AtMost, AbsOf
  <1>8. lerp([hue |-> a, saturation |-> 5, lightness |-> 4, turn |-> 24, whole |-> 10],
             [hue |-> b, saturation |-> 5, lightness |-> 4, turn |-> 24, whole |-> 10], t, 4).hue = at_t
    BY DEF lerp, at_t, arc
  <1> HIDE DEF distance
  <1>9. /\ distance(at_t, 4 * a, 96) = whole * t
        /\ distance(at_t, 4 * b, 96) = whole * (4 - t)
    BY <1>1, <1>4, <1>6, <1>7
  <1> QED BY <1>8, <1>9 DEF KeepsArc, distance, whole

\* Where a channel is along the wheel, from 2 (none of it) to -2 (all of it).
WheelAt(n, hue) ==
  LET k == (2 * n + hue) % 24 IN AtLeast(AtMost(AtMost(k - 6, 18 - k), 2), -2)

\* The sectors are the wheel.
LEMMA SectorsAre ==
  ASSUME NEW h \in 0 .. 23, NEW chroma \in Int
  PROVE  Sector(h \div 4, chroma * 4, chroma * (4 - AbsOf((h % 8) - 4)))
           = <<chroma * (2 - WheelAt(0, h)), chroma * (2 - WheelAt(8, h)), chroma * (2 - WheelAt(4, h))>>
  <1> DEFINE mid == 4 - AbsOf((h % 8) - 4)
             r == 2 - WheelAt(0, h)
             g == 2 - WheelAt(8, h)
             b == 2 - WheelAt(4, h)
             sector == h \div 4
  <1>1. /\ sector = 0 => r = 4 /\ g = mid /\ b = 0
        /\ sector = 1 => r = mid /\ g = 4 /\ b = 0
        /\ sector = 2 => r = 0 /\ g = 4 /\ b = mid
        /\ sector = 3 => r = 0 /\ g = mid /\ b = 4
        /\ sector = 4 => r = mid /\ g = 0 /\ b = 4
        /\ sector = 5 => r = 4 /\ g = 0 /\ b = mid
    BY DEF WheelAt, AbsOf, AtLeast, AtMost
  <1>2. sector \in 0 .. 5
    OBVIOUS
  <1>3. chroma * 0 = 0
    OBVIOUS
  <1> HIDE DEF sector, mid, r, g, b
  <1>4. Sector(sector, chroma * 4, chroma * mid) = <<chroma * r, chroma * g, chroma * b>>
    <2> DEFINE full == chroma * 4
               some == chroma * mid
    <2>1. CASE sector = 0
      BY <1>1, <1>3, <2>1 DEF Sector
    <2>2. CASE sector = 1
      BY <1>1, <1>3, <2>2 DEF Sector
    <2>3. CASE sector = 2
      BY <1>1, <1>3, <2>3 DEF Sector
    <2>4. CASE sector = 3
      BY <1>1, <1>3, <2>4 DEF Sector
    <2>5. CASE sector = 4
      BY <1>1, <1>3, <2>5 DEF Sector
    <2>6. CASE sector = 5
      BY <1>1, <1>3, <2>6 DEF Sector
    <2> QED BY <1>2, <2>1, <2>2, <2>3, <2>4, <2>5, <2>6
  <1> QED BY <1>4 DEF sector, mid, r, g, b

\* The wheel is the same a turn on.
LEMMA WheelTurns ==
  ASSUME NEW n \in {0, 4, 8}, NEW hue \in Int
  PROVE  WheelAt(n, hue % 24) = WheelAt(n, hue) /\ WheelAt(n, hue) \in -2 .. 2
  <1> DEFINE k == (2 * n + hue) % 24
  <1>1. (2 * n + (hue % 24)) % 24 = k /\ k \in 0 .. 23
    BY Z3
  <1> HIDE DEF k
  <1> QED BY <1>1 DEF WheelAt, AtLeast, AtMost, k

\* What ColorIsHsl asks of a colour.
IsHsl(c) ==
  LET a == c.saturation * AtMost(c.lightness, 10 - c.lightness)
      value(n) == LET k == (2 * n + c.hue) % 24
                  IN  20 * c.lightness - a * AtLeast(AtMost(AtMost(k - 6, 18 - k), 2), -2)
  IN  hsl_to_rgb(c) = <<RoundDiv(value(0) * 255, 200), RoundDiv(value(8) * 255, 200),
                        RoundDiv(value(4) * 255, 200)>>

\* A channel before and after it is rounded.
LEMMA ChannelIs ==
  ASSUME NEW l \in 0 .. 10, NEW s \in 0 .. 10, NEW turn \in -2 .. 2
  PROVE  LET chroma == (10 - AbsOf(2 * l - 10)) * s
             value == 20 * l - (s * AtMost(l, 10 - l)) * turn
         IN  Clamped(RoundDiv((2 * (chroma * (2 - turn)) + (20 * l - chroma) * 4) * 255, 800), 0, 255)
               = RoundDiv(value * 255, 200)
  <1> DEFINE least == AtMost(l, 10 - l)
             a == s * least
             chroma == (10 - AbsOf(2 * l - 10)) * s
             value == 20 * l - a * turn
             full == (2 * (chroma * (2 - turn)) + (20 * l - chroma) * 4) * 255
  <1>1. least \in Nat /\ least <= l /\ least <= 10 - l /\ 10 - AbsOf(2 * l - 10) = 2 * least
    BY DEF AtMost, AbsOf
  <1>2. a \in Nat /\ a <= 10 * least
    <2> HIDE DEF least
    <2> DEFINE rest == (10 - s) * least
    <2>1. rest \in Nat /\ rest = 10 * least - a /\ a \in Nat
      BY <1>1
    <2> HIDE DEF rest, a
    <2> QED BY <1>1, <2>1
  <1>3. chroma = 2 * a
    <2> HIDE DEF least
    <2>1. chroma = (2 * least) * s
      BY <1>1
    <2> QED BY <1>1, <2>1
  <1> HIDE DEF least, a, chroma
  <1>4. turn = -2 \/ turn = -1 \/ turn = 0 \/ turn = 1 \/ turn = 2
    OBVIOUS
  <1>5. value \in 0 .. 200
    BY <1>1, <1>2, <1>4
  <1>6. full = 4 * (value * 255)
    BY <1>2, <1>3, <1>4
  <1> HIDE DEF value, full
  <1> DEFINE v == value * 255
  <1>7. v \in Int /\ 0 <= v /\ v <= 51000
    BY <1>5
  <1> HIDE DEF v
  <1>8. RoundDiv(4 * v, 800) = RoundDiv(v, 200) /\ RoundDiv(v, 200) \in 0 .. 255
    <2> DEFINE m == 2 * v + 200
               q == m \div 400
               rem == m % 400
    <2>1. m \in Int /\ 200 <= m /\ m <= 102200
      BY <1>7
    <2>2. 2 * (4 * v) + 800 = 4 * m /\ 4 * v >= 0 /\ v >= 0
      BY <1>7
    <2> HIDE DEF m
    <2>3. m = 400 * q + rem /\ q \in Int /\ rem \in 0 .. 399
      BY <2>1
    <2> HIDE DEF q, rem
    <2>4. q \in 0 .. 255
      BY <2>1, <2>3
    <2>5. (4 * m) \div 1600 = q
      BY <2>3
    <2>6. 2 * 800 = 1600 /\ 2 * 200 = 400
      OBVIOUS
    <2> QED BY <2>2, <2>4, <2>5, <2>6 DEF RoundDiv, m, q
  <1>9. Clamped(RoundDiv(4 * v, 800), 0, 255) = RoundDiv(v, 200)
    BY <1>8 DEF Clamped, AtLeast, AtMost
  <1> QED BY <1>6, <1>9 DEF v, value, full, chroma, a, least

\* Every colour is what the HSL model says.
LEMMA ColorsAreHsl ==
  ASSUME NEW c, c.turn = 24, c.whole = 10, c.hue \in Int, c.saturation \in 0 .. 10, c.lightness \in 0 .. 10
  PROVE  IsHsl(c)
  <1> DEFINE l == c.lightness
             s == c.saturation
             sixth == c.turn \div 6
             h == c.hue % c.turn
             sat == Clamped(c.saturation, 0, c.whole)
             light == Clamped(c.lightness, 0, c.whole)
             strong == (c.whole - AbsOf(2 * light - c.whole)) * sat
             second == strong * (sixth - AbsOf((h % (2 * sixth)) - sixth))
             base == (2 * c.whole * light - strong) * sixth
             rgb == Sector(h \div sixth, strong * sixth, second)
             level(x) == Clamped(RoundDiv((2 * x + base) * 255, 2 * c.whole * c.whole * sixth), 0, 255)
             chroma == (10 - AbsOf(2 * l - 10)) * s
             value(n) == 20 * l - (s * AtMost(l, 10 - l)) * WheelAt(n, c.hue)
  <1>1. hsl_to_rgb(c) = [i \in 1 .. 3 |-> level(rgb[i])]
    BY DEF hsl_to_rgb
  <1>2. l \in 0 .. 10 /\ s \in 0 .. 10 /\ c.hue \in Int /\ c.turn = 24 /\ c.whole = 10
    OBVIOUS
  <1>3. sixth = 4 /\ h = c.hue % 24 /\ h \in 0 .. 23 /\ sat = s /\ light = l
    BY <1>2 DEF Clamped, AtLeast, AtMost
  <1>4. strong = chroma
    BY <1>2, <1>3
  <1>5. base = (20 * l - chroma) * 4
    BY <1>2, <1>3, <1>4
  <1>6. 2 * c.whole * c.whole * sixth = 800
    BY <1>2, <1>3
  <1>7. second = chroma * (4 - AbsOf((h % 8) - 4))
    <2>1. 2 * sixth = 8
      BY <1>3
    <2> HIDE DEF strong, h
    <2> QED BY <1>3, <1>4, <2>1
  <1>8. rgb = Sector(h \div 4, chroma * 4, chroma * (4 - AbsOf((h % 8) - 4)))
    <2> HIDE DEF second, strong, h, chroma
    <2> QED BY <1>3, <1>4, <1>7
  <1>9. chroma \in Int
    BY <1>2 DEF AbsOf
  <1> DEFINE part(n) == chroma * (2 - WheelAt(n, c.hue))
  <1>10. rgb = <<part(0), part(8), part(4)>>
    <2> DEFINE hue == c.hue
    <2>1. /\ WheelAt(0, h) = WheelAt(0, hue)
          /\ WheelAt(8, h) = WheelAt(8, hue)
          /\ WheelAt(4, h) = WheelAt(4, hue)
      <3>1. \A n \in {0, 4, 8} : WheelAt(n, hue % 24) = WheelAt(n, hue)
        BY <1>2, WheelTurns
      <3> QED BY <1>3, <3>1
    <2>2. h \in 0 .. 23
      BY <1>3
    <2> HIDE DEF h, chroma
    <2>3. Sector(h \div 4, chroma * 4, chroma * (4 - AbsOf((h % 8) - 4)))
            = <<chroma * (2 - WheelAt(0, h)), chroma * (2 - WheelAt(8, h)), chroma * (2 - WheelAt(4, h))>>
      BY <1>9, <2>2, SectorsAre
    <2> QED BY <1>8, <2>1, <2>3
  <1>11. ASSUME NEW n \in {0, 4, 8} PROVE level(part(n)) = RoundDiv(value(n) * 255, 200)
    <2> DEFINE turn == WheelAt(n, c.hue)
    <2>1. turn \in -2 .. 2
      BY <1>2, WheelTurns
    <2> HIDE DEF turn
    <2> DEFINE full == 2 * c.whole * c.whole * sixth
    <2>2. full = 800
      BY <1>6
    <2> HIDE DEF full
    <2>3. level(part(n)) = Clamped(RoundDiv((2 * (chroma * (2 - turn)) + base) * 255, full), 0, 255)
      BY DEF turn, full
    <2> HIDE DEF l, s, base
    <2>4. Clamped(RoundDiv((2 * (chroma * (2 - turn)) + (20 * l - chroma) * 4) * 255, 800), 0, 255)
            = RoundDiv((20 * l - (s * AtMost(l, 10 - l)) * turn) * 255, 200)
      BY <1>2, <2>1, ChannelIs
    <2> HIDE DEF level, part, chroma
    <2> QED BY <1>5, <2>2, <2>3, <2>4 DEF turn
  <1> HIDE DEF level, rgb, part
  <1>12. [i \in 1 .. 3 |-> level(rgb[i])] = <<level(part(0)), level(part(8)), level(part(4))>>
    BY <1>10
  <1> HIDE DEF value
  <1>13. hsl_to_rgb(c) = <<RoundDiv(value(0) * 255, 200), RoundDiv(value(8) * 255, 200), RoundDiv(value(4) * 255, 200)>>
    BY <1>1, <1>11, <1>12
  <1> QED BY <1>13 DEF IsHsl, value, WheelAt, l, s

\* Dividing and rounding do not depend on the unit.
LEMMA RoundScaled ==
  ASSUME NEW a \in Nat, NEW d \in Nat \ {0}, NEW k \in Nat \ {0}
  PROVE  RoundDiv(k * a, k * d) = RoundDiv(a, d)
  <1> DEFINE m == 2 * a + d
             e == 2 * d
             q == m \div e
             rest == m - q * e
             ke == k * e
             kr == k * rest
  <1>1. m \in Nat /\ e \in Nat \ {0}
    OBVIOUS
  <1>2. q \in Int /\ q * e <= m /\ m < q * e + e
    <2> HIDE DEF m, e
    <2> QED BY <1>1, DivIs
  <1>3. rest \in Nat /\ e - rest \in Nat \ {0}
    <2> DEFINE qe == q * e
    <2>1. qe \in Int
      BY <1>1, <1>2
    <2> HIDE DEF qe, q, m, e
    <2>2. qe <= m /\ m < qe + e
      BY <1>2 DEF qe
    <2>3. m - qe \in Nat /\ e - (m - qe) \in Nat \ {0}
      BY <1>1, <2>1, <2>2
    <2> QED BY <2>3 DEF qe
  <1>4. k * m = q * ke + kr
    <2> DEFINE qe == q * e
    <2>1. qe \in Int
      BY <1>1, <1>2
    <2>2. m = qe + rest
      BY <1>1, <2>1
    <2> HIDE DEF m, rest
    <2>3. k * m = k * qe + k * rest
      BY <1>3, <2>1, <2>2
    <2> HIDE DEF e, q
    <2>4. k * (q * e) = q * (k * e)
      BY <1>1, <1>2
    <2> QED BY <2>3, <2>4
  <1> HIDE DEF rest
  <1>5. ke \in Nat \ {0} /\ kr \in 0 .. ke - 1
    <2> HIDE DEF e
    <2> DEFINE less == e - rest
    <2>1. less \in Nat \ {0}
      BY <1>3
    <2>2. ke \in Nat \ {0} /\ kr \in Nat /\ k * less \in Nat \ {0}
      BY <1>1, <1>3, <2>1
    <2>3. k * less = ke - kr
      BY <1>1, <1>3
    <2> QED BY <2>2, <2>3
  <1>6. k * a \in Nat /\ RoundDiv(k * a, k * d) = (k * m) \div ke
    <2> DEFINE ka == k * a
               kd == k * d
    <2>1. ka \in Nat /\ kd \in Nat /\ k * m = 2 * ka + kd /\ ke = 2 * kd
      OBVIOUS
    <2> HIDE DEF ka, kd
    <2>2. RoundDiv(ka, kd) = (2 * ka + kd) \div (2 * kd)
      BY <2>1 DEF RoundDiv
    <2> QED BY <2>1, <2>2 DEF ka, kd
  <1> HIDE DEF ke, kr
  <1>7. (q * ke + kr) \div ke = q
    <2> HIDE DEF q
    <2> QED BY <1>2, <1>5, DivExact
  <1>8. RoundDiv(a, d) = q
    BY DEF RoundDiv
  <1> QED BY <1>4, <1>6, <1>7, <1>8

\* A grey, of a lightness in whole-ths.
IsGrey(c, s, l) ==
  c.turn = 24 * s /\ c.whole = 10 * s /\ c.hue = 0 /\ c.saturation = 0 /\ c.lightness = l

\* Its channels.
LEMMA GreyLevel ==
  ASSUME NEW s \in Nat \ {0}, NEW l \in Nat, l <= 10 * s, NEW c, IsGrey(c, s, l)
  PROVE  /\ hsl_to_rgb(c)[1] = RoundDiv(l * 255, 10 * s)
         /\ RoundDiv(l * 255, 10 * s) \in 0 .. 255
  <1> DEFINE w == c.whole
             sixth == c.turn \div 6
             h == c.hue % c.turn
             sat == Clamped(c.saturation, 0, w)
             light == Clamped(c.lightness, 0, w)
             chroma == (w - AbsOf(2 * light - w)) * sat
             second == chroma * (sixth - AbsOf((h % (2 * sixth)) - sixth))
             base == (2 * w * light - chroma) * sixth
             rgb == Sector(h \div sixth, chroma * sixth, second)
             level(x) == Clamped(RoundDiv((2 * x + base) * 255, 2 * w * w * sixth), 0, 255)
  <1>1. hsl_to_rgb(c)[1] = level(rgb[1])
    <2>1. hsl_to_rgb(c) = [i \in 1 .. 3 |-> level(rgb[i])]
      BY DEF hsl_to_rgb
    <2> HIDE DEF level, rgb
    <2> QED BY <2>1
  <1>2. c.turn = 24 * s /\ w = 10 * s /\ c.hue = 0 /\ c.saturation = 0 /\ c.lightness = l
    BY DEF IsGrey
  <1>3. w \in Nat \ {0} /\ sixth = 4 * s /\ h = 0 /\ sat = 0 /\ light = l
    <2> HIDE DEF w
    <2>1. sixth = 4 * s /\ h = 0
      BY <1>2
    <2>2. w \in Nat \ {0} /\ l <= w
      BY <1>2
    <2> QED BY <1>2, <2>1, <2>2 DEF Clamped, AtLeast, AtMost
  <1>4. chroma = 0
    <2> HIDE DEF w, sat, light
    <2>1. w - AbsOf(2 * light - w) \in Int
      BY <1>3 DEF AbsOf
    <2> QED BY <1>3, <2>1
  <1>5. second = 0
    <2> HIDE DEF chroma, sixth, h
    <2>1. sixth \in Nat \ {0} /\ h = 0
      BY <1>3
    <2>2. 2 * sixth \in Nat \ {0} /\ 0 % (2 * sixth) = 0
      BY <2>1
    <2>3. sixth - AbsOf((h % (2 * sixth)) - sixth) \in Int
      BY <2>1, <2>2 DEF AbsOf
    <2> QED BY <1>4, <2>3
  <1>6. rgb[1] = 0
    <2> HIDE DEF chroma, sixth, h, second
    <2>1. chroma * sixth = 0 /\ h \div sixth = 0
      BY <1>3, <1>4
    <2> QED BY <1>5, <2>1 DEF Sector
  <1> DEFINE k == 2 * w * sixth
  <1>7. k \in Nat \ {0} /\ 2 * w * w * sixth = k * w
    <2> HIDE DEF w, sixth
    <2> QED BY <1>3
  <1>8. (2 * 0 + base) * 255 = k * (l * 255)
    <2> HIDE DEF w, sixth, chroma, light
    <2>1. sixth \in Int /\ w \in Int /\ light = l /\ chroma = 0
      BY <1>3, <1>4
    <2>2. base = (2 * w * l) * sixth
      BY <2>1
    <2>3. (2 * w * l) * sixth = k * l
      BY <2>1
    <2>4. k * l \in Int /\ (k * l) * 255 = k * (l * 255) /\ 2 * 0 = 0
      BY <1>7
    <2> HIDE DEF base, k
    <2> QED BY <2>2, <2>3, <2>4
  <1> DEFINE made == RoundDiv(l * 255, w)
  <1>9. RoundDiv(k * (l * 255), k * w) = made
    <2> DEFINE a == l * 255
    <2>1. a \in Nat
      OBVIOUS
    <2> HIDE DEF a, k, w
    <2> QED BY <1>3, <1>7, <2>1, RoundScaled
  <1>10. made \in 0 .. 255
    <2> DEFINE a == l * 255
               most == 255 * w
    <2>1. a \in Nat /\ most \in Nat /\ a <= most /\ 0 <= a
      BY <1>2, <1>3
    <2> HIDE DEF w
    <2>2. RoundDiv(most, w) = 255
      BY <1>3, RoundExact
    <2>3. RoundDiv(0, w) = 0
      <3>1. RoundDiv(0 * w, w) = 0
        BY <1>3, RoundExact
      <3>2. 0 * w = 0
        BY <1>3
      <3> QED BY <3>1, <3>2
    <2> HIDE DEF a, most
    <2>4. RoundDiv(a, w) <= RoundDiv(most, w) /\ RoundDiv(0, w) <= RoundDiv(a, w)
      BY <1>3, <2>1, RoundOrdered
    <2>5. RoundDiv(a, w) \in Int
      <3>1. 2 * a + w \in Int /\ 2 * w \in Nat \ {0}
        BY <1>3, <2>1
      <3>2. (2 * a + w) \div (2 * w) \in Int
        <4> DEFINE x == 2 * a + w
                   y == 2 * w
        <4> HIDE DEF x, y
        <4>1. x \in Int /\ y \in Nat \ {0}
          BY <3>1 DEF x, y
        <4>2. x \div y \in Int
          BY <4>1, DivIs
        <4> QED BY <4>2 DEF x, y
      <3> QED BY <2>1, <3>2 DEF RoundDiv
    <2> QED BY <2>2, <2>3, <2>4, <2>5 DEF a
  <1> HIDE DEF made, base, k, rgb, sixth
  <1>11. level(rgb[1]) = made
    <2>1. level(rgb[1]) = Clamped(RoundDiv(k * (l * 255), k * w), 0, 255)
      BY <1>6, <1>7, <1>8
    <2> HIDE DEF level
    <2>2. level(rgb[1]) = Clamped(made, 0, 255)
      BY <1>9, <2>1
    <2> QED BY <1>10, <2>2 DEF Clamped, AtLeast, AtMost
  <1> HIDE DEF level
  <1> QED BY <1>1, <1>2, <1>10, <1>11 DEF made

\* The greys of a gradient of two, s pixels long.
Nearer == [hue |-> 0, saturation |-> 0, lightness |-> 4, turn |-> 24, whole |-> 10]
Farther == [Nearer EXCEPT !.lightness = 6]
Shade(t, s) == hsl_to_rgb(lerp(Nearer, Farther, t, s))[1]

\* The two ends.
LEMMA EndsAre == hsl_to_rgb(Nearer)[1] = 102 /\ hsl_to_rgb(Farther)[1] = 153
  <1>1. IsGrey(Nearer, 1, 4) /\ IsGrey(Farther, 1, 6)
    BY DEF IsGrey, Nearer, Farther
  <1> DEFINE near == hsl_to_rgb(Nearer)[1]
             far == hsl_to_rgb(Farther)[1]
  <1>2. near = RoundDiv(4 * 255, 10 * 1) /\ far = RoundDiv(6 * 255, 10 * 1)
    BY <1>1, GreyLevel
  <1>3. 4 * 255 = 102 * 10 /\ 6 * 255 = 153 * 10 /\ 10 * 1 = 10
    OBVIOUS
  <1>4. RoundDiv(102 * 10, 10) = 102 /\ RoundDiv(153 * 10, 10) = 153
    BY RoundExact
  <1> QED BY <1>2, <1>3, <1>4

\* Everything between them is.
LEMMA ShadeBetween ==
  ASSUME NEW s \in Nat \ {0}, NEW t \in 0 .. s
  PROVE  Shade(t, s) \in 102 .. 153
  <1> DEFINE c == lerp(Nearer, Farther, t, s)
             l == 4 * s + 2 * t
             a == l * 255
             w == 10 * s
  <1>1. IsGrey(c, s, l)
    <2>1. Arc(0, 0, 24) = 0
      BY DEF Arc
    <2>2. 0 * s + 0 * t = 0 /\ 24 * s \in Nat \ {0} /\ 0 % (24 * s) = 0 /\ (0 - 0) * t = 0 /\ (6 - 4) * t = 2 * t
      OBVIOUS
    <2>3. c.hue = (0 * s + Arc(0, 0, 24) * t) % (24 * s) /\ c.turn = 24 * s /\ c.whole = 10 * s
          /\ c.saturation = 0 * s + (0 - 0) * t /\ c.lightness = 4 * s + (6 - 4) * t
      BY DEF lerp, Nearer, Farther
    <2> HIDE DEF c
    <2>4. c.hue = 0 /\ c.saturation = 0 /\ c.lightness = l
      BY <2>1, <2>2, <2>3
    <2> QED BY <2>3, <2>4 DEF IsGrey
  <1>2. l \in Nat /\ l <= 10 * s
    OBVIOUS
  <1> HIDE DEF c, l
  <1>3. hsl_to_rgb(c)[1] = RoundDiv(a, w) /\ RoundDiv(a, w) \in 0 .. 255
    BY <1>1, <1>2, GreyLevel
  <1> DEFINE low == 102 * w
             high == 153 * w
  <1>4. a \in Nat /\ w \in Nat \ {0} /\ low \in Nat /\ high \in Nat /\ low <= a /\ a <= high
    BY DEF l
  <1>5. RoundDiv(low, w) = 102 /\ RoundDiv(high, w) = 153
    <2> HIDE DEF w
    <2> QED BY <1>4, RoundExact
  <1> HIDE DEF a, w, low, high
  <1>6. RoundDiv(low, w) <= RoundDiv(a, w) /\ RoundDiv(a, w) <= RoundDiv(high, w)
    BY <1>4, RoundOrdered
  <1> QED BY <1>3, <1>5, <1>6 DEF Shade, c

\* What a share of ink makes of a level is between the two.
LEMMA BlendBetween ==
  ASSUME NEW was \in 0 .. 255, NEW ink \in 0 .. 255, NEW full \in Nat \ {0}, NEW share \in 0 .. full
  PROVE  LET made == weighted_sum(was, ink, share, full)
         IN  /\ made \in Int /\ AtMost(was, ink) <= made /\ made <= AtLeast(was, ink)
             /\ share = full => made = ink
  <1> DEFINE sum == was * (full - share) + ink * share
             least == AtMost(was, ink)
             most == AtLeast(was, ink)
             low == least * full
             high == most * full
             made == weighted_sum(was, ink, share, full)
  <1>1. /\ least \in 0 .. 255 /\ most \in 0 .. 255
        /\ was - least \in Nat /\ ink - least \in Nat /\ most - was \in Nat /\ most - ink \in Nat
    BY DEF AtMost, AtLeast
  <1> HIDE DEF least, most
  <1> DEFINE rest == full - share
  <1>2. rest \in Nat /\ share \in Nat /\ full = rest + share
    OBVIOUS
  <1> HIDE DEF rest
  <1>3. sum = was * rest + ink * share
    BY DEF rest
  <1>4. /\ low \in Int /\ high \in Int /\ sum \in Int /\ low <= sum /\ sum <= high
    <2> DEFINE x == was * rest
               y == ink * share
               lx == least * rest
               ly == least * share
               mx == most * rest
               my == most * share
    <2>1. /\ (was - least) * rest \in Nat /\ (ink - least) * share \in Nat
          /\ (most - was) * rest \in Nat /\ (most - ink) * share \in Nat
      BY <1>1, <1>2
    <2>2. /\ (was - least) * rest = x - lx /\ (ink - least) * share = y - ly
          /\ (most - was) * rest = mx - x /\ (most - ink) * share = my - y
      BY <1>1, <1>2
    <2>3. low = lx + ly /\ high = mx + my
      BY <1>1, <1>2
    <2>4. x \in Int /\ y \in Int /\ lx \in Int /\ ly \in Int /\ mx \in Int /\ my \in Int
      BY <1>1, <1>2
    <2>5. sum = x + y
      BY <1>3
    <2> HIDE DEF x, y, lx, ly, mx, my, low, high, sum
    <2> QED BY <2>1, <2>2, <2>3, <2>4, <2>5
  <1>5. low \div full = least /\ high \div full = most
    <2>1. (least * full + 0) \div full = least /\ (most * full + 0) \div full = most
      BY <1>1, DivExact
    <2>2. low + 0 = low /\ high + 0 = high
      BY <1>4
    <2> QED BY <2>1, <2>2
  <1> HIDE DEF low, high
  <1>6. sum \div full \in Int /\ least <= sum \div full /\ sum \div full <= most
    <2> HIDE DEF sum
    <2>1. sum \div full \in Int
      BY <1>4, DivIs
    <2>2. low \div full <= sum \div full /\ sum \div full <= high \div full
      BY <1>4, DivOrdered
    <2> QED BY <1>5, <2>1, <2>2
  <1>7. made = Clamped(sum \div full, 0, 255)
    BY DEF weighted_sum, clamp_u8
  <1> HIDE DEF made, sum
  <1>8. made = sum \div full
    BY <1>1, <1>6, <1>7 DEF Clamped, AtLeast, AtMost
  <1>9. ASSUME share = full PROVE made = ink
    <2>1. (ink * full + 0) \div full = ink
      BY DivExact
    <2>2. sum = ink * full + 0
      BY <1>9 DEF sum
    <2> QED BY <1>8, <2>1, <2>2
  <1> QED BY <1>6, <1>8, <1>9 DEF made, least, most

\* What PaintStaysUnderInk asks of a letter on a canvas.
Painted(letter, canvas, x, y, to, cos, sin) ==
  LET ramp == across(letter.width, letter.height, cos, sin)
      full == 2 * 4 * AtLeast(ramp.span, 1)
      mask == fade(letter, 4, to, 4, cos, sin)
      painted == composite_mask_gradient(canvas, mask, x, y, Nearer, Farther, cos, sin, full, 1)
      low == hsl_to_rgb(Nearer)[1]
      high == hsl_to_rgb(Farther)[1]
  IN  \A p \in DOMAIN canvas :
        LET was == canvas[p]
            ink == at(letter, p[1] - x - letter.left, p[2] - y - letter.top)
        IN  /\ ink = 0 => painted[p] = was
            /\ AtMost(was, low) - 1 <= painted[p] /\ painted[p] <= AtLeast(was, high)
            /\ (ink = 2 /\ to = 4) => painted[p] \in low .. high

\* A canvas of any size.
IsCanvas(canvas) == DOMAIN canvas \subseteq Int \X Int /\ \A p \in DOMAIN canvas : canvas[p] \in 0 .. 255

\* Where a pixel of a mask is along a ramp.
LEMMA RampWithin ==
  ASSUME NEW w \in Nat, NEW h \in Nat, NEW cos \in Int, NEW sin \in Int, NEW q \in Box(w, h)
  PROVE  LET ramp == across(w, h, cos, sin)
         IN  /\ AtLeast(ramp.span, 1) \in Nat \ {0}
             /\ RampAt(ramp, q) \in 0 .. AtLeast(ramp.span, 1)
  <1> DEFINE ramp == across(w, h, cos, sin)
             s == ramp.span
  <1>1. s \in Int /\ ramp.origin \in Int /\ ramp.cos = cos /\ ramp.sin = sin
    BY DEF across, AtLeast, AtMost, AbsOf
  <1> HIDE DEF ramp
  <1>2. q[1] * cos + q[2] * sin - ramp.origin \in Int
    BY <1>1 DEF Box
  <1> DEFINE away == q[1] * ramp.cos + q[2] * ramp.sin - ramp.origin
  <1>3. away \in Int
    BY <1>1, <1>2
  <1> HIDE DEF s
  <1>4. RampAt(ramp, q) = IF s <= 0 THEN 0 ELSE Clamped(away, 0, s)
    BY DEF RampAt, s
  <1> HIDE DEF away
  <1>5. AtLeast(s, 1) \in Nat \ {0} /\ RampAt(ramp, q) \in 0 .. AtLeast(s, 1)
    BY <1>1, <1>3, <1>4 DEF Clamped, AtLeast, AtMost
  <1> QED BY <1>5 DEF ramp, s

\* A letter of any shape, anywhere over the canvas, is painted where it is.
LEMMA LettersPaint ==
  ASSUME NEW letter, IsMask(letter), NEW canvas, IsCanvas(canvas), letter.left \in Int, letter.top \in Int,
         NEW x \in Int, NEW y \in Int, NEW to \in 0 .. 4, NEW cos \in Int, NEW sin \in Int
  PROVE  Painted(letter, canvas, x, y, to, cos, sin)
  <1> DEFINE w == letter.width
             h == letter.height
             ramp == across(w, h, cos, sin)
             s == AtLeast(ramp.span, 1)
             full == 2 * 4 * s
             faded(q) == 4 * s + (to - 4) * RampAt(ramp, q)
             cover == [q \in DOMAIN letter.coverage |-> letter.coverage[q] * faded(q)]
             mask == fade(letter, 4, to, 4, cos, sin)
             painted == composite_mask_gradient(canvas, mask, x, y, Nearer, Farther, cos, sin, full, 1)
             shades == [q \in DOMAIN mask.coverage |-> Shade(RampAt(ramp, q), s)]
  <1>1. /\ DOMAIN letter = {"width", "height", "left", "top", "coverage"}
        /\ w \in Nat /\ h \in Nat /\ letter.coverage \in [Box(w, h) -> Nat]
    BY DEF IsMask
  <1>2. /\ mask.width = w /\ mask.height = h /\ mask.left = letter.left /\ mask.top = letter.top
        /\ mask.coverage = cover /\ DOMAIN cover = Box(w, h)
    <2>1. mask = [letter EXCEPT !.coverage = cover]
      BY DEF fade
    <2>2. DOMAIN cover = Box(w, h)
      BY <1>1
    <2> HIDE DEF mask, cover
    <2> QED BY <1>1, <2>1, <2>2
  <1>3. painted = composite_shaded(canvas, mask, x, y, shades, full)
    <2> HIDE DEF mask, ramp
    <2> QED BY <1>2 DEF composite_mask_gradient, Shade, ramp
  <1>4. s \in Nat \ {0}
    BY <1>1 DEF across, AtLeast, AtMost, AbsOf
  <1>5. ASSUME NEW q \in Box(w, h)
        PROVE  faded(q) \in Nat /\ (to = 4 => faded(q) = 4 * s) /\ shades[q] \in 102 .. 153
    <2> DEFINE r == RampAt(ramp, q)
    <2>1. r \in 0 .. s
      <3> HIDE DEF w, h
      <3> QED BY <1>1, RampWithin
    <2>2. shades[q] = Shade(r, s)
      BY <1>2
    <2> HIDE DEF shades, r, s
    <2>3. shades[q] \in 102 .. 153
      BY <1>4, <2>1, <2>2, ShadeBetween
    <2>4. to = 0 \/ to = 1 \/ to = 2 \/ to = 3 \/ to = 4
      OBVIOUS
    <2>5. 4 * s + (to - 4) * r \in Nat /\ (to = 4 => 4 * s + (to - 4) * r = 4 * s)
      BY <1>4, <2>1, <2>4
    <2> QED BY <2>3, <2>5 DEF r
  <1> HIDE DEF faded, shades, s, ramp, mask
  <1> SUFFICES ASSUME NEW p \in DOMAIN canvas
      PROVE  LET was == canvas[p]
                 ink == at(letter, p[1] - x - letter.left, p[2] - y - letter.top)
             IN  /\ ink = 0 => painted[p] = was
                 /\ AtMost(was, 102) - 1 <= painted[p] /\ painted[p] <= AtLeast(was, 153)
                 /\ (ink = 2 /\ to = 4) => painted[p] \in 102 .. 153
    <2> HIDE DEF painted
    <2> QED BY EndsAre DEF Painted, painted, mask, ramp, s
  <1> DEFINE was == canvas[p]
             a == p[1] - x - letter.left
             b == p[2] - y - letter.top
             q == <<a, b>>
             ink == at(letter, a, b)
             dense == at(mask, a, b)
             share == AtMost(dense, full)
  <1>6. was \in 0 .. 255 /\ a \in Int /\ b \in Int
    BY DEF IsCanvas
  <1>7. painted[p] = IF share <= 0 THEN was ELSE weighted_sum(was, shades[q], share, full)
    <2> HIDE DEF shades, painted
    <2> QED BY <1>2, <1>3 DEF composite_shaded, Under
  <1> HIDE DEF painted, a, b
  <1>8. full \in Nat \ {0}
    BY <1>4
  <1>9. CASE q \in Box(w, h)
    <2>1. ink = letter.coverage[q] /\ ink \in Nat
      <3>1. ink = letter.coverage[q]
        BY <1>6, <1>9, CoverageAt
      <3> HIDE DEF q, ink
      <3> QED BY <1>1, <1>9, <3>1
    <2>2. dense = ink * faded(q)
      <3>1. a \in 0 .. w - 1 /\ b \in 0 .. h - 1
        BY <1>9 DEF Box
      <3>2. dense = mask.coverage[q]
        BY <1>1, <1>2, <3>1 DEF at
      <3>3. mask.coverage[q] = letter.coverage[q] * faded(q)
        <4> HIDE DEF q
        <4> QED BY <1>1, <1>2, <1>9 DEF faded
      <3> QED BY <2>1, <3>2, <3>3
    <2>3. faded(q) \in Nat /\ (to = 4 => faded(q) = 4 * s) /\ shades[q] \in 102 .. 153
      <3> HIDE DEF q
      <3> QED BY <1>5, <1>9
    <2> HIDE DEF ink, dense, q, was, full
    <2>4. dense \in Nat /\ (ink = 0 => dense = 0)
      BY <2>1, <2>2, <2>3
    <2>5. share \in 0 .. full
      BY <1>8, <2>4 DEF AtMost
    <2>6. CASE share <= 0
      <3>1. share = 0 /\ painted[p] = was
        BY <1>7, <2>5, <2>6
      <3>2. ~ (ink = 2 /\ to = 4)
        <4> SUFFICES ASSUME ink = 2, to = 4 PROVE FALSE
          OBVIOUS
        <4>1. dense = 2 * (4 * s)
          BY <2>2, <2>3
        <4> QED BY <1>4, <1>8, <3>1, <4>1 DEF AtMost, full
      <3> HIDE DEF share
      <3> QED BY <1>6, <3>1, <3>2 DEF AtMost, AtLeast, ink, was, a, b
    <2>7. CASE ~ (share <= 0)
      <3> DEFINE shade == shades[q]
                 made == weighted_sum(was, shade, share, full)
      <3>1. shade \in 0 .. 255 /\ shade \in 102 .. 153
        BY <2>3
      <3>2. painted[p] = made
        BY <1>7, <2>7
      <3> HIDE DEF shade, share
      <3>3. /\ made \in Int /\ AtMost(was, shade) <= made /\ made <= AtLeast(was, shade)
            /\ share = full => made = shade
        BY <1>6, <1>8, <2>5, <3>1, BlendBetween
      <3> HIDE DEF made
      <3>4. AtMost(was, 102) - 1 <= made /\ made <= AtLeast(was, 153)
        BY <1>6, <3>1, <3>3 DEF AtMost, AtLeast
      <3>5. ink # 0
        BY <1>8, <2>4, <2>7 DEF share, AtMost
      <3>6. ASSUME ink = 2, to = 4 PROVE made \in 102 .. 153
        <4>1. dense = 2 * (4 * s)
          BY <2>2, <2>3, <3>6
        <4>2. share = full
          BY <1>4, <4>1 DEF share, full, AtMost
        <4> QED BY <3>1, <3>3, <4>2
      <3> QED BY <3>2, <3>4, <3>5, <3>6 DEF ink, was, a, b
    <2> QED BY <2>6, <2>7
  <1>10. CASE ~ (q \in Box(w, h))
    <2>1. a < 0 \/ b < 0 \/ a >= w \/ b >= h
      BY <1>1, <1>6, <1>10 DEF Box
    <2>2. ink = 0 /\ dense = 0
      BY <1>2, <2>1 DEF at
    <2>3. share = 0
      <3> HIDE DEF dense, full
      <3> QED BY <1>8, <2>2 DEF AtMost
    <2> HIDE DEF share
    <2>4. painted[p] = was
      BY <1>7, <2>3
    <2> HIDE DEF was
    <2> QED BY <1>6, <2>2, <2>4 DEF AtMost, AtLeast, was, a, b
  <1> QED BY <1>9, <1>10

\* What the primitives are given: colours in the units of the runs, and whole
\* pixels, boxes, masks and canvases of any size.
PrimitiveAsked ==
  /\ Given_("color") => /\ input.c.turn = 24 /\ input.c.whole = 10 /\ input.c.hue \in Int
                        /\ input.c.saturation \in 0 .. 10 /\ input.c.lightness \in 0 .. 10
  /\ Given_("hues") => input.a \in Int /\ input.b \in Int /\ input.t \in 0 .. 4
  /\ Given_("ramp") => {input.w, input.h, input.cos, input.sin} \subseteq Int
  /\ Given_("line") => input.start \in Int \X Int /\ input.end \in Int \X Int
  /\ Given_("circle") => input.radius \in Nat
  /\ Given_("outlined") => IsMask(input.mask) /\ input.stroke \in Nat
  /\ Given_("painted") => /\ IsMask(input.mask) /\ {input.mask.left, input.mask.top} \subseteq Int
                          /\ IsCanvas(input.canvas) /\ {input.x, input.y} \subseteq Int
                          /\ input.to \in 0 .. 4 /\ {input.cos, input.sin} \subseteq Int

\* Seven of the primitives InkIsKept is about draw what their names say, at any
\* size: colours and gradients (hsl_to_rgb, Hsl::lerp, LinearRamp::across),
\* lines and circles without a gap (BresenhamLineIter,
\* draw_hollow_circle_mut), hollow letters (GlyphMask::outline) and the paint
\* of a faded letter (fade, composite_mask_gradient).
THEOREM PrimitivesDraw ==
  PrimitiveAsked =>
    /\ ColorIsHsl /\ GradientKeepsArc /\ RampSpansBox
    /\ LineIsStraight /\ CircleIsRound
    /\ StrokeWidensInward /\ PaintStaysUnderInk
  <1> SUFFICES ASSUME PrimitiveAsked
               PROVE  /\ ColorIsHsl /\ GradientKeepsArc /\ RampSpansBox
                      /\ LineIsStraight /\ CircleIsRound
                      /\ StrokeWidensInward /\ PaintStaysUnderInk
    OBVIOUS
  <1>1. ColorIsHsl
    <2> SUFFICES ASSUME Given_("color") PROVE ColorIsHsl
      BY DEF ColorIsHsl
    <2>1. IsHsl(input.c)
      BY ColorsAreHsl DEF PrimitiveAsked
    <2> QED BY <2>1 DEF ColorIsHsl, IsHsl
  <1>2. GradientKeepsArc
    <2> SUFFICES ASSUME Given_("hues") PROVE GradientKeepsArc
      BY DEF GradientKeepsArc
    <2>1. KeepsArc(input.a, input.b, input.t)
      BY GradientsKeepArc DEF PrimitiveAsked
    <2> QED BY <2>1 DEF GradientKeepsArc, KeepsArc
  <1>3. RampSpansBox
    <2> SUFFICES ASSUME Given_("ramp") PROVE RampSpansBox
      BY DEF RampSpansBox
    <2>1. Spans(input.w, input.h, input.cos, input.sin)
      BY RampsSpan DEF PrimitiveAsked
    <2> QED BY <2>1 DEF RampSpansBox, Spans
  <1>4. LineIsStraight
    <2> SUFFICES ASSUME Given_("line") PROVE LineIsStraight
      BY DEF LineIsStraight
    <2>1. IsStraight(BresenhamLineIter(input.start, input.end), input.start, input.end)
      BY LinesAreStraight DEF PrimitiveAsked
    <2> QED BY <2>1 DEF LineIsStraight, IsStraight
  <1>5. CircleIsRound
    <2> SUFFICES ASSUME Given_("circle") PROVE CircleIsRound
      BY DEF CircleIsRound
    <2> DEFINE r == input.radius
    <2>1. r \in Nat
      BY DEF PrimitiveAsked
    <2> HIDE DEF r
    <2>2. /\ \A p \in Circle(r) : NearCircle(r, p[1], p[2]) \/ NearCircle(r, p[2], p[1])
          /\ {p[1] : p \in Circle(r)} = -r .. r
      BY <2>1, CirclesAreRound
    <2> QED BY <2>2 DEF CircleIsRound, NearCircle, r
  <1>6. StrokeWidensInward
    <2> SUFFICES ASSUME Given_("outlined") PROVE StrokeWidensInward
      BY DEF StrokeWidensInward
    <2>1. Widens(input.mask, input.stroke)
      BY StrokesWiden DEF PrimitiveAsked
    <2> QED BY <2>1 DEF StrokeWidensInward, Widens
  <1>7. PaintStaysUnderInk
    <2> SUFFICES ASSUME Given_("painted") PROVE PaintStaysUnderInk
      BY DEF PaintStaysUnderInk
    <2>1. Painted(input.mask, input.canvas, input.x, input.y, input.to, input.cos, input.sin)
      BY LettersPaint DEF PrimitiveAsked
    <2> QED BY <2>1 DEF PaintStaysUnderInk, Painted, Nearer, Farther
  <1> QED BY <1>1, <1>2, <1>3, <1>4, <1>5, <1>6, <1>7
=============================================================================
