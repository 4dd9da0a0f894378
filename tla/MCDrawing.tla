--------------------------- MODULE MCDrawing ----------------------------
(***************************************************************************)
(* Small inputs for the primitives of the renderer, and what each of them  *)
(* must do, against a definition that does not follow the code.            *)
(***************************************************************************)
EXTENDS Drawing, Inputs

Side == 5            \* bound: the grid lines, boxes and curves live in
MaxRadius == 15      \* bound: the largest radius the renderer draws
Quarter == 4         \* displacements are in quarters of a pixel

Colors == [hue : {0, 1, 3, 4, 6, 9, 12, 15, 19, 23}, saturation : {0, 5, 10},
           lightness : {0, 3, 5, 8, 10}, turn : {24}, whole : {10}]

PickColor == \E c \in Colors : input' = [of |-> "color", c |-> c]

PickHues ==
  \E a, b \in 0 .. 23, t \in 0 .. 4 : input' = [of |-> "hues", a |-> a, b |-> b, t |-> t]

\* Directions of a few lengths, all round.
Directions == {d \in {-4, -3, 0, 3, 4, 12, -12} \X {-4, -3, 0, 3, 4, 5, -5} : d # <<0, 0>>}

PickRamp ==
  \E w, h \in 0 .. Side, d \in Directions :
    input' = [of |-> "ramp", w |-> w, h |-> h, cos |-> d[1], sin |-> d[2]]

PickLine ==
  \E a, b \in Box(Side, Side) : input' = [of |-> "line", start |-> a, end |-> b]

PickCircle == \E r \in 1 .. MaxRadius : input' = [of |-> "circle", radius |-> r]

Corners == {<<0, 0>>, <<0, 4>>, <<7, 2>>, <<9, 9>>}

PickCurve ==
  \E a, b, c, d \in Corners :
    input' = [of |-> "curve", start |-> a, a |-> b, b |-> c, end |-> d]

\* Masks of three rows at most, with some of the shapes ink can take.
Mask(w, h, ink) == [width |-> w, height |-> h, left |-> -1, top |-> 2,
                    coverage |-> [p \in Box(w, h) |-> ink[p]]]

Masks ==
  UNION {{Mask(s[1], s[2], ink) : ink \in [Box(s[1], s[2]) -> {0, 1, 2}]} :
           s \in {<<1, 1>>, <<2, 1>>, <<1, 3>>, <<2, 2>>}}
  \union {Mask(3, 3, [p \in Box(3, 3) |-> IF p \in hole THEN 0 ELSE 2]) : hole \in SUBSET {<<0, 0>>, <<1, 1>>, <<2, 1>>}}

PickDisplaced ==
  \E m \in Masks : \E offsets \in [0 .. m.height - 1 -> {-5, -1, 0, 7}] :
    input' = [of |-> "displaced", mask |-> m, offsets |-> offsets]

\* Right angles, and turns about as far as the renderer's.
Turns == [cos : {12}, sin : {5, -5}, den : {13}] \union [cos : {4}, sin : {3, -3}, den : {5}]
           \union [cos : {0}, sin : {1}, den : {1}] \union [cos : {-1}, sin : {0}, den : {1}]

PickTurned ==
  \E m \in {n \in Masks : \A p \in DOMAIN n.coverage : n.coverage[p] # 1}, turn \in Turns :
    \E offsets \in [0 .. m.height - 1 -> {-4, 3}] :
      input' = [of |-> "turned", mask |-> m, offsets |-> offsets, turn |-> turn]

PickOutlined ==
  \E w, h \in 1 .. Side - 1, stroke \in {0, 1, 5, 7, 8, 9, 15, 16, 23, 32, 40} :
    \E hole \in {{}, {<<0, 0>>}, {<<2, 2>>}, {<<1, 0>>, <<3, 3>>}} :
      input' = [of |-> "outlined", stroke |-> stroke,
                mask |-> Mask(w, h, [p \in Box(w, h) |-> IF p \in hole THEN 1 ELSE 3])]

\* The last one has a tail: beside the faintest ink its weight is under the
\* cut of blur_over_mask.
Kernels == {<<1, 2, 1>>, <<1, 3, 4, 3, 1>>, <<1, 4, 6, 4, 1>>}

PickBlurred ==
  \E m \in Masks, k \in Kernels : input' = [of |-> "blurred", mask |-> m, kernel |-> k]

CanvasWidth == 6
CanvasHeight == 5
Canvases == {[p \in Box(CanvasWidth, CanvasHeight) |-> (37 * p[1] + 91 * p[2]) % 256],
             [p \in Box(CanvasWidth, CanvasHeight) |-> IF p[2] = 1 THEN 255 ELSE 0]}

PickSmeared ==
  \E m \in {n \in Masks : n.width = 2 /\ n.coverage[<<0, 0>>] = 2}, k \in Kernels,
     canvas \in Canvases, x \in {-2, 1, 6}, y \in {-3, 2}, full \in {2, 40} :
    input' = [of |-> "smeared", mask |-> m, kernel |-> k, canvas |-> canvas, x |-> x, y |-> y,
              full |-> full]

PickPainted ==
  \E m \in {n \in Masks : n.width = 2 /\ n.coverage[<<0, 0>>] # 1}, canvas \in Canvases,
     x \in {-1, 1, 5}, y \in {-2, 1},
     to \in {1, 3, 4}, d \in {<<1, 0>>, <<-3, 4>>} :
    input' = [of |-> "painted", mask |-> m, canvas |-> canvas, x |-> x, y |-> y, to |-> to,
              cos |-> d[1], sin |-> d[2]]

PickColors == PickColor \/ PickHues \/ PickRamp

PickShapes == PickLine \/ PickCircle \/ PickCurve \/ PickOutlined \/ PickTurned

PickMasks == PickDisplaced \/ PickBlurred \/ PickSmeared \/ PickPainted

-----------------------------------------------------------------------------
(***************************************************************************)
(* Properties.                                                             *)
(***************************************************************************)
\* The six sectors of hsl_to_rgb are the one formula of the HSL model,
\* L - a * max(-1, min(k - 3, 9 - k, 1)) with k = n + 12 H, in every channel.
ColorIsHsl ==
  Given_("color") =>
    LET c == input.c
        a == c.saturation * AtMost(c.lightness, 10 - c.lightness)
        value(n) == LET k == (2 * n + c.hue) % 24
                    IN  20 * c.lightness - a * AtLeast(AtMost(AtMost(k - 6, 18 - k), 2), -2)
    IN  hsl_to_rgb(c) = <<RoundDiv(value(0) * 255, 200), RoundDiv(value(8) * 255, 200),
                          RoundDiv(value(4) * 255, 200)>>

\* A gradient never leaves the shorter arc between its two hues, so that a
\* letter is not swept through the whole wheel (Hsl::lerp).
GradientKeepsArc ==
  Given_("hues") =>
    LET hsl(h) == [hue |-> h, saturation |-> 5, lightness |-> 4, turn |-> 24, whole |-> 10]
        distance(g, h, turn) == LET d == (g - h) % turn IN AtMost(d, turn - d)
        at_t == lerp(hsl(input.a), hsl(input.b), input.t, 4).hue
        whole == distance(input.a, input.b, 24)
    IN  /\ distance(at_t, 4 * input.a, 96) = whole * input.t
        /\ distance(at_t, 4 * input.b, 96) = whole * (4 - input.t)

\* A ramp runs over the whole of its box and no further, whichever way it
\* points: some pixel is at its start, some at its end, and none had to be
\* clamped (LinearRamp::across).
RampSpansBox ==
  Given_("ramp") =>
    LET ramp == across(input.w, input.h, input.cos, input.sin)
        along == {p[1] * input.cos + p[2] * input.sin - ramp.origin : p \in Box(input.w, input.h)}
    IN  Box(input.w, input.h) # {} =>
          /\ 0 \in along /\ ramp.span \in along
          /\ along \subseteq 0 .. ramp.span
          /\ {RampAt(ramp, p) : p \in Box(input.w, input.h)} = along

\* A line has one pixel per column (row, when steep), each within half a pixel
\* of the ideal line, from one end to the other (BresenhamLineIter).
LineIsStraight ==
  Given_("line") =>
    LET line == BresenhamLineIter(input.start, input.end)
        dx == input.end[1] - input.start[1]
        dy == input.end[2] - input.start[2]
        long == AtLeast(AbsOf(dx), AbsOf(dy))
        drawn == {line[n] : n \in DOMAIN line}
        off(p) == AbsOf(dx * (p[2] - input.start[2]) - dy * (p[1] - input.start[1]))
    IN  /\ {input.start, input.end} \subseteq drawn
        /\ Cardinality(drawn) = long + 1
        /\ \A p \in drawn : 2 * off(p) <= long
        /\ \A n \in DOMAIN line \ {0} : \A k \in 1 .. 2 : AbsOf(line[n][k] - line[n - 1][k]) <= 1

Square(n) == n * n

\* Every pixel of a circle is within half a pixel of it along one axis, and
\* there is one in every column and every row (draw_hollow_circle_mut).
CircleIsRound ==
  Given_("circle") =>
    LET r == input.radius
        near(x, y) == LET left == 4 * (Square(r) - Square(x)) IN
                      /\ Square(2 * AbsOf(y) - 1) <= left + 1
                      /\ left <= Square(2 * AbsOf(y) + 1) + 1
    IN  /\ \A p \in Circle(r) : near(p[1], p[2]) \/ near(p[2], p[1])
        /\ {p[1] : p \in Circle(r)} = -r .. r

\* The interference line goes through the points de Casteljau's construction
\* gives, from its start to its end without a gap, and never leaves the box
\* of its four points.
CurveFollowsControls ==
  Given_("curve") =>
    LET points == <<input.start, input.a, input.b, input.end>>
        n == 4
        mix(p, q, i) == [k \in 1 .. 2 |-> p[k] * (n - i) + q[k] * i]
        cast(i) == LET ab == mix(points[1], points[2], i)
                       bc == mix(points[2], points[3], i)
                       cd == mix(points[3], points[4], i)
                   IN  mix(mix(ab, bc, i), mix(bc, cd, i), i)
        drawn == Curve(input.start, input.a, input.b, input.end, n)
        within(p, k) == /\ \E q \in 1 .. 4 : points[q][k] <= p[k]
                        /\ \E q \in 1 .. 4 : points[q][k] >= p[k]
        reached[i \in 0 .. Side * Side] ==
          IF i = 0 THEN {input.start}
          ELSE LET last == reached[i - 1] IN
               {p \in drawn : \E q \in last : \A k \in 1 .. 2 : AbsOf(p[k] - q[k]) <= 1}
    IN  /\ \A i \in 0 .. n :
             [k \in 1 .. 2 |-> RoundDiv(cast(i)[k], n ^ 3)] \in drawn
        /\ \A p \in drawn : within(p, 1) /\ within(p, 2)
        /\ reached[Side * Side] = drawn

Ink(mask) == MapThenSumSet(LAMBDA p : mask.coverage[p], DOMAIN mask.coverage)

\* The ink of a row, and where it is: its sum, weighted by its place along
\* the axis, counted from the pen.
RowInk(mask, y) == MapThenSumSet(LAMBDA x : at(mask, x, y), 0 .. mask.width - 1)
RowMoment(mask, y) ==
  MapThenSumSet(LAMBDA x : (mask.left + x) * at(mask, x, y), 0 .. mask.width - 1)

\* A shear or a wave moves every row by its displacement and clips none of it:
\* the buffer grows, and its corner moves with it (displace_rows).
DisplacedInkIsKept ==
  Given_("displaced") =>
    LET mask == input.mask
        moved == displace_rows(mask, input.offsets, Quarter)
    IN  /\ moved.top = mask.top /\ moved.height = mask.height
        /\ \A y \in 0 .. mask.height - 1 :
             /\ RowInk(moved, y) = Quarter * RowInk(mask, y)
             /\ RowMoment(moved, y) = Quarter * RowMoment(mask, y)
                                      + input.offsets[y] * RowInk(mask, y)

\* A turned letter fits its buffer: no pixel around it would be given any ink.
\* And a turn by half a turn is the displaced letter reflected in its centre.
TurnedLetterFits ==
  Given_("turned") =>
    LET mask == input.mask
        turned == displace_and_rotate(mask, input.offsets, Quarter, input.turn)
        straight == displace_rows(mask, input.offsets, Quarter)
        ring == ((turned.left - 2 .. turned.left + turned.width + 1)
                   \X (turned.top - 2 .. turned.top + turned.height + 1))
                \ ((turned.left .. turned.left + turned.width - 1)
                   \X (turned.top .. turned.top + turned.height - 1))
        e == 2 * input.turn.den
    IN  /\ \A q \in ring :
             TurnedAt(mask, input.offsets, Quarter, input.turn, q[1], q[2]) = 0
        /\ input.turn.cos = -input.turn.den =>
             \A p \in DOMAIN straight.coverage :
               at(turned, straight.left + straight.width - 1 - p[1] - turned.left,
                          straight.top + straight.height - 1 - p[2] - turned.top)
               = straight.coverage[p] * e * e

\* A wider stroke leaves no pixel fainter, and one as wide as the letter leaves
\* it solid, capped or not.  Beside what is not ink a pixel keeps all of its ink
\* if the stroke is a pixel wide or more, and as much of it as there is stroke
\* otherwise: a thin stroke fades the silhouette (GlyphMask::outline).
StrokeWidensInward ==
  Given_("outlined") =>
    LET mask == input.mask
        hollow == outline(mask, input.stroke)
        wider == outline(mask, input.stroke + 1)
        size == AtLeast(mask.width, mask.height)
    IN  \A p \in DOMAIN mask.coverage :
          /\ hollow.coverage[p] <= 8 * mask.coverage[p]
          /\ input.stroke > 0 => 0 <= hollow.coverage[p] /\ hollow.coverage[p] <= wider.coverage[p]
          /\ input.stroke >= 8 * size => hollow.coverage[p] = 8 * mask.coverage[p]
          /\ (input.stroke > 0 /\ ~ \A i \in {-1, 0, 1} : at(mask, p[1] + i, p[2]) > 0) =>
                hollow.coverage[p] = AtMost(input.stroke, 8) * mask.coverage[p]

\* A blurred mask has all of the ink, centred where it was (GlyphMask::blur).
BlurredInkIsKept ==
  Given_("blurred") =>
    LET mask == input.mask
        soft == blur(mask, input.kernel)
        r == Len(input.kernel) \div 2
        one == [i \in -r .. r |-> 1]
        total == Weigh(input.kernel, one) ^ 2
        moment(m, k) == MapThenSumSet(LAMBDA p : (<<m.left, m.top>>[k] + p[k]) * m.coverage[p],
                                      DOMAIN m.coverage)
    IN  /\ Ink(soft) = total * Ink(mask)
        /\ \A k \in 1 .. 2 : moment(soft, k) = total * moment(mask, k)

\* Wherever the letter hangs over the edge, every pixel of the region around
\* it gets what blurring the whole canvas would give it, and no pixel outside is
\* touched.  The region is the box of the pixels whose share of the blur is over
\* the cut of one part in 512; beyond it the whole canvas would keep a level or
\* lose one, for what is blended is not rounded but cut off (blur_over_mask,
\* clamp_u8_f32).
SmearIsLocalBlur ==
  Given_("smeared") =>
    LET full == input.full
        r == Len(input.kernel) \div 2
        one == [i \in -r .. r |-> 1]
        total == Weigh(input.kernel, one) ^ 2
        canvas == input.canvas
        weight == blur(input.mask, input.kernel)
        smeared == blur_over_mask(canvas, CanvasWidth, CanvasHeight, input.mask,
                                  input.x, input.y, input.kernel, full)
        everywhere(p) ==
          Weigh(input.kernel, [j \in -r .. r |->
            Weigh(input.kernel, [i \in -r .. r |->
                    canvas[<<Clamped(p[1] + i, 0, CanvasWidth - 1),
                             Clamped(p[2] + j, 0, CanvasHeight - 1)>>]])])
        gain(q) == weight.coverage[q] * BLUR_SPILL_GAIN
        share(p) == AtMost(at(weight, p[1] - input.x - weight.left, p[2] - input.y - weight.top)
                             * BLUR_SPILL_GAIN, full * total)
        whole(p) == (canvas[p] * total * (full * total - share(p))
                       + everywhere(p) * share(p)) \div (full * total * total)
        strong == {<<q[1] + input.x + weight.left, q[2] + input.y + weight.top>> :
                     q \in {q \in DOMAIN weight.coverage : 512 * gain(q) > full * total}}
        boxed(p) == \A k \in 1 .. 2 : /\ \E q \in strong : q[k] <= p[k]
                                      /\ \E q \in strong : q[k] >= p[k]
    IN  \A p \in DOMAIN canvas :
          /\ boxed(p) => smeared[p] = whole(p)
          /\ ~ boxed(p) => smeared[p] = canvas[p] /\ canvas[p] - whole(p) \in {0, 1}

\* A faded letter in a gradient changes a pixel only where its own mask has
\* ink, and never past the brightest and the darkest of what was there and the
\* colours of the gradient (fade, composite_mask_gradient).
PaintStaysUnderInk ==
  Given_("painted") =>
    LET ramp == across(input.mask.width, input.mask.height, input.cos, input.sin)
        full == 2 * 4 * AtLeast(ramp.span, 1)
        mask == fade(input.mask, 4, input.to, 4, input.cos, input.sin)
        near == [hue |-> 0, saturation |-> 0, lightness |-> 4, turn |-> 24, whole |-> 10]
        far == [near EXCEPT !.lightness = 6]
        painted == composite_mask_gradient(input.canvas, mask, input.x, input.y, near, far,
                                           input.cos, input.sin, full, 1)
        low == hsl_to_rgb(near)[1]
        high == hsl_to_rgb(far)[1]
    IN  \A p \in DOMAIN input.canvas :
          LET was == input.canvas[p]
              ink == at(input.mask, p[1] - input.x - input.mask.left,
                                    p[2] - input.y - input.mask.top)
          IN  /\ ink = 0 => painted[p] = was
              /\ AtMost(was, low) - 1 <= painted[p] /\ painted[p] <= AtLeast(was, high)
              /\ (ink = 2 /\ input.to = 4) => painted[p] \in low .. high

\* The primitives draw what their names say: no ink is lost, moved or added on
\* the way from a letter to the canvas, and no shape has a gap.
InkIsKept ==
  /\ ColorIsHsl /\ GradientKeepsArc /\ RampSpansBox
  /\ LineIsStraight /\ CircleIsRound /\ CurveFollowsControls
  /\ DisplacedInkIsKept /\ TurnedLetterFits /\ StrokeWidensInward
  /\ BlurredInkIsKept /\ SmearIsLocalBlur /\ PaintStaysUnderInk
=============================================================================
