----------------------------- MODULE Drawing ----------------------------
(***************************************************************************)
(* The primitives of the renderer (services/captcha/drawing.rs), over      *)
(* rational numbers with a fixed denominator for every quantity: what the  *)
(* code does in f32, up to its rounding.  Each operator says in which unit *)
(* its arguments and its result are.                                       *)
(*                                                                         *)
(* A mask has a coverage for every pixel of its box; left and top place    *)
(* the box relative to the pen.  A canvas has one channel.                 *)
(***************************************************************************)
EXTENDS Integers, Sequences, FiniteSets, FiniteSetsExt

AbsOf(n) == IF n < 0 THEN -n ELSE n
AtLeast(n, bound) == IF n < bound THEN bound ELSE n
AtMost(n, bound) == IF n > bound THEN bound ELSE n
Clamped(n, low, high) == AtMost(AtLeast(n, low), high)

\* n / d rounded up, and rounded to the nearest as f32::round does.
CeilDiv(n, d) == -((-n) \div d)
RoundDiv(n, d) == IF n >= 0 THEN (2 * n + d) \div (2 * d) ELSE -((2 * (-n) + d) \div (2 * d))

Box(w, h) == (0 .. w - 1) \X (0 .. h - 1)

-----------------------------------------------------------------------------
(***************************************************************************)
(* Colours.  A colour has its hue in turn-ths of a turn, a multiple of 6,  *)
(* and its saturation and lightness in whole-ths.                          *)
(***************************************************************************)
\* The channels before the lightness is added, by the sector of the hue.
Sector(sector, chroma, second) ==
  CASE sector = 0 -> <<chroma, second, 0>>
    [] sector = 1 -> <<second, chroma, 0>>
    [] sector = 2 -> <<0, chroma, second>>
    [] sector = 3 -> <<0, second, chroma>>
    [] sector = 4 -> <<second, 0, chroma>>
    [] OTHER -> <<chroma, 0, second>>

hsl_to_rgb(c) ==
  LET sixth == c.turn \div 6
      h == c.hue % c.turn
      s == Clamped(c.saturation, 0, c.whole)
      l == Clamped(c.lightness, 0, c.whole)
      chroma == (c.whole - AbsOf(2 * l - c.whole)) * s
      second == chroma * (sixth - AbsOf((h % (2 * sixth)) - sixth))
      base == (2 * c.whole * l - chroma) * sixth
      rgb == Sector(h \div sixth, chroma * sixth, second)
  IN  [i \in 1 .. 3 |->
         Clamped(RoundDiv((2 * rgb[i] + base) * 255, 2 * c.whole * c.whole * sixth), 0, 255)]

Arc(from, to, turn) ==
  LET ahead == (to - from) % turn IN IF 2 * ahead > turn THEN ahead - turn ELSE ahead

\* Hsl::lerp; t is in unit-ths, and so are the results' units.
lerp(from, to, t, unit) ==
  [hue |-> (from.hue * unit + Arc(from.hue, to.hue, from.turn) * t) % (from.turn * unit),
   saturation |-> from.saturation * unit + (to.saturation - from.saturation) * t,
   lightness |-> from.lightness * unit + (to.lightness - from.lightness) * t,
   turn |-> from.turn * unit, whole |-> from.whole * unit]

-----------------------------------------------------------------------------
(***************************************************************************)
(* LinearRamp, along a direction of any length; positions and span are in  *)
(* pixels times that length.                                               *)
(***************************************************************************)
across(w, h, cos, sin) ==
  LET right == AtLeast(w - 1, 0)
      bottom == AtLeast(h - 1, 0)
  IN  [cos |-> cos, sin |-> sin,
       origin |-> AtMost(cos, 0) * right + AtMost(sin, 0) * bottom,
       span |-> AbsOf(cos) * right + AbsOf(sin) * bottom]

\* In units of the span.
RampAt(ramp, p) ==
  IF ramp.span <= 0 THEN 0
  ELSE Clamped(p[1] * ramp.cos + p[2] * ramp.sin - ramp.origin, 0, ramp.span)

-----------------------------------------------------------------------------
(***************************************************************************)
(* Lines and circles.                                                      *)
(***************************************************************************)
Swapped(p) == <<p[2], p[1]>>

\* dx / 2, in halves.
Seed(dx) == dx

\* BresenhamLineIter between pixels: by the pixels taken, the rest of the
\* error in halves and the minor coordinate.
BresenhamLineIter(start, end) ==
  LET steep == AbsOf(end[2] - start[2]) > AbsOf(end[1] - start[1])
      a == IF steep THEN Swapped(start) ELSE start
      b == IF steep THEN Swapped(end) ELSE end
      from == IF a[1] > b[1] THEN b ELSE a
      to == IF a[1] > b[1] THEN a ELSE b
      dx == to[1] - from[1]
      dy == AbsOf(to[2] - from[2])
      step == IF from[2] < to[2] THEN 1 ELSE -1
      at[n \in 0 .. dx] ==
        IF n = 0 THEN [error |-> Seed(dx), minor |-> from[2]]
        ELSE LET last == at[n - 1]  error == last.error - 2 * dy IN
             IF error < 0 THEN [error |-> error + 2 * dx, minor |-> last.minor + step]
             ELSE [error |-> error, minor |-> last.minor]
  IN  [n \in 0 .. dx |->
         LET p == <<from[1] + n, at[n].minor>> IN IF steep THEN Swapped(p) ELSE p]

Decide(p) == p < 0

\* draw_hollow_circle_mut: the points of one octant, and their eight images.
Octant(radius) ==
  LET at[n \in 0 .. radius] ==
        IF n = 0 THEN [x |-> 0, y |-> radius, p |-> 1 - radius]
        ELSE LET last == at[n - 1] IN
             IF Decide(last.p)
             THEN [x |-> n, y |-> last.y, p |-> last.p + 2 * n + 1]
             ELSE [x |-> n, y |-> last.y - 1, p |-> last.p + 2 * (n - (last.y - 1)) + 1]
  IN  {<<at[n].x, at[n].y>> : n \in {m \in 0 .. radius : at[m].x <= at[m].y}}

Signed(p) == {<<i * p[1], j * p[2]>> : i \in {-1, 1}, j \in {-1, 1}}

Circle(radius) == UNION {Signed(p) \union Signed(Swapped(p)) : p \in Octant(radius)}

\* The point of draw_cubic_bezier_curve_mut at i / n, rounded to a pixel: one
\* of its coordinates.
Bezier(start, a, b, end, i, n, k) ==
  RoundDiv(start[k] * (n - i) ^ 3 + 3 * a[k] * (n - i) ^ 2 * i
           + 3 * b[k] * (n - i) * i ^ 2 + end[k] * i ^ 3, n ^ 3)

CurvePoint(start, a, b, end, i, n) ==
  [k \in 1 .. 2 |-> Bezier(start, a, b, end, i, n, k)]

\* The whole curve: n segments, each from where the one before ended.
Curve(start, a, b, end, n) ==
  UNION {LET line == BresenhamLineIter(CurvePoint(start, a, b, end, i, n),
                                       CurvePoint(start, a, b, end, i + 1, n))
         IN  {line[j] : j \in DOMAIN line} : i \in 0 .. n - 1}

-----------------------------------------------------------------------------
(***************************************************************************)
(* Masks.  A deformed mask has its coverage in a finer unit than the one   *)
(* it came from: by d after a displacement given in d-ths of a pixel, and  *)
(* so on.  Offsets are a function from row to displacement.                *)
(***************************************************************************)
at(mask, x, y) ==
  IF x < 0 \/ y < 0 \/ x >= mask.width \/ y >= mask.height THEN 0
  ELSE mask.coverage[<<x, y>>]

\* x in d-ths; the result too.
sample_row(mask, x, y, d) ==
  LET x0 == x \div d  frac == x % d
  IN  at(mask, x0, y) * (d - frac) + at(mask, x0 + 1, y) * frac

\* x in d-ths and y in e-ths; the result in both.
sample(mask, x, d, y, e) ==
  LET y0 == y \div e  frac == y % e
  IN  sample_row(mask, x, y0, d) * (e - frac) + sample_row(mask, x, y0 + 1, d) * frac

Pad(most, d) == CeilDiv(AtLeast(most, 0), d) + 1

\* Mutant: a row that moves left is given room on the right.
displacement_bounds_Mirrored(mask, offsets, d) ==
  LET moved == {offsets[y] : y \in 0 .. mask.height - 1}
  IN  [right |-> Pad(-(CHOOSE m \in moved : \A n \in moved : m <= n), d),
       left |-> Pad(CHOOSE m \in moved : \A n \in moved : m >= n, d)]

displacement_bounds(mask, offsets, d) ==
  LET moved == {offsets[y] : y \in 0 .. mask.height - 1}
  IN  [left |-> Pad(-(CHOOSE m \in moved : \A n \in moved : m <= n), d),
       right |-> Pad(CHOOSE m \in moved : \A n \in moved : m >= n, d)]

displace_rows(mask, offsets, d) ==
  LET pad == displacement_bounds(mask, offsets, d)
      width == mask.width + pad.left + pad.right
  IN  [width |-> width, height |-> mask.height, left |-> mask.left - pad.left, top |-> mask.top,
       coverage |-> [p \in Box(width, mask.height) |->
                       sample_row(mask, (p[1] - pad.left) * d - offsets[p[2]], p[2], d)]]

\* The displacement at a row in e-ths; the result in e times the offsets' unit.
interpolate_offset(offsets, last, row, e) ==
  IF row <= 0 THEN offsets[0] * e
  ELSE IF row >= last * e THEN offsets[last] * e
  ELSE offsets[row \div e] * (e - (row % e)) + offsets[row \div e + 1] * (row % e)

\* The box of a turned mask, cos and sin being over den.  The centre is in
\* halves of a pixel.
TurnedBox(centre, width, height, turn) ==
  LET wide == AbsOf(turn.cos) * width + AbsOf(turn.sin) * height
      down == AbsOf(turn.sin) * width + AbsOf(turn.cos) * height
      e == 2 * turn.den
  IN  [left |-> (centre[1] * turn.den - wide) \div e - 1,
       top |-> (centre[2] * turn.den - down) \div e - 1,
       right |-> CeilDiv(centre[1] * turn.den + wide, e) + 1,
       bottom |-> CeilDiv(centre[2] * turn.den + down, e) + 1]

Displaced(mask, offsets, d) ==
  LET pad == displacement_bounds(mask, offsets, d)
  IN  [pad |-> pad.left, left |-> mask.left - pad.left, top |-> mask.top,
       width |-> mask.width + pad.left + pad.right, height |-> mask.height]

CentreOf(box) == <<2 * box.left + box.width, 2 * box.top + box.height>>

\* What the pixel at <<x, y>> from the pen is given: un-turned about the
\* centre into the displaced box, then un-displaced into the mask.  In
\* 2 den d-ths times 2 den-ths.
TurnedAt(mask, offsets, d, turn, x, y) ==
  LET box == Displaced(mask, offsets, d)
      e == 2 * turn.den
      dx == 2 * x + 1 - CentreOf(box)[1]
      dy == 2 * y + 1 - CentreOf(box)[2]
      px == dx * turn.cos + dy * turn.sin + box.width * turn.den
      row == dy * turn.cos - dx * turn.sin + box.height * turn.den - turn.den
      shift == interpolate_offset(offsets, mask.height - 1, row, e)
  IN  sample(mask, (px - turn.den - box.pad * e) * d - shift, e * d, row, e)

\* For a turn other than none: without one the code only displaces the rows.
displace_and_rotate(mask, offsets, d, turn) ==
  LET box == Displaced(mask, offsets, d)
      frame == TurnedBox(CentreOf(box), box.width, box.height, turn)
      width == AtLeast(frame.right - frame.left, 1)
      height == AtLeast(frame.bottom - frame.top, 1)
  IN  [width |-> width, height |-> height, left |-> frame.left, top |-> frame.top,
       coverage |-> [p \in Box(width, height) |->
                       TurnedAt(mask, offsets, d, turn, frame.left + p[1], frame.top + p[2])]]

\* The least coverage within a distance, given squared.
LeastWithin(mask, p, squared, reach) ==
  LET disc == {q \in (-reach .. reach) \X (-reach .. reach) : q[1] * q[1] + q[2] * q[2] <= squared}
      seen == {at(mask, p[1] + q[1], p[2] + q[2]) : q \in disc}
  IN  CHOOSE m \in seen : \A n \in seen : m <= n

Mixed(inner, outer, blend) == 8 * inner + (outer - inner) * blend

\* stroke in eighths of a pixel; the result in eighths.
outline(mask, stroke) ==
  LET capped == AtMost(stroke, 8 * AtLeast(mask.width, mask.height))
      inner == capped \div 8
      reach == inner + 1
      interior(p) == Mixed(LeastWithin(mask, p, inner * inner, reach),
                           LeastWithin(mask, p, reach * reach, reach), capped % 8)
  IN  IF stroke <= 0 THEN [mask EXCEPT !.coverage = [p \in DOMAIN @ |-> 8 * @[p]]]
      ELSE [mask EXCEPT !.coverage = [p \in DOMAIN @ |-> 8 * @[p] - interior(p)]]

\* A kernel is a sequence of 2 r + 1 weights; Weigh adds up the taps around 0.
Weigh(kernel, tap) ==
  LET r == Len(kernel) \div 2
      to[i \in -r - 1 .. r] == IF i < -r THEN 0 ELSE to[i - 1] + kernel[i + r + 1] * tap[i]
  IN  to[r]

BlurHeight(height, radius) == height + 2 * radius

blur(mask, kernel) ==
  LET r == Len(kernel) \div 2
      width == mask.width + 2 * r
      height == BlurHeight(mask.height, r)
      horizontal == [p \in Box(width, mask.height) |->
                       Weigh(kernel, [i \in -r .. r |-> at(mask, p[1] - r + i, p[2])])]
  IN  [width |-> width, height |-> height, left |-> mask.left - r, top |-> mask.top - r,
       coverage |-> [p \in Box(width, height) |->
                       Weigh(kernel, [i \in -r .. r |->
                                        IF p[2] - r + i \in 0 .. mask.height - 1
                                        THEN horizontal[<<p[1], p[2] - r + i>>] ELSE 0])]]

\* from and to in d-ths; the result in d times the ramp's span.
fade(mask, from, to, d, cos, sin) ==
  LET ramp == across(mask.width, mask.height, cos, sin)
      span == AtLeast(ramp.span, 1)
  IN  [mask EXCEPT !.coverage =
         [p \in DOMAIN @ |-> @[p] * (from * span + (to - from) * RampAt(ramp, p))]]

-----------------------------------------------------------------------------
(***************************************************************************)
(* Painting a mask on a canvas: a function from Box(width, height) to a    *)
(* level in 0..255.  Coverage in full-ths.                                 *)
(***************************************************************************)
clamp_u8(n, d) == Clamped(n \div d, 0, 255)

weighted_sum(under, over, share, full) == clamp_u8(under * (full - share) + over * share, full)

\* The mask's pixel that lands on a pixel of the canvas.
Under(mask, x, y, p) == <<p[1] - x - mask.left, p[2] - y - mask.top>>

composite_shaded(canvas, mask, x, y, colors, full) ==
  [p \in DOMAIN canvas |->
     LET q == Under(mask, x, y, p)
         gv == AtMost(at(mask, q[1], q[2]), full)
     IN  IF gv <= 0 THEN canvas[p] ELSE weighted_sum(canvas[p], colors[q], gv, full)]

\* One channel of the gradient from near to far.
composite_mask_gradient(canvas, mask, x, y, near, far, cos, sin, full, channel) ==
  LET ramp == across(mask.width, mask.height, cos, sin)
      shades == [q \in DOMAIN mask.coverage |->
        hsl_to_rgb(lerp(near, far, RampAt(ramp, q), AtLeast(ramp.span, 1)))[channel]]
  IN  composite_shaded(canvas, mask, x, y, shades, full)

composite_mask(canvas, mask, x, y, color, full) ==
  composite_shaded(canvas, mask, x, y, [q \in DOMAIN mask.coverage |-> color], full)

\* The gain on the coverage that decides where the smear applies.
BLUR_SPILL_GAIN == 3

Rows(y0, y1, radius, h) == [from |-> AtLeast(y0 - radius, 0), to |-> AtMost(y1 + radius, h)]

\* Where the weight can move a pixel, in the weight's own columns and rows.
Region(weight, full) ==
  LET seen == {p \in DOMAIN weight.coverage :
                 weight.coverage[p] * BLUR_SPILL_GAIN * 512 > full}
      xs == {p[1] : p \in seen}  ys == {p[2] : p \in seen}
      least(s) == CHOOSE m \in s : \A n \in s : m <= n
      most(s) == CHOOSE m \in s : \A n \in s : m >= n
  IN  IF seen = {} THEN [x0 |-> 0, x1 |-> 0, y0 |-> 0, y1 |-> 0]
      ELSE [x0 |-> least(xs), x1 |-> most(xs) + 1, y0 |-> least(ys), y1 |-> most(ys) + 1]

blur_over_mask(canvas, w, h, mask, x, y, kernel, full) ==
  LET r == Len(kernel) \div 2
      total == Weigh(kernel, [i \in -r .. r |-> 1]) ^ 2
      weight == blur(mask, kernel)
      left == x + weight.left
      top == y + weight.top
      cut == Region(weight, full * total)
      x0 == AtLeast(left + cut.x0, 0)  x1 == AtMost(left + cut.x1, w)
      y0 == AtLeast(top + cut.y0, 0)   y1 == AtMost(top + cut.y1, h)
      rows == Rows(y0, y1, r, h)
      horizontal == [p \in (x0 .. x1 - 1) \X (rows.from .. rows.to - 1) |->
                       Weigh(kernel, [i \in -r .. r |->
                                        canvas[<<Clamped(p[1] + i, 0, w - 1), p[2]>>]])]
      blurred(p) ==
        Weigh(kernel, [i \in -r .. r |->
                         horizontal[<<p[1], Clamped(p[2] + i, rows.from, rows.to - 1)>>]])
      share(p) == AtMost(at(weight, p[1] - left, p[2] - top) * BLUR_SPILL_GAIN, full * total)
  IN  [p \in DOMAIN canvas |->
         IF p[1] \in x0 .. x1 - 1 /\ p[2] \in y0 .. y1 - 1 /\ share(p) > 0
         THEN clamp_u8(canvas[p] * total * (full * total - share(p)) + blurred(p) * share(p),
                       full * total * total)
         ELSE canvas[p]]

-----------------------------------------------------------------------------
(***************************************************************************)
(* Noise.                                                                  *)
(***************************************************************************)
\* gaussian_noise_mut of one channel, the noise in d-ths.
gaussian_noise_mut(level, noise, d) == clamp_u8(level * d + noise, d)

\* What salt_and_pepper_noise_mut draws a speck from, in hundredths.
SpeckSaturation == 35 .. 99
SpeckLightness == 82 .. 99 \union 0 .. 17

Speck(hue, saturation, lightness) ==
  hsl_to_rgb([hue |-> hue, saturation |-> saturation, lightness |-> lightness,
              turn |-> 24, whole |-> 100])
=============================================================================
