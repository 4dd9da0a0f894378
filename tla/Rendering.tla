---------------------------- MODULE Rendering ---------------------------
(***************************************************************************)
(* How a CAPTCHA is composed out of the primitives                         *)
(* (services/captcha/generator.rs).  A random draw is the set of what it   *)
(* can return.  Shares, intensities and colours are in hundredths.         *)
(***************************************************************************)
EXTENDS Drawing

LIGHT_MODE_LIGHTNESS == 32 .. 52
DARK_MODE_LIGHTNESS == 55 .. 80
GLYPH_SATURATION == 50 .. 95
MAX_CLUSTERING == 45
MIN_OPACITY == 35
MIN_OUTLINE_OPACITY == 60

MAX_GRADIENT_HUE_SHIFT == 45

Deformed == {"jitter", "scale", "skew", "wave", "rotation", "clustering", "outline",
             "transparency", "gradient", "blur"}

\* Deformations::for_difficulty.  The curve between the ends is left open: an
\* intensity is zero at the easiest level, and only there.
Intensity(difficulty) == IF Clamped(difficulty, 1, 10) = 1 THEN {0} ELSE 1 .. 100

shaped(intensity) ==
  [d \in Deformed |-> IF intensity = 0 THEN 0 ELSE IF d = "blur" THEN 100 ELSE intensity]

\* The intensity as the code clamps it before it scales anything.
Strength(deform, d) == Clamped(deform[d], 0, 100)

-----------------------------------------------------------------------------
(***************************************************************************)
(* The layout of write_characters.  A length is in 100 n-ths of a pixel,   *)
(* n being the number of letters.                                          *)
(***************************************************************************)
Origin(full, span, n) == 500 * n + (100 * n * full - n * span) \div 2

Layout(width, n, deform) ==
  LET full == AtLeast(width - 10, 0)
      span == full * (100 - ((100 - MAX_CLUSTERING) * Strength(deform, "clustering")) \div 100)
  IN  IF deform["clustering"] > 0
      THEN [origin |-> Origin(full, span, n), step |-> span]
      ELSE [origin |-> 500 * n, step |-> 100 * n * (full \div n)]

\* Where the pen is put for each letter.
Pens(width, n, deform) ==
  LET at_ == Layout(width, n, deform)
  IN  [i \in 0 .. n - 1 |-> RoundDiv(at_.origin + i * at_.step, 100 * n)]

\* The font size, and how far a letter is shifted from its pen.
Scale(n) == CASE n <= 3 -> 50 [] n \in 4 .. 5 -> 42 [] OTHER -> 35

MAX_JITTER == 16

Jitters(n, deform) ==
  LET most == RoundDiv(MAX_JITTER * Scale(n) * deform["jitter"], 10000) IN -most .. most

PenRow(height) == AtLeast((height \div 2) - 15, 0)

-----------------------------------------------------------------------------
(***************************************************************************)
(* The random draws of one letter, in order.  spread draws nothing for a   *)
(* magnitude of zero.                                                      *)
(***************************************************************************)
\* Mutant: drawn whatever the magnitude.
spread_Always(deform, d, draws) == draws

spread(deform, d, draws) == IF deform[d] > 0 THEN draws ELSE <<>>

\* Shading::draw; hollow is what the outline's first draw decides.
ShadingDraws(deform, hollow) ==
  <<"color">>
  \o (IF deform["outline"] > 0
      THEN IF hollow THEN <<"outline", "outline">> ELSE <<"outline">> ELSE <<>>)
  \o (IF deform["transparency"] > 0 THEN <<"transparency", "transparency">> ELSE <<>>)
  \o (IF deform["blur"] > 0 THEN <<"blur">> ELSE <<>>)
  \o (IF deform["gradient"] > 0 THEN <<"gradient", "gradient", "gradient">> ELSE <<>>)

LetterDraws(deform, hollow) ==
  ShadingDraws(deform, hollow)
  \o spread(deform, "scale", <<"scale", "scale">>)
  \o spread(deform, "jitter", <<"jitter", "jitter">>)
  \o spread(deform, "skew", <<"skew">>)
  \o spread(deform, "wave", <<"wave">>)
  \o (IF deform["wave"] > 0 THEN <<"wave", "wave">> ELSE <<>>)
  \o spread(deform, "rotation", <<"rotation">>)

-----------------------------------------------------------------------------
(***************************************************************************)
(* The paint of one letter.                                                *)
(***************************************************************************)
glyph_lightness(dark_mode) == IF dark_mode THEN DARK_MODE_LIGHTNESS ELSE LIGHT_MODE_LIGHTNESS

\* The least opacity the far end of a letter can be drawn with.
FadeFloor(deform, hollow) ==
  100 - ((100 - IF hollow THEN MIN_OUTLINE_OPACITY ELSE MIN_OPACITY)
           * Strength(deform, "transparency")) \div 100

\* How far along the wheel the far end of the gradient can be.
HueShifts(deform) ==
  LET most == (MAX_GRADIENT_HUE_SHIFT * Strength(deform, "gradient")) \div 100
  IN  -most .. most

\* The far lightness, drawn from the same band and approached by the
\* intensity; in ten thousandths.
FarLightness(near, drawn, deform) == 100 * near + (drawn - near) * Strength(deform, "gradient")

\* Shading::shape, with a stroke and a fade.
shape(mask, stroke, far, cos, sin) == fade(outline(mask, stroke), 100, far, 100, cos, sin)

\* Shading::paint of one channel.
paint(canvas, w, h, mask, x, y, near, far, cos, sin, kernel, full, channel) ==
  LET painted == composite_mask_gradient(canvas, mask, x, y, near, far, cos, sin, full, channel)
  IN  IF kernel = <<>> THEN painted
      ELSE blur_over_mask(painted, w, h, mask, x, y, kernel, full)

-----------------------------------------------------------------------------
(***************************************************************************)
(* The interference.                                                       *)
(***************************************************************************)
get_rnd(num) == 0 .. num

get_next(min, max) == IF max <= min THEN {min} ELSE {min + n : n \in get_rnd(max - min)}

\* The coordinates the four points of draw_interference_line are drawn from.
LinePoints(width, height) ==
  IF width <= 5 \/ height <= 5 THEN {}
  ELSE LET middle == get_next(width \div 4, (width \div 4) * 3)
           below == get_next(5, height - 5)
       IN  {[x |-> {5}, y |-> get_next(5, height \div 2)],
            [x |-> {AtLeast(width - 5, 0)},
             y |-> get_next(height \div 2, AtLeast(height - 5, 0))],
            [x |-> middle, y |-> below]}

\* Those of the circles of draw_interference_ellipses.
CircleCentres(width, height) ==
  IF width <= 25 \/ height <= 15 THEN {}
  ELSE {[x |-> get_rnd(width - 25), y |-> get_rnd(height - 15)]}

CircleRadii == {10 + n : n \in get_rnd(5)}

-----------------------------------------------------------------------------
(***************************************************************************)
(* The whole picture.                                                      *)
(***************************************************************************)
\* The ground.
LIGHT == <<224, 238, 253>>
DARK == <<18, 18, 18>>

background(dark_mode) == IF dark_mode THEN DARK ELSE LIGHT

\* generate and render: what is drawn of what was asked for.
Rendered(length, difficulty, width, height) ==
  [length |-> Clamped(length, 1, 32), difficulty |-> Clamped(difficulty, 1, 10),
   width |-> Clamped(width, 30, 2000), height |-> Clamped(height, 20, 2000)]

\* The two noises, with their mean, deviation and rate per thousand.
Noise(difficulty) ==
  IF difficulty <= 1 THEN [mean |-> 0, stddev |-> 0, rate |-> 0]
  ELSE [mean |-> difficulty - 1, stddev |-> 5 * difficulty - 5, rate |-> 2 * difficulty - 2]
=============================================================================
