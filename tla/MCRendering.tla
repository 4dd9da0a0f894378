-------------------------- MODULE MCRendering ---------------------------
(***************************************************************************)
(* Sizes, levels and draws for the composition of a CAPTCHA.               *)
(***************************************************************************)
EXTENDS Rendering, Inputs

Widths == {30, 31, 50, 120, 220, 333, 2000}
Heights == {20, 21, 40, 97, 2000}
Levels == {0, 1, 37, 50, 100}

PickLayout ==
  \E w \in Widths, h \in Heights, n \in 1 .. 32, level \in Levels :
    input' = [of |-> "layout", width |-> w, height |-> h, n |-> n, level |-> level]

PickDraws ==
  \E off \in SUBSET Deformed, hollow \in BOOLEAN :
    input' = [of |-> "draws", off |-> off, hollow |-> hollow]

PickPaint ==
  \E dark \in BOOLEAN, hollow \in BOOLEAN, level \in Levels, hue \in {0, 30, 99} :
    \E near, drawn \in {32, 40, 51, 55, 66, 79} :
      /\ {near, drawn} \subseteq glyph_lightness(dark)
      /\ input' = [of |-> "paint", dark |-> dark, hollow |-> hollow, level |-> level,
                   hue |-> hue, near |-> near, drawn |-> drawn]

\* The strokes of a letter of 35 pixels, in eighths of one: OUTLINE_STROKE is
\* from 0.025 to 0.055 of the size, and the thinnest less than a pixel.
Strokes == 7 .. 15

PickHollow ==
  \E stroke \in Strokes, far \in {60, 80, 100}, d \in {<<1, 0>>, <<3, -4>>} :
    input' = [of |-> "hollow", stroke |-> stroke, far |-> far, cos |-> d[1], sin |-> d[2]]

PickNeighbour ==
  \E gap \in 0 .. 4, soft \in BOOLEAN :
    input' = [of |-> "neighbour", gap |-> gap, soft |-> soft]

PickSpeck ==
  \E hue \in {0, 4, 10, 17}, saturation \in {35, 60, 99}, lightness \in SpeckLightness :
    input' = [of |-> "speck", hue |-> hue, saturation |-> saturation, lightness |-> lightness]

\* Levels of a channel, and noise in quarters of one.
PickNoise ==
  \E level \in {0, 1, 18, 128, 253, 255}, noise \in {-1100, -999, -3, -1, 0, 1, 2, 5, 511, 1100} :
    input' = [of |-> "noise", level |-> level, noise |-> noise]

PickRendering == PickSpeck \/ PickNoise \/ PickLayout \/ PickDraws \/ PickPaint \/ PickHollow \/ PickNeighbour

-----------------------------------------------------------------------------
(***************************************************************************)
(* Properties.                                                             *)
(***************************************************************************)
\* Crowding the letters keeps them in order and in the middle: the room left
\* of the first is the room right of the last's place, to a pixel, and at no
\* intensity do they spread past the margins (write_characters).
LettersStayCentred ==
  Given_("layout") =>
    LET deform == shaped(input.level)
        pens == Pens(input.width, input.n, deform)
        at_ == Layout(input.width, input.n, deform)
        right == (100 * input.n) * (input.width - 5) - (at_.origin + input.n * at_.step)
        left == at_.origin - 500 * input.n
        slack == IF input.level = 0 THEN 100 * input.n * input.n ELSE input.n * 2
    IN  /\ AbsOf(right - left) <= slack
        /\ left >= 0 /\ right >= 0
        /\ \A i \in 1 .. input.n - 1 : pens[i - 1] <= pens[i]

\* The interference is drawn on the canvas at every size that is rendered:
\* the four points of a line are on it, and so, by CurveFollowsControls, is
\* the line; a circle is centred on it (draw_interference_line, _ellipses).
InterferenceOnCanvas ==
  Given_("layout") =>
    \A p \in LinePoints(input.width, input.height)
               \union CircleCentres(input.width, input.height) :
      p.x \subseteq 0 .. input.width - 1 /\ p.y \subseteq 0 .. input.height - 1

\* The draws that are left without those of some deformations.
Without(draws, off) ==
  LET left[n \in 0 .. Len(draws)] ==
        IF n = 0 THEN <<>>
        ELSE IF draws[n] \in off THEN left[n - 1] ELSE Append(left[n - 1], draws[n])
  IN  left[Len(draws)]

\* Switching one deformation off takes its own random draws away and moves no
\* other deformation's (spread, Shading::draw).
DrawsAreIndependent ==
  Given_("draws") =>
    LET deform == [d \in Deformed |-> IF d \in input.off THEN 0 ELSE 50]
        all == LetterDraws([d \in Deformed |-> 50], input.hollow)
    IN  LetterDraws(deform, input.hollow) = Without(all, input.off)

\* The easiest CAPTCHA is upright, sharp, evenly spaced and free of noise: its
\* letters draw nothing but their colour, and stand where whole steps put them
\* (Deformations::shaped, render).
EasyIsUntouched ==
  (Given_("layout") /\ input.level \in Intensity(1)) =>
    LET deform == shaped(input.level)
    IN  /\ LetterDraws(deform, FALSE) = <<"color">>
        /\ Noise(Rendered(4, 0, 0, 0).difficulty) = Noise(1)
        /\ \A d \in {"mean", "stddev", "rate"} : Noise(1)[d] = 0
        /\ \A i \in 0 .. input.n - 1 :
             Pens(input.width, input.n, deform)[i] = 5 + i * ((input.width - 10) \div input.n)

\* A gradient sweeps the arc that was drawn for it: lerp, which only knows the
\* two ends, does not take the other way round the wheel (Shading::draw).
GradientIsTheOneDrawn ==
  Given_("paint") =>
    \A shift \in HueShifts(shaped(input.level)) : Arc(input.hue, input.hue + shift, 100) = shift

\* A letter stays legible all over, whatever it drew: its lightness is in the
\* band of its mode at every point of the gradient, and its opacity never
\* falls below the floor of its kind, full at the near end.
LetterStaysLegible ==
  Given_("paint") =>
    LET deform == shaped(input.level)
        band == glyph_lightness(input.dark)
        far == FarLightness(input.near, input.drawn, deform)
        floor == IF input.hollow THEN 60 ELSE 35
    IN  /\ \A t \in 0 .. 4 :
             LET l == 400 * input.near + (far - 100 * input.near) * t
             IN  \E low, high \in band : 400 * low <= l /\ l <= 400 * high
        /\ FadeFloor(deform, input.hollow) \in floor .. 100

Solid == [width |-> 7, height |-> 7, left |-> 0, top |-> 0, coverage |-> [p \in Box(7, 7) |-> 1]]

\* A hollow letter has nothing inside, faded or not: deeper than the stroke no
\* ink is left.  On its edge is all that the fade leaves, if the stroke is a
\* pixel or more, and the stroke's share of that if it is less: the thinnest
\* strokes that are drawn are fainter than the letter (Shading::shape).
HollowIsEmptyInside ==
  Given_("hollow") =>
    LET shaped_ == shape(Solid, input.stroke, input.far, input.cos, input.sin)
        faded == fade(Solid, 100, input.far, 100, input.cos, input.sin)
        depth(p) == AtMost(AtMost(p[1], 6 - p[1]), AtMost(p[2], 6 - p[2]))
    IN  \A p \in DOMAIN Solid.coverage :
          /\ 8 * depth(p) > input.stroke => shaped_.coverage[p] = 0
          /\ depth(p) = 0 => shaped_.coverage[p] = AtMost(input.stroke, 8) * faded.coverage[p]

\* A softened letter mixes with what is already next to it: the pixels of its
\* own edge take up some of the neighbour, and the neighbour some of the
\* letter, as far as the kernel reaches (Shading::paint).
SoftLettersMix ==
  Given_("neighbour") =>
    LET canvas == [p \in Box(9, 5) |-> IF p[1] <= 2 THEN 40 ELSE 240]
        letter == [width |-> 2, height |-> 5, left |-> 0, top |-> 0,
                   coverage |-> [p \in Box(2, 5) |-> 1]]
        hue == [hue |-> 0, saturation |-> 0, lightness |-> 4, turn |-> 24, whole |-> 10]
        kernel == IF input.soft THEN <<1, 2, 1>> ELSE <<>>
        painted == paint(canvas, 9, 5, letter, 3 + input.gap, 0, hue, hue, 1, 0, kernel, 1, 1)
        hard == paint(canvas, 9, 5, letter, 3 + input.gap, 0, hue, hue, 1, 0, <<>>, 1, 1)
    IN  /\ ~ input.soft => painted[<<2, 2>>] = 40
        /\ (input.soft /\ input.gap = 0) => painted[<<2, 2>>] > 40 /\ painted[<<3, 2>>] < hard[<<3, 2>>]
        /\ (input.soft /\ input.gap > 1) => painted[<<2, 2>>] = 40

\* At the size and up to the length that is rendered by default, and one letter
\* more, no two letters can be shifted past each other however hard the picture
\* is: the order to read them in is the order of the solution (write_characters).
LettersReadInOrder ==
  (Given_("layout") /\ input.width = 220 /\ input.n <= 7) =>
    LET deform == shaped(input.level)
        pens == Pens(input.width, input.n, deform)
    IN  \A i \in 1 .. input.n - 1, a, b \in Jitters(input.n, deform) :
          pens[i - 1] + a <= pens[i] + b

\* However faint a letter gets, it is further from its ground in brightness
\* than the noise of the hardest level moves both on average (glyph_lightness,
\* MIN_OPACITY, render).
InkStandsOut ==
  Given_("paint") =>
    LET ground == background(input.dark)
        opacity == FadeFloor(shaped(input.level), input.hollow)
        Bright(level(_)) == level(1) + level(2) + level(3)
        bare(i) == ground[i]
    IN  \A hue \in {0, 4, 8, 12, 16, 20}, saturation \in {50, 95} :
          LET ink == hsl_to_rgb([hue |-> hue, saturation |-> saturation,
                                 lightness |-> input.near, turn |-> 24, whole |-> 100])
              inked(i) == weighted_sum(ground[i], ink[i], opacity, 100)
          IN  AbsOf(Bright(inked) - Bright(bare)) > 3 * Noise(10).mean

\* A speck is never as light as a letter can be, in either mode: what is taken
\* for ink is not a speck (salt_and_pepper_noise_mut).
SpecksAreNotInk ==
  Given_("speck") =>
    LET rgb == Speck(input.hue, input.saturation, input.lightness)
        channels == {rgb[i] : i \in 1 .. 3}
        twice == (CHOOSE m \in channels : \A n \in channels : m <= n)
                 + (CHOOSE m \in channels : \A n \in channels : m >= n)
    IN  \A dark \in BOOLEAN :
          LET inks == {510 * l : l \in glyph_lightness(dark)}
          IN  (\A ink \in inks : 100 * twice < ink) \/ (\A ink \in inks : 100 * twice > ink)

\* Noise ends at black and at white, and between them moves a channel as far
\* as it says, to a level: it never wraps (gaussian_noise_mut, clamp_u8_f64).
NoiseSaturates ==
  Given_("noise") =>
    LET after == gaussian_noise_mut(input.level, input.noise, 4)
        exact == 4 * input.level + input.noise
    IN  /\ after \in 0 .. 255
        /\ exact \in 0 .. 1020 => (4 * after <= exact /\ exact < 4 * after + 4)
        /\ exact < 0 => after = 0
        /\ exact > 1020 => after = 255

\* At every difficulty a picture is legible, on its canvas, and distorted by
\* what that difficulty asks for and nothing else.
PictureIsLegible ==
  /\ LettersStayCentred /\ InterferenceOnCanvas /\ EasyIsUntouched
  /\ DrawsAreIndependent /\ GradientIsTheOneDrawn /\ LetterStaysLegible
  /\ HollowIsEmptyInside /\ SoftLettersMix /\ LettersReadInOrder
  /\ InkStandsOut /\ SpecksAreNotInk /\ NoiseSaturates
=============================================================================
