----------------------------- MODULE ColorField -----------------------------
(***************************************************************************)
(* The colour picker of the theme editor and of plugin forms (ColorField   *)
(* in web/src/admin/components/ThemeTokenFields.tsx): a text field, and a  *)
(* popover with a square for saturation and value, a strip for the hue and *)
(* one for transparency, all of which change the field at once.            *)
(***************************************************************************)
EXTENDS Requests, Integers

CONSTANTS
  Full,   \* the largest value of a channel: 255
  Steps,  \* where a pointer may be: on a side of the square, and of the hue's
          \* strip on 60 degrees, which has 60
  Opaque, \* steps of the strip of transparency: 100
  Word    \* a text that is no hex or rgb colour

Level == 0..Full
Rgb == Level \X Level \X Level
Opacity == 0..Opaque

(***************************************************************************)
(* What the code keeps as a float is an exact fraction here, not reduced.  *)
(* The hue in sixths of the circle, saturation and value as parts of one.  *)
(***************************************************************************)
Fraction(num, den) == [num |-> num, den |-> den]
UpTo(n) == {q \in [num : Nat, den : Nat \ {0}] : q.num <= n * q.den}
Hue == UpTo(6)
Hsv == [h : Hue, s : UpTo(1), v : UpTo(1)]
Zero == Fraction(0, 1)

\* A text: a hex colour has no alpha; one that is typed has no more decimals
\* than the strip gives it.
Colour == [rgb : Rgb, alpha : Opacity \cup {None}]
Text == Colour \cup {Word}
Black == [rgb |-> <<0, 0, 0>>, alpha |-> None]

---------------------------------------------------------------------------
(* Conversions.                                                            *)

\* Math.round(n / d)
Rounded(n, d) == (2 * n + d) \div (2 * d)

Abs(n) == IF n < 0 THEN -n ELSE n

\* What is no colour is black.
ToHexAndAlpha(text) == IF text = Word THEN Black ELSE text

\* An opaque colour has no alpha.
ComposeColor(rgb, alpha) == [rgb |-> rgb, alpha |-> IF alpha >= Opaque THEN None ELSE alpha]

\* Fault: a hue left of red stays negative.
Unturned(h) == h

\* The colour circle begins at red.
Turned(h) == IF h.num < 0 THEN Fraction(h.num + 6 * h.den, h.den) ELSE h

\* A grey has no hue, and black no saturation.
RgbToHsv(c) ==
  LET high == CHOOSE n \in {c[1], c[2], c[3]} : \A m \in {c[1], c[2], c[3]} : n >= m
      low == CHOOSE n \in {c[1], c[2], c[3]} : \A m \in {c[1], c[2], c[3]} : n <= m
      d == high - low
      h == CASE d = 0 -> Zero
             [] d # 0 /\ high = c[1] -> Fraction(c[2] - c[3], d)
             [] d # 0 /\ high # c[1] /\ high = c[2] -> Fraction(c[3] - c[1] + 2 * d, d)
             [] OTHER -> Fraction(c[1] - c[2] + 4 * d, d)
  IN [h |-> Turned(h),
      s |-> IF high = 0 THEN Zero ELSE Fraction(d, high),
      v |-> Fraction(high, Full)]

\* Rounded to whole channels last of all (rgbToHex): one is n / whole of Full.
HsvToRgb(c) ==
  LET whole == c.v.den * c.s.den * c.h.den
      chroma == c.v.num * c.s.num * c.h.den
      x == c.v.num * c.s.num * (c.h.den - Abs((c.h.num % (2 * c.h.den)) - c.h.den))
      m == c.v.num * c.s.den * c.h.den - chroma
      rgb == CASE c.h.num < c.h.den -> <<chroma, x, 0>>
               [] c.h.den <= c.h.num /\ c.h.num < 2 * c.h.den -> <<x, chroma, 0>>
               [] 2 * c.h.den <= c.h.num /\ c.h.num < 3 * c.h.den -> <<0, chroma, x>>
               [] 3 * c.h.den <= c.h.num /\ c.h.num < 4 * c.h.den -> <<0, x, chroma>>
               [] 4 * c.h.den <= c.h.num /\ c.h.num < 5 * c.h.den -> <<x, 0, chroma>>
               [] OTHER -> <<chroma, 0, x>>
  IN [i \in 1..3 |-> Rounded(Full * (rgb[i] + m), whole)]

---------------------------------------------------------------------------
(***************************************************************************)
(* ui.value: the text.  ui.open: the popover is shown.  ui.hsv, ui.alpha:  *)
(* what its controls show, also after it was closed.  History: ui.seed:    *)
(* the text the popover was opened on; ui.moved: the controls moved since; *)
(* ui.hue: the hue last chosen, or found there.                            *)
(***************************************************************************)
TypeOK ==
  /\ ui.value \in Text /\ ui.open \in BOOLEAN /\ ui.hsv \in Hsv /\ ui.alpha \in Opacity
  /\ ui.moved \subseteq {"sv", "hue", "alpha", "text"}

Init ==
  /\ \E text \in Text :
       ui = [value |-> text, open |-> FALSE, hsv |-> [h |-> Zero, s |-> Zero, v |-> Zero],
             alpha |-> Opaque, seed |-> text, moved |-> {}, hue |-> Zero]
  /\ db = None /\ call = NoCalls /\ log = NewLog

Changes(new) == Act /\ ui' = new /\ UNCHANGED <<db, call>>

\* The controls are set from the text when the popover opens, and only then.
OpenPopover ==
  /\ ~ui.open
  /\ LET c == ToHexAndAlpha(ui.value) IN
       Changes([ui EXCEPT !.open = TRUE, !.hsv = RgbToHsv(c.rgb),
                          !.alpha = IF c.alpha = None THEN Opaque ELSE c.alpha,
                          !.seed = ui.value, !.moved = {}, !.hue = RgbToHsv(c.rgb).h])

\* The swatch, Escape, or a click anywhere else.
Close == ui.open /\ Changes([ui EXCEPT !.open = FALSE])

\* Fault: the controls are set again from the colour.
EmitReseeding(control, hsv, alpha) ==
  Changes([ui EXCEPT !.hsv = RgbToHsv(HsvToRgb(hsv)), !.alpha = alpha,
                     !.moved = @ \cup {control},
                     !.hue = IF control = "hue" THEN hsv.h ELSE @,
                     !.value = ComposeColor(HsvToRgb(hsv), alpha)])

Emit(control, hsv, alpha) ==
  Changes([ui EXCEPT !.hsv = hsv, !.alpha = alpha, !.moved = @ \cup {control},
                     !.hue = IF control = "hue" THEN hsv.h ELSE @,
                     !.value = ComposeColor(HsvToRgb(hsv), alpha)])

\* A pointer on the square; outside, it counts as on the edge.
UpdateFromSvEvent(s, v) ==
  ui.open /\ Emit("sv", [ui.hsv EXCEPT !.s = s, !.v = v], ui.alpha)

ChangeHue(h) == ui.open /\ Emit("hue", [ui.hsv EXCEPT !.h = h], ui.alpha)

ChangeAlpha(a) == ui.open /\ Emit("alpha", ui.hsv, a)

\* The keyboard reaches the text while the popover is open.
TypeText(text) ==
  /\ text # ui.value
  /\ Changes([ui EXCEPT !.value = text, !.moved = IF ui.open THEN @ \cup {"text"} ELSE @])

Next ==
  \/ OpenPopover \/ Close
  \/ \E i, j \in 0..Steps : UpdateFromSvEvent(Fraction(i, Steps), Fraction(j, Steps))
  \/ \E i \in 0..6 * Steps : ChangeHue(Fraction(i, Steps))
  \/ \E a \in Opacity : ChangeAlpha(a)
  \/ \E text \in {Word, [Black EXCEPT !.alpha = 0]} : TypeText(text)

Spec == Init /\ [][Next]_vars

---------------------------------------------------------------------------
(* Properties.                                                             *)

\* Until something is typed, the popover keeps what it was not told to change:
\* transparency alone leaves the colour it was opened on, and the hue survives
\* black and grey, which have none ("round-tripping a fully desaturated or fully
\* dark color back through rgb->hsv loses its hue entirely", ColorField).
ColourIsKept ==
  ui.open /\ "text" \notin ui.moved =>
    /\ ui.moved \subseteq {"alpha"} => ToHexAndAlpha(ui.value).rgb = ToHexAndAlpha(ui.seed).rgb
    /\ ui.moved # {} => ui.value = ComposeColor(HsvToRgb([ui.hsv EXCEPT !.h = ui.hue]), ui.alpha)
=============================================================================
