--------------------------- MODULE GradientStops ---------------------------
(***************************************************************************)
(* The editor of a gradient                                                *)
(* (web/src/admin/components/GradientStopEditor.tsx): an angle and rows of *)
(* stops, parsed from the gradient's text at every change and written back *)
(* to it.                                                                  *)
(***************************************************************************)
EXTENDS Requests, Integers

CONSTANTS
  Colours,  \* what a stop's colour may be
  White,    \* the colour of a stop that is added
  Dark,     \* the colours of the fallback
  Width,    \* positions, 100 in the code
  MaxStops, \* bound: stops of a gradient
  Blank     \* a colour field that was cleared

Position == -1..Width
Angles == {160, 200}
Stop(c, p) == [color |-> c, position |-> p]

(***************************************************************************)
(* ui.text: the gradient as it is kept: its angle and its stops in order,  *)
(* or what cannot be read back, for a stop without colour or with a        *)
(* position below zero.                                                    *)
(***************************************************************************)
Readable(s) == s.color # Blank /\ s.position >= 0

Fallback == [angle |-> 160, stops |-> <<Stop(Dark, 0), Stop(Dark, Width)>>]

\* What is not a gradient is edited as the fallback.
ParseGradient(text) ==
  IF Len(text.stops) >= 2 /\ \A i \in DOMAIN text.stops : Readable(text.stops[i])
  THEN text ELSE Fallback

Rows == ParseGradient(ui.text).stops

TypeOK ==
  /\ ui.text.angle \in Angles /\ Len(ui.text.stops) \in 0..MaxStops
  /\ \A i \in DOMAIN ui.text.stops :
       /\ ui.text.stops[i].color \in Colours \cup {White, Dark, Blank}
       /\ ui.text.stops[i].position \in Position

\* By position, of equal ones the earlier first.
Sorted(stops) ==
  LET Before(i, j) == \/ stops[i].position < stops[j].position
                      \/ stops[i].position = stops[j].position /\ i < j
      At(n) == CHOOSE i \in DOMAIN stops :
                 Cardinality({j \in DOMAIN stops : Before(j, i)}) = n - 1
  IN [n \in DOMAIN stops |-> stops[At(n)]]

ComposeGradient(angle, stops) == [angle |-> angle, stops |-> Sorted(stops)]

\* A gradient, or what the background was before.
Init ==
  /\ \E c, d \in Colours, angle \in Angles :
       \/ ui = [text |-> [angle |-> angle, stops |-> <<Stop(c, 0), Stop(d, Width)>>]]
       \/ ui = [text |-> [angle |-> angle, stops |-> <<>>]]
  /\ db = None /\ call = NoCalls /\ log = NewLog

---------------------------------------------------------------------------
Update(angle, stops) ==
  Act /\ ui' = [text |-> ComposeGradient(angle, stops)] /\ UNCHANGED <<db, call>>

Angle == ParseGradient(ui.text).angle

SetAngle(a) == a # Angle /\ Update(a, Rows)

UpdateStop(i, s) == i \in DOMAIN Rows /\ s # Rows[i] /\ Update(Angle, [Rows EXCEPT ![i] = s])

\* In the middle of the first of the widest gaps.
WidestGap(stops) ==
  LET Gap(i) == stops[i + 1].position - stops[i].position
      gaps == 1..Len(stops) - 1
  IN CHOOSE i \in gaps : \A j \in gaps : Gap(i) > Gap(j) \/ (Gap(i) = Gap(j) /\ i <= j)

AddStop ==
  /\ Len(Rows) < MaxStops
  /\ LET sorted == Sorted(Rows)  i == WidestGap(sorted)
         middle == (sorted[i].position + sorted[i + 1].position + 1) \div 2
     IN Update(Angle, Append(Rows, Stop(White, middle)))

\* Fault: the stop is found by its position.
RemoveByPosition(i) ==
  /\ i \in DOMAIN Rows /\ Len(Rows) > 2
  /\ Update(Angle, SelectSeq(Rows, LAMBDA s : s.position # Rows[i].position))

RemoveStop(i) ==
  /\ i \in DOMAIN Rows /\ Len(Rows) > 2
  /\ Update(Angle, SubSeq(Rows, 1, i - 1) \o SubSeq(Rows, i + 1, Len(Rows)))

Next ==
  \/ \E a \in Angles : SetAngle(a)
  \/ \E i \in DOMAIN Rows :
       \/ RemoveStop(i)
       \/ \E p \in Position : UpdateStop(i, [Rows[i] EXCEPT !.position = p])
       \/ \E c \in Colours \cup {Blank} : UpdateStop(i, [Rows[i] EXCEPT !.color = c])
  \/ AddStop

Spec == Init /\ [][Next]_vars

---------------------------------------------------------------------------
(* Properties.                                                             *)

Count(stops, s) == Cardinality({i \in DOMAIN stops : stops[i] = s})

\* How many stops of one are missing in the other.
Missing(from, to) ==
  Cardinality({i \in DOMAIN from : Count(SubSeq(from, 1, i), from[i]) > Count(to, from[i])})

Positions(stops) == {stops[i].position : i \in DOMAIN stops}
Apart(stops) == \E i \in 1..Len(stops) - 1 : stops[i + 1].position >= stops[i].position + 2

\* One edit changes, adds or removes one stop and keeps the others, whatever
\* their order and also where positions are equal; a stop is added between two
\* others ("adding a stop after the last one would otherwise collapse two stops
\* on top of each other", addStop).  Not so once a field was cleared: then the
\* rows shown are the fallback's.
OneStopChanges ==
  LET before == Rows  after == Rows' IN
    (\A i \in DOMAIN ui.text'.stops : Readable(ui.text'.stops[i])) =>
      /\ Missing(before, after) <= 1 /\ Missing(after, before) <= 1
      /\ Len(after) > Len(before) /\ Apart(before) => Positions(after) # Positions(before)
=============================================================================
