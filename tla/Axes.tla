-------------------------------- MODULE Axes --------------------------------
(***************************************************************************)
(* lib/Axis.cc: the ticks of an axis.  Values are integers.  An axis of    *)
(* the configuration has a type, first, last, step, origin and, if it is   *)
(* dynamic, the most steps that are wanted; a scale has its least value b  *)
(* and a range.                                                            *)
(***************************************************************************)
EXTENDS Integers, FiniteSets

CONSTANT None     \* an attribute that is not there

Or(attribute, default) == IF attribute = None THEN default ELSE attribute

\* the smallest power of ten that does not make too many steps
StepBase(range, step, count) ==
  LET power[n \in 0..range] == IF n = 0 THEN 1 ELSE 10 * power[n - 1]
      Enough(n) == range <= step * count * power[n]
      exponent == CHOOSE n \in 0..range : Enough(n) /\ \A m \in 0..(n - 1) : ~Enough(m)
  IN  power[exponent]

\* a tenth of the step is too small; a fifth or a half of it may do
Step(x, range) ==
  LET base == StepBase(range, x.step, x.maxtickcount)
      large == x.step * base
      fifth == IF base > 1 /\ 5 * range < x.maxtickcount * large
               THEN large \div 5 ELSE large
  IN  IF base > 1 /\ 2 * range < x.maxtickcount * fifth THEN fifth \div 2 ELSE fifth

\* mutant of Axis: the first tick is not above the origin's multiple below the scale
AxisFloor(x, sc) ==
  LET step == IF x.type = "dynamic" THEN Step(x, sc.range) ELSE x.step
      origin == Or(x.origin, x.first - (x.first \div x.step) * x.step)
  IN  IF x.type = "static" THEN [first |-> x.first, last |-> x.last, step |-> x.step]
      ELSE [first |-> origin + step * ((sc.b - origin) \div step),
            last  |-> origin + step * ((sc.b + sc.range - origin) \div step),
            step  |-> step]

Axis(x, sc) ==
  LET step == IF x.type = "dynamic" THEN Step(x, sc.range) ELSE x.step
      origin == Or(x.origin, x.first - (x.first \div x.step) * x.step)
  IN  IF x.type = "static" THEN [first |-> x.first, last |-> x.last, step |-> x.step]
      ELSE [first |-> origin - step * ((origin - sc.b) \div step),
            last  |-> origin + step * ((sc.b + sc.range - origin) \div step),
            step  |-> step]

AxisTicks(axis) ==
  {axis.first + n * axis.step : n \in 0..((axis.last - axis.first) \div axis.step)}

-----------------------------------------------------------------------------
(***************************************************************************)
(* The ticks of an axis that follows its scale are all those multiples of  *)
(* its step that are in the scale, and not many more than asked for.       *)
(***************************************************************************)
TicksFit(x, sc, axis) ==
  x.type # "static" =>
    /\ axis.first - axis.step < sc.b /\ sc.b <= axis.first
    /\ axis.last <= sc.b + sc.range /\ sc.b + sc.range < axis.last + axis.step
    /\ x.type = "dynamic" => Cardinality(AxisTicks(axis)) <= x.maxtickcount + 1
=============================================================================
