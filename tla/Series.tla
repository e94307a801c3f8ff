------------------------------- MODULE Series -------------------------------
(***************************************************************************)
(* What is computed of the series of a query: the expressions of           *)
(* lib/Dataset.cc and the scales of lib/Scale.cc.                          *)
(*                                                                         *)
(* A graph is described as in the configuration file: selects, data        *)
(* (elements with an expression), axes and channels.                       *)
(***************************************************************************)
EXTENDS TimeSeries, Sequences, Axes

CONSTANT Nodes     \* the nodes of the expressions in the configuration

\* the elements that a node has
Arguments(n) ==
  CASE n.tag = "function" -> {n.arg}
    [] n.tag \in {"function2", "diff", "quot"} -> {n.arg1, n.arg2}
    [] OTHER -> {}

Depth[n \in Nodes] ==
  IF Arguments(n) = {} THEN 0 ELSE 1 + Max({Depth[m] : m \in Arguments(n)})

\* An expression is a tree.  A constant has no times (Tdata.h leaves them undefined), so
\* functions are of series.
ASSUME NodesAssumption ==
  /\ IsFiniteSet(Nodes)
  /\ \A n \in Nodes :
       /\ Depth[n] \in Nat
       /\ \A m \in Arguments(n) : m \in Nodes /\ Depth[m] < Depth[n]
       /\ n.tag = "constant" => n.value \in Int
       /\ n.tag = "function" => n.limit \in Int \cup {None} /\ n.arg.tag # "constant"
       /\ n.tag \in {"function2", "diff", "quot"} =>
            n.arg1.tag # "constant" \/ n.arg2.tag # "constant"

-----------------------------------------------------------------------------
(* Dataset: the series by name                                             *)

getData(ds, name) == IF name \in DOMAIN ds THEN ds[name] ELSE Failed

\* the functions of values, with the limit of floor and ceil
Unary(name, bound, v) ==
  CASE name = "sqr" -> v * v
    [] name = "floor" -> Max({v, bound})
    [] name = "ceil"  -> Min({v, bound})
    [] name \in {"sqrt", "sin", "cos", "tan"} -> Formula(name, v, None)

\* Tdata::apply of the function that x names
apply(x, d) ==
  [d EXCEPT !.constant = FALSE,
            !.data = Defined([k \in DOMAIN @ |-> Unary(x.name, x.limit, @[k])])]

function(x, d) ==
  CASE x.name = "accumulate" -> accumulate(d)
    [] x.name \in {"sqr", "sqrt", "sin", "cos", "tan"} -> apply(x, d)
    [] x.name \in {"floor", "ceil"} -> IF x.limit = None THEN Failed ELSE apply(x, d)
    [] OTHER -> Failed

binary(x, a, b) ==
  IF x.tag \in {"diff", "quot"} THEN apply2(x.tag, a, b)
  ELSE IF x.name \in {"atan2", "azi", "hypot", "dewpoint", "heatindex", "windchill",
                      "max", "min"} THEN apply2(x.name, a, b)
  ELSE Failed

\* these compute something, but go on to the exception at the end
Unfinished == {"sum", "mult"}

\* of the values that its elements have
NodeOf(ds, value, n) ==
  CASE n.tag = "value"    -> getData(ds, n.name)
    [] n.tag = "constant" -> Constant(n.value)
    [] n.tag = "function" ->
         IF value[n.arg] = Failed THEN Failed ELSE function(n, value[n.arg])
    [] n.tag \in {"function2", "diff", "quot"} ->
         IF Failed \in {value[n.arg1], value[n.arg2]} THEN Failed
         ELSE binary(n, value[n.arg1], value[n.arg2])
    [] n.tag \in Unfinished -> Failed
    [] OTHER -> Failed

processNode(ds, x) ==
  LET value[n \in Nodes] == NodeOf(ds, value, n) IN value[x]

\* a data element may use the selects and the elements before it
addData(ds, e) ==
  LET d == IF ds = Failed THEN Failed ELSE processNode(ds, e.node) IN
    IF d = Failed THEN Failed
    ELSE [n \in DOMAIN ds \cup {e.name} |-> IF n = e.name THEN d ELSE ds[n]]

addAlldata(ds, elements) ==
  LET after[n \in 0..Len(elements)] ==
        IF n = 0 THEN ds ELSE addData(after[n - 1], elements[n])
  IN  after[Len(elements)]

-----------------------------------------------------------------------------
(* Scale                                                                   *)

\* the highest or lowest value to be shown, from the data or else an attribute
Extreme(name, attribute, highest, ds) ==
  IF name = None THEN IF attribute = None THEN Failed ELSE attribute
  ELSE IF getData(ds, name) = Failed THEN Failed
  ELSE IF highest THEN Highest(getData(ds, name)) ELSE Lowest(getData(ds, name))

toprange(min2, max2, min, max) ==
  LET r == max2 - min2 IN
    IF max > max2 \/ (min < min2 /\ min + r < max) THEN max - r ELSE min2

bottomrange(min2, max2, min, max) ==
  LET r == max2 - min2 IN
    IF min < min2 \/ (max > max2 /\ max - r > min) THEN min ELSE min2

Scale(x, ds) ==
  LET min2 == Or(x.min, 0)
      max2 == Or(x.max, 1)
      max == Extreme(x.maxname, x.max, TRUE, ds)
      min == Extreme(x.minname, x.min, FALSE, ds)
  IN  IF x.type = "static" THEN [b |-> min2, range |-> max2 - min2]
      ELSE IF Failed \in {min, max} THEN Failed
      ELSE CASE x.type = "dynamic"     -> [b |-> min, range |-> Max({max - min, x.step})]
             [] x.type = "toprange"    -> [b |-> toprange(min2, max2, min, max),
                                           range |-> max2 - min2]
             [] x.type = "bottomrange" -> [b |-> bottomrange(min2, max2, min, max),
                                           range |-> max2 - min2]
=============================================================================
