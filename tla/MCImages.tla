------------------------------ MODULE MCImages ------------------------------
(* Model-checking instances of Images.  A minute is 1, an average is of 2.    *)
EXTENDS Images, TLC

Select(name) == [name |-> name, field |-> name]
Value(name) == [tag |-> "value", name |-> name]
Function(name, lim, arg) ==
  [tag |-> "function", name |-> name, limit |-> lim, arg |-> arg]
Ax(side, interval, type, minname, maxname) ==
  [side |-> side, interval |-> interval, type |-> type, min |-> 0, max |-> 4,
   step |-> 1, minname |-> minname, maxname |-> maxname, origin |-> None, first |-> 0,
   last |-> 4, maxtickcount |-> 4]
Channel(type, name) ==
  [type |-> type, name |-> name, lower |-> "b", limit |-> 2, connected |-> FALSE]

A == Value("a")
B == Value("b")
Difference == [tag |-> "diff", arg1 |-> A, arg2 |-> B]
Two == [tag |-> "constant", value |-> 2]
Half == [tag |-> "quot", arg1 |-> Value("difference"), arg2 |-> Two]
Chill == [tag |-> "function2", name |-> "windchill", arg1 |-> A, arg2 |-> B]
Product == [tag |-> "mult"]
MCNodes ==
  {A, B, Difference, Value("difference"), Two, Half, Chill, Product,
   Function("accumulate", None, A), Function("ceil", 9, Chill)}

Data(name, node) == [name |-> name, node |-> node]
\* a station without a console, whose daylight is computed in spite of "database"
Sound ==
  [offset |-> 1, width |-> 3, selects |-> <<Select("a"), Select("b")>>,
   data |-> <<Data("difference", Difference),
              Data("total", Function("accumulate", None, A)),
              Data("share", Half), Data("chill", Function("ceil", 9, Chill))>>,
   axes |-> <<Ax("left", None, "dynamic", "a", "a"), Ax("left", 2, "toprange", None, "b"),
              Ax("right", None, "bottomrange", None, "total")>>,
   channels |-> <<Channel("nodata", "a"), Channel("histogram", "a"),
                  Channel("lowdata", "b"), Channel("curve", "b"), Channel("range", "a"),
                  Channel("histogram", "difference"), Channel("histogram", "total"),
                  Channel("curve", "share"), Channel("nodata", "chill")>>,
   sun |-> [console |-> FALSE, method |-> "database", offset |-> 1]]
Broken == [Sound EXCEPT !.data = <<Data("product", Product)>>, !.sun = None]

MCGraph(g) ==
  CASE g = "sound"  -> Sound
    [] g = "broken" -> Broken
    [] g = "stored" -> [Sound EXCEPT !.sun.console = TRUE]
MCFormula(f, a, b) == IF f = "windchill" /\ b > 5 THEN Failed ELSE a
MCDaylight(t) == t % 24 \in 6..18

Request(images, graphs, intervals, labels) ==
  [images |-> images, graphs |-> graphs, intervals |-> intervals, labels |-> labels]
MCRequests ==
  {Request(TRUE, <<"broken", "sound">>, <<1>>, <<>>),
   Request(FALSE, <<"stored">>, <<>>, <<[interval |-> 2, time |-> 12]>>)}

\* rows of both tables: columns with both fields, with one and with none
Row(i, tk, f, v) == [intval |-> i, tk |-> tk, field |-> f, value |-> v]
At(column, f, v) == {Row(1, 12 + column, f, v), Row(2, 10 + 2 * column, f, v)}
Sun(tk, up, down) == {Row(2, tk, "sunrise", up), Row(2, tk, "sunset", down)}
MCHistories ==
  {At(1, "b", 2) \cup At(2, "a", 7) \cup At(2, "b", 5) \cup At(3, "a", 3) \cup Sun(12, 6, 18),
   At(0, "a", 3) \cup At(0, "b", 3) \cup At(2, "a", 1) \cup At(3, "a", 40)}
Symmetry == Permutations(Drawers)
MCFeed == {[due |-> 16, row |-> Row(2, 16, "b", 6)]}
=============================================================================
