----------------------------- MODULE TimeSeries -----------------------------
(***************************************************************************)
(* From rows of the database to series of values: lib/Query.cc, the        *)
(* result of lib/QueryProcessor.cc and the time series of lib/Tdata.cc.    *)
(* Values are integers.                                                    *)
(***************************************************************************)
EXTENDS Integers, FiniteSetsExt

CONSTANTS Failed,          \* a MeteoException
          Fields,          \* the fully qualified fields of the database
          Raw,             \* 60 seconds: the interval of the table sdata
          Formula(_, _, _) \* Formula(f, a, b): a function of real numbers of b and a,
                           \* or of a alone; Failed if it throws

ASSUME SeriesAssumption == Raw \in Nat \ {0} /\ Failed \notin Int

-----------------------------------------------------------------------------
(* Tdata: a constant, or values at time keys                               *)

Constant(v) == [constant |-> TRUE, value |-> v, interval |-> 0, start |-> 0, finish |-> 0,
                data |-> <<>>]

Tdata(i, s, e, data) ==
  [constant |-> FALSE, value |-> 0, interval |-> i, start |-> s - (s % i),
   finish |-> e - (e % i), data |-> data]

Times(d) == {d.start + n * d.interval : n \in 0..((d.finish - d.start) \div d.interval)}

SumOver(f, S) == MapThenSumSet(LAMBDA k : f[k], S)

\* mutant of accumulate: the value at the time itself is not yet in the sum
accumulateBefore(d) ==
  [d EXCEPT !.data = [t \in Times(d) |->
     SumOver(d.data, {k \in DOMAIN d.data \cap Times(d) : k < t})]]

accumulate(d) ==
  [d EXCEPT !.data = [t \in Times(d) |->
     SumOver(d.data, {k \in DOMAIN d.data \cap Times(d) : k <= t})]]

limit(d, l) ==
  [d EXCEPT !.data = [k \in {j \in DOMAIN @ : @[j] >= l} |-> @[k]]]

Values(d) == {d.data[k] : k \in DOMAIN d.data}
Highest(d) == IF Values(d) = {} THEN -10000000 ELSE Max(Values(d))
Lowest(d) == IF Values(d) = {} THEN 10000000 ELSE Min(Values(d))

-----------------------------------------------------------------------------
(* Functions of two values, and of the values of two series                *)

Quotient(a, b) ==
  IF b = 0 THEN Failed ELSE IF b > 0 THEN a \div b ELSE (-a) \div (-b)

Binary(name, u, v) ==
  CASE name = "diff" -> u - v
    [] name = "quot" -> Quotient(u, v)
    [] name = "max" -> Max({u, v})
    [] name = "min" -> Min({u, v})
    [] name \in {"atan2", "azi", "hypot", "dewpoint", "heatindex", "windchill"} ->
         Formula(name, u, v)

\* a value that the function throws an exception for is left out
Defined(f) == [k \in {j \in DOMAIN f : f[j] # Failed} |-> f[k]]

\* With a constant the arguments always come in the same order.  Of two series the
\* "common range" is the longer one, but keys must be in it.
apply2(name, a, b) ==
  IF a.constant /\ b.constant THEN
    LET v == Binary(name, a.value, b.value) IN IF v = Failed THEN Failed ELSE Constant(v)
  ELSE IF a.constant THEN
    [b EXCEPT !.data = Defined([k \in DOMAIN @ |-> Binary(name, a.value, @[k])])]
  ELSE IF b.constant THEN
    [a EXCEPT !.data = Defined([k \in DOMAIN @ |-> Binary(name, b.value, @[k])])]
  ELSE
    LET from == Min({a.start, b.start})
        to == Max({a.finish, b.finish})
        keys == {k \in DOMAIN a.data \cap DOMAIN b.data : from <= k /\ k <= to}
    IN  [a EXCEPT !.start = from, !.finish = to,
                  !.data = Defined([k \in keys |-> Binary(name, a.data[k], b.data[k])])]

-----------------------------------------------------------------------------
(* Query and QueryResult                                                   *)

\* addSelect, for one after the other, and getQuery
Selectable(selects) ==
  /\ selects # <<>>
  /\ \A i \in DOMAIN selects : selects[i].field \in Fields
  /\ \A i, j \in DOMAIN selects :
       i # j => selects[i].name # selects[j].name /\ selects[i].field # selects[j].field

\* mutant of Rows: the time key of sdata is that of avg
RowsUnshifted(table, i, s, e, offset) ==
  {r \in table : r.intval = i /\ s <= r.tk /\ r.tk <= e}

\* Of sdata, a row's time key is turned into the time key of averages.
Rows(table, i, s, e, offset) ==
  {[r EXCEPT !.tk = IF i = Raw THEN @ + offset ELSE @] :
     r \in {q \in table : q.intval = i /\ s <= q.tk /\ q.tk <= e}}

perform(table, selects, i, s, e, offset) ==
  IF ~Selectable(selects) THEN Failed
  ELSE LET rows == Rows(table, i, s, e, offset)
           Of(name) == {r \in rows : \E j \in DOMAIN selects :
                          selects[j].name = name /\ selects[j].field = r.field}
           Series(name) == [k \in {r.tk : r \in Of(name)} |->
                              (CHOOSE r \in Of(name) : r.tk = k).value]
       IN  [name \in {selects[j].name : j \in DOMAIN selects} |->
              Tdata(i, s, e, Series(name))]
=============================================================================
