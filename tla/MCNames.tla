------------------------------- MODULE MCNames -------------------------------
(* Model-checking instances of Names: two stations that both have a sensor  *)
(* "out", one of them without fields in the file; requests for names and    *)
(* numbers that no table has; paths of every type XPath knows.              *)
EXTENDS Names, TLC

MCStation == {[id |-> 1, name |-> "altdorf", timezone |-> "CET"],
              [id |-> 2, name |-> "lajeado", timezone |-> "NULL"]}
MCSensor == {[id |-> 1, stationid |-> 2, name |-> "out"],
             [id |-> 2, stationid |-> 1, name |-> "out"]}
MCMfield == {[id |-> 1, name |-> "wind"], [id |-> 2, name |-> "rain"]}
MCSensorNames == {<<"altdorf", "out">>, <<"lajeado", "out">>, <<"lajeado", "in">>}
MCFqNames == {<<"altdorf", "out", "wind">>, <<"altdorf", "out", "rain">>,
              <<"lajeado", "out", "wind">>, <<"", "", "wind">>}
MCColumns == {<<2, 1>>, <<2, 2>>, <<1, 1>>, <<3, 1>>}

MCFieldsXpath ==
  (<<"altdorf", "out">> :> "altdorf fields") @@ (<<"lajeado", "out">> :> "lajeado fields")
Path(type, values) == [type |-> type, values |-> values]
MCDocument ==
  ("altdorf fields" :> Path("nodes", <<"rain", "wind">>)) @@
  ("lajeado fields" :> Path("nodes", <<>>)) @@
  ("no path" :> Path("broken", <<>>))
=============================================================================
