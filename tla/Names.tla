-------------------------------- MODULE Names --------------------------------
(***************************************************************************)
(* What a process of meteo knows by name: fields, sensors and stations     *)
(* from the tables (lib/Field_internals.cc, lib/FQField_internals.cc,      *)
(* lib/SensorStationInfo.cc) and the configuration file                    *)
(* (lib/Configuration.cc).  Each keeps what it has found in maps that are  *)
(* never emptied, and that are filled from one side and read from another. *)
(*                                                                         *)
(* A map is a set of entries; a result is a set, empty for an exception    *)
(* (or for a find that returns end(), which the code does not check).  The *)
(* database may fail in any query.  Tables and file do not change while    *)
(* the process runs.                                                       *)
(***************************************************************************)
EXTENDS Naturals, Sequences

CONSTANTS Station,     \* rows [id, name, timezone]
          Sensor,      \* rows [id, stationid, name]
          Mfield,      \* rows [id, name]
          Ids, FieldNames, SensorNames, FqNames, Columns,  \* what is asked for
          Document,    \* Document[x]: what the XPath x evaluates to in the file
          FieldsXpath  \* the XPath of the fields of a sensor

ASSUME TablesAssumption ==
  /\ \A a \in Station, b \in Station : a.id = b.id \/ a.name = b.name => a = b
  /\ \A a \in Sensor, b \in Sensor :
       a.id = b.id \/ <<a.stationid, a.name>> = <<b.stationid, b.name>> => a = b
  /\ \A a \in Mfield, b \in Mfield : a.id = b.id \/ a.name = b.name => a = b

VARIABLES mfieldmap, fieldidmap,                    \* Field_internals
          field2fqmap, string2fieldmap, stationmap, \* FQField_internals
          idcache, namecache,                       \* SSI_internals
          existscache, resultcache,                 \* class config
          asked, answer                             \* the last request

fieldMaps == <<mfieldmap, fieldidmap>>
fqMaps == <<field2fqmap, string2fieldmap, stationmap>>
ssiMaps == <<idcache, namecache>>
confMaps == <<existscache, resultcache>>
vars == <<fieldMaps, fqMaps, ssiMaps, confMaps, asked, answer>>

Xpaths == DOMAIN Document

Init ==
  /\ mfieldmap = {} /\ fieldidmap = {}
  /\ field2fqmap = {} /\ string2fieldmap = {} /\ stationmap = {}
  /\ idcache = {} /\ namecache = {}
  /\ existscache = {} /\ resultcache = {}
  /\ asked = [kind |-> "nothing", of |-> 0, fails |-> FALSE] /\ answer = {}

\* std::map: insert keeps an entry that is there
Find(m, k) == {e.value : e \in {f \in m : f.key = k}}
Insert(m, k, v) ==
  IF Find(m, k) # {} THEN m ELSE m \cup {[key |-> k, value |-> v]}

Asks(kind, of, fails, result) ==
  /\ asked' = [kind |-> kind, of |-> of, fails |-> fails]
  /\ answer' = result

-----------------------------------------------------------------------------
(* Field_internals: the kinds of measurements                              *)

MfieldRow(i) == {r \in Mfield : r.id = i}
MfieldNamed(n) == {r \in Mfield : r.name = n}

\* three queries; nothing is kept unless all of them succeed
LookupMfield(i, fails) ==
  \/ /\ Find(mfieldmap, i) # {} \/ fails \/ MfieldRow(i) = {}
     /\ UNCHANGED fieldMaps
  \/ /\ Find(mfieldmap, i) = {} /\ ~fails
     /\ \E r \in MfieldRow(i) :
          /\ mfieldmap' = Insert(mfieldmap, i, r)
          /\ fieldidmap' = Insert(fieldidmap, r.name, i)

LookupNamed(n, fails, id) ==
  IF Find(fieldidmap, n) # {} THEN UNCHANGED fieldMaps
  ELSE LookupMfield(id, fails)

GetFieldById(i, fails) ==
  /\ LookupMfield(i, fails)
  /\ Asks("mfield", i, fails, Find(mfieldmap', i))
  /\ UNCHANGED <<fqMaps, ssiMaps, confMaps>>

GetFieldByName(n, fails) ==
  /\ IF MfieldNamed(n) = {} THEN UNCHANGED fieldMaps
     ELSE \E r \in MfieldNamed(n) : LookupNamed(n, fails, r.id)
  /\ Asks("mfieldNamed", n, fails,
          UNION {Find(mfieldmap', id) : id \in Find(fieldidmap', n)})
  /\ UNCHANGED <<fqMaps, ssiMaps, confMaps>>

-----------------------------------------------------------------------------
(* FQField_internals: station.sensor.field                                 *)

\* "select ... from station a, sensor b, mfield c where a.id = b.stationid"
FqRows ==
  {[id |-> <<t[1].id, t[2].id, t[3].id>>, name |-> <<t[1].name, t[2].name, t[3].name>>] :
     t \in {u \in Station \X Sensor \X Mfield : u[1].id = u[2].stationid}}
FqWith(s, f) == {r \in FqRows : r.id[2] = s /\ r.id[3] = f}
FqNamed(n) == {r \in FqRows : r.name = n}

\* mutant of Keep: what is looked up by id is kept under the id asked for
KeepAsked(r) ==
  /\ field2fqmap' = Insert(field2fqmap, <<0, r.id[2], r.id[3]>>, r.name)
  /\ string2fieldmap' = Insert(string2fieldmap, r.name, r.id)

Keep(r) ==
  /\ field2fqmap' = Insert(field2fqmap, r.id, r.name)
  /\ string2fieldmap' = Insert(string2fieldmap, r.name, r.id)

\* lookup(fieldid) without a station, completed from the stationmap
Fieldid(s, f, fails) ==
  IF Find(stationmap, <<s, f>>) # {}
  THEN {<<station, s, f>> : station \in Find(stationmap, <<s, f>>)}
  ELSE IF fails THEN {} ELSE {r.id : r \in FqWith(s, f)}

\* QueryProcessor::currentData: the name of a column, by way of its full id
NameOfColumn(s, f, fails) ==
  /\ IF Find(stationmap, <<s, f>>) # {} \/ Fieldid(s, f, fails) = {}
     THEN UNCHANGED fqMaps
     ELSE (\E r \in FqWith(s, f) : Keep(r)) /\ UNCHANGED stationmap
  /\ Asks("column", <<s, f>>, fails,
          UNION {Find(field2fqmap', id) : id \in Fieldid(s, f, fails)})
  /\ UNCHANGED <<fieldMaps, ssiMaps, confMaps>>

\* lookup(fieldname)
GetFieldid(n, fails) ==
  /\ IF Find(string2fieldmap, n) # {} \/ fails \/ FqNamed(n) = {}
     THEN UNCHANGED fqMaps
     ELSE \E r \in FqNamed(n) :
            /\ Keep(r)
            /\ stationmap' = Insert(stationmap, <<r.id[2], r.id[3]>>, r.id[1])
  /\ Asks("fieldid", n, fails, Find(string2fieldmap', n))
  /\ UNCHANGED <<fieldMaps, ssiMaps, confMaps>>

-----------------------------------------------------------------------------
(* Configuration                                                           *)

\* what getStringList returns, or no result for its exceptions
StringList(x) ==
  IF Document[x].type \in {"nodes", "string"} THEN {Document[x].values} ELSE {}

\* a list without elements is evaluated again each time
LookupPath(x) ==
  resultcache' = IF Find(resultcache, x) # {} \/ StringList(x) \subseteq {<<>>}
                 THEN resultcache
                 ELSE resultcache \cup {[key |-> x, value |-> v] : v \in StringList(x)}
CachedList(x) ==
  IF Find(resultcache, x) # {} THEN Find(resultcache, x) ELSE StringList(x)

Exists(x) ==
  /\ Document[x].type # "broken"
  /\ Document[x].type = "nodes" => Document[x].values # <<>>

GetStringList(x) ==
  /\ LookupPath(x)
  /\ Asks("list", x, FALSE, CachedList(x))
  /\ UNCHANGED <<fieldMaps, fqMaps, ssiMaps, existscache>>

XpathExists(x) ==
  /\ existscache' = Insert(existscache, x, Exists(x))
  /\ Asks("exists", x, FALSE, Find(existscache', x))
  /\ UNCHANGED <<fieldMaps, fqMaps, ssiMaps, resultcache>>

\* getString, getInt, getDouble
FirstOr(lists, def) == {IF v = <<>> THEN def ELSE Head(v) : v \in lists}

\* getDBHostname and its like: there is no default
GetDB(x) ==
  /\ LookupPath(x)
  /\ Asks("required", x, FALSE, FirstOr(CachedList(x), "unknown") \ {"unknown"})
  /\ UNCHANGED <<fieldMaps, fqMaps, ssiMaps, existscache>>

\* getNodeList has no cache, and an empty list where getStringList throws
GetNodeList(x) ==
  /\ Asks("nodes", x, FALSE,
          {IF Document[x].type = "nodes" THEN Document[x].values ELSE <<>>})
  /\ UNCHANGED <<fieldMaps, fqMaps, ssiMaps, confMaps>>

\* getNode: the first one, or an exception
GetNode(x) ==
  /\ Asks("node", x, FALSE,
          IF Document[x].type = "nodes" /\ Document[x].values # <<>>
          THEN {Head(Document[x].values)} ELSE {})
  /\ UNCHANGED <<fieldMaps, fqMaps, ssiMaps, confMaps>>

-----------------------------------------------------------------------------
(* StationInfo asks the table each time                                    *)

GetStationField(n, fails) ==
  /\ Asks("station", n, fails,
          IF fails THEN {} ELSE {r.timezone : r \in {q \in Station : q.name = n}} \ {"NULL"})
  /\ UNCHANGED <<fieldMaps, fqMaps, ssiMaps, confMaps>>

-----------------------------------------------------------------------------
(* SSI_internals: the sensors of the tables with their fields from the     *)
(* configuration file                                                      *)

SensorRows ==
  {[id |-> t[2].id, name |-> <<t[1].name, t[2].name>>] :
     t \in {u \in Station \X Sensor : u[1].id = u[2].stationid}}

LookupSensor(i, fails) ==
  IF Find(idcache, i) # {} \/ fails \/ ~\E r \in SensorRows : r.id = i
  THEN UNCHANGED <<ssiMaps, resultcache>>
  ELSE \E r \in {q \in SensorRows : q.id = i} :
         /\ LookupPath(FieldsXpath[r.name])
         /\ \E list \in CachedList(FieldsXpath[r.name]) :
              idcache' = Insert(idcache, i, [name |-> r.name, fieldnames |-> list])
         /\ namecache' = Insert(namecache, r.name, i)

\* SensorStationInfo(id)
SensorById(i, fails) ==
  /\ LookupSensor(i, fails)
  /\ Asks("sensor", i, fails, Find(idcache', i))
  /\ UNCHANGED <<fieldMaps, fqMaps, existscache>>

\* SensorStationInfo(station, name)
SensorByName(n, fails) ==
  /\ IF Find(namecache, n) # {} \/ ~\E r \in SensorRows : r.name = n
     THEN UNCHANGED <<ssiMaps, resultcache>>
     ELSE \E r \in {q \in SensorRows : q.name = n} : LookupSensor(r.id, fails)
  /\ Asks("sensorNamed", n, fails, UNION {Find(idcache', i) : i \in Find(namecache', n)})
  /\ UNCHANGED <<fieldMaps, fqMaps, existscache>>

-----------------------------------------------------------------------------
Next == \/ \E fails \in BOOLEAN :
             \/ \E i \in Ids : GetFieldById(i, fails) \/ SensorById(i, fails)
             \/ \E n \in FieldNames : GetFieldByName(n, fails)
             \/ \E c \in Columns : NameOfColumn(c[1], c[2], fails)
             \/ \E n \in FqNames : GetFieldid(n, fails)
             \/ \E n \in SensorNames : SensorByName(n, fails) \/ GetStationField(n[1], fails)
        \/ \E x \in Xpaths : GetStringList(x) \/ XpathExists(x) \/ GetDB(x)
                             \/ GetNodeList(x) \/ GetNode(x)

Spec == Init /\ [][Next]_vars
-----------------------------------------------------------------------------
\* what the tables and the file say, without any map
InFile(n) == {[name |-> n, fieldnames |-> v] : v \in StringList(FieldsXpath[n])}
Truth(kind, of) ==
  CASE kind = "nothing" -> {}
    [] kind = "mfield" -> MfieldRow(of)
    [] kind = "mfieldNamed" -> MfieldNamed(of)
    [] kind = "column" -> {r.name : r \in FqWith(of[1], of[2])}
    [] kind = "fieldid" -> {r.id : r \in FqNamed(of)}
    [] kind = "sensor" -> UNION {InFile(r.name) : r \in {q \in SensorRows : q.id = of}}
    [] kind = "sensorNamed" -> UNION {InFile(r.name) : r \in {q \in SensorRows : q.name = of}}
    [] kind = "list" -> StringList(of)
    [] kind = "required" -> {Head(v) : v \in StringList(of) \ {<<>>}} \ {"unknown"}
    [] kind = "nodes" -> IF Document[of].type = "nodes" THEN StringList(of) ELSE {<<>>}
    [] kind = "node" ->
         {Head(v) : v \in {w \in StringList(of) : Document[of].type = "nodes"} \ {<<>>}}
    [] kind = "station" -> {r.timezone : r \in {q \in Station : q.name = of}} \ {"NULL"}
    [] kind = "exists" -> {Exists(of)}

(***************************************************************************)
(* Whatever was asked before and whichever query failed, an answer is what *)
(* the tables and the file say; only a failing query has none.  So the     *)
(* finds of the code that are not checked never meet the end of a map, and *)
(* nothing a failed lookup left behind is taken for knowledge.             *)
(***************************************************************************)
AnswersAreTheTruth ==
  \/ answer = Truth(asked.kind, asked.of)
  \/ asked.fails /\ answer = {}

(***************************************************************************)
(* The maps that are filled together answer for each other: what one knows *)
(* by name the other knows by number, and back.                            *)
(***************************************************************************)
FieldsAgree ==
  /\ \A e \in fieldidmap : \E d \in mfieldmap : d.key = e.value /\ d.value.name = e.key
  /\ \A d \in mfieldmap : \E e \in fieldidmap : d.key = e.value /\ d.value.name = e.key
FqFieldsAgree ==
  /\ {<<e.key, e.value>> : e \in string2fieldmap} = {<<e.value, e.key>> : e \in field2fqmap}
  /\ \A e \in stationmap : \E d \in field2fqmap : d.key = <<e.value, e.key[1], e.key[2]>>
SensorsAgree ==
  {<<e.key, e.value>> : e \in namecache} = {<<e.value.name, e.key>> : e \in idcache}
MapsAgree == FieldsAgree /\ FqFieldsAgree /\ SensorsAgree

(***************************************************************************)
(* The caches never mislead: answers are true and maps agree, in any order *)
(* of requests and failures.                                               *)
(***************************************************************************)
CachesAreTrue == AnswersAreTheTruth /\ MapsAgree
=============================================================================
