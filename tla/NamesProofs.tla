----------------------------- MODULE NamesProofs -----------------------------
(***************************************************************************)
(* Of names: those that stations, sensors and fields have in the tables    *)
(* and the file, and the labels that stand for periods of time in URLs and *)
(* file names.                                                             *)
(*                                                                         *)
(* The caches of names never mislead, whatever is in the tables and the    *)
(* file, in any order of requests and failing queries.                     *)
(*                                                                         *)
(* The pages of the browser lead where they say, in all years.  The proof  *)
(* goes from the calendar (years, months, summer time) to the clock that   *)
(* localtime shows, the noon that normalize finds in its rounds and the    *)
(* labels of weeks at the turn of the year; the invariant is that a page   *)
(* has a label that a Timelabel writes.                                    *)
(***************************************************************************)
EXTENDS Names, Browser, WellFoundedInduction, TLAPS

\* What the maps of Field_internals hold is in the table.
FieldsTrue ==
  /\ \A e \in mfieldmap : e.value \in Mfield /\ e.value.id = e.key
  /\ \A e \in fieldidmap : \E r \in Mfield : r.name = e.key /\ r.id = e.value

\* What the maps of FQField_internals hold is in the joined tables.
FqFieldsTrue ==
  /\ \A e \in field2fqmap : \E r \in FqRows : r.id = e.key /\ r.name = e.value
  /\ \A e \in string2fieldmap : \E r \in FqRows : r.name = e.key /\ r.id = e.value
  /\ \A e \in stationmap :
       \E r \in FqRows : e.key = <<r.id[2], r.id[3]>> /\ e.value = r.id[1]

\* What the caches of SSI_internals hold is in the tables and the file.
SensorsTrue ==
  /\ \A e \in idcache : \E q \in SensorRows : q.id = e.key /\ e.value \in InFile(q.name)
  /\ \A e \in namecache : \E q \in SensorRows : q.name = e.key /\ q.id = e.value

\* What the configuration has cached is in the file.
ConfigTrue ==
  /\ \A e \in resultcache : e.value \in StringList(e.key)
  /\ \A e \in existscache : e.value = Exists(e.key)

FieldInv == FieldsTrue /\ FieldsAgree
FqInv == FqFieldsTrue /\ FqFieldsAgree
SensorInv == SensorsTrue /\ SensorsAgree

IInv == FieldInv /\ FqInv /\ SensorInv /\ ConfigTrue /\ AnswersAreTheTruth

-----------------------------------------------------------------------------
(* Maps and answers                                                        *)

LEMMA FindEntries ==
  ASSUME NEW m, NEW k
  PROVE  \A v : v \in Find(m, k) <=> \E e \in m : e.key = k /\ e.value = v
BY DEF Find

LEMMA FoundEntry ==
  ASSUME NEW m, NEW k
  PROVE  Find(m, k) # {} <=> \E e \in m : e.key = k
<1>1. ASSUME NEW e \in m, e.key = k PROVE Find(m, k) # {}
  <2>1. e.value \in Find(m, k)
    BY <1>1, FindEntries
  <2> QED
    BY <2>1
<1>2. ASSUME Find(m, k) # {} PROVE \E e \in m : e.key = k
  <2>1. PICK v : v \in Find(m, k)
    BY <1>2
  <2> QED
    BY <2>1, FindEntries
<1> QED
  BY <1>1, <1>2

\* insert keeps what is there and adds at most the entry given; afterwards
\* the key is there.
LEMMA InsertEntries ==
  ASSUME NEW m, NEW k, NEW v
  PROVE  /\ m \subseteq Insert(m, k, v)
         /\ \A e \in Insert(m, k, v) : e \in m \/ (e.key = k /\ e.value = v)
         /\ \E e \in Insert(m, k, v) : e.key = k
         /\ Find(m, k) = {} => \E e \in Insert(m, k, v) : e.key = k /\ e.value = v
         /\ Find(m, k) # {} => Insert(m, k, v) = m
<1> DEFINE entry == [key |-> k, value |-> v]
<1>1. entry.key = k /\ entry.value = v
  OBVIOUS
<1>2. CASE Find(m, k) # {}
  <2>1. Insert(m, k, v) = m
    BY <1>2 DEF Insert
  <2> QED
    BY <1>2, <2>1, FindEntries
<1>3. CASE Find(m, k) = {}
  <2>1. Insert(m, k, v) = m \cup {entry}
    BY <1>3 DEF Insert
  <2> HIDE DEF entry
  <2> QED
    BY <1>1, <1>3, <2>1
<1> QED
  BY <1>2, <1>3

\* An answer that is true, or none where a query failed.
LEMMA Answered ==
  ASSUME NEW kind, NEW of, NEW fails, NEW result,
         Asks(kind, of, fails, result),
         result = Truth(kind, of) \/ (fails /\ result = {})
  PROVE  AnswersAreTheTruth'
BY DEF Asks, AnswersAreTheTruth

-----------------------------------------------------------------------------
(* Field_internals                                                         *)

\* a step of lookup() for a row of the table
LEMMA LookupMfieldKeeps ==
  ASSUME FieldInv, NEW i, NEW fails, LookupMfield(i, fails)
  PROVE  /\ FieldInv'
         /\ Find(mfieldmap', i) = MfieldRow(i) \/ (fails /\ Find(mfieldmap', i) = {})
<1>1. CASE UNCHANGED fieldMaps /\ (Find(mfieldmap, i) # {} \/ fails \/ MfieldRow(i) = {})
  <2>1. FieldInv'
    BY <1>1 DEF fieldMaps, FieldInv, FieldsTrue, FieldsAgree
  <2>2. Find(mfieldmap, i) # {} => Find(mfieldmap, i) = MfieldRow(i)
    BY TablesAssumption DEF FieldInv, FieldsTrue, Find, MfieldRow, TablesAssumption
  <2>3. MfieldRow(i) = {} => Find(mfieldmap, i) = {}
    BY DEF FieldInv, FieldsTrue, Find, MfieldRow
  <2> QED
    BY <1>1, <2>1, <2>2, <2>3 DEF fieldMaps
<1>2. CASE /\ Find(mfieldmap, i) = {}
           /\ \E r \in MfieldRow(i) : /\ mfieldmap' = Insert(mfieldmap, i, r)
                                      /\ fieldidmap' = Insert(fieldidmap, r.name, i)
  <2>1. PICK r \in MfieldRow(i) : /\ mfieldmap' = Insert(mfieldmap, i, r)
                                  /\ fieldidmap' = Insert(fieldidmap, r.name, i)
    BY <1>2
  <2>2. r \in Mfield /\ r.id = i
    BY DEF MfieldRow
  <2>3. Find(fieldidmap, r.name) = {}
    <3> SUFFICES ASSUME NEW e \in fieldidmap, e.key = r.name PROVE FALSE
      BY DEF Find
    <3>1. e.value = i
      BY <2>2, TablesAssumption DEF FieldInv, FieldsTrue, TablesAssumption
    <3>2. \E d \in mfieldmap : d.key = i
      BY <3>1 DEF FieldInv, FieldsAgree
    <3> QED
      BY <1>2, <3>2 DEF Find
  <2>4. /\ \A e \in mfieldmap' : e \in mfieldmap \/ (e.key = i /\ e.value = r)
        /\ \E e \in mfieldmap' : e.key = i /\ e.value = r
        /\ mfieldmap \subseteq mfieldmap'
    BY <1>2, <2>1, InsertEntries
  <2>5. /\ \A e \in fieldidmap' : e \in fieldidmap \/ (e.key = r.name /\ e.value = i)
        /\ \E e \in fieldidmap' : e.key = r.name /\ e.value = i
        /\ fieldidmap \subseteq fieldidmap'
    BY <2>1, <2>3, InsertEntries
  <2>6. FieldInv'
    <3>1. FieldsTrue'
      BY <2>2, <2>4, <2>5 DEF FieldInv, FieldsTrue
    <3>2. ASSUME NEW e \in fieldidmap'
          PROVE  \E d \in mfieldmap' : d.key = e.value /\ d.value.name = e.key
      BY <2>4, <2>5 DEF FieldInv, FieldsAgree
    <3>3. ASSUME NEW d \in mfieldmap'
          PROVE  \E e \in fieldidmap' : d.key = e.value /\ d.value.name = e.key
      BY <2>4, <2>5 DEF FieldInv, FieldsAgree
    <3> QED
      BY <3>1, <3>2, <3>3 DEF FieldInv, FieldsAgree
  <2>7. Find(mfieldmap', i) = {r}
    BY <1>2, <2>4, FindEntries
  <2>8. MfieldRow(i) = {r}
    BY <2>2, TablesAssumption DEF MfieldRow, TablesAssumption
  <2> QED
    BY <2>6, <2>7, <2>8
<1> QED
  BY <1>1, <1>2 DEF LookupMfield

LEMMA GetFieldByIdKeeps ==
  ASSUME FieldInv, NEW i, NEW fails, GetFieldById(i, fails)
  PROVE  FieldInv' /\ AnswersAreTheTruth'
<1>1. LookupMfield(i, fails) /\ Asks("mfield", i, fails, Find(mfieldmap', i))
  BY DEF GetFieldById
<1>2. Truth("mfield", i) = MfieldRow(i)
  BY DEF Truth
<1> QED
  BY <1>1, <1>2, LookupMfieldKeeps, Answered

LEMMA GetFieldByNameKeeps ==
  ASSUME FieldInv, NEW n, NEW fails, GetFieldByName(n, fails)
  PROVE  FieldInv' /\ AnswersAreTheTruth'
<1> DEFINE result == UNION {Find(mfieldmap', id) : id \in Find(fieldidmap', n)}
<1>1. Asks("mfieldNamed", n, fails, result)
  BY DEF GetFieldByName
<1>2. Truth("mfieldNamed", n) = MfieldNamed(n)
  BY DEF Truth
<1>3. FieldInv'
  <2>1. CASE UNCHANGED fieldMaps
    BY <2>1 DEF fieldMaps, FieldInv, FieldsTrue, FieldsAgree
  <2>2. CASE \E r \in MfieldNamed(n) : LookupMfield(r.id, fails)
    BY <2>2, LookupMfieldKeeps
  <2> QED
    BY <2>1, <2>2 DEF GetFieldByName, LookupNamed
<1>4. result = MfieldNamed(n) \/ (fails /\ result = {})
  <2>1. \A x \in result : x \in MfieldNamed(n)
    <3> SUFFICES ASSUME NEW e \in fieldidmap', e.key = n,
                        NEW d \in mfieldmap', d.key = e.value
                 PROVE  d.value \in MfieldNamed(n)
      BY FindEntries
    <3>1. PICK r \in Mfield : r.name = n /\ r.id = e.value
      BY <1>3 DEF FieldInv, FieldsTrue
    <3>2. d.value \in Mfield /\ d.value.id = e.value
      BY <1>3 DEF FieldInv, FieldsTrue
    <3> QED
      BY <3>1, <3>2, TablesAssumption DEF TablesAssumption, MfieldNamed
  <2>2. \A x, y \in MfieldNamed(n) : x = y
    BY TablesAssumption DEF TablesAssumption, MfieldNamed
  <2>3. ASSUME NEW e \in fieldidmap', e.key = n PROVE result # {}
    <3>1. PICK d \in mfieldmap' : d.key = e.value
      BY <1>3, <2>3 DEF FieldInv, FieldsAgree
    <3>2. e.value \in Find(fieldidmap', n) /\ d.value \in Find(mfieldmap', e.value)
      BY <2>3, <3>1, FindEntries
    <3> QED
      BY <3>2
  <2>4. CASE MfieldNamed(n) = {}
    BY <2>1, <2>4
  <2>5. ASSUME NEW r \in MfieldNamed(n), LookupNamed(n, fails, r.id)
        PROVE  fails \/ \E e \in fieldidmap' : e.key = n
    <3>1. CASE Find(fieldidmap, n) # {}
      BY <2>5, <3>1, FindEntries DEF LookupNamed, fieldMaps
    <3>2. CASE Find(fieldidmap, n) = {}
      <4>1. LookupMfield(r.id, fails)
        BY <2>5, <3>2 DEF LookupNamed
      <4>2. Find(mfieldmap', r.id) = MfieldRow(r.id) \/ fails
        BY <4>1, LookupMfieldKeeps
      <4>3. r \in MfieldRow(r.id)
        BY DEF MfieldRow, MfieldNamed
      <4>4. fails \/ \E d \in mfieldmap' : d.key = r.id /\ d.value = r
        BY <4>2, <4>3, FindEntries
      <4> QED
        BY <1>3, <4>4 DEF FieldInv, FieldsAgree, MfieldNamed
    <3> QED
      BY <3>1, <3>2
  <2>6. CASE MfieldNamed(n) # {}
    <3>1. PICK r \in MfieldNamed(n) : LookupNamed(n, fails, r.id)
      BY <2>6 DEF GetFieldByName
    <3>2. fails \/ result # {}
      BY <2>3, <2>5, <3>1
    <3> QED
      BY <2>1, <2>2, <3>1, <3>2
  <2> QED
    BY <2>4, <2>6
<1> QED
  BY <1>1, <1>2, <1>3, <1>4, Answered

-----------------------------------------------------------------------------
(* FQField_internals                                                       *)

LEMMA FqRowParts ==
  ASSUME NEW r \in FqRows
  PROVE  \E a \in Station, b \in Sensor, c \in Mfield :
           /\ a.id = b.stationid
           /\ r.id = <<a.id, b.id, c.id>>
           /\ r.name = <<a.name, b.name, c.name>>
           /\ r = [id |-> <<a.id, b.id, c.id>>, name |-> <<a.name, b.name, c.name>>]
BY DEF FqRows

\* The tables determine a row by its id, by its name, and by sensor and field.
LEMMA FqRowsUnique ==
  ASSUME NEW r \in FqRows, NEW p \in FqRows,
         \/ r.id = p.id
         \/ r.name = p.name
         \/ r.id[2] = p.id[2] /\ r.id[3] = p.id[3]
  PROVE  r = p
<1>1. PICK a \in Station, b \in Sensor, c \in Mfield :
           /\ a.id = b.stationid
           /\ r.id = <<a.id, b.id, c.id>>
           /\ r.name = <<a.name, b.name, c.name>>
           /\ r = [id |-> <<a.id, b.id, c.id>>, name |-> <<a.name, b.name, c.name>>]
  BY FqRowParts
<1>2. PICK a2 \in Station, b2 \in Sensor, c2 \in Mfield :
           /\ a2.id = b2.stationid
           /\ p.id = <<a2.id, b2.id, c2.id>>
           /\ p.name = <<a2.name, b2.name, c2.name>>
           /\ p = [id |-> <<a2.id, b2.id, c2.id>>, name |-> <<a2.name, b2.name, c2.name>>]
  BY FqRowParts
<1>3. \/ a.id = a2.id /\ b.id = b2.id /\ c.id = c2.id
      \/ a.name = a2.name /\ b.name = b2.name /\ c.name = c2.name
      \/ b.id = b2.id /\ c.id = c2.id
  BY <1>1, <1>2
<1>4. b = b2 /\ c = c2
  BY <1>1, <1>2, <1>3, TablesAssumption DEF TablesAssumption
<1>5. a = a2
  BY <1>1, <1>2, <1>4, TablesAssumption DEF TablesAssumption
<1> QED
  BY <1>1, <1>2, <1>4, <1>5

LEMMA FqIdIsTriple ==
  ASSUME NEW r \in FqRows
  PROVE  r.id = <<r.id[1], r.id[2], r.id[3]>>
BY FqRowParts

\* Entries of the two maps go together.
Paired(f, g) ==
  /\ \A e \in f : \E d \in g : e.key = d.value /\ e.value = d.key
  /\ \A d \in g : \E e \in f : e.key = d.value /\ e.value = d.key

LEMMA PairedIsAgreed ==
  ASSUME NEW f, NEW g
  PROVE  Paired(f, g) <=> {<<e.key, e.value>> : e \in f} = {<<d.value, d.key>> : d \in g}
<1>1. ASSUME Paired(f, g)
      PROVE  {<<e.key, e.value>> : e \in f} = {<<d.value, d.key>> : d \in g}
  <2>1. ASSUME NEW e \in f PROVE <<e.key, e.value>> \in {<<d.value, d.key>> : d \in g}
    BY <1>1 DEF Paired
  <2>2. ASSUME NEW d \in g PROVE <<d.value, d.key>> \in {<<e.key, e.value>> : e \in f}
    BY <1>1 DEF Paired
  <2> QED
    BY <2>1, <2>2
<1>2. ASSUME {<<e.key, e.value>> : e \in f} = {<<d.value, d.key>> : d \in g}
      PROVE  Paired(f, g)
  <2>1. ASSUME NEW e \in f PROVE \E d \in g : e.key = d.value /\ e.value = d.key
    <3>1. <<e.key, e.value>> \in {<<d.value, d.key>> : d \in g}
      BY <1>2
    <3> QED
      BY <3>1
  <2>2. ASSUME NEW d \in g PROVE \E e \in f : e.key = d.value /\ e.value = d.key
    <3>1. <<d.value, d.key>> \in {<<e.key, e.value>> : e \in f}
      BY <1>2
    <3> QED
      BY <3>1
  <2> QED
    BY <2>1, <2>2 DEF Paired
<1> QED
  BY <1>1, <1>2

\* A row found in the tables is put into both maps or into neither.
LEMMA KeepKeeps ==
  ASSUME FqInv, NEW r \in FqRows, Keep(r)
  PROVE  /\ \A e \in field2fqmap' : \E p \in FqRows : p.id = e.key /\ p.name = e.value
         /\ \A e \in string2fieldmap' : \E p \in FqRows : p.name = e.key /\ p.id = e.value
         /\ Paired(string2fieldmap', field2fqmap')
         /\ field2fqmap \subseteq field2fqmap'
         /\ \E e \in field2fqmap' : e.key = r.id
         /\ \E e \in string2fieldmap' : e.key = r.name
<1>1. Paired(string2fieldmap, field2fqmap)
  BY PairedIsAgreed DEF FqInv, FqFieldsAgree
<1>2. /\ field2fqmap' = Insert(field2fqmap, r.id, r.name)
      /\ string2fieldmap' = Insert(string2fieldmap, r.name, r.id)
  BY DEF Keep
<1>3. ASSUME NEW e \in field2fqmap, e.key = r.id PROVE e.value = r.name
  BY <1>3, FqRowsUnique DEF FqInv, FqFieldsTrue
<1>4. ASSUME NEW e \in string2fieldmap, e.key = r.name PROVE e.value = r.id
  BY <1>4, FqRowsUnique DEF FqInv, FqFieldsTrue
<1>5. Find(field2fqmap, r.id) = {} <=> Find(string2fieldmap, r.name) = {}
  <2>1. ASSUME NEW e \in field2fqmap, e.key = r.id
        PROVE  \E d \in string2fieldmap : d.key = r.name
    BY <1>1, <1>3, <2>1 DEF Paired
  <2>2. ASSUME NEW d \in string2fieldmap, d.key = r.name
        PROVE  \E e \in field2fqmap : e.key = r.id
    BY <1>1, <1>4, <2>2 DEF Paired
  <2> QED
    BY <2>1, <2>2, FoundEntry
<1>6. /\ \A e \in field2fqmap' : e \in field2fqmap \/ (e.key = r.id /\ e.value = r.name)
      /\ field2fqmap \subseteq field2fqmap'
      /\ \E e \in field2fqmap' : e.key = r.id
  BY <1>2, InsertEntries
<1>7. /\ \A e \in string2fieldmap' :
           e \in string2fieldmap \/ (e.key = r.name /\ e.value = r.id)
      /\ string2fieldmap \subseteq string2fieldmap'
      /\ \E e \in string2fieldmap' : e.key = r.name
  BY <1>2, InsertEntries
<1>8. Paired(string2fieldmap', field2fqmap')
  <2>1. CASE Find(field2fqmap, r.id) # {}
    BY <1>1, <1>2, <1>5, <2>1, InsertEntries
  <2>2. CASE Find(field2fqmap, r.id) = {}
    <3>1. PICK x \in field2fqmap' : x.key = r.id /\ x.value = r.name
      BY <1>2, <2>2, InsertEntries
    <3>2. PICK y \in string2fieldmap' : y.key = r.name /\ y.value = r.id
      BY <1>2, <1>5, <2>2, InsertEntries
    <3> QED
      BY <1>1, <1>6, <1>7, <3>1, <3>2 DEF Paired
  <2> QED
    BY <2>1, <2>2
<1>9. /\ \A e \in field2fqmap' : \E p \in FqRows : p.id = e.key /\ p.name = e.value
      /\ \A e \in string2fieldmap' : \E p \in FqRows : p.name = e.key /\ p.id = e.value
  BY <1>6, <1>7 DEF FqInv, FqFieldsTrue
<1> QED
  BY <1>6, <1>7, <1>8, <1>9

LEMMA NameOfColumnKeeps ==
  ASSUME FqInv, NEW s, NEW f, NEW fails, NameOfColumn(s, f, fails)
  PROVE  FqInv' /\ AnswersAreTheTruth'
<1> DEFINE ids == Fieldid(s, f, fails)
           result == UNION {Find(field2fqmap', id) : id \in ids}
           truth == {r.name : r \in FqWith(s, f)}
<1>1. Asks("column", <<s, f>>, fails, result)
  BY DEF NameOfColumn
<1>2. Truth("column", <<s, f>>) = truth
  BY DEF Truth
<1>3. FqInv'
  <2>1. CASE UNCHANGED fqMaps
    BY <2>1 DEF fqMaps, FqInv, FqFieldsTrue, FqFieldsAgree
  <2>2. CASE (\E r \in FqWith(s, f) : Keep(r)) /\ UNCHANGED stationmap
    <3>1. PICK r \in FqRows : Keep(r)
      BY <2>2 DEF FqWith
    <3>2. /\ stationmap' = stationmap
          /\ field2fqmap \subseteq field2fqmap'
      BY <2>2, <3>1, KeepKeeps
    <3>3. FqFieldsTrue'
      BY <3>1, <3>2, KeepKeeps DEF FqInv, FqFieldsTrue
    <3>4. \A e \in stationmap' :
            \E d \in field2fqmap' : d.key = <<e.value, e.key[1], e.key[2]>>
      BY <3>2 DEF FqInv, FqFieldsAgree
    <3>5. Paired(string2fieldmap', field2fqmap')
      BY <3>1, KeepKeeps
    <3> QED
      BY <3>3, <3>4, <3>5, PairedIsAgreed DEF FqInv, FqFieldsAgree
  <2> QED
    BY <2>1, <2>2 DEF NameOfColumn
<1>4. \A id \in ids : \E r \in FqWith(s, f) : id = r.id
  <2>1. CASE Find(stationmap, <<s, f>>) # {}
    <3> SUFFICES ASSUME NEW e \in stationmap, e.key = <<s, f>>
                 PROVE  \E r \in FqWith(s, f) : <<e.value, s, f>> = r.id
      BY <2>1, FindEntries DEF Fieldid
    <3>1. PICK r \in FqRows : e.key = <<r.id[2], r.id[3]>> /\ e.value = r.id[1]
      BY DEF FqInv, FqFieldsTrue
    <3>2. r.id[2] = s /\ r.id[3] = f
      BY <3>1
    <3> QED
      BY <3>1, <3>2, FqIdIsTriple DEF FqWith
  <2>2. CASE Find(stationmap, <<s, f>>) = {}
    BY <2>2 DEF Fieldid
  <2> QED
    BY <2>1, <2>2
<1>5. result \subseteq truth
  <2> SUFFICES ASSUME NEW id \in ids, NEW e \in field2fqmap', e.key = id
               PROVE  e.value \in truth
    BY FindEntries
  <2>1. PICK r \in FqWith(s, f) : id = r.id
    BY <1>4
  <2>2. PICK p \in FqRows : p.id = id /\ p.name = e.value
    BY <1>3 DEF FqInv, FqFieldsTrue
  <2>3. p = r
    BY <2>1, <2>2, FqRowsUnique DEF FqWith
  <2> QED
    BY <2>2, <2>3
<1>6. \A r, p \in FqWith(s, f) : r = p
  BY FqRowsUnique DEF FqWith
<1>7. ASSUME NEW id \in ids, \E e \in field2fqmap' : e.key = id PROVE result # {}
  <2>1. PICK e \in field2fqmap' : e.key = id
    BY <1>7
  <2>2. e.value \in Find(field2fqmap', id)
    BY <2>1, FindEntries
  <2> HIDE DEF ids
  <2> QED
    BY <2>2
<1>8. truth = {} \/ result # {} \/ (fails /\ result = {})
  <2>1. CASE Find(stationmap, <<s, f>>) # {}
    <3>1. PICK e \in stationmap : e.key = <<s, f>>
      BY <2>1, FindEntries
    <3>2. <<e.value, s, f>> \in ids
      BY <2>1, <3>1, FindEntries DEF Fieldid
    <3>3. field2fqmap' = field2fqmap
      BY <2>1 DEF NameOfColumn, fqMaps
    <3>4. \E d \in field2fqmap : d.key = <<e.value, e.key[1], e.key[2]>>
      BY <3>1 DEF FqInv, FqFieldsAgree
    <3>5. e.key[1] = s /\ e.key[2] = f
      BY <3>1
    <3> QED
      BY <1>7, <3>2, <3>3, <3>4, <3>5
  <2>2. CASE Find(stationmap, <<s, f>>) = {} /\ fails
    BY <2>2 DEF Fieldid
  <2>3. CASE Find(stationmap, <<s, f>>) = {} /\ ~fails
    <3>1. ids = {r.id : r \in FqWith(s, f)}
      BY <2>3 DEF Fieldid
    <3>2. CASE FqWith(s, f) = {}
      BY <3>2
    <3>3. CASE FqWith(s, f) # {}
      <4>1. PICK r \in FqWith(s, f) : Keep(r)
        BY <2>3, <3>1, <3>3 DEF NameOfColumn
      <4>2. \E e \in field2fqmap' : e.key = r.id
        BY <4>1, KeepKeeps DEF FqWith
      <4>3. r.id \in ids
        BY <3>1
      <4> QED
        BY <1>7, <4>2, <4>3
    <3> QED
      BY <3>2, <3>3
  <2> QED
    BY <2>1, <2>2, <2>3
<1>9. result = truth \/ (fails /\ result = {})
  BY <1>5, <1>6, <1>8
<1> QED
  BY <1>1, <1>2, <1>3, <1>9, Answered

LEMMA GetFieldidKeeps ==
  ASSUME FqInv, NEW n, NEW fails, GetFieldid(n, fails)
  PROVE  FqInv' /\ AnswersAreTheTruth'
<1> DEFINE result == Find(string2fieldmap', n)
           truth == {r.id : r \in FqNamed(n)}
<1>1. Asks("fieldid", n, fails, result)
  BY DEF GetFieldid
<1>2. Truth("fieldid", n) = truth
  BY DEF Truth
<1>3. CASE UNCHANGED fqMaps /\ (Find(string2fieldmap, n) # {} \/ fails \/ FqNamed(n) = {})
  <2>1. FqInv'
    BY <1>3 DEF fqMaps, FqInv, FqFieldsTrue, FqFieldsAgree
  <2>2. \A e \in string2fieldmap : e.key = n => truth = {e.value}
    <3> SUFFICES ASSUME NEW e \in string2fieldmap, e.key = n PROVE truth = {e.value}
      OBVIOUS
    <3>1. PICK r \in FqRows : r.name = n /\ r.id = e.value
      BY DEF FqInv, FqFieldsTrue
    <3> QED
      BY <3>1, FqRowsUnique DEF FqNamed
  <2>3. result = truth \/ (fails /\ result = {})
    <3>1. CASE Find(string2fieldmap, n) # {}
      <4>1. PICK e \in string2fieldmap : e.key = n
        BY <3>1, FindEntries
      <4>2. \A v : v \in Find(string2fieldmap, n) <=> v = e.value
        BY <2>2, <4>1, FindEntries
      <4> QED
        BY <1>3, <2>2, <4>1, <4>2 DEF fqMaps
    <3>2. CASE Find(string2fieldmap, n) = {} /\ fails
      BY <1>3, <3>2 DEF fqMaps
    <3>3. CASE Find(string2fieldmap, n) = {} /\ FqNamed(n) = {}
      BY <1>3, <3>3 DEF fqMaps
    <3> QED
      BY <1>3, <3>1, <3>2, <3>3
  <2> QED
    BY <1>1, <1>2, <2>1, <2>3, Answered
<1>4. CASE \E r \in FqNamed(n) :
             /\ Keep(r)
             /\ stationmap' = Insert(stationmap, <<r.id[2], r.id[3]>>, r.id[1])
  <2>1. PICK r \in FqNamed(n) :
          /\ Keep(r)
          /\ stationmap' = Insert(stationmap, <<r.id[2], r.id[3]>>, r.id[1])
    BY <1>4
  <2>2. r \in FqRows /\ r.name = n
    BY DEF FqNamed
  <2>3. \A e \in stationmap' :
          e \in stationmap \/ (e.key = <<r.id[2], r.id[3]>> /\ e.value = r.id[1])
    BY <2>1, InsertEntries
  <2>4. FqFieldsTrue'
    BY <2>1, <2>2, <2>3, KeepKeeps DEF FqInv, FqFieldsTrue
  <2>5. ASSUME NEW e \in stationmap'
        PROVE  \E d \in field2fqmap' : d.key = <<e.value, e.key[1], e.key[2]>>
    <3>1. CASE e \in stationmap
      BY <2>1, <2>2, <3>1, KeepKeeps DEF FqInv, FqFieldsAgree
    <3>2. CASE e.key = <<r.id[2], r.id[3]>> /\ e.value = r.id[1]
      <4>1. <<e.value, e.key[1], e.key[2]>> = r.id
        BY <2>2, <3>2, FqIdIsTriple
      <4> QED
        BY <2>1, <2>2, <4>1, KeepKeeps
    <3> QED
      BY <2>3, <3>1, <3>2
  <2>6. FqInv'
    BY <2>1, <2>2, <2>4, <2>5, KeepKeeps, PairedIsAgreed DEF FqInv, FqFieldsAgree
  <2>7. \A e \in string2fieldmap' : e.key = n => e.value = r.id
    BY <2>2, <2>6, FqRowsUnique DEF FqInv, FqFieldsTrue
  <2>8. \E e \in string2fieldmap' : e.key = n
    BY <2>1, <2>2, KeepKeeps
  <2>9. result = {r.id}
    BY <2>7, <2>8, FindEntries
  <2>10. truth = {r.id}
    BY <2>2, FqRowsUnique DEF FqNamed
  <2> QED
    BY <1>1, <1>2, <2>6, <2>9, <2>10, Answered
<1> QED
  BY <1>3, <1>4 DEF GetFieldid

-----------------------------------------------------------------------------
(* Configuration                                                           *)

LEMMA OneList ==
  ASSUME NEW x, NEW v \in StringList(x)
  PROVE  StringList(x) = {v}
BY DEF StringList

LEMMA CachedIsTrue ==
  ASSUME ConfigTrue, NEW x
  PROVE  CachedList(x) = StringList(x)
<1>1. CASE Find(resultcache, x) = {}
  BY <1>1 DEF CachedList
<1>2. CASE Find(resultcache, x) # {}
  <2>1. \A v \in Find(resultcache, x) : v \in StringList(x)
    BY FindEntries DEF ConfigTrue
  <2>2. PICK v : v \in Find(resultcache, x)
    BY <1>2
  <2>3. StringList(x) = {v}
    BY <2>1, <2>2, OneList
  <2>4. Find(resultcache, x) = {v}
    BY <2>1, <2>2, <2>3
  <2> QED
    BY <1>2, <2>3, <2>4 DEF CachedList
<1> QED
  BY <1>1, <1>2

LEMMA LookupPathKeeps ==
  ASSUME ConfigTrue, NEW x, LookupPath(x)
  PROVE  \A e \in resultcache' : e.value \in StringList(e.key)
BY DEF LookupPath, ConfigTrue

LEMMA ConfigKeeps ==
  ASSUME ConfigTrue, NEW x,
         GetStringList(x) \/ XpathExists(x) \/ GetDB(x) \/ GetNodeList(x) \/ GetNode(x)
  PROVE  ConfigTrue' /\ AnswersAreTheTruth'
<1>1. CASE GetStringList(x)
  <2>1. ConfigTrue'
    BY <1>1, LookupPathKeeps DEF GetStringList, ConfigTrue
  <2>2. Asks("list", x, FALSE, StringList(x))
    BY <1>1, CachedIsTrue DEF GetStringList
  <2>3. Truth("list", x) = StringList(x)
    BY DEF Truth
  <2> QED
    BY <2>1, <2>2, <2>3, Answered
<1>2. CASE XpathExists(x)
  <2>1. existscache' = Insert(existscache, x, Exists(x)) /\ resultcache' = resultcache
    BY <1>2 DEF XpathExists
  <2>2. ConfigTrue'
    BY <2>1, InsertEntries DEF ConfigTrue
  <2>3. \A v : v \in Find(existscache', x) <=> v = Exists(x)
    <3>1. \E e \in existscache' : e.key = x
      BY <2>1, InsertEntries
    <3> QED
      BY <2>2, <3>1, FindEntries DEF ConfigTrue
  <2>4. Find(existscache', x) = {Exists(x)}
    BY <2>3
  <2>5. Asks("exists", x, FALSE, {Exists(x)})
    BY <1>2, <2>4 DEF XpathExists
  <2>6. Truth("exists", x) = {Exists(x)}
    BY DEF Truth
  <2> QED
    BY <2>2, <2>5, <2>6, Answered
<1>3. CASE GetDB(x)
  <2>1. ConfigTrue'
    BY <1>3, LookupPathKeeps DEF GetDB, ConfigTrue
  <2>2. Asks("required", x, FALSE, FirstOr(StringList(x), "unknown") \ {"unknown"})
    BY <1>3, CachedIsTrue DEF GetDB
  <2>3. Truth("required", x) = {Head(v) : v \in StringList(x) \ {<<>>}} \ {"unknown"}
    BY DEF Truth
  <2>4. FirstOr(StringList(x), "unknown") \ {"unknown"}
          = {Head(v) : v \in StringList(x) \ {<<>>}} \ {"unknown"}
    BY Zenon DEF FirstOr
  <2> QED
    BY <2>1, <2>2, <2>3, <2>4, Answered
<1>4. CASE GetNodeList(x)
  <2>1. ConfigTrue'
    BY <1>4 DEF GetNodeList, confMaps, ConfigTrue
  <2>2. Truth("nodes", x) = IF Document[x].type = "nodes" THEN StringList(x) ELSE {<<>>}
    BY DEF Truth
  <2>3. Truth("nodes", x)
          = {IF Document[x].type = "nodes" THEN Document[x].values ELSE <<>>}
    BY <2>2 DEF StringList
  <2> QED
    BY <1>4, <2>1, <2>3, Answered DEF GetNodeList
<1>5. CASE GetNode(x)
  <2>1. ConfigTrue'
    BY <1>5 DEF GetNode, confMaps, ConfigTrue
  <2>2. Truth("node", x)
          = {Head(v) : v \in {w \in StringList(x) : Document[x].type = "nodes"} \ {<<>>}}
    BY DEF Truth
  <2>3. Truth("node", x)
          = IF Document[x].type = "nodes" /\ Document[x].values # <<>>
            THEN {Head(Document[x].values)} ELSE {}
    BY <2>2, Zenon DEF StringList
  <2> QED
    BY <1>5, <2>1, <2>3, Answered DEF GetNode
<1> QED
  BY <1>1, <1>2, <1>3, <1>4, <1>5

-----------------------------------------------------------------------------
(* SSI_internals                                                           *)

LEMMA SensorRowParts ==
  ASSUME NEW q \in SensorRows
  PROVE  \E a \in Station, b \in Sensor :
           /\ a.id = b.stationid
           /\ q.id = b.id
           /\ q.name = <<a.name, b.name>>
           /\ q = [id |-> b.id, name |-> <<a.name, b.name>>]
BY DEF SensorRows

LEMMA SensorRowsUnique ==
  ASSUME NEW q \in SensorRows, NEW p \in SensorRows, q.id = p.id \/ q.name = p.name
  PROVE  q = p
<1>1. PICK a \in Station, b \in Sensor :
           /\ a.id = b.stationid
           /\ q.id = b.id
           /\ q.name = <<a.name, b.name>>
           /\ q = [id |-> b.id, name |-> <<a.name, b.name>>]
  BY SensorRowParts
<1>2. PICK a2 \in Station, b2 \in Sensor :
           /\ a2.id = b2.stationid
           /\ p.id = b2.id
           /\ p.name = <<a2.name, b2.name>>
           /\ p = [id |-> b2.id, name |-> <<a2.name, b2.name>>]
  BY SensorRowParts
<1>3. CASE q.id = p.id
  <2>1. b = b2
    BY <1>1, <1>2, <1>3, TablesAssumption DEF TablesAssumption
  <2>2. a = a2
    BY <1>1, <1>2, <2>1, TablesAssumption DEF TablesAssumption
  <2> QED
    BY <1>1, <1>2, <2>1, <2>2
<1>4. CASE q.name = p.name
  <2>1. a.name = a2.name /\ b.name = b2.name
    BY <1>1, <1>2, <1>4
  <2>2. a = a2
    BY <2>1, TablesAssumption DEF TablesAssumption
  <2>3. b = b2
    BY <1>1, <1>2, <2>1, <2>2, TablesAssumption DEF TablesAssumption
  <2> QED
    BY <1>1, <1>2, <2>2, <2>3
<1> QED
  BY <1>3, <1>4

\* The file has one list of fields for a sensor, or none.
LEMMA OneInFile ==
  ASSUME NEW n, NEW x \in InFile(n)
  PROVE  InFile(n) = {x} /\ x.name = n
<1>1. PICK v \in StringList(FieldsXpath[n]) : x = [name |-> n, fieldnames |-> v]
  BY DEF InFile
<1>2. StringList(FieldsXpath[n]) = {v}
  BY <1>1, OneList
<1> QED
  BY <1>1, <1>2 DEF InFile

PairedSensors(names, infos) ==
  /\ \A e \in names : \E d \in infos : e.key = d.value.name /\ e.value = d.key
  /\ \A d \in infos : \E e \in names : e.key = d.value.name /\ e.value = d.key

LEMMA PairedSensorsAgree ==
  ASSUME NEW names, NEW infos
  PROVE  PairedSensors(names, infos) <=>
           {<<e.key, e.value>> : e \in names} = {<<d.value.name, d.key>> : d \in infos}
<1>1. ASSUME PairedSensors(names, infos)
      PROVE  {<<e.key, e.value>> : e \in names} = {<<d.value.name, d.key>> : d \in infos}
  <2>1. ASSUME NEW e \in names
        PROVE  <<e.key, e.value>> \in {<<d.value.name, d.key>> : d \in infos}
    BY <1>1 DEF PairedSensors
  <2>2. ASSUME NEW d \in infos
        PROVE  <<d.value.name, d.key>> \in {<<e.key, e.value>> : e \in names}
    BY <1>1 DEF PairedSensors
  <2> QED
    BY <2>1, <2>2
<1>2. ASSUME {<<e.key, e.value>> : e \in names} = {<<d.value.name, d.key>> : d \in infos}
      PROVE  PairedSensors(names, infos)
  <2>1. ASSUME NEW e \in names
        PROVE  \E d \in infos : e.key = d.value.name /\ e.value = d.key
    <3>1. <<e.key, e.value>> \in {<<d.value.name, d.key>> : d \in infos}
      BY <1>2
    <3> QED
      BY <3>1
  <2>2. ASSUME NEW d \in infos
        PROVE  \E e \in names : e.key = d.value.name /\ e.value = d.key
    <3>1. <<d.value.name, d.key>> \in {<<e.key, e.value>> : e \in names}
      BY <1>2
    <3> QED
      BY <3>1
  <2> QED
    BY <2>1, <2>2 DEF PairedSensors
<1> QED
  BY <1>1, <1>2

LEMMA LookupSensorKeeps ==
  ASSUME SensorInv, ConfigTrue, NEW i, NEW fails, LookupSensor(i, fails),
         UNCHANGED existscache
  PROVE  /\ SensorInv' /\ ConfigTrue'
         /\ \/ \E e \in idcache' : e.key = i
            \/ fails
            \/ ~\E r \in SensorRows : r.id = i
<1>1. CASE /\ UNCHANGED <<ssiMaps, resultcache>>
           /\ Find(idcache, i) # {} \/ fails \/ ~\E r \in SensorRows : r.id = i
  <2>1. SensorInv' /\ ConfigTrue'
    BY <1>1 DEF ssiMaps, SensorInv, SensorsTrue, SensorsAgree, ConfigTrue
  <2> QED
    BY <1>1, <2>1, FoundEntry DEF ssiMaps
<1>2. CASE /\ Find(idcache, i) = {}
           /\ \E r \in SensorRows :
                /\ r.id = i
                /\ LookupPath(FieldsXpath[r.name])
                /\ \E list \in CachedList(FieldsXpath[r.name]) :
                     idcache' = Insert(idcache, i, [name |-> r.name, fieldnames |-> list])
                /\ namecache' = Insert(namecache, r.name, i)
  <2>1. PICK r \in SensorRows :
                /\ r.id = i
                /\ LookupPath(FieldsXpath[r.name])
                /\ \E list \in CachedList(FieldsXpath[r.name]) :
                     idcache' = Insert(idcache, i, [name |-> r.name, fieldnames |-> list])
                /\ namecache' = Insert(namecache, r.name, i)
    BY <1>2
  <2>2. \E list \in StringList(FieldsXpath[r.name]) :
          idcache' = Insert(idcache, i, [name |-> r.name, fieldnames |-> list])
    BY <2>1, CachedIsTrue
  <2>3. ASSUME NEW list \in StringList(FieldsXpath[r.name])
        PROVE  /\ [name |-> r.name, fieldnames |-> list] \in InFile(r.name)
               /\ [name |-> r.name, fieldnames |-> list].name = r.name
    BY DEF InFile
  <2>4. PICK info \in InFile(r.name) : /\ idcache' = Insert(idcache, i, info)
                                      /\ info.name = r.name
    BY <2>2, <2>3
  <2>5. Find(namecache, r.name) = {}
    <3> SUFFICES ASSUME NEW e \in namecache, e.key = r.name PROVE FALSE
      BY FoundEntry
    <3>1. e.value = i
      BY <2>1, SensorRowsUnique DEF SensorInv, SensorsTrue
    <3>2. PairedSensors(namecache, idcache)
      BY PairedSensorsAgree DEF SensorInv, SensorsAgree
    <3>3. \E d \in idcache : d.key = i
      BY <3>1, <3>2 DEF PairedSensors
    <3> QED
      BY <1>2, <3>3, FoundEntry
  <2>6. /\ \A e \in idcache' : e \in idcache \/ (e.key = i /\ e.value = info)
        /\ \E e \in idcache' : e.key = i /\ e.value = info
        /\ idcache \subseteq idcache'
    <3>1. Find(idcache, i) = {}
      BY <1>2
    <3>2. idcache' = Insert(idcache, i, info)
      BY <2>4
    <3> QED
      BY <3>1, <3>2, InsertEntries
  <2>7. /\ \A e \in namecache' : e \in namecache \/ (e.key = r.name /\ e.value = i)
        /\ \E e \in namecache' : e.key = r.name /\ e.value = i
        /\ namecache \subseteq namecache'
    BY <2>1, <2>5, InsertEntries
  <2>8. SensorsTrue'
    BY <2>1, <2>4, <2>6, <2>7 DEF SensorInv, SensorsTrue
  <2>9. PairedSensors(namecache', idcache')
    <3>1. PairedSensors(namecache, idcache)
      BY PairedSensorsAgree DEF SensorInv, SensorsAgree
    <3>2. ASSUME NEW e \in namecache'
          PROVE  \E d \in idcache' : e.key = d.value.name /\ e.value = d.key
      BY <2>4, <2>6, <2>7, <3>1 DEF PairedSensors
    <3>3. ASSUME NEW d \in idcache'
          PROVE  \E e \in namecache' : e.key = d.value.name /\ e.value = d.key
      BY <2>4, <2>6, <2>7, <3>1 DEF PairedSensors
    <3> QED
      BY <3>2, <3>3 DEF PairedSensors
  <2>10. ConfigTrue'
    BY <2>1, LookupPathKeeps DEF ConfigTrue
  <2> QED
    BY <2>6, <2>8, <2>9, <2>10, PairedSensorsAgree DEF SensorInv, SensorsAgree
<1> QED
  BY <1>1, <1>2 DEF LookupSensor

LEMMA SensorByIdKeeps ==
  ASSUME SensorInv, ConfigTrue, NEW i, NEW fails, SensorById(i, fails)
  PROVE  SensorInv' /\ ConfigTrue' /\ AnswersAreTheTruth'
<1> DEFINE truth == UNION {InFile(r.name) : r \in {q \in SensorRows : q.id = i}}
           result == Find(idcache', i)
<1>1. Asks("sensor", i, fails, result)
  BY DEF SensorById
<1>2. Truth("sensor", i) = truth
  BY DEF Truth
<1>3. /\ SensorInv' /\ ConfigTrue'
      /\ (\E e \in idcache' : e.key = i) \/ fails \/ ~\E r \in SensorRows : r.id = i
  BY LookupSensorKeeps DEF SensorById
<1>4. CASE \E e \in idcache' : e.key = i
  <2>1. PICK e \in idcache' : e.key = i
    BY <1>4
  <2>2. PICK q \in SensorRows : q.id = i /\ e.value \in InFile(q.name)
    BY <1>3, <2>1 DEF SensorInv, SensorsTrue
  <2>3. ASSUME NEW d \in idcache', d.key = i PROVE d.value = e.value
    <3>1. PICK p \in SensorRows : p.id = i /\ d.value \in InFile(p.name)
      BY <1>3, <2>3 DEF SensorInv, SensorsTrue
    <3>2. p = q
      BY <2>2, <3>1, SensorRowsUnique
    <3> QED
      BY <2>2, <3>1, <3>2, OneInFile
  <2>4. \A v : v \in result <=> v = e.value
    BY <2>1, <2>3, FindEntries
  <2>5. InFile(q.name) = {e.value}
    BY <2>2, OneInFile
  <2>6. {r \in SensorRows : r.id = i} = {q}
    BY <2>2, SensorRowsUnique
  <2>7. truth = {e.value}
    BY <2>5, <2>6
  <2>8. result = truth
    BY <2>4, <2>7
  <2> QED
    BY <1>1, <1>2, <1>3, <2>8, Answered
<1>5. CASE ~\E e \in idcache' : e.key = i
  <2>1. result = {}
    BY <1>5, FoundEntry
  <2>2. fails \/ truth = {}
    BY <1>3, <1>5
  <2> QED
    BY <1>1, <1>2, <1>3, <2>1, <2>2, Answered
<1> QED
  BY <1>4, <1>5

LEMMA SensorByNameKeeps ==
  ASSUME SensorInv, ConfigTrue, NEW n, NEW fails, SensorByName(n, fails)
  PROVE  SensorInv' /\ ConfigTrue' /\ AnswersAreTheTruth'
<1> DEFINE truth == UNION {InFile(r.name) : r \in {q \in SensorRows : q.name = n}}
           result == UNION {Find(idcache', i) : i \in Find(namecache', n)}
<1>1. Asks("sensorNamed", n, fails, result)
  BY DEF SensorByName
<1>2. Truth("sensorNamed", n) = truth
  BY DEF Truth
<1>3. /\ SensorInv' /\ ConfigTrue'
      /\ \/ \E e \in namecache' : e.key = n
         \/ fails
         \/ ~\E r \in SensorRows : r.name = n
  <2>1. CASE /\ UNCHANGED <<ssiMaps, resultcache>>
             /\ Find(namecache, n) # {} \/ ~\E r \in SensorRows : r.name = n
    <3>1. SensorInv' /\ ConfigTrue'
      BY <2>1 DEF SensorByName, ssiMaps, SensorInv, SensorsTrue, SensorsAgree, ConfigTrue
    <3> QED
      BY <2>1, <3>1, FoundEntry DEF ssiMaps
  <2>2. CASE \E r \in SensorRows : r.name = n /\ LookupSensor(r.id, fails)
    <3>1. PICK r \in SensorRows : r.name = n /\ LookupSensor(r.id, fails)
      BY <2>2
    <3>2. /\ SensorInv' /\ ConfigTrue'
          /\ (\E e \in idcache' : e.key = r.id) \/ fails
      BY <3>1, LookupSensorKeeps DEF SensorByName
    <3>3. ASSUME NEW e \in idcache', e.key = r.id
          PROVE  \E d \in namecache' : d.key = n
      <4>1. PICK p \in SensorRows : p.id = r.id /\ e.value \in InFile(p.name)
        BY <3>2, <3>3 DEF SensorInv, SensorsTrue
      <4>2. p = r /\ e.value.name = n
        BY <3>1, <4>1, SensorRowsUnique, OneInFile
      <4>3. PairedSensors(namecache', idcache')
        BY <3>2, PairedSensorsAgree DEF SensorInv, SensorsAgree
      <4> QED
        BY <4>2, <4>3 DEF PairedSensors
    <3> QED
      BY <3>2, <3>3
  <2> QED
    BY <2>1, <2>2 DEF SensorByName
<1>4. CASE \E e \in namecache' : e.key = n
  <2>1. PICK e \in namecache' : e.key = n
    BY <1>4
  <2>2. PICK q \in SensorRows : q.name = n /\ q.id = e.value
    BY <1>3, <2>1 DEF SensorInv, SensorsTrue
  <2>3. PairedSensors(namecache', idcache')
    BY <1>3, PairedSensorsAgree DEF SensorInv, SensorsAgree
  <2>4. PICK d \in idcache' : d.key = q.id
    BY <2>1, <2>2, <2>3 DEF PairedSensors
  <2>5. ASSUME NEW c \in idcache', c.key = q.id PROVE InFile(q.name) = {c.value}
    <3>1. PICK p \in SensorRows : p.id = q.id /\ c.value \in InFile(p.name)
      BY <1>3, <2>5 DEF SensorInv, SensorsTrue
    <3> QED
      BY <3>1, SensorRowsUnique, OneInFile
  <2>6. InFile(q.name) = {d.value}
    BY <2>4, <2>5
  <2>7. Find(idcache', q.id) = {d.value}
    <3>1. ASSUME NEW c \in idcache', c.key = q.id PROVE c.value = d.value
      BY <2>5, <2>6, <3>1
    <3>2. \A v : v \in Find(idcache', q.id) <=> v = d.value
      BY <2>4, <3>1, FindEntries
    <3> QED
      BY <3>2
  <2>8. Find(namecache', n) = {q.id}
    <3>1. \A c \in namecache' : c.key = n => c.value = q.id
      BY <1>3, <2>2, SensorRowsUnique DEF SensorInv, SensorsTrue
    <3>2. \A v : v \in Find(namecache', n) <=> v = q.id
      BY <2>1, <2>2, <3>1, FindEntries
    <3> QED
      BY <3>2
  <2>9. result = {d.value}
    BY <2>7, <2>8
  <2>10. {r \in SensorRows : r.name = n} = {q}
    BY <2>2, SensorRowsUnique
  <2>11. truth = {d.value}
    BY <2>6, <2>10
  <2> QED
    BY <1>1, <1>2, <1>3, <2>9, <2>11, Answered
<1>5. CASE ~\E e \in namecache' : e.key = n
  <2>1. Find(namecache', n) = {}
    BY <1>5, FoundEntry
  <2>2. result = {}
    BY <2>1
  <2>3. fails \/ truth = {}
    BY <1>3, <1>5
  <2> QED
    BY <1>1, <1>2, <1>3, <2>2, <2>3, Answered
<1> QED
  BY <1>4, <1>5

-----------------------------------------------------------------------------
(* The whole                                                               *)

LEMMA InitIInv == Init => IInv
<1> SUFFICES ASSUME Init PROVE IInv
  OBVIOUS
<1>1. FieldInv /\ ConfigTrue
  BY DEF Init, FieldInv, FieldsTrue, FieldsAgree, ConfigTrue
<1>2. FqInv
  BY DEF Init, FqInv, FqFieldsTrue, FqFieldsAgree
<1>3. SensorInv
  BY DEF Init, SensorInv, SensorsTrue, SensorsAgree
<1>4. AnswersAreTheTruth
  BY DEF Init, AnswersAreTheTruth, Truth
<1> QED
  BY <1>1, <1>2, <1>3, <1>4 DEF IInv

LEMMA FieldsStay == FieldInv /\ UNCHANGED fieldMaps => FieldInv'
BY DEF fieldMaps, FieldInv, FieldsTrue, FieldsAgree

LEMMA FqStay == FqInv /\ UNCHANGED fqMaps => FqInv'
BY DEF fqMaps, FqInv, FqFieldsTrue, FqFieldsAgree

LEMMA SensorsStay == SensorInv /\ UNCHANGED ssiMaps => SensorInv'
BY DEF ssiMaps, SensorInv, SensorsTrue, SensorsAgree

LEMMA ConfigStays == ConfigTrue /\ UNCHANGED confMaps => ConfigTrue'
BY DEF confMaps, ConfigTrue

LEMMA NextIInv == IInv /\ [Next]_vars => IInv'
<1> SUFFICES ASSUME IInv, [Next]_vars PROVE IInv'
  OBVIOUS
<1> USE DEF IInv
<1>1. CASE UNCHANGED vars
  BY <1>1, FieldsStay, FqStay, SensorsStay, ConfigStays DEF vars, AnswersAreTheTruth
<1>2. ASSUME NEW i, NEW fails, GetFieldById(i, fails) PROVE IInv'
  BY <1>2, GetFieldByIdKeeps, FqStay, SensorsStay, ConfigStays DEF GetFieldById
<1>3. ASSUME NEW n, NEW fails, GetFieldByName(n, fails) PROVE IInv'
  BY <1>3, GetFieldByNameKeeps, FqStay, SensorsStay, ConfigStays DEF GetFieldByName
<1>4. ASSUME NEW s, NEW f, NEW fails, NameOfColumn(s, f, fails) PROVE IInv'
  BY <1>4, NameOfColumnKeeps, FieldsStay, SensorsStay, ConfigStays DEF NameOfColumn
<1>5. ASSUME NEW n, NEW fails, GetFieldid(n, fails) PROVE IInv'
  BY <1>5, GetFieldidKeeps, FieldsStay, SensorsStay, ConfigStays DEF GetFieldid
<1>6. ASSUME NEW i, NEW fails, SensorById(i, fails) PROVE IInv'
  BY <1>6, SensorByIdKeeps, FieldsStay, FqStay DEF SensorById
<1>7. ASSUME NEW n, NEW fails, SensorByName(n, fails) PROVE IInv'
  BY <1>7, SensorByNameKeeps, FieldsStay, FqStay DEF SensorByName
<1>8. ASSUME NEW n, NEW fails, GetStationField(n, fails) PROVE IInv'
  <2>1. AnswersAreTheTruth'
    <3>1. Truth("station", n) = {r.timezone : r \in {q \in Station : q.name = n}} \ {"NULL"}
      BY DEF Truth
    <3> QED
      BY <1>8, <3>1, Answered DEF GetStationField
  <2> QED
    BY <1>8, <2>1, FieldsStay, FqStay, SensorsStay, ConfigStays DEF GetStationField
<1>9. ASSUME NEW x, GetStringList(x) \/ XpathExists(x) \/ GetDB(x) \/ GetNodeList(x)
                      \/ GetNode(x)
      PROVE  IInv'
  <2>1. ConfigTrue' /\ AnswersAreTheTruth'
    BY <1>9, ConfigKeeps
  <2>2. UNCHANGED <<fieldMaps, fqMaps, ssiMaps>>
    BY <1>9 DEF GetStringList, XpathExists, GetDB, GetNodeList, GetNode
  <2> QED
    BY <2>1, <2>2, FieldsStay, FqStay, SensorsStay
<1> QED
  BY <1>1, <1>2, <1>3, <1>4, <1>5, <1>6, <1>7, <1>8, <1>9 DEF Next

\* The caches of names never mislead (Field_internals.cc, FQField_internals.cc,
\* SensorStationInfo.cc, Configuration.cc), for all tables with the keys of the
\* database, every file, and any order of requests and failing queries.
THEOREM NothingIsMistaken == Spec => []CachesAreTrue
<1>1. IInv => CachesAreTrue
  BY DEF IInv, FieldInv, FqInv, SensorInv, CachesAreTrue, MapsAgree
<1> QED
  BY InitIInv, NextIInv, <1>1, PTL DEF Spec

-----------------------------------------------------------------------------
(* The calendar                                                            *)

\* the first day of a year
NewYear(y) == DayNumber(y, 0, 1)

\* the days of the years before
LEMMA NewYearIs ==
  ASSUME NEW y \in Int
  PROVE  NewYear(y) = 365 * (y - 1) + (y - 1) \div 4 - (y - 1) \div 100
           + (y - 1) \div 400 - 719162
  BY SMT DEF NewYear, DayNumber

\* ... and of the year itself
LEMMA NewYearAfter ==
  ASSUME NEW y \in Int
  PROVE  NewYear(y + 1) = 365 * y + y \div 4 - y \div 100 + y \div 400 - 719162
<1>1. y + 1 \in Int /\ (y + 1) - 1 = y
  OBVIOUS
<1>2. \A x \in Int : x - 1 = y
        => NewYear(x) = 365 * y + y \div 4 - y \div 100 + y \div 400 - 719162
  BY NewYearIs, SMT
<1> QED BY <1>1, <1>2, SMT

\* Years have 365 or 366 days.
LEMMA YearLength ==
  ASSUME NEW y \in Int
  PROVE  /\ NewYear(y) \in Int
         /\ NewYear(y + 1) = NewYear(y) + 365 \/ NewYear(y + 1) = NewYear(y) + 366
<1>1. NewYear(y + 1) = 365 * y + y \div 4 - y \div 100 + y \div 400 - 719162
  BY NewYearAfter
<1> DEFINE a == y \div 4
           b == y \div 100
           c == y \div 400
           r == y % 400
<1>2. (y - 1) \div 4 = (IF y % 4 = 0 THEN a - 1 ELSE a) /\ a \in Int
  BY SMT
<1>3. (y - 1) \div 100 = (IF y % 100 = 0 THEN b - 1 ELSE b) /\ b \in Int
  BY SMT
<1>4. (y - 1) \div 400 = (IF y % 400 = 0 THEN c - 1 ELSE c) /\ c \in Int
  BY SMT
<1>5. (y % 400 = 0 => y % 100 = 0) /\ (y % 100 = 0 => y % 4 = 0)
  BY SMT
<1>6. NewYear(y) = 365 * (y - 1) + (y - 1) \div 4 - (y - 1) \div 100
        + (y - 1) \div 400 - 719162
  BY NewYearIs
<1> QED BY <1>1, <1>2, <1>3, <1>4, <1>5, <1>6, SMT

\* A year is over when a later one begins.
LEMMA YearsInOrder ==
  ASSUME NEW y \in Int, NEW z \in Int, y < z
  PROVE  NewYear(y + 1) <= NewYear(z)
<1>1. NewYear(y + 1) = 365 * y + y \div 4 - y \div 100 + y \div 400 - 719162
  BY NewYearAfter
<1>2. NewYear(z) = 365 * (z - 1) + (z - 1) \div 4 - (z - 1) \div 100
        + (z - 1) \div 400 - 719162
  BY NewYearIs
<1>3. CASE z = y + 1
  BY <1>3, YearLength
<1>4. CASE z > y + 1
  <2>1. y \div 4 <= (z - 1) \div 4
    BY <1>4, SMT
  <2>2. y \div 400 <= (z - 1) \div 400
    BY <1>4, SMT
  <2>3. (z - 1) \div 100 - y \div 100 <= z - 1 - y
    BY <1>4, SMT
  <2> QED BY <1>1, <1>2, <1>4, <2>1, <2>2, <2>3, SMT
<1> QED BY <1>3, <1>4

\* The year that YearOf chooses is one with the day in it,
LEMMA YearOfDay ==
  ASSUME NEW n \in Int
  PROVE  YearOf(n) \in Int /\ NewYear(YearOf(n)) <= n /\ n < NewYear(YearOf(n) + 1)
<1> DEFINE near == 1970 + (400 * n) \div 146097
<1>1. near \in Int
  BY SMT
<1> DEFINE q == (400 * n) \div 146097
<1>2. q \in Int /\ 146097 * q <= 400 * n /\ 400 * n < 146097 * q + 146097
  BY SMT
<1>3. near = 1970 + q
  OBVIOUS
<1>4. YearOf(n) = CHOOSE y \in (near - 1)..(near + 1) : NewYear(y) <= n
        /\ n < NewYear(y + 1)
  BY DEF YearOf, NewYear
<1> HIDE DEF q, near
<1>5. NewYear(near - 1) <= n
  <2> DEFINE x == 1968 + q
  <2>1. NewYear(x + 1) = 365 * x + x \div 4 - x \div 100 + x \div 400 - 719162
    <3>1. x \in Int
      BY <1>2
    <3> HIDE DEF x
    <3> QED BY <3>1, NewYearAfter, SMT
  <2>2. 4 * (x \div 4) <= x /\ x - 99 <= 100 * (x \div 100) /\ 400 * (x \div 400) <= x
    BY <1>2, SMT
  <2>3. x \div 4 \in Int /\ x \div 100 \in Int /\ x \div 400 \in Int
    BY <1>2, SMT
  <2>4. near - 1 = x + 1
    BY <1>2, <1>3, SMT
  <2> QED BY <1>2, <2>1, <2>2, <2>3, <2>4, SMT
<1>6. n < NewYear(near + 2)
  <2> DEFINE x == 1971 + q
  <2>1. NewYear(x + 1) = 365 * x + x \div 4 - x \div 100 + x \div 400 - 719162
    <3>1. x \in Int
      BY <1>2
    <3> HIDE DEF x
    <3> QED BY <3>1, NewYearAfter, SMT
  <2>2. /\ x - 3 <= 4 * (x \div 4) /\ 100 * (x \div 100) <= x
        /\ x - 399 <= 400 * (x \div 400)
    BY <1>2, SMT
  <2>3. x \div 4 \in Int /\ x \div 100 \in Int /\ x \div 400 \in Int
    BY <1>2, SMT
  <2>4. near + 2 = x + 1
    BY <1>2, <1>3, SMT
  <2> QED BY <1>2, <2>1, <2>2, <2>3, <2>4, SMT
<1>7. \E y \in (near - 1)..(near + 1) : NewYear(y) <= n /\ n < NewYear(y + 1)
  <2>1. NewYear(near) \in Int /\ NewYear(near + 1) \in Int
    BY <1>1, YearLength
  <2>2. CASE n < NewYear(near)
    <3>1. near - 1 \in (near - 1)..(near + 1) /\ (near - 1) + 1 = near
      BY <1>1
    <3> QED BY <3>1, <2>2, <1>5
  <2>3. CASE NewYear(near) <= n /\ n < NewYear(near + 1)
    <3>1. near \in (near - 1)..(near + 1)
      BY <1>1
    <3> QED BY <3>1, <2>3
  <2>4. CASE NewYear(near + 1) <= n
    <3>1. near + 1 \in (near - 1)..(near + 1) /\ (near + 1) + 1 = near + 2
      BY <1>1
    <3> QED BY <3>1, <2>4, <1>6
  <2> QED BY <2>1, <2>2, <2>3, <2>4
<1> QED BY <1>1, <1>7, <1>4

\* and there is no other.
LEMMA YearIs ==
  ASSUME NEW n \in Int, NEW y \in Int, NewYear(y) <= n, n < NewYear(y + 1)
  PROVE  YearOf(n) = y
<1>1. YearOf(n) \in Int /\ NewYear(YearOf(n)) <= n /\ n < NewYear(YearOf(n) + 1)
  BY YearOfDay
<1> DEFINE z == YearOf(n)
<1> HIDE DEF z
<1>2. z \in Int /\ NewYear(z) <= n /\ n < NewYear(z + 1)
  BY <1>1 DEF z
<1>3. ~(z < y)
  BY <1>2, YearsInOrder, YearLength, SMT
<1>4. ~(y < z)
  BY <1>2, YearsInOrder, YearLength, SMT
<1> QED BY <1>2, <1>3, <1>4 DEF z

\* 1 in a leap year
Leap(y) == NewYear(y + 1) - NewYear(y) - 365

\* the first of a month, of the days of its year from 0
FirstOfMonth(m) ==
  CASE m = 0 -> 0   [] m = 1 -> 31  [] m = 2 -> 59   [] m = 3 -> 90
    [] m = 4 -> 120 [] m = 5 -> 151 [] m = 6 -> 181  [] m = 7 -> 212
    [] m = 8 -> 243 [] m = 9 -> 273 [] m = 10 -> 304 [] m = 11 -> 334

\* Day numbers count from the beginning of a year, with leap days after February.
LEMMA DayIs ==
  ASSUME NEW y \in Int, NEW m \in 0..11, NEW d \in Int
  PROVE  /\ DayNumber(y, m, d) = NewYear(y) + FirstOfMonth(m)
              + (IF m < 2 THEN 0 ELSE Leap(y)) + d - 1
         /\ NewYear(y) \in Int /\ Leap(y) \in {0, 1}
<1>1. NewYear(y) \in Int /\ Leap(y) \in {0, 1}
  BY YearLength, SMT DEF Leap
<1> DEFINE a == (y - 1) \div 4 - (y - 1) \div 100 + (y - 1) \div 400
           b == y \div 4 - y \div 100 + y \div 400
<1>2. a \in Int /\ b \in Int
  BY SMT
<1>3. NewYear(y) = 365 * (y - 1) + a - 719162
  BY NewYearIs, SMT
<1>4. NewYear(y + 1) = 365 * y + b - 719162
  BY NewYearAfter, SMT
<1>5. b - a = Leap(y)
  BY <1>1, <1>2, <1>3, <1>4, SMT DEF Leap
<1>6. CASE m < 2
  <2>1. DayNumber(y, m, d) = 365 * (y - 1) + a + (153 * ((m + 10) % 12) + 2) \div 5
          + d - 719469
    BY <1>6, SMT DEF DayNumber
  <2>2. m = 0 \/ m = 1
    BY <1>6
  <2>3. (153 * ((m + 10) % 12) + 2) \div 5 = FirstOfMonth(m) + 306
    BY <2>2, SMT DEF FirstOfMonth
  <2>4. FirstOfMonth(m) \in Int
    BY <2>2 DEF FirstOfMonth
  <2> HIDE DEF a, b
  <2> QED BY <1>1, <1>2, <1>3, <1>6, <2>1, <2>3, <2>4, SMT
<1>7. CASE m >= 2
  <2>1. DayNumber(y, m, d) = 365 * y + b + (153 * ((m + 10) % 12) + 2) \div 5 + d - 719469
    BY <1>7, SMT DEF DayNumber
  <2>2. m \in {2, 3, 4, 5, 6, 7, 8, 9, 10, 11}
    BY <1>7
  <2>3. (153 * ((m + 10) % 12) + 2) \div 5 = FirstOfMonth(m) - 59
    BY <2>2, SMT DEF FirstOfMonth
  <2>4. FirstOfMonth(m) \in Int
    BY <2>2 DEF FirstOfMonth
  <2> HIDE DEF a, b
  <2> QED BY <1>1, <1>2, <1>3, <1>5, <1>7, <2>1, <2>3, <2>4, SMT
<1> QED BY <1>6, <1>7

\* Months have 28 to 31 days, and fill the year.
LEMMA MonthLength ==
  ASSUME NEW y \in Int, NEW m \in 0..11
  PROVE  /\ NextMonth(y, m) - DayNumber(y, m, 1) \in 28..31
         /\ DayNumber(y, m, 1) \in Int /\ NextMonth(y, m) \in Int
         /\ NewYear(y) <= DayNumber(y, m, 1) /\ NextMonth(y, m) <= NewYear(y + 1)
         /\ m < 11 => NextMonth(y, m) = DayNumber(y, m + 1, 1)
<1>1. NewYear(y + 1) = NewYear(y) + 365 + Leap(y) /\ NewYear(y) \in Int
        /\ Leap(y) \in {0, 1}
  BY YearLength, SMT DEF Leap
<1>2. DayNumber(y, m, 1) = NewYear(y) + FirstOfMonth(m) + (IF m < 2 THEN 0 ELSE Leap(y))
  BY DayIs, <1>1, SMT DEF FirstOfMonth
<1>3. CASE m = 11
  <2>1. NextMonth(y, m) = NewYear(y + 1)
    BY <1>3 DEF NextMonth, NewYear
  <2> QED BY <1>1, <1>2, <1>3, <2>1, SMT DEF FirstOfMonth
<1>4. CASE m < 11
  <2>1. NextMonth(y, m) = DayNumber(y, m + 1, 1)
    BY <1>4 DEF NextMonth
  <2>2. m + 1 \in 0..11
    BY <1>4
  <2>3. DayNumber(y, m + 1, 1) = NewYear(y) + FirstOfMonth(m + 1)
          + (IF m < 1 THEN 0 ELSE Leap(y))
    BY DayIs, <1>1, <2>2, SMT DEF FirstOfMonth
  <2>4. m \in {0, 1, 2, 3, 4, 5, 6, 7, 8, 9, 10}
    BY <1>4
  <2>5. /\ FirstOfMonth(m + 1) - FirstOfMonth(m) \in 28..31 /\ FirstOfMonth(m) \in 0..334
        /\ FirstOfMonth(m + 1) \in 0..334
             /\ (m = 1 => FirstOfMonth(m + 1) - FirstOfMonth(m) = 28)
    BY <2>4, SMT DEF FirstOfMonth
  <2>6. DayNumber(y, m, 1) \in Int /\ NewYear(y) <= DayNumber(y, m, 1)
    BY <1>1, <1>2, <2>5, SMT
  <2>7. DayNumber(y, m + 1, 1) \in Int /\ DayNumber(y, m + 1, 1) <= NewYear(y + 1)
    BY <1>1, <2>3, <2>5, SMT
  <2>8. DayNumber(y, m + 1, 1) - DayNumber(y, m, 1) \in 28..31
    <3> DEFINE A == DayNumber(y, m, 1)
               B == DayNumber(y, m + 1, 1)
               N == NewYear(y)
               L == Leap(y)
               f == FirstOfMonth(m)
               g == FirstOfMonth(m + 1)
    <3>1. N \in Int /\ L \in {0, 1} /\ f \in Int /\ g - f \in 28..31 /\ g \in Int
            /\ (m = 1 => g - f = 28)
      BY <1>1, <2>5
    <3>2. A = N + f + (IF m < 2 THEN 0 ELSE L) /\ B = N + g + (IF m < 1 THEN 0 ELSE L)
      BY <1>2, <2>3
    <3>3. A \in Int /\ B \in Int
      BY <2>6, <2>7
    <3> HIDE DEF A, B, N, L, f, g
    <3>4. B - A \in 28..31
      <4>1. CASE m = 0
        BY <4>1, <3>1, <3>2, <3>3
      <4>2. CASE m = 1
        BY <4>2, <3>1, <3>2, <3>3
      <4>3. CASE m > 1
        BY <4>3, <3>1, <3>2, <3>3
      <4> QED BY <4>1, <4>2, <4>3
    <3> QED BY <3>4 DEF A, B
  <2> QED BY <1>4, <2>1, <2>6, <2>7, <2>8
<1> QED BY <1>3, <1>4

\* A month is over when a later one of the year begins.
LEMMA MonthsInOrder ==
  ASSUME NEW y \in Int, NEW m \in 0..11, NEW k \in 0..11, m < k
  PROVE  NextMonth(y, m) <= DayNumber(y, k, 1)
<1>1. NewYear(y) \in Int /\ Leap(y) \in {0, 1}
  BY YearLength, SMT DEF Leap
<1>2. DayNumber(y, k, 1) = NewYear(y) + FirstOfMonth(k) + (IF k < 2 THEN 0 ELSE Leap(y))
  BY DayIs, <1>1, SMT DEF FirstOfMonth
<1>3. DayNumber(y, m + 1, 1) = NewYear(y) + FirstOfMonth(m + 1)
        + (IF m + 1 < 2 THEN 0 ELSE Leap(y))
  BY DayIs, <1>1, SMT DEF FirstOfMonth
<1>4. FirstOfMonth(m + 1) <= FirstOfMonth(k) /\ FirstOfMonth(k) \in Int
        /\ FirstOfMonth(m + 1) \in Int
  BY SMT DEF FirstOfMonth
<1>5. NextMonth(y, m) = DayNumber(y, m + 1, 1)
  <2>1. m < 11
    OBVIOUS
  <2> QED BY <2>1 DEF NextMonth
<1> QED BY <1>1, <1>2, <1>3, <1>4, <1>5, SMT

\* that a day is in a month of a year
InMonth(n, y, m) == y \in Int /\ m \in 0..11 /\ DayNumber(y, m, 1) <= n
  /\ n < NextMonth(y, m)

\* A day is in one month only,
LEMMA InMonthIs ==
  ASSUME NEW n \in Int, NEW y, NEW m, InMonth(n, y, m)
  PROVE  /\ YearOf(n) = y /\ MonthOf(y, n) = m
         /\ NewYear(y) <= n /\ n < NewYear(y + 1)
<1>1. y \in Int /\ m \in 0..11 /\ DayNumber(y, m, 1) <= n /\ n < NextMonth(y, m)
  BY DEF InMonth
<1>2. NewYear(y) <= n /\ n < NewYear(y + 1)
  <2>1. NewYear(y) \in Int /\ NewYear(y + 1) \in Int
    <3>1. y + 1 \in Int
      BY <1>1
    <3> QED BY <3>1, <1>1, YearLength
  <2>2. /\ DayNumber(y, m, 1) \in Int /\ NextMonth(y, m) \in Int
        /\ NewYear(y) <= DayNumber(y, m, 1) /\ NextMonth(y, m) <= NewYear(y + 1)
    BY <1>1, MonthLength
  <2> QED BY <1>1, <2>1, <2>2, SMT
<1>3. \A k \in 0..11 : DayNumber(y, k, 1) <= n /\ n < NextMonth(y, k) => k = m
  <2> SUFFICES ASSUME NEW k \in 0..11, DayNumber(y, k, 1) <= n, n < NextMonth(y, k)
               PROVE  k = m
    OBVIOUS
  <2>1. /\ DayNumber(y, m, 1) \in Int /\ NextMonth(y, m) \in Int
        /\ DayNumber(y, k, 1) \in Int /\ NextMonth(y, k) \in Int
    BY <1>1, MonthLength
  <2>2. ~(k < m)
    <3> SUFFICES ASSUME k < m PROVE FALSE
      OBVIOUS
    <3>1. NextMonth(y, k) <= DayNumber(y, m, 1)
      BY <1>1, MonthsInOrder
    <3> QED BY <3>1, <2>1, <1>1
  <2>3. ~(m < k)
    <3> SUFFICES ASSUME m < k PROVE FALSE
      OBVIOUS
    <3>1. NextMonth(y, m) <= DayNumber(y, k, 1)
      BY <1>1, MonthsInOrder
    <3> QED BY <3>1, <2>1, <1>1
  <2> QED BY <1>1, <2>2, <2>3
<1>4. MonthOf(y, n) = m
  BY <1>3 DEF MonthOf, InMonth
<1> QED BY <1>2, <1>4, YearIs DEF InMonth

\* and there is one that it is in.
LEMMA DayInMonth ==
  ASSUME NEW n \in Int
  PROVE  InMonth(n, YearOf(n), MonthOf(YearOf(n), n))
<1> DEFINE y == YearOf(n)
<1>1. y \in Int /\ NewYear(y) <= n /\ n < NewYear(y + 1)
  BY YearOfDay
<1> HIDE DEF y
<1>2. \E m \in 0..11 : DayNumber(y, m, 1) <= n /\ n < NextMonth(y, m)
  <2> DEFINE F(m) == DayNumber(y, m, 1)
  <2>1. \A m \in 0..10 : F(m) \in Int /\ NextMonth(y, m) = F(m + 1)
    <3> SUFFICES ASSUME NEW m \in 0..10 PROVE F(m) \in Int /\ NextMonth(y, m) = F(m + 1)
      OBVIOUS
    <3>1. m \in 0..11 /\ m < 11
      OBVIOUS
    <3> QED BY <3>1, <1>1, MonthLength
  <2>2. F(11) \in Int /\ NextMonth(y, 11) = NewYear(y + 1) /\ F(0) = NewYear(y)
    <3>1. 11 \in 0..11
      OBVIOUS
    <3> QED BY <3>1, <1>1, MonthLength DEF NextMonth, NewYear
  <2> HIDE DEF F
  <2>3. \E m \in 0..11 : F(m) <= n /\ n < NextMonth(y, m)
    BY <1>1, <2>1, <2>2, SMT
  <2> QED BY <2>3 DEF F
<1>3. MonthOf(y, n) \in 0..11 /\ DayNumber(y, MonthOf(y, n), 1) <= n
        /\ n < NextMonth(y, MonthOf(y, n))
  BY <1>2 DEF MonthOf
<1> QED BY <1>1, <1>3 DEF y, InMonth

-----------------------------------------------------------------------------
(* Local time                                                              *)

\* the days when the clock is changed
Spring(y) == LastSunday(y, 2, 31)
Autumn(y) == LastSunday(y, 9, 31)

\* The clock is changed in spring and in autumn, far from the ends of the year.
LEMMA ClockChanges ==
  ASSUME NEW y \in Int
  PROVE  /\ Spring(y) \in Int /\ Autumn(y) \in Int
         /\ NewYear(y) + 80 <= Spring(y) /\ Spring(y) + 80 <= Autumn(y)
         /\ Autumn(y) + 50 <= NewYear(y + 1)
<1>1. /\ NewYear(y) \in Int /\ Leap(y) \in {0, 1}
      /\ DayNumber(y, 2, 31) = NewYear(y) + 59 + Leap(y) + 30
      /\ DayNumber(y, 9, 31) = NewYear(y) + 273 + Leap(y) + 30
  <2>1. 2 \in 0..11 /\ 9 \in 0..11 /\ 31 \in Int
    OBVIOUS
  <2> QED BY <2>1, DayIs, SMT DEF FirstOfMonth
<1>2. NewYear(y + 1) = NewYear(y) + 365 + Leap(y)
  BY <1>1, YearLength, SMT DEF Leap
<1>3. \A n \in Int : WeekDay(n) \in 0..6
  BY SMT DEF WeekDay
<1> QED BY <1>1, <1>2, <1>3, SMT DEF Spring, Autumn, LastSunday

\* In the year of its winter time, a time is in summer between the changes.
LEMMA SummerIs ==
  ASSUME NEW t \in Int, NEW y \in Int, NewYear(y) <= (t + Hour) \div Day,
         (t + Hour) \div Day < NewYear(y + 1)
  PROVE  IsSummer(t) = (Spring(y) * Day + Hour <= t /\ t < Autumn(y) * Day + Hour)
<1>1. (t + Hour) \div Day \in Int
  BY SMT DEF Hour, Day
<1>2. YearOf((t + Hour) \div Day) = y
  BY <1>1, YearIs
<1> QED BY <1>2 DEF IsSummer, SummerOf, Spring, Autumn

\* seconds of the clock since 1970, and its day
Clock(t) == t + IF IsSummer(t) THEN 2 * Hour ELSE Hour
ClockDay(t) == Clock(t) \div Day

\* the clock, of which localtime has the fields
LEMMA ClockIs ==
  ASSUME NEW t \in Int
  PROVE  /\ localtime(t) = DayAndSecond(ClockDay(t), Clock(t) % Day, IsSummer(t))
         /\ Clock(t) \in Int /\ ClockDay(t) \in Int /\ Clock(t) % Day \in Int
         /\ 0 <= Clock(t) % Day /\ Clock(t) % Day < Day
         /\ Clock(t) = ClockDay(t) * Day + (Clock(t) % Day)
<1>1. Clock(t) \in Int
  BY SMT DEF Clock, Hour
<1>2. localtime(t) = DayAndSecond(ClockDay(t), Clock(t) % Day, IsSummer(t))
  BY DEF localtime, ClockTime, Clock, ClockDay
<1> DEFINE c == Clock(t)
<1> HIDE DEF c
<1>3. c \in Int
  BY <1>1 DEF c
<1>4. c \div Day \in Int /\ c % Day \in Int /\ 0 <= c % Day /\ c % Day < Day
  BY <1>3, SMT DEF Day
<1>5. c = (c \div Day) * Day + (c % Day)
  BY <1>3, SMT DEF Day
<1> QED BY <1>2, <1>3, <1>4, <1>5 DEF c, ClockDay

\* the beginning of a day
EarlySummer(n) == Spring(YearOf(n)) < n /\ n <= Autumn(YearOf(n))
Dawn(n) == n * Day - IF EarlySummer(n) THEN 2 * Hour ELSE Hour

\* the first second of a day
LEMMA DawnIs ==
  ASSUME NEW n \in Int
  PROVE  Dawn(n) \in Int /\ (Dawn(n) = n * Day - 2 * Hour \/ Dawn(n) = n * Day - Hour)
  BY SMT DEF Dawn, Hour, Day

\* in terms of the clock changes of the year, and also for the first day after it
LEMMA EarlySummerIs ==
  ASSUME NEW n \in Int, NEW y \in Int, NewYear(y) <= n, n <= NewYear(y + 1)
  PROVE  EarlySummer(n) = (Spring(y) < n /\ n <= Autumn(y))
<1>1. CASE n < NewYear(y + 1)
  BY <1>1, YearIs DEF EarlySummer
<1>2. CASE n = NewYear(y + 1)
  <2>1. y + 1 \in Int /\ (y + 1) + 1 \in Int
    OBVIOUS
  <2>2. NewYear(y + 1) < NewYear((y + 1) + 1) /\ NewYear(y + 1) \in Int
    BY <2>1, YearLength, SMT
  <2>3. YearOf(n) = y + 1
    BY <1>2, <2>1, <2>2, YearIs, SMT
  <2>4. /\ n < Spring(y + 1) /\ Autumn(y) < n
        /\ Spring(y + 1) \in Int /\ Autumn(y) \in Int /\ Spring(y) \in Int
    BY <1>2, <2>1, <2>2, ClockChanges, SMT
  <2> QED BY <2>3, <2>4 DEF EarlySummer
<1>3. NewYear(y + 1) \in Int
  BY YearLength, SMT
<1> QED BY <1>1, <1>2, <1>3

\* A day of the clock lasts from its beginning to that of the next one; its seconds are
\* those since then, but for the hour that is left out or repeated.
LEMMA DayOfClock ==
  ASSUME NEW t \in Int
  PROVE  /\ Dawn(ClockDay(t)) <= t /\ t < Dawn(ClockDay(t) + 1)
         /\ Clock(t) % Day = 0 <=> t = Dawn(ClockDay(t))
         /\ t < Dawn(ClockDay(t)) + 2 * Hour => Clock(t) % Day = t - Dawn(ClockDay(t))
         /\ t >= Dawn(ClockDay(t)) + 2 * Hour => Clock(t) % Day >= 2 * Hour
<1> DEFINE w == t + Hour
           k == w \div Day
           y == YearOf(k)
           S == Spring(y)
           A == Autumn(y)
<1>1. w \in Int /\ k \in Int /\ k * Day <= w /\ w < k * Day + Day
  BY SMT DEF Hour, Day
<1>2. y \in Int /\ NewYear(y) <= k /\ k < NewYear(y + 1)
  BY <1>1, YearOfDay
<1>3. /\ S \in Int /\ A \in Int /\ NewYear(y) \in Int /\ NewYear(y + 1) \in Int
      /\ NewYear(y) + 80 <= S /\ S + 80 <= A /\ A + 50 <= NewYear(y + 1)
  BY <1>2, ClockChanges, YearLength, SMT
<1>4. IsSummer(t) = (S * Day + Hour <= t /\ t < A * Day + Hour)
  BY <1>2, SummerIs
<1>5. EarlySummer(k) = (S < k /\ k <= A)
  <2>1. k <= NewYear(y + 1)
    BY <1>1, <1>2, <1>3, SMT
  <2> QED BY <1>1, <1>2, <2>1, EarlySummerIs
<1>6. EarlySummer(k + 1) = (S < k + 1 /\ k + 1 <= A)
  <2>1. NewYear(y) <= k + 1 /\ k + 1 <= NewYear(y + 1) /\ k + 1 \in Int
    BY <1>1, <1>2, <1>3, SMT
  <2> QED BY <2>1, <1>2, EarlySummerIs
<1>7. EarlySummer(k + 2) = (S < k + 2 /\ k + 2 <= A) \/ k + 1 >= NewYear(y + 1)
  <2>1. CASE k + 1 < NewYear(y + 1)
    <3>1. NewYear(y) <= k + 2 /\ k + 2 <= NewYear(y + 1) /\ k + 2 \in Int
      BY <1>1, <1>2, <1>3, <2>1, SMT
    <3> QED BY <3>1, <1>2, EarlySummerIs
  <2> QED BY <2>1, <1>1, <1>3
<1>8. Dawn(k) = k * Day - (IF S < k /\ k <= A THEN 2 * Hour ELSE Hour)
  BY <1>5 DEF Dawn
<1>9. Dawn(k + 1) = (k + 1) * Day - (IF S < k + 1 /\ k + 1 <= A THEN 2 * Hour ELSE Hour)
  BY <1>6 DEF Dawn
<1>10. \/ k + 1 >= NewYear(y + 1)
       \/ Dawn(k + 2) = (k + 2) * Day - (IF S < k + 2 /\ k + 2 <= A THEN 2 * Hour ELSE Hour)
  BY <1>7 DEF Dawn
<1>11. Clock(t) = IF S * Day + Hour <= t /\ t < A * Day + Hour THEN t + 2 * Hour
         ELSE t + Hour
  BY <1>4 DEF Clock
<1>12. w = t + Hour
  OBVIOUS
<1> HIDE DEF w, k, y, S, A
<1> DEFINE good(n, r) == /\ Dawn(n) <= t /\ t < Dawn(n + 1)
                         /\ r = 0 <=> t = Dawn(n)
                         /\ t < Dawn(n) + 2 * Hour => r = t - Dawn(n)
                         /\ t >= Dawn(n) + 2 * Hour => r >= 2 * Hour
<1>13. CASE ~(S * Day + Hour <= t /\ t < A * Day + Hour)
  <2>1. Clock(t) = w
    BY <1>11, <1>12, <1>13
  <2>2. w \div Day = k /\ w % Day = w - k * Day
    BY <1>1, SMT DEF Day
  <2>3. good(k, w - k * Day)
    BY <1>1, <1>3, <1>8, <1>9, <1>12, <1>13, SMT DEF Day, Hour
  <2> QED BY <2>1, <2>2, <2>3 DEF ClockDay
<1>14. CASE S * Day + Hour <= t /\ t < A * Day + Hour /\ w + Hour < k * Day + Day
  <2>1. Clock(t) = w + Hour
    BY <1>11, <1>12, <1>14, SMT DEF Hour
  <2>2. (w + Hour) \div Day = k /\ (w + Hour) % Day = w + Hour - k * Day
    BY <1>1, <1>14, SMT DEF Day, Hour
  <2>3. good(k, w + Hour - k * Day)
    BY <1>1, <1>3, <1>8, <1>9, <1>12, <1>14, SMT DEF Day, Hour
  <2> QED BY <2>1, <2>2, <2>3 DEF ClockDay
<1>15. CASE S * Day + Hour <= t /\ t < A * Day + Hour /\ w + Hour >= k * Day + Day
  <2>1. Clock(t) = w + Hour
    BY <1>11, <1>12, <1>15, SMT DEF Hour
  <2>2. (w + Hour) \div Day = k + 1 /\ (w + Hour) % Day = w + Hour - (k + 1) * Day
    BY <1>1, <1>15, SMT DEF Day, Hour
  <2>3. k + 1 < NewYear(y + 1)
    BY <1>1, <1>3, <1>12, <1>15, SMT DEF Day, Hour
  <2>4. good(k + 1, w + Hour - (k + 1) * Day)
    BY <1>1, <1>3, <1>9, <1>10, <1>12, <1>15, <2>3, SMT DEF Day, Hour
  <2> QED BY <2>1, <2>2, <2>4 DEF ClockDay
<1> QED BY <1>1, <1>13, <1>14, <1>15, <1>12, SMT DEF Hour, Day

\* the year, month and day of the year of a day
MonthIn(n) == MonthOf(YearOf(n), n)

\* The fields of localtime
LEMMA FieldsAre ==
  ASSUME NEW t \in Int
  PROVE  LET tm == localtime(t)
             n == ClockDay(t)
             s == Clock(t) % Day
         IN  /\ tm.year = YearOf(n) /\ tm.mon = MonthIn(n)
             /\ tm.mday = n - DayNumber(YearOf(n), MonthIn(n), 1) + 1
             /\ tm.hour = s \div Hour /\ tm.min = (s % Hour) \div Minute
                  /\ tm.sec = s % Minute
             /\ tm.wday = WeekDay(n) /\ tm.yday = n - NewYear(YearOf(n))
             /\ tm.isdst = IsSummer(t)
  BY ClockIs DEF DayAndSecond, BrokenDown, MonthIn, NewYear

Periods == {"day", "week", "month", "year"}

\* the day in the middle of the period of a day
MidDay(level, n) ==
  CASE level = "day" -> n
    [] level = "week" -> n - WeekDay(n) + 3
    [] level = "month" -> DayNumber(YearOf(n), MonthIn(n), 1) + 14
    [] level = "year" -> NewYear(YearOf(n)) + 182

\* A day and its year
LEMMA InYear ==
  ASSUME NEW n \in Int
  PROVE  /\ YearOf(n) \in Int /\ NewYear(YearOf(n)) \in Int
              /\ NewYear(YearOf(n) + 1) \in Int
         /\ NewYear(YearOf(n)) <= n /\ n < NewYear(YearOf(n) + 1)
         /\ \/ NewYear(YearOf(n) + 1) = NewYear(YearOf(n)) + 365
            \/ NewYear(YearOf(n) + 1) = NewYear(YearOf(n)) + 366
<1>1. YearOf(n) \in Int /\ NewYear(YearOf(n)) <= n /\ n < NewYear(YearOf(n) + 1)
  BY YearOfDay
<1>2. YearOf(n) + 1 \in Int
  BY <1>1
<1> QED BY <1>1, <1>2, YearLength

\* A day and its month, which it shares with the days in it
LEMMA DayInItsMonth ==
  ASSUME NEW n \in Int
  PROVE  LET F == DayNumber(YearOf(n), MonthIn(n), 1)
             E == NextMonth(YearOf(n), MonthIn(n))
         IN  /\ YearOf(n) \in Int /\ MonthIn(n) \in 0..11
             /\ F \in Int /\ E \in Int /\ F <= n /\ n < E /\ E - F \in 28..31
             /\ \A k \in Int : F <= k /\ k < E
                  => YearOf(k) = YearOf(n) /\ MonthIn(k) = MonthIn(n)
<1>1. InMonth(n, YearOf(n), MonthIn(n))
  BY DayInMonth DEF MonthIn
<1>2. \A k \in Int : InMonth(k, YearOf(n), MonthIn(n))
        => YearOf(k) = YearOf(n) /\ MonthIn(k) = MonthIn(n)
  BY InMonthIs DEF MonthIn
<1>3. YearOf(n) \in Int /\ MonthIn(n) \in 0..11
  BY <1>1 DEF InMonth
<1> QED BY <1>1, <1>2, <1>3, MonthLength DEF InMonth

\* The day in the middle of a week from Sunday is a Wednesday.
LEMMA WeekDayIs ==
  ASSUME NEW n \in Int
  PROVE  WeekDay(n) \in 0..6 /\ WeekDay(n - WeekDay(n) + 3) = 3
<1> DEFINE d == WeekDay(n)
<1>1. d \in Int /\ 0 <= d /\ d <= 6 /\ (n + 4 - d) % 7 = 0
  BY SMT DEF WeekDay
<1> HIDE DEF d
<1>2. (n - d + 3 + 4) % 7 = 3
  BY <1>1, SMT
<1>3. WeekDay(n - d + 3) = 3
  BY <1>2 DEF WeekDay
<1> QED BY <1>1, <1>3 DEF d

\* The day in the middle of a period is in the middle of its period.
LEMMA MidDayIs ==
  ASSUME NEW level \in Periods, NEW n \in Int
  PROVE  MidDay(level, n) \in Int /\ MidDay(level, MidDay(level, n)) = MidDay(level, n)
<1>1. CASE level = "day"
  BY <1>1 DEF MidDay
<1>2. CASE level = "week"
  <2>1. MidDay(level, n) = n - WeekDay(n) + 3 /\ MidDay(level, n) \in Int
    BY <1>2, WeekDayIs DEF MidDay
  <2> DEFINE k == n - WeekDay(n) + 3
  <2>2. WeekDay(k) = 3 /\ k \in Int
    BY <2>1, WeekDayIs
  <2> HIDE DEF k
  <2>3. MidDay(level, k) = k - WeekDay(k) + 3
    BY <1>2 DEF MidDay
  <2>4. MidDay(level, k) = k
    BY <2>2, <2>3
  <2> QED BY <2>1, <2>4 DEF k
<1>3. CASE level = "month"
  <2> DEFINE F == DayNumber(YearOf(n), MonthIn(n), 1)
             E == NextMonth(YearOf(n), MonthIn(n))
  <2>1. /\ F \in Int /\ E \in Int /\ F <= n /\ n < E /\ E - F \in 28..31
        /\ \A k \in Int : F <= k /\ k < E
             => YearOf(k) = YearOf(n) /\ MonthIn(k) = MonthIn(n)
    BY DayInItsMonth
  <2>2. MidDay(level, n) = F + 14
    BY <1>3 DEF MidDay
  <2>3. MidDay(level, F + 14) = DayNumber(YearOf(F + 14), MonthIn(F + 14), 1) + 14
    BY <1>3 DEF MidDay
  <2>4. YearOf(F + 14) = YearOf(n) /\ MonthIn(F + 14) = MonthIn(n)
    <3> HIDE DEF F, E
    <3>1. F + 14 \in Int /\ F <= F + 14 /\ F + 14 < E
      BY <2>1
    <3> QED BY <2>1, <3>1
  <2>5. MidDay(level, F + 14) = F + 14 /\ F + 14 \in Int
    BY <2>1, <2>3, <2>4
  <2> HIDE DEF F, E
  <2> QED BY <2>2, <2>5
<1>4. CASE level = "year"
  <2> DEFINE F == NewYear(YearOf(n))
  <2>1. MidDay(level, n) = F + 182 /\ F + 182 \in Int
    BY <1>4, InYear DEF MidDay
  <2>2. F <= F + 182 /\ F + 182 < NewYear(YearOf(n) + 1)
    BY InYear, SMT
  <2>3. YearOf(F + 182) = YearOf(n)
    BY <2>1, <2>2, InYear, YearIs
  <2>4. MidDay(level, F + 182) = NewYear(YearOf(F + 182)) + 182
    BY <1>4 DEF MidDay
  <2> HIDE DEF F
  <2>5. MidDay(level, F + 182) = F + 182
    BY <2>3, <2>4 DEF F
  <2> QED BY <2>1, <2>5
<1> QED BY <1>1, <1>2, <1>3, <1>4 DEF Periods

\* noon of a day
SummerNoon(n) == Spring(YearOf(n)) <= n /\ n < Autumn(YearOf(n))
Noon(n) == n * Day + 12 * Hour - IF SummerNoon(n) THEN 2 * Hour ELSE Hour

\* The clock on the forenoon of Greenwich, when it is not changed
LEMMA AroundNoon ==
  ASSUME NEW n \in Int, NEW t \in Int, n * Day + 9 * Hour <= t, t <= n * Day + 12 * Hour
  PROVE  /\ ClockDay(t) = n /\ IsSummer(t) = SummerNoon(n)
         /\ Clock(t) = t + (IF SummerNoon(n) THEN 2 * Hour ELSE Hour)
<1> DEFINE y == YearOf(n)
<1>1. (t + Hour) \div Day = n
  BY SMT DEF Hour, Day
<1>2. y \in Int /\ NewYear(y) <= n /\ n < NewYear(y + 1)
  BY InYear
<1>3. Spring(y) \in Int /\ Autumn(y) \in Int
  BY <1>2, ClockChanges
<1>4. IsSummer(t) = (Spring(y) * Day + Hour <= t /\ t < Autumn(y) * Day + Hour)
  BY <1>1, <1>2, SummerIs
<1>5. (Spring(y) * Day + Hour <= t /\ t < Autumn(y) * Day + Hour) <=> SummerNoon(n)
  <2> DEFINE S == Spring(y)
             A == Autumn(y)
  <2>1. SummerNoon(n) <=> S <= n /\ n < A
    BY DEF SummerNoon
  <2>2. S \in Int /\ A \in Int
    BY <1>3
  <2> HIDE DEF S, A, y
  <2>3. (S * Day + Hour <= t <=> S <= n) /\ (t < A * Day + Hour <=> n < A)
    BY <2>2, SMT DEF Day, Hour
  <2> QED BY <2>1, <2>3 DEF S, A, y
<1>6. IsSummer(t) = SummerNoon(n)
  BY <1>4, <1>5 DEF SummerNoon
<1>7. Clock(t) = t + (IF SummerNoon(n) THEN 2 * Hour ELSE Hour)
  BY <1>6 DEF Clock
<1>8. ClockDay(t) = n
  BY <1>7, SMT DEF ClockDay, Day, Hour
<1> QED BY <1>6, <1>7, <1>8

\* Noon of a day is on the day, at 12 by its clock.
LEMMA NoonIs ==
  ASSUME NEW n \in Int
  PROVE  /\ Noon(n) \in Int /\ ClockDay(Noon(n)) = n /\ Clock(Noon(n)) = n * Day + 12 * Hour
         /\ n * Day + 10 * Hour <= Noon(n) /\ Noon(n) <= n * Day + 11 * Hour
<1>1. /\ Noon(n) \in Int
      /\ n * Day + 10 * Hour <= Noon(n) /\ Noon(n) <= n * Day + 11 * Hour
  BY SMT DEF Noon, Day, Hour
<1>2. n * Day + 9 * Hour <= Noon(n) /\ Noon(n) <= n * Day + 12 * Hour
  BY <1>1, SMT DEF Day, Hour
<1>3. /\ ClockDay(Noon(n)) = n
      /\ Clock(Noon(n)) = Noon(n) + (IF SummerNoon(n) THEN 2 * Hour ELSE Hour)
  BY <1>1, <1>2, AroundNoon
<1>4. Clock(Noon(n)) = n * Day + 12 * Hour
  BY <1>3, SMT DEF Noon, Day, Hour
<1> QED BY <1>1, <1>3, <1>4

\* hours, minutes and seconds
LEMMA SecondsOfDay ==
  ASSUME NEW s \in Int, 0 <= s
  PROVE  /\ 60 * ((s % Hour) \div Minute) + (s % Minute) = s % Hour
         /\ s = Hour * (s \div Hour) + (s % Hour) /\ s \div Hour \in Int /\ s % Hour \in Int
         /\ (s % Hour) \div Minute \in Int /\ s % Minute \in Int
         /\ 0 <= s % Hour /\ s % Hour < Hour
  BY SMT DEF Hour, Minute

\* One round leads to noon of the middle day, but by the clock of the day it comes from.
LEMMA RoundIs ==
  ASSUME NEW level \in Periods, NEW t \in Int
  PROVE  Reduce(t, level) = MidDay(level, ClockDay(t)) * Day + 12 * Hour - (Clock(t) - t)
<1> DEFINE tm == localtime(t)
           n == ClockDay(t)
           s == Clock(t) % Day
           noon == t - 60 * tm.min - tm.sec - 3600 * (tm.hour - 12)
<1>1. /\ tm.mday = n - DayNumber(YearOf(n), MonthIn(n), 1) + 1
      /\ tm.hour = s \div Hour /\ tm.min = (s % Hour) \div Minute /\ tm.sec = s % Minute
      /\ tm.wday = WeekDay(n) /\ tm.yday = n - NewYear(YearOf(n))
  BY FieldsAre
<1>2. /\ Clock(t) \in Int /\ n \in Int /\ s \in Int /\ 0 <= s /\ Clock(t) = n * Day + s
  BY ClockIs
<1>3. Reduce(t, level) = CASE level = "day" -> noon
                           [] level = "week" -> noon - 86400 * (tm.wday - 3)
                           [] level = "month" -> noon - 86400 * (tm.mday - 15)
                           [] level = "year" -> noon - 86400 * (tm.yday - 182)
  BY DEF Reduce, Middle, Periods
<1>4. noon = t - s + 12 * Hour
  <2>1. /\ 60 * ((s % Hour) \div Minute) + (s % Minute) = s % Hour
        /\ s = Hour * (s \div Hour) + (s % Hour) /\ s \div Hour \in Int /\ s % Hour \in Int
        /\ (s % Hour) \div Minute \in Int /\ s % Minute \in Int
    BY <1>2, SecondsOfDay
  <2> DEFINE h == tm.hour
             m == tm.min
             c == tm.sec
             e == s % Hour
  <2>2. 60 * m + c = e /\ s = Hour * h + e /\ h \in Int /\ e \in Int /\ m \in Int
          /\ c \in Int
    BY <1>1, <2>1
  <2> HIDE DEF h, m, c, e, s
  <2>3. t - 60 * m - c - 3600 * (h - 12) = t - s + 12 * Hour
    BY <1>2, <2>2, SMT DEF Hour
  <2> QED BY <2>3 DEF h, m, c
<1> DEFINE k == Clock(t) - t
<1>5. noon = n * Day + 12 * Hour - k /\ k \in Int
  BY <1>2, <1>4, SMT DEF Day, Hour
<1> HIDE DEF k, s, noon
<1>6. CASE level = "day"
  BY <1>3, <1>5, <1>6 DEF MidDay, k
<1>7. CASE level = "week"
  <2>1. Reduce(t, level) = noon - 86400 * (WeekDay(n) - 3)
    BY <1>1, <1>3, <1>7
  <2>2. WeekDay(n) \in Int
    BY <1>2, WeekDayIs
  <2>3. MidDay(level, n) = n - WeekDay(n) + 3
    BY <1>7 DEF MidDay
  <2> HIDE DEF n
  <2> QED BY <1>2, <1>5, <2>1, <2>2, <2>3, SMT DEF k, n, Day, Hour
<1>8. CASE level = "month"
  <2> DEFINE F == DayNumber(YearOf(n), MonthIn(n), 1)
  <2>1. Reduce(t, level) = noon - 86400 * ((n - F + 1) - 15)
    <3>1. Reduce(t, level) = noon - 86400 * (tm.mday - 15)
      BY <1>3, <1>8
    <3>2. tm.mday = n - F + 1
      BY <1>1
    <3> HIDE DEF tm, n, F
    <3> QED BY <3>1, <3>2
  <2>2. F \in Int
    BY <1>2, DayInItsMonth
  <2>3. MidDay(level, n) = F + 14
    BY <1>8 DEF MidDay
  <2> HIDE DEF n, F
  <2>4. noon - 86400 * ((n - F + 1) - 15) = (F + 14) * Day + 12 * Hour - k
    BY <1>2, <1>5, <2>2, SMT DEF Day, Hour
  <2> QED BY <2>1, <2>3, <2>4 DEF k, n
<1>9. CASE level = "year"
  <2> DEFINE F == NewYear(YearOf(n))
  <2>1. Reduce(t, level) = noon - 86400 * (n - F - 182)
    BY <1>1, <1>3, <1>9
  <2>2. F \in Int
    BY <1>2, InYear
  <2>3. MidDay(level, n) = F + 182
    BY <1>9 DEF MidDay
  <2> HIDE DEF n, F
  <2>4. noon - 86400 * (n - F - 182) = (F + 182) * Day + 12 * Hour - k
    BY <1>2, <1>5, <2>2, SMT DEF Day, Hour
  <2> QED BY <2>1, <2>3, <2>4 DEF k, n
<1> QED BY <1>6, <1>7, <1>8, <1>9 DEF Periods

\* From a forenoon of the middle day, it leads to noon,
LEMMA RoundNearNoon ==
  ASSUME NEW level \in Periods, NEW m \in Int, MidDay(level, m) = m,
         NEW t \in Int, m * Day + 9 * Hour <= t, t <= m * Day + 12 * Hour
  PROVE  Reduce(t, level) = Noon(m)
<1>1. ClockDay(t) = m /\ Clock(t) = t + (IF SummerNoon(m) THEN 2 * Hour ELSE Hour)
  BY AroundNoon
<1>2. Clock(t) - t = (IF SummerNoon(m) THEN 2 * Hour ELSE Hour)
  BY <1>1, SMT DEF Hour
<1>3. Reduce(t, level) = m * Day + 12 * Hour - (Clock(t) - t)
  BY <1>1, RoundIs
<1> QED BY <1>2, <1>3 DEF Noon

\* so that two rounds lead there from any time, and a third changes nothing.
LEMMA TwoRounds ==
  ASSUME NEW level \in Periods, NEW t \in Int
  PROVE  LET m == MidDay(level, ClockDay(t))
         IN  /\ m \in Int /\ Reduce(t, level) \in Int
             /\ Reduce(Reduce(t, level), level) = Noon(m)
             /\ Reduce(Noon(m), level) = Noon(m)
<1> DEFINE m == MidDay(level, ClockDay(t))
<1>1. ClockDay(t) \in Int /\ Clock(t) \in Int
  BY ClockIs
<1>2. m \in Int /\ MidDay(level, m) = m
  BY <1>1, MidDayIs
<1>3. Clock(t) - t = Hour \/ Clock(t) - t = 2 * Hour
  BY SMT DEF Clock, Hour
<1>4. Reduce(t, level) = m * Day + 12 * Hour - (Clock(t) - t)
  BY RoundIs
<1> HIDE DEF m
<1>5. /\ Reduce(t, level) \in Int
      /\ m * Day + 9 * Hour <= Reduce(t, level) /\ Reduce(t, level) <= m * Day + 12 * Hour
  BY <1>1, <1>2, <1>3, <1>4, SMT DEF Day, Hour
<1>6. Reduce(Reduce(t, level), level) = Noon(m)
  BY <1>2, <1>5, RoundNearNoon
<1>7. /\ Noon(m) \in Int
      /\ m * Day + 10 * Hour <= Noon(m) /\ Noon(m) <= m * Day + 11 * Hour
  BY <1>2, NoonIs
<1>8. m * Day + 9 * Hour <= Noon(m) /\ Noon(m) <= m * Day + 12 * Hour
  BY <1>2, <1>7, SMT DEF Day, Hour
<1>9. Reduce(Noon(m), level) = Noon(m)
  BY <1>2, <1>7, <1>8, RoundNearNoon
<1> QED BY <1>2, <1>5, <1>6, <1>9 DEF m

\* The rounds come to an end after two, at noon of the day in the middle.
LEMMA Normalized ==
  ASSUME NEW level \in Periods, NEW t \in Int
  PROVE  normalize(level, t) = Noon(MidDay(level, ClockDay(t)))
<1> DEFINE R(u) == Reduce(u, level)
           P(f) == f = [wt \in Int |-> IF R(wt) = wt THEN wt ELSE f[R(wt)]]
           g == [wt \in Int |-> R(R(wt))]
<1>1. \A u \in Int : R(u) \in Int /\ R(R(R(u))) = R(R(u))
  BY TwoRounds
<1>2. normalize(level, t) = (CHOOSE f : P(f))[t]
  BY DEF normalize
<1>3. R(R(t)) = Noon(MidDay(level, ClockDay(t)))
  BY TwoRounds
<1> HIDE DEF R
<1>4. P(g)
  <2>1. \A u \in Int : R(R(u)) = IF R(u) = u THEN u ELSE g[R(u)]
    BY <1>1
  <2> QED BY <2>1
<1> DEFINE r == CHOOSE f : P(f)
<1>5. P(r)
  BY <1>4
<1> HIDE DEF r
<1>6. \A u \in Int : r[u] = IF R(u) = u THEN u ELSE r[R(u)]
  BY <1>5
<1>7. r[t] = R(R(t))
  BY <1>1, <1>6
<1> QED BY <1>2, <1>3, <1>7 DEF r

-----------------------------------------------------------------------------
(* Labels                                                                  *)

\* the label of the period that has its middle on a day
LabelOf(level, n) == Written(level, localtime(Noon(n)))

\* Labels are those of the middle of a period.
LEMMA TimelabelIs ==
  ASSUME NEW level \in Periods, NEW t \in Int
  PROVE  /\ Timelabel(t, level) = [level |-> level,
            midtime |-> Noon(MidDay(level, ClockDay(t)))]
         /\ getString(Timelabel(t, level)) = LabelOf(level, MidDay(level, ClockDay(t)))
  BY Normalized DEF Timelabel, getString, LabelOf

\* The week that begins on June 28 or 29 and is number 27
OddWeek(n) == MonthIn(n) < 6 /\ n >= NewYear(YearOf(n)) + 181



\* From August on, the days are in the second half of the year.
LEMMA LateMonths ==
  ASSUME NEW m \in 0..11, m > 6
  PROVE  FirstOfMonth(m) \in Int /\ FirstOfMonth(m) >= 212
<1>1. m = 7 \/ m = 8 \/ m = 9 \/ m = 10 \/ m = 11
  OBVIOUS
<1>2. /\ FirstOfMonth(7) = 212 /\ FirstOfMonth(8) = 243 /\ FirstOfMonth(9) = 273
      /\ FirstOfMonth(10) = 304 /\ FirstOfMonth(11) = 334
  BY SMT DEF FirstOfMonth
<1> QED BY <1>1, <1>2, SMT

\* The week of a Wednesday, counted in the year of its Thursday
LEMMA WeekIs ==
  ASSUME NEW t \in Int, WeekDay(ClockDay(t)) = 3
  PROVE  LET n == ClockDay(t)
         IN  WeekOf(localtime(t)) = (n + 1 - NewYear(YearOf(n + 1))) \div 7 + 1
<1> DEFINE tm == localtime(t)
           n == ClockDay(t)
           y == YearOf(n)
           N == NewYear(y)
           M == NewYear(y + 1)
<1>1. tm.year = y /\ tm.yday = n - N /\ tm.wday = 3
  BY FieldsAre
<1>2. n \in Int /\ y \in Int /\ N \in Int /\ M \in Int /\ N <= n /\ n < M
      /\ (M = N + 365 \/ M = N + 366)
  BY ClockIs, InYear
<1>3. WeekOf(tm) = IF n - N + 1 < 0
        THEN (n - N + 1 + NewYear(y - 1 + 1) - NewYear(y - 1)) \div 7 + 1
                   ELSE IF n - N + 1 >= M - N THEN 1
                   ELSE (n - N + 1) \div 7 + 1
  <2>1. tm.yday + 3 - ((tm.wday + 6) % 7) = n - N + 1
    <3>1. (3 + 6) % 7 = 2
      BY SMT
    <3> HIDE DEF n, N, tm
    <3> QED BY <1>1, <1>2, <3>1
  <2> DEFINE d == n - N + 1
             th == tm.yday + 3 - ((tm.wday + 6) % 7)
  <2>2. WeekOf(tm) = IF th < 0
          THEN (th + (NewYear(tm.year - 1 + 1) - NewYear(tm.year - 1))) \div 7 + 1
                     ELSE IF th >= NewYear(tm.year + 1) - NewYear(tm.year) THEN 1
                     ELSE th \div 7 + 1
    BY DEF WeekOf, NewYear
  <2>3. ~(d < 0) /\ th = d
    BY <1>2, <2>1
  <2> HIDE DEF d, th, tm, N, y, n
  <2>4. WeekOf(tm) = IF d >= NewYear(y + 1) - NewYear(y) THEN 1 ELSE d \div 7 + 1
    BY <1>1, <2>2, <2>3
  <2>5. ~(d < 0) /\ (d >= M - N <=> d >= NewYear(y + 1) - NewYear(y))
    BY <2>3 DEF N
  <2> QED BY <2>4, <2>5 DEF d, N
<1>4. ~(n - N + 1 < 0)
  BY <1>2
<1>5. CASE n + 1 < M
  <2>1. YearOf(n + 1) = y
    <3>1. n + 1 \in Int /\ NewYear(y) <= n + 1 /\ n + 1 < NewYear(y + 1)
      BY <1>2, <1>5
    <3> QED BY <1>2, <3>1, YearIs
  <2>2. ~(n - N + 1 >= M - N) /\ n - N + 1 = n + 1 - N
    BY <1>2, <1>5
  <2> HIDE DEF n, N, M, tm
  <2>3. WeekOf(tm) = (n + 1 - N) \div 7 + 1
    BY <1>3, <1>4, <2>2
  <2> QED BY <2>1, <2>3 DEF n, N, tm
<1>6. CASE n + 1 = M
  <2>1. YearOf(n + 1) = y + 1
    <3>1. n + 1 \in Int /\ y + 1 \in Int
      BY <1>2
    <3>2. NewYear(y + 1) < NewYear((y + 1) + 1)
      BY <3>1, YearLength, SMT
    <3>3. NewYear(y + 1) <= n + 1 /\ n + 1 < NewYear((y + 1) + 1)
      BY <3>1, <3>2, <1>6, <1>2
    <3> QED BY <3>1, <3>3, YearIs
  <2>2. n - N + 1 >= M - N /\ n + 1 - M = 0
    BY <1>2, <1>6
  <2> HIDE DEF n, N, M, tm
  <2>3. WeekOf(tm) = 1
    BY <1>3, <1>4, <2>2
  <2>4. (n + 1 - M) \div 7 + 1 = 1
    BY <2>2, SMT
  <2> QED BY <2>1, <2>3, <2>4 DEF n, M, tm
<1>7. n + 1 < M \/ n + 1 = M
  BY <1>2
<1> QED BY <1>5, <1>6, <1>7

\* The year that a week is written with is that of its Thursday, but for the odd week.
LEMMA StringYearIs ==
  ASSUME NEW t \in Int, WeekDay(ClockDay(t)) = 3
  PROVE  LET n == ClockDay(t)
         IN  StringYear(localtime(t)) = IF OddWeek(n) THEN YearOf(n) - 1 ELSE YearOf(n + 1)
<1> DEFINE tm == localtime(t)
           n == ClockDay(t)
           y == YearOf(n)
           m == MonthIn(n)
           N == NewYear(y)
           M == NewYear(y + 1)
           W == WeekOf(tm)
<1>1. tm.year = y /\ tm.mon = m
  BY FieldsAre
<1>2. n \in Int /\ y \in Int /\ N \in Int /\ M \in Int /\ N <= n /\ n < M
      /\ (M = N + 365 \/ M = N + 366)
  BY ClockIs, InYear
<1>3. W = (n + 1 - NewYear(YearOf(n + 1))) \div 7 + 1
  BY WeekIs
<1>4. StringYear(tm) = IF m < 6 /\ W > 26 THEN y - 1 ELSE IF m > 6 /\ W < 26 THEN y + 1
        ELSE y
  BY <1>1 DEF StringYear
<1>5. m \in 0..11 /\ (m < 6 => n < N + 182) /\ (m > 6 => n >= N + 212)
  <2> DEFINE F == DayNumber(y, m, 1)
             E == NextMonth(y, m)
  <2>1. m \in 0..11 /\ F \in Int /\ E \in Int /\ F <= n /\ n < E
    BY <1>2, DayInItsMonth
  <2>2. F = N + FirstOfMonth(m) + (IF m < 2 THEN 0 ELSE Leap(y)) /\ Leap(y) \in {0, 1}
    BY <2>1, <1>2, DayIs, SMT DEF FirstOfMonth
  <2>3. m > 6 => FirstOfMonth(m) \in Int /\ FirstOfMonth(m) >= 212
    BY <2>1, LateMonths
  <2>4. m < 6 => E <= DayNumber(y, 6, 1)
    BY <1>2, <2>1, MonthsInOrder
  <2>5. DayNumber(y, 6, 1) = N + 181 + Leap(y)
    BY <1>2, <2>2, DayIs, SMT DEF FirstOfMonth
  <2> HIDE DEF F, E, N, n, y, m
  <2> QED BY <1>2, <2>1, <2>2, <2>3, <2>4, <2>5
<1>6. CASE n + 1 < M
  <2>1. YearOf(n + 1) = y
    <3>1. n + 1 \in Int /\ NewYear(y) <= n + 1 /\ n + 1 < NewYear(y + 1)
      BY <1>2, <1>6
    <3> QED BY <1>2, <3>1, YearIs
  <2>2. W = (n + 1 - N) \div 7 + 1
    BY <1>3, <2>1
  <2>3. W > 26 <=> n >= N + 181
    <3> HIDE DEF n, N, W
    <3> QED BY <1>2, <2>2, SMT
  <2>4. m > 6 => ~(W < 26)
    <3> HIDE DEF n, N, W, m
    <3> QED BY <1>2, <1>5, <2>2, SMT
  <2>5. OddWeek(n) <=> m < 6 /\ W > 26
    BY <2>3 DEF OddWeek
  <2> HIDE DEF n, W, m, y, tm
  <2>6. StringYear(tm) = IF OddWeek(n) THEN y - 1 ELSE y
    BY <1>4, <2>4, <2>5
  <2> QED BY <2>1, <2>6 DEF n, y, tm
<1>7. CASE n + 1 = M
  <2>1. YearOf(n + 1) = y + 1
    <3>1. n + 1 \in Int /\ y + 1 \in Int
      BY <1>2
    <3>2. NewYear(y + 1) < NewYear((y + 1) + 1)
      BY <3>1, YearLength, SMT
    <3>3. NewYear(y + 1) <= n + 1 /\ n + 1 < NewYear((y + 1) + 1)
      BY <3>1, <3>2, <1>7, <1>2
    <3> QED BY <3>1, <3>3, YearIs
  <2>2. W = 1
    <3>1. W = (n + 1 - M) \div 7 + 1
      BY <1>3, <2>1
    <3>2. n + 1 - M = 0
      BY <1>2, <1>7
    <3> HIDE DEF n, M, W
    <3> QED BY <3>1, <3>2, SMT
  <2>3. ~(m < 6)
    <3> HIDE DEF n, N, M, m
    <3> QED BY <1>2, <1>5, <1>7
  <2>4. m > 6
    <3>1. DayNumber(y, 7, 1) = N + 212 + Leap(y) /\ Leap(y) \in {0, 1}
      BY <1>2, DayIs, SMT DEF FirstOfMonth
    <3>2. NextMonth(y, 6) = DayNumber(y, 7, 1)
      BY DEF NextMonth
    <3>3. m = 6 => n < NextMonth(y, 6)
      BY <1>2, DayInItsMonth
    <3> HIDE DEF n, N, M, m, y
    <3> QED BY <1>2, <1>5, <1>7, <2>3, <3>1, <3>2, <3>3
  <2>5. ~OddWeek(n)
    BY <2>3 DEF OddWeek
  <2> HIDE DEF n, W, m, y, tm
  <2>6. StringYear(tm) = y + 1
    BY <1>4, <2>2, <2>3, <2>4
  <2> QED BY <2>1, <2>5, <2>6 DEF n, y, tm
<1>8. n + 1 < M \/ n + 1 = M
  BY <1>2
<1> QED BY <1>6, <1>7, <1>8

\* Weeks that are counted in the same year are as far apart as their numbers.
LEMMA WeeksApart ==
  ASSUME NEW n \in Int, NEW f \in Int, NEW N \in Int, WeekDay(n) = 3, WeekDay(f) = 3
  PROVE  f + 7 * (((n + 1 - N) \div 7 + 1) - ((f + 1 - N) \div 7 + 1)) = n
<1>1. n = 7 * ((n + 4) \div 7) - 1 /\ (n + 4) \div 7 \in Int
  BY SMT DEF WeekDay
<1>2. f = 7 * ((f + 4) \div 7) - 1 /\ (f + 4) \div 7 \in Int
  BY SMT DEF WeekDay
<1> DEFINE a == (n + 4) \div 7
           b == (f + 4) \div 7
           c == (0 - N) \div 7
<1> HIDE DEF a, b
<1>3. a \in Int /\ b \in Int /\ n = 7 * a - 1 /\ f = 7 * b - 1
  BY <1>1, <1>2 DEF a, b
<1>4. (n + 1 - N) \div 7 = a + c /\ (f + 1 - N) \div 7 = b + c /\ c \in Int
  BY <1>3, SMT
<1> HIDE DEF c
<1> QED BY <1>3, <1>4, SMT

\* noon by winter time, whatever the season
LEMMA MktimeIs ==
  ASSUME NEW y \in Int, NEW m \in 0..11, NEW d \in Int
  PROVE  LET tm == [year |-> y, mon |-> m, mday |-> d, hour |-> 12, min |-> 0, sec |-> 0,
                    isdst |-> FALSE]
         IN  mktime(tm) = DayNumber(y, m, d) * Day + 11 * Hour
<1>1. DayNumber(y, m, d) \in Int
  BY DayIs, MonthLength, SMT DEF DayNumber
<1> QED BY <1>1, SMT DEF mktime, Day, Hour, Minute

\* 11 in the morning of Greenwich is around noon
LEMMA ElevenIs ==
  ASSUME NEW n \in Int
  PROVE  /\ n * Day + 11 * Hour \in Int /\ ClockDay(n * Day + 11 * Hour) = n
<1>1. /\ n * Day + 11 * Hour \in Int
      /\ n * Day + 9 * Hour <= n * Day + 11 * Hour
      /\ n * Day + 11 * Hour <= n * Day + 12 * Hour
  BY SMT DEF Day, Hour
<1> QED BY <1>1, AroundNoon

\* The Wednesday near the beginning of a year is after its first three days.
LEMMA FirstWednesdayIs ==
  ASSUME NEW y \in Int
  PROVE  \E f \in Int : /\ FirstWednesday(y) = f * Day + 11 * Hour /\ WeekDay(f) = 3
                        /\ NewYear(y) + 4 <= f /\ f <= NewYear(y) + 10
<1> DEFINE N == NewYear(y)
           jan1 == N * Day + 11 * Hour
           d == WeekDay(N)
           f == N + 10 - d
<1>1. N \in Int
  BY YearLength
<1>2. FirstWednesday(y) = Wednesday(jan1)
  <2>1. 0 \in 0..11 /\ 1 \in Int
    OBVIOUS
  <2>2. mktime([year |-> y, mon |-> 0, mday |-> 1, hour |-> 12, min |-> 0, sec |-> 0,
                isdst |-> FALSE]) = DayNumber(y, 0, 1) * Day + 11 * Hour
    BY <2>1, MktimeIs
  <2> QED BY <2>2 DEF FirstWednesday, NewYear
<1>3. jan1 \in Int /\ ClockDay(jan1) = N
  BY <1>1, ElevenIs
<1>4. localtime(jan1).wday = d
  BY <1>3, FieldsAre
<1>5. d \in 0..6
  BY <1>1, WeekDayIs
<1>6. WeekDay(f) = 3
  <2>1. WeekDay(N - d + 3) = 3
    BY <1>1, WeekDayIs
  <2>2. (N - d + 3 + 4) % 7 = 3
    BY <2>1 DEF WeekDay
  <2> HIDE DEF N, d
  <2>3. (N + 10 - d + 4) % 7 = 3
    BY <1>1, <1>5, <2>2, SMT
  <2> QED BY <2>3 DEF WeekDay
<1>7. Wednesday(jan1) = f * Day + 11 * Hour
  <2>1. Wednesday(jan1) = jan1 + 86400 * (10 - d)
    BY <1>4 DEF Wednesday
  <2> HIDE DEF N, d
  <2> QED BY <1>1, <1>5, <2>1, SMT DEF Day, Hour
<1>8. f \in Int /\ N + 4 <= f /\ f <= N + 10
  <2> HIDE DEF N, d
  <2> QED BY <1>1, <1>5
<1> QED BY <1>2, <1>6, <1>7, <1>8

\* The time in the middle of a week of a year
LEMMA WeekToTime ==
  ASSUME NEW n \in Int, WeekDay(n) = 3
  PROVE  LET y == YearOf(n + 1)
         IN  week2time(y, (n + 1 - NewYear(y)) \div 7 + 1) = n * Day + 11 * Hour
<1> DEFINE y == YearOf(n + 1)
           N == NewYear(y)
           week == (n + 1 - N) \div 7 + 1
<1>1. y \in Int /\ N \in Int
  <2>1. n + 1 \in Int
    OBVIOUS
  <2> QED BY <2>1, InYear
<1> HIDE DEF y
<1>2. PICK f \in Int : /\ FirstWednesday(y) = f * Day + 11 * Hour /\ WeekDay(f) = 3
                       /\ N + 4 <= f /\ f <= N + 10
  BY <1>1, FirstWednesdayIs
<1> DEFINE t == f * Day + 11 * Hour
           V == (f + 1 - N) \div 7 + 1
<1>3. t \in Int /\ ClockDay(t) = f
  BY ElevenIs
<1>4. YearOf(f + 1) = y
  <2>1. f + 1 \in Int /\ NewYear(y) <= f + 1 /\ f + 1 < NewYear(y + 1)
    BY <1>1, <1>2, YearLength, SMT
  <2> QED BY <1>1, <2>1, YearIs
<1>5. WeekOf(localtime(t)) = V
  BY <1>2, <1>3, <1>4, WeekIs
<1>6. week2time(y, week) = t + (week - V) * 86400 * 7
  BY <1>2, <1>5 DEF week2time, WeeksFrom
<1>7. f + 7 * (week - V) = n
  BY <1>1, <1>2, WeeksApart
<1>8. week \in Int /\ V \in Int
  <2> HIDE DEF N
  <2> QED BY <1>1, SMT
<1>9. t + (week - V) * 86400 * 7 = n * Day + 11 * Hour
  <2> HIDE DEF week, V
  <2> QED BY <1>7, <1>8, SMT DEF Day, Hour
<1> QED BY <1>6, <1>9 DEF y

\* What a label of the middle of a period stands for when it is read.
LEMMA ParseIs ==
  ASSUME NEW level \in Periods, NEW n \in Int, MidDay(level, n) = n,
         level = "week" => ~OddWeek(n)
  PROVE  parse(LabelOf(level, n)) = [level |-> level, midtime |-> Noon(n)]
<1> DEFINE tm == localtime(Noon(n))
           s == LabelOf(level, n)
           y == YearOf(n)
           m == MonthIn(n)
           F == DayNumber(y, m, 1)
<1>1. Noon(n) \in Int /\ ClockDay(Noon(n)) = n
  BY NoonIs
<1>2. tm.year = y /\ tm.mon = m /\ tm.mday = n - F + 1
  BY <1>1, FieldsAre
<1>3. s.level = level
  BY DEF LabelOf, Written
<1>4. \A k \in Int : MidDay(level, k) = n =>
        Timelabel(k * Day + 11 * Hour, level) = [level |-> level, midtime |-> Noon(n)]
  BY ElevenIs, TimelabelIs
<1>5. y \in Int /\ m \in 0..11 /\ F \in Int
  BY DayInItsMonth
<1>6. CASE level = "week"
  <2>1. WeekDay(n) = 3
    BY <1>6, WeekDayIs, SMT DEF MidDay
  <2>2. s.year = StringYear(tm) /\ s.week = WeekOf(tm)
    BY <1>6 DEF LabelOf, Written
  <2>3. /\ StringYear(tm) = YearOf(n + 1)
        /\ WeekOf(tm) = (n + 1 - NewYear(YearOf(n + 1))) \div 7 + 1
    BY <1>1, <1>6, <2>1, WeekIs, StringYearIs
  <2>4. week2time(s.year, s.week) = n * Day + 11 * Hour
    BY <2>1, <2>2, <2>3, WeekToTime
  <2>5. parse(s) = Timelabel(week2time(s.year, s.week), level)
    BY <1>3, <1>6 DEF parse
  <2> QED BY <1>4, <2>4, <2>5
<1>7. CASE level = "day"
  <2>1. s.year = y /\ s.mon = m /\ s.mday = n - F + 1
    BY <1>2, <1>7 DEF LabelOf, Written
  <2>2. parse(s) = Timelabel(mktime([year |-> y, mon |-> m, mday |-> n - F + 1, hour |-> 12,
                                     min |-> 0, sec |-> 0, isdst |-> FALSE]), level)
    BY <1>3, <1>7, <2>1 DEF parse, mktime
  <2>3. DayNumber(y, m, n - F + 1) = n
    BY <1>5, SMT DEF DayNumber
  <2>4. n - F + 1 \in Int
    BY <1>5
  <2> QED BY <1>4, <1>5, <2>2, <2>3, <2>4, MktimeIs
<1>8. CASE level = "month"
  <2>1. s.year = y /\ s.mon = m
    BY <1>2, <1>8 DEF LabelOf, Written
  <2>2. parse(s) = Timelabel(mktime([year |-> y, mon |-> m, mday |-> 14, hour |-> 12,
                                     min |-> 0, sec |-> 0, isdst |-> FALSE]), level)
    BY <1>3, <1>8, <2>1 DEF parse, mktime
  <2>3. DayNumber(y, m, 14) = F + 13
    BY <1>5, SMT DEF DayNumber
  <2>4. MidDay(level, F + 13) = n
    <3>1. n = F + 14
      BY <1>8 DEF MidDay
    <3>2. F + 13 \in Int /\ F <= F + 13 /\ F + 13 < NextMonth(y, m)
      <4> DEFINE E == NextMonth(y, m)
      <4>1. F \in Int /\ E \in Int /\ E - F \in 28..31
        BY DayInItsMonth
      <4> HIDE DEF F, E
      <4>2. F + 13 \in Int /\ F <= F + 13 /\ F + 13 < E
        BY <4>1
      <4> QED BY <4>2 DEF E
    <3>3. YearOf(F + 13) = y /\ MonthIn(F + 13) = m
      BY <3>2, DayInItsMonth
    <3> QED BY <1>8, <3>1, <3>3 DEF MidDay
  <2>5. F + 13 \in Int /\ 14 \in Int
    BY <1>5
  <2> QED BY <1>4, <1>5, <2>2, <2>3, <2>4, <2>5, MktimeIs
<1>9. CASE level = "year"
  <2>1. s.year = y
    BY <1>2, <1>9 DEF LabelOf, Written
  <2>2. parse(s) = Timelabel(mktime([year |-> y, mon |-> 0, mday |-> 14, hour |-> 12,
                                     min |-> 0, sec |-> 0, isdst |-> FALSE]), level)
    BY <1>3, <1>9, <2>1 DEF parse, mktime
  <2>3. DayNumber(y, 0, 14) = NewYear(y) + 13
    BY <1>5, SMT DEF DayNumber, NewYear
  <2>4. MidDay(level, NewYear(y) + 13) = n
    <3>1. n = NewYear(y) + 182
      BY <1>9 DEF MidDay
    <3>2. NewYear(y) + 13 \in Int /\ NewYear(y) <= NewYear(y) + 13
            /\ NewYear(y) + 13 < NewYear(y + 1)
      BY InYear, SMT
    <3>3. YearOf(NewYear(y) + 13) = y
      BY <1>5, <3>2, YearIs
    <3> QED BY <1>9, <3>1, <3>3 DEF MidDay
  <2>5. NewYear(y) + 13 \in Int /\ 14 \in Int /\ 0 \in 0..11
    BY InYear
  <2> QED BY <1>4, <1>5, <2>2, <2>3, <2>4, <2>5, MktimeIs
<1> QED BY <1>6, <1>7, <1>8, <1>9 DEF Periods

\* the levels of labels, their intervals and mean lengths
LEMMA LevelsAre ==
  /\ Levels[1] = "hour" /\ Levels[2] = "day" /\ Levels[3] = "week" /\ Levels[4] = "month"
  /\ Levels[5] = "year"
  BY DEF Levels

\* their place in the list, which back, forward, up and down count with,
LEMMA RankIs ==
  Rank("day") = 2 /\ Rank("week") = 3 /\ Rank("month") = 4 /\ Rank("year") = 5
<1>1. \A i \in 1..5 : i = 1 \/ i = 2 \/ i = 3 \/ i = 4 \/ i = 5
  OBVIOUS
<1>2. 2 \in 1..5 /\ 3 \in 1..5 /\ 4 \in 1..5 /\ 5 \in 1..5
  OBVIOUS
<1>3. Rank("day") = 2
  BY <1>1, <1>2, LevelsAre DEF Rank
<1>4. Rank("week") = 3
  BY <1>1, <1>2, LevelsAre DEF Rank
<1>5. Rank("month") = 4
  BY <1>1, <1>2, LevelsAre DEF Rank
<1>6. Rank("year") = 5
  BY <1>1, <1>2, LevelsAre DEF Rank
<1> QED BY <1>3, <1>4, <1>5, <1>6

\* the seconds of a pixel,
LEMMA IntervalIs ==
  /\ Interval("day") = 300 /\ Interval("week") = 1800 /\ Interval("month") = 7200
  /\ Interval("year") = Day
  BY RankIs, SMT DEF Interval, Day

\* the mean length, by which back and forward go,
LEMMA DurationIs ==
  /\ Duration("day") = Day /\ Duration("week") = 7 * Day
  /\ Duration("month") = 30 * Day + 37743 /\ Duration("year") = 365 * Day + 20926
  BY RankIs, SMT DEF Duration, Day

\* the level of the areas,
LEMMA DownLevelIs ==
  /\ DownLevel("week") = "day" /\ DownLevel("month") = "week" /\ DownLevel("year") = "month"
  BY RankIs, LevelsAre, SMT DEF DownLevel

\* and the level that a label is read as.
LEMMA LevelOfIs ==
  ASSUME NEW level \in Periods
  PROVE  LevelOf(Interval(level)) = level
<1>1. Interval("hour") = 60
  <2>1. Rank("hour") = 1
    <3>1. \A i \in 1..5 : i = 1 \/ i = 2 \/ i = 3 \/ i = 4 \/ i = 5
      OBVIOUS
    <3>2. 1 \in 1..5
      OBVIOUS
    <3> QED BY <3>1, <3>2, LevelsAre DEF Rank
  <2> QED BY <2>1 DEF Interval
<1> DEFINE L == {"hour", "day", "week", "month", "year"}
<1>2. \A a \in L : Interval(a) = Interval(level) => a = level
  BY <1>1, IntervalIs, SMT DEF Periods, Day
<1>3. level \in L
  BY DEF Periods
<1> QED BY <1>2, <1>3 DEF LevelOf

\* The year before a leap year is none.
LEMMA LeapsApart ==
  ASSUME NEW y \in Int, Leap(y) = 1
  PROVE  Leap(y - 1) = 0
<1> DEFINE x == y - 1
           z == y - 2
           A(k) == k \div 4 - k \div 100 + k \div 400
<1>1. x + 1 = y /\ z + 1 = x /\ y \in Int /\ x \in Int /\ z \in Int
  OBVIOUS
<1>2. \A k \in Int : NewYear(k + 1) = 365 * k + A(k) - 719162
  <2> SUFFICES ASSUME NEW k \in Int PROVE NewYear(k + 1) = 365 * k + A(k) - 719162
    OBVIOUS
  <2> QED BY NewYearAfter, SMT
<1>3. A(y) - A(x) = 1 => A(x) - A(z) = 0
  <2>1. y % 4 # 0 => A(y) = A(x)
    <3>1. y % 4 # 0 => y % 100 # 0 /\ y % 400 # 0
      BY SMT
    <3>2. y % 4 # 0 => y \div 4 = x \div 4
      BY SMT
    <3>3. y % 100 # 0 => y \div 100 = x \div 100
      BY SMT
    <3>4. y % 400 # 0 => y \div 400 = x \div 400
      BY SMT
    <3> QED BY <3>1, <3>2, <3>3, <3>4
  <2>2. y % 4 = 0 => A(x) = A(z)
    <3>1. y % 4 = 0 => x \div 4 = z \div 4 /\ x \div 100 = z \div 100
            /\ x \div 400 = z \div 400
      BY SMT
    <3> QED BY <3>1
  <2>3. A(x) \in Int /\ A(y) \in Int /\ A(z) \in Int
    BY SMT
  <2> HIDE DEF A
  <2> QED BY <2>1, <2>2, <2>3
<1>4. A(x) \in Int /\ A(y) \in Int /\ A(z) \in Int
  BY SMT
<1> HIDE DEF A, x, z
<1>5. NewYear(y + 1) = 365 * y + A(y) - 719162
  BY <1>1, <1>2, SMT
<1>6. NewYear(y) = 365 * x + A(x) - 719162
  BY <1>1, <1>2, SMT
<1>7. NewYear(x) = 365 * z + A(z) - 719162
  BY <1>1, <1>2, SMT
<1>8. Leap(y) = A(y) - A(x)
  BY <1>5, <1>6, <1>1, <1>4, SMT DEF Leap
<1>9. Leap(x) = A(x) - A(z)
  BY <1>6, <1>7, <1>1, <1>4, SMT DEF Leap
<1> QED BY <1>3, <1>4, <1>8, <1>9 DEF x

\* The odd week gets the label of the week that begins 52 weeks earlier.
LEMMA OddIs ==
  ASSUME NEW n \in Int, WeekDay(n) = 3, OddWeek(n)
  PROVE  /\ LabelOf("week", n) = LabelOf("week", n - 364)
         /\ ~OddWeek(n - 364) /\ WeekDay(n - 364) = 3
<1> DEFINE y == YearOf(n)
           N == NewYear(y)
           x == y - 1
           X == NewYear(x)
           k == n - 364
<1>1. y \in Int /\ x \in Int /\ x + 1 = y /\ N \in Int /\ NewYear(y + 1) \in Int
        /\ X \in Int
  BY InYear, YearLength, SMT
<1>2. Leap(y) \in {0, 1} /\ n >= N + 181 /\ n < N + 181 + Leap(y)
  <2>1. MonthIn(n) < 6 /\ n >= N + 181
    BY DEF OddWeek
  <2>2. MonthIn(n) \in 0..11 /\ n < NextMonth(y, MonthIn(n))
    BY DayInItsMonth
  <2>3. NextMonth(y, MonthIn(n)) <= DayNumber(y, 6, 1)
    BY <1>1, <2>1, <2>2, MonthsInOrder
  <2>4. DayNumber(y, 6, 1) = N + 181 + Leap(y) /\ Leap(y) \in {0, 1}
    BY <1>1, DayIs, SMT DEF FirstOfMonth
  <2>5. NextMonth(y, MonthIn(n)) \in Int
    BY <1>1, <2>2, MonthLength
  <2> HIDE DEF y, N
  <2> QED BY <1>1, <2>1, <2>2, <2>3, <2>4, <2>5
<1>3. n = N + 181 /\ Leap(y) = 1
  <2> HIDE DEF y, N
  <2> QED BY <1>1, <1>2
<1>4. Leap(x) = 0 /\ N = X + 365
  <2>1. Leap(x) = 0
    BY <1>1, <1>3, LeapsApart
  <2>2. NewYear(x + 1) = X + 365
    BY <1>1, <2>1, YearLength, SMT DEF Leap
  <2> QED BY <1>1, <2>1, <2>2
<1>5. k \in Int /\ k = X + 182 /\ k + 1 = X + 183
  <2> HIDE DEF N, X
  <2> QED BY <1>1, <1>3, <1>4
<1>6. YearOf(k) = x /\ YearOf(k + 1) = x
  <2>1. /\ X <= k /\ k < NewYear(x + 1) /\ X <= k + 1 /\ k + 1 < NewYear(x + 1)
        /\ k \in Int /\ k + 1 \in Int
    <3>1. NewYear(x + 1) = X + 365
      BY <1>1, <1>4
    <3> HIDE DEF X, x, k
    <3> QED BY <1>1, <1>5, <3>1
  <2> QED BY <1>1, <2>1, YearIs
<1>7. YearOf(n + 1) = y
  <2>1. N <= n + 1 /\ n + 1 < NewYear(y + 1) /\ n + 1 \in Int
    <3>1. NewYear(y + 1) = N + 366
      BY <1>1, <1>3, YearLength, SMT DEF Leap
    <3> HIDE DEF N, y
    <3> QED BY <1>1, <1>3, <3>1
  <2> QED BY <1>1, <2>1, YearIs
<1>8. WeekDay(k) = 3
  BY SMT DEF WeekDay
<1>9. ~OddWeek(k)
  <2>1. DayNumber(x, 6, 1) = X + 181
    BY <1>1, <1>4, DayIs, SMT DEF FirstOfMonth
  <2>2. MonthIn(k) \in 0..11 /\ k < NextMonth(x, MonthIn(k))
    BY <1>5, <1>6, DayInItsMonth
  <2>3. MonthIn(k) < 6 => NextMonth(x, MonthIn(k)) <= DayNumber(x, 6, 1)
    BY <1>1, <2>2, MonthsInOrder
  <2>4. NextMonth(x, MonthIn(k)) \in Int
    BY <1>1, <2>2, MonthLength
  <2> HIDE DEF X, x, k
  <2>5. ~(MonthIn(k) < 6)
    BY <1>1, <1>5, <2>1, <2>2, <2>3, <2>4
  <2> QED BY <2>5 DEF OddWeek
<1>10. \A i \in {n, k} : Noon(i) \in Int /\ ClockDay(Noon(i)) = i /\ WeekDay(i) = 3
  BY <1>5, <1>8, NoonIs
<1>11. \A i \in {n, k} : LabelOf("week", i) =
         [level |-> "week", year |-> StringYear(localtime(Noon(i))),
          week |-> WeekOf(localtime(Noon(i))), mon |-> 0, mday |-> 0, hour |-> 0]
  BY DEF LabelOf, Written
<1>12. WeekOf(localtime(Noon(n))) = 27 /\ WeekOf(localtime(Noon(k))) = 27
  <2>1. WeekOf(localtime(Noon(n))) = (n + 1 - N) \div 7 + 1
    BY <1>7, <1>10, WeekIs
  <2>2. WeekOf(localtime(Noon(k))) = (k + 1 - X) \div 7 + 1
    BY <1>6, <1>10, WeekIs
  <2>3. n + 1 - N = 182 /\ k + 1 - X = 183
    <3> HIDE DEF N, X, k
    <3> QED BY <1>1, <1>3, <1>5
  <2> HIDE DEF N, X, k
  <2>4. (n + 1 - N) \div 7 + 1 = 27 /\ (k + 1 - X) \div 7 + 1 = 27
    BY <2>3, SMT
  <2> QED BY <2>1, <2>2, <2>4
<1>13. StringYear(localtime(Noon(n))) = x /\ StringYear(localtime(Noon(k))) = x
  BY <1>6, <1>9, <1>10, StringYearIs
<1> QED BY <1>8, <1>9, <1>11, <1>12, <1>13

\* A label of a period, and the day in its middle
LabelAt(s, level, n) ==
  /\ level \in Periods /\ n \in Int /\ MidDay(level, n) = n
       /\ (level = "week" => ~OddWeek(n))
  /\ s = LabelOf(level, n)
IsLabel(s) == \E level \in Periods, n \in Int : LabelAt(s, level, n)

\* Every Timelabel is written as the label of a period, also that of the odd week.
LEMMA LabelsAreLabels ==
  ASSUME NEW level \in Periods, NEW t \in Int
  PROVE  IsLabel(getString(Timelabel(t, level)))
<1> DEFINE n == MidDay(level, ClockDay(t))
           s == getString(Timelabel(t, level))
<1>1. ClockDay(t) \in Int
  BY ClockIs
<1>2. n \in Int /\ MidDay(level, n) = n
  BY <1>1, MidDayIs
<1>3. s = LabelOf(level, n)
  BY TimelabelIs
<1> HIDE DEF n, s
<1>4. CASE level = "week" /\ OddWeek(n)
  <2>1. WeekDay(n) = 3
    BY <1>2, <1>4, WeekDayIs, SMT DEF MidDay
  <2>2. /\ s = LabelOf("week", n - 364) /\ ~OddWeek(n - 364) /\ WeekDay(n - 364) = 3
    BY <1>2, <1>3, <1>4, <2>1, OddIs
  <2>3. n - 364 \in Int
    BY <1>2
  <2>4. MidDay("week", n - 364) = n - 364
    BY <2>2, <2>3, SMT DEF MidDay
  <2>5. LabelAt(s, "week", n - 364)
    BY <1>4, <2>2, <2>3, <2>4 DEF LabelAt
  <2> QED BY <1>4, <2>3, <2>5 DEF IsLabel, s
<1>5. CASE ~(level = "week" /\ OddWeek(n))
  <2>1. LabelAt(s, level, n)
    BY <1>2, <1>3, <1>5 DEF LabelAt
  <2> QED BY <1>2, <2>1 DEF IsLabel, s
<1> QED BY <1>4, <1>5

\* the first day of the period of a day, and the first one after it
First(level, n) ==
  CASE level = "day" -> n
    [] level = "week" -> n - 2
    [] level = "month" -> DayNumber(YearOf(n), MonthIn(n), 1)
    [] level = "year" -> NewYear(YearOf(n))
End(level, n) ==
  CASE level = "day" -> n + 1
    [] level = "week" -> n + 5
    [] level = "month" -> NextMonth(YearOf(n), MonthIn(n))
    [] level = "year" -> NewYear(YearOf(n) + 1)

\* The days of a period do not depend on the time of the day.
LEMMA FirstOfIs ==
  ASSUME NEW level \in Periods, NEW t \in Int
  PROVE  /\ FirstOf(level, localtime(t)) = First(level, ClockDay(t))
         /\ EndOf(level, localtime(t)) = End(level, ClockDay(t))
<1> DEFINE n == ClockDay(t)
           tm == localtime(t)
           F == DayNumber(YearOf(n), MonthIn(n), 1)
<1>1. n \in Int
  BY ClockIs
<1>2. tm.year = YearOf(n) /\ tm.mon = MonthIn(n) /\ tm.mday = n - F + 1
  BY FieldsAre
<1>3. F \in Int /\ YearOf(n) \in Int /\ MonthIn(n) \in 0..11
  BY <1>1, DayInItsMonth
<1>4. DayNumber(YearOf(n), MonthIn(n), n - F + 1) = n
  <2> DEFINE y == YearOf(n)
             m == MonthIn(n)
  <2>1. y \in Int /\ m \in 0..11 /\ F = DayNumber(y, m, 1)
    BY <1>3
  <2> HIDE DEF n, y, m, F
  <2>2. DayNumber(y, m, n - F + 1) = n
    BY <1>1, <1>3, <2>1, SMT DEF DayNumber
  <2> QED BY <2>2 DEF y, m
<1>5. DayNumber(tm.year, tm.mon, tm.mday) = n
  BY <1>2, <1>4
<1>6. CASE level = "day"
  <2>1. FirstOf(level, tm) = n /\ EndOf(level, tm) = n + 1
    BY <1>5, <1>6 DEF FirstOf, EndOf
  <2> QED BY <1>6, <2>1 DEF First, End
<1>7. CASE level = "week"
  <2>1. FirstOf(level, tm) = n - 2 /\ EndOf(level, tm) = n - 2 + 7
    BY <1>5, <1>7 DEF FirstOf, EndOf
  <2>2. n - 2 + 7 = n + 5
    BY <1>1
  <2> QED BY <1>7, <2>1, <2>2 DEF First, End
<1>8. CASE level = "month"
  BY <1>2, <1>8 DEF FirstOf, EndOf, First, End
<1>9. CASE level = "year"
  BY <1>2, <1>9 DEF FirstOf, EndOf, First, End, NewYear
<1> QED BY <1>6, <1>7, <1>8, <1>9 DEF Periods

\* What a label says of the period that it stands for
LEMMA LabelAtIs ==
  ASSUME NEW s, NEW level, NEW n, LabelAt(s, level, n)
  PROVE  /\ s.level = level /\ parse(s) = [level |-> level, midtime |-> Noon(n)]
         /\ FirstDay(s) = First(level, n) /\ EndDay(s) = End(level, n)
         /\ getString(parse(s)) = s
         /\ s.year = IF level = "week" THEN YearOf(n + 1) ELSE YearOf(n)
<1>1. level \in Periods /\ n \in Int /\ MidDay(level, n) = n /\ s = LabelOf(level, n)
  BY DEF LabelAt
<1>2. parse(s) = [level |-> level, midtime |-> Noon(n)]
  BY <1>1, ParseIs DEF LabelAt
<1>3. Noon(n) \in Int /\ ClockDay(Noon(n)) = n
  BY <1>1, NoonIs
<1>4. s.level = level
  BY <1>1 DEF LabelOf, Written
<1>5. FirstDay(s) = First(level, n) /\ EndDay(s) = End(level, n)
  BY <1>1, <1>2, <1>3, <1>4, FirstOfIs DEF FirstDay, EndDay
<1>6. getString(parse(s)) = s
  BY <1>1, <1>2 DEF getString, LabelOf
<1>7. s.year = IF level = "week" THEN YearOf(n + 1) ELSE YearOf(n)
  <2>1. s.year = IF level = "week" THEN StringYear(localtime(Noon(n)))
                 ELSE localtime(Noon(n)).year
    BY <1>1 DEF LabelOf, Written
  <2>2. localtime(Noon(n)).year = YearOf(n)
    BY <1>3, FieldsAre
  <2>3. CASE level = "week"
    <3>1. WeekDay(n) = 3
      BY <1>1, <2>3, WeekDayIs, SMT DEF MidDay
    <3>2. ~OddWeek(n)
      BY <2>3 DEF LabelAt
    <3>3. StringYear(localtime(Noon(n))) = YearOf(n + 1)
      BY <1>3, <3>1, <3>2, StringYearIs
    <3> QED BY <2>1, <2>3, <3>3
  <2> QED BY <2>1, <2>2, <2>3
<1> QED BY <1>2, <1>4, <1>5, <1>6, <1>7

\* A time that is on a day in summer and winter
LEMMA ClockDayIn ==
  ASSUME NEW k \in Int, NEW t \in Int, k * Day - Hour <= t, t < k * Day + 22 * Hour
  PROVE  ClockDay(t) = k
<1>1. Clock(t) = t + Hour \/ Clock(t) = t + 2 * Hour
  BY DEF Clock
<1>2. \A c \in Int : k * Day <= c /\ c < k * Day + Day => c \div Day = k
  BY SMT DEF Day
<1>3. Clock(t) \in Int /\ k * Day <= Clock(t) /\ Clock(t) < k * Day + Day
  BY <1>1, SMT DEF Day, Hour
<1> QED BY <1>2, <1>3 DEF ClockDay

\* The days after a month are in the one that begins when it ends,
LEMMA MonthAfter ==
  ASSUME NEW n \in Int, NEW k \in Int,
         NextMonth(YearOf(n), MonthIn(n)) <= k, k < NextMonth(YearOf(n), MonthIn(n)) + 28
  PROVE  DayNumber(YearOf(k), MonthIn(k), 1) = NextMonth(YearOf(n), MonthIn(n))
<1> DEFINE y == YearOf(n)
           m == MonthIn(n)
           E == NextMonth(y, m)
<1>1. y \in Int /\ m \in 0..11 /\ E \in Int
  BY DayInItsMonth
<1>2. \A z \in Int, j \in 0..11 : DayNumber(z, j, 1) = E => YearOf(k) = z /\ MonthIn(k) = j
  <2> SUFFICES ASSUME NEW z \in Int, NEW j \in 0..11, DayNumber(z, j, 1) = E
               PROVE  YearOf(k) = z /\ MonthIn(k) = j
    OBVIOUS
  <2>1. NextMonth(z, j) \in Int /\ NextMonth(z, j) - DayNumber(z, j, 1) \in 28..31
    BY MonthLength
  <2>2. InMonth(k, z, j)
    <3> HIDE DEF E
    <3>1. k < NextMonth(z, j) /\ DayNumber(z, j, 1) <= k
      BY <1>1, <2>1 DEF E
    <3> QED BY <3>1 DEF InMonth
  <2> QED BY <2>2, InMonthIs DEF MonthIn
<1>3. CASE m = 11
  <2>1. DayNumber(y + 1, 0, 1) = E
    BY <1>3 DEF NextMonth
  <2>2. y + 1 \in Int /\ 0 \in 0..11
    BY <1>1
  <2> QED BY <1>2, <2>1, <2>2
<1>4. CASE m # 11
  <2>1. DayNumber(y, m + 1, 1) = E
    BY <1>4 DEF NextMonth
  <2>2. m + 1 \in 0..11
    BY <1>1, <1>4
  <2> QED BY <1>1, <1>2, <2>1, <2>2
<1> QED BY <1>3, <1>4

\* and those before it in the one that ends when it begins.
LEMMA MonthBefore ==
  ASSUME NEW n \in Int, NEW k \in Int,
         DayNumber(YearOf(n), MonthIn(n), 1)
           - 28 <= k, k < DayNumber(YearOf(n), MonthIn(n), 1)
  PROVE  NextMonth(YearOf(k), MonthIn(k)) = DayNumber(YearOf(n), MonthIn(n), 1)
<1> DEFINE y == YearOf(n)
           m == MonthIn(n)
           F == DayNumber(y, m, 1)
<1>1. y \in Int /\ m \in 0..11 /\ F \in Int
  BY DayInItsMonth
<1>2. \A z \in Int, j \in 0..11 : NextMonth(z, j) = F => YearOf(k) = z /\ MonthIn(k) = j
  <2> SUFFICES ASSUME NEW z \in Int, NEW j \in 0..11, NextMonth(z, j) = F
               PROVE  YearOf(k) = z /\ MonthIn(k) = j
    OBVIOUS
  <2>1. DayNumber(z, j, 1) \in Int /\ NextMonth(z, j) - DayNumber(z, j, 1) \in 28..31
    BY MonthLength
  <2>2. InMonth(k, z, j)
    <3> HIDE DEF F
    <3>1. k < NextMonth(z, j) /\ DayNumber(z, j, 1) <= k
      BY <1>1, <2>1 DEF F
    <3> QED BY <3>1 DEF InMonth
  <2> QED BY <2>2, InMonthIs DEF MonthIn
<1>3. CASE m = 0
  <2>1. y - 1 \in Int /\ 11 \in 0..11 /\ (y - 1) + 1 = y
    BY <1>1
  <2>2. NextMonth(y - 1, 11) = F
    BY <1>3, <2>1 DEF NextMonth
  <2> QED BY <1>2, <2>1, <2>2
<1>4. CASE m # 0
  <2>1. m - 1 \in 0..11 /\ m - 1 # 11 /\ (m - 1) + 1 = m
    BY <1>1, <1>4
  <2>2. NextMonth(y, m - 1) = F
    BY <2>1 DEF NextMonth
  <2> QED BY <1>1, <1>2, <2>1, <2>2
<1> QED BY <1>3, <1>4

\* From the middle of a period, its mean length leads to the one before or after.
LEMMA NeighboursAre ==
  ASSUME NEW level \in Periods, NEW n \in Int, MidDay(level, n) = n
  PROVE  LET after == ClockDay(Noon(n) + Duration(level))
             before == ClockDay(Noon(n) - Duration(level))
         IN  /\ Noon(n) + Duration(level) \in Int /\ Noon(n) - Duration(level) \in Int
             /\ First(level, MidDay(level, after)) = End(level, n)
             /\ End(level, MidDay(level, before)) = First(level, n)
             /\ level = "week"
                  => MidDay(level, after) = n + 7 /\ MidDay(level, before) = n - 7
<1> DEFINE after == ClockDay(Noon(n) + Duration(level))
           before == ClockDay(Noon(n) - Duration(level))
           t == Noon(n)
<1>1. t \in Int /\ n * Day + 10 * Hour <= t /\ t <= n * Day + 11 * Hour
  BY NoonIs
<1> HIDE DEF t
<1>2. CASE level = "day"
  <2>1. t + Day \in Int /\ t - Day \in Int
    BY <1>1, SMT DEF Day
  <2>2. /\ (n + 1) * Day - Hour <= t + Day /\ t + Day < (n + 1) * Day + 22 * Hour
        /\ (n - 1) * Day - Hour <= t - Day /\ t - Day < (n - 1) * Day + 22 * Hour
    BY <1>1, SMT DEF Day, Hour
  <2>3. ClockDay(t + Day) = n + 1 /\ ClockDay(t - Day) = n - 1
    BY <2>1, <2>2, ClockDayIn
  <2>4. after = n + 1 /\ before = n - 1
    BY <1>2, <2>3, DurationIs DEF t
  <2>5. (n - 1) + 1 = n
    OBVIOUS
  <2> HIDE DEF after, before
  <2> QED BY <1>2, <2>1, <2>4, <2>5, DurationIs DEF MidDay, First, End, after, before, t
<1>3. CASE level = "week"
  <2>1. t + 7 * Day \in Int /\ t - 7 * Day \in Int
    BY <1>1, SMT DEF Day
  <2>2. /\ (n + 7) * Day - Hour <= t + 7 * Day /\ t + 7 * Day < (n + 7) * Day + 22 * Hour
        /\ (n - 7) * Day - Hour <= t - 7 * Day /\ t - 7 * Day < (n - 7) * Day + 22 * Hour
    BY <1>1, SMT DEF Day, Hour
  <2>3. ClockDay(t + 7 * Day) = n + 7 /\ ClockDay(t - 7 * Day) = n - 7
    BY <2>1, <2>2, ClockDayIn
  <2>4. after = n + 7 /\ before = n - 7
    BY <1>3, <2>3, DurationIs DEF t
  <2>5. WeekDay(n) = 3
    BY <1>3, WeekDayIs, SMT DEF MidDay
  <2>6. WeekDay(n + 7) = 3 /\ WeekDay(n - 7) = 3
    BY <2>5, SMT DEF WeekDay
  <2>7. MidDay(level, n + 7) = n + 7 /\ MidDay(level, n - 7) = n - 7
    BY <1>3, <2>6, SMT DEF MidDay
  <2>8. (n + 7) - 2 = n + 5 /\ (n - 7) + 5 = n - 2
    OBVIOUS
  <2> HIDE DEF after, before
  <2> QED BY <1>3, <2>1, <2>4, <2>7, <2>8, DurationIs DEF First, End, after, before, t
<1>4. CASE level = "month"
  <2> DEFINE d == 30 * Day + 37743
             F == DayNumber(YearOf(n), MonthIn(n), 1)
             E == NextMonth(YearOf(n), MonthIn(n))
  <2>1. t + d \in Int /\ t - d \in Int
    BY <1>1, SMT DEF Day
  <2>2. /\ (n + 30) * Day - Hour <= t + d /\ t + d < (n + 30) * Day + 22 * Hour
        /\ (n - 30) * Day - Hour <= t - d /\ t - d < (n - 30) * Day + 22 * Hour
    BY <1>1, SMT DEF Day, Hour
  <2> HIDE DEF d
  <2>3. ClockDay(t + d) = n + 30 /\ ClockDay(t - d) = n - 30
    BY <2>1, <2>2, ClockDayIn
  <2>4. after = n + 30 /\ before = n - 30
    BY <1>4, <2>3, DurationIs DEF t, d
  <2>5. F \in Int /\ E \in Int /\ E - F \in 28..31 /\ n = F + 14
    BY <1>4, DayInItsMonth DEF MidDay
  <2>6. E <= n + 30 /\ n + 30 < E + 28 /\ F - 28 <= n - 30 /\ n - 30 < F
    <3> HIDE DEF E, F
    <3> QED BY <2>5
  <2>7. /\ DayNumber(YearOf(n + 30), MonthIn(n + 30), 1) = E
        /\ NextMonth(YearOf(n - 30), MonthIn(n - 30)) = F
    <3>1. n + 30 \in Int /\ n - 30 \in Int
      OBVIOUS
    <3> QED BY <2>6, <3>1, MonthAfter, MonthBefore
  <2>8. \A k \in Int :
          /\ First(level, MidDay(level, k)) = DayNumber(YearOf(k), MonthIn(k), 1)
          /\ End(level, MidDay(level, k)) = NextMonth(YearOf(k), MonthIn(k))
    <3> SUFFICES
          ASSUME NEW k \in Int
          PROVE  /\ First(level, MidDay(level, k)) = DayNumber(YearOf(k), MonthIn(k), 1)
                 /\ End(level, MidDay(level, k)) = NextMonth(YearOf(k), MonthIn(k))
      OBVIOUS
    <3> DEFINE M == MidDay(level, k)
               f == DayNumber(YearOf(k), MonthIn(k), 1)
               e == NextMonth(YearOf(k), MonthIn(k))
    <3>1. M = f + 14
      BY <1>4 DEF MidDay
    <3>2. f \in Int /\ e \in Int /\ e - f \in 28..31
      BY DayInItsMonth
    <3>3. M \in Int /\ f <= M /\ M < e
      <4> HIDE DEF M, f, e
      <4> QED BY <3>1, <3>2
    <3>4. YearOf(M) = YearOf(k) /\ MonthIn(M) = MonthIn(k)
      BY <3>3, DayInItsMonth
    <3> HIDE DEF M
    <3>5. First(level, M) = f /\ End(level, M) = e
      BY <1>4, <3>4 DEF First, End
    <3> QED BY <3>5 DEF M
  <2>9. First(level, n) = F /\ End(level, n) = E
    BY <1>4 DEF First, End
  <2>10. n + 30 \in Int /\ n - 30 \in Int
    OBVIOUS
  <2>11. t + d = Noon(n) + Duration(level) /\ t - d = Noon(n) - Duration(level)
    BY <1>4, DurationIs DEF t, d
  <2> HIDE DEF after, before, E, F
  <2>12. /\ First(level, MidDay(level, after)) = End(level, n)
         /\ End(level, MidDay(level, before)) = First(level, n)
    BY <2>4, <2>7, <2>8, <2>9, <2>10
  <2> QED BY <1>4, <2>1, <2>11, <2>12 DEF after, before
<1>5. CASE level = "year"
  <2> DEFINE d == 365 * Day + 20926
             y == YearOf(n)
             N == NewYear(y)
             M == NewYear(y + 1)
  <2>1. t + d \in Int /\ t - d \in Int
    BY <1>1, SMT DEF Day
  <2>2. /\ (n + 365) * Day - Hour <= t + d /\ t + d < (n + 365) * Day + 22 * Hour
        /\ (n - 365) * Day - Hour <= t - d /\ t - d < (n - 365) * Day + 22 * Hour
    BY <1>1, SMT DEF Day, Hour
  <2> HIDE DEF d
  <2>3. ClockDay(t + d) = n + 365 /\ ClockDay(t - d) = n - 365
    BY <2>1, <2>2, ClockDayIn
  <2>4. after = n + 365 /\ before = n - 365
    BY <1>5, <2>3, DurationIs DEF t, d
  <2>5. y \in Int /\ N \in Int /\ M \in Int /\ n = N + 182 /\ (M = N + 365 \/ M = N + 366)
    BY <1>5, InYear DEF MidDay
  <2>6. /\ NewYear(y + 2) \in Int /\ M + 365 <= NewYear(y + 2)
        /\ NewYear(y - 1) \in Int /\ NewYear(y - 1) + 365 <= N
    <3>1. y + 1 \in Int /\ (y + 1) + 1 = y + 2 /\ y - 1 \in Int /\ (y - 1) + 1 = y
            /\ y + 2 \in Int
      BY <2>5
    <3>2. NewYear(y + 2) \in Int /\ NewYear(y - 1) \in Int
      BY <3>1, YearLength
    <3>3. NewYear((y + 1) + 1) = M + 365 \/ NewYear((y + 1) + 1) = M + 366
      BY <3>1, YearLength
    <3>4. NewYear((y - 1) + 1) = NewYear(y - 1) + 365
            \/ NewYear((y - 1) + 1) = NewYear(y - 1) + 366
      BY <3>1, YearLength
    <3> HIDE DEF M, N
    <3> QED BY <2>5, <3>1, <3>2, <3>3, <3>4 DEF N
  <2>7. M <= n + 365 /\ n + 365 < NewYear(y + 2) /\ NewYear(y - 1) <= n - 365 /\ n - 365 < N
    <3> HIDE DEF M, N, y
    <3> QED BY <2>5, <2>6
  <2>8. YearOf(n + 365) = y + 1 /\ YearOf(n - 365) = y - 1
    <3>1. n + 365 \in Int /\ n - 365 \in Int /\ y + 1 \in Int /\ y - 1 \in Int
          /\ (y + 1) + 1 = y + 2 /\ (y - 1) + 1 = y
      BY <2>5
    <3>2. NewYear(y + 1) <= n + 365 /\ n + 365 < NewYear((y + 1) + 1)
      BY <2>7, <3>1
    <3>3. NewYear(y - 1) <= n - 365 /\ n - 365 < NewYear((y - 1) + 1)
      BY <2>7, <3>1
    <3> QED BY <3>1, <3>2, <3>3, YearIs
  <2>9. \A k \in Int : /\ First(level, MidDay(level, k)) = NewYear(YearOf(k))
                       /\ End(level, MidDay(level, k)) = NewYear(YearOf(k) + 1)
    <3> SUFFICES ASSUME NEW k \in Int
                 PROVE  /\ First(level, MidDay(level, k)) = NewYear(YearOf(k))
                        /\ End(level, MidDay(level, k)) = NewYear(YearOf(k) + 1)
      OBVIOUS
    <3> DEFINE z == YearOf(k)
               f == NewYear(z)
    <3>1. MidDay(level, k) = f + 182
      BY <1>5 DEF MidDay
    <3>2. z \in Int /\ f \in Int /\ (NewYear(z + 1) = f + 365 \/ NewYear(z + 1) = f + 366)
      BY InYear
    <3>3. f + 182 \in Int /\ NewYear(z) <= f + 182 /\ f + 182 < NewYear(z + 1)
      BY <3>2, SMT
    <3>4. YearOf(f + 182) = z
      BY <3>2, <3>3, YearIs
    <3> HIDE DEF f
    <3>5. First(level, f + 182) = NewYear(z) /\ End(level, f + 182) = NewYear(z + 1)
      BY <1>5, <3>4 DEF First, End
    <3> QED BY <3>1, <3>5
  <2>10. First(level, n) = N /\ End(level, n) = M
    BY <1>5 DEF First, End
  <2>11. n + 365 \in Int /\ n - 365 \in Int /\ (y - 1) + 1 = y
    BY <2>5
  <2>12. t + d = Noon(n) + Duration(level) /\ t - d = Noon(n) - Duration(level)
    BY <1>5, DurationIs DEF t, d
  <2> HIDE DEF after, before
  <2>13. /\ First(level, MidDay(level, after)) = End(level, n)
         /\ End(level, MidDay(level, before)) = First(level, n)
    BY <2>4, <2>8, <2>9, <2>10, <2>11
  <2> QED BY <1>5, <2>1, <2>12, <2>13 DEF after, before
<1> QED BY <1>2, <1>3, <1>4, <1>5 DEF Periods

-----------------------------------------------------------------------------
(* The windows of the graphs, and what is in them                          *)

\* Numbers have a least one.
LEMMA LeastNumber ==
  ASSUME NEW T \in SUBSET Nat, T # {}
  PROVE  \E m \in T : \A k \in T : ~(k < m)
<1> DEFINE R == OpToRel(<, Nat)
<1>1. IsWellFoundedOn(R, Nat)
  BY NatLessThanWellFounded
<1>2. \A x, y \in Nat : x < y => <<x, y>> \in R
  BY DEF OpToRel
<1> HIDE DEF R
<1>3. \E x \in T : \A y \in T : ~(<<y, x>> \in R)
  BY <1>1, WFMin
<1> QED BY <1>2, <1>3

\* Of numbers with a bound one is the greatest.
LEMMA MaxIs ==
  ASSUME NEW S \in SUBSET Int, S # {}, NEW b \in Int, \A x \in S : x <= b
  PROVE  Max(S) \in S /\ \A x \in S : x <= Max(S)
<1> DEFINE T == {b - x : x \in S}
<1>1. T \in SUBSET Nat /\ T # {}
  <2>1. \A x \in S : b - x \in Nat
    <3> TAKE x \in S
    <3> x \in Int /\ x <= b
      OBVIOUS
    <3> QED OBVIOUS
  <2> QED BY <2>1
<1>2. PICK m \in T : \A k \in T : ~(k < m)
  BY <1>1, LeastNumber
<1>3. PICK x \in S : m = b - x
  OBVIOUS
<1>4. \A y \in S : y <= x
  <2> SUFFICES ASSUME NEW y \in S PROVE y <= x
    OBVIOUS
  <2>1. b - y \in T
    OBVIOUS
  <2>2. ~(b - y < b - x)
    BY <1>2, <1>3, <2>1
  <2> HIDE DEF T
  <2> QED BY <2>2
<1>5. \E z \in S : \A y \in S : z >= y
  BY <1>4
<1>6. Max(S) = CHOOSE z \in S : \A y \in S : z >= y
  BY DEF Max
<1>7. Max(S) \in S /\ \A y \in S : Max(S) >= y
  BY <1>5, <1>6
<1> QED BY <1>7

Details == {"week", "month", "year"}

\* Down to the grid of an interval
LEMMA Mod300 ==
  ASSUME NEW t \in Int, NEW o \in Int, NEW r \in Int, r = t - ((t + o) % 300)
  PROVE  t - 300 < r /\ r <= t /\ (r + o) % 300 = 0
BY SMT

\* of half an hour,
LEMMA Mod1800 ==
  ASSUME NEW t \in Int, NEW o \in Int, NEW r \in Int, r = t - ((t + o) % 1800)
  PROVE  t - 1800 < r /\ r <= t /\ (r + o) % 1800 = 0
BY SMT

\* two hours
LEMMA Mod7200 ==
  ASSUME NEW t \in Int, NEW o \in Int, NEW r \in Int, r = t - ((t + o) % 7200)
  PROVE  t - 7200 < r /\ r <= t /\ (r + o) % 7200 = 0
BY SMT

\* and a day.
LEMMA Mod86400 ==
  ASSUME NEW t \in Int, NEW o \in Int, NEW r \in Int, r = t - ((t + o) % 86400)
  PROVE  t - 86400 < r /\ r <= t /\ (r + o) % 86400 = 0
BY SMT

Reduced(r, t, o, i) == r \in Int /\ t - i < r /\ r <= t /\ (r + o) % i = 0

OnGrid(o, i, t) == reduceTime([offset |-> o, interval |-> i], t)

\* The grid of a level, below and near the time
LEMMA ReducedIs ==
  ASSUME NEW t \in Int, NEW o \in Int, NEW i \in {300, 1800, 7200, Day}
  PROVE  Reduced(OnGrid(o, i, t), t, o, i)
<1> DEFINE r == OnGrid(o, i, t)
<1>1. r = t - ((t + o) % i)
  BY DEF reduceTime, OnGrid
<1> HIDE DEF r
<1>2. i \in {300, 1800, 7200, 86400}
  BY SMT DEF Day
<1>3. r \in Int
  BY <1>1, <1>2, SMT
<1>4. ASSUME i = 300 PROVE Reduced(r, t, o, i)
  <2>1. r = t - ((t + o) % 300)
    BY <1>1, <1>4, SMT
  <2>2. t - 300 < r /\ r <= t /\ (r + o) % 300 = 0
    BY <1>3, <2>1, Mod300
  <2>3. Reduced(r, t, o, 300)
    BY <1>3, <2>2, SMT DEF Reduced
  <2> QED BY <1>4, <2>3, SMT
<1>5. ASSUME i = 1800 PROVE Reduced(r, t, o, i)
  <2>1. r = t - ((t + o) % 1800)
    BY <1>1, <1>5, SMT
  <2>2. t - 1800 < r /\ r <= t /\ (r + o) % 1800 = 0
    BY <1>3, <2>1, Mod1800
  <2>3. Reduced(r, t, o, 1800)
    BY <1>3, <2>2, SMT DEF Reduced
  <2> QED BY <1>5, <2>3, SMT
<1>6. ASSUME i = 7200 PROVE Reduced(r, t, o, i)
  <2>1. r = t - ((t + o) % 7200)
    BY <1>1, <1>6, SMT
  <2>2. t - 7200 < r /\ r <= t /\ (r + o) % 7200 = 0
    BY <1>3, <2>1, Mod7200
  <2>3. Reduced(r, t, o, 7200)
    BY <1>3, <2>2, SMT DEF Reduced
  <2> QED BY <1>6, <2>3, SMT
<1>7. ASSUME i = 86400 PROVE Reduced(r, t, o, i)
  <2>1. r = t - ((t + o) % 86400)
    BY <1>1, <1>7, SMT
  <2>2. t - 86400 < r /\ r <= t /\ (r + o) % 86400 = 0
    BY <1>3, <2>1, Mod86400
  <2>3. Reduced(r, t, o, 86400)
    BY <1>3, <2>2, SMT DEF Reduced
  <2> QED BY <1>7, <2>3, SMT
<1>8. Reduced(r, t, o, i)
  BY <1>2, <1>4, <1>5, <1>6, <1>7, SMT
<1> QED BY <1>8 DEF r

\* The window around the middle of a period
LEMMA WindowIs ==
  ASSUME Offset \in Int, Width \in Nat,
         NEW s, NEW level, NEW n, LabelAt(s, level, n),
         NEW w, w = Graph(s), NEW i, i = Interval(level)
  PROVE  /\ i \in {300, 1800, 7200, Day} /\ i \in Int /\ 300 <= i
         /\ w.interval = i /\ w.width = Width /\ w.starttime = w.endtime - Width * i
         /\ w.endtime \in Int /\ w.starttime \in Int
         /\ (w.endtime + Offset) % i = 0
         /\ Noon(n) + i * (Width \div 2) - i < w.endtime
         /\ w.endtime <= Noon(n) + i * (Width \div 2)
<1> DEFINE t == Noon(n)
           e == t + i * (Width \div 2)
<1>1. level \in Periods /\ n \in Int /\ s.level = level /\ parse(s).midtime = t
  BY LabelAtIs DEF LabelAt
<1>2. t \in Int
  BY <1>1, NoonIs
<1>3. i \in {300, 1800, 7200, Day} /\ i \in Int /\ 300 <= i
  BY <1>1, IntervalIs, SMT DEF Periods, Day
<1>4. w = EndingAt(Width, Offset, i, e)
  BY <1>1 DEF Graph
<1>5. e \in Int
  <2>1. Width \div 2 \in Int
    BY SMT
  <2> HIDE DEF t
  <2> QED BY <1>2, <1>3, <2>1
<1> HIDE DEF e
<1>6. /\ w.interval = i /\ w.width = Width /\ w.starttime = w.endtime - Width * i
      /\ w.endtime = OnGrid(Offset, i, e)
  BY <1>4 DEF EndingAt, OnGrid
<1>7. /\ w.endtime \in Int /\ e - i < w.endtime /\ w.endtime <= e
      /\ (w.endtime + Offset) % i = 0
  <2>1. Reduced(w.endtime, e, Offset, i)
    BY <1>3, <1>5, <1>6, ReducedIs
  <2> QED BY <2>1 DEF Reduced
<1>8. Width * i \in Int
  BY <1>3
<1>9. w.starttime \in Int
  BY <1>6, <1>7, <1>8
<1>10. t + i * (Width \div 2) - i < w.endtime /\ w.endtime <= t + i * (Width \div 2)
  <2> HIDE DEF t
  <2>1. e = t + i * (Width \div 2)
    BY DEF e
  <2>2. \A p \in Int : e = t + p => t + p - i < w.endtime /\ w.endtime <= t + p
    BY <1>2, <1>3, <1>7
  <2>3. i * (Width \div 2) \in Int
    BY <1>3, SMT
  <2> QED BY <2>1, <2>2, <2>3
<1> QED BY <1>3, <1>6, <1>7, <1>9, <1>10

IsWindow(w) ==
  /\ w.starttime \in Int /\ w.interval \in Int /\ w.interval > 0 /\ w.width \in Nat
  /\ w.endtime = w.starttime + w.width * w.interval

\* The grid lies between the ends of the window, which are on it.
LEMMA GridIs ==
  ASSUME NEW w, IsWindow(w)
  PROVE  /\ \A t \in Grid(w) : t \in Int /\ w.starttime <= t /\ t <= w.endtime
         /\ w.endtime \in Grid(w) /\ w.starttime \in Grid(w)
<1> DEFINE a == w.starttime
           i == w.interval
           n == w.width
<1>1. Grid(w) = {a + j * i : j \in 0..n}
  BY DEF Grid, getTimeFromIndex
<1>2. a \in Int /\ i \in Int /\ i > 0 /\ n \in Nat /\ w.endtime = a + n * i
  BY DEF IsWindow
<1> HIDE DEF a, i, n
<1>3. \A j \in 0..n : j * i \in Int /\ 0 <= j * i /\ j * i <= n * i
  BY <1>2, SMT
<1>4. n \in 0..n /\ 0 \in 0..n /\ a + 0 * i = a /\ n * i \in Int
  BY <1>2
<1>5. \A t \in Grid(w) : t \in Int /\ a <= t /\ t <= w.endtime
  BY <1>1, <1>2, <1>3, <1>4
<1>6. w.endtime \in Grid(w) /\ a \in Grid(w)
  BY <1>1, <1>2, <1>4
<1> QED BY <1>5, <1>6 DEF a

\* An area lies between a tick, or the beginning of the window, and the next one.
Before(w, t) == {u \in Ticks(w) : u < t} \cup {w.starttime}

IsArea(w, a) ==
  /\ a.start \in Ticks(w) \cup {w.starttime} /\ a.end \in Ticks(w) \cup {w.endtime}
  /\ a.start \in Int /\ a.end \in Int /\ w.starttime <= a.start /\ a.end <= w.endtime
  /\ a.start < a.end /\ \A u \in Ticks(w) : u < a.end => u <= a.start
  /\ a = getArea(w, a.start, a.end) /\ a.start = Max(Before(w, a.end))

\* An area lies between a tick, or the beginning of the window, and the next one.
LEMMA AreaIs ==
  ASSUME NEW w, IsWindow(w), NEW a \in Areas(w)
  PROVE  IsArea(w, a) /\ ~(w.interval <= 300)
<1> DEFINE T == Ticks(w)
           B(t) == Before(w, t)
<1>1. /\ \A t \in Grid(w) : t \in Int /\ w.starttime <= t /\ t <= w.endtime
      /\ w.endtime \in Grid(w) /\ w.starttime \in Grid(w)
  BY GridIs
<1>2. T \subseteq Grid(w)
  <2>1. \A t \in Ticks(w) : t \in Grid(w)
    BY DEF Ticks
  <2> QED BY <2>1
<1>3. ~(w.interval <= 300)
  BY DEF Areas
<1>4. PICK t \in (T \cup {w.endtime}) \ {w.starttime} : a = getArea(w, Max(B(t)), t)
  BY <1>3 DEF Areas, Before
<1> DEFINE m == Max(B(t))
<1>5. a.start = m /\ a.end = t
  BY <1>4 DEF getArea
<1> HIDE DEF T
<1>6. t \in Int /\ w.starttime < t /\ t <= w.endtime
  BY <1>1, <1>2, <1>4
<1>7. B(t) \in SUBSET Int /\ B(t) # {} /\ \A x \in B(t) : x <= t /\ x < t
        /\ w.starttime <= x
  <2>1. \A x \in B(t) : x \in Int /\ x < t /\ w.starttime <= x
    BY <1>1, <1>2, <1>6 DEF Before, T, IsWindow
  <2>2. \A x \in B(t) : x <= t
    <3> HIDE DEF B
    <3> QED BY <1>6, <2>1
  <2>3. B(t) # {}
    BY DEF Before
  <2> HIDE DEF B
  <2> QED BY <2>1, <2>2, <2>3
<1> HIDE DEF B
<1>8. m \in B(t) /\ \A x \in B(t) : x <= m
  BY <1>6, <1>7, MaxIs
<1> HIDE DEF m
<1>9. m \in Int /\ m < t /\ w.starttime <= m
  BY <1>7, <1>8
<1>10. m \in T \cup {w.starttime} /\ \A u \in T : u < t => u <= m
  BY <1>8 DEF B, Before, T
<1>11. a = getArea(w, a.start, a.end) /\ a.start = Max(B(a.end))
  BY <1>4, <1>5 DEF m
<1>12. a.end \in T \cup {w.endtime}
  BY <1>4, <1>5
<1> QED BY <1>3, <1>5, <1>6, <1>9, <1>10, <1>11, <1>12 DEF T, B, IsArea

-----------------------------------------------------------------------------
(* Every page has a label of a period                                      *)

\* the years whose pages a reader sees
Years == Horizon \cup {localtime(Now).year}

\* What a reader can reach.
LabelInv == IsLabel(label) /\ label.year \in Years

\* The page of the present month has the label of a period,
LEMMA OpenedOnLabel == BrowserInit => LabelInv
<1> SUFFICES ASSUME BrowserInit PROVE LabelInv
  OBVIOUS
<1>1. label = getString(Timelabel(Now, "month")) /\ "month" \in Periods /\ Now \in Int
  BY BrowserAssumption DEF BrowserInit, Periods
<1>2. IsLabel(label)
  BY <1>1, LabelsAreLabels
<1> DEFINE k == ClockDay(Now)
           n == MidDay("month", k)
<1>3. k \in Int /\ localtime(Now).year = YearOf(k)
  BY <1>1, ClockIs, FieldsAre
<1>4. label = LabelOf("month", n) /\ n \in Int
  BY <1>1, <1>3, TimelabelIs, MidDayIs
<1>5. Noon(n) \in Int /\ ClockDay(Noon(n)) = n
  BY <1>4, NoonIs
<1>6. label.year = YearOf(n)
  <2>1. localtime(Noon(n)).year = YearOf(n)
    BY <1>5, FieldsAre
  <2> QED BY <1>4, <2>1 DEF LabelOf, Written
<1>7. YearOf(n) = YearOf(k)
  <2> DEFINE F == DayNumber(YearOf(k), MonthIn(k), 1)
             E == NextMonth(YearOf(k), MonthIn(k))
  <2>1. F \in Int /\ E \in Int /\ E - F \in 28..31 /\ n = F + 14
    BY <1>3, DayInItsMonth DEF MidDay
  <2>2. F <= n /\ n < E
    <3> HIDE DEF F, E, n
    <3> QED BY <2>1
  <2> QED BY <1>3, <1>4, <2>2, DayInItsMonth
<1> QED BY <1>2, <1>3, <1>6, <1>7 DEF LabelInv, Years

\* the operators of meteolabel
LEMMA OperatorsAre ==
  /\ DOMAIN Ups = {"up", "upup", "upupup"}
  /\ DOMAIN Downs = {"down", "downdown", "downdowndown"}
  /\ \A o \in DOMAIN Ups : Ups[o] \in 1..3
BY DEF Ups, Downs

\* The label that back, forward or up makes of another
LEMMA MovedIs ==
  ASSUME NEW tl
  PROVE  /\ Moved(tl, "previous") = Previous(tl) /\ Moved(tl, "next") = Following(tl)
         /\ \A o \in DOMAIN Ups : Moved(tl, o) = Up(tl, Ups[o])
BY OperatorsAre DEF Moved

\* and so do those that back, forward and up,
LEMMA MovesLeadToLabels ==
  ASSUME NEW s, IsLabel(s),
         NEW operator \in {"previous", "next"} \cup {o \in DOMAIN Ups : Ups[o] <= HopsUp(s)}
  PROVE  IsLabel(meteolabel(s, operator))
<1>1. PICK level \in Periods, n \in Int : LabelAt(s, level, n)
  BY DEF IsLabel
<1>2. parse(s) = [level |-> level, midtime |-> Noon(n)] /\ s.level = level
  BY <1>1, LabelAtIs
<1>3. Noon(n) \in Int
  BY NoonIs
<1>4. Duration(level) \in Int
  BY DurationIs, SMT DEF Periods, Day
<1>5. CASE operator = "previous"
  <2>1. meteolabel(s, operator) = getString(Timelabel(Noon(n) - Duration(level), level))
    BY <1>2, <1>5, MovedIs DEF meteolabel, Previous
  <2>2. Noon(n) - Duration(level) \in Int
    BY <1>3, <1>4
  <2> QED BY <2>1, <2>2, LabelsAreLabels
<1>6. CASE operator = "next"
  <2>1. meteolabel(s, operator) = getString(Timelabel(Noon(n) + Duration(level), level))
    BY <1>2, <1>6, MovedIs DEF meteolabel, Following
  <2>2. Noon(n) + Duration(level) \in Int
    BY <1>3, <1>4
  <2> QED BY <2>1, <2>2, LabelsAreLabels
<1>7. CASE operator \in DOMAIN Ups /\ Ups[operator] <= HopsUp(s)
  <2>1. Ups[operator] \in 1..3
    BY <1>7, OperatorsAre
  <2>2. Rank(level) \in 2..5 /\ HopsUp(s) = 5 - Rank(level)
    BY <1>2, RankIs DEF HopsUp, Periods
  <2>3. Rank(level) + Ups[operator] \in {3, 4, 5}
    BY <1>7, <2>1, <2>2
  <2>4. Levels[Rank(level) + Ups[operator]] \in Periods
    BY <2>3, LevelsAre DEF Periods
  <2>5. meteolabel(s, operator) = getString(Timelabel(Noon(n),
        Levels[Rank(level) + Ups[operator]]))
    BY <1>2, <1>7, MovedIs DEF meteolabel, Up
  <2> QED BY <1>3, <2>4, <2>5, LabelsAreLabels
<1> QED BY <1>5, <1>6, <1>7

\* or an area of the image, lead to.
LEMMA ClicksLeadToLabels ==
  ASSUME NEW s, IsLabel(s), NEW a \in Areas(Graph(s))
  PROVE  IsLabel(a.label)
<1>1. PICK level \in Periods, n \in Int : LabelAt(s, level, n)
  BY DEF IsLabel
<1> DEFINE w == Graph(s)
           i == Interval(level)
<1>2. /\ w.interval = i /\ w.width = Width /\ w.starttime = w.endtime - Width * i
      /\ w.endtime \in Int /\ w.starttime \in Int /\ i \in Int /\ 300 <= i
  BY <1>1, BrowserAssumption, WindowIs
<1>3. IsWindow(w)
  <2> HIDE DEF i, w
  <2>1. Width \in Nat
    BY BrowserAssumption
  <2>2. Width * i \in Int
    BY <1>2, <2>1
  <2> QED BY <1>2, <2>1, <2>2 DEF IsWindow
<1> HIDE DEF i
<1>4. a \in Areas(w)
  OBVIOUS
<1> HIDE DEF w
<1>5. /\ a.start \in Int /\ a.end \in Int /\ a = getArea(w, a.start, a.end)
     /\ ~(w.interval <= 300)
  BY <1>3, <1>4, AreaIs DEF IsArea
<1>6. level \in Details
  BY <1>2, <1>5, IntervalIs DEF Periods, Details, i
<1>7. LevelOf(w.interval) = level
  BY <1>2, LevelOfIs DEF i
<1>8. DownLevel(level) \in Periods
  BY <1>6, DownLevelIs DEF Details, Periods
<1>9. a.label = getString(Timelabel(a.start \div 2 + a.end \div 2, DownLevel(level)))
  BY <1>5, <1>7 DEF getArea
<1>10. a.start \div 2 + a.end \div 2 \in Int
  BY <1>5, SMT
<1> QED BY <1>8, <1>9, <1>10, LabelsAreLabels

\* Every link keeps the label one of a period.
LEMMA LinksKeepLabelInv == LabelInv /\ [BrowserNext]_label => LabelInv'
<1> SUFFICES ASSUME LabelInv, [BrowserNext]_label PROVE LabelInv'
  OBVIOUS
<1>1. IsLabel(label)
  BY DEF LabelInv
<1>2. ASSUME NEW s, Visit(s), IsLabel(s) PROVE LabelInv'
  <2>1. label' = s /\ s.year \in Horizon
    BY <1>2 DEF Visit
  <2> QED BY <1>2, <2>1 DEF LabelInv, Years
<1>3. CASE GoBack
  BY <1>1, <1>2, <1>3, MovesLeadToLabels DEF GoBack
<1>4. CASE GoForward
  BY <1>1, <1>2, <1>4, MovesLeadToLabels DEF GoForward
<1>5. CASE GoUp
  BY <1>1, <1>2, <1>5, MovesLeadToLabels DEF GoUp
<1>6. CASE Click
  BY <1>1, <1>2, <1>6, ClicksLeadToLabels DEF Click
<1>7. CASE UNCHANGED label
  BY <1>7 DEF LabelInv, Years
<1> QED BY <1>3, <1>4, <1>5, <1>6, <1>7 DEF BrowserNext

\* Every page that a reader comes to (meteobrowser.php), however long, has a label that
\* a Timelabel writes: that of a period, of a year that is shown.
THEOREM PagesHaveLabels == BrowserSpec => []LabelInv
  BY OpenedOnLabel, LinksKeepLabelInv, PTL DEF BrowserSpec

-----------------------------------------------------------------------------
(* The links back and forward                                              *)

\* A year is odd if it has a leap day and the 181st day after New Year is a Wednesday.
LEMMA OddYearIs ==
  ASSUME NEW y \in Int
  PROVE  OddYear(y) <=> Leap(y) = 1 /\ WeekDay(NewYear(y) + 181) = 3
<1>1. Leap(y) \in {0, 1} /\ NewYear(y) \in Int
  BY DayIs
<1>2. NewYear(y + 1) = NewYear(y) + 365 + Leap(y)
  BY <1>1, YearLength DEF Leap
<1>3. DayNumber(y, 5, 30) = NewYear(y) + 151 + Leap(y) + 30 - 1
  BY <1>1, DayIs, SMT DEF FirstOfMonth
<1>4. Leap(y) = 1 => DayNumber(y, 5, 30) = NewYear(y) + 181
  BY <1>1, <1>3
<1>5. NewYear(y + 1) - NewYear(y) = 366 <=> Leap(y) = 1
  BY <1>1, <1>2
<1> QED BY <1>4, <1>5 DEF OddYear, NewYear

\* The odd week has that Wednesday.
LEMMA OddWeekIs ==
  ASSUME NEW n \in Int, WeekDay(n) = 3, OddWeek(n)
  PROVE  n = NewYear(YearOf(n)) + 181 /\ OddYear(YearOf(n))
<1> DEFINE y == YearOf(n)
           N == NewYear(y)
<1>1. y \in Int /\ N \in Int
  BY InYear
<1>2. Leap(y) \in {0, 1} /\ n >= N + 181 /\ n < N + 181 + Leap(y)
  <2>1. MonthIn(n) < 6 /\ n >= N + 181
    BY DEF OddWeek
  <2>2. MonthIn(n) \in 0..11 /\ n < NextMonth(y, MonthIn(n))
    BY DayInItsMonth
  <2>3. NextMonth(y, MonthIn(n)) <= DayNumber(y, 6, 1)
    BY <1>1, <2>1, <2>2, MonthsInOrder
  <2>4. DayNumber(y, 6, 1) = N + 181 + Leap(y) /\ Leap(y) \in {0, 1}
    BY <1>1, DayIs, SMT DEF FirstOfMonth
  <2>5. NextMonth(y, MonthIn(n)) \in Int
    BY <1>1, <2>2, MonthLength
  <2> HIDE DEF y, N
  <2> QED BY <1>1, <2>1, <2>2, <2>3, <2>4, <2>5
<1>3. n = N + 181 /\ Leap(y) = 1
  <2> HIDE DEF y, N
  <2> QED BY <1>1, <1>2
<1> QED BY <1>1, <1>3, OddYearIs

\* Within three weeks of it, all days are in its year.
LEMMA NoOddWeekNear ==
  ASSUME NEW n \in Int, NEW k \in Int, WeekDay(n) = 3, ~OddYear(YearOf(k)),
         k - 30 <= n, n <= k + 30
  PROVE  ~OddWeek(n)
<1> SUFFICES ASSUME OddWeek(n) PROVE FALSE
  OBVIOUS
<1> DEFINE y == YearOf(n)
           N == NewYear(y)
           M == NewYear(y + 1)
<1>1. n = N + 181 /\ OddYear(y)
  BY OddWeekIs
<1>2. y \in Int /\ N \in Int /\ M \in Int /\ (M = N + 365 \/ M = N + 366)
  BY InYear
<1>3. N <= k /\ k < M
  <2> HIDE DEF N, M, y
  <2> QED BY <1>1, <1>2
<1>4. YearOf(k) = y
  BY <1>2, <1>3, YearIs
<1> QED BY <1>1, <1>4

\* The label of a period that is not the odd week is its own.
LEMMA LabelledIs ==
  ASSUME NEW level \in Periods, NEW n \in Int, MidDay(level, n) = n,
         level = "week" => ~OddWeek(n)
  PROVE  LabelAt(LabelOf(level, n), level, n)
BY DEF LabelAt

\* Of a label in another year, the neighbours are next to it.
LEMMA LinksLead ==
  ASSUME NEW s, IsLabel(s), ~OddYear(s.year)
  PROVE  /\ getString(parse(s)) = s
         /\ FirstDay(meteolabel(s, "next")) = EndDay(s)
         /\ EndDay(meteolabel(s, "previous")) = FirstDay(s)
<1>1. PICK level \in Periods, n \in Int : LabelAt(s, level, n)
  BY DEF IsLabel
<1>2. /\ parse(s) = [level |-> level, midtime |-> Noon(n)] /\ getString(parse(s)) = s
      /\ FirstDay(s) = First(level, n) /\ EndDay(s) = End(level, n)
      /\ s.year = IF level = "week" THEN YearOf(n + 1) ELSE YearOf(n)
  BY <1>1, LabelAtIs
<1>3. MidDay(level, n) = n
  BY <1>1 DEF LabelAt
<1> DEFINE a == MidDay(level, ClockDay(Noon(n) + Duration(level)))
           b == MidDay(level, ClockDay(Noon(n) - Duration(level)))
<1>4. /\ Noon(n) + Duration(level) \in Int /\ Noon(n) - Duration(level) \in Int
      /\ First(level, a) = End(level, n) /\ End(level, b) = First(level, n)
      /\ level = "week" => a = n + 7 /\ b = n - 7
  BY <1>3, NeighboursAre
<1>5. /\ ClockDay(Noon(n) + Duration(level)) \in Int
      /\ ClockDay(Noon(n) - Duration(level)) \in Int
  BY <1>4, ClockIs
<1>6. a \in Int /\ MidDay(level, a) = a /\ b \in Int /\ MidDay(level, b) = b
  BY <1>5, MidDayIs
<1>7. /\ meteolabel(s, "next") = LabelOf(level, a)
      /\ meteolabel(s, "previous") = LabelOf(level, b)
  BY <1>2, <1>4, MovedIs, TimelabelIs DEF meteolabel, Following, Previous
<1> HIDE DEF a, b
<1>8. level = "week" => ~OddWeek(a) /\ ~OddWeek(b)
  <2> SUFFICES ASSUME level = "week" PROVE ~OddWeek(a) /\ ~OddWeek(b)
    OBVIOUS
  <2>1. WeekDay(a) = 3 /\ WeekDay(b) = 3
    BY <1>6, WeekDayIs, SMT DEF MidDay
  <2>2. n + 1 \in Int /\ ~OddYear(YearOf(n + 1)) /\ a = n + 7 /\ b = n - 7
    BY <1>2, <1>4
  <2>3. (n + 1) - 30 <= a /\ a <= (n + 1) + 30 /\ (n + 1) - 30 <= b /\ b <= (n + 1) + 30
    BY <2>2
  <2> QED BY <1>6, <2>1, <2>2, <2>3, NoOddWeekNear
<1>9. LabelAt(LabelOf(level, a), level, a) /\ LabelAt(LabelOf(level, b), level, b)
  BY <1>6, <1>8, LabelledIs
<1>10. /\ FirstDay(LabelOf(level, a)) = First(level, a)
       /\ EndDay(LabelOf(level, b)) = End(level, b)
  BY <1>9, LabelAtIs
<1> QED BY <1>2, <1>4, <1>7, <1>10

NoOddYear == \A y \in Years : ~OddYear(y)

\* The links of a page lead where they say (Timelabel.cc, meteobrowser.php): on every page,
\* the label keeps its meaning when it is read again, and back and forward are the periods
\* next to the one shown, for all years but those with an odd week.
THEOREM LinksAreTrue ==
  ASSUME NoOddYear
  PROVE  BrowserSpec => []LinksLeadOn
<1>1. LabelInv => LinksLeadOn
  <2> SUFFICES ASSUME LabelInv PROVE LinksLeadOn
    OBVIOUS
  <2>1. IsLabel(label) /\ ~OddYear(label.year)
    BY DEF LabelInv, NoOddYear
  <2> QED BY <2>1, LinksLead DEF LinksLeadOn, SameWhenReadAgain, NeighboursAreAdjacent
<1> QED BY <1>1, PagesHaveLabels, PTL

-----------------------------------------------------------------------------
(* The graph of a period                                                   *)

\* midnight of summer or winter
LEMMA MidnightIs ==
  ASSUME NEW n \in Int
  PROVE  Midnight(n) \in Int /\ n * Day - 2 * Hour <= Midnight(n)
           /\ Midnight(n) <= n * Day - Hour
BY SMT DEF Midnight, Day, Hour

\* The days of a period lie around the one in its middle.
LEMMA PeriodIs ==
  ASSUME NEW level \in Periods, NEW n \in Int, MidDay(level, n) = n
  PROVE  /\ First(level, n) \in Int /\ End(level, n) \in Int
              /\ First(level, n) < End(level, n)
         /\ level = "day" => First(level, n) = n /\ End(level, n) = n + 1
         /\ level = "week" => First(level, n) = n - 2 /\ End(level, n) = n + 5
         /\ level = "month" => First(level, n) = n - 14 /\ End(level, n) <= n + 17
         /\ level = "year" => First(level, n) = n - 182 /\ End(level, n) <= n + 184
<1>1. CASE level \in {"day", "week"}
  BY <1>1 DEF First, End
<1>2. CASE level = "month"
  <2> DEFINE F == DayNumber(YearOf(n), MonthIn(n), 1)
             E == NextMonth(YearOf(n), MonthIn(n))
  <2>1. F \in Int /\ E \in Int /\ E - F \in 28..31 /\ n = F + 14
    BY <1>2, DayInItsMonth DEF MidDay
  <2>2. First(level, n) = F /\ End(level, n) = E
    BY <1>2 DEF First, End
  <2> HIDE DEF F, E
  <2> QED BY <1>2, <2>1, <2>2
<1>3. CASE level = "year"
  <2> DEFINE F == NewYear(YearOf(n))
             E == NewYear(YearOf(n) + 1)
  <2>1. F \in Int /\ E \in Int /\ (E = F + 365 \/ E = F + 366) /\ n = F + 182
    BY <1>3, InYear DEF MidDay
  <2>2. First(level, n) = F /\ End(level, n) = E
    BY <1>3 DEF First, End
  <2> HIDE DEF F, E
  <2> QED BY <1>3, <2>1, <2>2
<1> QED BY <1>1, <1>2, <1>3 DEF Periods

\* The window of a graph has all days of its period in it.
LEMMA GraphShows ==
  ASSUME Width = 400, NEW s, IsLabel(s)
  PROVE  /\ Graph(s).starttime <= Midnight(FirstDay(s) - Sunday(s))
         /\ Midnight(EndDay(s) - Sunday(s)) <= Graph(s).endtime
<1>1. PICK level \in Periods, n \in Int : LabelAt(s, level, n)
  BY DEF IsLabel
<1>2. s.level = level /\ FirstDay(s) = First(level, n) /\ EndDay(s) = End(level, n)
  BY <1>1, LabelAtIs
<1>3. MidDay(level, n) = n
  BY <1>1 DEF LabelAt
<1> DEFINE w == Graph(s)
           i == Interval(level)
           t == Noon(n)
           F == FirstDay(s) - Sunday(s)
           E == EndDay(s) - Sunday(s)
<1>4. /\ w.starttime = w.endtime - Width * i /\ w.endtime \in Int /\ i \in Int
      /\ t + i * (Width \div 2) - i < w.endtime /\ w.endtime <= t + i * (Width \div 2)
  BY <1>1, BrowserAssumption, WindowIs
<1>5. t \in Int /\ n * Day + 10 * Hour <= t /\ t <= n * Day + 11 * Hour
  BY NoonIs
<1>6. F \in Int /\ E \in Int
  BY <1>2, <1>3, PeriodIs DEF Sunday
<1>7. /\ Midnight(F) \in Int /\ F * Day - 2 * Hour <= Midnight(F)
      /\ Midnight(F) <= F * Day - Hour
      /\ Midnight(E) \in Int /\ Midnight(E) <= E * Day - Hour
  BY <1>6, MidnightIs
<1>8. \/ i = 300 /\ F = n /\ E = n + 1
      \/ i = 1800 /\ F = n - 3 /\ E = n + 4
      \/ i = 7200 /\ F = n - 14 /\ E <= n + 17
      \/ i = 86400 /\ F = n - 182 /\ E <= n + 184
  <2>1. CASE level = "day"
    BY <1>2, <1>3, <2>1, PeriodIs, IntervalIs DEF Sunday
  <2>2. CASE level = "week"
    BY <1>2, <1>3, <2>2, PeriodIs, IntervalIs DEF Sunday
  <2>3. CASE level = "month"
    BY <1>2, <1>3, <2>3, PeriodIs, IntervalIs DEF Sunday
  <2>4. CASE level = "year"
    <3>1. F = n - 182 /\ E <= n + 184
      BY <1>2, <1>3, <2>4, PeriodIs DEF Sunday
    <3>2. i = 86400
      BY <2>4, IntervalIs DEF Day
    <3> QED BY <3>1, <3>2, SMT
  <2> QED BY <2>1, <2>2, <2>3, <2>4, SMT DEF Periods
<1> DEFINE MF == Midnight(F)
           ME == Midnight(E)
           e == w.endtime
<1> HIDE DEF i, t, F, E, MF, ME, e
<1>9. /\ w.starttime = e - 400 * i /\ e \in Int /\ t + i * 200 - i < e /\ e <= t + i * 200
  <2>1. 400 \div 2 = 200
    BY SMT
  <2> QED BY <1>4, <2>1 DEF e
<1>10. e - 400 * i <= MF /\ ME <= e
  BY <1>5, <1>6, <1>7, <1>8, <1>9, SMT DEF MF, ME, Day, Hour
<1> QED BY <1>9, <1>10 DEF MF, ME, F, E, e

\* The graph of every page (drawlabeled of meteodraw.cc) shows all of its period, with the
\* width that the script repeats.
THEOREM GraphsShowTheirPeriods ==
  ASSUME Width = 400
  PROVE  BrowserSpec => []GraphShowsPeriod
<1>1. LabelInv => GraphShowsPeriod
  BY GraphShows DEF LabelInv, GraphShowsPeriod
<1> QED BY <1>1, PagesHaveLabels, PTL

-----------------------------------------------------------------------------
(* The periods that the areas of a graph stand for                         *)

Parts == {"day", "week", "month"}

\* Of a day: the first day of its period, weeks from Sunday, and the first one after it
PartFirst(sub, d) ==
  CASE sub = "day" -> d
    [] sub = "week" -> d - WeekDay(d)
    [] sub = "month" -> DayNumber(YearOf(d), MonthIn(d), 1)
PartEnd(sub, d) ==
  CASE sub = "day" -> d + 1
    [] sub = "week" -> d - WeekDay(d) + 7
    [] sub = "month" -> NextMonth(YearOf(d), MonthIn(d))
Starts(sub, k) == k \in Int /\ PartFirst(sub, k) = k

\* A day is in one part, and parts follow one another.
LEMMA PartIs ==
  ASSUME NEW sub \in Parts, NEW d \in Int
  PROVE  /\ Starts(sub, PartFirst(sub, d)) /\ Starts(sub, PartEnd(sub, d))
         /\ PartFirst(sub, d) <= d /\ d < PartEnd(sub, d)
         /\ \A j : Starts(sub, j) => j <= PartFirst(sub, d) \/ j >= PartEnd(sub, d)
         /\ sub # "day" => PartEnd(sub, d) >= PartFirst(sub, d) + 7
<1>1. CASE sub = "day"
  BY <1>1 DEF PartFirst, PartEnd, Starts
<1>2. CASE sub = "week"
  <2> DEFINE W == WeekDay(d)
  <2>1. W \in 0..6
    BY WeekDayIs
  <2>2. PartFirst(sub, d) = d - W /\ PartEnd(sub, d) = d - W + 7
    BY <1>2 DEF PartFirst, PartEnd
  <2>3. WeekDay(d - W) = 0 /\ WeekDay(d - W + 7) = 0
    BY SMT DEF WeekDay
  <2>4. \A j \in Int : WeekDay(j) = 0 => j <= d - W \/ j >= d - W + 7
    BY SMT DEF WeekDay
  <2> HIDE DEF W
  <2>5. \A j : Starts(sub, j) <=> j \in Int /\ WeekDay(j) = 0
    <3> SUFFICES ASSUME NEW j PROVE Starts(sub, j) <=> j \in Int /\ WeekDay(j) = 0
      OBVIOUS
    <3>1. PartFirst(sub, j) = j - WeekDay(j)
      BY <1>2 DEF PartFirst
    <3>2. j \in Int => WeekDay(j) \in 0..6
      BY WeekDayIs
    <3> QED BY <3>1, <3>2 DEF Starts
  <2>6. d - W \in Int /\ d - W + 7 \in Int
    BY <2>1
  <2>7. \A j : Starts(sub, j) => j <= d - W \/ j >= d - W + 7
    BY <2>4, <2>5
  <2> QED BY <2>1, <2>2, <2>3, <2>5, <2>6, <2>7
<1>3. CASE sub = "month"
  <2> DEFINE F == DayNumber(YearOf(d), MonthIn(d), 1)
             E == NextMonth(YearOf(d), MonthIn(d))
  <2>1. /\ F \in Int /\ E \in Int /\ F <= d /\ d < E /\ E - F \in 28..31
        /\ \A k \in Int : F <= k /\ k < E
             => YearOf(k) = YearOf(d) /\ MonthIn(k) = MonthIn(d)
    BY DayInItsMonth
  <2>2. PartFirst(sub, d) = F /\ PartEnd(sub, d) = E
    BY <1>3 DEF PartFirst, PartEnd
  <2>3. \A j : Starts(sub, j) <=> j \in Int /\ DayNumber(YearOf(j), MonthIn(j), 1) = j
    BY <1>3 DEF Starts, PartFirst
  <2>4. \A k \in Int : F <= k /\ k < E => DayNumber(YearOf(k), MonthIn(k), 1) = F
    BY <2>1
  <2>5. E <= E /\ E < E + 28
    <3> HIDE DEF E, F
    <3> QED BY <2>1
  <2>6. DayNumber(YearOf(E), MonthIn(E), 1) = E
    <3>1. /\ NextMonth(YearOf(d), MonthIn(d)) <= E
          /\ E < NextMonth(YearOf(d), MonthIn(d)) + 28 /\ E \in Int
      BY <2>1, <2>5
    <3> QED BY <3>1, MonthAfter
  <2> HIDE DEF E, F
  <2>7. F <= F /\ F < E /\ E >= F + 7
    BY <2>1
  <2>8. Starts(sub, F) /\ Starts(sub, E)
    BY <2>1, <2>3, <2>4, <2>6, <2>7
  <2>9. \A j : Starts(sub, j) => j <= F \/ j >= E
    <3> SUFFICES ASSUME NEW j, Starts(sub, j), ~(j <= F), ~(j >= E) PROVE FALSE
      OBVIOUS
    <3>1. j \in Int /\ DayNumber(YearOf(j), MonthIn(j), 1) = j
      BY <2>3
    <3>2. F <= j /\ j < E
      BY <2>1, <3>1
    <3>3. j = F
      BY <2>4, <3>1, <3>2
    <3> QED BY <2>1, <3>3
  <2> QED BY <2>1, <2>2, <2>7, <2>8, <2>9
<1> QED BY <1>1, <1>2, <1>3 DEF Parts

\* The same days as those of the period around the middle of the label
LEMMA PartOfLabel ==
  ASSUME NEW sub \in Parts, NEW d \in Int
  PROVE  LET sunday == IF sub = "week" THEN 1 ELSE 0
         IN  /\ First(sub, MidDay(sub, d)) - sunday = PartFirst(sub, d)
             /\ End(sub, MidDay(sub, d)) - sunday = PartEnd(sub, d)
<1>1. CASE sub = "day"
  <2>1. (d + 1) - 0 = d + 1 /\ d - 0 = d
    OBVIOUS
  <2> QED BY <1>1, <2>1 DEF MidDay, First, End, PartFirst, PartEnd
<1>2. CASE sub = "week"
  <2> DEFINE W == WeekDay(d)
             M == d - W + 3
  <2>1. W \in 0..6
    BY WeekDayIs
  <2>2. MidDay(sub, d) = M
    BY <1>2 DEF MidDay
  <2>3. First(sub, M) = M - 2 /\ End(sub, M) = M + 5
    BY <1>2 DEF First, End
  <2>4. PartFirst(sub, d) = d - W /\ PartEnd(sub, d) = d - W + 7
    BY <1>2 DEF PartFirst, PartEnd
  <2>5. (M - 2) - 1 = d - W /\ (M + 5) - 1 = d - W + 7
    <3> HIDE DEF W
    <3> QED BY <2>1
  <2> HIDE DEF M, W
  <2> QED BY <1>2, <2>2, <2>3, <2>4, <2>5
<1>3. CASE sub = "month"
  <2> DEFINE F == DayNumber(YearOf(d), MonthIn(d), 1)
             E == NextMonth(YearOf(d), MonthIn(d))
             M == F + 14
  <2>1. /\ F \in Int /\ E \in Int /\ E - F \in 28..31
        /\ \A k \in Int : F <= k /\ k < E
             => YearOf(k) = YearOf(d) /\ MonthIn(k) = MonthIn(d)
    BY DayInItsMonth
  <2>2. MidDay(sub, d) = M
    BY <1>3 DEF MidDay
  <2>3. M \in Int /\ F <= M /\ M < E
    <3> HIDE DEF F, E
    <3> QED BY <2>1
  <2>4. YearOf(M) = YearOf(d) /\ MonthIn(M) = MonthIn(d)
    BY <2>1, <2>3
  <2> HIDE DEF M
  <2>5. First(sub, M) = F /\ End(sub, M) = E
    BY <1>3, <2>4 DEF First, End
  <2>6. PartFirst(sub, d) = F /\ PartEnd(sub, d) = E
    BY <1>3 DEF PartFirst, PartEnd
  <2> HIDE DEF F, E
  <2>7. F - 0 = F /\ E - 0 = E
    BY <2>1
  <2> QED BY <1>3, <2>2, <2>5, <2>6, <2>7
<1> QED BY <1>1, <1>2, <1>3 DEF Parts

-----------------------------------------------------------------------------
(* The ticks                                                               *)

\* Days begin one after another.
LEMMA DawnsInOrder ==
  ASSUME NEW j \in Int, NEW k \in Int
  PROVE  /\ j < k => Dawn(j) + 20 * Hour <= Dawn(k)
         /\ j <= k => Dawn(j) <= Dawn(k)
<1>1. /\ Dawn(j) \in Int /\ (Dawn(j) = j * Day - 2 * Hour \/ Dawn(j) = j * Day - Hour)
      /\ Dawn(k) \in Int /\ (Dawn(k) = k * Day - 2 * Hour \/ Dawn(k) = k * Day - Hour)
  BY DawnIs
<1>2. j < k => Dawn(j) + 20 * Hour <= Dawn(k)
  BY <1>1, SMT DEF Day, Hour
<1>3. j = k => Dawn(j) <= Dawn(k)
  BY <1>1
<1> QED BY <1>1, <1>2, <1>3, SMT DEF Hour

\* Between the beginnings of two days, the clock shows days between them.
LEMMA ClockDayBetween ==
  ASSUME NEW k \in Int, NEW e \in Int, NEW t \in Int, Dawn(k) <= t, t < Dawn(e)
  PROVE  k <= ClockDay(t) /\ ClockDay(t) < e
<1> DEFINE c == ClockDay(t)
<1>1. c \in Int /\ c + 1 \in Int
  BY ClockIs
<1>2. Dawn(c) <= t /\ t < Dawn(c + 1)
  BY DayOfClock
<1> HIDE DEF c
<1>3. /\ Dawn(c) \in Int /\ Dawn(c + 1) \in Int /\ Dawn(k) \in Int /\ Dawn(e) \in Int
  BY <1>1, DawnIs
<1>4. c + 1 <= k => Dawn(c + 1) <= Dawn(k)
  BY <1>1, DawnsInOrder
<1>5. e <= c => Dawn(e) <= Dawn(c)
  BY <1>1, DawnsInOrder
<1>6. k <= c /\ c < e
  BY <1>1, <1>2, <1>3, <1>4, <1>5
<1> QED BY <1>6 DEF c

\* the time on the grid at which a day that begins a part of a period has its tick
Tick(sub, k) == IF sub = "day" THEN Dawn(k) ELSE k * Day - Hour

\* The tick of a day is in its first hour.
LEMMA TickIs ==
  ASSUME NEW sub \in Parts, NEW k \in Int
  PROVE  /\ Tick(sub, k) \in Int /\ ClockDay(Tick(sub, k)) = k
         /\ k * Day - 2 * Hour <= Tick(sub, k) /\ Tick(sub, k) <= k * Day - Hour
         /\ Dawn(k) <= Tick(sub, k)
         /\ sub = "day" => Clock(Tick(sub, k)) % Day = 0
         /\ Clock(Tick(sub, k)) % Day \in {0, Hour}
<1> DEFINE t == Tick(sub, k)
<1>1. Dawn(k) \in Int /\ (Dawn(k) = k * Day - 2 * Hour \/ Dawn(k) = k * Day - Hour)
  BY DawnIs
<1>2. CASE sub = "day"
  <2>1. t = Dawn(k)
    BY <1>2 DEF Tick
  <2>2. k + 1 \in Int
    OBVIOUS
  <2>3. Dawn(k) < Dawn(k + 1)
    BY <1>1, <2>2, DawnsInOrder, DawnIs, SMT DEF Hour
  <2>4. ClockDay(t) = k
    <3>1. t \in Int /\ Dawn(k) <= t /\ t < Dawn(k + 1)
      BY <1>1, <2>1, <2>3, SMT
    <3> HIDE DEF t
    <3>2. k <= ClockDay(t) /\ ClockDay(t) < k + 1
      BY <2>2, <3>1, ClockDayBetween
    <3>3. ClockDay(t) \in Int
      BY <3>1, ClockIs
    <3> QED BY <3>2, <3>3
  <2>5. Clock(t) % Day = 0
    BY <1>1, <2>1, <2>4, DayOfClock
  <2>6. k * Day - 2 * Hour <= t /\ t <= k * Day - Hour
    BY <1>1, <2>1, SMT DEF Day, Hour
  <2> QED BY <1>1, <2>1, <2>4, <2>5, <2>6
<1>3. CASE sub # "day"
  <2>1. t = k * Day - Hour /\ t \in Int
    BY <1>3, SMT DEF Tick, Day, Hour
  <2>2. k * Day - Hour <= t /\ t < k * Day + 22 * Hour
    BY <2>1, SMT DEF Day, Hour
  <2>3. ClockDay(t) = k
    BY <2>1, <2>2, ClockDayIn
  <2>4. Dawn(k) <= t /\ k * Day - 2 * Hour <= t /\ t <= k * Day - Hour
    BY <1>1, <2>1, SMT DEF Day, Hour
  <2>5. Clock(t) = k * Day \/ Clock(t) = k * Day + Hour
    BY <2>1, SMT DEF Clock, Day, Hour
  <2>6. Clock(t) % Day \in {0, Hour}
    BY <2>5, SMT DEF Day, Hour
  <2> QED BY <1>3, <2>1, <2>3, <2>4, <2>6
<1> QED BY <1>2, <1>3

\* The grid of weeks, months and years has the full hours at which days may begin.
Steps(s, n, e, i) == e = s + n * i /\ Offset % 86400 = 3600 /\ (e + Offset) % i = 0
IsStep(s, n, i, t) == \E j \in 0..n : t = s + j * i
OnHour(s, e, i, t) == s <= t /\ t <= e /\ (t + 3600) % i = 0

\* The grid steps of half an hour,
LEMMA Steps1800 ==
  ASSUME Offset \in Int, NEW s \in Int, NEW n \in Nat, NEW e \in Int, Steps(s, n, e, 1800),
         NEW t \in Int
  PROVE  IsStep(s, n, 1800, t) <=> OnHour(s, e, 1800, t)
<1>1. (e + 3600) % 1800 = 0 /\ e = s + n * 1800
  BY SMT DEF Steps
<1>2. ASSUME OnHour(s, e, 1800, t) PROVE IsStep(s, n, 1800, t)
  <2> DEFINE j == (t - s) \div 1800
  <2>1. j \in Int /\ 0 <= j /\ j <= n /\ t = s + j * 1800
    BY <1>1, <1>2, SMT DEF OnHour
  <2>2. j \in 0..n
    BY <2>1
  <2> HIDE DEF j
  <2> QED BY <2>1, <2>2 DEF IsStep
<1>3. ASSUME IsStep(s, n, 1800, t) PROVE OnHour(s, e, 1800, t)
  <2>1. PICK j \in 0..n : t = s + j * 1800
    BY <1>3 DEF IsStep
  <2>2. s <= t /\ t <= e /\ (t + 3600) % 1800 = 0
    BY <1>1, <2>1, SMT
  <2> QED BY <2>2, SMT DEF OnHour
<1> QED BY <1>2, <1>3

\* of two hours
LEMMA Steps7200 ==
  ASSUME Offset \in Int, NEW s \in Int, NEW n \in Nat, NEW e \in Int, Steps(s, n, e, 7200),
         NEW t \in Int
  PROVE  IsStep(s, n, 7200, t) <=> OnHour(s, e, 7200, t)
<1>1. (e + 3600) % 7200 = 0 /\ e = s + n * 7200
  BY SMT DEF Steps
<1>2. ASSUME OnHour(s, e, 7200, t) PROVE IsStep(s, n, 7200, t)
  <2> DEFINE j == (t - s) \div 7200
  <2>1. j \in Int /\ 0 <= j /\ j <= n /\ t = s + j * 7200
    BY <1>1, <1>2, SMT DEF OnHour
  <2>2. j \in 0..n
    BY <2>1
  <2> HIDE DEF j
  <2> QED BY <2>1, <2>2 DEF IsStep
<1>3. ASSUME IsStep(s, n, 7200, t) PROVE OnHour(s, e, 7200, t)
  <2>1. PICK j \in 0..n : t = s + j * 7200
    BY <1>3 DEF IsStep
  <2>2. s <= t /\ t <= e /\ (t + 3600) % 7200 = 0
    BY <1>1, <2>1, SMT
  <2> QED BY <2>2, SMT DEF OnHour
<1> QED BY <1>2, <1>3

\* and of a day.
LEMMA Steps86400 ==
  ASSUME Offset \in Int, NEW s \in Int, NEW n \in Nat, NEW e \in Int, Steps(s, n, e, 86400),
         NEW t \in Int
  PROVE  IsStep(s, n, 86400, t) <=> OnHour(s, e, 86400, t)
<1>1. (e + 3600) % 86400 = 0 /\ e = s + n * 86400
  BY SMT DEF Steps
<1>2. ASSUME OnHour(s, e, 86400, t) PROVE IsStep(s, n, 86400, t)
  <2> DEFINE j == (t - s) \div 86400
  <2>1. j \in Int /\ 0 <= j /\ j <= n /\ t = s + j * 86400
    BY <1>1, <1>2, SMT DEF OnHour
  <2>2. j \in 0..n
    BY <2>1
  <2> HIDE DEF j
  <2> QED BY <2>1, <2>2 DEF IsStep
<1>3. ASSUME IsStep(s, n, 86400, t) PROVE OnHour(s, e, 86400, t)
  <2>1. PICK j \in 0..n : t = s + j * 86400
    BY <1>3 DEF IsStep
  <2>2. s <= t /\ t <= e /\ (t + 3600) % 86400 = 0
    BY <1>1, <2>1, SMT
  <2> QED BY <2>2, SMT DEF OnHour
<1> QED BY <1>2, <1>3

\* With the offset of the station, the grid has the full hours.
LEMMA OnGridIs ==
  ASSUME Offset \in Int, Offset % Day = Hour, NEW w, IsWindow(w),
         w.interval \in {1800, 7200, Day}, w.endtime \in Int,
         (w.endtime + Offset) % w.interval = 0, NEW t \in Int
  PROVE  t \in Grid(w) <=>
           w.starttime <= t /\ t <= w.endtime /\ (t + Hour) % w.interval = 0
<1> DEFINE s == w.starttime
           n == w.width
           e == w.endtime
           i == w.interval
<1>1. s \in Int /\ n \in Nat /\ e \in Int
  BY DEF IsWindow
<1>2. Steps(s, n, e, i)
  BY DEF IsWindow, Steps, Day, Hour
<1>3. i \in {1800, 7200, 86400}
  BY DEF Day
<1>4. t \in Grid(w) <=> IsStep(s, n, i, t)
  BY DEF Grid, getTimeFromIndex, IsStep
<1>5. IsStep(s, n, i, t) <=> OnHour(s, e, i, t)
  <2> HIDE DEF s, n, e, i
  <2> QED BY <1>1, <1>2, <1>3, Steps1800, Steps7200, Steps86400
<1> QED BY <1>4, <1>5 DEF OnHour, Hour

PartInterval(sub) ==
  CASE sub = "day" -> 1800 [] sub = "week" -> 7200 [] sub = "month" -> Day

\* A window of a week, month or year
PartsWindow(w, sub) ==
  /\ IsWindow(w) /\ w.endtime \in Int /\ (w.endtime + Offset) % w.interval = 0
  /\ w.interval = PartInterval(sub)

\* The interval of a window depends on its parts.
LEMMA IntervalOfParts ==
  ASSUME NEW w, NEW sub \in Parts, PartsWindow(w, sub)
  PROVE  /\ sub = "day" => w.interval = 1800
         /\ sub = "week" => w.interval = 7200
         /\ sub = "month" => w.interval = Day
BY DEF PartsWindow, PartInterval, Parts

\* What the conditions for a tick say of the clock
LEMMA TickFields ==
  ASSUME NEW t \in Int
  PROVE  /\ startOfDay(localtime(t)) <=>
              (Clock(t) % Day) \div Hour = 0 /\ ((Clock(t) % Day) % Hour) \div Minute = 0
         /\ startOfWeek(localtime(t)) <=>
              (Clock(t) % Day) \div Hour \in {0, 1} /\ WeekDay(ClockDay(t)) = 0
         /\ startOfMonth(localtime(t)) <=>
              ClockDay(t) - DayNumber(YearOf(ClockDay(t)), MonthIn(ClockDay(t)), 1) + 1 = 1
BY FieldsAre DEF startOfDay, startOfWeek, startOfMonth

\* the condition that a window has for its ticks
LEMMA TicksOfWindow ==
  ASSUME NEW w, NEW sub \in Parts, PartsWindow(w, sub), NEW t
  PROVE  t \in Ticks(w) <=>
           /\ t \in Grid(w)
           /\ sub = "day" => startOfDay(localtime(t))
           /\ sub = "week" => startOfWeek(localtime(t))
           /\ sub = "month" => startOfMonth(localtime(t))
<1>1. CASE sub = "day"
  <2>1. w.interval = 1800
    BY <1>1, IntervalOfParts
  <2> QED BY <1>1, <2>1, SMT DEF Ticks
<1>2. CASE sub = "week"
  <2>1. w.interval = 7200
    BY <1>2, IntervalOfParts
  <2> QED BY <1>2, <2>1, SMT DEF Ticks
<1>3. CASE sub = "month"
  <2>1. w.interval = 86400
    BY <1>3, IntervalOfParts DEF Day
  <2> QED BY <1>3, <2>1, SMT DEF Ticks
<1> QED BY <1>1, <1>2, <1>3 DEF Parts

\* On the grid, a tick is where a day begins that begins a part of the period.
LEMMA TickOnGrid ==
  ASSUME NEW sub \in Parts, NEW k \in Int
  PROVE  LET t == Tick(sub, k)
         IN  /\ sub = "day" => (t + Hour) % 1800 = 0
             /\ sub = "week" => (t + Hour) % 7200 = 0
             /\ sub = "month" => (t + Hour) % Day = 0
<1> DEFINE t == Tick(sub, k)
<1>1. CASE sub = "day"
  <2>1. t = k * Day - 2 * Hour \/ t = k * Day - Hour
    BY <1>1, DawnIs DEF Tick
  <2> HIDE DEF t
  <2>2. (t + Hour) % 1800 = 0
    BY <2>1, SMT DEF Day, Hour
  <2> QED BY <1>1, <2>2 DEF t
<1>2. CASE sub # "day"
  <2>1. t = k * Day - Hour
    BY <1>2 DEF Tick
  <2> HIDE DEF t
  <2>2. (t + Hour) % 7200 = 0 /\ (t + Hour) % Day = 0
    BY <2>1, SMT DEF Day, Hour
  <2> QED BY <1>2, <2>2 DEF t
<1> QED BY <1>1, <1>2

\* There the fields are those of a tick,
LEMMA TickIsTick ==
  ASSUME NEW sub \in Parts, NEW k, Starts(sub, k)
  PROVE  LET tm == localtime(Tick(sub, k))
         IN  /\ sub = "day" => startOfDay(tm)
             /\ sub = "week" => startOfWeek(tm)
             /\ sub = "month" => startOfMonth(tm)
<1> DEFINE t == Tick(sub, k)
           c == Clock(t) % Day
<1>1. k \in Int /\ PartFirst(sub, k) = k
  BY DEF Starts
<1>2. t \in Int /\ ClockDay(t) = k /\ (sub = "day" => c = 0) /\ c \in {0, Hour}
  BY <1>1, TickIs
<1> HIDE DEF t, c
<1>3. CASE sub = "day"
  <2>1. c \div Hour = 0 /\ (c % Hour) \div Minute = 0
    BY <1>2, <1>3, SMT DEF Hour, Minute
  <2> QED BY <1>2, <1>3, <2>1, TickFields DEF t, c
<1>4. CASE sub = "week"
  <2>1. c \div Hour \in {0, 1}
    BY <1>2, SMT DEF Hour
  <2>2. k - WeekDay(k) = k /\ WeekDay(k) \in 0..6
    BY <1>1, <1>4, WeekDayIs DEF PartFirst
  <2>3. WeekDay(k) = 0
    BY <1>1, <2>2
  <2> QED BY <1>2, <1>4, <2>1, <2>3, TickFields DEF t, c
<1>5. CASE sub = "month"
  <2>1. DayNumber(YearOf(k), MonthIn(k), 1) = k
    BY <1>1, <1>5 DEF PartFirst
  <2>2. k - k + 1 = 1
    BY <1>1
  <2> QED BY <1>2, <1>5, <2>1, <2>2, TickFields DEF t, c
<1> QED BY <1>3, <1>4, <1>5 DEF Parts

\* and where they are, such a day begins.
LEMMA TickStarts ==
  ASSUME NEW sub \in Parts, NEW t \in Int,
         sub = "day" => (t + Hour) % 1800 = 0 /\ startOfDay(localtime(t)),
         sub = "week" => (t + Hour) % 7200 = 0 /\ startOfWeek(localtime(t)),
         sub = "month" => (t + Hour) % Day = 0 /\ startOfMonth(localtime(t))
  PROVE  Starts(sub, ClockDay(t)) /\ t = Tick(sub, ClockDay(t))
<1> DEFINE k == ClockDay(t)
           c == Clock(t) % Day
           D == Dawn(k)
<1>1. /\ k \in Int /\ c \in Int /\ 0 <= c /\ c < Day /\ Clock(t) = k * Day + c
  BY ClockIs
<1>2. D \in Int /\ (D = k * Day - 2 * Hour \/ D = k * Day - Hour)
  BY <1>1, DawnIs
<1>3. /\ c = 0 <=> t = D
      /\ t < D + 2 * Hour => c = t - D
      /\ t >= D + 2 * Hour => c >= 2 * Hour
  BY DayOfClock
<1>4. Clock(t) = t + Hour \/ Clock(t) = t + 2 * Hour
  BY DEF Clock
<1>5. CASE sub = "day"
  <2>1. c \div Hour = 0 /\ (c % Hour) \div Minute = 0
    BY <1>5, TickFields
  <2>2. (t + Hour) % 1800 = 0
    BY <1>5
  <2> HIDE DEF c, D, k
  <2>3. c < 60
    BY <1>1, <2>1, SMT DEF Hour, Minute
  <2>4. (k * Day + c) % 1800 = 0
    BY <1>1, <1>4, <2>2, SMT DEF Hour, Day
  <2>5. c = 0
    BY <1>1, <2>3, <2>4, SMT DEF Day
  <2>6. t = D
    BY <1>3, <2>5
  <2> QED BY <1>1, <1>5, <2>6 DEF D, k, Tick, Starts, PartFirst
<1>6. CASE sub = "week"
  <2>1. c \div Hour \in {0, 1} /\ WeekDay(k) = 0
    BY <1>6, TickFields
  <2>2. (t + Hour) % 7200 = 0
    BY <1>6
  <2> HIDE DEF c, D, k
  <2>3. c < 2 * Hour
    BY <1>1, <2>1, SMT DEF Hour
  <2>4. c = t - D
    BY <1>1, <1>2, <1>3, <2>3, SMT DEF Hour
  <2>5. t = k * Day - Hour
    BY <1>1, <1>2, <2>2, <2>3, <2>4, SMT DEF Day, Hour
  <2>6. k - 0 = k
    BY <1>1
  <2> QED BY <1>1, <1>6, <2>1, <2>5, <2>6 DEF k, Tick, Starts, PartFirst
<1>7. CASE sub = "month"
  <2> DEFINE F == DayNumber(YearOf(k), MonthIn(k), 1)
  <2>1. k - F + 1 = 1
    BY <1>7, TickFields
  <2>2. (t + Hour) % Day = 0
    BY <1>7
  <2>3. F \in Int
    BY <1>1, DayInItsMonth
  <2> HIDE DEF c, D, k, F
  <2>4. t = k * Day - Hour
    BY <1>1, <1>4, <2>2, SMT DEF Day, Hour
  <2>5. F = k
    BY <1>1, <2>1, <2>3
  <2> QED BY <1>1, <1>7, <2>4, <2>5 DEF F, k, Tick, Starts, PartFirst
<1> QED BY <1>5, <1>6, <1>7 DEF Parts

\* The ticks of a window are those of the days in it that begin a part.
LEMMA TicksAre ==
  ASSUME Offset \in Int, Offset % Day = Hour,
         NEW w, NEW sub \in Parts, PartsWindow(w, sub)
  PROVE  /\ \A t \in Ticks(w) : /\ t \in Int /\ w.starttime <= t /\ t <= w.endtime
                                /\ Starts(sub, ClockDay(t)) /\ t = Tick(sub, ClockDay(t))
         /\ \A k : Starts(sub, k) /\ w.starttime <= Tick(sub, k)
              /\ Tick(sub, k) <= w.endtime
                     => Tick(sub, k) \in Ticks(w)
<1>1. IsWindow(w) /\ w.endtime \in Int /\ (w.endtime + Offset) % w.interval = 0
  BY DEF PartsWindow
<1>2. /\ w.interval \in {1800, 7200, Day}
      /\ sub = "day" => w.interval = 1800
      /\ sub = "week" => w.interval = 7200
      /\ sub = "month" => w.interval = Day
  BY IntervalOfParts DEF Parts
<1>3. \A t \in Int : t \in Grid(w) <=>
           w.starttime <= t /\ t <= w.endtime /\ (t + Hour) % w.interval = 0
  BY <1>1, <1>2, OnGridIs
<1>4. ASSUME NEW t \in Ticks(w)
      PROVE  /\ t \in Int /\ w.starttime <= t /\ t <= w.endtime
             /\ Starts(sub, ClockDay(t)) /\ t = Tick(sub, ClockDay(t))
  <2>1. /\ t \in Grid(w)
        /\ sub = "day" => startOfDay(localtime(t))
        /\ sub = "week" => startOfWeek(localtime(t))
        /\ sub = "month" => startOfMonth(localtime(t))
    BY TicksOfWindow
  <2>2. t \in Int /\ w.starttime <= t /\ t <= w.endtime
    BY <1>1, <2>1, GridIs
  <2>3. (t + Hour) % w.interval = 0
    BY <1>3, <2>1, <2>2
  <2> QED BY <1>2, <2>1, <2>2, <2>3, TickStarts
<1>5. ASSUME NEW k, Starts(sub, k), w.starttime <= Tick(sub, k), Tick(sub, k) <= w.endtime
      PROVE  Tick(sub, k) \in Ticks(w)
  <2> DEFINE t == Tick(sub, k)
  <2>1. k \in Int
    BY <1>5 DEF Starts
  <2>2. t \in Int
    BY <2>1, TickIs
  <2>3. (t + Hour) % w.interval = 0
    BY <1>2, <2>1, TickOnGrid DEF Parts
  <2>4. t \in Grid(w)
    BY <1>3, <1>5, <2>2, <2>3
  <2>5. /\ sub = "day" => startOfDay(localtime(t))
        /\ sub = "week" => startOfWeek(localtime(t))
        /\ sub = "month" => startOfMonth(localtime(t))
    BY <1>5, TickIsTick
  <2> HIDE DEF t
  <2>6. t \in Ticks(w)
    BY <2>4, <2>5, TicksOfWindow
  <2> QED BY <2>6 DEF t
<1> QED BY <1>4, <1>5

\* Ticks are in the order of their days.
LEMMA TicksInOrder ==
  ASSUME NEW sub \in Parts, NEW j \in Int, NEW k \in Int
  PROVE  /\ j < k => Tick(sub, j) < Tick(sub, k)
         /\ j <= k => Tick(sub, j) <= Tick(sub, k)
<1>1. CASE sub = "day"
  <2>1. Dawn(j) \in Int /\ Dawn(k) \in Int
    BY DawnIs
  <2>2. Tick(sub, j) = Dawn(j) /\ Tick(sub, k) = Dawn(k)
    BY <1>1 DEF Tick
  <2> QED BY <2>1, <2>2, DawnsInOrder, SMT DEF Hour
<1>2. CASE sub # "day"
  <2>1. Tick(sub, j) = j * Day - Hour /\ Tick(sub, k) = k * Day - Hour
    BY <1>2 DEF Tick
  <2> QED BY <2>1, SMT DEF Day, Hour
<1> QED BY <1>1, <1>2

\* the middle of an area, as getArea computes it
LEMMA MiddleIs ==
  ASSUME NEW start \in Int, NEW end \in Int, start < end,
         NEW mid, mid = start \div 2 + end \div 2
  PROVE  mid \in Int /\ start <= mid /\ mid < end /\ 2 * mid <= start + end
BY SMT

\* no window has this grid line of two hours before a Sunday's at its beginning
NotBeforeSunday(w) ==
  \A k \in Int : WeekDay(k) = 0 => w.starttime # k * Day - 3 * Hour

\* the day in the middle of an area
DayOfArea(a) == ClockDay(a.start \div 2 + a.end \div 2)

\* Between its ticks, an area has the part of the day in its middle.
LEMMA AreaOfPart ==
  ASSUME Offset \in Int, Offset % Day = Hour,
         NEW w, NEW sub \in Parts, PartsWindow(w, sub), sub = "week" => NotBeforeSunday(w),
         NEW a, a \in Areas(w)
  PROVE  /\ DayOfArea(a) \in Int
         /\ a.start # w.starttime => a.start = Tick(sub, PartFirst(sub, DayOfArea(a)))
         /\ a.end # w.endtime => a.end = Tick(sub, PartEnd(sub, DayOfArea(a)))
<1> DEFINE start == a.start
           end == a.end
           mid == start \div 2 + end \div 2
           d == ClockDay(mid)
           k == PartFirst(sub, d)
           e == PartEnd(sub, d)
           tk == Tick(sub, k)
           te == Tick(sub, e)
<1>1. IsWindow(w) /\ w.endtime \in Int /\ (w.endtime + Offset) % w.interval = 0
  BY DEF PartsWindow
<1>2. /\ w.interval \in {1800, 7200, Day}
      /\ sub = "day" => w.interval = 1800
      /\ sub = "week" => w.interval = 7200
      /\ sub = "month" => w.interval = Day
  BY IntervalOfParts DEF Parts
<1>3. IsArea(w, a)
  BY <1>1, AreaIs
<1>4. /\ start \in Int /\ end \in Int /\ w.starttime <= start /\ end <= w.endtime
      /\ start < end /\ w.starttime \in Int
  BY <1>1, <1>3 DEF IsArea, IsWindow
<1>5. mid \in Int /\ start <= mid /\ mid < end /\ 2 * mid <= start + end
  BY <1>4, MiddleIs
<1> HIDE DEF mid
<1>6. d \in Int /\ d + 1 \in Int /\ Dawn(d) <= mid /\ mid < Dawn(d + 1)
  BY <1>5, ClockIs, DayOfClock
<1> HIDE DEF d
<1>7. /\ Starts(sub, k) /\ Starts(sub, e) /\ k \in Int /\ e \in Int /\ k <= d /\ d < e
      /\ \A j : Starts(sub, j) => j <= k \/ j >= e
  BY <1>6, PartIs DEF Starts
<1> HIDE DEF k, e
<1>8. /\ tk \in Int /\ te \in Int /\ Dawn(k) <= tk /\ Dawn(e) <= te
  BY <1>7, TickIs
<1>9. Dawn(k) <= mid /\ mid < te
  <2>1. Dawn(k) <= Dawn(d) /\ Dawn(d + 1) <= Dawn(e)
    <3>1. d + 1 <= e
      BY <1>6, <1>7
    <3> QED BY <1>6, <1>7, <3>1, DawnsInOrder
  <2>2. Dawn(k) \in Int /\ Dawn(d) \in Int /\ Dawn(d + 1) \in Int /\ Dawn(e) \in Int
    BY <1>6, <1>7, DawnIs
  <2> HIDE DEF tk, te
  <2> QED BY <1>5, <1>6, <1>8, <2>1, <2>2
<1>10. \A j : Starts(sub, j) => Tick(sub, j) <= start \/ Tick(sub, j) >= end
  <2> SUFFICES ASSUME NEW j, Starts(sub, j), ~(Tick(sub, j) <= start),
                      ~(Tick(sub, j) >= end)
               PROVE  FALSE
    OBVIOUS
  <2> DEFINE t == Tick(sub, j)
  <2>1. t \in Int
    BY TickIs DEF Starts
  <2>2. w.starttime <= t /\ t <= w.endtime /\ t < end /\ ~(t <= start)
    <3> HIDE DEF t
    <3>1. ~(t <= start) /\ ~(t >= end)
      BY DEF t
    <3> HIDE DEF start, end
    <3> QED BY <1>1, <1>4, <2>1, <3>1
  <2>3. t \in Ticks(w)
    BY <2>2, TicksAre
  <2> QED BY <1>3, <2>2, <2>3 DEF IsArea
<1>11. te >= end
  <2>1. te <= start \/ te >= end
    BY <1>7, <1>10
  <2> HIDE DEF te, start, end
  <2> QED BY <1>4, <1>5, <1>8, <1>9, <2>1
<1>12. tk <= mid
  <2> SUFFICES ASSUME ~(tk <= mid) PROVE FALSE
    OBVIOUS
  <2>1. sub # "day"
    <3>1. sub = "day" => tk = Dawn(k)
      BY DEF Tick
    <3> QED BY <1>9, <3>1
  <2>2. tk = k * Day - Hour /\ Dawn(k) \in Int /\ k * Day - 2 * Hour <= Dawn(k)
    BY <1>7, <2>1, DawnIs, SMT DEF Tick, Day, Hour
  <2>3. tk <= start \/ tk >= end
    BY <1>7, <1>10
  <2>4. start \in Grid(w)
    <3>1. start \in Ticks(w) \cup {w.starttime}
      BY <1>3 DEF IsArea
    <3>2. \A t \in Ticks(w) : t \in Grid(w)
      BY TicksOfWindow
    <3> QED BY <1>1, <3>1, <3>2, GridIs
  <2>5. (start + Hour) % w.interval = 0
    BY <1>1, <1>2, <1>4, <2>4, OnGridIs
  <2>6. start \in Ticks(w) => \E j \in Int : start = j * Day - Hour
    <3>1. start \in Ticks(w) => /\ Starts(sub, ClockDay(start))
                                /\ start = Tick(sub, ClockDay(start))
      BY TicksAre
    <3> QED BY <2>1, <3>1 DEF Starts, Tick
  <2>7. start = w.starttime \/ start \in Ticks(w)
    BY <1>3 DEF IsArea
  <2> HIDE DEF tk, start, end
  <2>8. tk - 2 * Hour <= start /\ start < tk
    <3>1. tk - Hour <= mid
      BY <1>5, <1>7, <1>8, <1>9, <2>2, SMT DEF Day, Hour
    <3>2. start < tk /\ end <= tk
      BY <1>4, <1>5, <1>8, <2>3
    <3> QED BY <1>4, <1>5, <1>8, <3>1, <3>2, SMT DEF Hour
  <2>9. CASE sub = "month"
    <3>1. (start + Hour) % Day = 0
      BY <1>2, <2>5, <2>9
    <3> QED BY <1>4, <1>7, <2>2, <2>8, <3>1, SMT DEF Day, Hour
  <2>10. CASE sub = "week"
    <3>1. (start + Hour) % 7200 = 0
      BY <1>2, <2>5, <2>10
    <3>2. start = k * Day - 3 * Hour
      BY <1>4, <1>7, <2>2, <2>8, <3>1, SMT DEF Day, Hour
    <3>3. \A j \in Int : k * Day - 3 * Hour # j * Day - Hour
      BY <1>7, SMT DEF Day, Hour
    <3>4. start = w.starttime
      BY <2>6, <2>7, <3>2, <3>3
    <3>5. WeekDay(k) = 0
      <4>1. k - WeekDay(k) = k /\ WeekDay(k) \in 0..6
        BY <1>7, <2>10, WeekDayIs DEF Starts, PartFirst
      <4> QED BY <1>7, <4>1
    <3> QED BY <1>7, <2>10, <3>2, <3>4, <3>5 DEF NotBeforeSunday
  <2> QED BY <2>1, <2>9, <2>10 DEF Parts
<1>13. tk <= start
  <2>1. tk <= start \/ tk >= end
    BY <1>7, <1>10
  <2> HIDE DEF tk, start, end
  <2> QED BY <1>4, <1>5, <1>8, <1>12, <2>1
<1>14. ASSUME NEW t, t \in Ticks(w)
       PROVE  t \in Int /\ (t <= tk \/ t >= te)
  <2> DEFINE j == ClockDay(t)
  <2>1. t \in Int /\ Starts(sub, j) /\ t = Tick(sub, j)
    BY <1>14, TicksAre
  <2> HIDE DEF j
  <2>2. j \in Int /\ (j <= k \/ e <= j)
    BY <1>7, <2>1 DEF Starts
  <2>3. t <= tk \/ te <= t
    BY <1>7, <2>1, <2>2, TicksInOrder
  <2> HIDE DEF tk, te
  <2> QED BY <1>8, <2>1, <2>3
<1>15. /\ start # w.starttime => start \in Ticks(w)
       /\ end # w.endtime => end \in Ticks(w)
  BY <1>3 DEF IsArea
<1> HIDE DEF tk, te, start, end
<1>16. start # w.starttime => start = tk
  BY <1>4, <1>8, <1>11, <1>13, <1>14, <1>15
<1>17. end # w.endtime => end = te
  BY <1>4, <1>5, <1>8, <1>11, <1>12, <1>14, <1>15
<1> QED BY <1>6, <1>16, <1>17 DEF tk, te, start, end, k, e, d, mid, DayOfArea

\* The window of a month begins four or six hours before a grid line of a Sunday could be.
LEMMA MonthWindow ==
  ASSUME NEW o \in Int, o % Day = Hour, NEW n \in Int, NEW e \in Int, (e + o) % 7200 = 0,
         Noon(n) + 398 * Hour < e, e <= Noon(n) + 400 * Hour,
         NEW start, start = e - 400 * 7200
  PROVE  /\ start = n * Day - 389 * Hour \/ start = n * Day - 391 * Hour
         /\ \A k \in Int : start # k * Day - 3 * Hour
<1>1. Noon(n) = n * Day + 11 * Hour \/ Noon(n) = n * Day + 10 * Hour
  BY SMT DEF Noon, Day, Hour
<1>2. (e + 3600) % 7200 = 0
  BY SMT DEF Day, Hour
<1> DEFINE t == Noon(n)
<1>3. t = n * Day + 11 * Hour \/ t = n * Day + 10 * Hour
  BY <1>1
<1>4. t + 398 * Hour < e /\ e <= t + 400 * Hour
  OBVIOUS
<1> HIDE DEF t
<1>5. start = n * Day - 389 * Hour \/ start = n * Day - 391 * Hour
  BY <1>2, <1>3, <1>4, SMT DEF Day, Hour
<1>6. \A k \in Int : start # k * Day - 3 * Hour
  BY <1>5, SMT DEF Day, Hour
<1> QED BY <1>5, <1>6

\* The windows with areas: their parts, and what is special in a month
LEMMA WindowOfLabel ==
  ASSUME Offset % Day = Hour, Width = 400,
         NEW s, NEW level \in Details, NEW n, LabelAt(s, level, n),
         NEW w, w = Graph(s), NEW sub, sub = DownLevel(level)
  PROVE  /\ sub \in Parts /\ PartsWindow(w, sub) /\ LevelOf(w.interval) = level
         /\ sub = "week" => /\ NotBeforeSunday(w) /\ level = "month"
                            /\ n * Day - 17 * Day <= w.starttime
                            /\ w.endtime <= n * Day + 18 * Day
<1> DEFINE i == Interval(level)
           e == w.endtime
           t == Noon(n)
<1>1. Offset \in Int /\ Width \in Nat /\ level \in Periods
  BY BrowserAssumption DEF Details, Periods
<1>2. /\ i \in Int /\ 300 <= i /\ w.interval = i /\ w.width = Width
      /\ w.starttime = e - Width * i /\ e \in Int /\ w.starttime \in Int
      /\ (e + Offset) % i = 0
      /\ t + i * (Width \div 2) - i < e /\ e <= t + i * (Width \div 2)
  BY <1>1, WindowIs
<1>3. /\ sub \in Parts /\ i = PartInterval(sub)
      /\ sub = "week" => level = "month" /\ i = 7200
  <2>1. PartInterval("day") = 1800 /\ PartInterval("week") = 7200
          /\ PartInterval("month") = Day
    BY DEF PartInterval
  <2>2. CASE level = "week"
    <3>1. sub = "day" /\ i = 1800
      BY <2>2, DownLevelIs, IntervalIs
    <3> QED BY <2>1, <3>1 DEF Parts
  <2>3. CASE level = "month"
    <3>1. sub = "week" /\ i = 7200
      BY <2>3, DownLevelIs, IntervalIs
    <3> QED BY <2>1, <2>3, <3>1 DEF Parts
  <2>4. CASE level = "year"
    <3>1. sub = "month" /\ i = Day
      BY <2>4, DownLevelIs, IntervalIs
    <3> QED BY <2>1, <3>1 DEF Parts
  <2> QED BY <2>2, <2>3, <2>4 DEF Details
<1>4. LevelOf(w.interval) = level
  BY <1>1, <1>2, LevelOfIs
<1> HIDE DEF i, e, t
<1>5. IsWindow(w)
  <2>1. 400 * i \in Int
    BY <1>2
  <2>2. w.starttime + 400 * i = e
    BY <1>2
  <2> QED BY <1>2, <2>2 DEF IsWindow, e
<1>6. PartsWindow(w, sub)
  BY <1>2, <1>3, <1>5 DEF PartsWindow, e
<1>7. ASSUME sub = "week"
      PROVE  /\ NotBeforeSunday(w)
             /\ n * Day - 17 * Day <= w.starttime /\ e <= n * Day + 18 * Day
  <2>1. n \in Int
    BY DEF LabelAt
  <2>2. 400 \div 2 = 200 /\ i = 7200
    BY <1>3, <1>7, SMT
  <2>3. t \in Int
    BY <2>1, NoonIs DEF t
  <2>4. (e + Offset) % 7200 = 0 /\ w.starttime = e - 400 * 7200
    BY <1>2, <2>2
  <2>5. t + 398 * Hour < e /\ e <= t + 400 * Hour
    BY <1>2, <2>2, <2>3, SMT DEF Hour
  <2>6. /\ w.starttime = n * Day - 389 * Hour \/ w.starttime = n * Day - 391 * Hour
        /\ \A k \in Int : w.starttime # k * Day - 3 * Hour
    BY <1>1, <1>2, <2>1, <2>4, <2>5, MonthWindow DEF t
  <2>7. NotBeforeSunday(w)
    BY <2>6 DEF NotBeforeSunday
  <2>8. n * Day - 17 * Day <= w.starttime /\ e <= n * Day + 18 * Day
    BY <1>2, <2>1, <2>4, <2>6, SMT DEF Day, Hour
  <2> QED BY <2>7, <2>8
<1> QED BY <1>3, <1>4, <1>6, <1>7 DEF e

\* What the label of an area says of its days
LEMMA AreaLabel ==
  ASSUME Offset % Day = Hour, Width = 400,
         NEW s, NEW level \in Details, NEW n, LabelAt(s, level, n), ~OddYear(s.year),
         NEW w, w = Graph(s), NEW sub, sub = DownLevel(level), NEW a, a \in Areas(w)
  PROVE  /\ DayOfArea(a) \in Int
         /\ FirstDay(a.label) - Sunday(a.label) = PartFirst(sub, DayOfArea(a))
         /\ EndDay(a.label) - Sunday(a.label) = PartEnd(sub, DayOfArea(a))
<1> DEFINE mid == a.start \div 2 + a.end \div 2
           d == DayOfArea(a)
           M == MidDay(sub, d)
<1>1. /\ sub \in Parts /\ PartsWindow(w, sub) /\ LevelOf(w.interval) = level
      /\ sub = "week" => /\ level = "month" /\ n * Day - 17 * Day <= w.starttime
                         /\ w.endtime <= n * Day + 18 * Day
  BY WindowOfLabel
<1>2. IsWindow(w) /\ w.endtime \in Int /\ w.starttime \in Int
  BY <1>1 DEF PartsWindow, IsWindow
<1>3. /\ a.start \in Int /\ a.end \in Int /\ a = getArea(w, a.start, a.end)
      /\ a.start < a.end /\ w.starttime <= a.start /\ a.end <= w.endtime
  BY <1>2, AreaIs DEF IsArea
<1>4. mid \in Int /\ a.start <= mid /\ mid < a.end
  BY <1>3, MiddleIs
<1>5. d \in Int /\ d = ClockDay(mid)
  BY <1>4, ClockIs DEF DayOfArea
<1>6. sub \in Periods
  BY <1>1 DEF Parts, Periods
<1>7. a.label = LabelOf(sub, M)
  <2>1. a.label = getString(Timelabel(mid, sub))
    BY <1>1, <1>3 DEF getArea
  <2> HIDE DEF mid
  <2> QED BY <1>4, <1>5, <1>6, <2>1, TimelabelIs
<1>8. M \in Int /\ MidDay(sub, M) = M
  BY <1>5, <1>6, MidDayIs
<1>9. sub = "week" => ~OddWeek(M)
  <2> SUFFICES ASSUME sub = "week" PROVE ~OddWeek(M)
    OBVIOUS
  <2>1. WeekDay(M) = 3
    BY <1>8, WeekDayIs, SMT DEF MidDay
  <2>2. n \in Int
    BY DEF LabelAt
  <2>3. ~OddYear(YearOf(n))
    BY <1>1, LabelAtIs
  <2>4. d - 3 <= M /\ M <= d + 3
    <3>1. WeekDay(d) \in 0..6 /\ M = d - WeekDay(d) + 3
      BY <1>5, WeekDayIs DEF MidDay
    <3> HIDE DEF d, M
    <3> QED BY <1>5, <3>1
  <2>5. n - 18 <= d /\ d <= n + 18
    <3>1. Clock(mid) = mid + Hour \/ Clock(mid) = mid + 2 * Hour
      BY DEF Clock
    <3> HIDE DEF mid, d
    <3>2. d * Day <= Clock(mid) /\ Clock(mid) < d * Day + Day /\ Clock(mid) \in Int
      <4>1. Clock(mid) = d * Day + (Clock(mid) % Day)
        BY <1>4, <1>5, ClockIs
      <4>2. /\ Clock(mid) \in Int /\ Clock(mid) % Day \in Int /\ 0 <= Clock(mid) % Day
            /\ Clock(mid) % Day < Day
        BY <1>4, ClockIs
      <4> QED BY <1>5, <4>1, <4>2, SMT DEF Day
    <3>3. n * Day - 17 * Day <= mid /\ mid < n * Day + 18 * Day
      BY <1>1, <1>2, <1>3, <1>4, <2>2, SMT DEF Day
    <3> QED BY <1>4, <1>5, <2>2, <3>1, <3>2, <3>3, SMT DEF Day, Hour
  <2>6. n - 30 <= M /\ M <= n + 30
    <3> HIDE DEF d, M
    <3> QED BY <1>5, <1>8, <2>2, <2>4, <2>5
  <2> QED BY <1>8, <2>1, <2>2, <2>3, <2>6, NoOddWeekNear
<1>10. LabelAt(a.label, sub, M)
  BY <1>6, <1>7, <1>8, <1>9, LabelledIs
<1>11. /\ a.label.level = sub /\ FirstDay(a.label) = First(sub, M)
       /\ EndDay(a.label) = End(sub, M)
  BY <1>10, LabelAtIs
<1> QED BY <1>1, <1>5, <1>11, PartOfLabel DEF Sunday

\* Areas begin and end with the part that their label is of, and no two have the same.
LEMMA OneAreaInGraph ==
  ASSUME Offset % Day = Hour, Width = 400,
         NEW s, NEW level \in Details, NEW n, LabelAt(s, level, n), ~OddYear(s.year),
         NEW w, w = Graph(s)
  PROVE  OneAreaEach(w, Areas(w))
<1> DEFINE sub == DownLevel(level)
           k(a) == PartFirst(sub, DayOfArea(a))
           e(a) == PartEnd(sub, DayOfArea(a))
<1>1. sub \in Parts /\ PartsWindow(w, sub) /\ (sub = "week" => NotBeforeSunday(w))
  BY WindowOfLabel
<1>2. IsWindow(w) /\ Offset \in Int /\ w.starttime \in Int /\ w.endtime \in Int
  BY <1>1, BrowserAssumption DEF PartsWindow, IsWindow
<1>3. ASSUME NEW a, a \in Areas(w)
      PROVE  /\ FirstDay(a.label) - Sunday(a.label) = k(a)
             /\ EndDay(a.label) - Sunday(a.label) = e(a)
             /\ a.start # w.starttime => a.start = Tick(sub, k(a))
             /\ a.end # w.endtime => a.end = Tick(sub, e(a))
             /\ k(a) \in Int /\ e(a) \in Int /\ k(a) < e(a) /\ IsArea(w, a)
  <2>1. /\ FirstDay(a.label) - Sunday(a.label) = k(a)
        /\ EndDay(a.label) - Sunday(a.label) = e(a) /\ DayOfArea(a) \in Int
    BY <1>3, AreaLabel
  <2>2. /\ a.start # w.starttime => a.start = Tick(sub, k(a))
        /\ a.end # w.endtime => a.end = Tick(sub, e(a))
    BY <1>1, <1>2, <1>3, AreaOfPart
  <2>3. /\ Starts(sub, k(a)) /\ Starts(sub, e(a))
        /\ k(a) <= DayOfArea(a) /\ DayOfArea(a) < e(a)
    BY <1>1, <2>1, PartIs
  <2>4. k(a) \in Int /\ e(a) \in Int
    BY <2>3 DEF Starts
  <2>5. IsArea(w, a)
    BY <1>2, <1>3, AreaIs
  <2> HIDE DEF k, e
  <2> QED BY <2>1, <2>2, <2>3, <2>4, <2>5
<1> HIDE DEF k, e, sub
<1>4. \A j \in Int : DayOf(Tick(sub, j)) = j
  <2> SUFFICES ASSUME NEW j \in Int PROVE DayOf(Tick(sub, j)) = j
    OBVIOUS
  <2>1. Tick(sub, j) \in Int /\ ClockDay(Tick(sub, j)) = j
    BY <1>1, TickIs
  <2> QED BY <2>1, FirstOfIs DEF DayOf, First, Periods
<1>5. ASSUME NEW a, a \in Areas(w), NEW b, b \in Areas(w), a.label = b.label
      PROVE  ~(a.end < b.end)
  <2> SUFFICES ASSUME a.end < b.end PROVE FALSE
    OBVIOUS
  <2>1. IsArea(w, a) /\ IsArea(w, b)
    BY <1>3, <1>5
  <2>2. /\ a.start \in Int /\ a.end \in Int /\ b.start \in Int /\ b.end \in Int
        /\ w.starttime <= a.start /\ a.start < a.end /\ b.end <= w.endtime
    BY <2>1 DEF IsArea
  <2>3. a.end # w.endtime
    BY <1>2, <2>2
  <2>4. a.end \in Ticks(w)
    BY <2>1, <2>3 DEF IsArea
  <2>5. a.end <= b.start
    BY <2>1, <2>4 DEF IsArea
  <2>6. b.start # w.starttime
    BY <1>2, <2>2, <2>5
  <2>7. a.end = Tick(sub, e(a)) /\ b.start = Tick(sub, k(b))
    BY <1>3, <1>5, <2>3, <2>6
  <2>8. k(a) = k(b) /\ k(b) \in Int /\ e(a) \in Int /\ k(b) < e(a)
    <3>1. /\ k(a) = FirstDay(a.label) - Sunday(a.label)
          /\ k(b) = FirstDay(b.label) - Sunday(b.label)
      BY <1>3, <1>5
    <3>2. k(a) \in Int /\ e(a) \in Int /\ k(a) < e(a)
      BY <1>3, <1>5
    <3> QED BY <1>5, <3>1, <3>2
  <2>9. Tick(sub, k(b)) < Tick(sub, e(a))
    BY <1>1, <2>8, TicksInOrder
  <2> QED BY <2>2, <2>5, <2>7, <2>9
<1>6. ASSUME NEW a, a \in Areas(w), NEW b, b \in Areas(w), a.label = b.label
      PROVE  a = b
  <2>1. ~(a.end < b.end) /\ ~(b.end < a.end)
    BY <1>5, <1>6
  <2>2. IsArea(w, a) /\ IsArea(w, b)
    BY <1>3, <1>6
  <2>3. a.end \in Int /\ b.end \in Int
    BY <2>2 DEF IsArea
  <2>4. a.end = b.end
    BY <2>1, <2>3
  <2>5. /\ a.start = Max(Before(w, a.end)) /\ b.start = Max(Before(w, b.end))
        /\ a = getArea(w, a.start, a.end) /\ b = getArea(w, b.start, b.end)
    BY <2>2 DEF IsArea
  <2> QED BY <2>4, <2>5
<1>7. ASSUME NEW a, a \in Areas(w)
      PROVE  /\ a.start # w.starttime
                  => DayOf(a.start) = FirstDay(a.label) - Sunday(a.label)
             /\ a.end # w.endtime => DayOf(a.end) = EndDay(a.label) - Sunday(a.label)
  BY <1>3, <1>4, <1>7
<1> QED BY <1>6, <1>7 DEF OneAreaEach

\* the property in these words
LEMMA OneAreaIs ==
  ASSUME Offset % Day = Hour, Width = 400, NEW s, IsLabel(s), ~OddYear(s.year)
  PROVE  OneAreaEach(Graph(s), Areas(Graph(s)))
<1> DEFINE w == Graph(s)
<1>1. PICK level \in Periods, n \in Int : LabelAt(s, level, n)
  BY DEF IsLabel
<1>2. CASE level = "day"
  <2>1. w.interval = 300
    BY <1>1, <1>2, IntervalIs, WindowIs, BrowserAssumption
  <2> HIDE DEF w
  <2>2. Areas(w) = {}
    BY <2>1, SMT DEF Areas
  <2> QED BY <2>2 DEF OneAreaEach, w
<1>3. CASE level # "day"
  <2>1. level \in Details
    BY <1>3 DEF Periods, Details
  <2> QED BY <1>1, <2>1, OneAreaInGraph
<1> QED BY <1>2, <1>3

\* In the graph of every page (getAreas of GraphWindow.cc), each day, week or month has one
\* area that leads to its label, also when the clock is changed, for a grid that the offset
\* puts on the full hours of winter time and all years but those with an odd week.
THEOREM AreasArePeriods ==
  ASSUME Offset % Day = Hour, Width = 400, NoOddYear
  PROVE  BrowserSpec => []OneAreaPerPeriod
<1>1. LabelInv => OneAreaPerPeriod
  <2> SUFFICES ASSUME LabelInv PROVE OneAreaPerPeriod
    OBVIOUS
  <2>1. IsLabel(label) /\ ~OddYear(label.year)
    BY DEF LabelInv, NoOddYear
  <2> QED BY <2>1, OneAreaIs DEF OneAreaPerPeriod
<1> QED BY <1>1, PagesHaveLabels, PTL
=============================================================================
