SPECIFICATION Spec
CONSTANTS
  Station <- MCStation
  Sensor <- MCSensor
  Mfield <- MCMfield
  Ids = {1, 2, 3}
  FieldNames = {"wind", "rain", "hail"}
  SensorNames <- MCSensorNames
  FqNames <- MCFqNames
  Columns <- MCColumns
  FieldsXpath <- MCFieldsXpath
  Document <- MCDocument
INVARIANTS
  CachesAreTrue
