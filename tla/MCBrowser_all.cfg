SPECIFICATION BrowserSpec
CONSTANTS
  NoLabel = NoLabel
  Width = 400
  Offset = 3600
  StationStart = 1104061000
  Now = 1253000000
  Horizon = {2005, 2006, 2007, 2008, 2009}
INVARIANTS
  LinksLeadOn
  GraphShowsPeriod
  OneAreaPerPeriod
