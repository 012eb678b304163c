\* Commands of up to four words, given around a shift of the zone's offset.
SPECIFICATION Spec
CONSTANTS
  Words <- MCWords
  MaxWords = 4
  Instants <- MCInstants
  Zones <- MCZones
  IntMax <- MCIntMax
  None = None
INVARIANTS
  TypeOK
  FiresLater
  DocumentedSplit
  NextOccurrence
  ClockSurvivesShift
