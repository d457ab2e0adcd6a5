SPECIFICATION Spec
CONSTANTS
  Radix = 2
  DigitChoices = {0, 1}
  Times = {1, 2}
  ForeignNames <- SomeNames
  MaxFiles = 3
  MaxForeign = 1
  MaxRemoved = 1
CHECK_DEADLOCK FALSE
INVARIANTS
  FinalNameMeansComplete
  ReportedFilesAreCaptures
  NumbersFollowTime
PROPERTIES
  CapturesStay
