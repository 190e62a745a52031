CONSTANTS
  Measurements <- MCMeasurements
  MaxSkew = 4
  MinProbe = 1200
  MaxProbe = 1232
SPECIFICATION Spec
INVARIANTS
  TypeOK
  LosingEvidenceOnlyWithholds
  AgreesWithReference
  FiguresAreTheirOwn
CHECK_DEADLOCK FALSE
