SPECIFICATION Spec
CONSTANTS
  Measurements <- MCMeasurements
  Bursts <- MCBursts
INVARIANTS
  TypeOK
  AcceptsWhatWasSent
  UnpacksWhatWasMeasured
CHECK_DEADLOCK FALSE
