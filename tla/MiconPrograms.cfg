SPECIFICATION Spec
CONSTANTS
  RetryCount = 2
  Model = {"HTGL", "TS-XEL", "TS1400", "other"}
  MinPWM = 10
  MaxPWM = 78
  MinTemp = 28
  MaxTemp = 56
  Temps <- MCTemps
  Short = {49}
INVARIANTS TypeOK  EndsBootFirst FanFollows
