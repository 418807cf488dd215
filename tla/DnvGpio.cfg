SPECIFICATION Spec
CONSTANTS
  Gpio = {4, 5, 20}
  Locked = {5}
  Type <- MCType
  Use <- MCUse
INVARIANTS TypeOK TablesAgree EnableMatchesType DeliversToRequested LevelHolds
PROPERTY EventDelivered
