SPECIFICATION Spec
CONSTANTS
  NoThread = NoThread
  Thread = {t1, t2}
  Reg <- MCReg
  UnlockedReg <- MCUnlockedReg
  Value <- MCValue
  HasBankSel = TRUE
  PowerOn <- MCPowerOn
INVARIANTS
  TypeOK
  AccessHitsRegister
  BankCacheTrue
PROPERTY
  AtomicRegisters
