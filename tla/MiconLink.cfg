SPECIFICATION FairSpec
CONSTANTS
  RetryCount = 2
  MaxCalls = 2
INVARIANTS
  TypeOK
  AnswerIsOwn
  InStepWithoutTrouble
PROPERTIES
  CallReturns
  CommandsInOrder
