SPECIFICATION FairSpec
CONSTANTS
  Device = {d1, d2}
  Target = {d1, d2}
  Action = {yes}
  BadAction = bad
  Webhook = {w1, w2}
  Malformed = {w2}
  Nobody = Nobody
  Request = {1, 2}
  MaxFaults = 1
INVARIANTS
  AnswersAreInOrder
  AgentHearsOfRecorded
  TargetsLearn
PROPERTIES
  AnswersSettle
CHECK_DEADLOCK FALSE
