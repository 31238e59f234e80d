SPECIFICATION FairSpec
CONSTANTS
  Messages <- MCMessages
  Pods <- MCPods
  Workers <- MCWorkers
  Scenarios <- MCScenarios
  MarkDelay = 1
  TailGrace = 1
  RetryUses = 2
  MaxDrops = 1

PROPERTIES
  UndoneAfterRecovery
