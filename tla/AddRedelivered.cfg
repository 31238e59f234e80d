SPECIFICATION Spec
CONSTANTS
  Workloads <- MCAddRemove
  MaxConcurrent = 1
  MaxDeliver = 2
INVARIANTS
  AddSurvivesRedelivery
