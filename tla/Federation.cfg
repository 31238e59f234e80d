SPECIFICATION FairSpec
CONSTANTS
  Workloads <- MCWorkloads
  MaxConcurrent = 1
  MaxDeliver = 2
INVARIANTS
  ReplicaConverges
  ReplicaIsPastOrigin
  MembershipConverges
PROPERTIES
  MarksNeverRegress
  EventuallyQuiescent
