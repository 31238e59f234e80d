SPECIFICATION FairSpec
CONSTANTS
  Events <- MCSettle
  Rooms <- MCTwoRooms
  Accounts <- MCAccounts
  CreatedAt <- MCTwoCreatedAt
  LegacyRooms = {"r1"}
  Members <- MCTwoRoomSubs
  Readers = {}
  PoisonRooms = {"r2"}
  PoisonSubs <- MCPoisonSub
  Replicas = {p1}
  MaxAckPending = 2
  MentionBudget = 1
  MaxFaults = 1
  MaxClock = 2
INVARIANTS
  RoomConverges
  GracefulStopHoldsNothing
PROPERTIES
  EventuallySettled
