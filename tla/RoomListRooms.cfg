SPECIFICATION Spec
CONSTANTS
  Events <- MCSystem
  Rooms <- MCRooms
  Accounts <- MCAccounts
  CreatedAt <- MCCreatedAt
  LegacyRooms = {}
  Members <- MCSubs
  Readers = {}
  PoisonRooms = {}
  PoisonSubs = {}
  Replicas = {p1, p2}
  MaxAckPending = 2
  MentionBudget = 9
  MaxFaults = 1
  MaxClock = 3
INVARIANTS
  BatchIsReference
  AckedWritesLanded
  RoomConverges
PROPERTIES
  RoomNeverRegresses
