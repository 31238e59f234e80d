SPECIFICATION Spec
CONSTANTS
  Events <- MCMentions
  Rooms <- MCRooms
  Accounts <- MCAccounts
  CreatedAt <- MCNoTime
  LegacyRooms = {}
  Members <- MCSubs
  Readers <- MCBReads
  PoisonRooms = {"r1"}
  PoisonSubs = {}
  Replicas = {p1}
  MaxAckPending = 2
  MentionBudget = 1
  MaxFaults = 1
  MaxClock = 2
INVARIANTS
  BadgeNotLost
  SenderHasRead
PROPERTIES
  BadgeOnlyForUnread
