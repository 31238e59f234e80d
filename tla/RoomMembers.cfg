CONSTANTS
  boss = boss
  near = near
  far = far
  section = section
  dept = dept
  Accounts = {boss, near, far}
  Orgs = {section, dept}
  OrgOf <- MCOrgOf
  Remote = {far}
  Workers = {w1, w2}
  MaxWorkers = {1, 2}
  Scenarios <- MCScenarios
  MaxRoomSize = 3
  MaxFaults = 1
  NoKey = NoKey
SPECIFICATION Spec
INVARIANTS
  KeysRetrievable
  RosterAgrees
  KeyFollowsMembership
  CountExact
  AnnouncedAsCrossSite
PROPERTIES
  KeysAreLedger
SYMMETRY MCWorkers
