SPECIFICATION Spec
CONSTANTS
  Workloads <- MCFavorite
  MaxConcurrent = 1
  MaxDeliver = 2
INVARIANTS
  OrderInsensitive
