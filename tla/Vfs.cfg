SPECIFICATION Spec
CONSTANTS
  Literals <- MCLiterals
  OnDisk <- MCOnDisk
  UserPaths <- MCUserPaths
  Hash <- MCHash
  HASH_BITS = 6
  PROBE_LENGTH = 2
  NULL = NULL
  Buffers = {p}
  Handles = {1, 2, 3, 4, 5}
  Processes = {shell, child}
  MaxReferences = 3
  MaxInodes = 5
  MaxRefused = 1
SYMMETRY Symmetry
CHECK_DEADLOCK FALSE
INVARIANTS
  LookupFindsTheFile
  CountsMatchHandles
  RegistryFollowsOpens
