SPECIFICATION Spec
SYMMETRY Workers
CONSTRAINT UpToOverlap
CONSTANTS
  Procs = {init, p, q}
  init = init
  p = p
  q = q
  InitProc = init
  PAT_SIZE = 4
  BITS = 4
  KB = 4
  PAGE_SIZE = 2
  Unusable <- MCUnusable
  Prios = {0, 1}
  MmapArgs <- MCMmapArgs
INVARIANTS
  PageOwnedOnce
  IdentityUntouched
PROPERTIES
  MappingsStable
  PanicOnlyWhenFull
