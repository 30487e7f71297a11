SPECIFICATION ParallelFairSpec
CONSTANTS
  c = c
  d = d
  Node = {c, d}
  DocNode = {d}
  NoiseNode = {}
  Text = {t1}
  Model = {m1}
  Absent = Absent
  NullText = NullText
  Fallback = Fallback
  NoHash = NoHash
  NoRow = NoRow
  DocVerifyMaxRows = 1
  Scope <- MCScope
  ChunkRows = 2
  Worker = {w1, w2}
  SingleSubmitter = FALSE
  CanFail = TRUE
INVARIANTS
  ParallelTypeOK
  ClaimedOnce
  NothingLeftBehind
PROPERTIES
  ImplementsFreshness
  CancelStopsClaims
  RunEnds
ACTION_CONSTRAINT
  EditsOnlyC
