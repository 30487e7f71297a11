SPECIFICATION ParallelSpec
CONSTANTS
  c = c
  d = d
  Node = {c, d}
  DocNode = {d}
  NoiseNode = {}
  Text = {t1, t2}
  Model = {m1}
  Absent = Absent
  NullText = NullText
  Fallback = Fallback
  NoHash = NoHash
  NoRow = NoRow
  DocVerifyMaxRows = 1
  Scope <- MCScope
  ChunkRows = 2
  Worker = {w1, w2}
  SingleSubmitter = FALSE
  CanFail = FALSE
INVARIANTS
  ResumeMakesSearchable
ACTION_CONSTRAINT
  EditsOnlyC
