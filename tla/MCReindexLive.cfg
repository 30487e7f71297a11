SPECIFICATION ReindexFairSpec
CONSTANTS
  c = c
  d = d
  x = x
  Node = {c, x}
  DocNode = {}
  NoiseNode = {x}
  Text = {t1}
  Model = {m1, m2}
  Absent = Absent
  NullText = NullText
  Fallback = Fallback
  NoHash = NoHash
  NoRow = NoRow
  DocVerifyMaxRows = 2
  Scope <- MCScope
  ChunkRows = 1
  Deep = {c}
  Shard = {x}
  Modes = {"all"}
  CanDie = TRUE
INVARIANTS
  UpToDateUnlessOwed
PROPERTIES
  PassEnds
ACTION_CONSTRAINT
  EditsOnlyC
