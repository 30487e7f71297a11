SPECIFICATION LazySpec
CONSTANTS
  c = c
  d = d
  Node = {c}
  DocNode = {}
  NoiseNode = {}
  Text = {t1, t2}
  Model = {m1}
  Absent = Absent
  NullText = NullText
  Fallback = Fallback
  NoHash = NoHash
  NoRow = NoRow
  DocVerifyMaxRows = 1
  Scope <- MCScope
  ChunkRows = 2
  Query = {q1}
  Served = m1
  LazyLimit = 1
INVARIANTS
  StaleIsTombstoned
