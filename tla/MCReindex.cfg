SPECIFICATION ReindexSpec
CONSTANTS
  c = c
  d = d
  x = x
  Node = {c, d}
  DocNode = {d}
  NoiseNode = {}
  Text = {t1, t2}
  Model = {m1}
  Absent = Absent
  NullText = NullText
  Fallback = Fallback
  NoHash = NoHash
  NoRow = NoRow
  DocVerifyMaxRows = 2
  Scope <- MCScope
  ChunkRows = 1
  Deep = {c}
  Shard = {d}
  Modes = {"all","phase1","phase2","worker","rebuild"}
  CanDie = TRUE
INVARIANTS
  ReindexTypeOK
  SearchableAfterPass
  RebuiltMatchesRows
PROPERTIES
  GoodIndexKept
CONSTRAINT
  OneEdit
VIEW
  WithoutTouched
