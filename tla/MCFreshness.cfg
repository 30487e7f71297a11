SPECIFICATION Spec
CONSTANTS
  c = c
  d = d
  Node = {c, d}
  DocNode = {d}
  NoiseNode = {}
  Text = {t1, t2}
  Model = {m1, m2}
  Absent = Absent
  NullText = NullText
  Fallback = Fallback
  NoHash = NoHash
  NoRow = NoRow
  DocVerifyMaxRows = 1
  Scope <- MCScope
  ChunkRows = 1
INVARIANTS
  TypeOK
  StaleIsTombstoned
  StaleDocIsRecent
  OrphanIsRecent
PROPERTIES
  FreshRowsSurvive
  AckIsSettled
