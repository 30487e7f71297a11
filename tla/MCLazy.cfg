SPECIFICATION LazyFairSpec
CONSTANTS
  c = c
  d = d
  Node = {c, d}
  DocNode = {d}
  NoiseNode = {}
  Text = {t1, t2}
  Model = {m1}
  Absent = Absent
  NullText = NullText
  Fallback = Fallback
  NoHash = NoHash
  NoRow = NoRow
  DocVerifyMaxRows = 1
  Scope <- MCScope
  ChunkRows = 2
  Query = {q1}
  Served = m1
  LazyLimit = 1
INVARIANTS
  StaleUnlessRaced
PROPERTIES
  FreshUnlessHeld
  DocsConverge
  CodeConverges
  OrphansGo
  BacklogDrains
