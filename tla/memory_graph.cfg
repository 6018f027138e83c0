SPECIFICATION Spec
CONSTANTS
  s1 = s1  s2 = s2  m1 = m1  m2 = m2
  NoAddition = NoAddition
  Servers = {s1, s2}
  Metadata = {m1, m2}
  NearestCount = 2
  MaxNotes = 3
  MaxUpdates = 2
INVARIANTS GraphInv EmbeddingMatchesNote LinksSound AnswerInOrder
SYMMETRY Symmetry
CHECK_DEADLOCK FALSE
