CONSTANTS
  d1 = d1
  d2 = d2
  Devices = {d1, d2}
  Snippets = {s1}
  Groups = {g1}
  NoGroup = NoGroup
  Texts = {t1}
  NoText = NoText
  NoId = NoId
  Stamps <- Crossing
  MaxSeq = 3
SPECIFICATION TableSpec
CHECK_DEADLOCK FALSE
INVARIANTS TableSound
PROPERTIES ImplementsFeed
