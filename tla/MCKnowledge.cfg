\* No symmetry: a liveness property is checked.
SPECIFICATION FairSpec
CONSTANTS
  Bases = {b1}
  Docs = {d1, d2}
  Searches = {s1}
  t1 = t1
  t2 = t2
  Texts = {t1, t2}
  Files <- MCFiles
  Batch = 1
  MaxHits = 1
  AllBases = AllBases
  NoBase = NoBase
  NoVector = NoVector
  MaxRestarts = 1
INVARIANTS OrphansOnlyOfDeleted DeletionIsFinal VectorsMatchTexts SearchFindsIngested
PROPERTIES CallsEnd
