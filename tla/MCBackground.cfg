\* No symmetry: liveness properties are checked.
SPECIFICATION BackgroundFairSpec
CONSTANTS
  Rows = {t1}
  UITask = ui
  Slots = {r1, r2}
  NoTask = NoTask
  MaxLimit = 1
  MaxEntries = 2
  MaxExecs = 2
  MaxBoots = 2
  Calls = {c1, c2}
  Chained = {c1}
  Sessions = {s1}
  NoCall = NoCall
INVARIANTS OneEntryPerTask RunCountNeverOvercounts
PROPERTIES
  NothingFiresOnceDisarmed RunsSettle
  ClosingShowsEverything ConsumersEnd ReadersEndWithContext
