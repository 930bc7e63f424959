SPECIFICATION StreamsSpec
CONSTANTS
  Calls = {c1, c2}
  Chained = {}
  Sessions = {s1}
  NoCall = NoCall
INVARIANTS RunningIsCancellable
