\* Two hosts on a chain of three rows; a trainer over two interactions and
\* four reports, with two crashes or aborts.
SPECIFICATION LoopSpec
CONSTANTS
  i1 = i1  i2 = i2  r1 = r1  r2 = r2  r3 = r3  r4 = r4  key = key  slot = slot
  Interactions = {i1, i2}
  Reports = {r1, r2, r3, r4}
  References <- NamedReferences
  Eligible = {r1, r2, r3, r4}
  Slot <- OneSlot
  Group <- Pair
  NoKey = NoKey
  Bytes <- MixedBytes
  BatchSize = 2
  MaxSampleBytes = 3
  MaxParked = 2
  MaxRecords = 3
  PageLimit = 1
  MaxSequence = 4
  Callers = {host, peer}
  Trainer = host
  Seeders = {host, peer}
  Contents = {x}
  Ids = {a, b, c}
  None = None
  MaxFaults = 2
SYMMETRY IdSymmetry
CONSTRAINT Regimes
INVARIANTS
  RecordsInvariant
  FeedbackAccounted
  BatchesSound
  ConsumedNominated
  ChainInvariant
  SeededServes
\* The loop is over once every record was appended and consumed.
CHECK_DEADLOCK FALSE
