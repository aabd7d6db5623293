CONSTANTS
  Page = {p1, p2, p3}
  Writer = {w1, w2}
  Chosen = {2}
  MaxAttempts = 2
  Volume = {v1, v2, v3}
  Year = {y1, y2}
  Asker = {c1, c2}
  NoYear = NoYear
  Attempt = {x1, x2}
  MaxFailures = 2
  Window = 2
  Bearer = {b1, b2}
  CacheLife = 2
  PhotoRow = {f1}
  CoverRow = {h1}
  PageRow = {g1}
SPECIFICATION ServerSpec
SYMMETRY Interchangeable
INVARIANT PositionsHold
INVARIANT DefaultIsFree
PROPERTY ReorderFits
INVARIANT LatestListRules
INVARIANT YearConflictsAnswered
INVARIANT FailuresBounded
INVARIANT BlockEndsInTime
INVARIANT OldTokensEnd
INVARIANT MarkedMeansMigrated
PROPERTY MigrationKeepsContent
