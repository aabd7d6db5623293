CONSTANTS
  MaxCalls = 3
  Place = {q1}
  MaxToggles = 3
  Photo = {f1, f2, f3}
  MaxTasks = 2
  Book = {k1, k2}
  New = New
  MaxCovers = 1
  Leaf = {g1, g2}
  NoLeaf = NoLeaf
  Job = {j1, j2}
SPECIFICATION OfficeSpec
SYMMETRY Interchangeable
CONSTRAINT Telling
INVARIANT GuardedNeedsRole
INVARIANT SwitchesAreRight
INVARIANT PhotosAsStored
INVARIANT CoversBelong
INVARIANT EditsStayOnTheirPage
INVARIANT PagesAsStored
INVARIANT DraftCanBeAdded
