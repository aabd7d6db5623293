CONSTANTS
  Session = {s1, s2, s3}
  Call = {c1, c2}
  MaxAdmin = 2
  NoSession = NoSession
SPECIFICATION Spec
SYMMETRY Interchangeable
INVARIANT AdminCap
