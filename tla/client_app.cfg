CONSTANTS
  Token = {s1, s2}
  NoToken = NoToken
  Province = {q1, q2}
  NoProvince = NoProvince
  MaxVersion = 3
  a1 = a1
  a2 = a2
  Album = {a1, a2}
  NoAlbum = NoAlbum
  PagesOf <- Books
  MaxFetches = 1
  MaxMoves = 3
  MaxPages = 7
SPECIFICATION ClientSpec
CHECK_DEADLOCK FALSE
INVARIANT LatestDecides
INVARIANT CookieKept
PROPERTY LoadingEnds
INVARIANT PanelFollows
INVARIANT OpenedAsAsked
INVARIANT CameraFollows
INVARIANT SheetsAreRendered
