CONSTANTS
  PhotoKey = {}
  AlbumKey = {k1, k2}
  Photo = {}
  Album = {a1}
  Page = {g1}
  Request = {p1, p2}
  TheAlbum = a1
  NoOwner = NoOwner
  AlbumOf <- OneAlbum
SPECIFICATION RemovalSpec
SYMMETRY Interchangeable
PROPERTY AlbumLeavesTasks
PROPERTY PageLeavesTasks
