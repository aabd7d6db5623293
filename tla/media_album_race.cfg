CONSTANTS
  PhotoKey = {}
  AlbumKey = {k1}
  Photo = {}
  Album = {a1}
  Page = {g1}
  Request = {p1, p2}
  TheAlbum = a1
  NoOwner = NoOwner
  AlbumOf <- OneAlbum
SPECIFICATION Spec
SYMMETRY Interchangeable
PROPERTY AlbumRemovalRegistered
