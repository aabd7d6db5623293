CONSTANTS
  PhotoKey = {k1}
  AlbumKey = {}
  Photo = {o1, o2}
  Album = {}
  Page = {}
  Request = {p1, p2}
  TheAlbum = NoAlbum
  NoOwner = NoOwner
  AlbumOf <- OneAlbum
SPECIFICATION ConfirmSpec
INVARIANT LiveMediaNeverDeleted
INVARIANT PhotoRemovalRegistered
PROPERTY ReceiptNeverReopened
PROPERTY ConfirmationRecovers
