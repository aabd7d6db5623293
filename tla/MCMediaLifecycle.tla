-------------------------- MODULE MCMediaLifecycle --------------------------
(* Small instances of MediaLifecycle for TLC. *)
EXTENDS MediaLifecycle, TLC

CONSTANTS TheAlbum

\* Every page identifier belongs to the one album of the instance.
OneAlbum == [g \in Page |-> TheAlbum]

Interchangeable ==
    Permutations(PhotoKey) \cup Permutations(AlbumKey)
        \cup Permutations(Photo) \cup Permutations(Request)
=============================================================================
