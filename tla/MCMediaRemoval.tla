--------------------------- MODULE MCMediaRemoval ---------------------------
(* A small instance of MediaRemoval for TLC. *)
EXTENDS MediaRemoval, TLC

CONSTANTS TheAlbum

\* Every page identifier belongs to the one album of the instance.
OneAlbum == [g \in Page |-> TheAlbum]

Interchangeable == Permutations(AlbumKey) \cup Permutations(Request)
=============================================================================
