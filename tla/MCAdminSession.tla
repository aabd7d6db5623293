--------------------------- MODULE MCAdminSession ---------------------------
(* Small instances of AdminSession for TLC. *)
EXTENDS AdminSession, TLC

Interchangeable == Permutations(Session) \cup Permutations(Call)
=============================================================================
