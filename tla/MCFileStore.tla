---------------------------- MODULE MCFileStore ----------------------------
(* Small instances of FileStore for TLC. *)
EXTENDS FileStore

PlainNames == {Plain(n) : n \in Base}
Symmetry == Permutations(InitialUser) \cup Permutations(Part)
=============================================================================
