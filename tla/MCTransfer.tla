----------------------------- MODULE MCTransfer -----------------------------
(* Small instances of Transfer for TLC: every file up to MaxSize bytes.     *)
EXTENDS Transfer

CONSTANT MaxSize

AllFiles == BoundedSeq(Byte, MaxSize)
=============================================================================
