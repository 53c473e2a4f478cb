------------------------------- MODULE FileCopy -------------------------------
(***************************************************************************)
(* What a file transfer promises, without parts: the copy is at any time   *)
(* the beginning of the file, it only grows, and it is complete when the   *)
(* transfer says so.                                                       *)
(***************************************************************************)
EXTENDS SequencesExt

VARIABLES source, copy, done

vars == <<source, copy, done>>

Init == copy = <<>> /\ ~done

Grow ==
  /\ ~done
  /\ copy' # copy
  /\ IsPrefix(copy, copy') /\ IsPrefix(copy', source)
  /\ UNCHANGED <<source, done>>

Finish ==
  /\ ~done
  /\ copy' = source
  /\ done'
  /\ UNCHANGED source

Next == Grow \/ Finish

Spec == Init /\ [][Next]_vars
===============================================================================
