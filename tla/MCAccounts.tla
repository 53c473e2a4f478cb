----------------------------- MODULE MCAccounts -----------------------------
(* Small instances of Accounts for TLC. *)
EXTENDS Accounts

(* db.txt with one account, as if only one of the two had been shipped.     *)
OneAccount == <<[login |-> CHOOSE u \in User : TRUE, hash |-> CHOOSE p \in Password : TRUE]>>

Symmetry == Permutations(Conn)
=============================================================================
