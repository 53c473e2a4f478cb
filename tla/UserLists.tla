------------------------------ MODULE UserLists ------------------------------
(***************************************************************************)
(* What Files_Mapping promises, without its files: one durable list of     *)
(* stored files per user, the same whether the server is up or down.  An   *)
(* upload puts a file at the end; one that turns out to be a duplicate     *)
(* takes it away again.  A crash costs at most the end of one list.        *)
(***************************************************************************)
EXTENDS SequencesExt

CONSTANT User

VARIABLES list, up

vars == <<list, up>>

Init == list = [u \in User |-> <<>>] /\ ~up

(* The server starts, or stops.                                            *)
Switch == up' = ~up /\ UNCHANGED list

Added(u, f) == list' = [list EXCEPT ![u] = Append(@, f)]

(* An upload begins, or a short one is stored at once.                     *)
Add(u, f) == up /\ up' /\ Added(u, f)

(* An upload ends as a duplicate.                                          *)
Drop(u, f) == up /\ up' /\ list' = [list EXCEPT ![u] = RemoveFirst(@, f)]

(* A short upload that is a duplicate of a file the list still has from an *)
(* upload that was cut off takes the older entry away.                     *)
Renew(u, f) == up /\ up' /\ list' = [list EXCEPT ![u] = RemoveFirst(Append(@, f), f)]

(* The server ends while it writes a list: of what u's list should become, *)
(* a part from the beginning is there.                                     *)
Torn(u, f) ==
  /\ up /\ ~up'
  /\ \E new \in {Append(list[u], f), RemoveFirst(list[u], f),
                 RemoveFirst(Append(list[u], f), f)} :
       \E part \in Prefixes(new) : list' = [list EXCEPT ![u] = part]

(* The file of a step on u's list is in the list before it or after it.    *)
Concerned(u) == ToSet(list[u]) \cup ToSet(list'[u])

Next ==
  \/ Switch
  \/ \E u \in User : \E f \in Concerned(u) :
       Add(u, f) \/ Drop(u, f) \/ Renew(u, f) \/ Torn(u, f)

Spec == Init /\ [][Next]_vars
==============================================================================
