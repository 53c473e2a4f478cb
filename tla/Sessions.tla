------------------------------- MODULE Sessions -------------------------------
(***************************************************************************)
(* What the rest of the server may assume of accounts: who is registered   *)
(* and as whom a connection is logged in.  Accounts implements it with     *)
(* db.txt and its file streams; FileStore uses it as it stands.            *)
(***************************************************************************)
CONSTANTS Conn, User, NoUser

VARIABLES registered, who

vars == <<registered, who>>

Init == registered \subseteq User /\ who = [c \in Conn |-> NoUser]

Enter(c, u) ==
  /\ u \in registered
  /\ who[c] = NoUser
  /\ who' = [who EXCEPT ![c] = u]
  /\ UNCHANGED registered

Enrol(c, u) ==
  /\ u \notin registered
  /\ who[c] = NoUser
  /\ registered' = registered \cup {u}
  /\ who' = [who EXCEPT ![c] = u]

(* Connections end, one at a time or all with the process.                 *)
Leave(S) ==
  /\ who' = [c \in Conn |-> IF c \in S THEN NoUser ELSE who[c]]
  /\ UNCHANGED registered

Next ==
  \/ \E c \in Conn, u \in User : Enter(c, u) \/ Enrol(c, u)
  \/ \E S \in SUBSET Conn : Leave(S)

Spec == Init /\ [][Next]_vars
===============================================================================
