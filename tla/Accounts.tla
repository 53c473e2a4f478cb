------------------------------- MODULE Accounts -------------------------------
(***************************************************************************)
(* Registration and authorisation (user_data.cpp), as the connections use  *)
(* them until a client is logged in.  All connections share db.txt; each   *)
(* has its own user_data, whose fstream some answers leave open.  Nothing  *)
(* deletes a user_data: a stream open when the connection goes stays open. *)
(*                                                                         *)
(*   db        db.txt: a sequence of [login, hash]                         *)
(*   conn      "none", "open" or "closed"                                  *)
(*   isOpen    user_data::db.is_open() of the connection                   *)
(*   answer    the last answer to the client                               *)
(*   user      NEW_connection::user_name                                   *)
(*                                                                         *)
(* bcrypt is external: a hash stands for its password.  One thread runs    *)
(* the handlers, so a request is one step.                                 *)
(*                                                                         *)
(* A definition under "Slip:" is a wrong form of the one that follows it,  *)
(* which a property must notice; nothing uses it.                          *)
(***************************************************************************)
EXTENDS SequencesExt

CONSTANTS
  Conn,      \* connections
  User,      \* logins
  Password,
  InitialDb, \* the db.txt the repository ships
  None,      \* no user, no answer
  MaxDb      \* bound: lines of db.txt

Account == [login : User, hash : Password]

ASSUME AccountsAssumption ==
  /\ InitialDb \in Seq(Account)
  /\ None \notin User \cup {"200 OK", "401", "380"}
  /\ MaxDb \in Nat

VARIABLES db, conn, isOpen, answer, user

vars == <<db, conn, isOpen, answer, user>>

Init ==
  /\ db = InitialDb
  /\ conn = [c \in Conn |-> "none"]
  /\ isOpen = [c \in Conn |-> FALSE]
  /\ answer = [c \in Conn |-> None]
  /\ user = [c \in Conn |-> None]

Logins(lines) == {lines[i].login : i \in DOMAIN lines}

(* bcrypt::generateHash and bcrypt::validatePassword.                      *)
generateHash(p) == p
validatePassword(p, hash) == generateHash(p) = hash

(* Slip: the stream is not closed.                                         *)
Keep(c) == isOpen' = isOpen

(* db.close().                                                             *)
Close(c) == isOpen' = [isOpen EXCEPT ![c] = FALSE]

(* Slip: the file is opened without std::ios::app.                         *)
Overwritten(l, p) == <<[login |-> l, hash |-> generateHash(p)]>>

(* The file after the line of a new account.                               *)
Appended(l, p) == Append(db, [login |-> l, hash |-> generateHash(p)])

Connect(c) ==
  /\ conn[c] = "none"
  /\ conn' = [conn EXCEPT ![c] = "open"]
  /\ UNCHANGED <<db, isOpen, answer, user>>

(* The last shared_ptr to the connection goes, and with it user_name; its  *)
(* user_data, and so the stream, outlives it.                              *)
Disconnect(c) ==
  /\ conn[c] = "open"
  /\ conn' = [conn EXCEPT ![c] = "closed"]
  /\ answer' = [answer EXCEPT ![c] = None]
  /\ user' = [user EXCEPT ![c] = None]
  /\ UNCHANGED <<db, isOpen>>

(* The client repeats its two questions until one is answered "200 OK".    *)
Asks(c) == conn[c] = "open" /\ user[c] = None

Answer(c, text) == answer' = [answer EXCEPT ![c] = text]

(* Slip: a last line without newline is not read.                          *)
LinesEnded(c) == IF isOpen[c] THEN <<>> ELSE SubSeq(db, 1, Len(db) - 1)

(* Opening a stream that is open fails, and the loop over its lines then   *)
(* reads nothing; opening any other reads db.txt from the start.           *)
Lines(c) == IF isOpen[c] THEN <<>> ELSE db

(* user_data::Authorisation finds the line and returns without close.      *)
Authorised(c, l, p) ==
  /\ Asks(c)
  /\ \E i \in DOMAIN Lines(c) :
       Lines(c)[i].login = l /\ validatePassword(p, Lines(c)[i].hash)
  /\ isOpen' = [isOpen EXCEPT ![c] = TRUE]
  /\ user' = [user EXCEPT ![c] = l]
  /\ Answer(c, "200 OK")
  /\ UNCHANGED <<db, conn>>

(* Slip: the name is set before the password is known to be right.         *)
RefusedNamed(c, l, p) ==
  /\ Asks(c)
  /\ \A i \in DOMAIN Lines(c) :
       ~(Lines(c)[i].login = l /\ validatePassword(p, Lines(c)[i].hash))
  /\ Close(c)
  /\ user' = [user EXCEPT ![c] = l]
  /\ Answer(c, "401")
  /\ UNCHANGED <<db, conn>>

(* ... or finds none, closes the stream and leaves the name empty.         *)
Refused(c, l, p) ==
  /\ Asks(c)
  /\ \A i \in DOMAIN Lines(c) :
       ~(Lines(c)[i].login = l /\ validatePassword(p, Lines(c)[i].hash))
  /\ Close(c)
  /\ Answer(c, "401")
  /\ UNCHANGED <<db, conn, user>>

(* user_data::Registration meets the login and returns without close.      *)
Taken(c, l) ==
  /\ Asks(c)
  /\ l \in Logins(Lines(c))
  /\ isOpen' = [isOpen EXCEPT ![c] = TRUE]
  /\ Answer(c, "380")
  /\ UNCHANGED <<db, conn, user>>

(* ... or meets none, closes the stream and appends a line.                *)
Registered(c, l, p) ==
  /\ Asks(c)
  /\ l \notin Logins(Lines(c))
  /\ Len(db) < MaxDb
  /\ db' = Appended(l, p)
  /\ Close(c)
  /\ user' = [user EXCEPT ![c] = l]
  /\ Answer(c, "200 OK")
  /\ UNCHANGED conn

Next ==
  \E c \in Conn :
    \/ Connect(c)
    \/ Disconnect(c)
    \/ \E l \in User :
         \/ Taken(c, l)
         \/ \E p \in Password : Authorised(c, l, p) \/ Refused(c, l, p) \/ Registered(c, l, p)

Spec == Init /\ [][Next]_vars

-----------------------------------------------------------------------------
(* Properties. *)

(* Types of the variables; a connection that is not open has no user and   *)
(* no answer, one that was never open no stream, and whoever has a user    *)
(* name was told so.                                                       *)
TypeOK ==
  /\ db \in Seq(Account)
  /\ conn \in [Conn -> {"none", "open", "closed"}]
  /\ isOpen \in [Conn -> BOOLEAN]
  /\ answer \in [Conn -> {None, "200 OK", "401", "380"}]
  /\ user \in [Conn -> User \cup {None}]
  /\ \A c \in Conn : conn[c] # "open" => answer[c] = None /\ user[c] = None
  /\ \A c \in Conn : conn[c] = "none" => ~isOpen[c]
  /\ \A c \in Conn : user[c] # None <=> answer[c] = "200 OK"

(* The stream of a client still asking is open exactly after "380": any    *)
(* other answer gives it back.                                             *)
StreamFollowsAnswer ==
  \A c \in Conn : Asks(c) => (isOpen[c] <=> answer[c] = "380")

(* A login already in db.txt is written again only for a client whose last *)
(* answer was "380".                                                       *)
RepeatsOnlyAfterTaken ==
  [][\A c \in Conn : db' # db /\ user'[c] # user[c] =>
       Last(db').login \notin Logins(db) \/ answer[c] = "380"]_vars

(* Two lines of db.txt have one login only if the shipped file had.        *)
LoginsAreUnique ==
  \A i, j \in DOMAIN db : db[i].login = db[j].login => i = j

(* A client that gives a stored login and its password is refused only if  *)
(* its answer just before was "380": whoever is refused wrongly once is    *)
(* accepted the next time.                                                 *)
StoredPasswordAcceptedOtherwise ==
  [][\A c \in Conn, l \in User, p \in Password :
       Refused(c, l, p) /\ answer[c] # "380"
         => \A i \in DOMAIN db : db[i] # [login |-> l, hash |-> p]]_vars

(* The accounts as the store sees them.                                    *)
Abstract == INSTANCE Sessions WITH
  NoUser <- None, registered <- Logins(db), who <- user

ImplementsSessions == Abstract!Spec
===============================================================================
