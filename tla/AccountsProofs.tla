---------------------------- MODULE AccountsProofs ----------------------------
(***************************************************************************)
(* Proofs about Accounts, for any number of connections, logins and lines  *)
(* of db.txt.  The inductive invariant is IInv: the stream of a connection *)
(* that still asks is open exactly after "380", which needs to know that   *)
(* a connection begins with no answer and a closed stream (TypeOK).        *)
(***************************************************************************)
EXTENDS Accounts, TLAPS

IInv == TypeOK /\ StreamFollowsAnswer

(* The last line of db.txt after Registration is the one appended.         *)
LEMMA LastOfAppend ==
  ASSUME NEW S, NEW s \in Seq(S), NEW x \in S
  PROVE  Last(Append(s, x)) = x /\ Append(s, x) \in Seq(S)
  BY DEF Last

(* Db.txt only ever gains accounts at its end.                             *)
LEMMA AppendedAccount ==
  ASSUME TypeOK, NEW l \in User, NEW p \in Password
  PROVE  /\ Appended(l, p) \in Seq(Account)
         /\ Last(Appended(l, p)) = [login |-> l, hash |-> p]
         /\ Logins(Appended(l, p)) = Logins(db) \cup {l}
<1> DEFINE a == [login |-> l, hash |-> p]
<1>1. a \in Account /\ Appended(l, p) = Append(db, a) /\ db \in Seq(Account)
  BY DEF Account, Appended, generateHash, TypeOK
<1>2. /\ Append(db, a) \in Seq(Account)
      /\ Last(Append(db, a)) = a
  BY <1>1, LastOfAppend
<1>3. Logins(Append(db, a)) = Logins(db) \cup {l}
  <2>1. /\ DOMAIN Append(db, a) = DOMAIN db \cup {Len(db) + 1}
        /\ Append(db, a)[Len(db) + 1] = a
        /\ \A i \in DOMAIN db : Append(db, a)[i] = db[i]
    BY <1>1
  <2> QED BY <2>1 DEF Logins
<1> QED BY <1>1, <1>2, <1>3

LEMMA InvInit == Init => IInv
  BY AccountsAssumption DEF Init, IInv, TypeOK, StreamFollowsAnswer, Asks

LEMMA InvStep == IInv /\ [Next]_vars => IInv'
<1> SUFFICES ASSUME IInv, [Next]_vars PROVE IInv'
  OBVIOUS
<1> USE AccountsAssumption DEF IInv, TypeOK, StreamFollowsAnswer, Asks, Answer, Close
<1>1. ASSUME NEW c \in Conn, Connect(c) PROVE IInv'
  BY <1>1 DEF Connect
<1>2. ASSUME NEW c \in Conn, Disconnect(c) PROVE IInv'
  BY <1>2 DEF Disconnect
<1>3. ASSUME NEW c \in Conn, NEW l \in User, Taken(c, l) PROVE IInv'
  BY <1>3 DEF Taken
<1>4. ASSUME NEW c \in Conn, NEW l \in User, NEW p \in Password, Authorised(c, l, p)
      PROVE IInv'
  BY <1>4 DEF Authorised
<1>5. ASSUME NEW c \in Conn, NEW l \in User, NEW p \in Password, Refused(c, l, p)
      PROVE IInv'
  BY <1>5 DEF Refused
<1>6. ASSUME NEW c \in Conn, NEW l \in User, NEW p \in Password, Registered(c, l, p)
      PROVE IInv'
  BY <1>6, AppendedAccount DEF Registered
<1>7. CASE UNCHANGED vars
  BY <1>7 DEF vars
<1> QED BY <1>1, <1>2, <1>3, <1>4, <1>5, <1>6, <1>7 DEF Next

(* Every reachable state is well typed: a connection has a user name       *)
(* exactly when its last answer was "200 OK", and none once it is closed.  *)
THEOREM TypeCorrect == Spec => []TypeOK
<1>1. IInv => TypeOK
  BY DEF IInv
<1> QED BY InvInit, InvStep, <1>1, PTL DEF Spec

(* user_data::Registration leaves the stream open when it answers "380",   *)
(* and every other answer to a client still asking closes it.              *)
THEOREM StreamCorrect == Spec => []StreamFollowsAnswer
<1>1. IInv => StreamFollowsAnswer
  BY DEF IInv
<1> QED BY InvInit, InvStep, <1>1, PTL DEF Spec

(* The lines a request reads are all of db.txt unless "380" came before.   *)
LEMMA ReadsAll ==
  ASSUME IInv, NEW c \in Conn, Asks(c), answer[c] # "380"
  PROVE  Lines(c) = db
  BY DEF IInv, StreamFollowsAnswer, Lines, TypeOK

LEMMA RepeatsStep ==
  ASSUME IInv, [Next]_vars, NEW c \in Conn, db' # db, user'[c] # user[c]
  PROVE  Last(db').login \notin Logins(db) \/ answer[c] = "380"
<1>1. PICK d \in Conn, l \in User, p \in Password : Registered(d, l, p)
  BY DEF Next, vars, Connect, Disconnect, Taken, Authorised, Refused
<1>2. d = c
  BY <1>1 DEF Registered, IInv, TypeOK
<1>3. Last(db').login = l
  <2>1. db' = Appended(l, p)
    BY <1>1 DEF Registered
  <2>2. Last(Appended(l, p)) = [login |-> l, hash |-> p]
    BY AppendedAccount DEF IInv
  <2> QED BY <2>1, <2>2
<1> QED BY <1>1, <1>2, <1>3, ReadsAll DEF Registered

(* A login that db.txt has is appended again only for a client that was    *)
(* answered "380" just before.                                             *)
THEOREM RepeatsCorrect == Spec => RepeatsOnlyAfterTaken
<1>1. IInv /\ [Next]_vars =>
        [\A c \in Conn : db' # db /\ user'[c] # user[c] =>
           Last(db').login \notin Logins(db) \/ answer[c] = "380"]_vars
  BY RepeatsStep
<1> QED BY InvInit, InvStep, <1>1, PTL DEF Spec, RepeatsOnlyAfterTaken

LEMMA RefusalStep ==
  ASSUME IInv, NEW c \in Conn, NEW l \in User, NEW p \in Password,
         Refused(c, l, p), answer[c] # "380"
  PROVE  \A i \in DOMAIN db : db[i] # [login |-> l, hash |-> p]
<1>1. Lines(c) = db
  BY ReadsAll DEF Refused
<1> QED BY <1>1 DEF Refused, validatePassword, generateHash

(* A stored password is refused at most right after "380".                 *)
THEOREM RefusalsCorrect == Spec => StoredPasswordAcceptedOtherwise
<1>1. IInv =>
        [\A c \in Conn, l \in User, p \in Password :
           Refused(c, l, p) /\ answer[c] # "380"
             => \A i \in DOMAIN db : db[i] # [login |-> l, hash |-> p]]_vars
  BY RefusalStep
<1> QED BY InvInit, InvStep, <1>1, PTL DEF Spec, StoredPasswordAcceptedOtherwise

-----------------------------------------------------------------------------
(* Accounts implement Sessions: the shipped logins are users, and a step   *)
(* lets in, enrols or lets go one connection, or changes nothing of this.  *)

LEMMA RefinesInit == Init => Abstract!Init
<1> SUFFICES ASSUME Init, NEW i \in DOMAIN db PROVE db[i].login \in User
  BY DEF Init, Abstract!Init, Logins
<1>1. db \in Seq(Account)
  BY AccountsAssumption DEF Init
<1>2. db[i] \in Account
  BY <1>1
<1> QED BY <1>2 DEF Account

LEMMA RefinesStep == IInv /\ [Next]_vars => [Abstract!Next]_(Abstract!vars)
<1> SUFFICES ASSUME IInv, [Next]_vars PROVE Abstract!Next \/ UNCHANGED Abstract!vars
  OBVIOUS
<1> USE DEF Abstract!vars, Asks
<1>1. ASSUME NEW c \in Conn, Connect(c) PROVE UNCHANGED Abstract!vars
  BY <1>1 DEF Connect, Logins
<1>2. ASSUME NEW c \in Conn, Disconnect(c) PROVE Abstract!Next
  <2>1. user' = [d \in Conn |-> IF d \in {c} THEN None ELSE user[d]]
    BY <1>2 DEF Disconnect, IInv, TypeOK
  <2>2. Abstract!Leave({c})
    BY <1>2, <2>1 DEF Disconnect, Abstract!Leave, Logins
  <2> QED BY <2>2 DEF Abstract!Next
<1>3. ASSUME NEW c \in Conn, NEW l \in User, Taken(c, l) PROVE UNCHANGED Abstract!vars
  BY <1>3 DEF Taken, Logins
<1>4. ASSUME NEW c \in Conn, NEW l \in User, NEW p \in Password, Authorised(c, l, p)
      PROVE Abstract!Next
  <2>1. l \in Logins(db)
    <3>1. PICK i \in DOMAIN Lines(c) : Lines(c)[i].login = l
      BY <1>4 DEF Authorised
    <3>2. Lines(c) = db
      BY <3>1 DEF Lines
    <3> QED BY <3>1, <3>2 DEF Logins
  <2>2. Abstract!Enter(c, l)
    BY <1>4, <2>1 DEF Authorised, Abstract!Enter, Logins
  <2> QED BY <2>2 DEF Abstract!Next
<1>5. ASSUME NEW c \in Conn, NEW l \in User, NEW p \in Password, Refused(c, l, p)
      PROVE UNCHANGED Abstract!vars
  BY <1>5 DEF Refused, Logins
<1>6. ASSUME NEW c \in Conn, NEW l \in User, NEW p \in Password, Registered(c, l, p)
      PROVE Abstract!Next
  <2>1. Logins(db)' = Logins(db) \cup {l}
    <3>1. db' = Appended(l, p)
      BY <1>6 DEF Registered
    <3>2. Logins(Appended(l, p)) = Logins(db) \cup {l}
      BY AppendedAccount DEF IInv
    <3> QED BY <3>1, <3>2 DEF Logins
  <2>2. CASE l \in Logins(db)
    <3>1. Abstract!Enter(c, l)
      BY <1>6, <2>1, <2>2 DEF Registered, Abstract!Enter
    <3> QED BY <3>1 DEF Abstract!Next
  <2>3. CASE l \notin Logins(db)
    <3>1. Abstract!Enrol(c, l)
      BY <1>6, <2>1, <2>3 DEF Registered, Abstract!Enrol
    <3> QED BY <3>1 DEF Abstract!Next
  <2> QED BY <2>2, <2>3
<1>7. CASE UNCHANGED vars
  BY <1>7 DEF vars, Logins
<1> QED BY <1>1, <1>2, <1>3, <1>4, <1>5, <1>6, <1>7 DEF Next

(* Whatever db.txt and the streams do, the rest of the server may take the *)
(* accounts for the table of Sessions.                                     *)
THEOREM AccountsImplementSessions == Spec => ImplementsSessions
BY InvInit, InvStep, RefinesInit, RefinesStep, PTL DEF Spec, ImplementsSessions, Abstract!Spec
===============================================================================
