----------------------------- MODULE SessionProofs -----------------------------
(***************************************************************************)
(* Proofs about Session, for every set of questions, number of parts and   *)
(* of requests and every size of the socket's buffer.  The inductive       *)
(* invariant follows one request of an orderly client through its stages:  *)
(* none is asked (Idle), its messages are on the way or handled (Underway),*)
(* its answer waits (Answered), or a file is being taken (Taking), which   *)
(* may end the client (Over).                                              *)
(***************************************************************************)
EXTENDS Session, SequenceTheorems, TLAPS

(* Types, and what they rest on: parts count from one, and the socket      *)
(* holds no more than it has room for.                                     *)
Wire == {m \in Message : m.kind = "send" => m.nr >= 1}

TypeInv ==
  /\ TypeOK
  /\ c2s \in Seq(Wire) /\ s2c \in Seq(Wire) /\ buf \in Wire
  /\ Len(s2c) <= SocketBuffer
  /\ pc = "sending" => sent < asked.parts

Quiet == c2s = <<>> /\ arrived = 0 /\ clState = "none"

Idle == pc = "menu" /\ Quiet /\ s2c = <<>> /\ writes = 0

(* Messages of the request that were sent.                                 *)
Asked == IF asked.kind = "send" THEN sent ELSE 1

(* The server has handled r of them, one may have arrived and the others   *)
(* are on the wire.                                                        *)
Follow(r) ==
  /\ Asked = r + arrived + Len(c2s)
  /\ \A i \in 1..Len(c2s) : c2s[i] = Request(asked.kind, r + arrived + i, asked.parts)
  /\ arrived = 1 => buf = Request(asked.kind, r + 1, asked.parts)
  /\ r = 0 => clState = "none"
  /\ r > 0 => /\ asked.kind = "send" /\ ~took
              /\ clState = "on_read" /\ received = Upto(r) /\ written = 0

Underway ==
  /\ s2c = <<>> /\ writes = 0 /\ arrived \in {0, 1}
  /\ asked.kind \in Kind /\ asked.parts >= 1
  /\ asked.kind = "send" /\ asked.parts > 1 => ~took
  /\ \/ pc = "sending" /\ asked.kind = "send"
     \/ pc = "answer" /\ asked.kind = "send" /\ sent = asked.parts
     \/ pc = "answer" /\ asked.kind \in Question /\ asked.parts = 1
     \/ pc = "taking" /\ asked.kind = "take" /\ taken = <<>> /\ took
  /\ \E r \in 0..(asked.parts - 1) : Follow(r)

Answered ==
  /\ pc = "answer" /\ Quiet /\ asked.kind \in Kind \ {"take"}
  /\ s2c = <<Reply(asked.kind)>> /\ writes = 0
  /\ asked.kind = "send" => received = Upto(asked.parts)

(* The client has read j of the parts and the final answer; those the      *)
(* socket had no room for at once leave as the answer that is in buf.      *)
Taking(j) ==
  /\ taken = Upto(j)
  /\ pc = IF j < asked.parts THEN "taking" ELSE "answer"
  /\ j + Len(s2c) + writes = asked.parts + 1
  /\ j + Len(s2c) > asked.parts \/ j + Len(s2c) >= SocketBuffer
  /\ \A i \in 1..Len(s2c) :
       s2c[i] = IF j + i <= asked.parts /\ j + i <= SocketBuffer
                THEN Request("send", j + i, asked.parts) ELSE Reply("take")

Takes ==
  /\ Quiet /\ took /\ asked.kind = "take" /\ buf = Reply("take")
  /\ \E j \in 0..asked.parts : Taking(j)

Over == pc = "ended" /\ Quiet /\ took /\ ~Fits

Stages == Idle \/ Underway \/ Answered \/ Takes \/ Over

Listening == InFlight >= 1 /\ (~took => InFlight = 1)

IInv == TypeInv /\ (orderly => Listening /\ Stages)

-----------------------------------------------------------------------------
(* Messages. *)

LEMMA Constants ==
  /\ MaxParts \in Nat \ {0} /\ MaxRequests \in Nat /\ SocketBuffer \in Nat \ {0}
  /\ "send" \notin Question /\ "take" \notin Question /\ "answer" \notin Question
BY SessionAssumption

LEMMA RequestFact ==
  ASSUME NEW kind \in Kind, NEW nr \in 1..MaxParts, NEW parts \in 0..MaxParts
  PROVE  Request(kind, nr, parts) \in Wire
BY Constants DEF Request, Wire, Message

LEMMA ReplyFact ==
  ASSUME NEW kind \in Kind \cup {"nothing"}
  PROVE  Reply(kind) \in Wire
BY Constants DEF Reply, Wire, Message

LEMMA BufFact ==
  ASSUME NEW m \in Wire
  PROVE  /\ m.kind \in Kind \cup {"answer"} /\ m.nr \in 0..MaxParts /\ m.of \in 0..MaxParts
         /\ m.kind = "send" => m.nr \in 1..MaxParts
<1>1. m \in Message /\ (m.kind = "send" => m.nr >= 1)
  BY DEF Wire
<1>2. m.nr \in 0..MaxParts
  BY <1>1 DEF Message
<1> QED BY <1>1, <1>2, Constants DEF Message

(* Parts and the final answer, one message after another.                  *)
LEMMA TakeAnswerFact ==
  ASSUME NEW k \in 0..MaxParts
  PROVE  /\ TakeAnswer(k) \in Seq(Wire) /\ Len(TakeAnswer(k)) = k + 1
         /\ \A i \in 1..k + 1 :
              TakeAnswer(k)[i] = IF i <= k THEN Request("send", i, k) ELSE Reply("take")
<1> DEFINE p == [i \in 1..k |-> Request("send", i, k)]
           a == <<Reply("take")>>
<1>1. \A i \in 1..k : Request("send", i, k) \in Wire
  BY Constants, RequestFact DEF Kind
<1>2. p \in Seq(Wire) /\ Len(p) = k /\ \A i \in 1..k : p[i] = Request("send", i, k)
  BY <1>1, Constants
<1>3. Reply("take") \in Wire
  BY ReplyFact DEF Kind
<1>4. a \in Seq(Wire) /\ Len(a) = 1 /\ a[1] = Reply("take")
  BY <1>3
<1>5. TakeAnswer(k) = p \o a
  BY DEF TakeAnswer
<1> HIDE DEF p, a
<1>6. /\ p \o a \in Seq(Wire) /\ Len(p \o a) = Len(p) + Len(a)
      /\ \A i \in 1..Len(p) + Len(a) : (p \o a)[i] = IF i <= Len(p) THEN p[i] ELSE a[i - Len(p)]
  BY <1>2, <1>4, ConcatProperties
<1>7. ASSUME NEW i \in 1..k + 1
      PROVE  (p \o a)[i] = IF i <= k THEN Request("send", i, k) ELSE Reply("take")
  <2>1. CASE i <= k
    BY <2>1, <1>2, <1>4, <1>6, Constants
  <2>2. CASE i = k + 1
    <3>1. i - Len(p) = 1 /\ ~(i <= Len(p)) /\ i \in 1..Len(p) + Len(a) /\ ~(i <= k)
      BY <2>2, <1>2, <1>4, Constants
    <3> QED BY <3>1, <1>4, <1>6
  <2>3. k \in Nat
    BY Constants
  <2>4. i <= k \/ i = k + 1
    BY <2>3
  <2> QED BY <2>1, <2>2, <2>4
<1> QED BY <1>2, <1>4, <1>5, <1>6, <1>7

(* Of msgs the socket takes what it has room for, from the first on.       *)
LEMMA StartWritesFact ==
  ASSUME TypeInv, NEW msgs \in Seq(Wire), msgs # <<>>, StartWrites(msgs)
  PROVE  /\ s2c' \in Seq(Wire) /\ Len(s2c') <= SocketBuffer
         /\ buf' = msgs[Len(msgs)] /\ buf' \in Wire
         /\ writes' \in Nat /\ written' \in Nat
         /\ writes' + written' = writes + written + Len(msgs)
         /\ writes = 0 /\ s2c = <<>> =>
              /\ Len(s2c') + writes' = Len(msgs)
              /\ writes' = 0 \/ Len(s2c') = SocketBuffer
              /\ \A i \in 1..Len(s2c') : s2c'[i] = msgs[i]
<1>1. /\ writes \in Nat /\ written \in Nat /\ s2c \in Seq(Wire) /\ Len(s2c) \in Nat
      /\ Len(s2c) <= SocketBuffer /\ SocketBuffer \in Nat
  BY Constants DEF TypeInv, TypeOK
<1>2. Len(msgs) \in Nat \ {0}
  BY EmptySeq
<1> DEFINE room == IF writes > 0 THEN 0 ELSE SocketBuffer - Len(s2c)
           now  == IF Len(msgs) <= room THEN Len(msgs) ELSE room
           t    == SubSeq(msgs, 1, now)
<1>3. /\ buf' = Last(msgs) /\ s2c' = s2c \o t
      /\ written' = written + now /\ writes' = writes + Len(msgs) - now
  BY DEF StartWrites
<1>4. /\ now \in 0..Len(msgs) /\ now <= SocketBuffer - Len(s2c)
      /\ writes = 0 /\ s2c = <<>> => now = Len(msgs) \/ now = SocketBuffer
  <2>1. s2c = <<>> => Len(s2c) = 0
    OBVIOUS
  <2> QED BY <1>1, <1>2, <2>1
<1> HIDE DEF room, now
<1>5. \A i \in 1..now : msgs[i] \in Wire
  BY <1>2, <1>4
<1>6. /\ t \in Seq(Wire) /\ Len(t) = now /\ \A i \in 1..now : t[i] = msgs[i]
  <2>1. /\ t \in Seq(Wire) /\ Len(t) = (IF 1 <= now THEN now - 1 + 1 ELSE 0)
        /\ \A i \in 1..now - 1 + 1 : t[i] = msgs[1 + i - 1]
    BY <1>2, <1>4, <1>5, SubSeqProperties
  <2> QED BY <1>2, <1>4, <2>1
<1> HIDE DEF t
<1>7. /\ s2c \o t \in Seq(Wire) /\ Len(s2c \o t) = Len(s2c) + Len(t)
  BY <1>1, <1>6, ConcatProperties
<1>8. s2c = <<>> => s2c \o t = t
  BY <1>6, ConcatEmptySeq
<1>9. buf' = msgs[Len(msgs)] /\ buf' \in Wire
  BY <1>2, <1>3 DEF Last
<1>10. s2c' \in Seq(Wire) /\ Len(s2c') <= SocketBuffer /\ Len(s2c') = Len(s2c) + now
  BY <1>1, <1>2, <1>3, <1>4, <1>6, <1>7
<1>11. /\ writes' \in Nat /\ written' \in Nat
       /\ writes' + written' = writes + written + Len(msgs)
  BY <1>1, <1>2, <1>3, <1>4
<1>12. ASSUME writes = 0, s2c = <<>>
       PROVE  /\ Len(s2c') + writes' = Len(msgs)
              /\ writes' = 0 \/ Len(s2c') = SocketBuffer
              /\ \A i \in 1..Len(s2c') : s2c'[i] = msgs[i]
  BY <1>12, <1>1, <1>2, <1>3, <1>4, <1>6, <1>8
<1> QED BY <1>9, <1>10, <1>11, <1>12

-----------------------------------------------------------------------------
(* Types. *)

(* An answer of the server to what is in buf.                              *)
LEMMA AnswerType ==
  ASSUME TypeInv, NEW kinds, Handles(kinds), NEW msgs \in Seq(Wire), msgs # <<>>,
         StartWrites(msgs), reads' = reads,
         clState' \in {"none", "on_read"}, received' \in Seq(1..MaxParts)
  PROVE  TypeInv'
<1>1. /\ s2c' \in Seq(Wire) /\ Len(s2c') <= SocketBuffer /\ buf' \in Wire
      /\ writes' \in Nat /\ written' \in Nat
  BY StartWritesFact
<1>2. UNCHANGED <<client, c2s>> /\ arrived > 0 /\ arrived' = arrived - 1
  BY DEF Handles
<1>3. s2c' \in Seq(Message) /\ buf' \in Message
  BY <1>1 DEF Wire
<1>4. TypeOK'
  BY <1>1, <1>2, <1>3 DEF TypeInv, TypeOK, client
<1> QED BY <1>1, <1>2, <1>4 DEF TypeInv, client

LEMMA TypeStep == TypeInv /\ [Next]_vars => TypeInv'
<1> SUFFICES ASSUME TypeInv, [Next]_vars PROVE TypeInv'
  OBVIOUS
<1> USE DEF client, server
<1>1. TypeOK /\ c2s \in Seq(Wire) /\ s2c \in Seq(Wire) /\ buf \in Wire
  BY DEF TypeInv
<1>2. \A m \in Wire : m \in Message
  BY DEF Wire
<1>3. \A kind \in Kind, parts \in 0..MaxParts :
        [kind |-> kind, parts |-> parts] \in [kind : Kind \cup {"nothing"}, parts : 0..MaxParts]
  OBVIOUS
<1>4. <<>> \in Seq(1..MaxParts) /\ Question \subseteq Kind /\ "send" \in Kind /\ "take" \in Kind
  BY DEF Kind
<1>5. ASSUME NEW kind \in Kind, NEW parts \in 0..MaxParts, NEW next, Chooses(kind, parts, next),
             next \in {"sending", "taking", "answer"}, next = "sending" => parts > 0,
             c2s' \in Seq(Wire), took' \in BOOLEAN, orderly' \in BOOLEAN
      PROVE  TypeInv'
  <2>1. /\ asked' = [kind |-> kind, parts |-> parts] /\ sent' = 0 /\ taken' = <<>>
        /\ count' \in 0..MaxRequests /\ UNCHANGED <<server, s2c>> /\ pc' = next
    BY <1>1, <1>5, Constants DEF Chooses, TypeOK
  <2>2. asked'.parts = parts /\ c2s' \in Seq(Message) /\ 0 \in 0..MaxParts
    BY <1>2, <1>5, <2>1, Constants
  <2>3. TypeOK'
    BY <1>1, <1>3, <1>4, <1>5, <2>1, <2>2 DEF TypeOK
  <2> QED BY <1>1, <1>5, <2>1, <2>2, <2>3 DEF TypeInv
<1>6. ASSUME NEW q \in Question, AskQuestion(q) PROVE TypeInv'
  <2>1. Request(q, 1, 1) \in Wire /\ 1 \in 0..MaxParts
    BY <1>4, RequestFact, Constants
  <2>2. c2s' \in Seq(Wire)
    BY <1>1, <1>6, <2>1 DEF AskQuestion
  <2> QED BY <1>1, <1>4, <1>5, <1>6, <2>1, <2>2 DEF AskQuestion, TypeOK
<1>7. ASSUME NEW k \in 1..MaxParts, ChooseUpload(k) PROVE TypeInv'
  <2>1. k \in 0..MaxParts /\ k > 0 /\ c2s' \in Seq(Wire) /\ orderly' \in BOOLEAN
    BY <1>1, <1>7, Constants DEF ChooseUpload, TypeOK
  <2> QED BY <1>1, <1>4, <1>5, <1>7, <2>1 DEF ChooseUpload, TypeOK
<1>8. ASSUME ChooseMissingUpload PROVE TypeInv'
  <2>1. 0 \in 0..MaxParts
    BY Constants
  <2>2. c2s' \in Seq(Wire) /\ took' \in BOOLEAN /\ orderly' \in BOOLEAN /\ Chooses("send", 0, "answer")
    BY <1>1, <1>8 DEF ChooseMissingUpload, TypeOK, Chooses
  <2> QED BY <1>4, <1>5, <2>1, <2>2
<1>9. ASSUME NEW k \in 1..MaxParts, ChooseTake(k) PROVE TypeInv'
  <2>1. k \in 0..MaxParts /\ 1 \in 1..MaxParts
    BY Constants
  <2>2. Request("take", 1, k) \in Wire
    BY <1>4, <2>1, RequestFact
  <2>3. c2s' \in Seq(Wire)
    BY <1>1, <1>9, <2>2 DEF ChooseTake
  <2> QED BY <1>1, <1>4, <1>5, <1>9, <2>1, <2>3 DEF ChooseTake, TypeOK
<1>10. ASSUME SendPart PROVE TypeInv'
  <2>1. /\ sent \in 0..MaxParts /\ asked.parts \in 0..MaxParts /\ sent < asked.parts
    BY <1>1, <1>10 DEF TypeInv, TypeOK, SendPart
  <2>2. sent + 1 \in 1..MaxParts /\ sent + 1 <= asked.parts
    BY <2>1, Constants
  <2>3. Request("send", sent + 1, asked.parts) \in Wire
    BY <1>4, <2>1, <2>2, RequestFact
  <2>4. c2s' \in Seq(Wire) /\ c2s' \in Seq(Message)
    BY <1>1, <1>2, <1>10, <2>3 DEF SendPart
  <2>5. sent' \in 0..MaxParts /\ pc' \in {"sending", "answer"}
        /\ (pc' = "sending" => sent' < asked'.parts)
    BY <1>10, <2>1, <2>2, Constants DEF SendPart
  <2>6. TypeOK'
    BY <1>1, <1>10, <2>4, <2>5 DEF SendPart, TypeOK
  <2> QED BY <1>1, <1>10, <2>4, <2>5, <2>6 DEF SendPart, TypeInv
<1>11. ASSUME ReadPart \/ ReadAnswer PROVE TypeInv'
  <2>1. /\ s2c # <<>> /\ s2c' = Tail(s2c)
        /\ UNCHANGED <<asked, sent, count, took, orderly, server, c2s>>
    BY <1>11 DEF ReadPart, ReadAnswer
  <2>2. s2c' \in Seq(Wire) /\ Len(s2c') = Len(s2c) - 1 /\ Head(s2c) \in Wire
    BY <1>1, <2>1, HeadTailProperties
  <2>3. Len(s2c') <= SocketBuffer /\ s2c' \in Seq(Message)
    BY <1>1, <1>2, <2>2, Constants DEF TypeInv
  <2>4. pc' \in {"menu", "answer", "taking", "ended"}
    BY <1>11 DEF ReadPart, ReadAnswer
  <2>5. taken' \in Seq(1..MaxParts)
    <3>1. taken \in Seq(1..MaxParts)
      BY <1>1 DEF TypeOK
    <3>2. Head(s2c).kind = "send" => Head(s2c).nr \in 1..MaxParts
      BY <2>2, BufFact
    <3>3. Head(s2c).kind = "send" => Append(taken, Head(s2c).nr) \in Seq(1..MaxParts)
      BY <3>1, <3>2, AppendProperties
    <3>4. taken' = taken \/ (Head(s2c).kind = "send" /\ taken' = Append(taken, Head(s2c).nr))
      BY <1>11 DEF ReadPart, ReadAnswer
    <3> QED BY <3>1, <3>3, <3>4
  <2>6. TypeOK'
    BY <1>1, <2>1, <2>3, <2>4, <2>5 DEF TypeOK
  <2> QED BY <1>1, <2>1, <2>2, <2>3, <2>4, <2>6 DEF TypeInv
<1>12. ASSUME CompleteRead PROVE TypeInv'
  <2>1. c2s # <<>> /\ c2s' = Tail(c2s) /\ buf' = Head(c2s)
    BY <1>12 DEF CompleteRead
  <2>2. c2s' \in Seq(Wire) /\ buf' \in Wire
    BY <1>1, <2>1, HeadTailProperties
  <2>3. c2s' \in Seq(Message) /\ buf' \in Message
    BY <1>2, <2>2
  <2>4. TypeOK'
    BY <1>1, <1>12, <2>3 DEF TypeOK, CompleteRead
  <2> QED BY <1>1, <1>12, <2>2, <2>4 DEF TypeInv, CompleteRead
<1>13. ASSUME CompleteWrite PROVE TypeInv'
  <2>1. s2c' = Append(s2c, buf) /\ Len(s2c) < SocketBuffer
    BY <1>13 DEF CompleteWrite
  <2>2. s2c' \in Seq(Wire) /\ Len(s2c') = Len(s2c) + 1
    BY <1>1, <2>1, AppendProperties
  <2>3. s2c' \in Seq(Message) /\ Len(s2c') <= SocketBuffer
    BY <1>1, <1>2, <2>1, <2>2, Constants
  <2>4. TypeOK'
    BY <1>1, <1>13, <2>3 DEF TypeOK, CompleteWrite
  <2> QED BY <1>1, <1>13, <2>2, <2>3, <2>4 DEF TypeInv, CompleteWrite
<1>14. ASSUME HandleWrite PROVE TypeInv'
  <2>1. TypeOK'
    BY <1>1, <1>14 DEF TypeOK, HandleWrite
  <2> QED BY <1>1, <1>14, <2>1 DEF TypeInv, HandleWrite
<1>15. \A m \in Wire : <<m>> \in Seq(Wire) /\ <<m>> # <<>>
  OBVIOUS
<1>16. clState \in {"none", "on_read"} /\ received \in Seq(1..MaxParts)
  BY <1>1 DEF TypeOK
<1>17. ASSUME NEW kinds, Handles(kinds), UNCHANGED <<s2c, writes, written, reads, clState, received>>,
              buf' \in Wire
       PROVE  TypeInv'
  <2>1. TypeOK'
    BY <1>1, <1>2, <1>17 DEF TypeOK, Handles
  <2> QED BY <1>1, <1>17, <2>1 DEF TypeInv, Handles
<1>18. ASSUME HandleQuestion PROVE TypeInv'
  <2>1. Handles(Question) /\ buf.kind \in Question /\ UNCHANGED <<reads, clState, received>>
    BY <1>18 DEF HandleQuestion, Handles
  <2>2. Reply(buf.kind) \in Wire
    BY <1>4, <2>1, ReplyFact
  <2>3. CASE clState = "none"
    <3>1. StartWrites(<<Reply(buf.kind)>>)
      BY <1>18, <2>3 DEF HandleQuestion
    <3> QED BY <1>15, <1>16, <2>1, <2>2, <3>1, AnswerType
  <2>4. CASE clState # "none"
    BY <1>17, <1>18, <2>1, <2>2, <2>4 DEF HandleQuestion
  <2> QED BY <2>3, <2>4
<1>19. ASSUME HandlePart \/ HandleLastPart PROVE received' \in Seq(1..MaxParts)
  <2>1. buf.kind = "send"
    BY <1>19 DEF HandlePart, HandleLastPart, Handles
  <2>2. buf.nr \in 1..MaxParts /\ 1 \in 1..MaxParts
    BY <1>1, <2>1, BufFact, Constants
  <2>3. <<1>> \in Seq(1..MaxParts) /\ Append(received, buf.nr) \in Seq(1..MaxParts)
    BY <1>16, <2>2
  <2> QED BY <1>19, <2>3 DEF HandlePart, HandleLastPart
<1>20. ASSUME HandlePart PROVE TypeInv'
  <2>1. TypeOK'
    BY <1>1, <1>19, <1>20 DEF TypeOK, HandlePart, Handles
  <2> QED BY <1>1, <1>20, <2>1 DEF TypeInv, HandlePart, Handles
<1>21. ASSUME HandleLastPart PROVE TypeInv'
  <2>1. Handles({"send"}) /\ StartWrites(<<Reply("send")>>) /\ clState' = "none" /\ reads' = reads
    BY <1>21 DEF HandleLastPart
  <2>2. Reply("send") \in Wire
    BY <1>4, ReplyFact
  <2> QED BY <1>15, <1>19, <1>21, <2>1, <2>2, AnswerType
<1>22. ASSUME HandleTake PROVE TypeInv'
  <2>1. /\ Handles({"take"}) /\ StartWrites(TakeAnswer(buf.of)) /\ clState' = "none"
        /\ reads' = reads /\ received' = received
    BY <1>22 DEF HandleTake
  <2>2. buf.of \in 0..MaxParts /\ buf.of \in Nat
    BY <1>1, BufFact, Constants
  <2>3. TakeAnswer(buf.of) \in Seq(Wire) /\ Len(TakeAnswer(buf.of)) = buf.of + 1
    BY <2>2, TakeAnswerFact
  <2>4. TakeAnswer(buf.of) # <<>>
    BY <2>2, <2>3
  <2> QED BY <1>16, <2>1, <2>3, <2>4, AnswerType
<1>23. ASSUME HandleOwnAnswer PROVE TypeInv'
  <2>1. Handles({"answer"}) /\ UNCHANGED <<reads, clState, received>>
    BY <1>23 DEF HandleOwnAnswer
  <2>2. CASE clState = "none"
    <3>1. StartWrites(<<buf>>)
      BY <1>23, <2>2 DEF HandleOwnAnswer
    <3> QED BY <1>1, <1>15, <1>16, <2>1, <3>1, AnswerType
  <2>3. CASE clState # "none"
    BY <1>1, <1>17, <1>23, <2>1, <2>3 DEF HandleOwnAnswer
  <2> QED BY <2>2, <2>3
<1>24. CASE UNCHANGED vars
  <2>1. TypeOK'
    BY <1>1, <1>24 DEF TypeOK, vars
  <2> QED BY <1>1, <1>24, <2>1 DEF TypeInv, vars
<1> QED
  BY <1>6, <1>7, <1>8, <1>9, <1>10, <1>11, <1>12, <1>13, <1>14, <1>18, <1>20, <1>21, <1>22,
     <1>23, <1>24
     DEF Next, Chooser, Client, Socket, Server, Ended

-----------------------------------------------------------------------------
(* The stages of a request. *)

LEMMA UptoFact ==
  ASSUME NEW k \in Nat
  PROVE  Append(Upto(k), k + 1) = Upto(k + 1) /\ Upto(1) = <<1>> /\ Upto(0) = <<>>
<1>1. Upto(k) \in Seq(Nat) /\ Len(Upto(k)) = k /\ \A i \in 1..k : Upto(k)[i] = i
  BY DEF Upto
<1>2. /\ Upto(k + 1) \in Seq(Nat) /\ Len(Upto(k + 1)) = k + 1
      /\ \A i \in 1..k + 1 : Upto(k + 1)[i] = i
  BY DEF Upto
<1> DEFINE a == Append(Upto(k), k + 1)
<1>3. /\ a \in Seq(Nat) /\ Len(a) = Len(Upto(k)) + 1
      /\ \A i \in 1..Len(Upto(k)) : a[i] = Upto(k)[i]
      /\ a[Len(Upto(k)) + 1] = k + 1
  BY <1>1, AppendProperties
<1> HIDE DEF a
<1>4. ASSUME NEW i \in 1..Len(a) PROVE a[i] = Upto(k + 1)[i]
  <2>1. CASE i \in 1..k
    BY <2>1, <1>1, <1>2, <1>3
  <2>2. CASE i = k + 1
    BY <2>2, <1>1, <1>2, <1>3
  <2> QED BY <2>1, <2>2, <1>1, <1>3
<1>5. a = Upto(k + 1)
  BY <1>1, <1>2, <1>3, <1>4, SeqEqual
<1>6. Upto(1) = <<1>> /\ Upto(0) = <<>>
  BY DEF Upto
<1> QED BY <1>5, <1>6 DEF a

(* Types of what the stages speak of.                                      *)
LEMMA Counts ==
  ASSUME TypeInv
  PROVE  /\ reads \in Nat /\ arrived \in Nat /\ writes \in Nat /\ written \in Nat
         /\ c2s \in Seq(Wire) /\ s2c \in Seq(Wire) /\ buf \in Wire
         /\ Len(c2s) \in Nat /\ Len(s2c) \in Nat /\ sent \in Nat
         /\ asked.parts \in 0..MaxParts /\ asked.parts \in Nat
         /\ took \in BOOLEAN
BY Constants DEF TypeInv, TypeOK

LEMMA Naturals ==
  ASSUME TypeInv
  PROVE  /\ reads \in Nat /\ arrived \in Nat /\ writes \in Nat /\ written \in Nat
         /\ Len(c2s) \in Nat /\ Len(s2c) \in Nat /\ sent \in Nat /\ asked.parts \in Nat
BY Counts

LEMMA OneOfOne ==
  ASSUME NEW n \in Nat, NEW w \in Nat, n >= 1, n + w = 1
  PROVE  n = 1 /\ w = 0
OBVIOUS

LEMMA ChooseStep ==
  ASSUME TypeInv, Idle, Listening,
         NEW kind \in Kind, NEW parts \in 1..MaxParts, NEW next, Chooses(kind, parts, next),
         next = (IF kind = "send" THEN "sending" ELSE IF kind = "take" THEN "taking" ELSE "answer"),
         c2s' = (IF kind = "send" THEN <<>> ELSE <<Request(kind, 1, parts)>>),
         kind \in Question => parts = 1,
         kind = "send" /\ parts > 1 => ~took,
         took' = (took \/ kind = "take")
  PROVE  Listening' /\ Underway'
<1>1. /\ pc' = next /\ asked'.kind = kind /\ asked'.parts = parts /\ sent' = 0 /\ taken' = <<>>
      /\ UNCHANGED <<buf, reads, arrived, writes, written, clState, received, s2c>>
  BY DEF Chooses, server
<1>2. s2c = <<>> /\ arrived = 0 /\ writes = 0 /\ clState = "none"
  BY DEF Idle, Quiet
<1>3. Listening'
  BY <1>1 DEF Listening, InFlight
<1>4. parts \in Nat /\ parts >= 1
  BY Constants
<1>5. Follow(0)'
  <2>1. CASE kind = "send"
    BY <1>1, <1>2, <2>1 DEF Follow, Asked
  <2>2. CASE kind # "send"
    <3>1. Len(c2s') = 1 /\ c2s'[1] = Request(kind, 1, parts) /\ Asked' = 1
      BY <1>1, <2>2 DEF Asked
    <3>2. \A i \in 1..Len(c2s') : c2s'[i] = Request(kind, 0 + arrived' + i, parts)
      BY <1>1, <1>2, <3>1
    <3> QED BY <1>1, <1>2, <3>1, <3>2 DEF Follow
  <2> QED BY <2>1, <2>2
<1>6. \/ kind = "send" /\ pc' = "sending"
      \/ kind = "take" /\ pc' = "taking" /\ took'
      \/ kind \in Question /\ pc' = "answer" /\ parts = 1
  BY <1>1, Constants DEF Kind
<1>7. \E r \in 0..(asked'.parts - 1) : Follow(r)'
  BY <1>1, <1>4, <1>5
<1>8. kind = "send" /\ parts > 1 => ~took'
  OBVIOUS
<1> QED BY <1>1, <1>2, <1>3, <1>4, <1>6, <1>7, <1>8 DEF Underway

LEMMA SendPartStep ==
  ASSUME TypeInv, Listening, Stages, SendPart
  PROVE  Listening' /\ Underway'
<1>1. pc = "sending" /\ c2s' = Append(c2s, Request("send", sent + 1, asked.parts))
      /\ sent' = sent + 1 /\ sent < asked.parts
      /\ pc' = (IF sent + 1 = asked.parts THEN "answer" ELSE "sending")
      /\ UNCHANGED <<asked, taken, took, buf, reads, arrived, writes, written, clState,
                     received, s2c>>
  BY DEF SendPart, server, TypeInv
<1>2. Underway /\ asked.kind = "send"
  BY <1>1 DEF Stages, Idle, Answered, Takes, Taking, Over, Underway
<1>3. PICK r \in 0..(asked.parts - 1) : Follow(r)
  BY <1>2 DEF Underway
<1>4. sent = r + arrived + Len(c2s) /\ r \in Nat
  BY <1>2, <1>3, Counts DEF Follow, Asked
<1> DEFINE m == Request("send", sent + 1, asked.parts)
<1>5. m \in Wire
  <2>1. sent + 1 \in 1..MaxParts
    <3>1. asked.parts \in Nat /\ asked.parts <= MaxParts /\ MaxParts \in Nat
      BY Counts, Constants
    <3>2. sent \in Nat /\ sent < asked.parts
      BY <1>1, Naturals
    <3> QED BY <3>1, <3>2
  <2>2. asked.parts \in 0..MaxParts /\ "send" \in Kind
    BY Counts DEF Kind
  <2> QED BY <2>1, <2>2, RequestFact
<1> HIDE DEF m
<1>6. /\ Len(c2s') = Len(c2s) + 1
      /\ \A i \in 1..Len(c2s) : c2s'[i] = c2s[i]
      /\ c2s'[Len(c2s) + 1] = m
  BY <1>1, <1>5, Counts, AppendProperties DEF m
<1>7. ASSUME NEW i \in 1..Len(c2s')
      PROVE  c2s'[i] = Request(asked.kind, r + arrived + i, asked.parts)
  <2>1. CASE i \in 1..Len(c2s)
    BY <2>1, <1>3, <1>6 DEF Follow
  <2>2. CASE i = Len(c2s) + 1
    <3>1. r + arrived + i = sent + 1
      BY <2>2, <1>4, Counts
    <3> QED BY <2>2, <3>1, <1>2, <1>6 DEF m
  <2> QED BY <2>1, <2>2, <1>6, Counts
<1>8. Asked' = r + arrived' + Len(c2s')
  <2>1. Asked' = sent + 1 /\ arrived' = arrived
    BY <1>1, <1>2 DEF Asked
  <2>2. arrived \in Nat /\ Len(c2s) \in Nat
    BY Naturals
  <2>3. Len(c2s') = Len(c2s) + 1
    BY <1>6
  <2> QED BY <1>4, <2>1, <2>2, <2>3
<1>9. Follow(r)'
  BY <1>1, <1>3, <1>7, <1>8 DEF Follow
<1>10. Listening'
  BY <1>1 DEF Listening, InFlight
<1>11. pc' = "sending" \/ (pc' = "answer" /\ sent' = asked'.parts)
  BY <1>1
<1>12. \E x \in 0..(asked'.parts - 1) : Follow(x)'
  BY <1>1, <1>3, <1>9
<1> QED BY <1>1, <1>2, <1>10, <1>11, <1>12 DEF Underway

LEMMA ReadPartStep ==
  ASSUME TypeInv, Listening, Stages, ReadPart
  PROVE  Listening' /\ (Takes' \/ Over')
<1>1. /\ pc = "taking" /\ s2c # <<>> /\ s2c' = Tail(s2c)
      /\ UNCHANGED <<asked, took, c2s, buf, reads, arrived, writes, written, clState, received>>
  BY DEF ReadPart, server
<1>2. Takes
  BY <1>1 DEF Stages, Idle, Answered, Underway, Over
<1>3. PICK j \in 0..asked.parts : Taking(j)
  BY <1>2 DEF Takes
<1>4. j \in Nat /\ j < asked.parts /\ asked.parts \in Nat
  BY <1>1, <1>3, Counts DEF Taking
<1>5. Listening'
  BY <1>1 DEF Listening, InFlight
<1>6. /\ Len(s2c) >= 1 /\ Head(s2c) = s2c[1] /\ Len(s2c') = Len(s2c) - 1
      /\ \A i \in 1..Len(s2c') : s2c'[i] = s2c[i + 1]
  <2>1. s2c \in Seq(Wire)
    BY Counts
  <2>2. Len(s2c') = Len(s2c) - 1 /\ \A i \in 1..Len(s2c') : s2c'[i] = s2c[i + 1]
    BY <1>1, <2>1, HeadTailProperties
  <2>3. Len(s2c) >= 1 /\ Head(s2c) = s2c[1]
    BY <1>1, <2>1
  <2> QED BY <2>2, <2>3
<1>7. CASE Head(s2c).kind = "send"
  <2>1. Head(s2c) = Request("send", j + 1, asked.parts)
    <3>1. Reply("take").kind # "send"
      BY DEF Reply
    <3>2. 1 \in 1..Len(s2c)
      BY <1>6, Counts
    <3> QED BY <1>3, <1>6, <1>7, <3>1, <3>2 DEF Taking
  <2>2. /\ taken' = Append(taken, j + 1)
        /\ pc' = (IF j + 1 = asked.parts THEN "answer" ELSE "taking")
    <3>1. Reply("delete").kind # "send"
      BY DEF Reply
    <3>2. /\ taken' = Append(taken, Head(s2c).nr)
          /\ pc' = IF IsLast(Head(s2c)) THEN "answer" ELSE "taking"
      BY <1>7, <3>1 DEF ReadPart
    <3> QED BY <2>1, <3>2 DEF Request, IsLast
  <2>3. taken' = Upto(j + 1)
    BY <1>3, <1>4, <2>2, UptoFact DEF Taking
  <2>4. pc' = (IF j + 1 < asked.parts THEN "taking" ELSE "answer")
    BY <1>4, <2>2
  <2>5. (j + 1) + Len(s2c') = j + Len(s2c)
    BY <1>4, <1>6, Counts
  <2>6. ASSUME NEW i \in 1..Len(s2c')
        PROVE  s2c'[i] = IF j + 1 + i <= asked.parts /\ j + 1 + i <= SocketBuffer
                         THEN Request("send", j + 1 + i, asked.parts) ELSE Reply("take")
    <3>1. i + 1 \in 1..Len(s2c) /\ j + (i + 1) = j + 1 + i
      BY <1>4, <1>6, Naturals
    <3> QED BY <1>3, <1>6, <3>1 DEF Taking
  <2>7. Taking(j + 1)'
    BY <1>1, <1>3, <2>3, <2>4, <2>5, <2>6 DEF Taking
  <2>8. \E x \in 0..asked'.parts : Taking(x)'
    <3>1. j + 1 \in 0..asked'.parts
      BY <1>1, <1>4
    <3> QED BY <2>7, <3>1
  <2> QED BY <1>1, <1>2, <1>5, <2>8 DEF Takes, Quiet
<1>8. CASE Head(s2c).kind # "send"
  <2>1. 1 \in 1..Len(s2c)
    BY <1>6, Counts
  <2>2. /\ Head(s2c) = IF j + 1 <= asked.parts /\ j + 1 <= SocketBuffer
                       THEN Request("send", j + 1, asked.parts) ELSE Reply("take")
    BY <1>3, <1>6, <2>1 DEF Taking
  <2>3. Head(s2c) = Reply("take") /\ asked.parts > SocketBuffer
    <3>1. Request("send", j + 1, asked.parts).kind = "send"
      BY DEF Request
    <3>2. Head(s2c) = Reply("take") /\ ~(j + 1 <= asked.parts /\ j + 1 <= SocketBuffer)
      BY <1>8, <2>2, <3>1
    <3> QED BY <1>4, <3>2, Constants
  <2>4. Reply("take") # Reply("delete")
    BY DEF Reply
  <2>5. pc' = "ended"
    BY <1>8, <2>3, <2>4 DEF ReadPart
  <2>6. ~Fits'
    BY <1>1, <1>2, <1>4, <2>3, Constants DEF Fits, Takes
  <2> QED BY <1>1, <1>2, <1>5, <2>5, <2>6 DEF Over, Takes, Quiet
<1> QED BY <1>7, <1>8

LEMMA ReadAnswerStep ==
  ASSUME TypeInv, Listening, Stages, ReadAnswer
  PROVE  Listening' /\ Idle'
<1>1. /\ pc = "answer" /\ s2c # <<>> /\ s2c' = Tail(s2c) /\ pc' = "menu"
      /\ UNCHANGED <<took, c2s, buf, reads, arrived, writes, written, clState, received>>
  BY DEF ReadAnswer, server
<1>2. Len(s2c) >= 1
  BY <1>1, Counts
<1>3. Quiet /\ writes = 0 /\ Len(s2c) = 1
  <2>1. CASE Answered
    BY <2>1 DEF Answered
  <2>2. CASE Takes
    <3>1. PICK j \in 0..asked.parts : Taking(j)
      BY <2>2 DEF Takes
    <3>2. j = asked.parts /\ j + Len(s2c) + writes = asked.parts + 1
      BY <1>1, <3>1, Counts DEF Taking
    <3>3. Len(s2c) + writes = 1
      <4>1. j \in Nat /\ Len(s2c) \in Nat /\ writes \in Nat
        BY <3>2, Naturals
      <4>2. j + Len(s2c) + writes = j + 1
        BY <3>2
      <4> QED BY <4>1, <4>2
    <3>4. writes = 0 /\ Len(s2c) = 1
      <4>1. writes \in Nat /\ Len(s2c) \in Nat
        BY Naturals
      <4> QED BY <1>2, <3>3, <4>1, OneOfOne
    <3> QED BY <2>2, <3>4 DEF Takes
  <2> QED BY <1>1, <2>1, <2>2 DEF Stages, Idle, Underway, Over
<1>4. s2c' = <<>>
  <2>1. s2c' \in Seq(Wire) /\ Len(s2c') = 0
    BY <1>1, <1>3, Counts, HeadTailProperties
  <2> QED BY <2>1
<1> QED BY <1>1, <1>3, <1>4 DEF Idle, Quiet, Listening, InFlight

LEMMA CompleteReadStep ==
  ASSUME TypeInv, Listening, Stages, CompleteRead
  PROVE  Listening' /\ Underway'
<1>1. /\ reads > 0 /\ c2s # <<>> /\ buf' = Head(c2s) /\ c2s' = Tail(c2s)
      /\ reads' = reads - 1 /\ arrived' = arrived + 1
      /\ UNCHANGED <<pc, asked, sent, taken, took, s2c, writes, written, clState, received>>
  BY DEF CompleteRead, client
<1>2. Underway
  BY <1>1 DEF Stages, Idle, Answered, Takes, Over, Quiet
<1>3. PICK r \in 0..(asked.parts - 1) : Follow(r)
  BY <1>2 DEF Underway
<1>4. r \in Nat /\ asked.parts \in Nat
  BY Counts
<1>5. /\ Len(c2s) >= 1 /\ Head(c2s) = c2s[1] /\ Len(c2s') = Len(c2s) - 1
      /\ \A i \in 1..Len(c2s') : c2s'[i] = c2s[i + 1]
  <2>1. c2s \in Seq(Wire)
    BY Counts
  <2>2. Len(c2s') = Len(c2s) - 1 /\ \A i \in 1..Len(c2s') : c2s'[i] = c2s[i + 1]
    BY <1>1, <2>1, HeadTailProperties
  <2>3. Len(c2s) >= 1 /\ Head(c2s) = c2s[1]
    BY <1>1, <2>1
  <2> QED BY <2>2, <2>3
<1>6. arrived = 0
  <2> SUFFICES ASSUME arrived = 1 PROVE FALSE
    BY <1>2 DEF Underway
  <2>1. Asked >= 2
    BY <1>3, <1>4, <1>5, Counts DEF Follow
  <2>2. asked.kind = "send" /\ sent >= 2
    BY <2>1 DEF Asked
  <2>3. asked.parts > 1
    <3>1. sent <= asked.parts
      <4>1. (pc = "sending" /\ sent < asked.parts) \/ sent = asked.parts
        BY <1>2, <2>2, Constants DEF Underway, TypeInv
      <4> QED BY <4>1, Naturals
    <3> QED BY <2>2, <3>1, Naturals
  <2>4. InFlight = 1
    BY <1>2, <2>2, <2>3 DEF Underway, Listening
  <2> QED BY <1>1, <2>4, Counts DEF InFlight
<1>7. buf' = Request(asked.kind, r + 1, asked.parts)
  <2>1. 1 \in 1..Len(c2s) /\ r + arrived + 1 = r + 1
    BY <1>4, <1>5, <1>6, Counts
  <2> QED BY <1>1, <1>3, <1>5, <2>1 DEF Follow
<1>8. Asked' = r + arrived' + Len(c2s')
  <2>1. Asked' = Asked /\ arrived' = arrived + 1
    BY <1>1 DEF Asked
  <2>2. Asked = r + arrived + Len(c2s)
    BY <1>3 DEF Follow
  <2>3. arrived \in Nat /\ Len(c2s) \in Nat
    BY Naturals
  <2>4. Len(c2s') = Len(c2s) - 1
    BY <1>5
  <2> QED BY <1>4, <2>1, <2>2, <2>3, <2>4
<1>9. ASSUME NEW i \in 1..Len(c2s')
      PROVE  c2s'[i] = Request(asked.kind, r + arrived' + i, asked.parts)
  <2>1. i + 1 \in 1..Len(c2s) /\ r + arrived + (i + 1) = r + arrived' + i
    <3>1. Len(c2s') = Len(c2s) - 1 /\ arrived' = arrived + 1
      BY <1>1, <1>5
    <3>2. Len(c2s) \in Nat /\ arrived \in Nat
      BY Naturals
    <3> QED BY <1>4, <3>1, <3>2
  <2> QED BY <1>3, <1>5, <2>1 DEF Follow
<1>10. Follow(r)'
  BY <1>1, <1>3, <1>7, <1>8, <1>9 DEF Follow
<1>11. \E x \in 0..(asked'.parts - 1) : Follow(x)'
  BY <1>1, <1>3, <1>10
<1>12. Listening'
  <2>1. InFlight' = InFlight
    BY <1>1, Naturals DEF InFlight
  <2> QED BY <1>1, <2>1 DEF Listening
<1> QED BY <1>1, <1>2, <1>6, <1>11, <1>12 DEF Underway

LEMMA CompleteWriteStep ==
  ASSUME TypeInv, Listening, Stages, CompleteWrite
  PROVE  Listening' /\ (Takes' \/ Over')
<1>1. /\ writes > 0 /\ Len(s2c) < SocketBuffer /\ s2c' = Append(s2c, buf)
      /\ writes' = writes - 1 /\ written' = written + 1
      /\ UNCHANGED <<pc, asked, sent, taken, took, c2s, buf, reads, arrived, clState, received>>
  BY DEF CompleteWrite, client
<1>2. Listening'
  <2>1. InFlight' = InFlight
    BY <1>1, Naturals DEF InFlight
  <2> QED BY <1>1, <2>1 DEF Listening
<1>3. CASE Over
  BY <1>1, <1>2, <1>3 DEF Over, Fits, Quiet
<1>4. CASE Takes
  <2>1. PICK j \in 0..asked.parts : Taking(j)
    BY <1>4 DEF Takes
  <2>2. j \in Nat /\ asked.parts \in Nat /\ SocketBuffer \in Nat
    BY Counts, Constants
  <2>3. /\ Len(s2c') = Len(s2c) + 1 /\ \A i \in 1..Len(s2c) : s2c'[i] = s2c[i]
        /\ s2c'[Len(s2c) + 1] = Reply("take")
    BY <1>1, <1>4, Counts, AppendProperties DEF Takes
  <2>4. ASSUME NEW i \in 1..Len(s2c')
        PROVE  s2c'[i] = IF j + i <= asked.parts /\ j + i <= SocketBuffer
                         THEN Request("send", j + i, asked.parts) ELSE Reply("take")
    <3>1. CASE i \in 1..Len(s2c)
      BY <2>1, <2>3, <3>1 DEF Taking
    <3>2. CASE i = Len(s2c) + 1
      <4>1. ~(j + i <= asked.parts /\ j + i <= SocketBuffer)
        <5>1. j + Len(s2c) > asked.parts \/ j + Len(s2c) >= SocketBuffer
          BY <2>1 DEF Taking
        <5>2. Len(s2c) \in Nat
          BY Naturals
        <5> QED BY <2>2, <3>2, <5>1, <5>2
      <4> QED BY <2>3, <3>2, <4>1
    <3> QED BY <3>1, <3>2, <2>3, Counts
  <2>5. /\ j + Len(s2c') + writes' = asked.parts + 1
        /\ j + Len(s2c') > asked.parts \/ j + Len(s2c') >= SocketBuffer
    <3>1. /\ j + Len(s2c) + writes = asked.parts + 1
          /\ j + Len(s2c) > asked.parts \/ j + Len(s2c) >= SocketBuffer
      BY <2>1 DEF Taking
    <3>2. Len(s2c') = Len(s2c) + 1 /\ writes' = writes - 1
      BY <1>1, <2>3
    <3>3. writes \in Nat /\ Len(s2c) \in Nat
      BY Naturals
    <3> QED BY <2>2, <3>1, <3>2, <3>3
  <2>6. Taking(j)'
    BY <1>1, <2>1, <2>4, <2>5 DEF Taking
  <2>7. \E x \in 0..asked'.parts : Taking(x)'
    BY <1>1, <2>1, <2>6
  <2> QED BY <1>1, <1>2, <1>4, <2>7 DEF Takes, Quiet
<1> QED BY <1>1, <1>3, <1>4 DEF Stages, Idle, Underway, Answered

LEMMA HandleWriteStep ==
  ASSUME TypeInv, Listening, Stages, HandleWrite
  PROVE  Listening' /\ Stages'
<1>1. /\ written > 0 /\ written' = written - 1
      /\ reads' = (IF clState = "none" THEN reads + 1 ELSE reads)
      /\ UNCHANGED <<pc, asked, sent, taken, took, c2s, s2c, buf, arrived, writes, clState, received>>
  BY DEF HandleWrite, client
<1>2. clState = "none" /\ Stages'
  <2>1. CASE Underway
    <3>1. PICK r \in 0..(asked.parts - 1) : Follow(r)
      BY <2>1 DEF Underway
    <3>2. r = 0 /\ clState = "none"
      <4>1. r > 0 => written = 0
        BY <3>1 DEF Follow
      <4>2. r = 0
        BY <1>1, <3>1, <4>1
      <4> QED BY <3>1, <4>2 DEF Follow
    <3>3. Follow(0)'
      BY <1>1, <3>1, <3>2 DEF Follow, Asked
    <3>4. \E x \in 0..(asked'.parts - 1) : Follow(x)'
      BY <1>1, <3>1, <3>2, <3>3
    <3> QED BY <1>1, <2>1, <3>2, <3>4 DEF Underway, Stages
  <2>2. CASE Takes
    <3>1. \A j : Taking(j)' = Taking(j)
      BY <1>1 DEF Taking
    <3> QED BY <1>1, <2>2, <3>1 DEF Takes, Quiet, Stages
  <2>3. CASE Idle \/ Answered \/ Over
    BY <1>1, <2>3 DEF Idle, Answered, Over, Fits, Quiet, Stages
  <2> QED BY <2>1, <2>2, <2>3 DEF Stages
<1>3. Listening'
  <2>1. InFlight' = InFlight
    BY <1>1, <1>2, Naturals DEF InFlight
  <2> QED BY <1>1, <2>1 DEF Listening
<1> QED BY <1>2, <1>3

(* What a handler of handle_read finds in the buffer is what arrived.      *)
LEMMA HandlesFact ==
  ASSUME TypeInv, Listening, Stages, NEW kinds, Handles(kinds)
  PROVE  /\ Underway /\ arrived = 1 /\ asked.kind \in kinds
         /\ arrived' = 0 /\ UNCHANGED <<pc, asked, sent, taken, took, c2s>>
         /\ \E r \in 0..(asked.parts - 1) :
              Follow(r) /\ buf = Request(asked.kind, r + 1, asked.parts)
<1>1. arrived > 0 /\ buf.kind \in kinds /\ arrived' = arrived - 1
      /\ UNCHANGED <<pc, asked, sent, taken, took, c2s>>
  BY DEF Handles, client
<1>2. Underway
  BY <1>1 DEF Stages, Idle, Answered, Takes, Over, Quiet
<1>3. arrived = 1
  BY <1>1, <1>2 DEF Underway
<1>4. PICK r \in 0..(asked.parts - 1) : Follow(r)
  BY <1>2 DEF Underway
<1>5. buf = Request(asked.kind, r + 1, asked.parts)
  BY <1>3, <1>4 DEF Follow
<1>6. asked.kind \in kinds
  BY <1>1, <1>5 DEF Request
<1> QED BY <1>1, <1>2, <1>3, <1>4, <1>5, <1>6

(* When the server answers, all of the request was sent and has arrived.   *)
LEMMA LastArrived ==
  ASSUME TypeInv, Underway, arrived = 1, NEW r \in 0..(asked.parts - 1), Follow(r),
         asked.kind = "send" => r + 1 = asked.parts
  PROVE  c2s = <<>> /\ r + 1 = Asked /\ pc # "sending"
<1>1. r \in Nat /\ asked.parts \in Nat /\ c2s \in Seq(Wire) /\ Len(c2s) \in Nat
  BY Counts
<1>2. Asked = r + 1 + Len(c2s)
  BY DEF Follow
<1>3. asked.kind = "send" => sent <= asked.parts /\ (pc = "sending" => sent < asked.parts)
  BY <1>1, Counts, Constants DEF Underway, TypeInv
<1>4. Len(c2s) = 0 /\ pc # "sending"
  BY <1>1, <1>2, <1>3, Counts DEF Asked, Underway
<1> QED BY <1>1, <1>2, <1>4

(* One message answered by one: it fits the socket, which is empty.        *)
LEMMA OneAnswer ==
  ASSUME TypeInv, Listening, Stages, NEW kinds, Handles(kinds),
         NEW m \in Wire, StartWrites(<<m>>), UNCHANGED reads
  PROVE  s2c' = <<m>> /\ writes' = 0 /\ Listening'
<1>1. Underway /\ arrived = 1 /\ arrived' = 0 /\ UNCHANGED took
  BY HandlesFact
<1>2. s2c = <<>> /\ writes = 0 /\ SocketBuffer \in Nat \ {0}
  BY <1>1, Constants DEF Underway
<1>3. <<m>> \in Seq(Wire) /\ <<m>> # <<>> /\ Len(<<m>>) = 1 /\ <<m>>[1] = m
  OBVIOUS
<1>4. /\ s2c' \in Seq(Wire) /\ writes' \in Nat /\ written' \in Nat
      /\ writes' + written' = writes + written + 1
      /\ Len(s2c') + writes' = 1
      /\ writes' = 0 \/ Len(s2c') = SocketBuffer
      /\ \A i \in 1..Len(s2c') : s2c'[i] = <<m>>[i]
  BY <1>2, <1>3, StartWritesFact
<1>5. Len(s2c') = 1 /\ writes' = 0
  <2> DEFINE n == Len(s2c')
  <2>1. n \in Nat /\ n + writes' = 1 /\ (writes' = 0 \/ n = SocketBuffer) /\ writes' \in Nat
    BY <1>4
  <2> HIDE DEF n
  <2>2. n >= 1
    <3>1. CASE writes' = 0
      BY <2>1, <3>1
    <3>2. CASE n = SocketBuffer
      BY <1>2, <3>2
    <3> QED BY <2>1, <3>1, <3>2
  <2>3. n = 1 /\ writes' = 0
    BY <2>1, <2>2, OneOfOne
  <2> QED BY <2>3 DEF n
<1>6. s2c' = <<m>>
  BY <1>3, <1>4, <1>5, SeqEqual
<1>7. InFlight' = InFlight
  BY <1>1, <1>2, <1>4, <1>5, Naturals DEF InFlight
<1> QED BY <1>1, <1>5, <1>6, <1>7 DEF Listening

LEMMA HandleQuestionStep ==
  ASSUME TypeInv, Listening, Stages, HandleQuestion
  PROVE  Listening' /\ Answered'
<1>1. Handles(Question) /\ UNCHANGED <<reads, clState, received>>
  BY DEF HandleQuestion
<1>2. /\ Underway /\ arrived = 1 /\ asked.kind \in Question /\ arrived' = 0
      /\ UNCHANGED <<pc, asked, sent, taken, took, c2s>>
  BY <1>1, HandlesFact
<1>3. PICK r \in 0..(asked.parts - 1) : Follow(r) /\ buf = Request(asked.kind, r + 1, asked.parts)
  BY <1>1, HandlesFact
<1>4. asked.kind # "send" /\ asked.kind # "take" /\ asked.kind \in Kind
  BY <1>2, Constants DEF Kind
<1>5. r = 0 /\ clState = "none" /\ buf.kind = asked.kind
  BY <1>3, <1>4, Naturals DEF Follow, Request
<1>6. c2s = <<>> /\ pc # "sending"
  BY <1>2, <1>3, <1>4, LastArrived
<1>7. Reply(asked.kind) \in Wire /\ StartWrites(<<Reply(asked.kind)>>)
  BY <1>4, <1>5, ReplyFact DEF HandleQuestion
<1>8. s2c' = <<Reply(asked.kind)>> /\ writes' = 0 /\ Listening'
  BY <1>1, <1>7, OneAnswer
<1>9. pc = "answer"
  BY <1>2, <1>4, <1>6 DEF Underway
<1> QED BY <1>1, <1>2, <1>4, <1>5, <1>6, <1>8, <1>9 DEF Answered, Quiet

LEMMA HandlePartStep ==
  ASSUME TypeInv, Listening, Stages, HandlePart
  PROVE  Listening' /\ Underway'
<1>1. /\ Handles({"send"}) /\ ~IsLast(buf) /\ clState' = "on_read" /\ reads' = reads + 1
      /\ received' = (IF buf.nr = 1 THEN <<1>> ELSE Append(received, buf.nr))
      /\ UNCHANGED <<s2c, buf, writes, written>>
  BY DEF HandlePart
<1>2. /\ Underway /\ arrived = 1 /\ asked.kind = "send" /\ arrived' = 0
      /\ UNCHANGED <<pc, asked, sent, taken, took, c2s>>
  BY <1>1, HandlesFact
<1>3. PICK r \in 0..(asked.parts - 1) : Follow(r) /\ buf = Request(asked.kind, r + 1, asked.parts)
  BY <1>1, HandlesFact
<1>4. r \in Nat /\ r + 1 # asked.parts /\ buf.nr = r + 1 /\ asked.parts \in Nat
  BY <1>1, <1>3, Naturals DEF Request, IsLast
<1>5. r + 1 \in 0..(asked.parts - 1) /\ asked.parts > 1
  BY <1>4
<1>6. ~took /\ InFlight = 1
  BY <1>2, <1>5 DEF Underway, Listening
<1>7. reads = 0 /\ written = 0
  BY <1>2, <1>6, Naturals DEF InFlight
<1>8. received' = Upto(r + 1)
  <2>1. CASE r = 0
    BY <1>1, <1>4, <2>1, UptoFact
  <2>2. CASE r > 0
    BY <1>1, <1>3, <1>4, <2>2, UptoFact DEF Follow
  <2> QED BY <2>1, <2>2, <1>4
<1>9. /\ Asked' = r + 1 + arrived' + Len(c2s')
      /\ \A i \in 1..Len(c2s') : c2s'[i] = Request(asked.kind, r + 1 + arrived' + i, asked.parts)
  <2>1. Asked' = Asked /\ Asked = r + 1 + Len(c2s)
    BY <1>2, <1>3 DEF Follow, Asked
  <2>2. ASSUME NEW i \in 1..Len(c2s) PROVE c2s[i] = Request(asked.kind, r + 1 + 0 + i, asked.parts)
    <3>1. r + arrived + i = r + 1 + 0 + i
      BY <1>2, <1>4
    <3> QED BY <1>3, <3>1 DEF Follow
  <2>3. r + 1 + 0 + Len(c2s) = r + 1 + Len(c2s)
    BY <1>4, Naturals
  <2> QED BY <1>2, <2>1, <2>2, <2>3
<1>10. Follow(r + 1)'
  <2>1. r + 1 # 0 /\ arrived' # 1
    BY <1>2, <1>4
  <2>2. asked'.kind = "send" /\ ~took' /\ clState' = "on_read" /\ written' = 0 /\ asked' = asked
    BY <1>1, <1>2, <1>6, <1>7
  <2> QED BY <1>8, <1>9, <2>1, <2>2 DEF Follow
<1>11. \E x \in 0..(asked'.parts - 1) : Follow(x)'
  BY <1>2, <1>5, <1>10
<1>12. InFlight' = 1
  BY <1>1, <1>2, <1>7 DEF InFlight, Underway
<1> QED BY <1>1, <1>2, <1>11, <1>12 DEF Underway, Listening

LEMMA HandleLastPartStep ==
  ASSUME TypeInv, Listening, Stages, HandleLastPart
  PROVE  Listening' /\ Answered'
<1>1. /\ Handles({"send"}) /\ IsLast(buf) /\ clState' = "none" /\ StartWrites(<<Reply("send")>>)
      /\ received' = (IF buf.nr = 1 THEN <<1>> ELSE Append(received, buf.nr))
      /\ UNCHANGED reads
  BY DEF HandleLastPart
<1>2. /\ Underway /\ arrived = 1 /\ asked.kind = "send" /\ arrived' = 0
      /\ UNCHANGED <<pc, asked, sent, taken, took, c2s>>
  BY <1>1, HandlesFact
<1>3. PICK r \in 0..(asked.parts - 1) : Follow(r) /\ buf = Request(asked.kind, r + 1, asked.parts)
  BY <1>1, HandlesFact
<1>4. r \in Nat /\ r + 1 = asked.parts /\ buf.nr = r + 1
  BY <1>1, <1>3, Naturals DEF Request, IsLast
<1>5. c2s = <<>> /\ pc # "sending"
  BY <1>2, <1>3, <1>4, LastArrived
<1>6. received' = Upto(asked.parts)
  <2>1. CASE r = 0
    <3>1. Upto(1) = <<1>>
      BY DEF Upto
    <3> QED BY <1>1, <1>4, <2>1, <3>1
  <2>2. CASE r > 0
    BY <1>1, <1>3, <1>4, <2>2, UptoFact DEF Follow
  <2> QED BY <2>1, <2>2, <1>4
<1>7. "send" \in Kind /\ Reply("send") \in Wire
  BY ReplyFact DEF Kind
<1>8. s2c' = <<Reply("send")>> /\ writes' = 0 /\ Listening'
  BY <1>1, <1>7, OneAnswer
<1>9. pc = "answer"
  BY <1>2, <1>5, Constants DEF Underway
<1> QED BY <1>1, <1>2, <1>5, <1>6, <1>7, <1>8, <1>9 DEF Answered, Quiet

LEMMA HandleTakeStep ==
  ASSUME TypeInv, Listening, Stages, HandleTake
  PROVE  Listening' /\ Takes'
<1>1. /\ Handles({"take"}) /\ clState' = "none" /\ StartWrites(TakeAnswer(buf.of))
      /\ UNCHANGED <<reads, received>>
  BY DEF HandleTake
<1>2. /\ Underway /\ arrived = 1 /\ asked.kind = "take" /\ arrived' = 0
      /\ UNCHANGED <<pc, asked, sent, taken, took, c2s>>
  BY <1>1, HandlesFact
<1>3. PICK r \in 0..(asked.parts - 1) : Follow(r) /\ buf = Request(asked.kind, r + 1, asked.parts)
  BY <1>1, HandlesFact
<1>4. pc = "taking" /\ took /\ taken = <<>> /\ s2c = <<>> /\ writes = 0 /\ asked.parts >= 1
  BY <1>2, Constants DEF Underway
<1>5. c2s = <<>> /\ buf.of = asked.parts
  BY <1>2, <1>3, LastArrived DEF Request
<1> DEFINE k    == asked.parts
           msgs == TakeAnswer(k)
<1>6. k \in 0..MaxParts /\ k \in Nat
  BY Counts
<1>7. /\ msgs \in Seq(Wire) /\ Len(msgs) = k + 1
      /\ \A i \in 1..k + 1 : msgs[i] = IF i <= k THEN Request("send", i, k) ELSE Reply("take")
  BY <1>6, TakeAnswerFact
<1>8. StartWrites(msgs)
  BY <1>1, <1>5
<1> HIDE DEF msgs
<1>9. msgs # <<>> /\ k + 1 \in 1..k + 1 /\ ~(k + 1 <= k)
  BY <1>6, <1>7
<1>10. /\ s2c' \in Seq(Wire) /\ Len(s2c') <= SocketBuffer /\ writes' \in Nat /\ written' \in Nat
       /\ buf' = Reply("take")
       /\ writes' + written' = written + (k + 1)
       /\ Len(s2c') + writes' = k + 1
       /\ writes' = 0 \/ Len(s2c') = SocketBuffer
       /\ \A i \in 1..Len(s2c') : s2c'[i] = msgs[i]
  <2>1. /\ s2c' \in Seq(Wire) /\ Len(s2c') <= SocketBuffer /\ writes' \in Nat /\ written' \in Nat
        /\ buf' = msgs[Len(msgs)]
        /\ writes' + written' = writes + written + Len(msgs)
        /\ Len(s2c') + writes' = Len(msgs)
        /\ writes' = 0 \/ Len(s2c') = SocketBuffer
        /\ \A i \in 1..Len(s2c') : s2c'[i] = msgs[i]
    BY <1>4, <1>7, <1>8, <1>9, StartWritesFact
  <2>2. buf' = Reply("take")
    BY <1>7, <1>9, <2>1
  <2>3. writes + written + Len(msgs) = written + (k + 1)
    BY <1>4, <1>6, <1>7, Naturals
  <2> QED BY <1>7, <2>1, <2>2, <2>3
<1>11. Taking(0)'
  <2> DEFINE n == Len(s2c')
  <2>1. n \in Nat /\ SocketBuffer \in Nat
    BY <1>10, Constants
  <2>2. /\ n <= SocketBuffer /\ n + writes' = k + 1 /\ writes' \in Nat
        /\ writes' = 0 \/ n = SocketBuffer
        /\ \A i \in 1..n : s2c'[i] = msgs[i]
    BY <1>10
  <2> HIDE DEF n
  <2>3. /\ 0 + n + writes' = k + 1 /\ n <= k + 1
        /\ 0 + n > k \/ 0 + n >= SocketBuffer
    BY <1>6, <2>1, <2>2
  <2>4. ASSUME NEW i \in 1..n
        PROVE  s2c'[i] = IF 0 + i <= k /\ 0 + i <= SocketBuffer
                         THEN Request("send", 0 + i, k) ELSE Reply("take")
    <3>1. i \in 1..k + 1 /\ i <= SocketBuffer /\ 0 + i = i
      BY <1>6, <2>1, <2>2, <2>3
    <3> QED BY <1>7, <2>2, <3>1
  <2>5. pc' = (IF 0 < k THEN "taking" ELSE "answer") /\ taken' = Upto(0)
    BY <1>2, <1>4, <1>6, UptoFact
  <2> QED BY <1>2, <2>3, <2>4, <2>5 DEF Taking, n
<1>12. \E x \in 0..asked'.parts : Taking(x)'
  BY <1>2, <1>6, <1>11
<1>13. InFlight' >= 1
  <2>1. InFlight' = reads + 0 + writes' + written'
    BY <1>1, <1>2 DEF InFlight
  <2>2. reads \in Nat /\ written \in Nat /\ writes' \in Nat /\ written' \in Nat
        /\ writes' + written' = written + (k + 1)
    BY <1>10, Naturals
  <2> HIDE DEF k
  <2>3. InFlight' = reads + (writes' + written')
    BY <2>1, <2>2
  <2>4. reads + (writes' + written') >= 1
    <3>1. reads + (written + (k + 1)) >= 1
      BY <1>6, <2>2
    <3> QED BY <2>2, <3>1
  <2> QED BY <2>3, <2>4
<1> QED BY <1>1, <1>2, <1>4, <1>5, <1>10, <1>12, <1>13 DEF Takes, Quiet, Listening

-----------------------------------------------------------------------------
(* The invariant. *)

LEMMA InvInit == Init => IInv
<1> SUFFICES ASSUME Init PROVE IInv
  OBVIOUS
<1>1. Nothing \in Wire
  BY ReplyFact DEF Nothing
<1>2. TypeOK
  <2>1. 0 \in 0..MaxParts /\ 0 \in 0..MaxRequests /\ Nothing \in Message
    BY <1>1, Constants DEF Wire
  <2>2. [kind |-> "nothing", parts |-> 0] \in [kind : Kind \cup {"nothing"}, parts : 0..MaxParts]
    BY <2>1
  <2>3. <<>> \in Seq(1..MaxParts) /\ <<>> \in Seq(Message)
    OBVIOUS
  <2> QED BY <2>1, <2>2, <2>3 DEF Init, TypeOK
<1>3. TypeInv
  BY <1>1, <1>2, Constants DEF Init, TypeInv
<1>4. Listening /\ Idle
  BY DEF Init, Listening, InFlight, Idle, Quiet
<1> QED BY <1>3, <1>4 DEF IInv, Stages

LEMMA ChooserStep ==
  ASSUME TypeInv, Listening, Stages, Chooser, orderly'
  PROVE  Listening' /\ Stages'
<1>1. Idle /\ took \in BOOLEAN
  <2>1. pc = "menu"
    BY DEF Chooser, AskQuestion, ChooseUpload, ChooseMissingUpload, ChooseTake, Chooses
  <2> QED BY <2>1, Counts DEF Stages, Underway, Answered, Takes, Taking, Over
<1>2. c2s = <<>>
  BY <1>1 DEF Idle, Quiet
<1>3. Question \subseteq Kind /\ "send" \in Kind /\ "take" \in Kind /\ 1 \in 1..MaxParts
  BY Constants DEF Kind
<1>4. ASSUME NEW q \in Question, AskQuestion(q) PROVE Listening' /\ Underway'
  <2>1. Chooses(q, 1, "answer") /\ c2s' = <<Request(q, 1, 1)>> /\ took' = took
    BY <1>2, <1>4 DEF AskQuestion
  <2>2. q # "send" /\ q # "take" /\ q \in Kind
    BY <1>3, Constants
  <2>3. took' = (took \/ q = "take")
    BY <1>1, <2>1, <2>2
  <2> QED BY <1>1, <1>3, <2>1, <2>2, <2>3, ChooseStep
<1>5. ASSUME NEW k \in 1..MaxParts, ChooseUpload(k) PROVE Listening' /\ Underway'
  <2>1. Chooses("send", k, "sending") /\ c2s' = <<>> /\ took' = took
    BY <1>2, <1>5 DEF ChooseUpload
  <2>2. k > 1 => ~took
    BY <1>1, <1>5 DEF ChooseUpload
  <2>3. took' = (took \/ "send" = "take")
    BY <1>1, <2>1
  <2>4. "send" \in Question => k = 1
    BY Constants
  <2> QED BY <1>1, <1>3, <2>1, <2>2, <2>3, <2>4, ChooseStep
<1>6. ASSUME NEW k \in 1..MaxParts, ChooseTake(k) PROVE Listening' /\ Underway'
  <2>1. Chooses("take", k, "taking") /\ c2s' = <<Request("take", 1, k)>> /\ took' = TRUE
    BY <1>2, <1>6 DEF ChooseTake
  <2>2. took' = (took \/ "take" = "take")
    BY <2>1
  <2>3. "take" \in Question => k = 1
    BY Constants
  <2> QED BY <1>1, <1>3, <2>1, <2>2, <2>3, ChooseStep
<1>7. ~ChooseMissingUpload
  BY DEF ChooseMissingUpload
<1> QED BY <1>4, <1>5, <1>6, <1>7 DEF Chooser, Stages

LEMMA OrderlyStep ==
  ASSUME TypeInv, Listening, Stages, Next, orderly'
  PROVE  Listening' /\ Stages'
<1>1. CASE Chooser
  BY <1>1, ChooserStep
<1>2. CASE Client
  BY <1>2, SendPartStep, ReadPartStep, ReadAnswerStep DEF Client, Stages
<1>3. CASE Socket
  BY <1>3, CompleteReadStep, CompleteWriteStep DEF Socket, Stages
<1>4. ~HandleOwnAnswer
  <2> SUFFICES ASSUME Handles({"answer"}) PROVE FALSE
    BY DEF HandleOwnAnswer
  <2>1. asked.kind = "answer" /\ asked.kind \in Kind
    BY HandlesFact DEF Underway
  <2> QED BY <2>1, Constants DEF Kind
<1>5. CASE Server
  BY <1>4, <1>5, HandleWriteStep, HandleQuestionStep, HandlePartStep, HandleLastPartStep,
     HandleTakeStep
     DEF Server, Stages
<1>6. CASE UNCHANGED vars
  <2>1. /\ \A r : Follow(r)' = Follow(r)
        /\ \A j : Taking(j)' = Taking(j)
    BY <1>6 DEF vars, client, server, Follow, Taking, Asked
  <2> QED
    BY <1>6, <2>1 DEF vars, client, server, Listening, InFlight, Stages, Idle, Quiet, Underway,
                      Answered, Takes, Over, Fits
<1> QED BY <1>1, <1>2, <1>3, <1>5, <1>6 DEF Next, Ended

(* A client that has been disorderly stays so.                             *)
LEMMA OrderlyFact ==
  ASSUME TypeInv, Next, orderly'
  PROVE  orderly
<1>1. ASSUME Chooser PROVE orderly' => orderly
  BY <1>1 DEF Chooser, AskQuestion, ChooseUpload, ChooseMissingUpload, ChooseTake
<1>2. ASSUME Client \/ Socket \/ Server \/ Ended PROVE orderly' = orderly
  BY <1>2 DEF Client, SendPart, ReadPart, ReadAnswer, Socket, CompleteRead, CompleteWrite,
              Server, HandleWrite, HandleQuestion, HandlePart, HandleLastPart, HandleTake,
              HandleOwnAnswer, Handles, Ended, vars, client
<1> QED BY <1>1, <1>2 DEF Next

LEMMA InvStep == IInv /\ [Next]_vars => IInv'
<1> SUFFICES ASSUME IInv, [Next]_vars PROVE IInv'
  OBVIOUS
<1>1. TypeInv /\ TypeInv'
  BY TypeStep DEF IInv
<1>2. CASE Next
  <2> SUFFICES ASSUME orderly' PROVE Listening' /\ Stages'
    BY <1>1 DEF IInv
  <2>1. Listening /\ Stages
    BY <1>1, <1>2, OrderlyFact DEF IInv
  <2> QED BY <1>1, <1>2, <2>1, OrderlyStep
<1>3. CASE UNCHANGED vars
  <2>1. /\ \A r : Follow(r)' = Follow(r)
        /\ \A j : Taking(j)' = Taking(j)
    BY <1>3 DEF vars, client, server, Follow, Taking, Asked
  <2> QED
    BY <1>1, <1>3, <2>1 DEF IInv, vars, client, server, Listening, InFlight, Stages, Idle, Quiet,
                            Underway, Answered, Takes, Over, Fits
<1> QED BY <1>2, <1>3

(* The invariant holds of every client, orderly or not, and of any number  *)
(* of parts, requests and messages in the socket.                          *)
THEOREM InvCorrect == Spec => []IInv
BY InvInit, InvStep, PTL DEF Spec

-----------------------------------------------------------------------------
(* The results. *)

(* The variables keep their types, of orderly clients and of others: a part*)
(* of a file has a number between one and the number of parts, and no      *)
(* counter of operations goes below zero.                                  *)
THEOREM TypeCorrect == Spec => []TypeOK
<1>1. IInv => TypeOK
  BY DEF IInv, TypeInv
<1> QED BY <1>1, InvCorrect, PTL

(* However many questions an orderly client asks and files it moves, some  *)
(* read or write that handle_read or handle_write will follow keeps its    *)
(* NEW_connection alive, and exactly one until it takes a file.            *)
THEOREM AlwaysListeningCorrect == Spec => []AlwaysListening
<1>1. IInv => AlwaysListening
  BY DEF IInv, Listening, AlwaysListening
<1> QED BY <1>1, InvCorrect, PTL

(* cycle shows as the answer what the server wrote for this request, never *)
(* a leftover of an earlier one, though reads and writes share a buffer.   *)
THEOREM AnswerMatchesCorrect == Spec => []AnswerMatches
<1>1. IInv => AnswerMatches
  <2> SUFFICES ASSUME IInv, orderly, pc = "answer", s2c # <<>>
               PROVE  Head(s2c) = Reply(asked.kind)
    BY DEF AnswerMatches
  <2>1. TypeInv /\ Stages
    BY DEF IInv
  <2>2. CASE Answered
    BY <2>2 DEF Answered
  <2>3. CASE Takes
    <3>1. PICK j \in 0..asked.parts : Taking(j)
      BY <2>3 DEF Takes
    <3>2. j = asked.parts /\ j \in Nat
      BY <2>1, <3>1, Naturals DEF Taking
    <3>3. 1 \in 1..Len(s2c) /\ Head(s2c) = s2c[1] /\ ~(j + 1 <= asked.parts)
      <4>1. s2c \in Seq(Wire) /\ s2c # <<>>
        BY <2>1, Counts
      <4>2. Len(s2c) \in Nat \ {0} /\ Head(s2c) = s2c[1]
        BY <4>1, EmptySeq
      <4> QED BY <3>2, <4>2
    <3> QED BY <2>3, <3>1, <3>3 DEF Taking, Takes
  <2> QED BY <2>1, <2>2, <2>3 DEF Stages, Idle, Underway, Over
<1> QED BY <1>1, InvCorrect, PTL

(* When the answer to an upload of an orderly client is there, which sends *)
(* no file of several parts after it has taken one, SendingAFile has put   *)
(* every part of it in its place, exactly once.                            *)
THEOREM UploadInOrderCorrect == Spec => []UploadInOrder
<1>1. IInv => UploadInOrder
  <2> SUFFICES ASSUME IInv, orderly, pc = "answer", asked.kind = "send", s2c # <<>>
               PROVE  received = Upto(asked.parts)
    BY DEF UploadInOrder, WrittenInOrder
  <2>1. Stages
    BY DEF IInv
  <2>2. Answered
    BY <2>1 DEF Stages, Idle, Underway, Takes, Over
  <2> QED BY <2>2 DEF Answered
<1> QED BY <1>1, InvCorrect, PTL

(* The loop of "take file" leaves with all parts in order.  The parts that *)
(* found no room in the socket and leave as "200 OK" end the program       *)
(* (EndsOnlyOnLongFile), they never get into a file that counts as taken.  *)
THEOREM TakenInOrderCorrect == Spec => []TakenInOrder
<1>1. IInv => TakenInOrder
  <2> SUFFICES ASSUME IInv, orderly, pc = "answer", asked.kind = "take"
               PROVE  taken = Upto(asked.parts)
    BY DEF TakenInOrder
  <2>1. TypeInv /\ Stages
    BY DEF IInv
  <2>2. Takes
    BY <2>1, Constants DEF Stages, Idle, Underway, Answered, Over
  <2>3. PICK j \in 0..asked.parts : Taking(j)
    BY <2>2 DEF Takes
  <2>4. j = asked.parts
    BY <2>1, <2>3, Naturals DEF Taking
  <2> QED BY <2>3, <2>4 DEF Taking
<1> QED BY <1>1, InvCorrect, PTL

(* The program of an orderly client ends in the middle of a request only   *)
(* while it takes a file of more parts than the socket takes at once: the  *)
(* loop of "take file" never meets an answer as long as the parts fit.     *)
THEOREM EndsOnlyOnLongFileCorrect == Spec => []EndsOnlyOnLongFile
<1>1. IInv => EndsOnlyOnLongFile
  <2> SUFFICES ASSUME IInv, orderly, pc = "ended" PROVE ~Fits
    BY DEF EndsOnlyOnLongFile
  <2>1. TypeInv /\ Stages
    BY DEF IInv
  <2>2. Over
    BY <2>1 DEF Stages, Idle, Underway, Answered, Takes, Taking
  <2> QED BY <2>2 DEF Over
<1> QED BY <1>1, InvCorrect, PTL
===============================================================================
