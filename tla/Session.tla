------------------------------- MODULE Session -------------------------------
(***************************************************************************)
(* One client and its NEW_connection: the Client program asks one thing    *)
(* after another with blocking writes and reads, the server answers from   *)
(* asynchronous ones.  A read returns one whole message.  All reads and    *)
(* writes of the connection share the buffer http_request: a read fills it *)
(* when the message comes, a write takes what is in it when the socket has *)
(* room, and the handlers run later.                                       *)
(*                                                                         *)
(* Client:  pc       where ClientInit::cycle is                            *)
(*          asked    the request it is at: [kind, parts]                   *)
(*          sent     parts of it sent (an upload)                          *)
(*          taken    parts of it received (a file taken)                   *)
(*          count    requests so far                                       *)
(*          took     it has taken a file before                            *)
(*          orderly  it has neither named a file that is not there nor,    *)
(*                   after taking a file, sent one of several parts        *)
(* Wires:   c2s, s2c messages [kind, nr, of, to]                           *)
(* Server:  buf      http_request                                          *)
(*          reads    async_read_some started and not complete              *)
(*          arrived  reads complete, their handle_read not run yet         *)
(*          writes   async_write_some started, bytes not taken yet         *)
(*          written  writes complete, their handle_write not run yet       *)
(*          clState  client_state                                          *)
(*          received parts of the upload written to fileout                *)
(***************************************************************************)
EXTENDS Integers, SequencesExt

CONSTANTS
  Question,             \* requests answered by one message
  MaxParts,             \* bound: parts of a file
  MaxRequests,          \* bound: requests of a client
  SocketBuffer          \* messages the server's socket takes before the client reads

ASSUME SessionAssumption ==
  /\ Question \cap {"send", "take", "answer"} = {}
  /\ MaxParts \in Nat \ {0} /\ MaxRequests \in Nat /\ SocketBuffer \in Nat \ {0}

VARIABLES pc, asked, sent, taken, count, took, orderly, c2s, s2c,
          buf, reads, arrived, writes, written, clState, received

client == <<pc, asked, sent, taken, count, took, orderly>>
server == <<buf, reads, arrived, writes, written, clState, received>>
vars   == <<client, server, c2s, s2c>>

Kind == Question \cup {"send", "take"}

(* Slip: parts are counted from one twice.                                 *)
RequestLate(kind, nr, parts) == [kind |-> kind, nr |-> nr + 1, of |-> parts, to |-> kind]

(* A request or a part of a file, and an answer to a request.              *)
Request(kind, nr, parts) == [kind |-> kind, nr |-> nr, of |-> parts, to |-> kind]
Reply(kind)              == [kind |-> "answer", nr |-> 0, of |-> 0, to |-> kind]
Nothing                  == Reply("nothing")

(* Slip: the part before the last counts as last.                          *)
IsLastEarly(m) == m.nr + 1 >= m.of

(* Part-File: the last part says "end" or "full".                          *)
IsLast(m) == m.nr = m.of

Init ==
  /\ pc = "menu"
  /\ asked = [kind |-> "nothing", parts |-> 0]
  /\ sent = 0 /\ taken = <<>> /\ count = 0 /\ took = FALSE /\ orderly = TRUE
  /\ c2s = <<>> /\ s2c = <<>>
  /\ buf = Nothing
  /\ reads = 1 /\ arrived = 0 /\ writes = 0 /\ written = 0
  /\ clState = "none"
  /\ received = <<>>

-----------------------------------------------------------------------------
(* The client. *)

Chooses(kind, parts, next) ==
  /\ pc = "menu" /\ count < MaxRequests
  /\ pc' = next
  /\ asked' = [kind |-> kind, parts |-> parts]
  /\ sent' = 0 /\ taken' = <<>>
  /\ count' = count + 1
  /\ UNCHANGED <<server, s2c>>

AskQuestion(q) ==
  /\ Chooses(q, 1, "answer")
  /\ c2s' = Append(c2s, Request(q, 1, 1))
  /\ UNCHANGED <<took, orderly>>

ChooseUpload(k) ==
  /\ Chooses("send", k, "sending")
  /\ orderly' = (orderly /\ ~(took /\ k > 1))
  /\ UNCHANGED <<took, c2s>>

(* File_Sender cannot open the file: the client says so, sends nothing and *)
(* goes on to read an answer.                                              *)
ChooseMissingUpload ==
  /\ Chooses("send", 0, "answer")
  /\ orderly' = FALSE
  /\ UNCHANGED <<took, c2s>>

ChooseTake(k) ==
  /\ Chooses("take", k, "taking")
  /\ c2s' = Append(c2s, Request("take", 1, k))
  /\ took' = TRUE
  /\ UNCHANGED orderly

SendPart ==
  /\ pc = "sending"
  /\ c2s' = Append(c2s, Request("send", sent + 1, asked.parts))
  /\ sent' = sent + 1
  /\ pc' = IF sent + 1 = asked.parts THEN "answer" ELSE "sending"
  /\ UNCHANGED <<asked, taken, count, took, orderly, server, s2c>>

(* The loop of "take file".  It also ends on "No such file or directory",  *)
(* which the server answers only to a deletion (or else "200 OK"); stod of *)
(* any other answer, which has no Content-Length, throws and ends the      *)
(* program.                                                                *)
ReadPart ==
  /\ pc = "taking" /\ s2c # <<>>
  /\ s2c' = Tail(s2c)
  /\ \/ /\ Head(s2c).kind = "send"
        /\ taken' = Append(taken, Head(s2c).nr)
        /\ pc' = IF IsLast(Head(s2c)) THEN "answer" ELSE "taking"
     \/ /\ Head(s2c) = Reply("delete")
        /\ pc' = "answer"
        /\ UNCHANGED taken
     \/ /\ Head(s2c).kind # "send"
        /\ pc' = "ended"
        /\ UNCHANGED taken
  /\ UNCHANGED <<asked, sent, count, took, orderly, server, c2s>>

(* Whatever comes is the answer.                                           *)
ReadAnswer ==
  /\ pc = "answer" /\ s2c # <<>>
  /\ s2c' = Tail(s2c)
  /\ pc' = "menu"
  /\ UNCHANGED <<asked, sent, taken, count, took, orderly, server, c2s>>

-----------------------------------------------------------------------------
(* The socket under the server. *)

CompleteRead ==
  /\ reads > 0 /\ c2s # <<>>
  /\ buf' = Head(c2s)
  /\ c2s' = Tail(c2s)
  /\ reads' = reads - 1
  /\ arrived' = arrived + 1
  /\ UNCHANGED <<client, s2c, writes, written, clState, received>>

CompleteWrite ==
  /\ writes > 0 /\ Len(s2c) < SocketBuffer
  /\ s2c' = Append(s2c, buf)
  /\ writes' = writes - 1
  /\ written' = written + 1
  /\ UNCHANGED <<client, c2s, buf, reads, arrived, clState, received>>

-----------------------------------------------------------------------------
(* The server's handlers. *)

(* start_write for each of msgs, the buffer set before each: the socket    *)
(* takes at once what it has room for.                                     *)
StartWrites(msgs) ==
  LET room == IF writes > 0 THEN 0 ELSE SocketBuffer - Len(s2c)
      now  == IF Len(msgs) <= room THEN Len(msgs) ELSE room
  IN /\ buf' = Last(msgs)
     /\ s2c' = s2c \o SubSeq(msgs, 1, now)
     /\ written' = written + now
     /\ writes' = writes + Len(msgs) - now

(* Slip: the next read is not started.                                     *)
HandleWriteDeaf ==
  /\ written > 0
  /\ written' = written - 1
  /\ UNCHANGED <<client, c2s, s2c, buf, reads, arrived, writes, clState, received>>

(* handle_write.                                                           *)
HandleWrite ==
  /\ written > 0
  /\ written' = written - 1
  /\ reads' = IF clState = "none" THEN reads + 1 ELSE reads
  /\ UNCHANGED <<client, c2s, s2c, buf, arrived, writes, clState, received>>

(* handle_read parses what is in the buffer now.                           *)
Handles(kinds) ==
  /\ arrived > 0 /\ buf.kind \in kinds
  /\ arrived' = arrived - 1
  /\ UNCHANGED <<client, c2s>>

HandleQuestion ==
  /\ Handles(Question)
  /\ IF clState = "none"
     THEN StartWrites(<<Reply(buf.kind)>>)
     ELSE buf' = Reply(buf.kind) /\ UNCHANGED <<s2c, writes, written>>
  /\ UNCHANGED <<reads, clState, received>>

(* Files_Operator, SendingAFile.                                           *)
HandlePart ==
  /\ Handles({"send"}) /\ ~IsLast(buf)
  /\ clState' = "on_read"
  /\ received' = IF buf.nr = 1 THEN <<1>> ELSE Append(received, buf.nr)
  /\ reads' = reads + 1
  /\ UNCHANGED <<s2c, buf, writes, written>>

HandleLastPart ==
  /\ Handles({"send"}) /\ IsLast(buf)
  /\ clState' = "none"
  /\ received' = IF buf.nr = 1 THEN <<1>> ELSE Append(received, buf.nr)
  /\ StartWrites(<<Reply("send")>>)
  /\ UNCHANGED reads

(* Slip: the answer after the last part is left out.                       *)
TakeAnswerNone(k) == [i \in 1..k |-> Request("send", i, k)]

(* Slip: every write takes the buffer after the loop over the parts.       *)
TakeAnswerShared(k) == [i \in 1..k |-> Request("send", k, k)] \o <<Reply("take")>>

(* Slip: both Files_Operator and handle_read write "200 OK".               *)
TakeAnswerTwice(k) ==
  [i \in 1..k |-> Request("send", i, k)] \o <<Reply("take"), Reply("take")>>

(* Files_Operator, TakingAFile: all parts, then "200 OK".                  *)
TakeAnswer(k) == [i \in 1..k |-> Request("send", i, k)] \o <<Reply("take")>>

HandleTake ==
  /\ Handles({"take"})
  /\ clState' = "none"
  /\ StartWrites(TakeAnswer(buf.of))
  /\ UNCHANGED <<reads, received>>

(* An answer of its own, still in the buffer, is sent once more.           *)
HandleOwnAnswer ==
  /\ Handles({"answer"})
  /\ IF clState = "none" THEN StartWrites(<<buf>>) ELSE UNCHANGED <<buf, s2c, writes, written>>
  /\ UNCHANGED <<reads, clState, received>>

-----------------------------------------------------------------------------
Client == SendPart \/ ReadPart \/ ReadAnswer
Socket == CompleteRead \/ CompleteWrite
Server == HandleWrite \/ HandleQuestion \/ HandlePart \/ HandleLastPart \/ HandleTake
          \/ HandleOwnAnswer

Chooser ==
  \/ \E q \in Question : AskQuestion(q)
  \/ \E k \in 1..MaxParts : ChooseUpload(k) \/ ChooseTake(k)
  \/ ChooseMissingUpload

(* The user leaves the program.                                            *)
Ended == pc \in {"menu", "ended"} /\ UNCHANGED vars

Next == Chooser \/ Client \/ Socket \/ Server \/ Ended

Spec == Init /\ [][Next]_vars

(* The client's thread runs, TCP delivers, the io_context thread calls     *)
(* the handlers.  What the user chooses next is free.                      *)
Fairness == WF_vars(Client) /\ WF_vars(Socket) /\ WF_vars(Server)

FairSpec == Spec /\ Fairness

-----------------------------------------------------------------------------
(* Properties. *)

(* Operations the connection has in flight: each read or write started is  *)
(* one until its handler has run.                                          *)
InFlight == reads + arrived + writes + written

Message == [kind : Kind \cup {"answer"}, nr : 0..MaxParts, of : 0..MaxParts,
            to   : Kind \cup {"nothing"}]

(* Types of the variables.                                                 *)
TypeOK ==
  /\ pc \in {"menu", "sending", "taking", "answer", "ended"}
  /\ asked \in [kind : Kind \cup {"nothing"}, parts : 0..MaxParts]
  /\ sent \in 0..MaxParts /\ taken \in Seq(1..MaxParts)
  /\ count \in 0..MaxRequests /\ took \in BOOLEAN /\ orderly \in BOOLEAN
  /\ c2s \in Seq(Message) /\ s2c \in Seq(Message) /\ buf \in Message
  /\ reads \in Nat /\ arrived \in Nat /\ writes \in Nat /\ written \in Nat
  /\ clState \in {"none", "on_read"}
  /\ received \in Seq(1..MaxParts)

(* The connection of an orderly client always has an operation in flight,  *)
(* or it would end with its last shared_ptr; files taken add to the one it *)
(* began with, nothing else does.                                          *)
AlwaysListening == orderly => InFlight >= 1 /\ (~took => InFlight = 1)

Upto(k) == [i \in 1..k |-> i]

(* What the client reads as the answer answers its request.                *)
AnswerMatches ==
  orderly /\ pc = "answer" /\ s2c # <<>> => Head(s2c) = Reply(asked.kind)

(* A file taken has arrived whole and in order when the client goes on to  *)
(* its answer; one the socket does not take at once never gets that far.   *)
TakenInOrder ==
  orderly /\ pc = "answer" /\ asked.kind = "take" => taken = Upto(asked.parts)

(* When the client reads the answer to an upload, the server has written   *)
(* all its parts in order.                                                 *)
WrittenInOrder ==
  pc = "answer" /\ asked.kind = "send" /\ s2c # <<>> => received = Upto(asked.parts)

UploadInOrder == orderly => WrittenInOrder

(* The file asked for has no more parts than the socket takes at once.     *)
Fits == asked.kind = "take" => asked.parts <= SocketBuffer

(* The program of an orderly client ends in the middle of a request only   *)
(* when it takes a file that is too long for the socket: the answer then   *)
(* goes out in place of a part.                                            *)
EndsOnlyOnLongFile == pc = "ended" /\ orderly => ~Fits

(* An orderly client gets back to its menu from whatever it asked, unless  *)
(* it asked for such a file; then its program ends and does not hang.      *)
ComesBack == pc # "menu" /\ orderly ~> pc = "menu" \/ (pc = "ended" /\ ~Fits)

===============================================================================
