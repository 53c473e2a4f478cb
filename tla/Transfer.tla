------------------------------- MODULE Transfer -------------------------------
(***************************************************************************)
(* One file on its way: File_Sender cuts it into parts of Chunk bytes, a   *)
(* connection carries a message per part, the other side puts the parts    *)
(* together (http_processing, SendingAFile; the client's loop for a file   *)
(* it takes is the same).  A read returns exactly one message here.        *)
(* A definition under "Slip:" is a wrong form of the one that follows it,  *)
(* which a property must notice; nothing uses it.                          *)
(*                                                                         *)
(*   source    the file                                                    *)
(*   sender    File_Sender::state, "closed" after close_file               *)
(*   tellg     where the sender reads next                                 *)
(*   chan      messages [part, length, binary] on the way                  *)
(*   out       what the receiver has written                               *)
(*   receiver  "open", "stored", "cut" (connection lost) or "down"         *)
(***************************************************************************)
EXTENDS Integers, SequencesExt

CONSTANTS
  Chunk,    \* READ_FILE_BUFFER: 9000 bytes
  IntRange, \* number of values of an int, half of them negative
  Byte,
  Nul,      \* the byte a cleared buffer holds
  Files     \* the files that may be sent

ASSUME TransferAssumption ==
  /\ Chunk \in Nat \ {0}
  /\ IntRange \in Nat /\ 2 * Chunk < IntRange
  /\ Nul \in Byte
  /\ Files \subseteq Seq(Byte)

VARIABLES source, sender, tellg, chan, out, receiver

vars == <<source, sender, tellg, chan, out, receiver>>

Message == [part   : {"start", "body", "end", "full"},
            length : 0..(IntRange - 1),
            binary : [1..Chunk -> Byte]]

Init ==
  /\ source \in Files
  /\ sender = "start"
  /\ tellg = 0
  /\ chan = <<>>
  /\ out = <<>>
  /\ receiver = "open"

-----------------------------------------------------------------------------
(* The sender. *)

size == Len(source)

(* getFileSize returns an int; as the size_t that becomes Content-Length a *)
(* negative one is too big for stoi.                                       *)
ContentLength == size % IntRange

(* Slip: the buffer ends with the file.                                    *)
BinaryShort(from) == SubSeq(source, from + 1, IF from + Chunk <= size THEN from + Chunk ELSE size)

(* file.read into the cleared buffer.                                      *)
Binary(from) ==
  [i \in 1..Chunk |-> IF from + i <= size THEN source[from + i] ELSE Nul]

(* set_right_state, and split_file once more.                              *)
RestIsLast == size - tellg <= Chunk

(* The message a part travels in.                                          *)
Send(part) ==
  /\ chan' = Append(chan, [part |-> part, length |-> ContentLength, binary |-> Binary(tellg)])
  /\ tellg' = IF RestIsLast THEN size ELSE tellg + Chunk
  /\ UNCHANGED <<source, out, receiver>>

(* init_File_sender finds a file for a single part.                        *)
SendFull ==
  /\ sender = "start" /\ receiver # "cut"
  /\ size <= Chunk
  /\ Send("full")
  /\ sender' = "closed"

(* ... or a longer one; split_file leaves the state at body.               *)
SendStart ==
  /\ sender = "start" /\ receiver # "cut"
  /\ size > Chunk
  /\ Send("start")
  /\ sender' = "body"

SendBody ==
  /\ sender = "body" /\ receiver # "cut"
  /\ ~RestIsLast
  /\ Send("body")
  /\ UNCHANGED sender

SendEnd ==
  /\ sender = "body" /\ receiver # "cut"
  /\ RestIsLast
  /\ Send("end")
  /\ sender' = "closed"

-----------------------------------------------------------------------------
(* The receiver. *)

Arrives(part) ==
  /\ receiver = "open"
  /\ chan # <<>> /\ Head(chan).part = part
  /\ chan' = Tail(chan)
  /\ UNCHANGED <<source, sender, tellg>>

(* stoi(Content-Length) throws std::out_of_range, nothing catches it.      *)
StoiThrows(length) == length >= IntRange \div 2

(* Slip: the rest of a file of whole parts is taken for empty.             *)
LastBytesModulo(length) == length % Chunk

(* Slip: the last buffer is written whole.                                 *)
LastBytesAll(length) == Chunk

(* How many bytes of the last buffer belong to the file.                   *)
LastBytes(length) == IF length % Chunk = 0 THEN Chunk ELSE length % Chunk

ReceiveStart ==
  /\ Arrives("start")
  /\ out' = Head(chan).binary
  /\ UNCHANGED receiver

ReceiveBody ==
  /\ Arrives("body")
  /\ out' = out \o Head(chan).binary
  /\ UNCHANGED receiver

(* Slip: the file is not closed.                                           *)
ReceiveEndOpen ==
  /\ Arrives("end")
  /\ out' = out \o SubSeq(Head(chan).binary, 1, LastBytes(Head(chan).length))
  /\ UNCHANGED receiver

ReceiveEnd ==
  /\ Arrives("end")
  /\ ~StoiThrows(Head(chan).length)
  /\ out' = out \o SubSeq(Head(chan).binary, 1, LastBytes(Head(chan).length))
  /\ receiver' = "stored"

ReceiveFull ==
  /\ Arrives("full")
  /\ ~StoiThrows(Head(chan).length)
  /\ out' = SubSeq(Head(chan).binary, 1, Head(chan).length)
  /\ receiver' = "stored"

ReceiveTooLong ==
  /\ Arrives("end")
  /\ StoiThrows(Head(chan).length)
  /\ receiver' = "down"
  /\ UNCHANGED out

(* The connection breaks; what is on the way is lost, what was written     *)
(* stays.                                                                  *)
Cut ==
  /\ receiver = "open"
  /\ receiver' = "cut"
  /\ chan' = <<>>
  /\ UNCHANGED <<source, sender, tellg, out>>

Sender   == SendFull \/ SendStart \/ SendBody \/ SendEnd
Receiver == ReceiveStart \/ ReceiveBody \/ ReceiveEnd \/ ReceiveFull \/ ReceiveTooLong

(* Nothing more to do: the file is closed and every part was read, or the  *)
(* receiver is gone.                                                       *)
Ended == receiver # "open" /\ (sender = "closed" \/ receiver = "cut") /\ UNCHANGED vars

Next == Sender \/ Receiver \/ Cut \/ Ended

Spec == Init /\ [][Next]_vars

(* The client's loop goes on sending and the io_context thread calls       *)
(* handle_read for what arrives.  Nothing makes a connection break.        *)
Fairness == WF_vars(Sender) /\ WF_vars(Receiver)

FairSpec == Spec /\ Fairness

-----------------------------------------------------------------------------
(* Properties. *)

(* Types of the variables.                                                 *)
TypeOK ==
  /\ source \in Files
  /\ sender \in {"start", "body", "closed"}
  /\ tellg \in Nat
  /\ chan \in Seq(Message)
  /\ out \in Seq(Byte)
  /\ receiver \in {"open", "stored", "cut", "down"}

(* Content-Length tells the size; that of a longer file is cut to the bits *)
(* of an int.                                                              *)
SizeFits == size < IntRange

(* No filling of the last buffer and no part out of place ever gets into   *)
(* the file, wherever the transfer stops: at the last part, when the       *)
(* connection breaks, or when stoi throws.  Only a file whose size was cut *)
(* and that was closed all the same may end wrongly.                       *)
WrittenIsPrefix == SizeFits \/ receiver # "stored" => IsPrefix(out, source)

(* A transfer that ends well has copied the whole file.                    *)
StoredIsWhole == SizeFits /\ receiver = "stored" => out = source

(* The sender reaches the last part of every file and the receiver sees it:*)
(* a transfer ends unless the connection does.                             *)
TransferEnds == <>(receiver # "open")

(* The copy as one piece.                                                  *)
Copy == INSTANCE FileCopy WITH copy <- out, done <- (receiver = "stored")

ImplementsCopy == Copy!Spec

===============================================================================
