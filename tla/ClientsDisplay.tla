---------------------------- MODULE ClientsDisplay ----------------------------
(***************************************************************************)
(* The server's Client_Vector, its serial line and the Arduino's display.  *)
(* The server writes a message when the number of its clients changes and  *)
(* when a client asks how full its storage is; the sketch reads what has   *)
(* come, tells the two kinds apart by their length and draws.              *)
(*                                                                         *)
(* Server:  up        it runs (with the flag -a)                           *)
(*          starts    how often it has been started                        *)
(*          joined    client_ID of the newest connection                   *)
(*          alive     connections that exist                               *)
(*          listed    client_vector: those added and not yet found expired *)
(*          lastSize  last_size                                            *)
(*          asleep    it rests in sendArduino after a storage message      *)
(* Line:    line      messages written and not yet read                    *)
(* Sketch:  greeted   isitconnected                                        *)
(*          info      current_connection_info                              *)
(*          prev      prev_message                                         *)
(*          lcd       what is drawn                                        *)
(* History: sent      the last message written                             *)
(*          counted   the number of clients last written                   *)
(*          deaf      no message was read by itself since the device was   *)
(*                    restarted                                            *)
(*                                                                         *)
(* A message is the sequence of its characters, and a character a number:  *)
(* the digits 0..Radix-1 and two letters.                                  *)
(***************************************************************************)
EXTENDS Integers, SequencesExt

CONSTANTS
  Radix,      \* of the numbers in messages: 10
  Percent,    \* what space_counter may return
  MaxClients, \* bound: connections in one life of the server
  MaxStarts,  \* bound: lives of the server
  MaxLine     \* bound: messages written and not yet read

ASSUME DisplayAssumption ==
  /\ Radix \in Nat /\ Radix >= 2
  /\ Percent \subseteq Nat
  /\ MaxClients \in Nat /\ MaxStarts \in Nat /\ MaxLine \in Nat \ {0}

VARIABLES up, starts, joined, alive, listed, lastSize, asleep,
          line, greeted, info, prev, lcd, sent, counted, deaf

server  == <<up, starts, joined, alive, listed, lastSize>>
display == <<greeted, info, prev, lcd, deaf>>
history == <<sent, counted>>
vars    == <<server, asleep, line, display, history>>

Char == 0..(Radix + 1)

(* std::to_string.                                                         *)
Numeral[n \in Nat] ==
  IF n < Radix THEN <<n>> ELSE Append(Numeral[n \div Radix], n % Radix)

Many == <<Radix, Radix + 1>>

(* serialize_main_frame: two characters, "MH" from a hundred on.           *)
MainFrame(n) ==
  LET d == Numeral[n]
  IN CASE Len(d) > 2 -> Many
       [] Len(d) = 1 -> <<0>> \o d
       [] OTHER      -> d

(* serialize_aduino_answer: the ID, then two digits unless there are more  *)
(* than three.                                                             *)
StorageFrame(id, p) ==
  LET d == Numeral[p]
  IN Numeral[id] \o CASE Len(d) = 1 -> <<0>> \o d
                      [] Len(d) = 3 -> <<Radix - 1, Radix - 1>>
                      [] OTHER      -> d

Zeros == <<0, 0>>

(* What the sketch can draw.                                               *)
Count(text)       == [client |-> 0, text |-> text]
Storage(id, text) == [client |-> id, text |-> text]
WrongSerial       == [client |-> 0, text |-> <<>>]

Init ==
  /\ up = FALSE /\ starts = 0
  /\ joined = 0 /\ alive = {} /\ listed = {} /\ lastSize = -1
  /\ asleep = FALSE
  /\ line = <<>>
  /\ greeted = FALSE /\ info = Zeros /\ prev = Zeros /\ lcd = Count(Zeros)
  /\ sent = Zeros /\ counted = 0 /\ deaf = FALSE

-----------------------------------------------------------------------------
(* The server. *)

(* sendArduino: two or three characters are written, anything else is not; *)
(* after three the thread sleeps for five seconds.                         *)
SendArduino(text) ==
  \/ /\ Len(text) \in {2, 3}
     /\ Len(line) < MaxLine
     /\ line' = Append(line, text)
     /\ asleep' = (Len(text) = 3)
     /\ sent' = text
  \/ /\ Len(text) \notin {2, 3}
     /\ UNCHANGED <<line, asleep, sent>>

(* main, Cloud_Storage() and the first update_clients_list.                *)
Start ==
  /\ ~up /\ starts < MaxStarts
  /\ up' = TRUE
  /\ starts' = starts + 1
  /\ lastSize' = 0
  /\ SendArduino(MainFrame(0))
  /\ counted' = 0
  /\ UNCHANGED <<joined, alive, listed, display>>

(* The process ends; what it has written stays on the line.                *)
Stop ==
  /\ up
  /\ up' = FALSE
  /\ joined' = 0 /\ alive' = {} /\ listed' = {} /\ lastSize' = -1
  /\ asleep' = FALSE
  /\ UNCHANGED <<starts, line, display, history>>

(* One thread runs the handlers, so none runs while it sleeps.             *)
Running == up /\ ~asleep

(* handle_accept. *)
Join ==
  /\ Running /\ joined < MaxClients
  /\ joined' = joined + 1
  /\ alive' = alive \cup {joined + 1}
  /\ listed' = listed \cup {joined + 1}
  /\ UNCHANGED <<up, starts, lastSize, asleep, line, display, history>>

(* The last handler of a connection returns and the connection expires.    *)
Leave(c) ==
  /\ Running /\ c \in alive
  /\ alive' = alive \ {c}
  /\ UNCHANGED <<up, starts, joined, listed, lastSize, asleep, line, display, history>>

(* Slip: those that are there are erased.                                  *)
UnexpiredInverted == listed \ alive

(* remove_if of the expired connections.                                   *)
Unexpired == listed \cap alive

(* Slip: nothing to do when nobody is left in the vector.                  *)
ChangedUnlessEmpty == listed # {} /\ lastSize # Cardinality(listed)

(* The size is taken before the expired connections are erased.            *)
Changed == lastSize # Cardinality(listed)

(* update_clients_list, which posts itself again.                          *)
Update ==
  /\ Running
  /\ listed' = Unexpired
  /\ \/ /\ Changed
        /\ lastSize' = Cardinality(listed)
        /\ SendArduino(MainFrame(Cardinality(listed')))
        /\ counted' = Cardinality(listed')
     \/ /\ ~Changed
        /\ UNCHANGED <<lastSize, line, asleep, sent, counted>>
  /\ UNCHANGED <<up, starts, joined, alive, display>>

(* handle_read, ArduinoInfo.                                               *)
AskStorage(c, p) ==
  /\ Running /\ c \in alive
  /\ SendArduino(StorageFrame(c, p))
  /\ UNCHANGED <<server, display, counted>>

(* Five seconds are longer than the sketch needs to get round to reading.  *)
Wake ==
  /\ asleep /\ line = <<>>
  /\ asleep' = FALSE
  /\ UNCHANGED <<server, line, display, history>>

-----------------------------------------------------------------------------
(* The sketch. *)

(* Slip: isitconnected stays false.                                        *)
GreetAgain ==
  /\ ~greeted /\ line # <<>>
  /\ line' = Tail(line)
  /\ UNCHANGED <<server, asleep, display, history>>

(* loop() before isitconnected: two bytes are read and dropped.            *)
Greet ==
  /\ ~greeted /\ line # <<>>
  /\ greeted' = TRUE
  /\ line' = IF Len(Head(line)) = 2 THEN Tail(line)
             ELSE <<SubSeq(Head(line), 3, Len(Head(line)))>> \o Tail(line)
  /\ UNCHANGED <<server, asleep, info, prev, lcd, deaf, history>>

(* substring(0,1).toInt(): a letter is 0.                                  *)
Digit(x) == IF x < Radix THEN x ELSE 0

(* Slip: an unchanged number of clients is no news.                       *)
IsNewsUnlessCounted(text) == text # prev /\ text # info

(* A message equal to the one before it is not drawn again.                *)
IsNews(text) == text # prev

(* Catch_connection and the drawing Update_Display does after it: client 0 *)
(* is drawn as the number of clients.                                      *)
Catch(text) ==
  \/ /\ ~IsNews(text)
     /\ UNCHANGED <<info, prev, lcd>>
  \/ /\ IsNews(text) /\ Len(text) = 2
     /\ info' = text /\ prev' = text /\ lcd' = Count(text)
  \/ /\ IsNews(text) /\ Len(text) = 3
     /\ prev' = text
     /\ lcd' = IF Digit(text[1]) = 0 THEN Count(info) ELSE Storage(text[1], Tail(text))
     /\ UNCHANGED info
  \/ /\ IsNews(text) /\ Len(text) \notin {2, 3}
     /\ lcd' = WrongSerial
     /\ UNCHANGED <<info, prev>>

(* Serial.readString reads on until nothing has come for a second: k       *)
(* messages that came closer together are one text.                        *)
Read(k) ==
  /\ greeted
  /\ Catch(FlattenSeq(SubSeq(line, 1, k)))
  /\ line' = SubSeq(line, k + 1, Len(line))
  /\ deaf' = (deaf /\ (k > 1 \/ Len(Head(line)) = 1))
  /\ UNCHANGED <<server, asleep, greeted, history>>

(* The device is restarted, as its "RESTART DEVICE" asks for.  What it has *)
(* received and not read is lost.                                          *)
Restart ==
  /\ greeted' = FALSE /\ info' = Zeros /\ prev' = Zeros /\ lcd' = Count(Zeros)
  /\ line' = <<>>
  /\ deaf' = TRUE
  /\ UNCHANGED <<server, asleep, history>>

Sketch == Greet \/ \E k \in 1..Len(line) : Read(k)

Next ==
  \/ Start \/ Stop
  \/ Join
  \/ \E c \in alive : Leave(c) \/ \E p \in Percent : AskStorage(c, p)
  \/ Update
  \/ Wake
  \/ Sketch
  \/ Restart

Spec == Init /\ [][Next]_vars

(* The sketch loops; the sleep ends; update_clients_list is in the queue   *)
(* of the io_context, which is first in, first out, so that no number of   *)
(* requests keeps it waiting.                                              *)
Fairness == WF_vars(Sketch) /\ WF_vars(Wake) /\ SF_vars(Update)

FairSpec == Spec /\ Fairness

-----------------------------------------------------------------------------
(* Properties. *)

Text == Seq(Char)

(* Types of the variables; clients are numbered in order.                  *)
TypeOK ==
  /\ up \in BOOLEAN /\ starts \in 0..MaxStarts
  /\ joined \in 0..MaxClients
  /\ alive \subseteq listed /\ listed \subseteq 1..joined
  /\ lastSize \in Int
  /\ asleep \in BOOLEAN
  /\ line \in Seq(Text)
  /\ greeted \in BOOLEAN
  /\ info \in Text /\ prev \in Text
  /\ lcd \in [client : Nat, text : Text]
  /\ sent \in Text /\ counted \in 0..MaxClients
  /\ deaf \in BOOLEAN

(* What a message looks like when it is drawn.                             *)
Drawn(text) == IF Len(text) = 3 THEN Storage(text[1], Tail(text)) ELSE Count(text)

(* The display is never wrong without saying so: when it has read all there*)
(* is, it shows the last message or "WRONG SERIAL", unless it was restarted*)
(* and has read no message by itself since.                                *)
ShowsLast ==
  greeted /\ line = <<>> /\ ~deaf => lcd \in {Drawn(sent), WrongSerial}

(* However clients join and leave between two rounds of update_clients_list*)
(* the display counts none in the end that has left.                       *)
DepartedNotCounted == <>[](up => counted <= Cardinality(alive))

(* ... and all that are there.                                             *)
CountReported == <>[](up => counted = Cardinality(alive))

(* The sketch keeps up with the server: again and again the display shows  *)
(* the last message, or says that it cannot.                               *)
DisplayCatchesUp == []<>(lcd \in {Drawn(sent), WrongSerial} \/ deaf)
===============================================================================
