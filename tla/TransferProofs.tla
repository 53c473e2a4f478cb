----------------------------- MODULE TransferProofs -----------------------------
(***************************************************************************)
(* Proofs about Transfer, for every size of a part, every range of an int  *)
(* and every set of files.  The inductive invariant ties each message on   *)
(* the way to the place its bytes have in the file: the first one goes     *)
(* where out ends, each of the others a part further on.                   *)
(***************************************************************************)
EXTENDS Transfer, SequenceTheorems, TLAPS

(* Where the bytes of the i-th message on the way belong.                  *)
At(i) == Len(out) + (i - 1) * Chunk

(* A message carries what the file has at place p, and its kind tells how  *)
(* far that is from the two ends of the file.                              *)
Fits(m, p) ==
  /\ m.length = ContentLength
  /\ m.binary = Binary(p)
  /\ m.part \in {"start", "full"} => p = 0
  /\ m.part \in {"start", "body"} => p + Chunk < size
  /\ m.part \in {"end", "full"} => size <= p + Chunk
  /\ m.part = "end" => p < size

(* The messages on the way follow each other; the last one ends the file   *)
(* once the sender has closed it.                                          *)
ChannelInv ==
  receiver = "open" =>
    /\ \E k \in Nat : Len(out) = k * Chunk
    /\ \A i \in 1..Len(chan) : Fits(chan[i], At(i))
    /\ \A i \in 1..Len(chan) : chan[i].part \in {"end", "full"} =>
         i = Len(chan) /\ sender = "closed"
    /\ sender # "closed" => tellg = At(Len(chan) + 1)

(* The sender has something left until it closes the file.                 *)
SenderInv ==
  /\ sender = "start" => tellg = 0 /\ out = <<>> /\ chan = <<>>
  /\ sender = "body" => tellg < size

(* What is written is the file's beginning, and all of it when the size    *)
(* could be read from the last message.                                    *)
Agrees == Len(out) <= size /\ \A i \in 1..Len(out) : out[i] = source[i]

OutInv ==
  /\ receiver # "stored" => Agrees
  /\ receiver = "stored" /\ size < IntRange => out = source

IInv == TypeOK /\ ChannelInv /\ SenderInv /\ OutInv

-----------------------------------------------------------------------------
(* Arithmetic of parts. *)

LEMMA SmallMod ==
  ASSUME NEW x \in Nat, NEW n \in Nat, x < n
  PROVE  x % n = x
OBVIOUS

LEMMA ModRange ==
  ASSUME NEW x \in Nat, NEW n \in Nat \ {0}
  PROVE  x % n \in 0..(n - 1)
OBVIOUS

LEMMA MultBound ==
  ASSUME NEW c \in Nat \ {0}, NEW p \in Int, NEW q \in Int, p < q
  PROVE  c * p + c <= c * q
OBVIOUS

(* The part that ends s bytes after k parts of c bytes: none is empty.     *)
LEMMA LastPart ==
  ASSUME NEW c \in Nat \ {0}, NEW s \in Nat, NEW k \in Nat, k * c < s, s <= k * c + c
  PROVE  (IF s % c = 0 THEN c ELSE s % c) = s - k * c
<1> DEFINE q == s \div c
           m == s % c
<1>1. q \in Int /\ m \in 0..(c - 1) /\ s = c * q + m
  OBVIOUS
<1> HIDE DEF q, m
<1>2. CASE q < k
  BY <1>1, <1>2, MultBound
<1>3. CASE q = k
  BY <1>1, <1>3
<1>4. CASE q > k
  <2>1. CASE q = k + 1
    BY <1>1, <2>1
  <2>2. CASE k + 1 < q
    <3>1. c * (k + 1) + c <= c * q
      BY <1>1, <2>2, MultBound
    <3> QED BY <3>1, <1>1
  <2> QED BY <1>1, <1>4, <2>1, <2>2
<1> QED BY <1>1, <1>2, <1>3, <1>4 DEF m

-----------------------------------------------------------------------------
(* The sizes and the content of messages. *)

LEMMA Sizes ==
  ASSUME TypeOK
  PROVE  /\ source \in Seq(Byte) /\ size \in Nat
         /\ Chunk \in Nat \ {0} /\ IntRange \in Nat \ {0} /\ 2 * Chunk < IntRange
         /\ ContentLength \in 0..(IntRange - 1)
         /\ Len(out) \in Nat /\ Len(chan) \in Nat
<1>1. source \in Seq(Byte) /\ size \in Nat
  BY TransferAssumption DEF TypeOK, size
<1>2. Chunk \in Nat \ {0} /\ IntRange \in Nat \ {0} /\ 2 * Chunk < IntRange
  BY TransferAssumption
<1>3. ContentLength \in 0..(IntRange - 1)
  BY <1>1, <1>2, ModRange DEF ContentLength
<1>4. Len(out) \in Nat /\ Len(chan) \in Nat
  BY DEF TypeOK
<1> QED BY <1>1, <1>2, <1>3, <1>4

LEMMA BinaryFact ==
  ASSUME TypeOK, NEW p \in Nat
  PROVE  /\ Binary(p) \in Seq(Byte) /\ Len(Binary(p)) = Chunk
         /\ Binary(p) \in [1..Chunk -> Byte]
         /\ \A i \in 1..Chunk : p + i <= size => Binary(p)[i] = source[p + i]
<1>1. ASSUME NEW i \in 1..Chunk
      PROVE  (IF p + i <= size THEN source[p + i] ELSE Nul) \in Byte
  <2>1. source \in Seq(Byte) /\ size = Len(source) /\ Chunk \in Nat
    BY Sizes DEF size
  <2>2. p + i <= size => p + i \in 1..Len(source)
    BY <2>1
  <2> QED BY <2>1, <2>2, TransferAssumption
<1>2. Binary(p) \in [1..Chunk -> Byte]
  BY <1>1 DEF Binary
<1>3. Binary(p) \in Seq(Byte) /\ Len(Binary(p)) = Chunk
  <2>1. Chunk \in Nat
    BY TransferAssumption
  <2> QED BY <1>2, <2>1
<1> QED BY <1>2, <1>3 DEF Binary

(* The unused end of the last message is not taken for a part of the file. *)
LEMMA LastBytesRange ==
  ASSUME TypeOK, NEW n \in Nat
  PROVE  LastBytes(n) \in 1..Chunk
<1>1. n % Chunk \in 0..(Chunk - 1)
  BY Sizes, ModRange
<1> QED BY <1>1, Sizes DEF LastBytes

(* A file that an int can count is as long as its Content-Length says.     *)
LEMMA LengthFact ==
  ASSUME TypeOK, size < IntRange
  PROVE  ContentLength = size
BY Sizes, SmallMod DEF ContentLength

-----------------------------------------------------------------------------
(* What a step of the sender and of the receiver does to the messages on   *)
(* the way. *)

LEMMA AtFact ==
  ASSUME TypeOK, NEW i \in Nat \ {0}
  PROVE  At(i) \in Nat /\ At(i + 1) = At(i) + Chunk /\ At(1) = Len(out)
<1>1. Chunk \in Nat /\ Len(out) \in Nat
  BY Sizes
<1>2. (i - 1) * Chunk \in Nat
  BY <1>1
<1>3. At(i) \in Nat
  BY <1>1, <1>2 DEF At
<1>4. i * Chunk = (i - 1) * Chunk + Chunk
  BY <1>1
<1>5. (i + 1) - 1 = i /\ (1 - 1) * Chunk = 0
  BY <1>1
<1> QED BY <1>1, <1>2, <1>3, <1>4, <1>5 DEF At

(* A message that fits where the sender is keeps the order of the channel. *)
LEMMA SendKeeps ==
  ASSUME IInv, NEW part \in {"start", "body", "end", "full"}, Send(part),
         sender # "closed",
         part \in {"start", "full"} => tellg = 0,
         part \in {"start", "body"} => ~RestIsLast /\ sender' # "closed",
         part \in {"end", "full"} => RestIsLast /\ sender' = "closed",
         part = "end" => tellg < size,
         sender' \in {"start", "body", "closed"}
  PROVE  TypeOK' /\ ChannelInv' /\ OutInv'
<1> DEFINE m == [part |-> part, length |-> ContentLength, binary |-> Binary(tellg)]
<1>1. TypeOK /\ tellg \in Nat /\ chan \in Seq(Message)
  BY DEF IInv, TypeOK
<1>2. size \in Nat /\ Chunk \in Nat
  BY <1>1, Sizes
<1>3. m \in Message
  BY <1>1, Sizes, BinaryFact DEF Message
<1>4. chan' = Append(chan, m) /\ UNCHANGED <<source, out, receiver>>
  BY DEF Send
<1>5. tellg' = IF RestIsLast THEN size ELSE tellg + Chunk
  BY DEF Send
<1>6. size' = size /\ ContentLength' = ContentLength
  BY <1>4 DEF size, ContentLength
<1>7. Fits(m, tellg)
  BY <1>1, <1>2 DEF Fits, RestIsLast
<1> HIDE DEF m
<1>8. /\ chan' \in Seq(Message) /\ Len(chan') = Len(chan) + 1
      /\ \A i \in 1..Len(chan) : chan'[i] = chan[i]
      /\ chan'[Len(chan) + 1] = m
  BY <1>1, <1>3, <1>4, AppendProperties
<1>9. TypeOK'
  BY <1>1, <1>2, <1>4, <1>5, <1>8 DEF TypeOK
<1>10. OutInv'
  BY <1>4, <1>6 DEF IInv, OutInv, Agrees
<1>11. ASSUME receiver' = "open" PROVE ChannelInv'
  <2>1. ChannelInv /\ receiver = "open"
    BY <1>4, <1>11 DEF IInv
  <2>2. \A i : At(i)' = At(i)
    BY <1>4 DEF At
  <2>3. \A n, p : Fits(n, p)' = Fits(n, p)
    BY <1>4, <1>6 DEF Fits, Binary
  <2>4. tellg = At(Len(chan) + 1)
    BY <2>1 DEF ChannelInv
  <2>5. ASSUME NEW i \in 1..Len(chan') PROVE Fits(chan'[i], At(i))
    <3>1. CASE i \in 1..Len(chan)
      BY <3>1, <1>8, <2>1 DEF ChannelInv
    <3>2. CASE i = Len(chan) + 1
      BY <3>2, <1>8, <2>4, <1>7
    <3> QED BY <3>1, <3>2, <1>8, Sizes, <1>1
  <2>6. ASSUME NEW i \in 1..Len(chan'), chan'[i].part \in {"end", "full"}
        PROVE  i = Len(chan') /\ sender' = "closed"
    <3>1. CASE i \in 1..Len(chan)
      BY <3>1, <2>6, <1>8, <2>1 DEF ChannelInv
    <3>2. CASE i = Len(chan) + 1
      <4>1. m.part = part
        BY DEF m
      <4> QED BY <4>1, <3>2, <1>8, <2>6
    <3> QED BY <3>1, <3>2, <1>8, Sizes, <1>1
  <2>7. ASSUME sender' # "closed" PROVE tellg' = At(Len(chan') + 1)
    <3>1. tellg' = tellg + Chunk
      BY <2>7, <1>5
    <3>2. Len(chan) + 1 \in Nat \ {0}
      BY <1>1, Sizes
    <3> QED BY <3>1, <3>2, <2>4, <1>8, <1>1, AtFact
  <2>8. \E k \in Nat : Len(out') = k * Chunk
    BY <1>4, <2>1 DEF ChannelInv
  <2> QED BY <2>2, <2>3, <2>5, <2>6, <2>7, <2>8 DEF ChannelInv
<1>12. ChannelInv'
  BY <1>11 DEF ChannelInv
<1> QED BY <1>9, <1>10, <1>12

(* The message that arrives belongs where out ends; only an end follows    *)
(* nothing.                                                                *)
LEMMA ArrivesFact ==
  ASSUME IInv, NEW part, Arrives(part)
  PROVE  /\ Len(chan) >= 1 /\ Head(chan) = chan[1] /\ Head(chan) \in Message
         /\ Head(chan).part = part /\ Fits(Head(chan), Len(out))
         /\ Tail(chan) \in Seq(Message) /\ Len(Tail(chan)) = Len(chan) - 1
         /\ \A i \in 1..(Len(chan) - 1) : Tail(chan)[i] = chan[i + 1]
         /\ chan' = Tail(chan) /\ UNCHANGED <<source, sender, tellg>>
         /\ size' = size /\ sender # "start" /\ Agrees
<1>1. TypeOK /\ chan \in Seq(Message) /\ chan # <<>> /\ receiver = "open"
  BY DEF IInv, TypeOK, Arrives
<1>2. Len(chan) >= 1 /\ Head(chan) = chan[1] /\ Head(chan) \in Message
  BY <1>1
<1>3. /\ Tail(chan) \in Seq(Message) /\ Len(Tail(chan)) = Len(chan) - 1
      /\ \A i \in 1..(Len(chan) - 1) : Tail(chan)[i] = chan[i + 1]
  BY <1>1, HeadTailProperties
<1>4. Head(chan).part = part /\ chan' = Tail(chan) /\ UNCHANGED <<source, sender, tellg>>
  BY DEF Arrives
<1>5. Fits(Head(chan), Len(out))
  <2>1. 1 \in 1..Len(chan)
    BY <1>1, <1>2, Sizes
  <2>2. Fits(chan[1], At(1))
    BY <1>1, <2>1 DEF IInv, ChannelInv
  <2>3. At(1) = Len(out)
    BY <1>1, AtFact
  <2> QED BY <2>2, <2>3, <1>2
<1>6. size' = size
  BY <1>4 DEF size
<1>7. sender # "start" /\ Agrees
  BY <1>1 DEF IInv, SenderInv, OutInv
<1> QED BY <1>2, <1>3, <1>4, <1>5, <1>6, <1>7

(* Writing a whole part moves the rest of the channel one place on.        *)
LEMMA ReceiveKeeps ==
  ASSUME IInv, NEW part \in {"start", "body"}, Arrives(part), UNCHANGED receiver,
         out' \in Seq(Byte), Len(out') = Len(out) + Chunk
  PROVE  TypeOK' /\ ChannelInv'
<1>1. TypeOK /\ chan \in Seq(Message) /\ receiver = "open" /\ ChannelInv
  BY DEF IInv, TypeOK, Arrives
<1>2. Chunk \in Nat \ {0} /\ Len(out) \in Nat /\ Len(chan) \in Nat
  BY <1>1, Sizes
<1>3. /\ Len(chan) >= 1 /\ chan' = Tail(chan) /\ UNCHANGED <<source, sender, tellg>>
      /\ chan' \in Seq(Message) /\ Len(chan') = Len(chan) - 1 /\ size' = size
      /\ \A i \in 1..(Len(chan) - 1) : chan'[i] = chan[i + 1]
  BY ArrivesFact
<1>4. TypeOK'
  BY <1>1, <1>3 DEF TypeOK
<1>5. ASSUME NEW i \in Nat \ {0} PROVE At(i)' = At(i + 1)
  <2>1. At(i)' = Len(out') + (i - 1) * Chunk
    BY DEF At
  <2>2. i * Chunk = (i - 1) * Chunk + Chunk /\ (i + 1) - 1 = i /\ (i - 1) * Chunk \in Int
    BY <1>2
  <2> QED BY <1>2, <2>1, <2>2 DEF At
<1>6. \A n, p : Fits(n, p)' = Fits(n, p)
  BY <1>3 DEF Fits, Binary, ContentLength
<1>7. \E k \in Nat : Len(out') = k * Chunk
  <2>1. PICK k \in Nat : Len(out) = k * Chunk
    BY <1>1 DEF ChannelInv
  <2>2. (k + 1) * Chunk = k * Chunk + Chunk
    BY <1>2
  <2> QED BY <2>1, <2>2
<1>8. ASSUME NEW i \in 1..Len(chan') PROVE Fits(chan'[i], At(i)')
  <2>1. i + 1 \in 1..Len(chan) /\ chan'[i] = chan[i + 1] /\ i \in Nat \ {0}
    BY <1>2, <1>3
  <2> QED BY <2>1, <1>1, <1>5 DEF ChannelInv
<1>9. ASSUME NEW i \in 1..Len(chan'), chan'[i].part \in {"end", "full"}
      PROVE  i = Len(chan') /\ sender' = "closed"
  <2>1. i + 1 \in 1..Len(chan) /\ chan'[i] = chan[i + 1]
    BY <1>2, <1>3
  <2>2. i + 1 = Len(chan) /\ sender = "closed"
    BY <2>1, <1>1, <1>9 DEF ChannelInv
  <2> QED BY <2>2, <1>2, <1>3
<1>10. ASSUME sender' # "closed" PROVE tellg' = At(Len(chan) + 1)'
  <2>1. tellg' = At(Len(chan) + 1)
    BY <1>1, <1>3, <1>10 DEF ChannelInv
  <2>2. Len(chan) + 1 - 1 = Len(chan) /\ Len(chan') + 1 - 1 = Len(chan) - 1
    BY <1>2, <1>3
  <2>3. Len(chan) * Chunk = (Len(chan) - 1) * Chunk + Chunk /\ (Len(chan) - 1) * Chunk \in Int
    BY <1>2
  <2> QED BY <1>2, <2>1, <2>2, <2>3 DEF At
<1>11. ChannelInv'
  BY <1>6, <1>7, <1>8, <1>9, <1>10 DEF ChannelInv
<1> QED BY <1>4, <1>11

-----------------------------------------------------------------------------
(* What the receiver writes. *)

LEMMA StartFact ==
  ASSUME IInv, ReceiveStart
  PROVE  /\ out' \in Seq(Byte) /\ Len(out') = Chunk /\ Len(out) = 0
         /\ Chunk < size /\ \A i \in 1..Len(out') : out'[i] = source[i]
<1>1. TypeOK /\ out' = Head(chan).binary
  BY DEF IInv, ReceiveStart
<1>2. Head(chan).part = "start" /\ Fits(Head(chan), Len(out))
  BY ArrivesFact DEF ReceiveStart
<1>3. Len(out) = 0 /\ Chunk < size /\ out' = Binary(0)
  BY <1>1, <1>2, Sizes DEF Fits
<1>4. /\ Binary(0) \in Seq(Byte) /\ Len(Binary(0)) = Chunk
      /\ \A i \in 1..Chunk : 0 + i <= size => Binary(0)[i] = source[0 + i]
  BY <1>1, BinaryFact
<1>5. \A i \in 1..Chunk : 0 + i = i /\ i <= size
  BY <1>1, <1>3, Sizes
<1> QED BY <1>3, <1>4, <1>5

LEMMA BodyFact ==
  ASSUME IInv, ReceiveBody
  PROVE  /\ out' \in Seq(Byte) /\ Len(out') = Len(out) + Chunk /\ Len(out') < size
         /\ \A i \in 1..Len(out) : out'[i] = out[i]
         /\ \A i \in 1..Len(out') : out'[i] = source[i]
<1>1. TypeOK /\ out' = out \o Head(chan).binary /\ out \in Seq(Byte)
  BY DEF IInv, TypeOK, ReceiveBody
<1>2. Head(chan).part = "body" /\ Fits(Head(chan), Len(out)) /\ Agrees
  BY ArrivesFact DEF ReceiveBody
<1>3. Len(out) + Chunk < size /\ out' = out \o Binary(Len(out)) /\ Len(out) \in Nat
  BY <1>1, <1>2, Sizes DEF Fits
<1>4. /\ Binary(Len(out)) \in Seq(Byte) /\ Len(Binary(Len(out))) = Chunk
      /\ \A i \in 1..Chunk : Len(out) + i <= size => Binary(Len(out))[i] = source[Len(out) + i]
  BY <1>1, <1>3, BinaryFact
<1>5. /\ out' \in Seq(Byte) /\ Len(out') = Len(out) + Chunk
      /\ \A i \in 1..Len(out) + Chunk :
           out'[i] = IF i <= Len(out) THEN out[i] ELSE Binary(Len(out))[i - Len(out)]
  <2> DEFINE b == Binary(Len(out))
  <2>1. b \in Seq(Byte) /\ Len(b) = Chunk /\ out' = out \o b
    BY <1>3, <1>4
  <2> HIDE DEF b
  <2>2. /\ out \o b \in Seq(Byte) /\ Len(out \o b) = Len(out) + Len(b)
        /\ \A i \in 1..Len(out) + Len(b) :
             (out \o b)[i] = IF i <= Len(out) THEN out[i] ELSE b[i - Len(out)]
    BY <1>1, <2>1, ConcatProperties
  <2> QED BY <2>1, <2>2 DEF b
<1>6. ASSUME NEW i \in 1..Len(out') PROVE out'[i] = source[i]
  <2>1. CASE i <= Len(out)
    BY <1>1, <1>2, <1>3, <1>5, <2>1, Sizes DEF Agrees
  <2>2. CASE i > Len(out)
    <3>1. i - Len(out) \in 1..Chunk /\ Len(out) + (i - Len(out)) = i /\ i <= size
      <4> DEFINE k == Len(out)
                 n == Len(out')
      <4>1. /\ k \in Nat /\ n = k + Chunk /\ k + Chunk < size /\ i \in 1..n /\ i > k
            /\ Chunk \in Nat /\ size \in Nat
        BY <1>1, <1>3, <1>5, <2>2, Sizes
      <4> HIDE DEF k, n
      <4>2. i - k \in 1..Chunk /\ k + (i - k) = i /\ i <= size
        BY <4>1
      <4> QED BY <4>2 DEF k
    <3> QED BY <3>1, <1>3, <1>4, <1>5, <2>2
  <2> QED BY <2>1, <2>2, <1>3, <1>5
<1>7. Len(out') < size
  BY <1>3, <1>5
<1>8. ASSUME NEW i \in 1..Len(out) PROVE out'[i] = out[i]
  <2>1. i \in 1..(Len(out) + Chunk) /\ i <= Len(out)
    BY <1>1, <1>3, Sizes
  <2> QED BY <1>5, <2>1
<1> QED BY <1>5, <1>6, <1>7, <1>8

LEMMA EndFact ==
  ASSUME IInv, ReceiveEnd
  PROVE  /\ out' \in Seq(Byte)
         /\ size < IntRange => out' = source
<1>1. /\ TypeOK /\ out \in Seq(Byte) /\ ChannelInv /\ receiver = "open"
      /\ out' = out \o SubSeq(Head(chan).binary, 1, LastBytes(Head(chan).length))
  BY DEF IInv, TypeOK, ReceiveEnd, Arrives
<1>2. Head(chan).part = "end" /\ Fits(Head(chan), Len(out)) /\ Agrees
  BY ArrivesFact DEF ReceiveEnd
<1> DEFINE l == LastBytes(ContentLength)
           b == Binary(Len(out))
<1>3. /\ size <= Len(out) + Chunk /\ Len(out) < size /\ Len(out) \in Nat
      /\ out' = out \o SubSeq(b, 1, l)
  BY <1>1, <1>2, Sizes DEF Fits
<1>4. l \in 1..Chunk
  <2>1. ContentLength \in Nat
    BY <1>1, Sizes
  <2> QED BY <1>1, <2>1, LastBytesRange
<1>5. /\ b \in Seq(Byte) /\ Len(b) = Chunk
      /\ \A i \in 1..Chunk : Len(out) + i <= size => b[i] = source[Len(out) + i]
  BY <1>1, <1>3, BinaryFact
<1>6. size < IntRange => l = size - Len(out)
  <2>1. PICK k \in Nat : Len(out) = k * Chunk
    BY <1>1 DEF ChannelInv
  <2>2. (IF size % Chunk = 0 THEN Chunk ELSE size % Chunk) = size - k * Chunk
    BY <1>1, <1>3, <2>1, Sizes, LastPart
  <2> QED BY <1>1, <2>1, <2>2, LengthFact DEF LastBytes
<1> HIDE DEF l, b
<1>7. ASSUME NEW i \in 1..l PROVE b[i] \in Byte
  <2>1. i \in 1..Len(b)
    BY <1>1, <1>4, <1>5, Sizes
  <2> QED BY <1>5, <2>1
<1>8. /\ SubSeq(b, 1, l) \in Seq(Byte) /\ Len(SubSeq(b, 1, l)) = l
      /\ \A i \in 1..l : SubSeq(b, 1, l)[i] = b[i]
  BY <1>4, <1>7, SubSeqProperties, <1>1, Sizes
<1>9. /\ out' \in Seq(Byte) /\ Len(out') = Len(out) + l
      /\ \A i \in 1..Len(out) + l :
           out'[i] = IF i <= Len(out) THEN out[i] ELSE SubSeq(b, 1, l)[i - Len(out)]
  <2> DEFINE t == SubSeq(b, 1, l)
  <2>1. t \in Seq(Byte) /\ Len(t) = l /\ out' = out \o t
    BY <1>3, <1>8
  <2> HIDE DEF t
  <2>2. /\ out \o t \in Seq(Byte) /\ Len(out \o t) = Len(out) + Len(t)
        /\ \A i \in 1..Len(out) + Len(t) :
             (out \o t)[i] = IF i <= Len(out) THEN out[i] ELSE t[i - Len(out)]
    BY <1>1, <2>1, ConcatProperties
  <2> QED BY <2>1, <2>2 DEF t
<1>10. ASSUME size < IntRange PROVE out' = source
  <2>1. Len(out') = Len(source) /\ source \in Seq(Byte) /\ Len(out) + l = size
    BY <1>1, <1>3, <1>4, <1>6, <1>9, <1>10, Sizes DEF size
  <2>2. ASSUME NEW i \in 1..Len(out') PROVE out'[i] = source[i]
    <3>1. CASE i <= Len(out)
      <4>1. i \in 1..Len(out) /\ i \in 1..(Len(out) + l)
        BY <1>3, <1>9, <3>1
      <4>2. out'[i] = out[i]
        BY <1>9, <3>1, <4>1
      <4>3. out[i] = source[i]
        BY <1>2, <4>1 DEF Agrees
      <4> QED BY <4>2, <4>3
    <3>2. CASE i > Len(out)
      <4>1. /\ i - Len(out) \in 1..l /\ i - Len(out) \in 1..Chunk
            /\ Len(out) + (i - Len(out)) = i /\ i <= size
        <5>1. l \in Nat /\ l <= Chunk /\ Chunk \in Nat /\ Len(out) \in Nat /\ size \in Nat
          BY <1>1, <1>4, Sizes
        <5>2. i \in Nat /\ i <= Len(out) + l /\ Len(out) + l = size
          BY <1>9, <2>1, <5>1
        <5> QED BY <5>1, <5>2, <3>2
      <4> QED BY <4>1, <1>3, <1>5, <1>8, <1>9, <2>1, <3>2
    <3> QED BY <3>1, <3>2, <1>3, <1>9
  <2> QED BY <2>1, <2>2, <1>9, SeqEqual
<1> QED BY <1>9, <1>10

LEMMA FullFact ==
  ASSUME IInv, ReceiveFull
  PROVE  out' \in Seq(Byte) /\ out' = source
<1>1. TypeOK /\ out' = SubSeq(Head(chan).binary, 1, Head(chan).length)
  BY DEF IInv, ReceiveFull
<1>2. Head(chan).part = "full" /\ Fits(Head(chan), Len(out))
  BY ArrivesFact DEF ReceiveFull
<1>3. Len(out) = 0 /\ size <= Chunk /\ size < IntRange
  BY <1>1, <1>2, Sizes DEF Fits
<1>4. out' = SubSeq(Binary(0), 1, size)
  BY <1>1, <1>2, <1>3, LengthFact DEF Fits
<1>5. \A i \in 1..size : Binary(0)[i] = source[i] /\ source[i] \in Byte
  BY <1>1, <1>3, BinaryFact, Sizes DEF size
<1>6. /\ out' \in Seq(Byte) /\ Len(out') = Len(source)
      /\ \A i \in 1..Len(out') : out'[i] = source[i]
  <2>1. size \in Nat /\ \A i \in 1..size : Binary(0)[i] \in Byte
    BY <1>1, <1>5, Sizes
  <2>2. /\ out' \in Seq(Byte) /\ Len(out') = (IF 1 <= size THEN size - 1 + 1 ELSE 0)
        /\ \A i \in 1..size - 1 + 1 : out'[i] = Binary(0)[1 + i - 1]
    BY <1>4, <2>1, SubSeqProperties
  <2>3. Len(out') = size
    BY <2>1, <2>2
  <2> QED BY <2>1, <2>2, <2>3, <1>5 DEF size
<1> QED BY <1>1, <1>6, Sizes, SeqEqual

-----------------------------------------------------------------------------
(* The invariant. *)

LEMMA InvInit == Init => IInv
<1> SUFFICES ASSUME Init PROVE IInv
  OBVIOUS
<1>1. TypeOK
  BY DEF Init, TypeOK
<1>2. Len(out) = 0 /\ Len(chan) = 0 /\ 0 * Chunk = 0 /\ At(1) = 0
  BY TransferAssumption DEF Init, At
<1>3. ChannelInv
  BY <1>2 DEF Init, ChannelInv
<1>4. SenderInv /\ OutInv
  BY <1>1, <1>2, Sizes DEF Init, SenderInv, OutInv, Agrees
<1> QED BY <1>1, <1>3, <1>4 DEF IInv

LEMMA InvStep == IInv /\ [Next]_vars => IInv'
<1> SUFFICES ASSUME IInv, [Next]_vars PROVE IInv'
  OBVIOUS
<1>1. TypeOK /\ ChannelInv /\ SenderInv /\ OutInv
  BY DEF IInv
<1>2. size \in Nat /\ Chunk \in Nat \ {0} /\ Len(out) \in Nat /\ tellg \in Nat
  BY <1>1, Sizes DEF TypeOK
<1>3. ASSUME SendFull PROVE IInv'
  <2>1. sender = "start" /\ tellg = 0 /\ RestIsLast /\ sender' = "closed" /\ Send("full")
    BY <1>1, <1>2, <1>3 DEF SendFull, SenderInv, RestIsLast
  <2>2. TypeOK' /\ ChannelInv' /\ OutInv'
    BY <2>1, SendKeeps
  <2> QED BY <2>1, <2>2 DEF IInv, SenderInv
<1>4. ASSUME SendStart PROVE IInv'
  <2>1. /\ sender = "start" /\ tellg = 0 /\ ~RestIsLast /\ sender' = "body" /\ Send("start")
        /\ size > Chunk
    BY <1>1, <1>2, <1>4 DEF SendStart, SenderInv, RestIsLast
  <2>2. TypeOK' /\ ChannelInv' /\ OutInv'
    BY <2>1, SendKeeps
  <2>3. tellg' < size' /\ sender' = "body"
    BY <1>2, <2>1 DEF Send, size
  <2> QED BY <2>2, <2>3 DEF IInv, SenderInv
<1>5. ASSUME SendBody PROVE IInv'
  <2>1. sender = "body" /\ ~RestIsLast /\ sender' = "body" /\ Send("body")
    BY <1>5 DEF SendBody
  <2>2. TypeOK' /\ ChannelInv' /\ OutInv'
    BY <2>1, SendKeeps
  <2>3. tellg' < size'
    BY <1>2, <2>1 DEF Send, size, RestIsLast
  <2> QED BY <2>1, <2>2, <2>3 DEF IInv, SenderInv
<1>6. ASSUME SendEnd PROVE IInv'
  <2>1. sender = "body" /\ RestIsLast /\ sender' = "closed" /\ Send("end") /\ tellg < size
    BY <1>1, <1>6 DEF SendEnd, SenderInv
  <2>2. TypeOK' /\ ChannelInv' /\ OutInv'
    BY <2>1, SendKeeps
  <2> QED BY <2>1, <2>2 DEF IInv, SenderInv
<1>7. ASSUME NEW part, Arrives(part) PROVE SenderInv'
  BY <1>1, <1>7, ArrivesFact DEF SenderInv
<1>8. ASSUME NEW part, Arrives(part), receiver' \in {"stored", "down"}, out' \in Seq(Byte)
      PROVE  TypeOK' /\ ChannelInv'
  <2>1. chan' \in Seq(Message) /\ UNCHANGED <<source, sender, tellg>>
    BY <1>8, ArrivesFact
  <2> QED BY <1>1, <1>8, <2>1 DEF TypeOK, ChannelInv
<1>9. ASSUME ReceiveStart PROVE IInv'
  <2>1. /\ Arrives("start") /\ UNCHANGED receiver /\ receiver = "open"
        /\ UNCHANGED source /\ size' = size
    BY <1>9, ArrivesFact DEF ReceiveStart, Arrives
  <2>2. TypeOK' /\ ChannelInv'
    BY <1>2, <1>9, <2>1, StartFact, ReceiveKeeps
  <2>3. OutInv'
    BY <1>2, <1>9, <2>1, StartFact DEF OutInv, Agrees
  <2> QED BY <1>7, <2>1, <2>2, <2>3 DEF IInv
<1>10. ASSUME ReceiveBody PROVE IInv'
  <2>1. /\ Arrives("body") /\ UNCHANGED receiver /\ receiver = "open"
        /\ UNCHANGED source /\ size' = size
    BY <1>10, ArrivesFact DEF ReceiveBody, Arrives
  <2>2. TypeOK' /\ ChannelInv'
    BY <1>10, <2>1, BodyFact, ReceiveKeeps
  <2>3. OutInv'
    BY <1>2, <1>10, <2>1, BodyFact DEF OutInv, Agrees
  <2> QED BY <1>7, <2>1, <2>2, <2>3 DEF IInv
<1>11. ASSUME ReceiveEnd PROVE IInv'
  <2>1. Arrives("end") /\ receiver' = "stored" /\ UNCHANGED source /\ size' = size
    BY <1>11, ArrivesFact DEF ReceiveEnd
  <2>2. OutInv'
    BY <1>11, <2>1, EndFact DEF OutInv
  <2> QED BY <1>7, <1>8, <1>11, <2>1, <2>2, EndFact DEF IInv
<1>12. ASSUME ReceiveFull PROVE IInv'
  <2>1. Arrives("full") /\ receiver' = "stored" /\ UNCHANGED source
    BY <1>12, ArrivesFact DEF ReceiveFull
  <2>2. OutInv'
    BY <1>12, <2>1, FullFact DEF OutInv
  <2> QED BY <1>7, <1>8, <1>12, <2>1, <2>2, FullFact DEF IInv
<1>13. ASSUME ReceiveTooLong PROVE IInv'
  <2>1. /\ Arrives("end") /\ receiver' = "down" /\ UNCHANGED <<source, out>>
        /\ size' = size /\ Agrees
    BY <1>13, ArrivesFact DEF ReceiveTooLong
  <2>2. OutInv'
    BY <2>1 DEF OutInv, Agrees
  <2>3. out' \in Seq(Byte)
    BY <1>1, <2>1 DEF TypeOK
  <2> QED BY <1>7, <1>8, <2>1, <2>2, <2>3 DEF IInv
<1>14. ASSUME Cut PROVE IInv'
  BY <1>1, <1>14 DEF Cut, IInv, TypeOK, ChannelInv, SenderInv, OutInv, Agrees, size
<1>15. CASE UNCHANGED vars
  BY <1>1, <1>15 DEF vars, IInv, TypeOK, ChannelInv, SenderInv, OutInv, Agrees, size, At,
                     Fits, ContentLength, Binary
<1> QED
  BY <1>3, <1>4, <1>5, <1>6, <1>9, <1>10, <1>11, <1>12, <1>13, <1>14, <1>15
     DEF Next, Sender, Receiver, Ended

(* The invariant holds of every file, size of a part and size of an int.   *)
THEOREM InvCorrect == Spec => []IInv
BY InvInit, InvStep, PTL DEF Spec

LEMMA PrefixFact ==
  ASSUME NEW s \in Seq(Byte), NEW t \in Seq(Byte), Len(s) <= Len(t),
         \A i \in 1..Len(s) : s[i] = t[i]
  PROVE  IsPrefix(s, t)
<1>1. Len(s) \in Nat
  OBVIOUS
<1>2. \A i \in 1..Len(s) : s[i] \in Byte /\ t[i] \in Byte
  OBVIOUS
<1> DEFINE a == SubSeq(s, 1, Len(s))
           b == SubSeq(t, 1, Len(s))
<1>3. /\ a \in Seq(Byte) /\ Len(a) = (IF 1 <= Len(s) THEN Len(s) - 1 + 1 ELSE 0)
      /\ \A i \in 1..Len(s) - 1 + 1 : a[i] = s[1 + i - 1]
  BY <1>1, <1>2, SubSeqProperties
<1>4. /\ b \in Seq(Byte) /\ Len(b) = (IF 1 <= Len(s) THEN Len(s) - 1 + 1 ELSE 0)
      /\ \A i \in 1..Len(s) - 1 + 1 : b[i] = t[1 + i - 1]
  BY <1>1, <1>2, SubSeqProperties
<1> HIDE DEF a, b
<1>5. Len(a) = Len(b) /\ \A i \in 1..Len(a) : a[i] = b[i]
  BY <1>1, <1>3, <1>4
<1>6. a = b
  BY <1>3, <1>4, <1>5, SeqEqual
<1> QED BY <1>6 DEF IsPrefix, a, b

(* The variables keep their types: no message has a size outside an int    *)
(* or a buffer of another length than READ_FILE_BUFFER, and what the       *)
(* receiver cuts from the last buffer are bytes of it.                     *)
THEOREM TypeCorrect == Spec => []TypeOK
<1>1. IInv => TypeOK
  BY DEF IInv
<1> QED BY <1>1, InvCorrect, PTL

(* The bytes SendingAFile or the client's loop has written are the file's  *)
(* first ones, at any time of a transfer of any file, also one that breaks *)
(* off or that stoi ends, and at the end of one whose size is below        *)
(* IntRange: no Nul of a buffer's unused end and no part twice, left out   *)
(* or out of place.                                                        *)
THEOREM WrittenIsPrefixCorrect == Spec => []WrittenIsPrefix
<1>1. IInv => WrittenIsPrefix
  <2> SUFFICES ASSUME IInv, SizeFits \/ receiver # "stored" PROVE IsPrefix(out, source)
    BY DEF WrittenIsPrefix
  <2>1. TypeOK /\ OutInv /\ out \in Seq(Byte) /\ source \in Seq(Byte)
    BY Sizes DEF IInv, TypeOK
  <2>2. Agrees
    <3>1. CASE receiver = "stored"
      <4>1. out = source
        BY <2>1, <3>1 DEF OutInv, SizeFits
      <4> QED BY <2>1, <4>1, Sizes DEF Agrees, size
    <3>2. CASE receiver # "stored"
      BY <2>1, <3>2 DEF OutInv
    <3> QED BY <3>1, <3>2
  <2> QED BY <2>1, <2>2, PrefixFact DEF Agrees, size
<1> QED BY <1>1, InvCorrect, PTL

(* A file closed as received is the file that was sent: the last part      *)
(* closes it only when every other one is in it, and whole parts count as  *)
(* whole though Content-Length % READ_FILE_BUFFER is zero.                 *)
THEOREM StoredIsWholeCorrect == Spec => []StoredIsWhole
<1>1. IInv => StoredIsWhole
  <2> SUFFICES ASSUME IInv, SizeFits, receiver = "stored" PROVE out = source
    BY DEF StoredIsWhole
  <2>1. OutInv
    BY DEF IInv
  <2> QED BY <2>1 DEF OutInv, SizeFits
<1> QED BY <1>1, InvCorrect, PTL

-----------------------------------------------------------------------------
(* Transfer implements FileCopy. *)

LEMMA RefinesInit == Init => Copy!Init
BY DEF Init, Copy!Init

(* A step writes more of the file, closes it whole or writes nothing.      *)
LEMMA RefinesStep ==
  ASSUME \A f \in Files : Len(f) < IntRange
  PROVE  IInv /\ [Next]_vars => [Copy!Next]_(Copy!vars)
<1> SUFFICES ASSUME IInv, [Next]_vars PROVE Copy!Next \/ UNCHANGED Copy!vars
  OBVIOUS
<1> USE DEF Copy!vars
<1>1. TypeOK /\ size < IntRange /\ out \in Seq(Byte) /\ source \in Seq(Byte)
  BY Sizes DEF IInv, TypeOK, size
<1>2. Len(out) \in Nat /\ Chunk \in Nat \ {0} /\ size \in Nat /\ size = Len(source)
  BY <1>1, Sizes DEF size
<1>3. ASSUME Sender PROVE UNCHANGED Copy!vars
  BY <1>3 DEF Sender, SendFull, SendStart, SendBody, SendEnd, Send
<1>4. ASSUME ReceiveStart PROVE Copy!Next
  <2>1. receiver = "open" /\ UNCHANGED <<source, receiver>>
    BY <1>4, ArrivesFact DEF ReceiveStart, Arrives
  <2>2. /\ out' \in Seq(Byte) /\ Len(out') = Chunk /\ Len(out) = 0 /\ Len(out') < Len(source)
        /\ \A i \in 1..Len(out') : out'[i] = source[i]
    BY <1>2, <1>4, StartFact
  <2>3. IsPrefix(out', source)
    BY <1>1, <1>2, <2>2, PrefixFact
  <2>4. IsPrefix(out, out')
    <3>1. Len(out) <= Len(out') /\ \A i \in 1..Len(out) : out[i] = out'[i]
      BY <1>2, <2>2
    <3> QED BY <1>1, <2>2, <3>1, PrefixFact
  <2>5. out' # out
    BY <1>2, <2>2
  <2> QED BY <2>1, <2>3, <2>4, <2>5 DEF Copy!Next, Copy!Grow, Copy!IsPrefix, IsPrefix
<1>5. ASSUME ReceiveBody PROVE Copy!Next
  <2>1. receiver = "open" /\ UNCHANGED <<source, receiver>>
    BY <1>5, ArrivesFact DEF ReceiveBody, Arrives
  <2>2. /\ out' \in Seq(Byte) /\ Len(out') = Len(out) + Chunk /\ Len(out') < Len(source)
        /\ \A i \in 1..Len(out) : out'[i] = out[i]
        /\ \A i \in 1..Len(out') : out'[i] = source[i]
    BY <1>2, <1>5, BodyFact
  <2>3. IsPrefix(out', source)
    BY <1>1, <1>2, <2>2, PrefixFact
  <2>4. IsPrefix(out, out')
    BY <1>1, <1>2, <2>2, PrefixFact
  <2>5. out' # out
    BY <1>2, <2>2
  <2> QED BY <2>1, <2>3, <2>4, <2>5 DEF Copy!Next, Copy!Grow, Copy!IsPrefix, IsPrefix
<1>6. ASSUME ReceiveEnd PROVE Copy!Next
  <2>1. receiver = "open" /\ receiver' = "stored" /\ UNCHANGED source
    BY <1>6, ArrivesFact DEF ReceiveEnd, Arrives
  <2> QED BY <1>1, <1>6, <2>1, EndFact DEF Copy!Next, Copy!Finish
<1>7. ASSUME ReceiveFull PROVE Copy!Next
  <2>1. receiver = "open" /\ receiver' = "stored" /\ UNCHANGED source
    BY <1>7, ArrivesFact DEF ReceiveFull, Arrives
  <2> QED BY <1>7, <2>1, FullFact DEF Copy!Next, Copy!Finish
<1>8. ASSUME ReceiveTooLong PROVE UNCHANGED Copy!vars
  BY <1>8, ArrivesFact DEF ReceiveTooLong, Arrives
<1>9. ASSUME Cut PROVE UNCHANGED Copy!vars
  BY <1>9 DEF Cut
<1>10. CASE UNCHANGED vars
  BY <1>10 DEF vars
<1> QED
  BY <1>3, <1>4, <1>5, <1>6, <1>7, <1>8, <1>9, <1>10 DEF Next, Receiver, Ended

(* To the rest of the server a transfer is one copy that grows and is      *)
(* whole when it is done.  The files are ones whose size the 32 bits of    *)
(* Content-Length tell apart (below 4 GB): for a longer one the size wraps *)
(* and the last part is cut at the wrong place.                            *)
THEOREM TransferImplementsCopy ==
  ASSUME \A f \in Files : Len(f) < IntRange
  PROVE  Spec => ImplementsCopy
<1>1. IInv /\ [Next]_vars => [Copy!Next]_(Copy!vars)
  BY RefinesStep
<1> QED BY <1>1, InvInit, InvStep, RefinesInit, PTL DEF Spec, ImplementsCopy, Copy!Spec
===============================================================================
