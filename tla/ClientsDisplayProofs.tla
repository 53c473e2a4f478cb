-------------------------- MODULE ClientsDisplayProofs --------------------------
(***************************************************************************)
(* Theorems about ClientsDisplay, for any number of clients and lives of   *)
(* the server, any base of numerals and any percentages.                   *)
(*                                                                         *)
(* Numeral and FlattenSeq are recursive functions.  That there is a        *)
(* function with their equations is proved from approximations on 1..m; a  *)
(* fact about all their values from a least argument that lacks it.        *)
(***************************************************************************)
EXTENDS ClientsDisplay, StoreTablesProofs

-----------------------------------------------------------------------------
(* Numerals. *)

Numbers == 0..(Radix - 1)

(* One more digit of std::to_string, of a function that has the others.    *)
NumeralStep(f, n) ==
  IF n < Radix THEN <<n>> ELSE Append(f[n \div Radix], n % Radix)

Spells(f, m) == \A n \in 0..m : f[n] = NumeralStep(f, n)

LEMMA DivFact ==
  ASSUME NEW n \in Nat, n >= Radix
  PROVE  n \div Radix \in Nat /\ n \div Radix < n /\ n % Radix \in Numbers
BY DisplayAssumption DEF Numbers

LEMMA SpellsExists ==
  ASSUME NEW m \in Nat
  PROVE  \E f : Spells(f, m)
<1> DEFINE Bad == {k \in Nat : ~\E f : Spells(f, k)}
<1> SUFFICES ASSUME Bad # {} PROVE FALSE
  OBVIOUS
<1> DEFINE k == Min(Bad)
<1>1. Bad \in SUBSET Nat
  OBVIOUS
<1>2. k \in Bad /\ \A j \in Bad : k =< j
  <2> HIDE DEF Bad
  <2> QED BY <1>1, MinFact
<1> HIDE DEF k
<1>3. k \in Nat
  BY <1>2
<1>4. CASE k = 0
  <2> DEFINE f == [n \in {0} |-> <<n>>]
  <2>1. Spells(f, 0)
    <3>1. f[0] = <<0>> /\ 0 < Radix
      BY DisplayAssumption
    <3>2. \A n \in 0..0 : n = 0
      OBVIOUS
    <3> HIDE DEF f
    <3> QED BY <3>1, <3>2 DEF Spells, NumeralStep
  <2> HIDE DEF f
  <2> QED BY <1>2, <1>4, <2>1
<1>5. CASE k # 0
  <2>1. k - 1 \in Nat /\ k - 1 \notin Bad
    BY <1>2, <1>3, <1>5
  <2>2. PICK g : Spells(g, k - 1)
    BY <2>1
  <2> DEFINE f == [n \in 0..k |-> IF n = k THEN NumeralStep(g, k) ELSE g[n]]
  <2>3. ASSUME NEW n \in 0..k PROVE f[n] = NumeralStep(g, n)
    <3>1. CASE n = k
      BY <3>1
    <3>2. CASE n # k
      <4>1. n \in 0..(k - 1)
        BY <1>3, <3>2
      <4> QED BY <2>2, <3>2, <4>1 DEF Spells
    <3> QED BY <3>1, <3>2
  <2>4. ASSUME NEW n \in 0..k PROVE NumeralStep(f, n) = NumeralStep(g, n)
    <3>1. CASE n < Radix
      BY <3>1 DEF NumeralStep
    <3>2. CASE n >= Radix
      <4>1. n \div Radix \in 0..k /\ n \div Radix # k
        BY <1>3, <3>2, DivFact
      <4>2. f[n \div Radix] = g[n \div Radix]
        BY <4>1
      <4> QED BY <3>2, <4>2, DisplayAssumption DEF NumeralStep
    <3> QED BY <1>3, <3>1, <3>2, DisplayAssumption
  <2>5. Spells(f, k)
    <3> HIDE DEF f
    <3> QED BY <2>3, <2>4 DEF Spells
  <2> HIDE DEF f
  <2> QED BY <1>2, <2>5
<1> QED BY <1>4, <1>5

LEMMA SpellsUnique ==
  ASSUME NEW f, NEW g, NEW m \in Nat, Spells(f, m), NEW k \in Nat, Spells(g, k),
         NEW n \in Nat, n =< m, n =< k
  PROVE  f[n] = g[n]
<1> DEFINE Bad == {j \in 0..n : f[j] # g[j]}
<1> SUFFICES ASSUME Bad # {} PROVE FALSE
  OBVIOUS
<1> DEFINE j == Min(Bad)
<1>1. Bad \in SUBSET Nat
  OBVIOUS
<1>2. j \in Bad /\ \A i \in Bad : j =< i
  <2> HIDE DEF Bad
  <2> QED BY <1>1, MinFact
<1> HIDE DEF j
<1>3. j \in Nat /\ j \in 0..m /\ j \in 0..k /\ f[j] # g[j]
  BY <1>2
<1>4. CASE j < Radix
  BY <1>3, <1>4 DEF Spells, NumeralStep
<1>5. CASE j >= Radix
  <2>1. j \div Radix \in 0..n /\ j \div Radix < j /\ j \div Radix \in Nat
    BY <1>2, <1>5, DivFact
  <2>2. f[j \div Radix] = g[j \div Radix]
    BY <1>2, <2>1
  <2> QED BY <1>3, <1>5, <2>2, DisplayAssumption DEF Spells, NumeralStep
<1> QED BY <1>3, <1>4, <1>5, DisplayAssumption

(* std::to_string follows its equation.                                    *)
LEMMA NumeralDef ==
  ASSUME NEW n \in Nat
  PROVE  Numeral[n] = NumeralStep(Numeral, n)
<1> DEFINE G(k) == CHOOSE f : Spells(f, k)
           F == [k \in Nat |-> G(k)[k]]
<1>1. ASSUME NEW k \in Nat PROVE Spells(G(k), k)
  BY SpellsExists
<1> HIDE DEF G
<1>2. ASSUME NEW k \in Nat PROVE F[k] = NumeralStep(F, k)
  <2>1. F[k] = NumeralStep(G(k), k)
    BY <1>1 DEF Spells
  <2>2. CASE k < Radix
    BY <2>1, <2>2 DEF NumeralStep
  <2>3. CASE k >= Radix
    <3> DEFINE d == k \div Radix
    <3>1. d \in Nat /\ d < k
      BY <2>3, DivFact
    <3>2. Spells(G(k), k) /\ Spells(G(d), d)
      BY <1>1, <3>1
    <3>3. d =< k /\ d =< d
      BY <3>1
    <3> HIDE DEF d
    <3>4. G(k)[d] = G(d)[d]
      BY <3>1, <3>2, <3>3, SpellsUnique
    <3>5. G(k)[d] = F[d]
      BY <3>1, <3>4
    <3> USE DEF d
    <3> HIDE DEF F
    <3> QED BY <2>1, <2>3, <3>5, DisplayAssumption DEF NumeralStep
  <2> QED BY <2>2, <2>3, DisplayAssumption
<1>3. F = [k \in Nat |->
             IF k < Radix THEN <<k>> ELSE Append(F[k \div Radix], k % Radix)]
  <2>1. F = [k \in Nat |-> F[k]]
    OBVIOUS
  <2>2. ASSUME NEW k \in Nat
        PROVE  F[k] = IF k < Radix THEN <<k>> ELSE Append(F[k \div Radix], k % Radix)
    BY <1>2 DEF NumeralStep
  <2> HIDE DEF F
  <2> QED BY <2>1, <2>2
<1> HIDE DEF F
<1>4. Numeral = [k \in Nat |->
             IF k < Radix THEN <<k>> ELSE Append(Numeral[k \div Radix], k % Radix)]
  BY <1>3 DEF Numeral
<1> QED BY <1>4 DEF NumeralStep

(* A numeral consists of digits; it is one digit for the numbers below the *)
(* base, the number itself, and longer for the others.                     *)
LEMMA NumeralFact ==
  ASSUME NEW n \in Nat
  PROVE  /\ Numeral[n] \in Seq(Numbers)
         /\ n < Radix => Numeral[n] = <<n>> /\ Len(Numeral[n]) = 1
         /\ n >= Radix => Len(Numeral[n]) >= 2
<1> DEFINE Fine(k) == /\ Numeral[k] \in Seq(Numbers)
                      /\ k < Radix => Numeral[k] = <<k>> /\ Len(Numeral[k]) = 1
                      /\ k >= Radix => Len(Numeral[k]) >= 2
           Bad == {k \in Nat : ~Fine(k)}
<1> SUFFICES ASSUME Bad # {} PROVE FALSE
  OBVIOUS
<1> DEFINE k == Min(Bad)
<1>1. Bad \in SUBSET Nat
  OBVIOUS
<1>2. k \in Bad /\ \A j \in Bad : k =< j
  <2> HIDE DEF Bad
  <2> QED BY <1>1, MinFact
<1> HIDE DEF k
<1>3. k \in Nat
  BY <1>2
<1>0. Numeral[k] = NumeralStep(Numeral, k)
  BY <1>3, NumeralDef
<1>4. CASE k < Radix
  <2>1. Numeral[k] = <<k>> /\ k \in Numbers
    BY <1>0, <1>3, <1>4, DisplayAssumption DEF NumeralStep, Numbers
  <2>2. Fine(k)
    BY <1>3, <1>4, <2>1, DisplayAssumption
  <2> QED BY <1>2, <2>2
<1>5. CASE k >= Radix
  <2> DEFINE d == k \div Radix
             r == k % Radix
  <2>1. d \in Nat /\ d < k /\ r \in Numbers
    BY <1>3, <1>5, DivFact
  <2>2. Numeral[k] = Append(Numeral[d], r)
    <3>1. ~(k < Radix)
      BY <1>3, <1>5, DisplayAssumption
    <3> QED BY <1>0, <3>1 DEF NumeralStep
  <2> HIDE DEF d, r
  <2>3. Fine(d)
    BY <1>2, <1>3, <2>1
  <2>4. Numeral[d] \in Seq(Numbers) /\ Len(Numeral[d]) >= 1
    <3>1. CASE d < Radix
      <4>1. Numeral[d] \in Seq(Numbers) /\ Len(Numeral[d]) = 1
        BY <2>3, <3>1
      <4> QED BY <4>1
    <3>2. CASE d >= Radix
      <4>1. Len(Numeral[d]) >= 2 /\ Len(Numeral[d]) \in Nat
        BY <2>3, <3>2
      <4> QED BY <2>3, <4>1
    <3> QED BY <2>1, <3>1, <3>2, DisplayAssumption
  <2>5. Numeral[k] \in Seq(Numbers) /\ Len(Numeral[k]) >= 2
    BY <2>1, <2>2, <2>4
  <2>6. Fine(k)
    BY <1>3, <1>5, <2>5, DisplayAssumption
  <2> QED BY <1>2, <2>6
<1> QED BY <1>3, <1>4, <1>5, DisplayAssumption

-----------------------------------------------------------------------------
(* Texts joined on the line. *)

Joins(f, s, m) ==
  \A i \in 1..m : f[i] = IF i = 1 THEN s[1] ELSE f[i - 1] \o s[i]

LEMMA JoinsExists ==
  ASSUME NEW s, NEW m \in Nat
  PROVE  \E f : Joins(f, s, m)
<1> DEFINE Bad == {k \in Nat : ~\E f : Joins(f, s, k)}
<1> SUFFICES ASSUME Bad # {} PROVE FALSE
  OBVIOUS
<1> DEFINE k == Min(Bad)
<1>1. Bad \in SUBSET Nat
  OBVIOUS
<1>2. k \in Bad /\ \A j \in Bad : k =< j
  <2> HIDE DEF Bad
  <2> QED BY <1>1, MinFact
<1> HIDE DEF k
<1>3. k \in Nat
  BY <1>2
<1>4. CASE k = 0
  <2>1. Joins(<<>>, s, 0)
    BY DEF Joins
  <2> QED BY <1>2, <1>4, <2>1
<1>5. CASE k # 0
  <2>1. k - 1 \in Nat /\ k - 1 \notin Bad
    BY <1>2, <1>3, <1>5
  <2>2. PICK g : Joins(g, s, k - 1)
    BY <2>1
  <2> DEFINE last == IF k = 1 THEN s[1] ELSE g[k - 1] \o s[k]
             f == [i \in 1..k |-> IF i = k THEN last ELSE g[i]]
  <2>3. ASSUME NEW i \in 1..k
        PROVE  f[i] = IF i = 1 THEN s[1] ELSE f[i - 1] \o s[i]
    <3>1. CASE i = k
      <4>1. k # 1 => k - 1 \in 1..k /\ k - 1 # k
        BY <1>3, <1>5
      <4>2. k # 1 => f[k - 1] = g[k - 1]
        BY <4>1
      <4> QED BY <3>1, <4>2
    <3>2. CASE i # k
      <4>1. i \in 1..(k - 1)
        BY <1>3, <3>2
      <4>2. f[i] = g[i] /\ g[i] = IF i = 1 THEN s[1] ELSE g[i - 1] \o s[i]
        BY <2>2, <3>2, <4>1 DEF Joins
      <4>3. i # 1 => i - 1 \in 1..k /\ i - 1 # k
        BY <1>3, <4>1
      <4>4. i # 1 => f[i - 1] = g[i - 1]
        BY <4>3
      <4> QED BY <4>2, <4>4
    <3> QED BY <3>1, <3>2
  <2>4. Joins(f, s, k)
    <3> HIDE DEF f
    <3> QED BY <2>3 DEF Joins
  <2> HIDE DEF f
  <2> QED BY <1>2, <2>4
<1> QED BY <1>4, <1>5

(* FlattenSeq follows its equation.                                        *)
LEMMA FlattenDef ==
  ASSUME NEW S, NEW s \in Seq(S), Len(s) # 0
  PROVE  \E f : Joins(f, s, Len(s)) /\ FlattenSeq(s) = f[Len(s)]
<1> DEFINE n == Len(s)
           Good(f) == f = [i \in 1..n |-> IF i = 1 THEN s[i] ELSE f[i - 1] \o s[i]]
<1>1. n \in Nat
  OBVIOUS
<1> HIDE DEF n
<1>2. PICK g : Joins(g, s, n)
  BY <1>1, JoinsExists
<1> DEFINE h == [i \in 1..n |-> g[i]]
<1>3. Good(h)
  <2>1. ASSUME NEW i \in 1..n PROVE h[i] = IF i = 1 THEN s[i] ELSE h[i - 1] \o s[i]
    <3>1. i # 1 => i - 1 \in 1..n
      BY <1>1
    <3> QED BY <1>2, <3>1 DEF Joins
  <2>2. h = [i \in 1..n |-> h[i]]
    OBVIOUS
  <2> HIDE DEF h
  <2> QED BY <2>1, <2>2
<1> HIDE DEF h
<1> DEFINE f == CHOOSE a : Good(a)
<1>4. Good(f)
  BY <1>3
<1>5. FlattenSeq(s) = f[n]
  BY DEF FlattenSeq, n
<1> HIDE DEF f
<1>6. Joins(f, s, n)
  BY <1>4 DEF Joins
<1> QED BY <1>5, <1>6 DEF n

(* Joined texts are a text; one alone is itself, and of more at least the  *)
(* first two are in it.                                                    *)
LEMMA FlattenFact ==
  ASSUME NEW C, NEW s \in Seq(Seq(C)), Len(s) # 0
  PROVE  /\ FlattenSeq(s) \in Seq(C)
         /\ Len(s) = 1 => FlattenSeq(s) = s[1]
         /\ Len(s) # 1 => Len(FlattenSeq(s)) >= Len(s[1]) + Len(s[2])
<1>1. PICK f : Joins(f, s, Len(s)) /\ FlattenSeq(s) = f[Len(s)]
  BY FlattenDef
<1> DEFINE n == Len(s)
           Fine(i) == f[i] \in Seq(C) /\ (i # 1 => Len(f[i]) >= Len(s[1]) + Len(s[2]))
           Bad == {i \in 1..n : ~Fine(i)}
<1>2. n \in Nat \ {0} /\ \A i \in 1..n : s[i] \in Seq(C)
  OBVIOUS
<1>3. \A i \in 1..n : f[i] = IF i = 1 THEN s[1] ELSE f[i - 1] \o s[i]
  BY <1>1 DEF Joins
<1>4. f[1] = s[1]
  BY <1>2, <1>3
<1> HIDE DEF n
<1>5. Bad = {}
  <2> SUFFICES ASSUME Bad # {} PROVE FALSE
    OBVIOUS
  <2> DEFINE k == Min(Bad)
  <2>1. Bad \in SUBSET Nat
    <3> HIDE DEF Fine
    <3> QED BY <1>2
  <2>2. k \in Bad /\ \A j \in Bad : k =< j
    <3> HIDE DEF Bad
    <3> QED BY <2>1, MinFact
  <2> HIDE DEF k
  <2>3. k \in 1..n /\ ~Fine(k)
    BY <2>2
  <2>4. k # 1
    BY <1>2, <1>4, <2>3
  <2>5. k - 1 \in 1..n
    BY <1>2, <2>3, <2>4
  <2>6. Fine(k - 1)
    <3> HIDE DEF Fine
    <3>1. k - 1 \notin Bad
      <4>1. \A j \in Bad : k =< j
        BY <2>2
      <4>2. ~(k =< k - 1)
        BY <1>2, <2>3
      <4> HIDE DEF Bad
      <4> QED BY <4>1, <4>2
    <3> QED BY <2>5, <3>1
  <2>7. f[k] = f[k - 1] \o s[k] /\ s[k] \in Seq(C) /\ f[k - 1] \in Seq(C)
    BY <1>2, <1>3, <2>3, <2>4, <2>6
  <2>8. f[k] \in Seq(C) /\ Len(f[k]) = Len(f[k - 1]) + Len(s[k])
    BY <2>7
  <2>9. Len(f[k]) >= Len(s[1]) + Len(s[2])
    <3>1. CASE k = 2
      BY <1>4, <2>8, <3>1
    <3>2. CASE k # 2
      <4>1. k - 1 # 1
        BY <1>2, <2>3, <3>2
      <4>2. 2 \in 1..n /\ 1 \in 1..n
        BY <1>2, <2>3, <2>4
      <4>3. Len(f[k - 1]) >= Len(s[1]) + Len(s[2])
        BY <2>6, <4>1
      <4>4. Len(s[1]) \in Nat /\ Len(s[2]) \in Nat /\ Len(s[k]) \in Nat /\ Len(f[k - 1]) \in Nat
        BY <1>2, <2>7, <4>2
      <4> DEFINE a == Len(s[1])
                 b == Len(s[2])
                 c == Len(s[k])
                 d == Len(f[k - 1])
      <4>5. Len(f[k]) = d + c /\ d >= a + b /\ a \in Nat /\ b \in Nat /\ c \in Nat /\ d \in Nat
        BY <2>8, <4>3, <4>4
      <4> HIDE DEF a, b, c, d
      <4>6. Len(f[k]) >= a + b
        BY <4>5
      <4> QED BY <4>6 DEF a, b
    <3> QED BY <3>1, <3>2
  <2> QED BY <2>3, <2>8, <2>9
<1>6. Fine(n)
  <2> HIDE DEF Fine
  <2>1. n \in 1..n
    BY <1>2
  <2> QED BY <1>5, <2>1
<1> QED BY <1>1, <1>2, <1>4, <1>6 DEF n

-----------------------------------------------------------------------------
(* Messages. *)

(* A message as it was written: a count, or a storage of a client whose ID *)
(* has one digit, which is not 0.                                          *)
Whole(text) == Len(text) = 2 \/ (Len(text) = 3 /\ Digit(text[1]) # 0)

LEMMA NumeralText ==
  ASSUME NEW n \in Nat
  PROVE  Numeral[n] \in Text /\ Len(Numeral[n]) \in Nat \ {0}
<1>1. Numbers \subseteq Char
  BY DisplayAssumption DEF Numbers, Char
<1>2. Numeral[n] \in Seq(Numbers)
  BY NumeralFact
<1>3. Numeral[n] \in Text
  BY <1>1, <1>2 DEF Text
<1>4. n < Radix \/ n >= Radix
  BY DisplayAssumption
<1>5. Len(Numeral[n]) = 1 \/ Len(Numeral[n]) >= 2
  BY <1>4, NumeralFact
<1>6. Len(Numeral[n]) \in Nat
  BY <1>3 DEF Text
<1> DEFINE l == Len(Numeral[n])
<1>7. l \in Nat /\ (l = 1 \/ l >= 2)
  BY <1>5, <1>6
<1> HIDE DEF l
<1>8. l \in Nat \ {0}
  BY <1>7
<1> QED BY <1>3, <1>8 DEF l

LEMMA TextConcat ==
  ASSUME NEW s \in Text, NEW t \in Text
  PROVE  s \o t \in Text /\ Len(s \o t) = Len(s) + Len(t)
BY ConcatProperties DEF Text

(* serialize_main_frame gives two characters, whatever the number.         *)
LEMMA MainFrameFact ==
  ASSUME NEW n \in Nat
  PROVE  MainFrame(n) \in Text /\ Len(MainFrame(n)) = 2
<1> DEFINE d == Numeral[n]
           l == Len(d)
<1>1. d \in Text /\ l \in Nat \ {0}
  BY NumeralText
<1>2. <<0>> \in Text /\ Len(<<0>>) = 1 /\ Many \in Text /\ Len(Many) = 2
  BY DisplayAssumption DEF Text, Char, Many
<1>3. CASE l > 2
  <2>1. l # 1
    <3> HIDE DEF l
    <3> QED BY <1>3
  <2>2. MainFrame(n) = Many
    BY <1>3, <2>1 DEF MainFrame
  <2> QED BY <1>2, <2>2
<1>4. CASE l = 1
  <2>1. MainFrame(n) = <<0>> \o d
    BY <1>4 DEF MainFrame
  <2> HIDE DEF d
  <2>2. <<0>> \o d \in Text /\ Len(<<0>> \o d) = Len(<<0>>) + Len(d)
    BY <1>1, <1>2, TextConcat
  <2>3. Len(<<0>>) + Len(d) = 2
    BY <1>4
  <2> QED BY <2>1, <2>2, <2>3
<1>5. CASE l = 2
  <2>1. MainFrame(n) = d
    BY <1>5 DEF MainFrame
  <2> QED BY <1>1, <1>5, <2>1
<1>6. l = 1 \/ l = 2 \/ l > 2
  <2> HIDE DEF l
  <2> QED BY <1>1
<1> QED BY <1>3, <1>4, <1>5, <1>6

LEMMA MainFrameZero ==
  MainFrame(0) = Zeros
<1>1. Numeral[0] = <<0>> /\ Len(Numeral[0]) = 1
  BY NumeralFact, DisplayAssumption
<1>2. MainFrame(0) = <<0>> \o <<0>>
  BY <1>1 DEF MainFrame
<1> QED BY <1>2 DEF Zeros

(* The characters of the storage: two, or more than three.                 *)
Share(d) == CASE Len(d) = 1 -> <<0>> \o d
              [] Len(d) = 3 -> <<Radix - 1, Radix - 1>>
              [] OTHER      -> d

LEMMA ShareFact ==
  ASSUME NEW d \in Text, Len(d) \in Nat \ {0}
  PROVE  Share(d) \in Text /\ Len(Share(d)) \in Nat /\ Len(Share(d)) >= 2
<1> DEFINE l == Len(d)
<1>1. <<0>> \in Text /\ Len(<<0>>) = 1
  BY DisplayAssumption DEF Text, Char
<1>2. <<Radix - 1, Radix - 1>> \in Text /\ Len(<<Radix - 1, Radix - 1>>) = 2
  BY DisplayAssumption DEF Text, Char
<1>3. CASE l = 1
  <2>1. Share(d) = <<0>> \o d
    BY <1>3 DEF Share
  <2>2. <<0>> \o d \in Text /\ Len(<<0>> \o d) = Len(<<0>>) + Len(d)
    BY <1>1, TextConcat
  <2>3. Len(<<0>>) + Len(d) = 2
    BY <1>1, <1>3
  <2> QED BY <2>1, <2>2, <2>3
<1>4. CASE l = 3
  <2>1. Share(d) = <<Radix - 1, Radix - 1>>
    BY <1>4 DEF Share
  <2> QED BY <1>2, <2>1
<1>5. CASE l \notin {1, 3}
  <2>1. Share(d) = d
    BY <1>5 DEF Share
  <2>2. l \in Nat \ {0}
    OBVIOUS
  <2>3. l >= 2
    <3> HIDE DEF l
    <3> QED BY <1>5, <2>2
  <2> QED BY <2>1, <2>2, <2>3
<1> QED BY <1>3, <1>4, <1>5

(* serialize_aduino_answer gives at least three characters; if no more, the*)
(* first is the ID.                                                        *)
LEMMA StorageFrameFact ==
  ASSUME NEW id \in Nat \ {0}, NEW p \in Nat
  PROVE  /\ StorageFrame(id, p) \in Text
         /\ Len(StorageFrame(id, p)) = 3 => Whole(StorageFrame(id, p))
         /\ Len(StorageFrame(id, p)) # 2
<1> DEFINE head  == Numeral[id]
           share == Share(Numeral[p])
           frame == StorageFrame(id, p)
           h == Len(head)
           t == Len(share)
<1>1. head \in Text /\ h \in Nat \ {0}
  BY NumeralText
<1>2. share \in Text /\ t \in Nat /\ t >= 2
  <2> DEFINE d == Numeral[p]
  <2>1. d \in Text /\ Len(d) \in Nat \ {0}
    BY NumeralText
  <2> HIDE DEF d
  <2>2. Share(d) \in Text /\ Len(Share(d)) \in Nat /\ Len(Share(d)) >= 2
    BY <2>1, ShareFact
  <2> QED BY <2>2 DEF d
<1>3. frame = head \o share
  BY DEF StorageFrame, Share
<1>4. id >= Radix => h >= 2
  BY NumeralFact
<1>5. id < Radix => head = <<id>>
  BY NumeralFact
<1> HIDE DEF head, share, frame
<1>6. frame \in Text /\ Len(frame) = h + t
  BY <1>1, <1>2, <1>3, TextConcat
<1> HIDE DEF h, t
<1>7. Len(frame) # 2
  BY <1>1, <1>2, <1>6
<1>8. ASSUME Len(frame) = 3 PROVE Digit(frame[1]) # 0
  <2>1. h = 1
    <3>1. h \in Nat /\ h # 0 /\ t \in Nat /\ t >= 2 /\ h + t = 3
      BY <1>1, <1>2, <1>6, <1>8
    <3> QED BY <3>1
  <2>2. id < Radix
    BY <1>4, <2>1, DisplayAssumption
  <2>3. head = <<id>>
    BY <1>5, <2>2
  <2>4. frame[1] = id
    <3>1. <<id>> \in Seq(Nat) /\ share \in Seq(Nat) /\ Len(<<id>>) = 1
      BY <1>2, DisplayAssumption DEF Text, Char
    <3>2. \A i \in 1..(Len(<<id>>) + Len(share)) :
            (<<id>> \o share)[i] = IF i <= Len(<<id>>) THEN <<id>>[i] ELSE share[i - Len(<<id>>)]
      BY <3>1, ConcatProperties
    <3>3. 1 \in 1..(Len(<<id>>) + Len(share)) /\ 1 <= Len(<<id>>)
      BY <1>2, <3>1 DEF t
    <3> QED BY <1>3, <2>3, <3>2, <3>3
  <2> QED BY <2>2, <2>4 DEF Digit
<1> QED BY <1>6, <1>7, <1>8 DEF frame, Whole

-----------------------------------------------------------------------------
(* The invariant. *)

(* On the line are messages as they were written, but for the rest of one  *)
(* that loop() has begun to drop, which only a restarted display does; the *)
(* last one is the last written.                                           *)
LineInv ==
  /\ \A i \in 1..Len(line) :
       \/ Whole(line[i])
       \/ i = 1 /\ Len(line[1]) = 1 /\ greeted /\ deaf
  /\ line # <<>> /\ Len(line[Len(line)]) # 1 => line[Len(line)] = sent

(* A display that was never restarted drops the first message of the first *)
(* server, the count of no clients, which it shows anyway.                 *)
FreshInv ==
  ~greeted /\ ~deaf =>
    /\ lcd = Count(Zeros)
    /\ line = <<>> => ~up /\ sent = Zeros
    /\ line # <<>> => line[1] = Zeros

(* The display shows what it caught last, unless it could not tell whose   *)
(* storage that was or has said so.                                        *)
DrawnInv ==
  /\ Len(prev) \in {2, 3}
  /\ lcd \in {Drawn(prev), WrongSerial} \/ (Len(prev) = 3 /\ Digit(prev[1]) = 0)

DisplayInv == LineInv /\ FreshInv /\ DrawnInv /\ ShowsLast

IInv == TypeOK /\ DisplayInv

LEMMA ZerosFact ==
  Zeros \in Text /\ Len(Zeros) = 2 /\ Whole(Zeros) /\ Drawn(Zeros) = Count(Zeros)
BY DisplayAssumption DEF Zeros, Text, Char, Whole, Drawn

LEMMA WholeFact ==
  ASSUME NEW text, Whole(text)
  PROVE  Len(text) \in {2, 3}
BY DEF Whole

LEMMA InvInit ==
  Init => IInv
<1> SUFFICES ASSUME Init PROVE IInv
  OBVIOUS
<1>1. Count(Zeros) \in [client : Nat, text : Text]
  BY ZerosFact DEF Count
<1>2. TypeOK
  <2>1. 0 \in 0..MaxStarts /\ 0 \in 0..MaxClients /\ -1 \in Int
    BY DisplayAssumption
  <2>2. <<>> \in Seq(Text)
    OBVIOUS
  <2>3. /\ line = <<>> /\ lcd = Count(Zeros)
        /\ info = Zeros /\ prev = Zeros /\ sent = Zeros
        /\ joined = 0 /\ starts = 0 /\ counted = 0 /\ alive = {} /\ listed = {}
        /\ lastSize = -1 /\ up = FALSE /\ asleep = FALSE /\ greeted = FALSE /\ deaf = FALSE
    BY DEF Init
  <2> QED BY <1>1, <2>1, <2>2, <2>3, ZerosFact DEF TypeOK
<1>3. LineInv
  BY DEF Init, LineInv
<1>4. FreshInv /\ DrawnInv /\ ShowsLast
  BY ZerosFact DEF Init, FreshInv, DrawnInv, ShowsLast
<1> QED BY <1>2, <1>3, <1>4 DEF IInv, DisplayInv

-----------------------------------------------------------------------------
(* The server's steps. *)

(* sendArduino puts a message at the end of the line or, when it has       *)
(* another length, does nothing.                                           *)
LEMMA SendFact ==
  ASSUME TypeOK, LineInv, NEW text \in Text, Len(text) = 3 => Whole(text),
         SendArduino(text), greeted' = greeted, deaf' = deaf
  PROVE  /\ line' \in Seq(Text) /\ asleep' \in BOOLEAN /\ sent' \in Text
         /\ LineInv'
         /\ \/ line' = line /\ sent' = sent /\ Len(text) # 2
            \/ /\ line' # <<>>
               /\ line'[1] = IF line = <<>> THEN text ELSE line[1]
<1>1. line \in Seq(Text) /\ sent \in Text /\ asleep \in BOOLEAN
  BY DEF TypeOK
<1>2. CASE UNCHANGED <<line, asleep, sent>> /\ Len(text) \notin {2, 3}
  BY <1>1, <1>2 DEF LineInv
<1>3. CASE /\ Len(text) \in {2, 3} /\ line' = Append(line, text)
           /\ asleep' = (Len(text) = 3) /\ sent' = text
  <2>1. Whole(text)
    BY <1>3 DEF Whole
  <2> DEFINE n == Len(line)
  <2>2. /\ line' \in Seq(Text) /\ line' # <<>> /\ Len(line') = n + 1
        /\ \A i \in 1..n : line'[i] = line[i]
        /\ line'[n + 1] = text
    BY <1>1, <1>3, AppendProperties
  <2>3. n \in Nat /\ (n = 0 <=> line = <<>>)
    BY <1>1
  <2>4. ASSUME NEW i \in 1..Len(line')
        PROVE  Whole(line'[i]) \/ (i = 1 /\ Len(line'[1]) = 1 /\ greeted' /\ deaf')
    <3>1. CASE i = n + 1
      BY <2>1, <2>2, <3>1
    <3>2. CASE i \in 1..n
      <4>1. 1 \in 1..n
        BY <2>3, <3>2
      <4> QED BY <2>2, <3>2, <4>1 DEF LineInv
    <3>3. i = n + 1 \/ i \in 1..n
      <4> HIDE DEF n
      <4> QED BY <2>2, <2>3
    <3> QED BY <3>1, <3>2, <3>3
  <2>5. line'[Len(line')] = sent'
    BY <1>3, <2>2
  <2>6. LineInv'
    BY <2>4, <2>5 DEF LineInv
  <2>7. line'[1] = IF line = <<>> THEN text ELSE line[1]
    <3>1. CASE line = <<>>
      <4>1. n + 1 = 1
        BY <2>3, <3>1
      <4> QED BY <2>2, <3>1, <4>1
    <3>2. CASE line # <<>>
      <4>1. 1 \in 1..n
        BY <2>3, <3>2
      <4> QED BY <2>2, <3>2, <4>1
    <3> QED BY <3>1, <3>2
  <2> QED BY <1>3, <2>2, <2>6, <2>7
<1> QED BY <1>2, <1>3 DEF SendArduino

LEMMA SendKeeps ==
  ASSUME IInv, NEW text \in Text, Len(text) = 3 => Whole(text), ~up => text = Zeros,
         SendArduino(text), up', UNCHANGED display
  PROVE  /\ line' \in Seq(Text) /\ asleep' \in BOOLEAN /\ sent' \in Text
         /\ DisplayInv'
<1>1. TypeOK /\ LineInv /\ FreshInv /\ DrawnInv /\ ShowsLast
  BY DEF IInv, DisplayInv
<1>2. UNCHANGED <<greeted, prev, lcd, deaf>>
  BY DEF display
<1>3. /\ line' \in Seq(Text) /\ asleep' \in BOOLEAN /\ sent' \in Text
      /\ LineInv'
      /\ \/ line' = line /\ sent' = sent /\ Len(text) # 2
         \/ line' # <<>> /\ line'[1] = IF line = <<>> THEN text ELSE line[1]
  BY <1>1, <1>2, SendFact
<1>4. FreshInv'
  <2>1. CASE line' = line /\ sent' = sent /\ Len(text) # 2
    <3>1. up
      BY <2>1, ZerosFact
    <3> QED BY <1>1, <1>2, <2>1, <3>1 DEF FreshInv
  <2>2. CASE line' # <<>> /\ line'[1] = IF line = <<>> THEN text ELSE line[1]
    BY <1>1, <1>2, <2>2 DEF FreshInv
  <2> QED BY <1>3, <2>1, <2>2
<1>5. DrawnInv'
  BY <1>1, <1>2 DEF DrawnInv
<1>6. ShowsLast'
  BY <1>1, <1>2, <1>3 DEF ShowsLast
<1> QED BY <1>3, <1>4, <1>5, <1>6 DEF DisplayInv

(* Steps that write and read nothing.                                      *)
LEMMA SilentKeeps ==
  ASSUME DisplayInv, UNCHANGED <<line, sent, display>>, up' => up
  PROVE  DisplayInv'
BY DEF DisplayInv, LineInv, FreshInv, DrawnInv, ShowsLast, display

LEMMA StartStep ==
  ASSUME IInv, Start
  PROVE  IInv'
<1>1. /\ up' = TRUE /\ ~up /\ starts < MaxStarts /\ starts' = starts + 1
      /\ lastSize' = 0 /\ counted' = 0
      /\ SendArduino(Zeros)
      /\ UNCHANGED <<joined, alive, listed, display>>
  BY MainFrameZero DEF Start
<1>2. line' \in Seq(Text) /\ asleep' \in BOOLEAN /\ sent' \in Text /\ DisplayInv'
  BY <1>1, ZerosFact, SendKeeps
<1>3. starts' \in 0..MaxStarts
  BY <1>1, DisplayAssumption DEF IInv, TypeOK
<1>4. TypeOK'
  BY <1>1, <1>2, <1>3, DisplayAssumption DEF IInv, TypeOK, display
<1> QED BY <1>2, <1>4 DEF IInv

LEMMA UpdateStep ==
  ASSUME IInv, Update
  PROVE  IInv'
<1> DEFINE n == Cardinality(listed')
<1>1. /\ up /\ listed' = listed \cap alive
      /\ UNCHANGED <<up, starts, joined, alive, display>>
  BY DEF Update, Running, Unexpired
<1>2. alive' \subseteq listed' /\ listed' \subseteq 1..joined' /\ joined \in 0..MaxClients
  BY <1>1 DEF IInv, TypeOK
<1>3. n \in 0..MaxClients
  <2>1. joined \in Nat /\ joined <= MaxClients /\ MaxClients \in Nat
    BY <1>2, DisplayAssumption
  <2>2. IsFiniteSet(1..joined) /\ Cardinality(1..joined) = joined
    BY <2>1, FS_Interval
  <2>3. listed' \in SUBSET (1..joined)
    BY <1>1, <1>2
  <2>4. IsFiniteSet(listed') /\ n <= joined
    BY <2>2, <2>3, FS_Subset
  <2>5. n \in Nat
    BY <2>4, FS_CardinalityType
  <2> HIDE DEF n
  <2> QED BY <2>1, <2>4, <2>5
<1>4. Cardinality(listed) \in Int
  <2>1. joined \in Nat /\ listed \in SUBSET (1..joined)
    BY <1>2, DisplayAssumption DEF IInv, TypeOK
  <2>2. IsFiniteSet(1..joined)
    BY <2>1, FS_Interval
  <2>3. IsFiniteSet(listed)
    BY <2>1, <2>2, FS_Subset
  <2> QED BY <2>3, FS_CardinalityType
<1>5. CASE lastSize' = Cardinality(listed) /\ SendArduino(MainFrame(n)) /\ counted' = n
  <2> DEFINE t == MainFrame(n)
  <2>1. t \in Text /\ Len(t) = 2
    <3> HIDE DEF n
    <3>1. n \in Nat
      BY <1>3, DisplayAssumption
    <3> QED BY <3>1, MainFrameFact
  <2>2. SendArduino(t)
    BY <1>5
  <2> HIDE DEF t, n
  <2>3. line' \in Seq(Text) /\ asleep' \in BOOLEAN /\ sent' \in Text /\ DisplayInv'
    BY <1>1, <2>1, <2>2, SendKeeps
  <2>4. TypeOK'
    BY <1>1, <1>2, <1>3, <1>4, <1>5, <2>3 DEF IInv, TypeOK, display
  <2> QED BY <2>3, <2>4 DEF IInv
<1>6. CASE UNCHANGED <<lastSize, line, asleep, sent, counted>>
  <2>1. DisplayInv'
    BY <1>1, <1>6, SilentKeeps DEF IInv
  <2>2. TypeOK'
    BY <1>1, <1>2, <1>6 DEF IInv, TypeOK, display
  <2> QED BY <2>1, <2>2 DEF IInv
<1> QED BY <1>5, <1>6 DEF Update

LEMMA AskStorageStep ==
  ASSUME IInv, NEW c \in alive, NEW p \in Percent, AskStorage(c, p)
  PROVE  IInv'
<1> DEFINE t == StorageFrame(c, p)
<1>1. up /\ SendArduino(t) /\ UNCHANGED <<server, display, counted>>
  BY DEF AskStorage, Running
<1>2. c \in Nat \ {0} /\ p \in Nat
  BY DisplayAssumption DEF IInv, TypeOK
<1>3. t \in Text /\ (Len(t) = 3 => Whole(t))
  BY <1>2, StorageFrameFact
<1> HIDE DEF t
<1>4. up'
  BY <1>1 DEF server
<1>5. line' \in Seq(Text) /\ asleep' \in BOOLEAN /\ sent' \in Text /\ DisplayInv'
  BY <1>1, <1>3, <1>4, SendKeeps
<1>6. TypeOK'
  BY <1>1, <1>5 DEF IInv, TypeOK, server, display
<1> QED BY <1>5, <1>6 DEF IInv

(* A connection comes or goes, the server stops or wakes.                  *)
LEMMA SilentStep ==
  ASSUME IInv, Stop \/ Join \/ Wake \/ \E c \in alive : Leave(c)
  PROVE  IInv'
<1>1. UNCHANGED <<line, sent, display>> /\ (up' => up)
  BY DEF Stop, Join, Wake, Leave, server, history
<1>2. DisplayInv'
  BY <1>1, SilentKeeps DEF IInv
<1>3. TypeOK'
  <2>1. CASE Stop
    <3>1. 0 \in 0..MaxClients /\ -1 \in Int
      BY DisplayAssumption
    <3>2. /\ up' = FALSE /\ asleep' = FALSE /\ joined' = 0 /\ lastSize' = -1
          /\ alive' = {} /\ listed' = {}
          /\ UNCHANGED <<starts, line, greeted, info, prev, lcd, deaf, sent, counted>>
      BY <2>1 DEF Stop, display, history
    <3>3. TypeOK
      BY DEF IInv
    <3> QED BY <3>1, <3>2, <3>3 DEF TypeOK
  <2>2. CASE Join
    <3>1. joined + 1 \in 0..MaxClients /\ 1..joined \cup {joined + 1} \subseteq 1..(joined + 1)
      BY <2>2, DisplayAssumption DEF Join, IInv, TypeOK
    <3> QED BY <2>2, <3>1 DEF Join, IInv, TypeOK, display, history
  <2>3. CASE Wake
    BY <2>3 DEF Wake, IInv, TypeOK, server, display, history
  <2>4. CASE \E c \in alive : Leave(c)
    BY <2>4 DEF Leave, IInv, TypeOK, display, history
  <2> QED BY <2>1, <2>2, <2>3, <2>4
<1> QED BY <1>2, <1>3 DEF IInv

-----------------------------------------------------------------------------
(* The sketch's steps. *)

LEMMA TailFact ==
  ASSUME NEW S, NEW s \in Seq(S), s # <<>>
  PROVE  /\ Head(s) = s[1] /\ s[1] \in S /\ Len(s) \in Nat \ {0}
         /\ Tail(s) \in Seq(S) /\ Len(Tail(s)) = Len(s) - 1
         /\ \A i \in 1..(Len(s) - 1) : Tail(s)[i] = s[i + 1]
BY HeadTailProperties

(* What is left of a message of three characters.                          *)
LEMMA RestFact ==
  ASSUME NEW text \in Text
  PROVE  /\ SubSeq(text, 3, Len(text)) \in Text
         /\ Len(text) = 3 => Len(SubSeq(text, 3, Len(text))) = 1
<1>1. Len(text) \in Nat /\ \A i \in 3..Len(text) : text[i] \in Char
  BY DEF Text
<1> DEFINE n == Len(text)
<1>2. n \in Int /\ \A i \in 3..n : text[i] \in Char
  BY <1>1
<1> HIDE DEF n
<1>3. /\ SubSeq(text, 3, n) \in Seq(Char)
      /\ Len(SubSeq(text, 3, n)) = IF 3 <= n THEN n - 3 + 1 ELSE 0
  BY <1>2, SubSeqProperties
<1>4. n = 3 => Len(SubSeq(text, 3, n)) = 1
  BY <1>3
<1> QED BY <1>3, <1>4 DEF n, Text

LEMMA GreetStep ==
  ASSUME IInv, Greet
  PROVE  IInv'
<1>1. /\ ~greeted /\ line # <<>> /\ greeted' = TRUE
      /\ line' = IF Len(Head(line)) = 2 THEN Tail(line)
                 ELSE <<SubSeq(Head(line), 3, Len(Head(line)))>> \o Tail(line)
      /\ UNCHANGED <<server, asleep, info, prev, lcd, deaf, history>>
  BY DEF Greet
<1>2. line \in Seq(Text) /\ LineInv /\ FreshInv /\ DrawnInv
  BY DEF IInv, DisplayInv, TypeOK
<1> DEFINE n == Len(line)
           t == Tail(line)
<1>3. /\ Head(line) = line[1] /\ line[1] \in Text /\ n \in Nat \ {0}
      /\ t \in Seq(Text) /\ Len(t) = n - 1
      /\ \A i \in 1..(n - 1) : t[i] = line[i + 1]
  BY <1>1, <1>2, TailFact
<1>4. Whole(line[1])
  <2>1. 1 \in 1..n
    BY <1>3
  <2> QED BY <1>1, <1>2, <2>1 DEF LineInv
<1>5. \A i \in 1..(n - 1) : Whole(line[i + 1])
  <2> TAKE i \in 1..(n - 1)
  <2>1. i + 1 \in 1..n /\ i + 1 # 1
    <3> HIDE DEF n
    <3> QED BY <1>3
  <2> QED BY <1>2, <2>1 DEF LineInv
<1>6. ~deaf => lcd = Count(Zeros) /\ line[1] = Zeros
  BY <1>1, <1>2 DEF FreshInv
<1>7. Len(line[n]) # 1 => line[n] = sent
  BY <1>1, <1>2 DEF LineInv
<1>8. DrawnInv' /\ FreshInv' /\ sent' = sent /\ lcd' = lcd /\ deaf' = deaf
  BY <1>1, <1>2 DEF DrawnInv, FreshInv, history
<1> HIDE DEF n, t
<1>9. CASE Len(line[1]) = 2
  <2>1. line' = t
    BY <1>1, <1>3, <1>9 DEF t
  <2>2. \A i \in 1..Len(line') : Whole(line'[i])
    BY <1>3, <1>5, <2>1
  <2>3. ASSUME line' # <<>>, Len(line'[Len(line')]) # 1
        PROVE  line'[Len(line')] = sent'
    <3>1. n - 1 \in 1..(n - 1) /\ (n - 1) + 1 = n
      <4>1. Len(t) # 0
        BY <1>3, <2>1, <2>3
      <4> QED BY <1>3, <4>1
    <3>2. t[n - 1] = line[n]
      BY <1>3, <3>1
    <3> QED BY <1>3, <1>7, <1>8, <2>1, <2>3, <3>2
  <2>4. LineInv'
    BY <2>2, <2>3 DEF LineInv
  <2>5. ShowsLast'
    <3> SUFFICES ASSUME line' = <<>>, ~deaf PROVE lcd = Drawn(sent)
      BY <1>8 DEF ShowsLast
    <3>1. n = 1
      <4>1. Len(t) = 0
        BY <2>1
      <4> QED BY <1>3, <4>1
    <3>2. sent = Zeros
      BY <1>6, <1>7, <1>9, <3>1
    <3> QED BY <1>6, <3>2, ZerosFact
  <2>6. TypeOK'
    BY <1>1, <1>3, <2>1 DEF IInv, TypeOK, server, history
  <2> QED BY <1>8, <2>4, <2>5, <2>6 DEF IInv, DisplayInv
<1>10. CASE Len(line[1]) = 3
  <2> DEFINE r == SubSeq(line[1], 3, Len(line[1]))
  <2>1. r \in Text /\ Len(r) = 1
    BY <1>3, <1>10, RestFact
  <2>2. line' = <<r>> \o t
    <3>1. Head(line) = line[1]
      BY <1>3
    <3>2. Len(Head(line)) # 2
      <4> HIDE DEF r
      <4> QED BY <1>10, <3>1
    <3> QED BY <1>1, <3>1, <3>2 DEF t
  <2>3. deaf
    BY <1>6, <1>10, ZerosFact
  <2> HIDE DEF r
  <2>4. <<r>> \in Seq(Text) /\ Len(<<r>>) = 1 /\ <<r>>[1] = r
    BY <2>1
  <2> DEFINE q == <<r>>
  <2> HIDE DEF q
  <2>5. /\ q \o t \in Seq(Text) /\ Len(q \o t) = Len(q) + Len(t)
        /\ \A i \in 1..(Len(q) + Len(t)) :
             (q \o t)[i] = IF i <= Len(q) THEN q[i] ELSE t[i - Len(q)]
    <3>1. q \in Seq(Text) /\ t \in Seq(Text)
      BY <1>3, <2>4 DEF q
    <3> QED BY <3>1, ConcatProperties
  <2>6. /\ line' \in Seq(Text) /\ Len(line') = n
        /\ \A i \in 1..n : line'[i] = IF i <= 1 THEN r ELSE t[i - 1]
    <3>1. Len(q) = 1 /\ q[1] = r /\ Len(q) + Len(t) = n /\ line' = q \o t
      BY <1>3, <2>2, <2>4 DEF q
    <3> QED BY <2>5, <3>1
  <2>7. line'[1] = r
    BY <1>3, <2>6
  <2>8. ASSUME NEW i \in 1..n, i # 1 PROVE line'[i] = line[i] /\ Whole(line[i])
    <3>1. i - 1 \in 1..(n - 1) /\ ~(i <= 1) /\ (i - 1) + 1 = i
      BY <1>3, <2>8
    <3>2. t[i - 1] = line[i] /\ Whole(line[i])
      BY <1>3, <1>5, <3>1
    <3> QED BY <2>6, <3>1, <3>2
  <2>9. LineInv'
    <3>1. ASSUME NEW i \in 1..Len(line')
          PROVE  Whole(line'[i]) \/ (i = 1 /\ Len(line'[1]) = 1 /\ greeted' /\ deaf')
      BY <1>1, <1>8, <2>1, <2>3, <2>6, <2>7, <2>8
    <3>2. Len(line'[Len(line')]) # 1 => line'[Len(line')] = sent'
      <4>1. CASE n = 1
        BY <2>1, <2>6, <2>7, <4>1
      <4>2. CASE n # 1
        <5>1. n \in 1..n
          BY <1>3
        <5>2. line'[n] = line[n]
          BY <2>8, <4>2, <5>1
        <5> QED BY <1>7, <1>8, <2>6, <5>2
      <4> QED BY <4>1, <4>2
    <3> QED BY <3>1, <3>2 DEF LineInv
  <2>10. ShowsLast'
    BY <1>8, <2>3 DEF ShowsLast
  <2>11. TypeOK'
    BY <1>1, <2>6 DEF IInv, TypeOK, server, history
  <2> QED BY <1>8, <2>9, <2>10, <2>11 DEF IInv, DisplayInv
<1> QED BY <1>4, <1>9, <1>10, WholeFact

(* Catch_connection and the drawing.                                       *)
LEMMA CatchFact ==
  ASSUME TypeOK, DrawnInv, NEW text \in Text, Catch(text)
  PROVE  /\ info' \in Text /\ prev' \in Text /\ lcd' \in [client : Nat, text : Text]
         /\ DrawnInv'
         /\ Whole(text) => lcd' \in {Drawn(text), WrongSerial}
         /\ Len(text) \notin {2, 3} => lcd' = WrongSerial
<1>1. /\ info \in Text /\ prev \in Text /\ lcd \in [client : Nat, text : Text]
      /\ Len(text) \in Nat
  BY DEF TypeOK, Text
<1>2. CASE text = prev /\ UNCHANGED <<info, prev, lcd>>
  <2>1. DrawnInv'
    BY <1>2 DEF DrawnInv
  <2>2. Whole(text) => lcd' \in {Drawn(text), WrongSerial}
    BY <1>2 DEF DrawnInv, Whole
  <2>3. Len(text) \in {2, 3}
    BY <1>2 DEF DrawnInv
  <2> QED BY <1>1, <1>2, <2>1, <2>2, <2>3
<1>3. CASE Len(text) = 2 /\ info' = text /\ prev' = text /\ lcd' = Count(text)
  <2>1. Drawn(text) = Count(text) /\ Count(text) \in [client : Nat, text : Text]
    BY <1>3 DEF Drawn, Count
  <2> QED BY <1>3, <2>1 DEF DrawnInv
<1>4. CASE /\ Len(text) = 3 /\ prev' = text /\ info' = info
           /\ lcd' = IF Digit(text[1]) = 0 THEN Count(info) ELSE Storage(text[1], Tail(text))
  <2>1. text[1] \in Nat /\ Tail(text) \in Text
    <3>1. text # <<>> /\ text \in Seq(Char)
      BY <1>4 DEF Text
    <3>2. text[1] \in Char /\ Tail(text) \in Seq(Char)
      BY <3>1, TailFact
    <3> QED BY <3>2, DisplayAssumption DEF Char, Text
  <2>2. lcd' \in [client : Nat, text : Text]
    BY <1>1, <1>4, <2>1 DEF Count, Storage
  <2>3. Digit(text[1]) # 0 => lcd' = Drawn(text)
    BY <1>4 DEF Drawn
  <2>4. Whole(text) => Digit(text[1]) # 0
    BY <1>4 DEF Whole
  <2>5. DrawnInv'
    BY <1>4, <2>3 DEF DrawnInv
  <2> QED BY <1>1, <1>4, <2>2, <2>3, <2>4, <2>5
<1>5. CASE Len(text) \notin {2, 3} /\ lcd' = WrongSerial /\ info' = info /\ prev' = prev
  <2>1. WrongSerial \in [client : Nat, text : Text]
    BY DEF WrongSerial, Text
  <2> QED BY <1>1, <1>5, <2>1 DEF DrawnInv, Whole
<1> QED BY <1>2, <1>3, <1>4, <1>5 DEF Catch, IsNews

LEMMA ReadStep ==
  ASSUME IInv, NEW k \in 1..Len(line), Read(k)
  PROVE  IInv'
<1> DEFINE n == Len(line)
           first == SubSeq(line, 1, k)
           text  == FlattenSeq(first)
<1>1. /\ greeted /\ Catch(text) /\ line' = SubSeq(line, k + 1, n)
      /\ deaf' = (deaf /\ (k > 1 \/ Len(Head(line)) = 1))
      /\ UNCHANGED <<server, asleep, greeted, history>>
  BY DEF Read
<1>2. line \in Seq(Text) /\ LineInv /\ DrawnInv /\ TypeOK
  BY DEF IInv, DisplayInv, TypeOK
<1>3. n \in Nat /\ k \in 1..n /\ \A i \in 1..n : line[i] \in Text
  BY <1>2
<1>4. line # <<>> /\ Head(line) = line[1]
  BY <1>2, <1>3
<1> HIDE DEF n
<1>5. first \in Seq(Text) /\ Len(first) = k /\ \A i \in 1..k : first[i] = line[i]
  <2>1. \A i \in 1..k : line[i] \in Text
    BY <1>3
  <2>2. /\ first \in Seq(Text) /\ Len(first) = IF 1 <= k THEN k - 1 + 1 ELSE 0
        /\ \A i \in 1..(k - 1 + 1) : first[i] = line[1 + i - 1]
    BY <1>3, <2>1, SubSeqProperties
  <2> HIDE DEF first
  <2>3. \A i \in 1..k : i \in 1..(k - 1 + 1) /\ 1 + i - 1 = i
    BY <1>3
  <2> QED BY <1>3, <2>2, <2>3
<1> HIDE DEF first
<1>6. /\ text \in Text
      /\ k = 1 => text = line[1]
      /\ k # 1 => Len(text) >= Len(line[1]) + Len(line[2])
  <2>1. first \in Seq(Seq(Char)) /\ Len(first) # 0
    BY <1>3, <1>5 DEF Text
  <2>2. /\ text \in Seq(Char)
        /\ Len(first) = 1 => text = first[1]
        /\ Len(first) # 1 => Len(text) >= Len(first[1]) + Len(first[2])
    BY <2>1, FlattenFact
  <2>3. first[1] = line[1] /\ (k # 1 => first[2] = line[2])
    BY <1>3, <1>5
  <2> QED BY <1>5, <2>2, <2>3 DEF Text
<1> HIDE DEF text
<1>7. /\ info' \in Text /\ prev' \in Text /\ lcd' \in [client : Nat, text : Text]
      /\ DrawnInv'
      /\ Whole(text) => lcd' \in {Drawn(text), WrongSerial}
      /\ Len(text) \notin {2, 3} => lcd' = WrongSerial
  BY <1>1, <1>2, <1>6, CatchFact
<1>8. /\ line' \in Seq(Text) /\ Len(line') = n - k
      /\ \A i \in 1..(n - k) : line'[i] = line[k + i]
  <2>1. k + 1 \in Int /\ n \in Int /\ \A i \in (k + 1)..n : line[i] \in Text
    BY <1>3
  <2> DEFINE a == k + 1
             s == SubSeq(line, a, n)
  <2>2. a \in Int
    BY <2>1
  <2> HIDE DEF a
  <2>3. /\ s \in Seq(Text) /\ Len(s) = IF a <= n THEN n - a + 1 ELSE 0
        /\ \A i \in 1..(n - a + 1) : s[i] = line[a + i - 1]
    BY <2>1, <2>2, SubSeqProperties DEF a
  <2> HIDE DEF s
  <2>4. Len(s) = n - k /\ n - a + 1 = n - k
    BY <1>3, <2>3 DEF a
  <2>5. \A i \in 1..(n - k) : a + i - 1 = k + i
    BY <1>3 DEF a
  <2> QED BY <1>1, <2>3, <2>4, <2>5 DEF s, a
<1>9. sent' = sent /\ greeted'
  BY <1>1 DEF history
<1>10. LineInv'
  <2>1. ASSUME NEW i \in 1..Len(line') PROVE Whole(line'[i])
    <3>1. i \in 1..(n - k) /\ k + i \in 1..n /\ k + i # 1
      BY <1>3, <1>8
    <3> QED BY <1>2, <1>8, <3>1 DEF LineInv, n
  <2>2. ASSUME line' # <<>> PROVE line'[Len(line')] = line[n]
    <3>1. n - k # 0
      <4>1. Len(line') # 0
        BY <1>8, <2>2
      <4> QED BY <1>8, <4>1
    <3>2. n - k \in 1..(n - k) /\ k + (n - k) = n
      BY <1>3, <3>1
    <3> QED BY <1>8, <3>2
  <2> QED BY <1>2, <1>4, <1>9, <2>1, <2>2 DEF LineInv, n
<1>11. ShowsLast'
  <2> SUFFICES ASSUME line' = <<>>, ~deaf' PROVE lcd' \in {Drawn(sent), WrongSerial}
    BY <1>9 DEF ShowsLast
  <2>1. k = n
    <3>1. Len(line') = 0
      OBVIOUS
    <3> QED BY <1>3, <1>8, <3>1
  <2>2. CASE k = 1
    <3>1. 1 \in 1..n /\ n = 1
      BY <2>1, <2>2
    <3>2. Whole(line[1])
      <4>1. Whole(line[1]) \/ (Len(line[1]) = 1 /\ deaf)
        BY <1>2, <3>1 DEF LineInv, n
      <4>2. ~(Len(line[1]) = 1 /\ deaf)
        BY <1>1, <1>4
      <4> QED BY <4>1, <4>2
    <3>3. line[1] = sent
      <4>1. Len(line[1]) # 1
        BY <3>2, WholeFact
      <4> QED BY <1>2, <1>4, <3>1, <4>1 DEF LineInv, n
    <3> QED BY <1>6, <1>7, <2>2, <3>2, <3>3
  <2>3. CASE k # 1
    <3>1. k > 1
      BY <1>3, <2>3
    <3>2. ~deaf
      BY <1>1, <3>1
    <3>3. 1 \in 1..n /\ 2 \in 1..n
      BY <1>3, <3>1
    <3>4. Whole(line[1]) /\ Whole(line[2])
      BY <1>2, <3>2, <3>3 DEF LineInv, n
    <3>5. Len(line[1]) \in {2, 3} /\ Len(line[2]) \in {2, 3}
      BY <3>4, WholeFact
    <3> DEFINE x == Len(text)
               y == Len(line[1])
               z == Len(line[2])
    <3>6. x >= y + z /\ y \in {2, 3} /\ z \in {2, 3} /\ x \in Nat
      <4>1. x \in Nat
        BY <1>6 DEF Text
      <4>2. x >= y + z
        BY <1>6, <2>3
      <4> QED BY <3>5, <4>1, <4>2
    <3> HIDE DEF x, y, z
    <3>7. x \notin {2, 3}
      BY <3>6
    <3> QED BY <1>7, <3>7 DEF x
  <2> QED BY <2>2, <2>3
<1>12. FreshInv'
  BY <1>9 DEF FreshInv
<1>13. TypeOK'
  <2>1. deaf' \in BOOLEAN
    BY <1>1 DEF IInv, TypeOK
  <2> QED BY <1>1, <1>2, <1>7, <1>8, <2>1 DEF TypeOK, server, history
<1> QED BY <1>7, <1>10, <1>11, <1>12, <1>13 DEF IInv, DisplayInv

LEMMA RestartStep ==
  ASSUME IInv, Restart
  PROVE  IInv'
<1>1. /\ greeted' = FALSE /\ info' = Zeros /\ prev' = Zeros /\ lcd' = Count(Zeros)
      /\ line' = <<>> /\ deaf' = TRUE
      /\ UNCHANGED <<server, asleep, history>>
  BY DEF Restart
<1>2. LineInv' /\ FreshInv' /\ ShowsLast'
  BY <1>1 DEF LineInv, FreshInv, ShowsLast
<1>3. DrawnInv'
  BY <1>1, ZerosFact DEF DrawnInv
<1>4. TypeOK'
  <2>1. Count(Zeros) \in [client : Nat, text : Text] /\ <<>> \in Seq(Text)
    BY ZerosFact DEF Count
  <2> QED BY <1>1, <2>1, ZerosFact DEF IInv, TypeOK, server, history
<1> QED BY <1>2, <1>3, <1>4 DEF IInv, DisplayInv

LEMMA InvStep ==
  ASSUME IInv, [Next]_vars
  PROVE  IInv'
<1>1. CASE UNCHANGED vars
  <2>1. UNCHANGED <<line, sent, display>> /\ (up' => up)
    BY <1>1 DEF vars, server, history
  <2>2. DisplayInv'
    BY <2>1, SilentKeeps DEF IInv
  <2>3. TypeOK'
    BY <1>1 DEF vars, server, display, history, IInv, TypeOK
  <2> QED BY <2>2, <2>3 DEF IInv
<1>2. CASE Next
  BY <1>2, StartStep, UpdateStep, AskStorageStep, SilentStep, GreetStep, ReadStep, RestartStep
     DEF Next, Sketch
<1> QED BY <1>1, <1>2

-----------------------------------------------------------------------------
(* The results. *)

(* The invariant holds of any number of clients, restarts and messages.    *)
THEOREM InvCorrect == Spec => []IInv
BY InvInit, InvStep, PTL DEF Spec

(* The variables keep their types; only connections that were accepted and *)
(* not yet found expired are counted.                                      *)
THEOREM TypeCorrect == Spec => []TypeOK
<1>1. IInv => TypeOK
  BY DEF IInv
<1> QED BY <1>1, InvCorrect, PTL

(* However messages are joined on the line, and whenever server or device  *)
(* is restarted: a display that has read all there is shows the last       *)
(* message or says that it cannot, but for one that was restarted and has  *)
(* read no message by itself since.                                        *)
THEOREM ShowsLastCorrect == Spec => []ShowsLast
<1>1. IInv => ShowsLast
  BY DEF IInv, DisplayInv
<1> QED BY <1>1, InvCorrect, PTL
===============================================================================
