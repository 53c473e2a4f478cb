--------------------------- MODULE StoreTablesProofs ---------------------------
(***************************************************************************)
(* Lemmas about the tables of StoreTables: what each operation returns and *)
(* which parts of a table it leaves alone.                                 *)
(*                                                                         *)
(* The provers cannot use the library's induction theorems, whose premises *)
(* are operators.  Where a lemma needs induction, on a finite set, it takes*)
(* a minimal counterexample from the well-founded order of strict subsets. *)
(***************************************************************************)
EXTENDS StoreTables, FiniteSetTheorems, SequenceTheorems, TLAPS

NameOf(B)      == [copy : Nat, base : B]
RecordOf(B, O) == [name : NameOf(B), users : Seq(O)]
StateOf(B, O)  == [name : NameOf(B), cnt : Nat, users : Seq(O)]
LineOf(B)      == [first : NameOf(B), second : NameOf(B)]

-----------------------------------------------------------------------------
(* Least and greatest elements. *)

(* Every finite set of integers that is not empty has a greatest element.  *)
LEMMA MaxExists ==
  ASSUME NEW S \in SUBSET Int, IsFiniteSet(S), S # {}
  PROVE  \E x \in S : \A y \in S : x >= y
<1> DEFINE HasMax(U) == \E x \in U : \A y \in U : x >= y
           Bad == {U \in FiniteSubsetsOf(S) : U # {} /\ ~HasMax(U)}
<1> SUFFICES ASSUME Bad # {} PROVE FALSE
  BY DEF FiniteSubsetsOf
<1>1. PICK U \in Bad : \A V \in Bad : <<V, U>> \notin StrictSubsetOrdering(S)
  <2>1. IsWellFoundedOn(StrictSubsetOrdering(S), FiniteSubsetsOf(S))
    BY FS_StrictSubsetOrderingWellFounded
  <2>2. Bad \subseteq FiniteSubsetsOf(S)
    OBVIOUS
  <2> HIDE DEF Bad
  <2> QED BY <2>1, <2>2, WFMin
<1>2. PICK x \in U : TRUE
  OBVIOUS
<1> DEFINE V == U \ {x}
<1>3. IsFiniteSet(V)
  BY FS_RemoveElement DEF FiniteSubsetsOf
<1>4. V \in FiniteSubsetsOf(S) /\ <<V, U>> \in StrictSubsetOrdering(S)
  BY <1>2, <1>3 DEF FiniteSubsetsOf, StrictSubsetOrdering
<1>5. V \notin Bad
  BY <1>1, <1>4
<1>6. CASE V = {}
  <2>1. U = {x} /\ x \in Int
    BY <1>2, <1>6 DEF FiniteSubsetsOf
  <2> QED BY <2>1
<1>7. CASE HasMax(V)
  <2>1. PICK z \in V : \A y \in V : z >= y
    BY <1>7
  <2>2. x \in Int /\ z \in Int /\ U \subseteq Int
    BY <1>2, <2>1 DEF FiniteSubsetsOf
  <2>3. CASE x >= z
    BY <2>1, <2>2, <2>3
  <2>4. CASE z >= x
    BY <2>1, <2>2, <2>4
  <2> QED BY <2>2, <2>3, <2>4
<1> QED BY <1>4, <1>5, <1>6, <1>7

(* Max of such a set is in it and bounds it.                               *)
LEMMA MaxFact ==
  ASSUME NEW S \in SUBSET Int, IsFiniteSet(S), S # {}
  PROVE  Max(S) \in S /\ \A y \in S : Max(S) >= y
BY MaxExists DEF Max

(* Min of a set of naturals that is not empty, finite or not.              *)
LEMMA MinFact ==
  ASSUME NEW S \in SUBSET Nat, S # {}
  PROVE  Min(S) \in S /\ \A y \in S : Min(S) =< y
<1>1. PICK s \in S : TRUE
  OBVIOUS
<1> DEFINE T == {y \in S : y =< s}
           N == {i \in (-s)..0 : -i \in T}
<1>2. IsFiniteSet(N)
  <2>1. IsFiniteSet((-s)..0)
    BY FS_Interval
  <2> QED BY <2>1, FS_Subset
<1>3. N \in SUBSET Int /\ -s \in N
  OBVIOUS
<1> HIDE DEF N
<1>4. PICK m \in N : \A y \in N : m >= y
  BY <1>2, <1>3, MaxExists
<1> USE DEF N
<1>5. -m \in S
  BY <1>4
<1>6. ASSUME NEW y \in S PROVE -m =< y
  <2>1. CASE y =< s
    <3>1. -y \in N
      BY <2>1
    <3> QED BY <1>4, <3>1
  <2>2. CASE ~(y =< s)
    BY <1>4, <2>2
  <2> QED BY <2>1, <2>2
<1>7. \E x \in S : \A y \in S : x =< y
  BY <1>5, <1>6
<1> QED BY <1>7 DEF Min

-----------------------------------------------------------------------------
(* What the operations return. *)

LEMMA FirstNamedFact ==
  ASSUME NEW S, NEW all \in Seq(S), NEW n, Named(all, n) # {}
  PROVE  FirstNamed(all, n) \in DOMAIN all /\ all[FirstNamed(all, n)].name = n
<1>1. Named(all, n) \in SUBSET Nat
  BY DEF Named
<1>2. Min(Named(all, n)) \in Named(all, n)
  BY <1>1, MinFact
<1> QED BY <1>2 DEF FirstNamed, Named

(* The counters of the records of one name form a finite set.              *)
LEMMA CountersFinite ==
  ASSUME NEW S, NEW all \in Seq(S), NEW n
  PROVE  IsFiniteSet({all[i].cnt : i \in Named(all, n)})
<1> DEFINE N == Named(all, n)
           C == {all[i].cnt : i \in N}
           f == [i \in N |-> all[i].cnt]
<1>1. IsFiniteSet(N)
  <2>1. N \in SUBSET (1..Len(all)) /\ Len(all) \in Nat
    BY DEF Named
  <2>2. IsFiniteSet(1..Len(all))
    BY <2>1, FS_Interval
  <2> QED BY <2>1, <2>2, FS_Subset
<1>2. f \in Surjection(N, C)
  BY DEF Surjection
<1> HIDE DEF f, N, C
<1>3. IsFiniteSet(C)
  BY <1>1, <1>2, FS_Surjection
<1> QED BY <1>3 DEF C, N

(* name_compare numbers a copy above every record of its name in memory.   *)
LEMMA ServerNameFact ==
  ASSUME NEW B, NEW O, NEW all \in Seq(StateOf(B, O)), NEW n \in NameOf(B)
  PROVE  /\ ServerName(all, n) \in NameOf(B)
         /\ ServerName(all, n).base = n.base
         /\ Named(all, n) = {} => ServerName(all, n) = n
         /\ \A i \in Named(all, n) : ServerName(all, n).copy > all[i].cnt
<1>1. CASE Named(all, n) = {}
  BY <1>1 DEF ServerName, NameOf
<1>2. CASE Named(all, n) # {}
  <2> DEFINE C == {all[i].cnt : i \in Named(all, n)}
  <2>1. C \in SUBSET Nat /\ C # {}
    <3>1. \A i \in Named(all, n) : all[i] \in StateOf(B, O)
      BY DEF Named
    <3> QED BY <1>2, <3>1 DEF StateOf
  <2>2. IsFiniteSet(C)
    BY CountersFinite
  <2>3. C \in SUBSET Int
    BY <2>1
  <2> HIDE DEF C
  <2>4. Max(C) \in C /\ \A y \in C : Max(C) >= y
    BY <2>1, <2>2, <2>3, MaxFact
  <2>5. ServerName(all, n) = [copy |-> Max(C) + 1, base |-> n.base]
    BY <1>2 DEF ServerName, C
  <2>6. Max(C) \in Nat
    BY <2>1, <2>4
  <2>7. \A i \in Named(all, n) : all[i].cnt \in C /\ all[i].cnt \in Nat
    BY <2>1 DEF C
  <2>8. /\ ServerName(all, n) \in NameOf(B)
        /\ ServerName(all, n).base = n.base
        /\ ServerName(all, n).copy = Max(C) + 1
    BY <2>5, <2>6 DEF NameOf
  <2>9. \A i \in Named(all, n) : Max(C) + 1 > all[i].cnt
    BY <2>4, <2>6, <2>7
  <2> QED BY <1>2, <2>8, <2>9
<1> QED BY <1>1, <1>2

LEMMA NewRecordType ==
  ASSUME NEW B, NEW O, NEW all \in Seq(StateOf(B, O)), NEW n \in NameOf(B), NEW u \in O
  PROVE  /\ NewRecord(all, n, u) \in StateOf(B, O)
         /\ NewRecord(all, n, u).name = ServerName(all, n)
         /\ NewRecord(all, n, u).users = <<u>>
<1>1. ServerName(all, n) \in NameOf(B)
  BY ServerNameFact
<1>2. <<u>> \in Seq(O)
  OBVIOUS
<1> QED BY <1>1, <1>2 DEF NewRecord, StateOf, NameOf

LEMMA WriteDbType ==
  ASSUME NEW B, NEW O, NEW all \in Seq(StateOf(B, O))
  PROVE  /\ WriteDb(all) \in Seq(RecordOf(B, O))
         /\ Len(WriteDb(all)) = Len(all)
         /\ \A i \in DOMAIN all : WriteDb(all)[i] = [name |-> all[i].name, users |-> all[i].users]
<1> DEFINE e(i) == [name |-> all[i].name, users |-> all[i].users]
<1>1. Len(all) \in Nat /\ DOMAIN all = 1..Len(all)
  OBVIOUS
<1>2. ASSUME NEW i \in 1..Len(all) PROVE e(i) \in RecordOf(B, O)
  <2>1. all[i] \in StateOf(B, O)
    OBVIOUS
  <2> QED BY <2>1 DEF StateOf, RecordOf
<1>3. WriteDb(all) = [i \in 1..Len(all) |-> e(i)]
  BY <1>1 DEF WriteDb
<1> HIDE DEF e
<1>4. WriteDb(all) \in [1..Len(all) -> RecordOf(B, O)]
  BY <1>2, <1>3
<1>5. WriteDb(all) \in Seq(RecordOf(B, O)) /\ Len(WriteDb(all)) = Len(all)
  BY <1>1, <1>4
<1> QED BY <1>1, <1>3, <1>5 DEF e

(* The k-th line keeps its file and its own name, whatever its number.     *)
LEMMA RenumberFact ==
  ASSUME NEW B, NEW lines \in Seq(LineOf(B))
  PROVE  /\ Renumber(lines) \in Seq(LineOf(B))
         /\ Len(Renumber(lines)) = Len(lines)
         /\ \A i \in 1..Len(lines) : Renumber(lines)[i].first = lines[i].first
<1> DEFINE Earlier(i) == {j \in 1..(i - 1) : lines[j].first.base = lines[i].first.base}
           e(i) == IF Earlier(i) = {} THEN lines[i]
                   ELSE [lines[i] EXCEPT !.second.copy = Cardinality(Earlier(i))]
<1>1. Len(lines) \in Nat /\ DOMAIN lines = 1..Len(lines)
  OBVIOUS
<1>2. ASSUME NEW i \in 1..Len(lines)
      PROVE  e(i) \in LineOf(B) /\ e(i).first = lines[i].first
  <2>1. lines[i] \in LineOf(B)
    OBVIOUS
  <2>2. lines[i].first \in NameOf(B) /\ lines[i].second \in NameOf(B)
    BY <2>1 DEF LineOf
  <2>3. Cardinality(Earlier(i)) \in Nat
    <3>1. IsFiniteSet(1..(i - 1))
      BY <1>1, FS_Interval
    <3>2. Earlier(i) \in SUBSET (1..(i - 1))
      OBVIOUS
    <3> HIDE DEF Earlier
    <3>3. IsFiniteSet(Earlier(i))
      BY <3>1, <3>2, FS_Subset
    <3> QED BY <3>3, FS_CardinalityType
  <2> HIDE DEF Earlier
  <2>4. [lines[i] EXCEPT !.second.copy = Cardinality(Earlier(i))]
          = [first |-> lines[i].first,
             second |-> [copy |-> Cardinality(Earlier(i)), base |-> lines[i].second.base]]
    BY <2>1, <2>2 DEF LineOf, NameOf
  <2>5. CASE Earlier(i) = {}
    BY <2>1, <2>5
  <2>6. CASE Earlier(i) # {}
    BY <2>2, <2>3, <2>4, <2>6 DEF LineOf, NameOf
  <2> QED BY <2>5, <2>6
<1>3. Renumber(lines) = [i \in 1..Len(lines) |-> e(i)]
  BY <1>1 DEF Renumber
<1> HIDE DEF e
<1>4. Renumber(lines) \in [1..Len(lines) -> LineOf(B)]
  BY <1>2, <1>3
<1>5. Renumber(lines) \in Seq(LineOf(B)) /\ Len(Renumber(lines)) = Len(lines)
  BY <1>1, <1>4
<1> QED BY <1>2, <1>3, <1>5

LEMMA RemoveAtFact ==
  ASSUME NEW S, NEW s \in Seq(S), NEW i \in 1..Len(s)
  PROVE  /\ RemoveAt(s, i) \in Seq(S)
         /\ Len(RemoveAt(s, i)) = Len(s) - 1
         /\ \A j \in 1..(Len(s) - 1) : RemoveAt(s, i)[j] = IF j < i THEN s[j] ELSE s[j + 1]
<1> DEFINE a == SubSeq(s, 1, i - 1)
           b == SubSeq(s, i + 1, Len(s))
<1>1. /\ a \in Seq(S) /\ Len(a) = i - 1
      /\ \A j \in 1..(i - 1) : a[j] = s[j]
  OBVIOUS
<1>2. /\ b \in Seq(S) /\ Len(b) = Len(s) - i
      /\ \A j \in 1..(Len(s) - i) : b[j] = s[i + j]
  OBVIOUS
<1> HIDE DEF a, b
<1>3. /\ a \o b \in Seq(S)
      /\ Len(a \o b) = Len(s) - 1
      /\ \A j \in 1..(Len(s) - 1) : (a \o b)[j] = IF j < i THEN a[j] ELSE b[j - (i - 1)]
  <2>1. /\ a \o b \in Seq(S)
        /\ Len(a \o b) = Len(a) + Len(b)
        /\ \A j \in 1..(Len(a) + Len(b)) :
             (a \o b)[j] = IF j <= Len(a) THEN a[j] ELSE b[j - Len(a)]
    BY <1>1, <1>2, ConcatProperties
  <2>2. Len(s) \in Nat /\ i \in Int /\ Len(a) + Len(b) = Len(s) - 1
    BY <1>1, <1>2
  <2>3. ASSUME NEW j \in 1..(Len(s) - 1)
        PROVE  (a \o b)[j] = IF j < i THEN a[j] ELSE b[j - (i - 1)]
    BY <1>1, <2>1, <2>2
  <2> QED BY <2>1, <2>2, <2>3
<1>4. \A j \in 1..(Len(s) - 1) : (a \o b)[j] = IF j < i THEN s[j] ELSE s[j + 1]
  <2> SUFFICES ASSUME NEW j \in 1..(Len(s) - 1)
               PROVE  (a \o b)[j] = IF j < i THEN s[j] ELSE s[j + 1]
    OBVIOUS
  <2>1. CASE j < i
    BY <1>1, <1>3, <2>1
  <2>2. CASE ~(j < i)
    <3>1. j - (i - 1) \in 1..(Len(s) - i) /\ i + (j - (i - 1)) = j + 1
      BY <2>2
    <3> QED BY <1>2, <1>3, <2>2, <3>1
  <2> QED BY <2>1, <2>2
<1> QED BY <1>3, <1>4 DEF RemoveAt, a, b

(* The first occurrence goes.                                              *)
LEMMA RemoveFirstFact ==
  ASSUME NEW S, NEW s \in Seq(S), NEW e
  PROVE  \/ e \notin ToSet(s) /\ RemoveFirst(s, e) = s
         \/ \E i \in 1..Len(s) : /\ s[i] = e
                                 /\ \A j \in 1..(i - 1) : s[j] # e
                                 /\ RemoveFirst(s, e) = RemoveAt(s, i)
<1> DEFINE I == {i \in 1..Len(s) : s[i] = e}
<1>1. CASE I = {}
  <2>1. e \notin ToSet(s)
    BY <1>1 DEF ToSet
  <2>2. RemoveFirst(s, e) = s
    BY <1>1 DEF RemoveFirst
  <2> QED BY <2>1, <2>2
<1>2. CASE I # {}
  <2>1. Min(I) \in I /\ \A j \in I : Min(I) =< j
    <3>1. I \in SUBSET Nat
      OBVIOUS
    <3> HIDE DEF I
    <3> QED BY <1>2, <3>1, MinFact
  <2>2. SelectInSeq(s, LAMBDA v : v = e) = Min(I)
    BY <1>2 DEF SelectInSeq
  <2>3. RemoveFirst(s, e) = RemoveAt(s, Min(I))
    BY <1>2, <2>2 DEF RemoveFirst
  <2>4. \A j \in 1..(Min(I) - 1) : s[j] # e
    BY <2>1
  <2> QED BY <2>1, <2>3, <2>4
<1> QED BY <1>1, <1>2

LEMMA RemoveFirstType ==
  ASSUME NEW S, NEW s \in Seq(S), NEW e
  PROVE  RemoveFirst(s, e) \in Seq(S)
BY RemoveFirstFact, RemoveAtFact

LEMMA DropLineFact ==
  ASSUME NEW B, NEW lines \in Seq(LineOf(B)), NEW s
  PROVE  \/ /\ \A i \in 1..Len(lines) : lines[i].first # s
            /\ DropLine(lines, s) = lines
         \/ \E i \in 1..Len(lines) : /\ lines[i].first = s
                                     /\ \A j \in 1..(i - 1) : lines[j].first # s
                                     /\ DropLine(lines, s) = RemoveAt(lines, i)
<1> DEFINE I == {i \in 1..Len(lines) : lines[i].first = s}
<1>1. LinesFor(lines, s) = I
  BY DEF LinesFor
<1>2. CASE I = {}
  BY <1>1, <1>2 DEF DropLine
<1>3. CASE I # {}
  <2>1. Min(I) \in I /\ \A j \in I : Min(I) =< j
    <3>1. I \in SUBSET Nat
      OBVIOUS
    <3> HIDE DEF I
    <3> QED BY <1>3, <3>1, MinFact
  <2>2. DropLine(lines, s) = RemoveAt(lines, Min(I))
    BY <1>1, <1>3 DEF DropLine
  <2>3. \A j \in 1..(Min(I) - 1) : lines[j].first # s
    BY <2>1
  <2> QED BY <2>1, <2>2, <2>3
<1> QED BY <1>2, <1>3

LEMMA DropLineType ==
  ASSUME NEW B, NEW lines \in Seq(LineOf(B)), NEW s
  PROVE  DropLine(lines, s) \in Seq(LineOf(B))
BY DropLineFact, RemoveAtFact

LEMMA AppendFact ==
  ASSUME NEW S, NEW s \in Seq(S), NEW x \in S
  PROVE  /\ Append(s, x) \in Seq(S) /\ Append(s, x) # <<>>
         /\ Front(Append(s, x)) = s /\ Last(Append(s, x)) = x
BY DEF Front, Last

LEMMA AppendPlaces ==
  ASSUME NEW S, NEW s \in Seq(S), NEW x \in S
  PROVE  \A i \in DOMAIN Append(s, x) :
           Append(s, x)[i] = x \/ (i \in DOMAIN s /\ Append(s, x)[i] = s[i])
<1>1. /\ DOMAIN Append(s, x) = 1..(Len(s) + 1)
      /\ Append(s, x)[Len(s) + 1] = x
      /\ \A i \in 1..Len(s) : Append(s, x)[i] = s[i]
  BY AppendProperties, LenProperties
<1>2. Len(s) \in Nat /\ DOMAIN s = 1..Len(s)
  OBVIOUS
<1>3. \A i \in 1..(Len(s) + 1) : i = Len(s) + 1 \/ i \in 1..Len(s)
  BY <1>2
<1> QED BY <1>1, <1>2, <1>3

LEMMA FrontLastFact ==
  ASSUME NEW S, NEW s \in Seq(S)
  PROVE  /\ Front(s) \in Seq(S)
         /\ s # <<>> => /\ Last(s) \in S
                        /\ Len(Front(s)) = Len(s) - 1
                        /\ Last(s) = s[Len(s)]
         /\ \A i \in DOMAIN Front(s) : i \in DOMAIN s /\ Front(s)[i] = s[i]
<1>1. CASE s = <<>>
  <2>1. Front(s) = <<>>
    BY <1>1 DEF Front
  <2> QED BY <1>1, <2>1
<1>2. CASE s # <<>>
  <2>1. Len(s) \in Nat \ {0}
    BY <1>2, EmptySeq
  <2>2. /\ Front(s) \in Seq(S) /\ Len(Front(s)) = Len(s) - 1
        /\ \A i \in 1..(Len(s) - 1) : Front(s)[i] = s[i]
    <3> DEFINE n == Len(s) - 1
    <3>1. n \in Nat /\ 1 \in Int /\ \A i \in 1..n : s[i] \in S
      BY <2>1
    <3>2. /\ SubSeq(s, 1, n) \in Seq(S)
          /\ Len(SubSeq(s, 1, n)) = IF 1 <= n THEN n - 1 + 1 ELSE 0
          /\ \A i \in 1..(n - 1 + 1) : SubSeq(s, 1, n)[i] = s[1 + i - 1]
      BY <3>1, SubSeqProperties
    <3>3. n - 1 + 1 = n /\ \A i \in 1..n : 1 + i - 1 = i
      BY <3>1
    <3>4. Len(SubSeq(s, 1, n)) = n
      <4> HIDE DEF n
      <4>1. CASE n = 0
        BY <3>2, <4>1
      <4>2. CASE 1 <= n
        BY <3>2, <3>3, <4>2
      <4> QED BY <3>1, <4>1, <4>2
    <3>5. \A i \in 1..n : SubSeq(s, 1, n)[i] = s[i]
      BY <3>2, <3>3
    <3> QED BY <3>2, <3>4, <3>5 DEF Front
  <2>3. DOMAIN Front(s) = 1..(Len(s) - 1) /\ DOMAIN s = 1..Len(s)
    BY <2>1, <2>2
  <2>4. Last(s) = s[Len(s)] /\ Last(s) \in S
    BY <2>1 DEF Last
  <2> QED BY <2>1, <2>2, <2>3, <2>4
<1> QED BY <1>1, <1>2

(* What a file cut short holds is the beginning of what was to be written. *)
LEMMA PrefixFact ==
  ASSUME NEW S, NEW s \in Seq(S), NEW p \in Prefixes(s)
  PROVE  p \in Seq(S) /\ \A i \in DOMAIN p : i \in DOMAIN s /\ p[i] = s[i]
<1>1. PICK k \in 0..Len(s) : p = SubSeq(s, 1, k)
  BY DEF Prefixes
<1>2. \A i \in 1..k : i \in DOMAIN s /\ s[i] \in S
  OBVIOUS
<1>3. /\ SubSeq(s, 1, k) \in Seq(S)
      /\ Len(SubSeq(s, 1, k)) = (IF 1 <= k THEN k - 1 + 1 ELSE 0)
      /\ \A i \in 1..(k - 1 + 1) : SubSeq(s, 1, k)[i] = s[1 + i - 1]
  BY <1>2, SubSeqProperties
<1>4. p \in Seq(S) /\ Len(p) = k /\ \A i \in 1..k : p[i] = s[i]
  BY <1>1, <1>3
<1> QED BY <1>2, <1>4

LEMMA WholePrefix ==
  ASSUME NEW S, NEW s \in Seq(S)
  PROVE  s \in Prefixes(s)
<1> DEFINE t == SubSeq(s, 1, Len(s))
<1>1. Len(s) \in Nat /\ \A i \in 1..Len(s) : s[i] \in S
  OBVIOUS
<1>2. /\ t \in Seq(S) /\ Len(t) = (IF 1 <= Len(s) THEN Len(s) - 1 + 1 ELSE 0)
      /\ \A i \in 1..(Len(s) - 1 + 1) : t[i] = s[1 + i - 1]
  BY <1>1, SubSeqProperties
<1> HIDE DEF t
<1>3. Len(t) = Len(s) /\ \A i \in 1..Len(s) : t[i] = s[i]
  BY <1>1, <1>2
<1>4. t = s
  BY <1>2, <1>3, SeqEqual
<1>5. SubSeq(s, 1, Len(s)) \in Prefixes(s)
  <2>1. Len(s) \in 0..Len(s)
    BY <1>1
  <2> QED BY <2>1, Zenon DEF Prefixes
<1> QED BY <1>4, <1>5 DEF t

-----------------------------------------------------------------------------
(* The lines of files_db.txt. *)

(* getline misses at most the last line, an empty one.                     *)
LEMMA LinesReadFact ==
  ASSUME NEW S, NEW d \in Seq(S)
  PROVE  /\ LinesRead(d) \in Seq(S)
         /\ \A i \in DOMAIN LinesRead(d) : i \in DOMAIN d
         /\ \A i \in DOMAIN d : d[i] # Blank => i \in DOMAIN LinesRead(d)
<1>1. CASE d # <<>> /\ Last(d) = Blank
  <2>1. /\ Front(d) \in Seq(S) /\ Len(Front(d)) = Len(d) - 1 /\ Last(d) = d[Len(d)]
        /\ \A i \in DOMAIN Front(d) : i \in DOMAIN d
    BY <1>1, FrontLastFact
  <2>2. /\ DOMAIN d = 1..Len(d) /\ Len(d) \in Nat
        /\ DOMAIN Front(d) = 1..(Len(d) - 1)
    BY <2>1
  <2>3. ASSUME NEW i \in DOMAIN d, d[i] # Blank PROVE i \in DOMAIN Front(d)
    <3>1. i # Len(d)
      BY <1>1, <2>1, <2>3
    <3> QED BY <2>2, <3>1
  <2>4. LinesRead(d) = Front(d)
    BY <1>1 DEF LinesRead
  <2> QED BY <2>1, <2>3, <2>4
<1>2. CASE ~(d # <<>> /\ Last(d) = Blank)
  <2>1. LinesRead(d) = d
    BY <1>2 DEF LinesRead
  <2> QED BY <2>1
<1> QED BY <1>1, <1>2

(* read_db keeps the lines in their places, with their users.  A line with *)
(* users becomes a record of the plain name, any other one without a name. *)
LEMMA ReadDbType ==
  ASSUME NEW B, NoName \in B, NEW O, NEW d \in Seq(RecordOf(B, O))
  PROVE  /\ ReadDb(d) \in Seq(StateOf(B, O))
         /\ \A i \in DOMAIN ReadDb(d) :
              /\ i \in DOMAIN d /\ ReadDb(d)[i].users = d[i].users
              /\ ReadDb(d)[i].cnt = d[i].name.copy
              /\ ReadDb(d)[i].name =
                   IF d[i].users = <<>> THEN Nameless ELSE Plain(d[i].name.base)
         /\ \A i \in DOMAIN d : d[i].users # <<>> => i \in DOMAIN ReadDb(d)
<1> DEFINE r == LinesRead(d)
           e(i) == [name  |-> IF d[i].users = <<>> THEN Nameless ELSE Plain(d[i].name.base),
                    cnt   |-> d[i].name.copy,
                    users |-> d[i].users]
<1>1. /\ r \in Seq(RecordOf(B, O)) /\ \A i \in DOMAIN r : i \in DOMAIN d
      /\ \A i \in DOMAIN d : d[i] # Blank => i \in DOMAIN r
  BY LinesReadFact
<1>2. ASSUME NEW i \in DOMAIN d PROVE e(i) \in StateOf(B, O)
  <2>1. d[i].name \in NameOf(B) /\ d[i].users \in Seq(O)
    <3>1. d[i] \in RecordOf(B, O)
      OBVIOUS
    <3> QED BY <3>1 DEF RecordOf
  <2>2. Plain(d[i].name.base) \in NameOf(B) /\ d[i].name.copy \in Nat /\ Nameless \in NameOf(B)
    BY <2>1 DEF NameOf, Plain, Nameless
  <2> QED BY <2>1, <2>2 DEF StateOf
<1> HIDE DEF r
<1>3. Len(r) \in Nat /\ DOMAIN r = 1..Len(r)
  BY <1>1
<1>4. ReadDb(d) = [i \in 1..Len(r) |-> e(i)]
  BY <1>3 DEF ReadDb, r
<1>5. \A i \in 1..Len(r) : e(i) \in StateOf(B, O)
  BY <1>1, <1>2, <1>3
<1>6. \A i \in DOMAIN d : d[i].users # <<>> => d[i] # Blank
  BY DEF Blank
<1>7. ReadDb(d) \in Seq(StateOf(B, O)) /\ DOMAIN ReadDb(d) = DOMAIN r
  <2> HIDE DEF e
  <2>1. ReadDb(d) \in [1..Len(r) -> StateOf(B, O)]
    BY <1>4, <1>5
  <2> QED BY <1>3, <1>4, <2>1
<1> QED BY <1>1, <1>3, <1>4, <1>6, <1>7

(* A line that the writer may have been killed in.                         *)
LEMMA TornLineFact ==
  ASSUME NEW B, NoName \in B, NEW O, NEW l \in RecordOf(B, O), NEW t \in TornLine(l)
  PROVE  /\ t \in RecordOf(B, O)
         /\ t.name = Nameless \/ t.name = l.name
         /\ OwnersOnce(l.users) => OwnersOnce(t.users)
<1>1. l.name \in NameOf(B) /\ l.users \in Seq(O)
  BY DEF RecordOf
<1>2. CASE t = Blank
  <2>1. Blank.name = Nameless /\ Blank.users = <<>> /\ Nameless \in NameOf(B) /\ <<>> \in Seq(O)
    BY DEF Blank, Nameless, Plain, NameOf
  <2>2. Blank \in RecordOf(B, O)
    BY <2>1 DEF Blank, RecordOf
  <2>3. OwnersOnce(<<>>)
    BY DEF OwnersOnce, IsInjective
  <2> QED BY <1>2, <2>1, <2>2, <2>3
<1>3. ASSUME NEW part \in Prefixes(l.users), t = [l EXCEPT !.users = part]
      PROVE  /\ t \in RecordOf(B, O) /\ t.name = l.name
             /\ OwnersOnce(l.users) => OwnersOnce(t.users)
  <2>1. /\ part \in Seq(O)
        /\ \A i \in DOMAIN part : i \in DOMAIN l.users /\ part[i] = l.users[i]
    BY <1>1, PrefixFact
  <2>2. t \in RecordOf(B, O) /\ t.name = l.name /\ t.users = part
    BY <1>3, <2>1 DEF RecordOf
  <2>3. OwnersOnce(l.users) => OwnersOnce(part)
    BY <2>1 DEF OwnersOnce, IsInjective
  <2> QED BY <2>2, <2>3
<1> QED BY <1>2, <1>3 DEF TornLine

(* A table cut short has lines of the whole one, the last of them perhaps  *)
(* cut short.                                                              *)
LEMMA TornFact ==
  ASSUME NEW B, NoName \in B, NEW O, NEW d \in Seq(RecordOf(B, O)), NEW t \in Torn(d)
  PROVE  /\ t \in Seq(RecordOf(B, O))
         /\ \A i \in DOMAIN t : i \in DOMAIN d /\ t[i] \in TornLine(d[i])
<1>0. PICK k \in DOMAIN d : t \in {Append(SubSeq(d, 1, k - 1), l) : l \in TornLine(d[k])}
  BY DEF Torn
<1>1. PICK l \in TornLine(d[k]) : t = Append(SubSeq(d, 1, k - 1), l)
  BY <1>0
<1>2. k \in 1..Len(d) /\ Len(d) \in Nat /\ DOMAIN d = 1..Len(d)
  OBVIOUS
<1>3. \A i \in DOMAIN d : d[i] \in RecordOf(B, O)
  OBVIOUS
<1> DEFINE h == SubSeq(d, 1, k - 1)
<1>4. /\ h \in Seq(RecordOf(B, O)) /\ Len(h) = k - 1
      /\ \A i \in 1..(k - 1) : h[i] = d[i]
  <2>1. /\ h \in Seq(RecordOf(B, O))
        /\ Len(h) = (IF 1 <= k - 1 THEN k - 1 - 1 + 1 ELSE 0)
        /\ \A i \in 1..(k - 1 - 1 + 1) : h[i] = d[1 + i - 1]
    BY <1>2, <1>3, SubSeqProperties
  <2> QED BY <1>2, <2>1
<1>5. l \in RecordOf(B, O)
  BY <1>3, TornLineFact
<1> HIDE DEF h
<1>6. /\ t \in Seq(RecordOf(B, O)) /\ DOMAIN t = 1..k /\ t[k] = l
      /\ \A i \in 1..(k - 1) : t[i] = d[i]
  <2>1. t = Append(h, l)
    BY <1>1 DEF h
  <2>2. /\ Append(h, l) \in Seq(RecordOf(B, O)) /\ Len(Append(h, l)) = Len(h) + 1
        /\ Append(h, l)[Len(h) + 1] = l
        /\ \A i \in 1..Len(h) : Append(h, l)[i] = h[i]
    BY <1>4, <1>5, AppendProperties
  <2>3. Len(h) + 1 = k
    BY <1>2, <1>4
  <2> QED BY <1>2, <1>4, <2>1, <2>2, <2>3
<1>7. \A i \in DOMAIN d : d[i] \in TornLine(d[i])
  <2> SUFFICES ASSUME NEW i \in DOMAIN d PROVE d[i] \in TornLine(d[i])
    OBVIOUS
  <2>1. d[i].users \in Seq(O) /\ d[i] = [d[i] EXCEPT !.users = d[i].users]
    BY <1>3 DEF RecordOf
  <2>2. d[i].users \in Prefixes(d[i].users)
    BY <2>1, WholePrefix
  <2> QED BY <2>1, <2>2 DEF TornLine
<1> QED BY <1>1, <1>2, <1>6, <1>7

(* A part written at an offset of the file or beyond its end.              *)
LEMMA WriteAtType ==
  ASSUME NEW S, NEW content \in Seq(S), NEW pos \in Nat, NEW v \in S, NEW zero \in S
  PROVE  WriteAt(content, pos, v, zero) \in Seq(S)
<1> DEFINE N == {Len(content), pos + 1}
           e(i) == IF i = pos + 1 THEN v ELSE IF i <= Len(content) THEN content[i] ELSE zero
<1>1. Max(N) \in N
  <2>1. IsFiniteSet(N)
    <3>1. IsFiniteSet({Len(content)}) /\ IsFiniteSet({pos + 1})
      BY FS_Singleton
    <3>2. IsFiniteSet({Len(content)} \cup {pos + 1})
      BY <3>1, FS_Union
    <3>3. N = {Len(content)} \cup {pos + 1}
      OBVIOUS
    <3> HIDE DEF N
    <3> QED BY <3>2, <3>3
  <2>2. N \in SUBSET Int /\ N # {}
    OBVIOUS
  <2> HIDE DEF N
  <2> QED BY <2>1, <2>2, MaxFact
<1>2. Max(N) \in Nat
  BY <1>1
<1>3. \A i \in 1..Max(N) : e(i) \in S
  OBVIOUS
<1>4. WriteAt(content, pos, v, zero) = [i \in 1..Max(N) |-> e(i)]
  BY DEF WriteAt
<1> HIDE DEF e, N
<1>5. WriteAt(content, pos, v, zero) \in [1..Max(N) -> S]
  BY <1>3, <1>4
<1> QED BY <1>2, <1>5

(* A part written at the end of the file.                                  *)
LEMMA WriteAtEnd ==
  ASSUME NEW S, NEW content \in Seq(S), NEW v \in S, NEW zero \in S
  PROVE  WriteAt(content, Len(content), v, zero) = Append(content, v)
<1> DEFINE n == Len(content)
           N == {n, n + 1}
<1>1. n \in Nat
  OBVIOUS
<1>2. Max(N) = n + 1
  <2>1. /\ n + 1 \in N
        /\ \A y \in N : n + 1 >= y
        /\ \A x \in N : (\A y \in N : x >= y) => x = n + 1
    BY <1>1
  <2> HIDE DEF N
  <2> QED BY <2>1 DEF Max
<1>3. WriteAt(content, n, v, zero)
        = [i \in 1..(n + 1) |-> IF i = n + 1 THEN v ELSE IF i <= n THEN content[i] ELSE zero]
  BY <1>2 DEF WriteAt
<1> DEFINE g == [i \in 1..(n + 1) |-> IF i = n + 1 THEN v
                                      ELSE IF i <= n THEN content[i] ELSE zero]
<1>4. /\ Append(content, v) \in [1..(n + 1) -> S]
      /\ Append(content, v)[n + 1] = v
      /\ \A i \in 1..n : Append(content, v)[i] = content[i]
  <2>1. /\ Append(content, v) \in Seq(S) /\ Len(Append(content, v)) = n + 1
        /\ \A i \in 1..n : Append(content, v)[i] = content[i]
        /\ Append(content, v)[n + 1] = v
    BY AppendProperties
  <2> QED BY <2>1, LenProperties
<1>5. \A i \in 1..(n + 1) : g[i] = Append(content, v)[i]
  BY <1>1, <1>4
<1>6. g = Append(content, v)
  BY <1>4, <1>5
<1> QED BY <1>3, <1>6

-----------------------------------------------------------------------------
(* The users of a record. *)

Somebody(us) == us # <<>> /\ OwnersOnce(us)

(* Adding somebody new keeps a list of users well formed.                  *)
LEMMA AppendOwner ==
  ASSUME NEW O, NEW us \in Seq(O), OwnersOnce(us), NEW u \in O, u \notin ToSet(us)
  PROVE  Append(us, u) \in Seq(O) /\ Somebody(Append(us, u))
<1>1. /\ Append(us, u) \in Seq(O) /\ Append(us, u) # <<>>
      /\ DOMAIN Append(us, u) = 1..(Len(us) + 1)
      /\ Append(us, u)[Len(us) + 1] = u
      /\ \A i \in 1..Len(us) : Append(us, u)[i] = us[i]
  BY AppendProperties, LenProperties
<1>2. \A i \in 1..Len(us) : us[i] # u
  BY DEF ToSet
<1>3. Len(us) \in Nat /\ DOMAIN us = 1..Len(us)
  OBVIOUS
<1>4. ASSUME NEW i \in 1..(Len(us) + 1), NEW j \in 1..(Len(us) + 1),
             Append(us, u)[i] = Append(us, u)[j]
      PROVE  i = j
  <2>1. CASE i \in 1..Len(us) /\ j \in 1..Len(us)
    BY <1>1, <1>3, <1>4, <2>1 DEF Somebody, OwnersOnce, IsInjective
  <2>2. CASE i = Len(us) + 1
    BY <1>1, <1>2, <1>3, <1>4, <2>2
  <2>3. CASE j = Len(us) + 1
    BY <1>1, <1>2, <1>3, <1>4, <2>3
  <2> QED BY <1>3, <2>1, <2>2, <2>3
<1> QED BY <1>1, <1>4 DEF Somebody, OwnersOnce, IsInjective

(* Taking one of several users away keeps it well formed.                  *)
LEMMA RemoveOwner ==
  ASSUME NEW O, NEW us \in Seq(O), OwnersOnce(us), Len(us) > 1, NEW u
  PROVE  RemoveFirst(us, u) \in Seq(O) /\ Somebody(RemoveFirst(us, u))
<1>1. CASE u \notin ToSet(us) /\ RemoveFirst(us, u) = us
  <2>1. us # <<>>
    OBVIOUS
  <2> QED BY <1>1, <2>1 DEF Somebody
<1>2. ASSUME NEW i \in 1..Len(us), RemoveFirst(us, u) = RemoveAt(us, i)
      PROVE  RemoveFirst(us, u) \in Seq(O) /\ Somebody(RemoveFirst(us, u))
  <2> DEFINE r == RemoveAt(us, i)
  <2>1. /\ r \in Seq(O) /\ Len(r) = Len(us) - 1
        /\ \A j \in 1..(Len(us) - 1) : r[j] = IF j < i THEN us[j] ELSE us[j + 1]
    BY RemoveAtFact
  <2>2. /\ Len(us) \in Nat /\ DOMAIN us = 1..Len(us) /\ DOMAIN r = 1..(Len(us) - 1)
        /\ r # <<>>
    BY <2>1, EmptySeq
  <2> HIDE DEF r
  <2>3. ASSUME NEW a \in 1..(Len(us) - 1), NEW b \in 1..(Len(us) - 1), r[a] = r[b]
        PROVE  a = b
    <3> DEFINE A == IF a < i THEN a ELSE a + 1
               B == IF b < i THEN b ELSE b + 1
    <3>1. A \in 1..Len(us) /\ B \in 1..Len(us)
      BY <2>2
    <3>2. r[a] = us[A] /\ r[b] = us[B]
      BY <2>1
    <3>3. A = B
      BY <2>2, <2>3, <3>1, <3>2 DEF Somebody, OwnersOnce, IsInjective
    <3> QED BY <2>2, <3>3
  <2>4. Somebody(r)
    BY <2>2, <2>3 DEF Somebody, OwnersOnce, IsInjective
  <2> QED BY <1>2, <2>1, <2>4 DEF r
<1> QED BY <1>1, <1>2, RemoveFirstFact

(* One record of a table gets other users.                                 *)
LEMMA ExceptUsers ==
  ASSUME NEW B, NEW O, NEW all \in Seq(StateOf(B, O)),
         NEW i \in DOMAIN all, NEW us \in Seq(O)
  PROVE  LET new == [all EXCEPT ![i].users = us]
         IN /\ new \in Seq(StateOf(B, O)) /\ Len(new) = Len(all) /\ DOMAIN new = DOMAIN all
            /\ \A k \in DOMAIN all : /\ new[k].name = all[k].name
                                     /\ new[k].users = IF k = i THEN us ELSE all[k].users
<1> DEFINE e == [all[i] EXCEPT !.users = us]
           new == [all EXCEPT ![i] = e]
<1>1. all[i] \in StateOf(B, O) /\ i \in 1..Len(all) /\ DOMAIN all = 1..Len(all)
  OBVIOUS
<1>2. e \in StateOf(B, O) /\ e.users = us /\ e.name = all[i].name
  BY <1>1 DEF StateOf
<1> HIDE DEF e
<1>3. /\ new \in Seq(StateOf(B, O)) /\ Len(new) = Len(all)
      /\ \A k \in 1..Len(all) : new[k] = IF k = i THEN e ELSE all[k]
  BY <1>1, <1>2, ExceptSeq
<1>4. DOMAIN new = DOMAIN all
  OBVIOUS
<1>5. \A k \in DOMAIN all : /\ new[k].name = all[k].name
                            /\ new[k].users = IF k = i THEN us ELSE all[k].users
  BY <1>1, <1>2, <1>3
<1>6. [all EXCEPT ![i].users = us] = new
  BY DEF e
<1> QED BY <1>3, <1>4, <1>5, <1>6

(* add_file_to_db adds a user and nothing else.                            *)
LEMMA JoinOwnerFact ==
  ASSUME NEW B, NEW O, NEW all \in Seq(StateOf(B, O)), NEW n, NEW u \in O,
         Named(all, n) # {}
  PROVE  LET new == JoinOwner(all, n, u)
         IN /\ new \in Seq(StateOf(B, O)) /\ Len(new) = Len(all) /\ DOMAIN new = DOMAIN all
            /\ \A k \in DOMAIN all : new[k].name = all[k].name
            /\ \A k \in DOMAIN all : OwnerList(all[k]) => OwnerList(new[k])
<1> DEFINE i == FirstNamed(all, n)
           us == all[i].users
<1>1. i \in DOMAIN all
  BY FirstNamedFact
<1>2. us \in Seq(O)
  <2>1. all[i] \in StateOf(B, O)
    BY <1>1
  <2> QED BY <2>1 DEF StateOf
<1>3. CASE u \in ToSet(us)
  BY <1>3 DEF JoinOwner
<1>4. CASE u \notin ToSet(us)
  <2> DEFINE vs == Append(us, u)
             new == [all EXCEPT ![i].users = vs]
  <2>1. vs \in Seq(O)
    BY <1>2
  <2>2. JoinOwner(all, n, u) = new
    BY <1>4 DEF JoinOwner
  <2>3. OwnersOnce(us) => Somebody(vs)
    <3> HIDE DEF us
    <3> QED BY <1>2, <1>4, AppendOwner
  <2>4. us = all[i].users
    OBVIOUS
  <2> HIDE DEF us, i, vs
  <2>5. /\ new \in Seq(StateOf(B, O)) /\ Len(new) = Len(all) /\ DOMAIN new = DOMAIN all
        /\ \A k \in DOMAIN all : /\ new[k].name = all[k].name
                                 /\ new[k].users = IF k = i THEN vs ELSE all[k].users
    BY <1>1, <2>1, ExceptUsers
  <2> HIDE DEF new
  <2> QED BY <2>2, <2>3, <2>4, <2>5 DEF OwnerList, Somebody
<1> QED BY <1>3, <1>4

LEMMA LenSingle ==
  ASSUME NEW s, NEW u, Len(s) > 1
  PROVE  s # <<u>>
<1> SUFFICES ASSUME s = <<u>> PROVE FALSE
  OBVIOUS
<1>1. Len(<<u>>) = 1
  OBVIOUS
<1>2. Len(s) = 1
  BY <1>1
<1> QED BY <1>2

(* rem_file_from_db takes a user away, or puts "none" in the place of the  *)
(* last, and changes nothing else.                                         *)
LEMMA LeaveRecordFact ==
  ASSUME NEW B, NEW O, NEW all \in Seq(StateOf(B, O)), NEW n, NEW u, NEW nobody \in O,
         Named(all, n) # {}
  PROVE  LET new == LeaveRecord(all, n, u, nobody)
         IN /\ new \in Seq(StateOf(B, O)) /\ Len(new) = Len(all) /\ DOMAIN new = DOMAIN all
            /\ \A k \in DOMAIN all : new[k].name = all[k].name
            /\ \A k \in DOMAIN all : OwnerList(all[k]) => OwnerList(new[k])
<1> DEFINE i == FirstNamed(all, n)
           us == all[i].users
<1>1. i \in DOMAIN all
  BY FirstNamedFact
<1>2. us \in Seq(O) /\ Len(us) \in Nat
  <2>1. all[i] \in StateOf(B, O)
    BY <1>1
  <2> QED BY <2>1 DEF StateOf
<1>3. Somebody(<<nobody>>) /\ <<nobody>> \in Seq(O)
  BY DEF Somebody, OwnersOnce, IsInjective
<1>4. ASSUME NEW vs \in Seq(O), LeaveRecord(all, n, u, nobody) = [all EXCEPT ![i].users = vs],
             OwnersOnce(us) => Somebody(vs)
      PROVE  LET new == LeaveRecord(all, n, u, nobody)
             IN /\ new \in Seq(StateOf(B, O)) /\ Len(new) = Len(all) /\ DOMAIN new = DOMAIN all
                /\ \A k \in DOMAIN all : new[k].name = all[k].name
                /\ \A k \in DOMAIN all : OwnerList(all[k]) => OwnerList(new[k])
  <2> DEFINE new == [all EXCEPT ![i].users = vs]
  <2> HIDE DEF i
  <2>1. /\ new \in Seq(StateOf(B, O)) /\ Len(new) = Len(all) /\ DOMAIN new = DOMAIN all
        /\ \A k \in DOMAIN all :
             /\ new[k].name = all[k].name
             /\ new[k].users = IF k = i THEN vs ELSE all[k].users
    BY <1>1, ExceptUsers
  <2> HIDE DEF new
  <2>2. LeaveRecord(all, n, u, nobody) = new
    BY <1>4 DEF new
  <2> QED BY <1>1, <1>4, <2>1, <2>2 DEF OwnerList, Somebody
<1>5. CASE Len(us) > 1
  <2>0. us # <<u>>
    BY <1>5, LenSingle
  <2>1. LeaveRecord(all, n, u, nobody) = [all EXCEPT ![i].users = RemoveFirst(us, u)]
    BY <1>5, <2>0 DEF LeaveRecord
  <2> HIDE DEF us
  <2>2. RemoveFirst(us, u) \in Seq(O)
    BY <1>2, RemoveFirstType
  <2>3. OwnersOnce(us) => Somebody(RemoveFirst(us, u))
    BY <1>2, <1>5, RemoveOwner
  <2> QED BY <1>4, <2>1, <2>2, <2>3
<1>6. CASE us = <<u>>
  <2>1. ~(Len(us) > 1)
    BY <1>6
  <2>2. LeaveRecord(all, n, u, nobody) = [all EXCEPT ![i].users = <<nobody>>]
    BY <1>6, <2>1 DEF LeaveRecord
  <2> QED BY <1>3, <1>4, <2>2
<1>7. CASE ~(Len(us) > 1) /\ us # <<u>>
  <2>1. LeaveRecord(all, n, u, nobody) = all
    BY <1>7 DEF LeaveRecord
  <2> QED BY <2>1
<1> QED BY <1>5, <1>6, <1>7

(* Appending loses nobody, and removing u loses nobody but u.              *)
LEMMA AppendKeeps ==
  ASSUME NEW S, NEW s \in Seq(S), NEW x \in S
  PROVE  ToSet(s) \subseteq ToSet(Append(s, x)) /\ x \in ToSet(Append(s, x))
<1>1. /\ DOMAIN Append(s, x) = 1..(Len(s) + 1)
      /\ Append(s, x)[Len(s) + 1] = x
      /\ \A i \in 1..Len(s) : Append(s, x)[i] = s[i]
  BY AppendProperties, LenProperties
<1>2. Len(s) \in Nat /\ DOMAIN s = 1..Len(s)
  OBVIOUS
<1> QED BY <1>1, <1>2 DEF ToSet

LEMMA RemoveFirstKeeps ==
  ASSUME NEW S, NEW s \in Seq(S), NEW u
  PROVE  ToSet(s) \ {u} \subseteq ToSet(RemoveFirst(s, u))
<1>1. CASE RemoveFirst(s, u) = s
  BY <1>1
<1>2. ASSUME NEW i \in 1..Len(s), s[i] = u, RemoveFirst(s, u) = RemoveAt(s, i)
      PROVE  ToSet(s) \ {u} \subseteq ToSet(RemoveFirst(s, u))
  <2> DEFINE r == RemoveAt(s, i)
  <2>1. /\ r \in Seq(S) /\ Len(r) = Len(s) - 1
        /\ \A j \in 1..(Len(s) - 1) : r[j] = IF j < i THEN s[j] ELSE s[j + 1]
    BY RemoveAtFact
  <2> HIDE DEF r
  <2>2. DOMAIN r = 1..(Len(s) - 1) /\ DOMAIN s = 1..Len(s) /\ Len(s) \in Nat
    BY <2>1
  <2>3. ASSUME NEW k \in DOMAIN s, s[k] # u PROVE \E j \in DOMAIN r : r[j] = s[k]
    <3>1. CASE k < i
      BY <2>1, <2>2, <3>1
    <3>2. CASE k > i
      <4>1. k - 1 \in 1..(Len(s) - 1) /\ ~(k - 1 < i) /\ (k - 1) + 1 = k
        BY <2>2, <3>2
      <4>2. r[k - 1] = s[(k - 1) + 1]
        BY <2>1, <4>1
      <4> QED BY <2>2, <4>1, <4>2
    <3> QED BY <1>2, <2>2, <2>3, <3>1, <3>2
  <2> QED BY <1>2, <2>3 DEF ToSet, r
<1> QED BY <1>1, <1>2, RemoveFirstFact

LEMMA JoinOwnerKeeps ==
  ASSUME NEW B, NEW O, NEW all \in Seq(StateOf(B, O)), NEW n, NEW u \in O,
         Named(all, n) # {}, NEW k \in DOMAIN all
  PROVE  ToSet(all[k].users) \subseteq ToSet(JoinOwner(all, n, u)[k].users)
<1> DEFINE i == FirstNamed(all, n)
           us == all[i].users
           vs == Append(us, u)
           new == [all EXCEPT ![i].users = vs]
<1>1. i \in DOMAIN all
  BY FirstNamedFact
<1>2. us \in Seq(O)
  <2>1. all[i] \in StateOf(B, O)
    BY <1>1
  <2> QED BY <2>1 DEF StateOf
<1>3. CASE u \in ToSet(us)
  BY <1>3 DEF JoinOwner
<1>4. CASE u \notin ToSet(us)
  <2>1. JoinOwner(all, n, u) = new
    BY <1>4 DEF JoinOwner
  <2>2. us = all[i].users
    OBVIOUS
  <2> HIDE DEF us
  <2>3. vs \in Seq(O) /\ ToSet(us) \subseteq ToSet(vs)
    BY <1>2, AppendKeeps
  <2> HIDE DEF i, vs
  <2>4. new[k].users = IF k = i THEN vs ELSE all[k].users
    BY <1>1, <2>3, ExceptUsers
  <2> HIDE DEF new
  <2> QED BY <2>1, <2>2, <2>3, <2>4
<1> QED BY <1>3, <1>4

LEMMA LeaveRecordKeeps ==
  ASSUME NEW B, NEW O, NEW all \in Seq(StateOf(B, O)), NEW n, NEW u, NEW nobody \in O,
         Named(all, n) # {}, NEW k \in DOMAIN all
  PROVE  ToSet(all[k].users) \ {u} \subseteq ToSet(LeaveRecord(all, n, u, nobody)[k].users)
<1> DEFINE i == FirstNamed(all, n)
           us == all[i].users
<1>1. i \in DOMAIN all
  BY FirstNamedFact
<1>2. us \in Seq(O)
  <2>1. all[i] \in StateOf(B, O)
    BY <1>1
  <2> QED BY <2>1 DEF StateOf
<1>3. ASSUME NEW vs \in Seq(O), LeaveRecord(all, n, u, nobody) = [all EXCEPT ![i].users = vs],
             ToSet(us) \ {u} \subseteq ToSet(vs)
      PROVE  ToSet(all[k].users) \ {u} \subseteq ToSet(LeaveRecord(all, n, u, nobody)[k].users)
  <2> DEFINE new == [all EXCEPT ![i].users = vs]
  <2>1. us = all[i].users
    OBVIOUS
  <2> HIDE DEF i, us
  <2>2. new[k].users = IF k = i THEN vs ELSE all[k].users
    BY <1>1, ExceptUsers
  <2>3. LeaveRecord(all, n, u, nobody) = new
    BY <1>3
  <2> HIDE DEF new
  <2> QED BY <1>3, <2>1, <2>2, <2>3
<1>4. CASE Len(us) > 1
  <2>1. us # <<u>>
    BY <1>4, LenSingle
  <2>2. LeaveRecord(all, n, u, nobody) = [all EXCEPT ![i].users = RemoveFirst(us, u)]
    BY <1>4, <2>1 DEF LeaveRecord
  <2> HIDE DEF us
  <2>3. RemoveFirst(us, u) \in Seq(O) /\ ToSet(us) \ {u} \subseteq ToSet(RemoveFirst(us, u))
    BY <1>2, RemoveFirstType, RemoveFirstKeeps
  <2> QED BY <1>3, <2>2, <2>3
<1>5. CASE us = <<u>>
  <2>1. ~(Len(us) > 1)
    BY <1>5
  <2>2. LeaveRecord(all, n, u, nobody) = [all EXCEPT ![i].users = <<nobody>>]
    BY <1>5, <2>1 DEF LeaveRecord
  <2>3. ToSet(us) \ {u} = {} /\ <<nobody>> \in Seq(O)
    BY <1>5 DEF ToSet
  <2> QED BY <1>3, <2>2, <2>3
<1>6. CASE ~(Len(us) > 1) /\ us # <<u>>
  <2>1. LeaveRecord(all, n, u, nobody) = all
    BY <1>6 DEF LeaveRecord
  <2> QED BY <2>1
<1> QED BY <1>4, <1>5, <1>6

-----------------------------------------------------------------------------
(* The comparison of contents. *)

(* std::equal stops where the files differ, having passed what is equal.   *)
LEMMA AdvanceFact ==
  ASSUME NEW S, NEW f \in Seq(S), NEW g
  PROVE  /\ Advance(f, g, 0) \in 0..Len(f)
         /\ \A j \in 1..Advance(f, g, 0) : f[j] = g[j]
<1> DEFINE K == {k \in 0..Len(f) : \A j \in 1..k : f[j] = g[j]}
<1>1. Len(f) \in Nat
  OBVIOUS
<1>2. K = {k \in 0..(Len(f) - 0) : \A j \in 1..k : f[0 + j] = g[j]}
  <2>1. Len(f) - 0 = Len(f)
    BY <1>1
  <2>2. \A k \in 0..Len(f) : \A j \in 1..k : 0 + j = j
    BY <1>1
  <2> QED BY <2>1, <2>2
<1>3. K \in SUBSET Int /\ IsFiniteSet(K) /\ K # {}
  <2>1. IsFiniteSet(0..Len(f))
    BY <1>1, FS_Interval
  <2>2. IsFiniteSet(K)
    BY <2>1, FS_Subset
  <2>3. 0 \in K
    BY <1>1
  <2> QED BY <1>1, <2>2, <2>3
<1>4. Advance(f, g, 0) = Max(K)
  BY <1>2 DEF Advance
<1>5. Max(K) \in K
  <2> HIDE DEF K
  <2> QED BY <1>3, MaxFact
<1> QED BY <1>4, <1>5

(* Compared once, only a file with the same content is a duplicate.        *)
LEMMA SameOnce ==
  ASSUME NEW S, NEW f \in Seq(S), NEW g \in Seq(S), SameWithin(f, g, 1)
  PROVE  f = g
<1> DEFINE Step(h) == [k \in 0..1 |-> IF k = 0 THEN 0 ELSE h[k - 1] + Advance(f, g, h[k - 1])]
           at == CHOOSE h : h = Step(h)
<1>1. Len(f) = Len(g) /\ \E k \in 1..1 : at[k] = Len(f)
  BY DEF SameWithin
<1>2. Advance(f, g, 0) \in 0..Len(f) /\ \A j \in 1..Advance(f, g, 0) : f[j] = g[j]
  BY AdvanceFact
<1> DEFINE w == [k \in 0..1 |-> IF k = 0 THEN 0 ELSE 0 + Advance(f, g, 0)]
<1>3. w = Step(w)
  <2>1. w[0] = 0 /\ \A k \in 0..1 : k # 0 => k - 1 = 0
    OBVIOUS
  <2> QED BY <2>1
<1>4. at = Step(at)
  BY <1>3
<1> HIDE DEF at
<1>5. at[0] = 0 /\ at[1] = 0 + Advance(f, g, 0)
  <2>1. at[0] = 0
    BY <1>4
  <2>2. at[1] = at[1 - 1] + Advance(f, g, at[1 - 1])
    BY <1>4
  <2> QED BY <2>1, <2>2
<1>6. Advance(f, g, 0) = Len(f)
  BY <1>1, <1>2, <1>5
<1> QED BY <1>1, <1>2, <1>6, SeqEqual
===============================================================================
