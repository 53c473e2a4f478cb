------------------------- MODULE FileStoreListsProofs -------------------------
(***************************************************************************)
(* Proof that the mapping and its text files implement UserLists: whatever *)
(* handlers, kills and restarts do, what a user's list shows is what the   *)
(* text file holds, it changes by that user's uploads only, and a kill     *)
(* costs at most its end.                                                  *)
(***************************************************************************)
EXTENDS FileStoreFilesProofs

(* Memory and text file have the same server names for a user who is       *)
(* loaded.  They differ in the client names: set_right_copy_number numbers *)
(* the lines of every user and write_full writes those of one.             *)
MappingIsSaved == \A u \in DOMAIN mapping : Firsts(mapping[u]) = Firsts(userTxt[u])

(* What the lists show, and what they hold on disk.                        *)
Shown   == [u \in User |-> Firsts(IF u \in DOMAIN mapping THEN mapping[u] ELSE userTxt[u])]
Durable == [u \in User |-> Firsts(userTxt[u])]

LEMMA ShownIsDurable ==
  ASSUME MappingIsSaved
  PROVE  Shown = Durable
BY DEF MappingIsSaved, Shown, Durable

LEMMA ShownIsDurableNext ==
  ASSUME MappingIsSaved'
  PROVE  Shown' = Durable'
BY DEF MappingIsSaved, Shown, Durable

-----------------------------------------------------------------------------
(* The server names of lines. *)

LEMMA FirstsFact ==
  ASSUME NEW l \in Seq(Line)
  PROVE  /\ Firsts(l) \in Seq(Name) /\ Len(Firsts(l)) = Len(l)
         /\ \A i \in 1..Len(l) : Firsts(l)[i] = l[i].first
<1>1. Len(l) \in Nat /\ DOMAIN l = 1..Len(l)
  OBVIOUS
<1>2. ASSUME NEW i \in 1..Len(l) PROVE l[i].first \in Name
  <2>1. l[i] \in Line
    OBVIOUS
  <2> QED BY <2>1 DEF Line
<1>3. Firsts(l) = [i \in 1..Len(l) |-> l[i].first]
  BY <1>1 DEF Firsts
<1> QED BY <1>1, <1>2, <1>3

LEMMA FirstsRenumber ==
  ASSUME NEW l \in Seq(Line)
  PROVE  Renumber(l) \in Seq(Line) /\ Firsts(Renumber(l)) = Firsts(l)
<1>1. /\ Renumber(l) \in Seq(Line) /\ Len(Renumber(l)) = Len(l)
      /\ \A i \in 1..Len(l) : Renumber(l)[i].first = l[i].first
  BY Sorts, RenumberFact
<1> HIDE DEF Renumber
<1>2. DOMAIN Renumber(l) = 1..Len(l) /\ DOMAIN l = 1..Len(l)
  BY <1>1
<1> QED BY <1>1, <1>2 DEF Firsts

LEMMA FirstsAppend ==
  ASSUME NEW l \in Seq(Line), NEW x \in Line
  PROVE  Firsts(Append(l, x)) = Append(Firsts(l), x.first)
<1> DEFINE a == Append(l, x)
           b == Append(Firsts(l), x.first)
<1>1. x.first \in Name /\ Len(l) \in Nat
  BY DEF Line
<1>2. /\ Firsts(l) \in Seq(Name) /\ Len(Firsts(l)) = Len(l)
      /\ \A i \in 1..Len(l) : Firsts(l)[i] = l[i].first
  BY FirstsFact
<1>3. /\ a \in Seq(Line) /\ Len(a) = Len(l) + 1
      /\ a[Len(l) + 1] = x /\ \A i \in 1..Len(l) : a[i] = l[i]
  BY AppendProperties
<1> DEFINE F == Firsts(l)
<1>4. /\ F \in Seq(Name) /\ Len(F) = Len(l)
      /\ \A i \in 1..Len(l) : F[i] = l[i].first
  BY <1>2
<1>5. b = Append(F, x.first)
  OBVIOUS
<1> HIDE DEF F, b
<1>6. /\ b \in Seq(Name) /\ Len(b) = Len(l) + 1
      /\ b[Len(l) + 1] = x.first /\ \A i \in 1..Len(l) : b[i] = F[i]
  BY <1>1, <1>4, <1>5, AppendProperties
<1> HIDE DEF a
<1>7. /\ Firsts(a) \in Seq(Name) /\ Len(Firsts(a)) = Len(a)
      /\ \A i \in 1..Len(a) : Firsts(a)[i] = a[i].first
  BY <1>3, FirstsFact
<1> DEFINE G == Firsts(a)
<1>8. G \in Seq(Name) /\ Len(G) = Len(b) /\ \A i \in 1..Len(a) : G[i] = a[i].first
  BY <1>3, <1>6, <1>7
<1> HIDE DEF G
<1>9. \A i \in 1..(Len(l) + 1) : i \in 1..Len(l) \/ i = Len(l) + 1
  BY <1>1
<1>10. ASSUME NEW i \in 1..(Len(l) + 1) PROVE G[i] = b[i]
  <2>1. G[i] = a[i].first
    BY <1>3, <1>8
  <2>2. CASE i \in 1..Len(l)
    BY <1>3, <1>4, <1>6, <2>1, <2>2
  <2>3. CASE i = Len(l) + 1
    BY <1>3, <1>6, <2>1, <2>3
  <2> QED BY <1>9, <2>2, <2>3
<1>11. G = b
  BY <1>6, <1>8, <1>10, SeqEqual
<1> QED BY <1>5, <1>11 DEF G, a, F

LEMMA FirstsRemoveAt ==
  ASSUME NEW l \in Seq(Line), NEW i \in 1..Len(l)
  PROVE  Firsts(RemoveAt(l, i)) = RemoveAt(Firsts(l), i)
<1> DEFINE F == Firsts(l)
           a == RemoveAt(l, i)
           b == RemoveAt(F, i)
           G == Firsts(a)
           n == Len(l) - 1
<1>1. F \in Seq(Name) /\ Len(F) = Len(l) /\ \A j \in 1..Len(l) : F[j] = l[j].first
  BY FirstsFact
<1> HIDE DEF F
<1>2. /\ a \in Seq(Line) /\ Len(a) = n
      /\ \A j \in 1..n : a[j] = IF j < i THEN l[j] ELSE l[j + 1]
  BY RemoveAtFact
<1>3. /\ b \in Seq(Name) /\ Len(b) = n
      /\ \A j \in 1..n : b[j] = IF j < i THEN F[j] ELSE F[j + 1]
  <2>1. F \in Seq(Name) /\ i \in 1..Len(F) /\ Len(F) - 1 = n
    BY <1>1
  <2> HIDE DEF n
  <2> QED BY <2>1, RemoveAtFact
<1> HIDE DEF a, b
<1>4. G \in Seq(Name) /\ Len(G) = n /\ \A j \in 1..n : G[j] = a[j].first
  BY <1>2, FirstsFact
<1>5. ASSUME NEW j \in 1..n PROVE G[j] = b[j]
  <2>1. j \in 1..Len(l) /\ j + 1 \in 1..Len(l)
    OBVIOUS
  <2> QED BY <1>1, <1>2, <1>3, <1>4, <2>1
<1> HIDE DEF G, n
<1>6. G = b
  BY <1>3, <1>4, <1>5, SeqEqual
<1> QED BY <1>6 DEF G, a, b, F

(* delete_a_file takes the first line with the server name away.           *)
LEMMA FirstsDrop ==
  ASSUME NEW l \in Seq(Line), NEW s
  PROVE  DropLine(l, s) \in Seq(Line) /\ Firsts(DropLine(l, s)) = RemoveFirst(Firsts(l), s)
<1> DEFINE F == Firsts(l)
<1>1. /\ F \in Seq(Name) /\ Len(F) = Len(l) /\ DOMAIN F = 1..Len(l)
      /\ \A j \in 1..Len(l) : F[j] = l[j].first
  <2>1. F \in Seq(Name) /\ Len(F) = Len(l) /\ \A j \in 1..Len(l) : F[j] = l[j].first
    BY FirstsFact
  <2> HIDE DEF F
  <2> QED BY <2>1
<1>2. \/ s \notin ToSet(F) /\ RemoveFirst(F, s) = F
      \/ \E i \in 1..Len(F) : /\ F[i] = s
                              /\ \A j \in 1..(i - 1) : F[j] # s
                              /\ RemoveFirst(F, s) = RemoveAt(F, i)
  <2> HIDE DEF F
  <2> QED BY <1>1, RemoveFirstFact
<1>3. \A i, j \in 1..Len(l) :
        /\ F[i] = s /\ \A k \in 1..(i - 1) : F[k] # s
        /\ F[j] = s /\ \A k \in 1..(j - 1) : F[k] # s
        => i = j
  <2> HIDE DEF F
  <2> SUFFICES ASSUME NEW i \in 1..Len(l), NEW j \in 1..Len(l), i < j,
                      F[i] = s, \A k \in 1..(j - 1) : F[k] # s
               PROVE  FALSE
    OBVIOUS
  <2>1. i \in 1..(j - 1)
    OBVIOUS
  <2> QED BY <2>1
<1>4. DropLine(l, s) \in Seq(Line)
  BY Sorts, DropLineType
<1>5. CASE s \notin ToSet(F) /\ RemoveFirst(F, s) = F
  <2>1. \A i \in 1..Len(l) : l[i].first # s
    BY <1>1, <1>5 DEF ToSet
  <2>2. DropLine(l, s) = l
    BY Sorts, <2>1, DropLineFact
  <2> QED BY <1>4, <1>5, <2>2
<1>6. ASSUME NEW i \in 1..Len(l), F[i] = s, \A j \in 1..(i - 1) : F[j] # s,
             RemoveFirst(F, s) = RemoveAt(F, i)
      PROVE  Firsts(DropLine(l, s)) = RemoveFirst(F, s)
  <2>1. l[i].first = s
    BY <1>1, <1>6
  <2>2. PICK j \in 1..Len(l) : /\ l[j].first = s
                               /\ \A k \in 1..(j - 1) : l[k].first # s
                               /\ DropLine(l, s) = RemoveAt(l, j)
    BY Sorts, <2>1, DropLineFact
  <2>3. F[j] = s /\ \A k \in 1..(j - 1) : F[k] # s
    <3>1. \A k \in 1..(j - 1) : k \in 1..Len(l)
      OBVIOUS
    <3> HIDE DEF F
    <3> QED BY <1>1, <2>2, <3>1
  <2>4. i = j
    BY <1>3, <1>6, <2>3
  <2> QED BY <1>6, <2>2, <2>4, FirstsRemoveAt
<1> QED BY <1>1, <1>2, <1>4, <1>5, <1>6

LEMMA FirstsPrefix ==
  ASSUME NEW l \in Seq(Line), NEW p \in Prefixes(l)
  PROVE  p \in Seq(Line) /\ Firsts(p) \in Prefixes(Firsts(l))
<1> DEFINE F == Firsts(l)
<1>1. F \in Seq(Name) /\ Len(F) = Len(l) /\ \A j \in 1..Len(l) : F[j] = l[j].first
  BY FirstsFact
<1>2. PICK k \in 0..Len(l) : p = SubSeq(l, 1, k)
  BY DEF Prefixes
<1>3. k \in Nat /\ \A i \in 1..k : i \in 1..Len(l)
  OBVIOUS
<1>4. p \in Seq(Line) /\ Len(p) = k /\ \A i \in 1..k : p[i] = l[i]
  BY <1>2, <1>3
<1> HIDE DEF F
<1> DEFINE q == SubSeq(F, 1, k)
<1>5. q \in Seq(Name) /\ Len(q) = k /\ \A i \in 1..k : q[i] = F[i]
  BY <1>1, <1>3
<1> HIDE DEF q
<1> DEFINE G == Firsts(p)
<1>6. G \in Seq(Name) /\ Len(G) = k /\ \A i \in 1..k : G[i] = p[i].first
  BY <1>4, FirstsFact
<1> HIDE DEF G
<1>7. \A i \in 1..k : G[i] = q[i]
  BY <1>1, <1>3, <1>4, <1>5, <1>6
<1>8. G = q
  BY <1>5, <1>6, <1>7, SeqEqual
<1>9. q \in Prefixes(F)
  BY <1>1, <1>2 DEF Prefixes, q
<1> QED BY <1>4, <1>8, <1>9 DEF G, F

-----------------------------------------------------------------------------
(* Sequences that lose an element or their end. *)

LEMMA NothingRemoved ==
  ASSUME NEW S, NEW s \in Seq(S), NEW e, e \notin ToSet(s)
  PROVE  RemoveFirst(s, e) = s
BY RemoveFirstFact DEF ToSet

LEMMA LastRemoved ==
  ASSUME NEW S, NEW s \in Seq(S), NEW e \in S, e \notin ToSet(s)
  PROVE  RemoveFirst(Append(s, e), e) = s
<1> DEFINE a == Append(s, e)
           n == Len(s)
<1>1. /\ n \in Nat /\ a \in Seq(S) /\ Len(a) = n + 1
      /\ a[n + 1] = e /\ \A j \in 1..n : a[j] = s[j] /\ s[j] # e
  BY AppendProperties DEF ToSet
<1>2. e \in ToSet(a)
  BY AppendKeeps
<1> HIDE DEF a
<1>3. PICK i \in 1..Len(a) : a[i] = e /\ RemoveFirst(a, e) = RemoveAt(a, i)
  BY <1>1, <1>2, RemoveFirstFact
<1>4. i = n + 1
  <2>1. i \notin 1..n
    BY <1>1, <1>3
  <2> QED BY <1>1, <1>3, <2>1
<1> DEFINE r == RemoveAt(a, i)
<1>5. /\ r \in Seq(S) /\ Len(r) = Len(a) - 1
      /\ \A j \in 1..(Len(a) - 1) : r[j] = IF j < i THEN a[j] ELSE a[j + 1]
  BY <1>1, RemoveAtFact
<1> HIDE DEF r
<1>6. Len(r) = Len(s) /\ \A j \in 1..Len(r) : r[j] = s[j]
  BY <1>1, <1>4, <1>5
<1>7. r = s
  BY <1>5, <1>6, SeqEqual
<1> QED BY <1>3, <1>7 DEF a, r

LEMMA PrefixOfAppend ==
  ASSUME NEW S, NEW s \in Seq(S), NEW e \in S, NEW k \in 0..Len(s)
  PROVE  SubSeq(Append(s, e), 1, k) = SubSeq(s, 1, k)
<1> DEFINE a == Append(s, e)
           p == SubSeq(a, 1, k)
           q == SubSeq(s, 1, k)
<1>1. k \in Nat /\ \A i \in 1..k : i \in 1..Len(s)
  OBVIOUS
<1>2. a \in Seq(S) /\ Len(a) = Len(s) + 1 /\ \A i \in 1..Len(s) : a[i] = s[i]
  BY AppendProperties
<1> HIDE DEF a
<1>3. \A i \in 1..k : i \in 1..Len(a) /\ a[i] \in S /\ s[i] \in S
  BY <1>1, <1>2
<1>4. p \in Seq(S) /\ Len(p) = k /\ \A i \in 1..k : p[i] = a[i]
  BY <1>1, <1>2, <1>3
<1>5. q \in Seq(S) /\ Len(q) = k /\ \A i \in 1..k : q[i] = s[i]
  BY <1>1, <1>3
<1> HIDE DEF p, q
<1>6. \A i \in 1..k : p[i] = q[i]
  BY <1>1, <1>2, <1>4, <1>5
<1>7. p = q
  BY <1>4, <1>5, <1>6, SeqEqual
<1> QED BY <1>7 DEF p, q, a

(* A part of what an upload makes of a list is a part of the list, unless  *)
(* the new entry is in it.                                                 *)
LEMMA PrefixBefore ==
  ASSUME NEW S, NEW s \in Seq(S), NEW e \in S
  PROVE  /\ s \in Prefixes(s)
         /\ Prefixes(s) \subseteq Prefixes(Append(s, e))
         /\ \A p \in Prefixes(Append(s, e)) : e \in ToSet(p) \/ p \in Prefixes(s)
<1> DEFINE a == Append(s, e)
           n == Len(s)
<1>1. n \in Nat /\ a \in Seq(S) /\ Len(a) = n + 1 /\ a[n + 1] = e
  BY AppendProperties
<1>2. s \in Prefixes(s)
  <2>1. SubSeq(s, 1, n) = s /\ n \in 0..n
    OBVIOUS
  <2> QED BY <2>1 DEF Prefixes
<1>3. ASSUME NEW k \in 0..n PROVE SubSeq(a, 1, k) = SubSeq(s, 1, k) /\ k \in 0..Len(a)
  <2>1. SubSeq(a, 1, k) = SubSeq(s, 1, k)
    BY PrefixOfAppend
  <2> HIDE DEF a
  <2> QED BY <1>1, <2>1
<1> HIDE DEF a
<1>4. Prefixes(s) \subseteq Prefixes(a)
  BY <1>3 DEF Prefixes
<1>5. ASSUME NEW p \in Prefixes(a), p \notin Prefixes(s) PROVE e \in ToSet(p)
  <2>1. PICK k \in 0..Len(a) : p = SubSeq(a, 1, k)
    BY <1>5 DEF Prefixes
  <2>2. k = n + 1
    <3>1. k \notin 0..n
      BY <1>3, <1>5, <2>1 DEF Prefixes
    <3> QED BY <1>1, <3>1
  <2>3. p = a
    BY <1>1, <2>1, <2>2
  <2>4. DOMAIN a = 1..(n + 1) /\ n + 1 \in 1..(n + 1)
    BY <1>1
  <2> QED BY <1>1, <2>3, <2>4 DEF ToSet
<1> QED BY <1>2, <1>4, <1>5 DEF a

LEMMA PrefixOfNothing ==
  ASSUME NEW p \in Prefixes(<<>>)
  PROVE  p = <<>>
<1>1. Len(<<>>) = 0 /\ 0..0 = {0}
  OBVIOUS
<1>2. p = SubSeq(<<>>, 1, 0)
  BY <1>1 DEF Prefixes
<1>3. SubSeq(<<>>, 1, 0) = <<>>
  OBVIOUS
<1> QED BY <1>2, <1>3

-----------------------------------------------------------------------------
(* Steps of UserLists. *)

(* The sequence operators that UserLists has are those of this module.     *)
LEMMA SameOperators ==
  ASSUME NEW s, NEW e
  PROVE  Lists!RemoveFirst(s, e) = RemoveFirst(s, e) /\ Lists!Prefixes(s) = Prefixes(s)
<1>1. \A i : Lists!RemoveAt(s, i) = RemoveAt(s, i)
  BY DEF Lists!RemoveAt, RemoveAt
<1>2. Lists!SelectInSeq(s, LAMBDA v : v = e) = SelectInSeq(s, LAMBDA v : v = e)
  BY DEF Lists!SelectInSeq, SelectInSeq, Lists!Min, Min
<1>3. Lists!RemoveFirst(s, e) = RemoveFirst(s, e)
  BY <1>1, <1>2 DEF Lists!RemoveFirst, RemoveFirst
<1> QED BY <1>3 DEF Lists!Prefixes, Prefixes

(* The actions of UserLists, in terms of Shown.                            *)
LEMMA ListsDrop ==
  ASSUME NEW u, NEW f, up, up', Shown' = [Shown EXCEPT ![u] = RemoveFirst(Shown[u], f)]
  PROVE  Lists!Drop(u, f)
<1>1. Lists!RemoveFirst(Shown[u], f) = RemoveFirst(Shown[u], f)
  BY SameOperators
<1>2. Shown' = [Shown EXCEPT ![u] = Lists!RemoveFirst(Shown[u], f)]
  BY <1>1
<1> QED BY <1>2 DEF Lists!Drop, Shown

LEMMA ListsRenew ==
  ASSUME NEW u, NEW f, up, up',
         Shown' = [Shown EXCEPT ![u] = RemoveFirst(Append(Shown[u], f), f)]
  PROVE  Lists!Renew(u, f)
<1>1. Lists!RemoveFirst(Append(Shown[u], f), f) = RemoveFirst(Append(Shown[u], f), f)
  BY SameOperators
<1>2. Shown' = [Shown EXCEPT ![u] = Lists!RemoveFirst(Append(Shown[u], f), f)]
  BY <1>1
<1> QED BY <1>2 DEF Lists!Renew, Shown

LEMMA ListsTear ==
  ASSUME NEW u, NEW f, up, ~up', NEW new, NEW part \in Prefixes(new),
         new \in {Append(Shown[u], f), RemoveFirst(Shown[u], f),
                  RemoveFirst(Append(Shown[u], f), f)},
         Shown' = [Shown EXCEPT ![u] = part]
  PROVE  Lists!Torn(u, f)
<1>1. /\ Lists!RemoveFirst(Shown[u], f) = RemoveFirst(Shown[u], f)
      /\ Lists!RemoveFirst(Append(Shown[u], f), f) = RemoveFirst(Append(Shown[u], f), f)
      /\ Lists!Prefixes(new) = Prefixes(new)
  BY SameOperators
<1>2. /\ part \in Lists!Prefixes(new)
      /\ new \in {Append(Shown[u], f), Lists!RemoveFirst(Shown[u], f),
                 Lists!RemoveFirst(Append(Shown[u], f), f)}
  BY <1>1
<1> QED BY <1>2 DEF Lists!Torn, Shown

LEMMA ListsStay ==
  ASSUME MappingIsSaved, MappingIsSaved', Durable' = Durable
  PROVE  up' = up => UNCHANGED Lists!vars
<1>1. Shown' = Shown
  BY ShownIsDurable, ShownIsDurableNext
<1> QED BY <1>1 DEF Shown, Lists!vars

(* The server starts or stops and no list changes.                         *)
LEMMA ListsSwitch ==
  ASSUME MappingIsSaved, MappingIsSaved', Durable' = Durable, up' = ~up
  PROVE  Lists!Next
<1>1. Shown' = Shown
  BY ShownIsDurable, ShownIsDurableNext
<1>2. Lists!Switch
  BY <1>1 DEF Shown, Lists!Switch
<1> QED BY <1>2 DEF Lists!Next

LEMMA ListsChange ==
  ASSUME MappingIsSaved, MappingIsSaved', NEW u \in User, NEW new,
         Durable' = [Durable EXCEPT ![u] = new]
  PROVE  /\ Shown' = [Shown EXCEPT ![u] = new]
         /\ Shown[u] = Durable[u] /\ Shown'[u] = new
         /\ \A f : f \in ToSet(Durable[u]) \/ f \in ToSet(new) => f \in Lists!Concerned(u)
<1>1. Shown' = [Shown EXCEPT ![u] = new] /\ Shown = Durable
  BY ShownIsDurable, ShownIsDurableNext
<1>2. Shown'[u] = new
  BY <1>1 DEF Shown
<1>3. Lists!Concerned(u) = Lists!ToSet(Shown[u]) \cup Lists!ToSet(Shown'[u])
  BY DEF Lists!Concerned, Shown
<1>4. Lists!Concerned(u) = ToSet(Durable[u]) \cup ToSet(new)
  BY <1>1, <1>2, <1>3 DEF Lists!ToSet, ToSet
<1> QED BY <1>1, <1>2, <1>4

(* A handler of the running server changes the list of u for the file f.   *)
LEMMA ListsUpdate ==
  ASSUME MappingIsSaved, MappingIsSaved', NEW u \in User, NEW f \in Name, up, up' = up,
         Durable[u] \in Seq(Name), NEW new,
         new \in {Append(Durable[u], f), RemoveFirst(Durable[u], f),
                  RemoveFirst(Append(Durable[u], f), f)},
         Durable' = [Durable EXCEPT ![u] = new]
  PROVE  Lists!Next \/ UNCHANGED Lists!vars
<1> DEFINE L == Durable[u]
<1>1. /\ Shown' = [Shown EXCEPT ![u] = new] /\ Shown[u] = L
      /\ \A g : g \in ToSet(L) \/ g \in ToSet(new) => g \in Lists!Concerned(u)
  BY ListsChange
<1>2. CASE f \in ToSet(L) \/ f \in ToSet(new)
  <2>1. f \in Lists!Concerned(u)
    BY <1>1, <1>2
  <2>2. CASE new = Append(L, f)
    <3>1. Lists!Add(u, f)
      BY <1>1, <2>2 DEF Lists!Add, Lists!Added, Shown
    <3> QED BY <2>1, <3>1 DEF Lists!Next
  <2>3. CASE new = RemoveFirst(L, f)
    <3>1. Lists!Drop(u, f)
      BY <1>1, <2>3, ListsDrop
    <3> QED BY <2>1, <3>1 DEF Lists!Next
  <2>4. CASE new = RemoveFirst(Append(L, f), f)
    <3>1. Lists!Renew(u, f)
      BY <1>1, <2>4, ListsRenew
    <3> QED BY <2>1, <3>1 DEF Lists!Next
  <2> QED BY <2>2, <2>3, <2>4
<1>3. CASE f \notin ToSet(L) /\ f \notin ToSet(new)
  <2>1. new = L
    <3>1. /\ f \in ToSet(Append(L, f)) /\ RemoveFirst(L, f) = L
          /\ RemoveFirst(Append(L, f), f) = L
      <4> HIDE DEF L
      <4> QED BY <1>3, AppendKeeps, NothingRemoved, LastRemoved DEF L
    <3> QED BY <1>3, <3>1
  <2>2. Durable' = Durable
    BY <2>1 DEF Durable
  <2> QED BY <2>2, ListsStay
<1> QED BY <1>2, <1>3

(* The process is killed with part of u's list written.                    *)
LEMMA ListsTorn ==
  ASSUME MappingIsSaved, MappingIsSaved', NEW u \in User, NEW f \in Name, up, up' = ~up,
         Durable[u] \in Seq(Name), NEW new,
         new \in {Durable[u], Append(Durable[u], f), RemoveFirst(Durable[u], f),
                  RemoveFirst(Append(Durable[u], f), f)},
         NEW part \in Prefixes(new),
         Durable' = [Durable EXCEPT ![u] = part]
  PROVE  Lists!Next
<1> DEFINE L == Durable[u]
<1>1. /\ Shown' = [Shown EXCEPT ![u] = part] /\ Shown[u] = L
      /\ \A g : g \in ToSet(L) \/ g \in ToSet(part) => g \in Lists!Concerned(u)
  BY ListsChange
<1>2. L \in Seq(Name)
  OBVIOUS
<1>3. ASSUME NEW g \in Lists!Concerned(u), NEW whole,
             whole \in {Append(L, g), RemoveFirst(L, g), RemoveFirst(Append(L, g), g)},
             part \in Prefixes(whole)
      PROVE  Lists!Next
  <2>1. Lists!Torn(u, g)
    BY <1>1, <1>3, ListsTear
  <2> QED BY <2>1 DEF Lists!Next
<1>4. CASE part \in Prefixes(L)
  <2>1. CASE L = <<>>
    <3>1. part = L
      BY <1>4, <2>1, PrefixOfNothing
    <3>2. Durable' = Durable
      BY <3>1 DEF Durable
    <3> QED BY <3>2, ListsSwitch
  <2>2. CASE L # <<>>
    <3>1. PICK g \in Name : g \in ToSet(L)
      <4> HIDE DEF L
      <4>1. 1 \in DOMAIN L /\ L[1] \in Name
        BY <1>2, <2>2
      <4> QED BY <4>1 DEF ToSet
    <3>2. g \in Lists!Concerned(u)
      BY <1>1, <3>1
    <3>3. part \in Prefixes(Append(L, g))
      <4> HIDE DEF L
      <4> QED BY <1>2, <1>4, <3>1, PrefixBefore
    <3> QED BY <1>3, <3>2, <3>3
  <2> QED BY <2>1, <2>2
<1>5. CASE part \notin Prefixes(L)
  <2>1. f \in ToSet(L) \/ f \in ToSet(part)
    <3> SUFFICES ASSUME f \notin ToSet(L), f \notin ToSet(part) PROVE FALSE
      OBVIOUS
    <3>1. RemoveFirst(L, f) = L /\ RemoveFirst(Append(L, f), f) = L
      <4> HIDE DEF L
      <4> QED BY <1>2, NothingRemoved, LastRemoved
    <3>2. \A p \in Prefixes(Append(L, f)) : f \in ToSet(p) \/ p \in Prefixes(L)
      <4> HIDE DEF L
      <4> QED BY <1>2, PrefixBefore
    <3> QED BY <1>5, <3>1, <3>2
  <2>2. f \in Lists!Concerned(u)
    BY <1>1, <2>1
  <2>3. new # L
    BY <1>5
  <2> QED BY <1>3, <2>2, <2>3
<1> QED BY <1>4, <1>5

-----------------------------------------------------------------------------
(* Steps of the store. *)

LEMMA RunningWhenOpen ==
  ASSUME TypeOK, NEW c \in Conn, conn[c] # "none"
  PROVE  up = TRUE
BY DEF TypeOK

LEMMA DurableFact ==
  ASSUME TypeOK, NEW u \in User
  PROVE  Durable[u] = Firsts(userTxt[u]) /\ Durable[u] \in Seq(Name)
<1>1. userTxt[u] \in Seq(Line)
  BY DEF TypeOK
<1> QED BY <1>1, FirstsFact DEF Durable

(* Only the text file of u is written.                                     *)
LEMMA DurableNext ==
  ASSUME NEW u \in User, \A w \in User \ {u} : userTxt'[w] = userTxt[w]
  PROVE  Durable' = [Durable EXCEPT ![u] = Firsts(userTxt'[u])]
BY DEF Durable

LEMMA SameTexts ==
  ASSUME userTxt' = userTxt
  PROVE  Durable' = Durable
BY DEF Durable

LEMMA HaltSaved ==
  ASSUME Halt
  PROVE  MappingIsSaved'
BY DEF Halt, NoLines, MappingIsSaved

LEMMA HaltLists ==
  ASSUME TypeOK, MappingIsSaved, Halt, up = TRUE, userTxt' = userTxt
  PROVE  MappingIsSaved' /\ Lists!Next
<1>1. up' = ~up
  BY DEF Halt
<1> QED BY <1>1, HaltSaved, SameTexts, ListsSwitch

(* The process is killed when a part of one list has reached its text file.*)
LEMMA StopLists ==
  ASSUME TypeOK, MappingIsSaved, Halt, up = TRUE, NEW u \in User, NEW s \in Name,
         \A w \in User \ {u} : userTxt'[w] = userTxt[w],
         NEW new,
         new \in {Durable[u], Append(Durable[u], s), RemoveFirst(Durable[u], s),
                  RemoveFirst(Append(Durable[u], s), s)},
         Firsts(userTxt'[u]) \in Prefixes(new)
  PROVE  MappingIsSaved' /\ Lists!Next
<1>1. up' = ~up /\ MappingIsSaved' /\ Durable[u] \in Seq(Name)
  BY HaltSaved, DurableFact DEF Halt
<1> DEFINE part == Firsts(userTxt'[u])
<1>2. part \in Prefixes(new) /\ Durable' = [Durable EXCEPT ![u] = part]
  BY DurableNext
<1> HIDE DEF part
<1> QED BY <1>1, <1>2, ListsTorn

(* What Settle is given: the list of u with the new line or without it, in *)
(* memory and in the text file, and the lists of others as they were.      *)
Tracks(u, s, lines, txt) ==
  /\ \A w \in DOMAIN mapping : lines[w] \in Seq(Line) /\ Firsts(lines[w]) = Firsts(txt[w])
  /\ \A w \in User \ {u} : txt[w] = userTxt[w]
  /\ Firsts(txt[u]) \in {Durable[u], Append(Durable[u], s)}

LEMMA WithLineTracks ==
  ASSUME IInv, MappingIsSaved, NEW u \in DOMAIN mapping, NEW s \in Name, NEW n \in Name
  PROVE  LET lines == WithLine(u, s, n)
             txt   == Saved(userTxt, lines, u)
         IN /\ Tracks(u, s, lines, txt)
            /\ Firsts(txt[u]) = Append(Durable[u], s)
            /\ txt[u] = lines[u] /\ u \in User
<1> DEFINE lines == WithLine(u, s, n)
           txt   == Saved(userTxt, lines, u)
           x     == [first |-> s, second |-> n]
<1>1. /\ u \in User /\ userTxt \in [User -> Seq(Line)] /\ DOMAIN mapping \subseteq User
      /\ \A w \in DOMAIN mapping : mapping[w] \in Seq(Line)
      /\ x \in Line /\ x.first = s
  BY DEF IInv, TypeOK, Line
<1>2. /\ \A w \in DOMAIN mapping \ {u} : lines[w] = Renumber(mapping[w])
      /\ lines[u] = Renumber(Append(mapping[u], x))
  BY DEF WithLine
<1> HIDE DEF x, lines
<1>3. \A w \in DOMAIN mapping : Firsts(mapping[w]) = Firsts(userTxt[w])
  BY DEF MappingIsSaved
<1>4. ASSUME NEW w \in DOMAIN mapping, w # u
      PROVE  lines[w] \in Seq(Line) /\ Firsts(lines[w]) = Firsts(userTxt[w])
  BY <1>1, <1>2, <1>3, <1>4, FirstsRenumber
<1>5. lines[u] \in Seq(Line) /\ Firsts(lines[u]) = Append(Durable[u], s)
  <2> DEFINE l == Append(mapping[u], x)
  <2>1. l \in Seq(Line)
    BY <1>1
  <2>2. Firsts(l) = Append(Firsts(mapping[u]), s)
    BY <1>1, FirstsAppend
  <2>3. Firsts(mapping[u]) = Durable[u]
    BY <1>1, <1>3 DEF Durable
  <2>4. lines[u] = Renumber(l)
    BY <1>2
  <2> HIDE DEF l
  <2>5. Renumber(l) \in Seq(Line) /\ Firsts(Renumber(l)) = Firsts(l)
    BY <2>1, FirstsRenumber
  <2> QED BY <2>2, <2>3, <2>4, <2>5
<1>6. txt[u] = lines[u] /\ \A w \in User \ {u} : txt[w] = userTxt[w]
  BY <1>1 DEF Saved
<1> HIDE DEF txt
<1>7. Tracks(u, s, lines, txt)
  <2>1. \A w \in DOMAIN mapping : lines[w] \in Seq(Line) /\ Firsts(lines[w]) = Firsts(txt[w])
    BY <1>1, <1>4, <1>5, <1>6
  <2> QED BY <1>5, <1>6, <2>1 DEF Tracks
<1> QED BY <1>1, <1>5, <1>6, <1>7 DEF lines, txt

LEMMA SettleLists ==
  ASSUME IInv, MappingIsSaved, NEW c \in Conn, NEW n, NEW all, NEW lines, NEW txt, NEW fs,
         Settles(c, n, all, lines, txt, fs), Settle(c, n, all, lines, txt, fs),
         Tracks(user[c], Last(all).name, lines, txt)
  PROVE  MappingIsSaved' /\ (Lists!Next \/ UNCHANGED Lists!vars)
<1> DEFINE u == user[c]
           s == Last(all).name
           dropped == Dropped(lines, u, s)
           L == Durable[u]
           K == Firsts(txt[u])
<1>1. /\ u \in User /\ u \in DOMAIN mapping /\ up = TRUE /\ DOMAIN mapping \subseteq User
      /\ DOMAIN lines = DOMAIN mapping /\ txt \in [User -> Seq(Line)] /\ TypeOK
  BY RunningWhenOpen DEF Settles, IInv, TypeOK
<1>2. s \in Name
  <2>1. Last(all) \in State
    BY FrontLastFact DEF Settles
  <2> QED BY <2>1 DEF State
<1>3. /\ \A w \in DOMAIN mapping : lines[w] \in Seq(Line) /\ Firsts(lines[w]) = Firsts(txt[w])
      /\ \A w \in User \ {u} : txt[w] = userTxt[w]
      /\ K \in {L, Append(L, s)}
  BY DEF Tracks
<1>4. L \in Seq(Name) /\ K \in Seq(Name)
  BY <1>1, DurableFact, FirstsFact
<1>5. K \in Prefixes(K)
  <2> HIDE DEF K
  <2> QED BY <1>2, <1>4, PrefixBefore
<1>6. /\ DropLine(lines[u], s) \in Seq(Line)
      /\ Firsts(DropLine(lines[u], s)) = RemoveFirst(K, s)
  BY <1>1, <1>3, FirstsDrop
<1>7. /\ DOMAIN dropped = DOMAIN mapping
      /\ dropped[u] \in Seq(Line) /\ Firsts(dropped[u]) = RemoveFirst(K, s)
      /\ \A w \in DOMAIN mapping \ {u} : dropped[w] = lines[w]
  BY <1>1, <1>6 DEF Dropped
<1> HIDE DEF dropped
<1>8. /\ Saved(txt, dropped, u)[u] = dropped[u]
      /\ \A w \in User \ {u} : Saved(txt, dropped, u)[w] = userTxt[w]
  BY <1>1, <1>3 DEF Saved
<1>9. /\ K \in {L, Append(L, s), RemoveFirst(L, s), RemoveFirst(Append(L, s), s)}
      /\ RemoveFirst(K, s) \in {L, Append(L, s), RemoveFirst(L, s), RemoveFirst(Append(L, s), s)}
  BY <1>3
<1>10. ASSUME NEW new \in {K, RemoveFirst(K, s)}, up' = up, MappingIsSaved',
              \A w \in User \ {u} : userTxt'[w] = userTxt[w], Firsts(userTxt'[u]) = new
       PROVE  Lists!Next \/ UNCHANGED Lists!vars
  <2>1. Durable' = [Durable EXCEPT ![u] = new]
    BY <1>1, <1>10, DurableNext
  <2>2. CASE new = L
    <3>1. Durable' = Durable
      BY <2>1, <2>2 DEF Durable
    <3> QED BY <1>10, <3>1, ListsStay
  <2>3. CASE new # L
    <3>1. new \in {Append(L, s), RemoveFirst(L, s), RemoveFirst(Append(L, s), s)}
      BY <1>3, <1>10, <2>3
    <3> HIDE DEF u, s, K
    <3> QED BY <1>1, <1>2, <1>4, <1>10, <2>1, <3>1, ListsUpdate DEF L
  <2> QED BY <2>2, <2>3
<1>11. CASE mapping' = lines /\ userTxt' = txt /\ UNCHANGED up
  <2>1. MappingIsSaved'
    BY <1>1, <1>3, <1>11 DEF MappingIsSaved
  <2> QED BY <1>3, <1>10, <1>11, <2>1
<1>12. CASE mapping' = dropped /\ userTxt' = Saved(txt, dropped, u) /\ UNCHANGED up
  <2>1. MappingIsSaved'
    <3> SUFFICES ASSUME NEW w \in DOMAIN mapping
                 PROVE  Firsts(dropped[w]) = Firsts(userTxt'[w])
      BY <1>7, <1>12 DEF MappingIsSaved
    <3>1. CASE w = u
      BY <1>8, <1>12, <3>1
    <3>2. CASE w # u
      BY <1>1, <1>3, <1>7, <1>8, <1>12, <3>2
    <3> QED BY <3>1, <3>2
  <2>2. Firsts(userTxt'[u]) = RemoveFirst(K, s)
    BY <1>7, <1>8, <1>12
  <2> QED BY <1>8, <1>10, <1>12, <2>1, <2>2
<1>13. ASSUME Halt, \A w \in User \ {u} : userTxt'[w] = userTxt[w],
              NEW new \in {K, RemoveFirst(K, s)}, Firsts(userTxt'[u]) \in Prefixes(new)
       PROVE  MappingIsSaved' /\ Lists!Next
  <2>1. new \in {L, Append(L, s), RemoveFirst(L, s), RemoveFirst(Append(L, s), s)}
    BY <1>9, <1>13
  <2> HIDE DEF u, s, K
  <2> QED BY <1>1, <1>2, <1>13, <2>1, StopLists DEF L
<1>14. CASE Halt /\ userTxt' = txt
  BY <1>3, <1>5, <1>13, <1>14
<1>15. CASE Halt /\ userTxt' = Saved(txt, dropped, u)
  <2>1. RemoveFirst(K, s) \in Prefixes(RemoveFirst(K, s))
    <3>1. RemoveFirst(K, s) \in Seq(Name)
      BY <1>7, FirstsFact
    <3> DEFINE R == RemoveFirst(K, s)
    <3> HIDE DEF R, s
    <3> QED BY <1>2, <3>1, PrefixBefore DEF R
  <2>2. Firsts(userTxt'[u]) = RemoveFirst(K, s)
    BY <1>7, <1>8, <1>15
  <2> QED BY <1>8, <1>13, <1>15, <2>1, <2>2
<1>16. CASE Halt /\ userTxt' \in SavedInPart(txt, dropped, u)
  <2>1. PICK part \in Prefixes(dropped[u]) : userTxt' = [txt EXCEPT ![u] = part]
    BY <1>16 DEF SavedInPart
  <2>2. userTxt'[u] = part /\ \A w \in User \ {u} : userTxt'[w] = userTxt[w]
    BY <1>1, <1>3, <2>1
  <2>3. Firsts(part) \in Prefixes(RemoveFirst(K, s))
    BY <1>7, FirstsPrefix
  <2> QED BY <1>13, <1>16, <2>2, <2>3
<1>17. CASE SettleCut(c, n, all, lines, txt, fs)
  BY <1>14, <1>15, <1>16, <1>17 DEF SettleCut, Crash, CutShort, Ending, dropped
<1> QED BY <1>11, <1>12, <1>14, <1>17 DEF Settle, Crash, Ending, dropped

LEMMA UploadStartLists ==
  ASSUME IInv, MappingIsSaved, NEW c \in Conn, NEW n \in UploadName, NEW v \in Part,
         UploadStart(c, n, v)
  PROVE  MappingIsSaved' /\ (Lists!Next \/ UNCHANGED Lists!vars)
<1> DEFINE u     == user[c]
           s     == ServerName(ReadDb(filesDb), n)
           lines == WithLine(u, s, n)
           txt   == Saved(userTxt, lines, u)
<1>1. /\ u \in DOMAIN mapping /\ up = TRUE /\ n \in Name /\ up' = up
      /\ mapping' = lines /\ userTxt' = txt
      /\ DOMAIN lines = DOMAIN mapping /\ DOMAIN mapping \subseteq User
  BY RunningWhenOpen, ClientName
     DEF UploadStart, CanAddLine, Ready, WithLine, IInv, TypeOK
<1>2. s \in Name
  <2>1. ReadDb(filesDb) \in Seq(State)
    BY Sorts, ReadDbType DEF IInv, TypeOK
  <2> QED BY <1>1, <2>1, Sorts, ServerNameFact
<1>3. /\ Tracks(u, s, lines, txt) /\ Firsts(txt[u]) = Append(Durable[u], s)
      /\ u \in User
  BY <1>1, <1>2, WithLineTracks
<1> HIDE DEF u, s, lines, txt
<1>4. MappingIsSaved'
  BY <1>1, <1>3 DEF Tracks, MappingIsSaved
<1> DEFINE new == Append(Durable[u], s)
<1>5. \A w \in User \ {u} : userTxt'[w] = userTxt[w]
  BY <1>1, <1>3 DEF Tracks
<1>6. Durable' = [Durable EXCEPT ![u] = new]
  BY <1>1, <1>3, <1>5, DurableNext
<1>7. Durable[u] \in Seq(Name)
  BY <1>3, DurableFact DEF IInv
<1>8. new \in {Append(Durable[u], s), RemoveFirst(Durable[u], s),
               RemoveFirst(Append(Durable[u], s), s)}
  OBVIOUS
<1> HIDE DEF new
<1>9. Lists!Next \/ UNCHANGED Lists!vars
  BY <1>1, <1>2, <1>3, <1>4, <1>6, <1>7, <1>8, ListsUpdate
<1> QED BY <1>4, <1>9

LEMMA UploadFullLists ==
  ASSUME IInv, MappingIsSaved, NEW c \in Conn, NEW n \in UploadName, NEW v \in Part,
         UploadFull(c, n, v)
  PROVE  MappingIsSaved' /\ (Lists!Next \/ UNCHANGED Lists!vars)
<1> DEFINE u     == user[c]
           all   == ReadDb(filesDb)
           s     == ServerName(all, n)
           lines == WithLine(u, s, n)
           txt   == Saved(userTxt, lines, u)
           rec   == NewRecord(all, n, u)
<1>1. /\ Settles(c, n, Append(all, rec), lines, txt, Created(s, v))
      /\ Settle(c, n, Append(all, rec), lines, txt, Created(s, v))
      /\ Last(Append(all, rec)) = rec /\ all \in Seq(State)
  BY UploadFullSettles
<1>2. u \in DOMAIN mapping /\ n \in Name
  BY <1>1, ClientName DEF UploadFull, CanAddLine
<1>3. s \in Name
  BY <1>1, <1>2, Sorts, ServerNameFact
<1>4. Tracks(u, s, lines, txt)
  BY <1>2, <1>3, WithLineTracks
<1>5. rec.name = s
  BY DEF NewRecord
<1>6. Tracks(user[c], Last(Append(all, rec)).name, lines, txt)
  BY <1>1, <1>4, <1>5
<1> HIDE DEF u, all, s, lines, txt, rec
<1> QED BY <1>1, <1>6, SettleLists

LEMMA UploadEndLists ==
  ASSUME IInv, MappingIsSaved, NEW c \in Conn, NEW v \in Part, UploadEnd(c, v)
  PROVE  MappingIsSaved' /\ (Lists!Next \/ UNCHANGED Lists!vars)
<1> DEFINE s == Last(cache[c]).name
<1>1. user[c] \in User
  <2>1. upload[c] # None
    BY DEF UploadEnd
  <2> QED BY <2>1 DEF IInv, TypeOK, UploadIsNewest
<1>2. Tracks(user[c], s, mapping, userTxt)
  BY <1>1 DEF Tracks, MappingIsSaved, Durable, IInv, TypeOK
<1> HIDE DEF s
<1> QED BY <1>2, UploadEndSettles, SettleLists DEF s

LEMMA StartCutLists ==
  ASSUME IInv, MappingIsSaved, NEW c \in Conn, NEW n \in UploadName, StartCut(c, n)
  PROVE  MappingIsSaved' /\ Lists!Next
<1> DEFINE u     == user[c]
           s     == ServerName(ReadDb(filesDb), n)
           lines == WithLine(u, s, n)
<1>1. /\ u \in DOMAIN mapping /\ up = TRUE /\ n \in Name
      /\ Halt /\ userTxt' \in SavedInPart(userTxt, lines, u)
      /\ userTxt \in [User -> Seq(Line)] /\ TypeOK
  BY RunningWhenOpen, ClientName
     DEF StartCut, CanAddLine, Ready, CutShort, Ending, IInv, TypeOK
<1>2. s \in Name
  <2>1. ReadDb(filesDb) \in Seq(State)
    BY Sorts, ReadDbType DEF IInv, TypeOK
  <2> QED BY <1>1, <2>1, Sorts, ServerNameFact
<1>3. u \in User /\ lines[u] \in Seq(Line) /\ Firsts(lines[u]) = Append(Durable[u], s)
  <2>1. /\ Tracks(u, s, lines, Saved(userTxt, lines, u)) /\ u \in User
        /\ Firsts(Saved(userTxt, lines, u)[u]) = Append(Durable[u], s)
        /\ Saved(userTxt, lines, u)[u] = lines[u]
    BY <1>1, <1>2, WithLineTracks
  <2> HIDE DEF u, s, lines
  <2> QED BY <1>1, <2>1 DEF Tracks, u
<1> HIDE DEF u, s, lines
<1>4. PICK part \in Prefixes(lines[u]) : userTxt' = [userTxt EXCEPT ![u] = part]
  BY <1>1 DEF SavedInPart
<1>5. userTxt'[u] = part /\ \A w \in User \ {u} : userTxt'[w] = userTxt[w]
  BY <1>1, <1>3, <1>4
<1> DEFINE new == Append(Durable[u], s)
<1>6. Firsts(userTxt'[u]) \in Prefixes(new)
  BY <1>3, <1>5, FirstsPrefix
<1>7. new \in {Durable[u], Append(Durable[u], s), RemoveFirst(Durable[u], s),
               RemoveFirst(Append(Durable[u], s), s)}
  OBVIOUS
<1> HIDE DEF new
<1> QED BY <1>1, <1>2, <1>3, <1>5, <1>6, <1>7, StopLists

LEMMA ListsStep ==
  ASSUME IInv, MappingIsSaved, [Next]_vars
  PROVE  MappingIsSaved' /\ (Lists!Next \/ UNCHANGED Lists!vars)
<1> DEFINE Goal == MappingIsSaved' /\ (Lists!Next \/ UNCHANGED Lists!vars)
<1>1. ASSUME UNCHANGED <<up, mapping, userTxt>> PROVE Goal
  <2>1. MappingIsSaved'
    BY <1>1 DEF MappingIsSaved
  <2> QED BY <1>1, <2>1, SameTexts, ListsStay
<1>2. ASSUME NEW c \in Conn, conn[c] # "none" \/ up, Halt, userTxt' = userTxt PROVE Goal
  <2>1. up = TRUE
    BY <1>2, RunningWhenOpen DEF IInv, TypeOK
  <2> QED BY <1>2, <2>1, HaltLists DEF IInv
<1>3. CASE Boot
  <2>1. /\ mapping' = [u \in registered |-> userTxt[u]] /\ userTxt' = userTxt
        /\ up' = ~up
    BY <1>3 DEF Boot, disk, IInv, TypeOK
  <2>2. MappingIsSaved'
    BY <2>1 DEF MappingIsSaved
  <2> QED BY <2>1, <2>2, SameTexts, ListsSwitch
<1>4. CASE Kill
  <2>1. up = TRUE /\ Halt /\ userTxt' = userTxt
    BY <1>4 DEF Kill, Crash, Ending, IInv, TypeOK
  <2> QED BY <2>1, HaltLists DEF IInv
<1>5. ASSUME NEW c \in Conn, Accept(c) \/ AcceptFails(c) \/ Disconnect(c) PROVE Goal
  BY <1>1, <1>5 DEF Accept, AcceptFails, Disconnect, disk
<1>6. ASSUME NEW c \in Conn, NEW u \in User, Login(c, u) \/ Register(c, u) PROVE Goal
  BY <1>1, <1>6 DEF Login, Register, disk
<1>7. ASSUME NEW c \in Conn, NEW v \in Part, UploadBody(c, v) PROVE Goal
  BY <1>1, <1>7 DEF UploadBody
<1>8. ASSUME NEW c \in Conn, UploadUnloaded(c) PROVE Goal
  BY <1>2, <1>8 DEF UploadUnloaded, Ready, Crash, Ending
<1>9. ASSUME NEW c \in Conn, NEW n, Delete(c, n) PROVE Goal
  <2>1. conn[c] = "open" /\ (Halt \/ UNCHANGED <<up, mapping>>) /\ userTxt' = userTxt
    BY <1>9 DEF Delete, Ready, Crash, CutShort, Ending
  <2> QED BY <1>1, <1>2, <2>1
<1>10. ASSUME NEW c \in Conn, NEW n \in UploadName, TakeMissing(c, n) PROVE Goal
  BY <1>2, <1>10 DEF TakeMissing, Ready, Crash, Ending
<1>11. CASE UNCHANGED vars
  BY <1>1, <1>11 DEF vars, disk, memory
<1> QED BY <1>3, <1>4, <1>5, <1>6, <1>7, <1>8, <1>9, <1>10, <1>11,
           UploadStartLists, UploadFullLists, UploadEndLists, StartCutLists
        DEF Next

(* Memory and text files name the same stored files, in the same order, in *)
(* every state of a running server.                                        *)
THEOREM MappingIsSavedCorrect == Spec => []MappingIsSaved
<1>1. Init => MappingIsSaved
  BY DEF Init, NoLines, MappingIsSaved
<1>2. IInv /\ MappingIsSaved /\ [Next]_vars => MappingIsSaved'
  BY ListsStep
<1> QED BY <1>1, <1>2, Invariant, PTL DEF Spec

(* Files_Mapping implements UserLists: a list survives restarts, only its  *)
(* user's uploads change it, and a kill costs at most the end of one list. *)
THEOREM StoreImplementsLists == Spec => ListsAreDurable
<1>1. Init => Lists!Init
  <2> SUFFICES ASSUME Init PROVE Lists!Init
    OBVIOUS
  <2>1. Firsts(<<>>) = <<>>
    BY DEF Firsts
  <2>2. \A u \in User : u \notin DOMAIN mapping /\ userTxt[u] = <<>>
    BY DEF Init, NoLines
  <2>3. Shown = [u \in User |-> <<>>]
    BY <2>1, <2>2 DEF Shown
  <2> QED BY <2>3 DEF Init, Lists!Init, Shown
<1>2. IInv /\ MappingIsSaved /\ [Next]_vars => [Lists!Next]_(Lists!vars)
  BY ListsStep
<1> QED BY <1>1, <1>2, Invariant, MappingIsSavedCorrect, PTL
        DEF Spec, ListsAreDurable, Lists!Spec

-----------------------------------------------------------------------------
(* The numbers that a user is shown. *)

(* A line shows a name of its file's base; a line that is not the first of *)
(* its base shows a number, and these numbers rise.                        *)
Numbered(l) ==
  /\ \A i \in DOMAIN l : l[i].second.base = l[i].first.base
  /\ \A i, j \in DOMAIN l : i < j /\ l[i].first.base = l[j].first.base =>
       /\ l[j].second.copy > 0
       /\ \A h \in DOMAIN l : h < i /\ l[h].first.base = l[i].first.base
            => l[i].second.copy < l[j].second.copy

AllNumbered ==
  /\ \A u \in User : Numbered(userTxt[u])
  /\ \A u \in DOMAIN mapping : Numbered(mapping[u])

(* set_right_copy_number establishes it whatever the numbers were, ...     *)
LEMMA RenumberNumbered ==
  ASSUME NEW l \in Seq(Line), \A i \in DOMAIN l : l[i].second.base = l[i].first.base
  PROVE  Numbered(Renumber(l))
<1> DEFINE E(i) == {j \in 1..(i - 1) : l[j].first.base = l[i].first.base}
           r == Renumber(l)
<1>1. Len(l) \in Nat /\ DOMAIN l = 1..Len(l) /\ DOMAIN r = 1..Len(l)
  BY DEF Renumber
<1>2. ASSUME NEW i \in 1..Len(l)
      PROVE  /\ r[i].first = l[i].first /\ r[i].second.base = l[i].first.base
             /\ E(i) # {} => r[i].second.copy = Cardinality(E(i))
  <2>1. l[i] \in Line /\ l[i].second \in Name
    <3>1. l[i] \in Line
      OBVIOUS
    <3> QED BY <3>1 DEF Line
  <2>2. r[i] = IF E(i) = {} THEN l[i] ELSE [l[i] EXCEPT !.second.copy = Cardinality(E(i))]
    BY <1>1 DEF Renumber
  <2>3. l[i].second.base = l[i].first.base
    BY <1>1
  <2> HIDE DEF E, r
  <2> QED BY <2>1, <2>2, <2>3 DEF Line, Name
<1>3. ASSUME NEW i \in 1..Len(l) PROVE IsFiniteSet(E(i)) /\ Cardinality(E(i)) \in Nat
  <2>1. IsFiniteSet(1..(i - 1))
    BY <1>1, FS_Interval
  <2>2. E(i) \in SUBSET (1..(i - 1))
    OBVIOUS
  <2> HIDE DEF E
  <2>3. IsFiniteSet(E(i))
    BY <2>1, <2>2, FS_Subset
  <2> QED BY <2>3, FS_CardinalityType
<1>4. ASSUME NEW i \in 1..Len(l), NEW j \in 1..Len(l), i < j,
             l[i].first.base = l[j].first.base
      PROVE  /\ i \in E(j) /\ i \notin E(i) /\ E(i) \subseteq E(j)
             /\ \A h \in 1..Len(l) : h < i /\ l[h].first.base = l[i].first.base => h \in E(i)
  BY <1>1, <1>4
<1> HIDE DEF E, r
<1>5. ASSUME NEW i \in 1..Len(l), NEW j \in 1..Len(l), i < j,
             l[i].first.base = l[j].first.base
      PROVE  /\ r[j].second.copy > 0
             /\ \A h \in 1..Len(l) : h < i /\ l[h].first.base = l[i].first.base
                  => r[i].second.copy < r[j].second.copy
  <2>1. E(j) # {} /\ E(i) # E(j)
    BY <1>4, <1>5
  <2>2. Cardinality(E(j)) > 0
    BY <1>3, <2>1, FS_EmptySet
  <2>3. Cardinality(E(i)) < Cardinality(E(j))
    <3>1. E(i) \in SUBSET E(j)
      BY <1>4, <1>5
    <3>2. Cardinality(E(i)) <= Cardinality(E(j)) /\ Cardinality(E(j)) # Cardinality(E(i))
      BY <1>3, <2>1, <3>1, FS_Subset
    <3> QED BY <1>3, <3>2
  <2> QED BY <1>2, <1>4, <1>5, <2>1, <2>2, <2>3
<1>6. Numbered(r)
  BY <1>1, <1>2, <1>5 DEF Numbered
<1> QED BY <1>6 DEF r

(* ... and it survives when lines are lost.                                *)
LEMMA FewerNumbered ==
  ASSUME NEW l \in Seq(Line), Numbered(l), NEW r \in Seq(Line),
         NEW f \in [1..Len(r) -> 1..Len(l)],
         \A i, j \in 1..Len(r) : i < j => f[i] < f[j],
         \A i \in 1..Len(r) : r[i] = l[f[i]]
  PROVE  Numbered(r)
<1>1. DOMAIN l = 1..Len(l) /\ DOMAIN r = 1..Len(r)
  OBVIOUS
<1>2. \A i \in 1..Len(r) : f[i] \in DOMAIN l
  BY <1>1
<1>3. \A i \in 1..Len(r) : r[i].second.base = r[i].first.base
  BY <1>2 DEF Numbered
<1>4. ASSUME NEW i \in 1..Len(r), NEW j \in 1..Len(r), i < j,
             r[i].first.base = r[j].first.base
      PROVE  /\ r[j].second.copy > 0
             /\ \A h \in 1..Len(r) : h < i /\ r[h].first.base = r[i].first.base
                  => r[i].second.copy < r[j].second.copy
  <2>1. f[i] < f[j] /\ l[f[i]].first.base = l[f[j]].first.base
    BY <1>4
  <2>2. ASSUME NEW h \in 1..Len(r), h < i, r[h].first.base = r[i].first.base
        PROVE  f[h] < f[i] /\ l[f[h]].first.base = l[f[i]].first.base
    BY <2>2
  <2> QED BY <1>2, <2>1, <2>2 DEF Numbered
<1> QED BY <1>1, <1>3, <1>4 DEF Numbered

LEMMA DropNumbered ==
  ASSUME NEW l \in Seq(Line), Numbered(l), NEW s
  PROVE  Numbered(DropLine(l, s))
<1>1. CASE DropLine(l, s) = l
  BY <1>1
<1>2. ASSUME NEW k \in 1..Len(l) PROVE Numbered(RemoveAt(l, k))
  <2> DEFINE r == RemoveAt(l, k)
             n == Len(l) - 1
             f == [i \in 1..n |-> IF i < k THEN i ELSE i + 1]
  <2>1. /\ r \in Seq(Line) /\ Len(r) = n
        /\ \A i \in 1..n : r[i] = IF i < k THEN l[i] ELSE l[i + 1]
    BY RemoveAtFact
  <2> HIDE DEF r
  <2>2. /\ f \in [1..Len(r) -> 1..Len(l)]
        /\ \A i, j \in 1..Len(r) : i < j => f[i] < f[j]
    BY <2>1
  <2>3. \A i \in 1..Len(r) : r[i] = l[f[i]]
    BY <2>1
  <2> HIDE DEF f
  <2>4. Numbered(r)
    BY <2>1, <2>2, <2>3, FewerNumbered
  <2> QED BY <2>4 DEF r
<1> QED BY <1>1, <1>2, Sorts, DropLineFact

LEMMA PrefixNumbered ==
  ASSUME NEW l \in Seq(Line), Numbered(l), NEW p \in Prefixes(l)
  PROVE  Numbered(p)
<1>1. p \in Seq(Line) /\ \A i \in DOMAIN p : i \in DOMAIN l /\ p[i] = l[i]
  BY PrefixFact
<1> DEFINE f == [i \in 1..Len(p) |-> i]
<1>2. /\ f \in [1..Len(p) -> 1..Len(l)]
      /\ \A i, j \in 1..Len(p) : i < j => f[i] < f[j]
      /\ \A i \in 1..Len(p) : p[i] = l[f[i]]
  BY <1>1
<1> HIDE DEF f
<1> QED BY <1>1, <1>2, FewerNumbered

(* The name shown for the file s is that of its line alone, or of an       *)
(* earlier one for the same file.                                          *)
LEMMA ShownLeadsBack ==
  ASSUME NEW l \in Seq(Line), Numbered(l), NEW s \in Name, NEW i \in LinesFor(l, s),
         LET same == {k \in DOMAIN l : l[k].first.base = s.base}
         IN l[Min(same)].second = Plain(s.base)
  PROVE  ClientServerAlternative(l, l[i].second) = s
<1> DEFINE same  == {k \in DOMAIN l : l[k].first.base = s.base}
           shown == {k \in DOMAIN l : l[k].second = l[i].second}
           j == Min(shown)
           m == Min(same)
<1>1. /\ i \in DOMAIN l /\ l[i].first = s /\ i \in shown
      /\ DOMAIN l \subseteq Nat /\ DOMAIN l = 1..Len(l)
  BY DEF LinesFor
<1>2. j \in shown /\ j <= i
  <2>1. shown \in SUBSET Nat /\ shown # {}
    BY <1>1
  <2> HIDE DEF shown
  <2> QED BY <1>1, <2>1, MinFact
<1>3. j \in DOMAIN l /\ l[j].second = l[i].second /\ l[j].first.base = s.base
  BY <1>1, <1>2 DEF Numbered
<1>4. m \in same /\ m <= j
  <2>1. same \in SUBSET Nat /\ j \in same
    BY <1>1, <1>3
  <2> HIDE DEF same, j
  <2> QED BY <2>1, MinFact
<1>5. /\ m \in DOMAIN l /\ l[m].first.base = s.base /\ l[m].second = Plain(s.base)
  BY <1>4
<1>6. ClientServerAlternative(l, l[i].second) = l[j].first
  BY <1>1 DEF ClientServerAlternative
<1> HIDE DEF same, shown, j, m
<1>7. CASE j = i
  BY <1>1, <1>6, <1>7
<1>8. CASE j # i
  <2>1. j < i /\ j \in Nat /\ i \in Nat /\ m \in Nat
    BY <1>1, <1>2, <1>3, <1>5, <1>8
  <2>2. l[i].second.copy > 0
    BY <1>1, <1>3, <2>1 DEF Numbered
  <2>3. CASE m = j
    <3>1. l[i].second.copy = 0
      BY <1>3, <1>5, <2>3 DEF Plain
    <3> QED BY <2>2, <3>1
  <2>4. CASE m # j
    <3>1. m < j
      BY <1>4, <2>1, <2>4
    <3>2. l[j].second.copy < l[i].second.copy
      BY <1>1, <1>3, <1>5, <2>1, <3>1 DEF Numbered
    <3>3. l[i].second.copy \in Nat
      <4>1. l[i] \in Line
        BY <1>1
      <4> QED BY <4>1 DEF Line, Name
    <3> QED BY <1>3, <3>2, <3>3
  <2> QED BY <2>3, <2>4
<1> QED BY <1>7, <1>8

LEMMA WithLineNumbered ==
  ASSUME IInv, AllNumbered, NEW u \in DOMAIN mapping, NEW s \in Name, NEW n \in Name,
         s.base = n.base
  PROVE  \A w \in DOMAIN mapping : Numbered(WithLine(u, s, n)[w])
<1> DEFINE x == [first |-> s, second |-> n]
           l(w) == IF w = u THEN Append(mapping[u], x) ELSE mapping[w]
<1> SUFFICES ASSUME NEW w \in DOMAIN mapping
             PROVE  Numbered(WithLine(u, s, n)[w])
  OBVIOUS
<1>1. /\ mapping[u] \in Seq(Line) /\ mapping[w] \in Seq(Line) /\ x \in Line
      /\ x.second.base = x.first.base
      /\ Numbered(mapping[u]) /\ Numbered(mapping[w])
  BY DEF IInv, TypeOK, AllNumbered, Line
<1>2. l(w) \in Seq(Line) /\ \A i \in DOMAIN l(w) : l(w)[i].second.base = l(w)[i].first.base
  <2>1. CASE w = u
    <3> DEFINE a == Append(mapping[u], x)
    <3>1. /\ a \in Seq(Line) /\ DOMAIN a = 1..(Len(mapping[u]) + 1)
          /\ a[Len(mapping[u]) + 1] = x
          /\ \A i \in 1..Len(mapping[u]) : a[i] = mapping[u][i]
      BY <1>1, AppendProperties, LenProperties
    <3>2. DOMAIN mapping[u] = 1..Len(mapping[u]) /\ Len(mapping[u]) \in Nat
      BY <1>1
    <3> HIDE DEF a, x
    <3>3. \A i \in DOMAIN a : i \in DOMAIN mapping[u] \/ i = Len(mapping[u]) + 1
      BY <3>1, <3>2
    <3>4. \A i \in DOMAIN a : a[i].second.base = a[i].first.base
      BY <1>1, <3>1, <3>2, <3>3 DEF Numbered
    <3> QED BY <2>1, <3>1, <3>4 DEF a
  <2>2. CASE w # u
    BY <1>1, <2>2 DEF Numbered
  <2> QED BY <2>1, <2>2
<1>3. WithLine(u, s, n)[w] = Renumber(l(w))
  BY DEF WithLine
<1> HIDE DEF l
<1> QED BY <1>2, <1>3, RenumberNumbered

LEMMA SettleNumbered ==
  ASSUME IInv, AllNumbered, NEW c \in Conn, NEW n, NEW all, NEW lines, NEW txt, NEW fs,
         Settles(c, n, all, lines, txt, fs), Settle(c, n, all, lines, txt, fs),
         \A w \in DOMAIN mapping : Numbered(lines[w]),
         \A w \in User : Numbered(txt[w])
  PROVE  AllNumbered'
<1> DEFINE u == user[c]
           dropped == Dropped(lines, u, Last(all).name)
<1>1. /\ u \in User /\ u \in DOMAIN mapping /\ txt \in [User -> Seq(Line)]
      /\ DOMAIN lines = DOMAIN mapping /\ \A w \in DOMAIN mapping : lines[w] \in Seq(Line)
  BY DEF Settles, IInv, TypeOK
<1>2. /\ DOMAIN dropped = DOMAIN mapping
      /\ dropped[u] \in Seq(Line)
      /\ \A w \in DOMAIN mapping : Numbered(dropped[w])
  <2>1. /\ dropped[u] = DropLine(lines[u], Last(all).name)
        /\ \A w \in DOMAIN mapping \ {u} : dropped[w] = lines[w]
        /\ DOMAIN dropped = DOMAIN mapping
    BY <1>1 DEF Dropped
  <2>2. Numbered(dropped[u]) /\ dropped[u] \in Seq(Line)
    BY <1>1, <2>1, DropNumbered, Sorts, DropLineType
  <2> QED BY <2>1, <2>2
<1> HIDE DEF dropped
<1>3. CASE userTxt' = txt /\ (mapping' = lines \/ Halt)
  BY <1>1, <1>3 DEF AllNumbered, Halt, NoLines
<1>4. CASE userTxt' = Saved(txt, dropped, u) /\ (mapping' = dropped \/ Halt)
  <2>1. \A w \in User : Numbered(userTxt'[w])
    BY <1>1, <1>2, <1>4 DEF Saved
  <2> QED BY <1>2, <1>4, <2>1 DEF AllNumbered, Halt, NoLines
<1>5. CASE userTxt' \in SavedInPart(txt, dropped, u) /\ Halt
  <2>1. PICK part \in Prefixes(dropped[u]) : userTxt' = [txt EXCEPT ![u] = part]
    BY <1>5 DEF SavedInPart
  <2>2. Numbered(part)
    BY <1>1, <1>2, PrefixNumbered
  <2>3. \A w \in User : Numbered(userTxt'[w])
    BY <1>1, <2>1, <2>2
  <2> QED BY <1>5, <2>3 DEF AllNumbered, Halt, NoLines
<1>6. CASE SettleCut(c, n, all, lines, txt, fs)
  BY <1>3, <1>4, <1>5, <1>6 DEF SettleCut, Crash, CutShort, Ending, dropped
<1> QED BY <1>3, <1>4, <1>6 DEF Settle, Crash, Ending, dropped

(* What an upload of n adds to the list of u.                              *)
LEMMA NewLineNumbered ==
  ASSUME IInv, AllNumbered, NEW u \in DOMAIN mapping, NEW n \in UploadName
  PROVE  LET s     == ServerName(ReadDb(filesDb), n)
             lines == WithLine(u, s, n)
         IN /\ s \in Name /\ n \in Name /\ u \in User
            /\ \A w \in DOMAIN mapping : lines[w] \in Seq(Line) /\ Numbered(lines[w])
            /\ \A w \in User : Numbered(Saved(userTxt, lines, u)[w])
<1> DEFINE s     == ServerName(ReadDb(filesDb), n)
           lines == WithLine(u, s, n)
<1>1. n \in Name /\ s \in Name /\ s.base = n.base
  <2>1. ReadDb(filesDb) \in Seq(State) /\ n \in Name
    BY ClientName, Sorts, ReadDbType DEF IInv, TypeOK
  <2> QED BY <2>1, Sorts, ServerNameFact
<1> HIDE DEF s
<1>2. \A w \in DOMAIN mapping : lines[w] \in Seq(Line) /\ Numbered(lines[w])
  <2>1. \A w \in DOMAIN mapping : lines[w] \in Seq(Line)
    BY <1>1, WithLineFact DEF IInv
  <2>2. \A w \in DOMAIN mapping : Numbered(lines[w])
    BY <1>1, WithLineNumbered
  <2> QED BY <2>1, <2>2
<1> HIDE DEF lines
<1>3. u \in User /\ \A w \in User : Numbered(Saved(userTxt, lines, u)[w])
  BY <1>2 DEF Saved, IInv, TypeOK, AllNumbered
<1> QED BY <1>1, <1>2, <1>3 DEF s, lines

LEMMA NumberedStep ==
  ASSUME IInv, AllNumbered, [Next]_vars
  PROVE  AllNumbered'
<1>1. ASSUME userTxt' = userTxt, mapping' = mapping \/ Halt PROVE AllNumbered'
  BY <1>1 DEF AllNumbered, Halt, NoLines
<1>2. CASE Boot
  <2>1. userTxt' = userTxt /\ mapping' = [u \in registered |-> userTxt[u]]
    BY <1>2 DEF Boot, disk
  <2>2. registered \subseteq User
    BY DEF IInv, TypeOK
  <2> QED BY <2>1, <2>2 DEF AllNumbered
<1>3. CASE Kill
  BY <1>1, <1>3 DEF Kill, Crash, Ending
<1>4. ASSUME NEW c \in Conn, Accept(c) \/ AcceptFails(c) \/ Disconnect(c) PROVE AllNumbered'
  BY <1>1, <1>4 DEF Accept, AcceptFails, Disconnect, disk
<1>5. ASSUME NEW c \in Conn, NEW u \in User, Login(c, u) \/ Register(c, u)
      PROVE  AllNumbered'
  BY <1>1, <1>5 DEF Login, Register, disk
<1>6. ASSUME NEW c \in Conn, NEW n \in UploadName, NEW v \in Part, UploadStart(c, n, v)
      PROVE  AllNumbered'
  <2> DEFINE u     == user[c]
             s     == ServerName(ReadDb(filesDb), n)
             lines == WithLine(u, s, n)
  <2>1. /\ u \in DOMAIN mapping /\ mapping' = lines /\ userTxt' = Saved(userTxt, lines, u)
        /\ DOMAIN lines = DOMAIN mapping
    BY <1>6 DEF UploadStart, CanAddLine, WithLine
  <2>2. /\ \A w \in DOMAIN mapping : Numbered(lines[w])
        /\ \A w \in User : Numbered(Saved(userTxt, lines, u)[w])
    BY <2>1, NewLineNumbered
  <2> HIDE DEF u, lines
  <2> QED BY <2>1, <2>2 DEF AllNumbered
<1>7. ASSUME NEW c \in Conn, NEW n \in UploadName, NEW v \in Part, UploadFull(c, n, v)
      PROVE  AllNumbered'
  <2> DEFINE u     == user[c]
             all   == ReadDb(filesDb)
             s     == ServerName(all, n)
             lines == WithLine(u, s, n)
             txt   == Saved(userTxt, lines, u)
             both  == Append(all, NewRecord(all, n, u))
  <2>1. /\ Settles(c, n, both, lines, txt, Created(s, v))
        /\ Settle(c, n, both, lines, txt, Created(s, v))
    BY <1>7, UploadFullSettles
  <2>2. u \in DOMAIN mapping
    BY <1>7 DEF UploadFull, CanAddLine
  <2>3. /\ \A w \in DOMAIN mapping : Numbered(lines[w])
        /\ \A w \in User : Numbered(txt[w])
    BY <2>2, NewLineNumbered
  <2> HIDE DEF all, s, lines, txt, both
  <2> QED BY <2>1, <2>3, SettleNumbered
<1>8. ASSUME NEW c \in Conn, NEW v \in Part, UploadBody(c, v) PROVE AllNumbered'
  BY <1>1, <1>8 DEF UploadBody
<1>9. ASSUME NEW c \in Conn, NEW v \in Part, UploadEnd(c, v) PROVE AllNumbered'
  BY <1>9, UploadEndSettles, SettleNumbered DEF AllNumbered
<1>10. ASSUME NEW c \in Conn, UploadUnloaded(c) PROVE AllNumbered'
  BY <1>1, <1>10 DEF UploadUnloaded, Crash, Ending
<1>11. ASSUME NEW c \in Conn, NEW n, Delete(c, n) PROVE AllNumbered'
  BY <1>1, <1>11 DEF Delete, Crash, CutShort, Ending
<1>12. ASSUME NEW c \in Conn, NEW n \in UploadName, StartCut(c, n) PROVE AllNumbered'
  <2> DEFINE u     == user[c]
             s     == ServerName(ReadDb(filesDb), n)
             lines == WithLine(u, s, n)
  <2>1. u \in DOMAIN mapping /\ Halt /\ userTxt' \in SavedInPart(userTxt, lines, u)
    BY <1>12 DEF StartCut, CanAddLine, CutShort, Ending
  <2>2. u \in User /\ lines[u] \in Seq(Line) /\ Numbered(lines[u])
    BY <2>1, NewLineNumbered
  <2> HIDE DEF u, lines
  <2>3. PICK part \in Prefixes(lines[u]) : userTxt' = [userTxt EXCEPT ![u] = part]
    BY <2>1 DEF SavedInPart
  <2>4. Numbered(part)
    BY <2>2, PrefixNumbered
  <2>5. \A w \in User : Numbered(userTxt'[w])
    BY <2>2, <2>3, <2>4 DEF AllNumbered, IInv, TypeOK
  <2> QED BY <2>1, <2>5 DEF AllNumbered, Halt, NoLines
<1>13. ASSUME NEW c \in Conn, NEW n \in UploadName, TakeMissing(c, n) PROVE AllNumbered'
  BY <1>1, <1>13 DEF TakeMissing, Crash, Ending
<1>14. CASE UNCHANGED vars
  BY <1>1, <1>14 DEF vars, disk, memory
<1> QED BY <1>2, <1>3, <1>4, <1>5, <1>6, <1>7, <1>8, <1>9, <1>10, <1>11, <1>12, <1>13, <1>14
        DEF Next

-----------------------------------------------------------------------------
(* The line of an upload in progress. *)

(* An upload in progress has its line in its user's list.                  *)
UploadListed ==
  \A c \in Conn : upload[c] # None => upload[c].srv \in ToSet(Firsts(mapping[user[c]]))

LEMMA WithLineKeeps ==
  ASSUME IInv, MappingIsSaved, NEW u \in DOMAIN mapping, NEW s \in Name, NEW n \in Name,
         NEW w \in DOMAIN mapping
  PROVE  /\ ToSet(Firsts(mapping[w])) \subseteq ToSet(Firsts(WithLine(u, s, n)[w]))
         /\ s \in ToSet(Firsts(WithLine(u, s, n)[u]))
<1> DEFINE lines == WithLine(u, s, n)
           txt   == Saved(userTxt, lines, u)
<1>1. /\ Tracks(u, s, lines, txt) /\ Firsts(txt[u]) = Append(Durable[u], s)
      /\ u \in User
  BY WithLineTracks
<1> HIDE DEF lines, txt
<1>2. w \in User /\ Firsts(mapping[w]) = Firsts(userTxt[w])
  BY DEF MappingIsSaved, IInv, TypeOK
<1>3. Firsts(lines[w]) = Firsts(txt[w]) /\ Firsts(lines[u]) = Append(Durable[u], s)
  BY <1>1 DEF Tracks
<1>4. /\ Durable[u] = Firsts(userTxt[u])
      /\ ToSet(Durable[u]) \subseteq ToSet(Append(Durable[u], s))
      /\ s \in ToSet(Append(Durable[u], s))
  <2>1. Durable[u] = Firsts(userTxt[u]) /\ Durable[u] \in Seq(Name)
    BY <1>1, DurableFact DEF IInv
  <2> QED BY <2>1, AppendKeeps
<1>5. CASE w = u
  BY <1>2, <1>3, <1>4, <1>5 DEF lines
<1>6. CASE w # u
  <2>1. txt[w] = userTxt[w]
    BY <1>1, <1>2, <1>6 DEF Tracks
  <2> QED BY <1>2, <1>3, <1>4, <2>1 DEF lines
<1> QED BY <1>5, <1>6

(* A duplicate's line is never that of another upload in progress: remove  *)
(* would throw.                                                            *)
LEMMA SettleKeepsLine ==
  ASSUME IInv, UploadListed, NEW c \in Conn, upload[c] # None,
         NEW d \in Conn \ {c}, NEW n, NEW all, NEW lines, NEW txt, NEW fs,
         Settles(d, n, all, lines, txt, fs), Settle(d, n, all, lines, txt, fs), ~Halt,
         \A w \in DOMAIN mapping : ToSet(Firsts(mapping[w])) \subseteq ToSet(Firsts(lines[w]))
  PROVE  upload[c].srv \in ToSet(Firsts(mapping'[user[c]]))
<1> DEFINE s == Last(all).name
           u == user[d]
           dropped == Dropped(lines, u, s)
           f == upload[c].srv
<1>1. /\ user[c] \in DOMAIN mapping /\ f \in ToSet(Firsts(lines[user[c]]))
      /\ u \in DOMAIN mapping
      /\ DOMAIN lines = DOMAIN mapping /\ lines[u] \in Seq(Line)
  BY DEF UploadListed, IInv, UploadIsNewest, Settles
<1>2. CASE mapping' = lines
  BY <1>1, <1>2
<1>3. CASE mapping' = dropped /\ Rivals(d, s) = {}
  <2>1. f # s
    BY <1>3 DEF Rivals
  <2>2. CASE user[c] = u
    <3>1. Firsts(dropped[u]) = RemoveFirst(Firsts(lines[u]), s)
      BY <1>1, FirstsDrop DEF Dropped
    <3>2. Firsts(lines[u]) \in Seq(Name)
      BY <1>1, FirstsFact
    <3>3. ToSet(Firsts(lines[u])) \ {s} \subseteq ToSet(RemoveFirst(Firsts(lines[u]), s))
      <4> DEFINE l == Firsts(lines[u])
      <4> HIDE DEF l, s
      <4> QED BY <3>2, RemoveFirstKeeps DEF l
    <3> QED BY <1>1, <1>3, <2>1, <2>2, <3>1, <3>3
  <2>3. CASE user[c] # u
    BY <1>1, <1>3, <2>3 DEF Dropped
  <2> QED BY <2>2, <2>3
<1>4. mapping' = lines \/ (mapping' = dropped /\ Rivals(d, s) = {})
  BY DEF Settle, SettleCut, Crash, CutShort, Ending
<1> QED BY <1>2, <1>3, <1>4

(* No step takes the line of an upload in progress out of the list.        *)
LEMMA LineStays ==
  ASSUME IInv, MappingIsSaved, UploadListed, [Next]_vars,
         NEW c \in Conn, upload[c] # None, upload'[c] # None
  PROVE  upload[c].srv \in ToSet(Firsts(mapping'[user[c]]))
<1> DEFINE f == upload[c].srv
           w == user[c]
           Goal == f \in ToSet(Firsts(mapping'[w]))
<1>1. /\ upload'[c].srv = f /\ user'[c] = w
      /\ w \in DOMAIN mapping /\ f \in ToSet(Firsts(mapping[w]))
      /\ conn[c] = "open" /\ up = TRUE /\ ~Halt
  <2>1. conn[c] = "open" /\ ~Halt /\ w \in DOMAIN mapping
    BY DEF Halt, IInv, UploadIsNewest
  <2>2. up = TRUE
    BY <2>1, RunningWhenOpen DEF IInv
  <2> QED BY <2>1, <2>2, UploadGoesOn DEF UploadListed
<1>2. ASSUME mapping' = mapping PROVE Goal
  BY <1>1, <1>2
<1>3. ASSUME NEW d \in Conn, NEW n \in UploadName, user[d] \in DOMAIN mapping
      PROVE  \A x \in DOMAIN mapping : ToSet(Firsts(mapping[x])) \subseteq
               ToSet(Firsts(WithLine(user[d], ServerName(ReadDb(filesDb), n), n)[x]))
  <2>1. ReadDb(filesDb) \in Seq(State) /\ n \in Name
    BY ClientName, Sorts, ReadDbType DEF IInv, TypeOK
  <2>2. ServerName(ReadDb(filesDb), n) \in Name
    BY <2>1, Sorts, ServerNameFact
  <2> QED BY <1>3, <2>1, <2>2, WithLineKeeps
<1>4. ASSUME NEW d \in Conn, NEW n \in UploadName, NEW v \in Part, UploadStart(d, n, v)
      PROVE  Goal
  <2> DEFINE lines == WithLine(user[d], ServerName(ReadDb(filesDb), n), n)
  <2>1. user[d] \in DOMAIN mapping /\ mapping' = lines
    BY <1>4 DEF UploadStart, CanAddLine
  <2>2. ToSet(Firsts(mapping[w])) \subseteq ToSet(Firsts(lines[w]))
    BY <1>1, <1>3, <2>1
  <2> HIDE DEF lines, w, f
  <2> QED BY <1>1, <2>1, <2>2
<1>5. ASSUME NEW d \in Conn, NEW n \in UploadName, NEW v \in Part, UploadFull(d, n, v)
      PROVE  Goal
  <2> DEFINE u     == user[d]
             all   == ReadDb(filesDb)
             s     == ServerName(all, n)
             lines == WithLine(u, s, n)
             txt   == Saved(userTxt, lines, u)
             both  == Append(all, NewRecord(all, n, u))
  <2>1. /\ Settles(d, n, both, lines, txt, Created(s, v))
        /\ Settle(d, n, both, lines, txt, Created(s, v))
    BY <1>5, UploadFullSettles
  <2>2. d # c /\ u \in DOMAIN mapping
    BY <1>5 DEF UploadFull, Ready, CanAddLine
  <2>3. \A x \in DOMAIN mapping :
          ToSet(Firsts(mapping[x])) \subseteq ToSet(Firsts(lines[x]))
    BY <1>3, <2>2
  <2> HIDE DEF u, all, s, lines, txt, both
  <2> QED BY <1>1, <2>1, <2>2, <2>3, SettleKeepsLine
<1>6. ASSUME NEW d \in Conn, NEW v \in Part, UploadEnd(d, v) PROVE Goal
  <2>1. /\ Settles(d, upload[d].name, cache[d], mapping, userTxt, Written(d, v))
        /\ Settle(d, upload[d].name, cache[d], mapping, userTxt, Written(d, v))
    BY <1>6, UploadEndSettles
  <2>2. d # c
    <3>1. upload'[d] = None
      <4>1. upload \in [Conn -> Upload \cup {None}]
        BY DEF IInv, TypeOK
      <4> QED BY <1>1, <2>1, <4>1 DEF Settle, SettleCut, Crash, CutShort, Ending
    <3> QED BY <3>1
  <2> QED BY <1>1, <2>1, <2>2, SettleKeepsLine
<1>7. CASE Boot \/ Kill
  BY <1>1, <1>7 DEF Boot, Kill, Crash, Ending
<1>8. ASSUME NEW d \in Conn, Accept(d) \/ AcceptFails(d) \/ Disconnect(d) PROVE Goal
  BY <1>2, <1>8 DEF Accept, AcceptFails, Disconnect
<1>9. ASSUME NEW d \in Conn, NEW u \in User, Login(d, u) \/ Register(d, u) PROVE Goal
  BY <1>2, <1>9 DEF Login, Register
<1>10. ASSUME NEW d \in Conn, NEW v \in Part, UploadBody(d, v) PROVE Goal
  BY <1>2, <1>10 DEF UploadBody
<1>11. ASSUME NEW d \in Conn, UploadUnloaded(d) PROVE Goal
  BY <1>1, <1>11 DEF UploadUnloaded, Crash, Ending
<1>12. ASSUME NEW d \in Conn, NEW n, Delete(d, n) PROVE Goal
  BY <1>1, <1>2, <1>12 DEF Delete, Crash, CutShort, Ending
<1>13. ASSUME NEW d \in Conn, NEW n \in UploadName, StartCut(d, n) \/ TakeMissing(d, n)
       PROVE  Goal
  BY <1>1, <1>13 DEF StartCut, TakeMissing, Crash, CutShort, Ending
<1>14. CASE UNCHANGED vars
  BY <1>2, <1>14 DEF vars, memory
<1> QED BY <1>4, <1>5, <1>6, <1>7, <1>8, <1>9, <1>10, <1>11, <1>12, <1>13, <1>14 DEF Next

LEMMA UploadListedStep ==
  ASSUME IInv, MappingIsSaved, UploadListed, [Next]_vars
  PROVE  UploadListed'
<1> SUFFICES ASSUME NEW c \in Conn, upload'[c] # None
             PROVE  upload'[c].srv \in ToSet(Firsts(mapping'[user'[c]]))
  BY DEF UploadListed
<1>1. CASE upload[c] = None
  <2>1. PICK n \in UploadName, v \in Part : UploadStart(c, n, v)
    BY <1>1, Begins DEF IInv
  <2> DEFINE u == user[c]
             s == ServerName(ReadDb(filesDb), n)
  <2>2. /\ u \in DOMAIN mapping /\ n \in Name /\ mapping' = WithLine(u, s, n)
        /\ user' = user /\ upload'[c].srv = s
    <3>1. upload \in [Conn -> Upload \cup {None}]
      BY DEF IInv, TypeOK
    <3>2. upload' = [upload EXCEPT ![c] = [name |-> n, srv |-> s, sent |-> <<v>>]]
      BY <2>1 DEF UploadStart
    <3>3. upload'[c].srv = s
      BY <3>1, <3>2
    <3> QED BY <2>1, <3>3, ClientName DEF UploadStart, CanAddLine
  <2>3. s \in Name
    <3>1. ReadDb(filesDb) \in Seq(State)
      BY Sorts, ReadDbType DEF IInv, TypeOK
    <3> QED BY <2>2, <3>1, Sorts, ServerNameFact
  <2> HIDE DEF u, s
  <2>4. s \in ToSet(Firsts(WithLine(u, s, n)[u]))
    BY <2>2, <2>3, WithLineKeeps
  <2> QED BY <2>2, <2>4 DEF u
<1>2. CASE upload[c] # None
  BY <1>2, UploadGoesOn, LineStays
<1> QED BY <1>1, <1>2

(* An upload that nobody disturbed and that was kept.                      *)
LEMMA ServedFact ==
  ASSUME IInv, SoleInv, AllNumbered, UploadListed, NEW c \in Conn, NEW v \in Part,
         UploadEnd(c, v), c \notin clash, up', upload[c].srv \in DOMAIN files'
  PROVE  FoundAgain(user[c], upload[c].srv, Append(upload[c].sent, v))
<1> DEFINE u     == user[c]
           s     == upload[c].srv
           sent  == upload[c].sent
           fs    == Written(c, v)
           lines == mapping'[u]
           same  == {i \in DOMAIN lines : lines[i].first.base = s.base}
<1>1. /\ upload[c] # None /\ s \in Name /\ u \in DOMAIN mapping
      /\ Last(cache[c]).name = s /\ s \in DOMAIN files /\ files[s] = sent
  <2>1. upload[c] # None
    BY DEF UploadEnd
  <2>2. s \in Name
    BY <2>1, UploadFact DEF IInv
  <2> QED BY <2>1, <2>2 DEF IInv, UploadIsNewest, SoleInv, SoleWriterIntact
<1>2. mapping' = mapping /\ files' = fs
  <2>1. Settle(c, upload[c].name, cache[c], mapping, userTxt, fs) /\ ~Halt
    BY UploadEndSettles DEF Halt
  <2>2. DOMAIN Removed(fs, cache[c], upload[c].name) = DOMAIN fs \ {s}
    BY <1>1 DEF Removed, Restrict
  <2> HIDE DEF fs, s
  <2>3. files' # Removed(fs, cache[c], upload[c].name)
    BY <2>2 DEF s
  <2> QED BY <2>1, <2>3 DEF Settle, SettleCut, Crash, CutShort, Ending
<1>3. fs[s] = Append(sent, v)
  <2>1. sent \in Seq(Part \cup {Zero}) /\ v \in Part \cup {Zero} /\ Zero \in Part \cup {Zero}
    BY <1>1 DEF IInv, TypeOK, Content
  <2>2. fs[s] = WriteAt(sent, Len(sent), v, Zero)
    BY <1>1 DEF Written
  <2> HIDE DEF sent, fs, s
  <2> QED BY <2>1, <2>2, WriteAtEnd
<1>4. lines \in Seq(Line) /\ Numbered(lines) /\ LinesFor(lines, s) # {}
  <2>1. lines \in Seq(Line) /\ Numbered(lines) /\ s \in ToSet(Firsts(lines))
    BY <1>1, <1>2 DEF IInv, TypeOK, AllNumbered, UploadListed
  <2> HIDE DEF lines, s
  <2> QED BY <2>1 DEF ToSet, Firsts, LinesFor
<1>5. ASSUME lines[Min(same)].second = Plain(s.base)
      PROVE  \E i \in LinesFor(lines, s) :
               LET f == ClientServerAlternative(lines, lines[i].second)
               IN f \in DOMAIN files' /\ files'[f] = Append(sent, v)
  <2>1. PICK i \in LinesFor(lines, s) : TRUE
    BY <1>4
  <2> HIDE DEF lines, s, sent, fs
  <2>2. ClientServerAlternative(lines, lines[i].second) = s
    BY <1>1, <1>4, <1>5, ShownLeadsBack
  <2>3. s \in DOMAIN files' /\ files'[s] = Append(sent, v)
    BY <1>2, <1>3 DEF s
  <2> QED BY <2>1, <2>2, <2>3
<1> QED BY <1>5 DEF FoundAgain

(* Whatever copies, duplicates, uploads cut off and kills came before: if  *)
(* the first line of the base name in the list of its user shows a name    *)
(* without number, the list shows a name for an upload that ran undisturbed*)
(* and was kept, and the name leads to a file with exactly the parts it    *)
(* sent.                                                                   *)
THEOREM UploadedIsServedCorrect == Spec => UploadedIsServed
<1> DEFINE Served ==
      \A c \in Conn, v \in Part :
        UploadEnd(c, v) /\ c \notin clash /\ up' /\ upload[c].srv \in DOMAIN files'
          => FoundAgain(user[c], upload[c].srv, Append(upload[c].sent, v))
           Inv3 == SoleInv /\ AllNumbered /\ UploadListed
<1>1. Init => Inv3
  <2>1. Numbered(<<>>)
    BY DEF Numbered
  <2> QED BY <2>1 DEF Init, NoLines, SoleInv, SharingIsMarked, SoleWriterIntact,
                      AllNumbered, UploadListed
<1>2. IInv /\ MappingIsSaved /\ Inv3 /\ [Next]_vars => Inv3'
  BY SoleStep, NumberedStep, UploadListedStep
<1>3. IInv /\ Inv3 /\ [Next]_vars => [Served]_vars
  BY ServedFact
<1> QED BY <1>1, <1>2, <1>3, Invariant, MappingIsSavedCorrect, PTL DEF Spec, UploadedIsServed
===============================================================================
