---------------------------- MODULE FileStoreProofs ----------------------------
(***************************************************************************)
(* Proofs about FileStore, for any number of users, names, parts,          *)
(* connections and lines.  IInv is the inductive invariant they share: the *)
(* types, which depend on the record of an upload in progress being the    *)
(* last of all_files and on its user being loaded (UploadIsNewest).        *)
(***************************************************************************)
EXTENDS FileStore, StoreTablesProofs

IInv == TypeOK /\ UploadIsNewest

(* The base names, with the one that a line without users has.             *)
Bases == Base \cup {NoName}

LEMMA Sorts ==
  /\ Name = NameOf(Bases) /\ DbRecord = RecordOf(Bases, Owner)
  /\ State = StateOf(Bases, Owner) /\ Line = LineOf(Bases)
  /\ User \subseteq Owner /\ Nobody \in Owner /\ NoName \in Bases
<1>1. Name = NameOf(Bases) /\ NoName \in Bases
  BY DEF Name, NameOf, Bases
<1> QED BY <1>1 DEF DbRecord, State, Line, Owner, NameOf, RecordOf, StateOf, LineOf

(* A client's file has a name.                                             *)
LEMMA ClientName ==
  ASSUME NEW n \in UploadName
  PROVE  n \in Name /\ n # Nameless /\ n.base \in Base /\ n.base # NoName
<1>1. n \in [copy : Nat, base : Base] /\ NoName \notin Base
  BY ConstantsAssumption
<1>2. n \in Name /\ n.base \in Base
  BY <1>1 DEF Name
<1>3. Nameless.base = NoName
  BY DEF Nameless, Plain
<1> QED BY <1>1, <1>2, <1>3

(* An upload in progress, apart from None.                                 *)
LEMMA UploadFact ==
  ASSUME TypeOK, NEW c \in Conn, upload[c] # None
  PROVE  /\ upload[c] \in Upload
         /\ upload[c].name \in UploadName /\ upload[c].srv \in Name
         /\ upload[c].sent \in Seq(Part)
<1>1. upload[c] \in Upload
  BY DEF TypeOK
<1> QED BY <1>1 DEF Upload

(* Starting a file truncates or creates it and leaves the others.          *)
LEMMA CreatedFact ==
  ASSUME TypeOK, NEW s \in Name, NEW v \in Part
  PROVE  /\ DOMAIN Created(s, v) = DOMAIN files \cup {s}
         /\ DOMAIN Created(s, v) \subseteq Name
         /\ \A x \in DOMAIN Created(s, v) :
              Created(s, v)[x] = (IF x = s THEN <<v>> ELSE files[x])
         /\ \A x \in DOMAIN Created(s, v) : Created(s, v)[x] \in Content
<1>1. <<v>> \in Content
  BY DEF Content
<1> QED BY <1>1 DEF Created, TypeOK

LEMMA RemovedFact ==
  ASSUME NEW fs, NEW all, NEW n
  PROVE  /\ DOMAIN Removed(fs, all, n) = DOMAIN fs \ {Last(all).name}
         /\ \A x \in DOMAIN fs \ {Last(all).name} : Removed(fs, all, n)[x] = fs[x]
BY DEF Removed, Restrict

(* A duplicate has an older record, and the file of its name is there.     *)
LEMMA DuplicateFact ==
  ASSUME NEW all, NEW n, NEW fs, IsDuplicate(all, n, fs)
  PROVE  Named(Front(all), n) # {} /\ n \in DOMAIN fs
<1>1. Cardinality(Named(Front(all), n)) > 0
  BY DEF IsDuplicate
<1>2. Cardinality({}) = 0
  BY FS_EmptySet
<1>3. Named(Front(all), n) # {}
  <2> SUFFICES ASSUME Named(Front(all), n) = {} PROVE FALSE
    OBVIOUS
  <2>1. Cardinality(Named(Front(all), n)) = 0
    BY <1>2
  <2> QED BY <1>1, <2>1
<1> QED BY <1>3 DEF IsDuplicate

LEMMA WithLineFact ==
  ASSUME TypeOK, NEW u \in DOMAIN mapping, NEW s \in Name, NEW n \in Name
  PROVE  /\ DOMAIN WithLine(u, s, n) = DOMAIN mapping
         /\ \A w \in DOMAIN mapping : WithLine(u, s, n)[w] \in Seq(Line)
<1> SUFFICES ASSUME NEW w \in DOMAIN mapping PROVE WithLine(u, s, n)[w] \in Seq(Line)
  BY DEF WithLine
<1>1. mapping[u] \in Seq(Line) /\ mapping[w] \in Seq(Line)
  BY DEF TypeOK
<1>2. [first |-> s, second |-> n] \in Line
  BY DEF Line
<1>3. Append(mapping[u], [first |-> s, second |-> n]) \in Seq(Line)
  BY <1>1, <1>2
<1> QED BY <1>1, <1>3, Sorts, RenumberFact DEF WithLine

LEMMA WrittenFact ==
  ASSUME IInv, NEW c \in Conn, upload[c] # None, NEW v \in Part
  PROVE  /\ DOMAIN Written(c, v) = DOMAIN files
         /\ \A x \in DOMAIN files : Written(c, v)[x] \in Content
<1>1. upload[c].srv \in DOMAIN files /\ upload[c].sent \in Seq(Part)
  BY UploadFact DEF IInv, UploadIsNewest
<1> DEFINE s == upload[c].srv
           w == WriteAt(files[s], Len(upload[c].sent), v, Zero)
<1>2. w \in Content
  <2>1. files[s] \in Seq(Part \cup {Zero}) /\ Len(upload[c].sent) \in Nat
    BY <1>1 DEF IInv, TypeOK, Content
  <2> QED BY <2>1, WriteAtType DEF Content
<1>3. Written(c, v) = [files EXCEPT ![s] = w]
  BY DEF Written
<1> HIDE DEF w
<1> QED BY <1>1, <1>2, <1>3 DEF IInv, TypeOK

(* Fact about the arguments Settle gets in UploadEnd and UploadFull.       *)
Settles(c, n, all, lines, txt, fs) ==
  /\ conn[c] = "open" /\ user[c] \in DOMAIN mapping /\ n \in Name
  /\ all \in Seq(State) /\ all # <<>>
  /\ DOMAIN lines = DOMAIN mapping /\ \A w \in DOMAIN mapping : lines[w] \in Seq(Line)
  /\ txt \in [User -> Seq(Line)]
  /\ DOMAIN fs \subseteq Name /\ \A x \in DOMAIN fs : fs[x] \in Content
  /\ DOMAIN files \subseteq DOMAIN fs

(* What an abrupt end of the process leaves is still a directory.          *)
LEMMA RemainsFact ==
  ASSUME NEW fs, \A x \in DOMAIN fs : fs[x] \in Content, NEW open \in SUBSET Conn,
         NEW rest \in Remains(fs, open)
  PROVE  DOMAIN rest = DOMAIN fs /\ \A x \in DOMAIN rest : rest[x] \in Content
<1>1. PICK lost \in SUBSET open :
        rest = [s \in DOMAIN fs |->
                  IF \E c \in lost : upload[c].srv = s THEN Front(fs[s]) ELSE fs[s]]
  BY DEF Remains
<1>2. \A s \in DOMAIN fs : fs[s] \in Content /\ Front(fs[s]) \in Content
  BY FrontLastFact DEF Content
<1> QED BY <1>1, <1>2

LEMMA EndingInv ==
  ASSUME IInv, NEW open \in SUBSET Conn, NEW fs, Ending(open, fs),
         DOMAIN fs \subseteq Name, \A x \in DOMAIN fs : fs[x] \in Content,
         userTxt' \in [User -> Seq(Line)], filesDb' \in Seq(DbRecord),
         cuts' \in 0..MaxCuts
  PROVE  IInv'
<1>1. DOMAIN files' \subseteq Name /\ \A x \in DOMAIN files' : files'[x] \in Content
  BY RemainsFact DEF Ending
<1> QED BY <1>1, ConstantsAssumption, EmptySeq
        DEF IInv, TypeOK, UploadIsNewest, Ending, Halt, NoLines

LEMMA CrashInv ==
  ASSUME IInv, NEW open \in SUBSET Conn, NEW fs, NEW txt, Crash(open, fs, txt),
         DOMAIN fs \subseteq Name, \A x \in DOMAIN fs : fs[x] \in Content,
         txt \in [User -> Seq(Line)]
  PROVE  IInv'
BY EndingInv DEF Crash, IInv, TypeOK

LEMMA CutShortInv ==
  ASSUME IInv, NEW open \in SUBSET Conn, NEW fs, NEW txts, NEW dbs,
         CutShort(open, fs, txts, dbs),
         DOMAIN fs \subseteq Name, \A x \in DOMAIN fs : fs[x] \in Content,
         \A txt \in txts : txt \in [User -> Seq(Line)], \A db \in dbs : db \in Seq(DbRecord)
  PROVE  IInv'
<1>1. cuts' \in 0..MaxCuts
  BY ConstantsAssumption DEF CutShort, IInv, TypeOK
<1> QED BY <1>1, EndingInv DEF CutShort

(* The line of a new record.                                               *)
LEMMA RecordedFact ==
  ASSUME filesDb \in Seq(DbRecord), NEW all \in Seq(State), all # <<>>
  PROVE  LET r == Last(all)
             l == [name |-> r.name, users |-> r.users]
         IN /\ r \in State /\ l \in DbRecord
            /\ Recorded(r) = Append(filesDb, l) /\ Recorded(r) \in Seq(DbRecord)
            /\ Last(Recorded(r)) = l
<1> DEFINE r == Last(all)
           l == [name |-> r.name, users |-> r.users]
<1>1. r \in State
  BY FrontLastFact
<1> HIDE DEF r
<1>2. l \in DbRecord
  BY <1>1 DEF State, DbRecord
<1>3. Recorded(r) = Append(filesDb, l)
  BY DEF Recorded
<1> HIDE DEF l
<1>4. Append(filesDb, l) \in Seq(DbRecord) /\ Last(Append(filesDb, l)) = l
  BY <1>2, AppendFact
<1> QED BY <1>1, <1>2, <1>3, <1>4 DEF r, l

LEMMA SavedInPartFact ==
  ASSUME NEW txt \in [User -> Seq(Line)], NEW lines, NEW u \in User, lines[u] \in Seq(Line),
         NEW cut \in SavedInPart(txt, lines, u)
  PROVE  cut \in [User -> Seq(Line)]
<1>1. PICK part \in Prefixes(lines[u]) : cut = [txt EXCEPT ![u] = part]
  BY DEF SavedInPart
<1>2. part \in Seq(Line)
  BY PrefixFact
<1> QED BY <1>1, <1>2

(* The types of what a duplicate changes.                                  *)
LEMMA DiscardFact ==
  ASSUME IInv, NEW c \in Conn, NEW n, NEW all, NEW lines, NEW txt, NEW fs,
         Settles(c, n, all, lines, txt, fs), IsDuplicate(all, n, fs)
  PROVE  LET u       == user[c]
             joined  == JoinOwner(Front(all), n, u)
             dropped == Dropped(lines, u, Last(all).name)
         IN /\ joined \in Seq(State) /\ WriteDb(joined) \in Seq(DbRecord)
            /\ DOMAIN dropped = DOMAIN mapping
            /\ \A w \in DOMAIN mapping : dropped[w] \in Seq(Line)
            /\ u \in User /\ dropped[u] \in Seq(Line)
            /\ Saved(txt, dropped, u) \in [User -> Seq(Line)]
<1> DEFINE u == user[c]
           s == Last(all).name
           joined == JoinOwner(Front(all), n, u)
           dropped == Dropped(lines, u, s)
<1>1. /\ u \in User /\ u \in DOMAIN mapping /\ u \in Owner /\ n \in Name
      /\ Front(all) \in Seq(State) /\ Last(all) \in State
  BY Sorts, FrontLastFact DEF IInv, TypeOK, Settles
<1>2. joined \in Seq(State)
  <2>1. Named(Front(all), n) # {}
    BY DuplicateFact
  <2> QED BY <1>1, <2>1, Sorts, JoinOwnerFact
<1>3. WriteDb(joined) \in Seq(DbRecord)
  BY <1>2, Sorts, WriteDbType
<1>4. /\ DOMAIN dropped = DOMAIN mapping
      /\ \A w \in DOMAIN mapping : dropped[w] \in Seq(Line)
  <2>1. DropLine(lines[u], s) \in Seq(Line)
    BY <1>1, Sorts, DropLineType DEF Settles
  <2> QED BY <2>1 DEF Dropped, Settles
<1>5. Saved(txt, dropped, u) \in [User -> Seq(Line)]
  <2>1. dropped[u] \in Seq(Line)
    BY <1>1, <1>4
  <2> HIDE DEF dropped
  <2> QED BY <2>1 DEF Saved, Settles
<1> QED BY <1>1, <1>2, <1>3, <1>4, <1>5

LEMMA SettleCutInv ==
  ASSUME IInv, NEW c \in Conn, NEW n, NEW all, NEW lines, NEW txt, NEW fs,
         Settles(c, n, all, lines, txt, fs), SettleCut(c, n, all, lines, txt, fs)
  PROVE  IInv'
<1> DEFINE u == user[c]
           s == Last(all).name
           joined == JoinOwner(Front(all), n, u)
           dropped == Dropped(lines, u, s)
           open == Uploading \ {c}
           less == Removed(fs, all, n)
<1>1. open \in SUBSET Conn
  BY DEF Uploading
<1>2. CASE Crash(open, fs, txt)
  BY <1>1, <1>2, CrashInv DEF Settles
<1>3. ASSUME IsDuplicate(all, n, fs)
      PROVE  /\ WriteDb(joined) \in Seq(DbRecord)
             /\ u \in User /\ dropped[u] \in Seq(Line)
             /\ Saved(txt, dropped, u) \in [User -> Seq(Line)]
  BY <1>3, DiscardFact
<1>7. DOMAIN less \subseteq Name /\ \A x \in DOMAIN less : less[x] \in Content
  <2>1. DOMAIN less = DOMAIN fs \ {s} /\ \A x \in DOMAIN fs \ {s} : less[x] = fs[x]
    BY RemovedFact
  <2> HIDE DEF less
  <2> QED BY <2>1 DEF Settles
<1> DEFINE txts == {txt} \cup SavedInPart(txt, dropped, u)
           dbs  == Torn(WriteDb(joined))
           more == {Append(filesDb, l) : l \in TornLine(Last(Recorded(Last(all))))}
<1>4. filesDb \in Seq(DbRecord) /\ txt \in [User -> Seq(Line)]
  BY DEF IInv, TypeOK, Settles
<1>5. CASE IsDuplicate(all, n, fs) /\ CutShort(open, less, txts, {filesDb})
  <2> HIDE DEF open, less, dropped
  <2>1. \A t \in txts : t \in [User -> Seq(Line)]
    BY <1>3, <1>4, <1>5, SavedInPartFact DEF dropped
  <2> DEFINE one == {filesDb}
  <2>2. CutShort(open, less, txts, one) /\ \A db \in one : db \in Seq(DbRecord)
    BY <1>4, <1>5
  <2> HIDE DEF txts, one
  <2> QED BY <1>1, <1>7, <2>1, <2>2, CutShortInv
<1>6. CASE IsDuplicate(all, n, fs) /\ CutShort(open, less, {Saved(txt, dropped, u)}, dbs)
  <2> HIDE DEF open, less, dropped, joined
  <2>1. \A db \in dbs : db \in Seq(DbRecord)
    BY <1>3, <1>6, Sorts, TornFact
  <2> DEFINE one == {Saved(txt, dropped, u)}
  <2>2. CutShort(open, less, one, dbs) /\ \A t \in one : t \in [User -> Seq(Line)]
    BY <1>3, <1>6
  <2> HIDE DEF dbs, one
  <2> QED BY <1>1, <1>7, <2>1, <2>2, CutShortInv
<1>8. CASE ~IsDuplicate(all, n, fs) /\ CutShort(open, fs, {txt}, more)
  <2>1. \A db \in more : db \in Seq(DbRecord)
    <3>1. ASSUME NEW l \in TornLine(Last(Recorded(Last(all)))) PROVE l \in DbRecord
      <4>1. Last(Recorded(Last(all))) \in DbRecord
        BY RecordedFact DEF Settles, IInv, TypeOK
      <4> QED BY <4>1, Sorts, TornLineFact
    <3> QED BY <1>4, <3>1
  <2> DEFINE one == {txt}
  <2>2. CutShort(open, fs, one, more) /\ \A t \in one : t \in [User -> Seq(Line)]
    BY <1>4, <1>8
  <2>3. DOMAIN fs \subseteq Name /\ \A x \in DOMAIN fs : fs[x] \in Content
    BY DEF Settles
  <2> HIDE DEF open, more, one
  <2> QED BY <1>1, <2>1, <2>2, <2>3, CutShortInv
<1> QED BY <1>2, <1>5, <1>6, <1>8 DEF SettleCut

LEMMA SettleInv ==
  ASSUME IInv, NEW c \in Conn, NEW n, NEW all, NEW lines, NEW txt, NEW fs,
         Settles(c, n, all, lines, txt, fs), Settle(c, n, all, lines, txt, fs)
  PROVE  IInv'
<1> DEFINE u == user[c]
           s == Last(all).name
           joined == JoinOwner(Front(all), n, u)
           dropped == Dropped(lines, u, s)
<1>1. /\ u \in User /\ u \in registered /\ u # None
      /\ all \in Seq(State) /\ Front(all) \in Seq(State) /\ Last(all) \in State
  BY ConstantsAssumption, FrontLastFact DEF IInv, TypeOK, Settles
<1>2. s \in Name /\ Last(all).users \in Seq(Owner)
  BY <1>1 DEF State
<1>3. Clashing(c, s) \subseteq Conn
  BY DEF Clashing, Rivals, IInv, TypeOK
<1>4. CASE /\ ~IsDuplicate(all, n, fs)
           /\ filesDb' = Recorded(Last(all))
           /\ cache' = [cache EXCEPT ![c] = all]
           /\ mapping' = lines
           /\ userTxt' = txt
           /\ files' = fs
           /\ upload' = [upload EXCEPT ![c] = None]
           /\ clash' = Clashing(c, s) \ {c}
           /\ UNCHANGED <<registered, up, conn, user, cuts>>
  <2>1. filesDb' \in Seq(DbRecord)
    BY <1>4, RecordedFact DEF Settles, IInv, TypeOK
  <2>2. TypeOK'
    BY <1>1, <1>3, <1>4, <2>1 DEF IInv, TypeOK, Settles
  <2>3. UploadIsNewest'
    BY <1>4 DEF IInv, TypeOK, UploadIsNewest, Settles
  <2> QED BY <2>2, <2>3 DEF IInv
<1>5. CASE /\ IsDuplicate(all, n, fs)
           /\ Rivals(c, s) = {}
           /\ filesDb' = IF joined = Front(all) THEN filesDb ELSE WriteDb(joined)
           /\ cache' = [cache EXCEPT ![c] = joined]
           /\ mapping' = dropped
           /\ userTxt' = Saved(txt, dropped, u)
           /\ files' = Removed(fs, all, n)
           /\ upload' = [upload EXCEPT ![c] = None]
           /\ clash' = Clashing(c, s) \ {c}
           /\ UNCHANGED <<registered, up, conn, user, cuts>>
  <2>1. /\ joined \in Seq(State) /\ WriteDb(joined) \in Seq(DbRecord)
        /\ DOMAIN dropped = DOMAIN mapping
        /\ \A w \in DOMAIN mapping : dropped[w] \in Seq(Line)
        /\ Saved(txt, dropped, u) \in [User -> Seq(Line)]
    BY <1>5, DiscardFact
  <2> HIDE DEF joined, dropped
  <2>2. filesDb' \in Seq(DbRecord)
    BY <1>5, <2>1 DEF IInv, TypeOK
  <2>3. userTxt' \in [User -> Seq(Line)]
    BY <1>5, <2>1
  <2>4. /\ DOMAIN files' = DOMAIN fs \ {s}
        /\ \A x \in DOMAIN fs \ {s} : files'[x] = fs[x]
    <3>1. files' = Removed(fs, all, n)
      BY <1>5
    <3>2. /\ DOMAIN Removed(fs, all, n) = DOMAIN fs \ {s}
          /\ \A x \in DOMAIN fs \ {s} : Removed(fs, all, n)[x] = fs[x]
      BY RemovedFact
    <3> QED BY <3>1, <3>2
  <2>5. DOMAIN files' \subseteq Name /\ \A x \in DOMAIN files' : files'[x] \in Content
    BY <2>4 DEF Settles
  <2>6. TypeOK'
    BY <1>1, <1>3, <1>5, <2>1, <2>2, <2>3, <2>4, <2>5 DEF IInv, TypeOK, Settles
  <2>7. ASSUME NEW d \in Conn, d # c, upload[d] # None
        PROVE  upload[d].srv \in DOMAIN files'
    <3>1. upload[d].srv # s
      BY <1>5, <2>7 DEF Rivals
    <3>2. upload[d].srv \in DOMAIN fs
      BY <2>7 DEF IInv, UploadIsNewest, Settles
    <3> QED BY <2>4, <3>1, <3>2
  <2>8. UploadIsNewest'
    BY <1>5, <2>1, <2>7 DEF IInv, TypeOK, UploadIsNewest, Settles
  <2> QED BY <2>6, <2>8 DEF IInv
<1>6. CASE Crash(Uploading \ {c}, fs, txt)
  BY <1>6, CrashInv DEF Settles, Uploading
<1>7. CASE SettleCut(c, n, all, lines, txt, fs)
  BY <1>6, <1>7, SettleCutInv DEF SettleCut
<1> QED BY <1>4, <1>5, <1>6, <1>7 DEF Settle

LEMMA InvInit == Init => IInv
<1> SUFFICES ASSUME Init PROVE IInv
  OBVIOUS
<1>1. \A c \in Conn : upload[c] = None
  BY DEF Init
<1>2. /\ filesDb \in Seq(DbRecord) /\ userTxt \in [User -> Seq(Line)]
      /\ cache \in [Conn -> Seq(State)] /\ conn \in [Conn -> {"none", "listening", "open", "closed"}]
      /\ user \in [Conn -> User \cup {None}] /\ upload \in [Conn -> Upload \cup {None}]
  BY DEF Init
<1>3. DOMAIN files = {} /\ DOMAIN mapping = {} /\ up \in BOOLEAN
  BY DEF Init, NoLines
<1>4. TypeOK
  BY ConstantsAssumption, <1>2, <1>3 DEF Init, TypeOK
<1> QED BY <1>1, <1>4 DEF IInv, UploadIsNewest

LEMMA UploadStartInv ==
  ASSUME IInv, NEW c \in Conn, NEW n \in UploadName, NEW v \in Part, UploadStart(c, n, v)
  PROVE  IInv'
<1> DEFINE u == user[c]
           all == ReadDb(filesDb)
           s == ServerName(all, n)
           lines == WithLine(u, s, n)
           rec == NewRecord(all, n, u)
<1>1. /\ u \in DOMAIN mapping /\ u \in registered /\ u \in User /\ u # None
      /\ n \in Name /\ conn[c] = "open"
  BY ClientName, ConstantsAssumption DEF UploadStart, CanAddLine, Ready, IInv, TypeOK
<1>2. all \in Seq(State)
  BY Sorts, ReadDbType DEF IInv, TypeOK
<1>3. s \in Name /\ rec \in State /\ rec.name = s /\ rec.users = <<u>>
  BY <1>1, <1>2, Sorts, ServerNameFact, NewRecordType
<1>4. DOMAIN lines = DOMAIN mapping /\ \A w \in DOMAIN mapping : lines[w] \in Seq(Line)
  BY <1>1, <1>3, WithLineFact DEF IInv
<1>5. /\ DOMAIN Created(s, v) = DOMAIN files \cup {s}
      /\ DOMAIN Created(s, v) \subseteq Name
      /\ \A x \in DOMAIN Created(s, v) : Created(s, v)[x] \in Content
  BY <1>3, CreatedFact DEF IInv
<1>6. /\ Append(all, rec) \in Seq(State) /\ Append(all, rec) # <<>>
      /\ Last(Append(all, rec)) = rec
  BY <1>2, <1>3, AppendFact
<1>7. [name |-> n, srv |-> s, sent |-> <<v>>] \in Upload
  BY <1>3 DEF Upload
<1>8. Clashing(c, s) \subseteq Conn
  BY DEF Clashing, Rivals, IInv, TypeOK
<1>9. /\ cache' = [cache EXCEPT ![c] = Append(all, rec)]
      /\ mapping' = lines
      /\ userTxt' = [userTxt EXCEPT ![u] = lines[u]]
      /\ files' = Created(s, v)
      /\ upload' = [upload EXCEPT ![c] = [name |-> n, srv |-> s, sent |-> <<v>>]]
      /\ clash' = Clashing(c, s)
      /\ UNCHANGED <<registered, filesDb, up, conn, user, cuts>>
  BY DEF UploadStart, Saved
<1> HIDE DEF u, all, s, lines, rec
<1>10. TypeOK'
  BY <1>1, <1>4, <1>5, <1>6, <1>7, <1>8, <1>9 DEF IInv, TypeOK
<1>11. UploadIsNewest'
  BY <1>1, <1>3, <1>4, <1>5, <1>6, <1>9 DEF IInv, TypeOK, UploadIsNewest, u
<1> QED BY <1>10, <1>11 DEF IInv

(* The arguments of Settle in UploadFull.                                  *)
LEMMA UploadFullSettles ==
  ASSUME IInv, NEW c \in Conn, NEW n \in UploadName, NEW v \in Part, UploadFull(c, n, v)
  PROVE  LET u     == user[c]
             all   == ReadDb(filesDb)
             s     == ServerName(all, n)
             lines == WithLine(u, s, n)
             rec   == NewRecord(all, n, u)
         IN /\ Settles(c, n, Append(all, rec), lines, Saved(userTxt, lines, u), Created(s, v))
            /\ Settle(c, n, Append(all, rec), lines, Saved(userTxt, lines, u), Created(s, v))
            /\ all \in Seq(State) /\ rec \in State /\ rec.users = <<u>>
            /\ Front(Append(all, rec)) = all /\ Last(Append(all, rec)) = rec
<1> DEFINE u == user[c]
           all == ReadDb(filesDb)
           s == ServerName(all, n)
           lines == WithLine(u, s, n)
           rec == NewRecord(all, n, u)
<1>1. /\ u \in DOMAIN mapping /\ u \in registered /\ u \in User
      /\ n \in Name /\ conn[c] = "open"
  BY ClientName DEF UploadFull, CanAddLine, Ready, IInv, TypeOK
<1>2. all \in Seq(State)
  BY Sorts, ReadDbType DEF IInv, TypeOK
<1>3. s \in Name /\ rec \in State /\ rec.users = <<u>>
  BY <1>1, <1>2, Sorts, ServerNameFact, NewRecordType
<1>4. DOMAIN lines = DOMAIN mapping /\ \A w \in DOMAIN mapping : lines[w] \in Seq(Line)
  BY <1>1, <1>3, WithLineFact DEF IInv
<1>5. /\ DOMAIN Created(s, v) = DOMAIN files \cup {s}
      /\ DOMAIN Created(s, v) \subseteq Name
      /\ \A x \in DOMAIN Created(s, v) : Created(s, v)[x] \in Content
  BY <1>3, CreatedFact DEF IInv
<1>6. /\ Append(all, rec) \in Seq(State) /\ Append(all, rec) # <<>>
      /\ Front(Append(all, rec)) = all /\ Last(Append(all, rec)) = rec
  BY <1>2, <1>3, AppendFact
<1>7. Saved(userTxt, lines, u) \in [User -> Seq(Line)]
  <2>1. lines[u] \in Seq(Line)
    BY <1>1, <1>4
  <2> HIDE DEF lines
  <2> QED BY <2>1 DEF Saved, IInv, TypeOK
<1>8. Settles(c, n, Append(all, rec), lines, Saved(userTxt, lines, u), Created(s, v))
  <2> HIDE DEF lines, rec, all, s
  <2> QED BY <1>1, <1>4, <1>5, <1>6, <1>7 DEF Settles
<1>9. Settle(c, n, Append(all, rec), lines, Saved(userTxt, lines, u), Created(s, v))
  BY DEF UploadFull
<1> QED BY <1>2, <1>3, <1>6, <1>8, <1>9

LEMMA UploadFullInv ==
  ASSUME IInv, NEW c \in Conn, NEW n \in UploadName, NEW v \in Part, UploadFull(c, n, v)
  PROVE  IInv'
BY UploadFullSettles, SettleInv

LEMMA UploadBodyInv ==
  ASSUME IInv, NEW c \in Conn, NEW v \in Part, UploadBody(c, v)
  PROVE  IInv'
<1>1. /\ upload[c] # None
      /\ files' = Written(c, v)
      /\ upload' = [upload EXCEPT ![c].sent = Append(@, v)]
      /\ UNCHANGED <<registered, filesDb, userTxt, up, mapping, conn, user, cache, clash, cuts>>
  BY DEF UploadBody
<1>2. /\ DOMAIN files' = DOMAIN files
      /\ \A x \in DOMAIN files : files'[x] \in Content
  <2>1. /\ DOMAIN Written(c, v) = DOMAIN files
        /\ \A x \in DOMAIN files : Written(c, v)[x] \in Content
    BY <1>1, WrittenFact
  <2> QED BY <1>1, <2>1
<1>3. /\ [upload[c] EXCEPT !.sent = Append(@, v)] \in Upload
      /\ [upload[c] EXCEPT !.sent = Append(@, v)].srv = upload[c].srv
      /\ [upload[c] EXCEPT !.sent = Append(@, v)].name = upload[c].name
  <2>1. upload[c] \in Upload /\ upload[c].sent \in Seq(Part)
    BY <1>1, UploadFact DEF IInv
  <2>2. Append(upload[c].sent, v) \in Seq(Part)
    BY <2>1
  <2> QED BY <2>1, <2>2 DEF Upload
<1>4. upload' = [upload EXCEPT ![c] = [upload[c] EXCEPT !.sent = Append(@, v)]]
  BY <1>1
<1> DEFINE up2 == [upload[c] EXCEPT !.sent = Append(@, v)]
<1>5. upload' = [upload EXCEPT ![c] = up2] /\ up2 \in Upload /\ up2.srv = upload[c].srv
  BY <1>3, <1>4
<1> HIDE DEF up2
<1>6. TypeOK'
  <2>1. upload' \in [Conn -> Upload \cup {None}]
    BY <1>5 DEF IInv, TypeOK
  <2> QED BY <1>1, <1>2, <2>1 DEF IInv, TypeOK
<1>7. UploadIsNewest'
  BY <1>1, <1>2, <1>5 DEF IInv, TypeOK, UploadIsNewest
<1> QED BY <1>6, <1>7 DEF IInv

(* The arguments of Settle in UploadEnd.                                   *)
LEMMA UploadEndSettles ==
  ASSUME IInv, NEW c \in Conn, NEW v \in Part, UploadEnd(c, v)
  PROVE  /\ Settles(c, upload[c].name, cache[c], mapping, userTxt, Written(c, v))
         /\ Settle(c, upload[c].name, cache[c], mapping, userTxt, Written(c, v))
<1>1. upload[c] # None
  BY DEF UploadEnd
<1>2. /\ DOMAIN Written(c, v) = DOMAIN files
      /\ \A x \in DOMAIN files : Written(c, v)[x] \in Content
  BY <1>1, WrittenFact
<1>3. upload[c].name \in Name
  BY <1>1, UploadFact, ClientName DEF IInv
<1>4. Settles(c, upload[c].name, cache[c], mapping, userTxt, Written(c, v))
  BY <1>1, <1>2, <1>3 DEF Settles, IInv, TypeOK, UploadIsNewest
<1>5. Settle(c, upload[c].name, cache[c], mapping, userTxt, Written(c, v))
  BY DEF UploadEnd
<1> QED BY <1>4, <1>5

LEMMA UploadEndInv ==
  ASSUME IInv, NEW c \in Conn, NEW v \in Part, UploadEnd(c, v)
  PROVE  IInv'
BY UploadEndSettles, SettleInv

LEMMA CrashesInv ==
  ASSUME IInv, Crash(Uploading, files, userTxt)
  PROVE  IInv'
BY CrashInv DEF Uploading, IInv, TypeOK

LEMMA StartCutInv ==
  ASSUME IInv, NEW c \in Conn, NEW n \in UploadName, StartCut(c, n)
  PROVE  IInv'
<1> DEFINE u == user[c]
           all == ReadDb(filesDb)
           s == ServerName(all, n)
           lines == WithLine(u, s, n)
           txts == SavedInPart(userTxt, lines, u)
           one == {filesDb}
<1>1. u \in DOMAIN mapping /\ u \in User /\ n \in Name
  BY ClientName DEF StartCut, CanAddLine, IInv, TypeOK
<1>2. all \in Seq(State)
  BY Sorts, ReadDbType DEF IInv, TypeOK
<1>3. s \in Name
  BY <1>1, <1>2, Sorts, ServerNameFact
<1>4. lines[u] \in Seq(Line)
  BY <1>1, <1>3, WithLineFact DEF IInv
<1>5. CutShort(Uploading, files, txts, one)
  BY DEF StartCut
<1>6. /\ userTxt \in [User -> Seq(Line)] /\ \A db \in one : db \in Seq(DbRecord)
      /\ Uploading \in SUBSET Conn
      /\ DOMAIN files \subseteq Name /\ \A x \in DOMAIN files : files[x] \in Content
  BY DEF Uploading, IInv, TypeOK
<1> HIDE DEF lines
<1>7. \A t \in txts : t \in [User -> Seq(Line)]
  BY <1>1, <1>4, <1>6, SavedInPartFact
<1> HIDE DEF txts, one
<1> QED BY <1>5, <1>6, <1>7, CutShortInv

LEMMA DeleteInv ==
  ASSUME IInv, NEW c \in Conn, NEW n, Delete(c, n)
  PROVE  IInv'
<1>1. Ready(c) /\ Named(cache[c], n) # {}
  BY DEF Delete, OwnedBy
<1> DEFINE all == LeaveRecord(cache[c], n, user[c], Nobody)
<1>2. CASE /\ cache' = [cache EXCEPT ![c] = all]
           /\ filesDb' = WriteDb(all)
           /\ UNCHANGED <<registered, userTxt, files, up, mapping, conn, user, upload, clash, cuts>>
  <2>1. all \in Seq(State)
    <3>1. cache[c] \in Seq(State)
      BY DEF IInv, TypeOK
    <3> QED BY <1>1, <3>1, Sorts, LeaveRecordFact
  <2>2. WriteDb(all) \in Seq(DbRecord)
    BY <2>1, Sorts, WriteDbType
  <2> HIDE DEF all
  <2>3. TypeOK'
    BY <1>2, <2>1, <2>2 DEF IInv, TypeOK
  <2>4. UploadIsNewest'
    BY <1>1, <1>2 DEF Ready, IInv, TypeOK, UploadIsNewest
  <2> QED BY <2>3, <2>4 DEF IInv
<1>3. CASE Crash(Uploading, files, userTxt)
  BY <1>3, CrashesInv
<1>4. CASE CutShort(Uploading, files, {userTxt}, Torn(WriteDb(all)))
  <2>1. WriteDb(all) \in Seq(DbRecord)
    <3>1. cache[c] \in Seq(State)
      BY DEF IInv, TypeOK
    <3>2. all \in Seq(State)
      BY <1>1, <3>1, Sorts, LeaveRecordFact
    <3> QED BY <3>2, Sorts, WriteDbType
  <2> DEFINE dbs == Torn(WriteDb(all))
  <2> HIDE DEF all
  <2>2. \A db \in dbs : db \in Seq(DbRecord)
    BY <2>1, Sorts, TornFact
  <2> DEFINE one == {userTxt}
  <2>3. CutShort(Uploading, files, one, dbs)
    BY <1>4 DEF all
  <2>4. \A t \in one : t \in [User -> Seq(Line)]
    BY DEF IInv, TypeOK
  <2>5. /\ Uploading \in SUBSET Conn
        /\ DOMAIN files \subseteq Name /\ \A x \in DOMAIN files : files[x] \in Content
    BY DEF Uploading, IInv, TypeOK
  <2> HIDE DEF dbs, one
  <2> QED BY <2>2, <2>3, <2>4, <2>5, CutShortInv
<1> QED BY <1>2, <1>3, <1>4 DEF Delete

LEMMA InvStep == IInv /\ [Next]_vars => IInv'
<1> SUFFICES ASSUME IInv, [Next]_vars PROVE IInv'
  OBVIOUS
<1>1. CASE Boot
  <2>1. ReadDb(filesDb) \in Seq(State)
    BY Sorts, ReadDbType DEF IInv, TypeOK
  <2>2. upload' = upload /\ \A c \in Conn : upload[c] = None
    BY <1>1 DEF Boot, IInv, TypeOK, UploadIsNewest, disk
  <2>3. /\ cache' \in [Conn -> Seq(State)]
        /\ conn' \in [Conn -> {"none", "listening", "open", "closed"}]
        /\ \A d \in Conn : conn'[d] = IF d = 1 THEN "listening" ELSE "none"
    BY <1>1, <2>1 DEF Boot, IInv, TypeOK
  <2>4. \A c, d \in Conn : conn'[c] = "listening" /\ d > c => conn'[d] = "none"
    BY <2>3 DEF Conn
  <2>5. DOMAIN mapping' = registered' /\ \A u \in DOMAIN mapping' : mapping'[u] \in Seq(Line)
    BY <1>1 DEF Boot, disk, IInv, TypeOK
  <2>6. TypeOK'
    BY <1>1, <2>3, <2>4, <2>5 DEF Boot, disk, IInv, TypeOK
  <2>7. UploadIsNewest'
    BY <2>2 DEF UploadIsNewest
  <2> QED BY <2>6, <2>7 DEF IInv
<1>2. CASE Kill
  BY <1>2, CrashesInv DEF Kill
<1>3. ASSUME NEW c \in Conn, Accept(c) PROVE IInv'
  <2>1. ReadDb(filesDb) \in Seq(State)
    BY Sorts, ReadDbType DEF IInv, TypeOK
  <2>2. /\ cache' \in [Conn -> Seq(State)]
        /\ conn' \in [Conn -> {"none", "listening", "open", "closed"}]
        /\ up' /\ UNCHANGED <<disk, up, mapping, user, upload, clash, cuts>>
    BY <1>3, <2>1 DEF Accept, IInv, TypeOK
  <2>3. \A d \in Conn : d > c => conn[d] = "none"
    BY <1>3 DEF Accept, IInv, TypeOK
  <2>4. ASSUME NEW d \in Conn, NEW e \in Conn, conn'[d] = "listening", e > d
        PROVE  conn'[e] = "none"
    <3>1. d = c + 1 \/ (d # c /\ d # c + 1 /\ conn[d] = "listening")
      BY <1>3, <2>4 DEF Accept
    <3>2. CASE d = c + 1
      BY <1>3, <2>3, <2>4, <3>2 DEF Accept, Conn
    <3>3. CASE d # c /\ d # c + 1 /\ conn[d] = "listening"
      <4>1. conn[e] = "none" /\ d < c
        BY <1>3, <2>3, <2>4, <3>3 DEF Accept, Conn, IInv, TypeOK
      <4>2. conn[c] = "none"
        BY <1>3, <3>3, <4>1 DEF Conn, IInv, TypeOK
      <4> QED BY <1>3, <4>2 DEF Accept
    <3> QED BY <3>1, <3>2, <3>3
  <2>5. TypeOK'
    BY <2>2, <2>4 DEF disk, IInv, TypeOK
  <2>6. ASSUME NEW d \in Conn, upload[d] # None PROVE conn'[d] = "open" /\ cache'[d] = cache[d]
    <3>1. conn[d] = "open"
      BY <2>6 DEF IInv, UploadIsNewest
    <3>2. ~(d > c) /\ d # c + 1
      BY <2>3, <3>1 DEF Conn
    <3> QED BY <1>3, <3>1, <3>2 DEF Accept
  <2>7. UploadIsNewest'
    BY <2>2, <2>6 DEF disk, IInv, UploadIsNewest
  <2> QED BY <2>5, <2>7 DEF IInv
<1>4. ASSUME NEW c \in Conn, Disconnect(c) \/ AcceptFails(c) PROVE IInv'
  <2>1. CASE Disconnect(c)
    BY <2>1 DEF Disconnect, disk, IInv, TypeOK, UploadIsNewest
  <2>2. CASE AcceptFails(c)
    <3>1. upload[c] = None /\ <<>> \in Seq(State)
      BY <2>2 DEF AcceptFails, IInv, UploadIsNewest
    <3>2. TypeOK'
      BY <2>2, <3>1 DEF AcceptFails, disk, IInv, TypeOK
    <3>3. UploadIsNewest'
      BY <2>2, <3>1 DEF AcceptFails, disk, IInv, TypeOK, UploadIsNewest
    <3> QED BY <3>2, <3>3 DEF IInv
  <2> QED BY <1>4, <2>1, <2>2
<1>5. ASSUME NEW c \in Conn, NEW u \in User, Login(c, u) PROVE IInv'
  BY <1>5, ConstantsAssumption DEF Login, disk, IInv, TypeOK, UploadIsNewest
<1>6. ASSUME NEW c \in Conn, NEW u \in User, Register(c, u) PROVE IInv'
  BY <1>6, ConstantsAssumption DEF Register, IInv, TypeOK, UploadIsNewest
<1>7. ASSUME NEW c \in Conn, NEW n \in UploadName, NEW v \in Part,
             UploadStart(c, n, v) \/ UploadFull(c, n, v)
      PROVE  IInv'
  BY <1>7, UploadStartInv, UploadFullInv
<1>8. ASSUME NEW c \in Conn, NEW v \in Part, UploadBody(c, v) \/ UploadEnd(c, v)
      PROVE  IInv'
  BY <1>8, UploadBodyInv, UploadEndInv
<1>9. ASSUME NEW c \in Conn, UploadUnloaded(c) PROVE IInv'
  BY <1>9, CrashesInv DEF UploadUnloaded
<1>10. ASSUME NEW c \in Conn, NEW i \in DOMAIN cache[c], Delete(c, cache[c][i].name)
       PROVE  IInv'
  BY <1>10, DeleteInv
<1>11. ASSUME NEW c \in Conn, NEW n \in UploadName, StartCut(c, n) \/ TakeMissing(c, n)
       PROVE  IInv'
  BY <1>11, StartCutInv, CrashesInv DEF TakeMissing
<1>12. CASE UNCHANGED vars
  BY <1>12 DEF vars, disk, memory, IInv, TypeOK, UploadIsNewest
<1> QED BY <1>1, <1>2, <1>3, <1>4, <1>5, <1>6, <1>7, <1>8, <1>9, <1>10, <1>11, <1>12 DEF Next

LEMMA Invariant == Spec => []IInv
BY InvInit, InvStep, PTL DEF Spec

(* Every reachable state of the store is well typed.                       *)
THEOREM TypeCorrect == Spec => []TypeOK
<1>1. IInv => TypeOK
  BY DEF IInv
<1> QED BY Invariant, <1>1, PTL

(* add_file_to_db always finds the record of the upload that ends at the   *)
(* end of all_files, with its only user, and its file in Files.            *)
THEOREM UploadIsNewestCorrect == Spec => []UploadIsNewest
<1>1. IInv => UploadIsNewest
  BY DEF IInv
<1> QED BY Invariant, <1>1, PTL

-----------------------------------------------------------------------------
(* The lists of owners. *)

WellOwned(all) == \A i \in DOMAIN all : OwnerList(all[i])
ListedOnce(db) == \A i \in DOMAIN db : OwnersOnce(db[i].users)

LEMMA OwnersParts ==
  OwnersWellFormed <=> ListedOnce(filesDb) /\ \A c \in Conn : WellOwned(cache[c])
BY DEF OwnersWellFormed, ListedOnce, WellOwned

LEMMA SingleOwner ==
  ASSUME NEW r, NEW u, r.users = <<u>>
  PROVE  OwnerList(r)
BY DEF OwnerList, OwnersOnce, IsInjective

(* Reading files_db.txt gives a name to no line without users.             *)
LEMMA ReadWellOwned ==
  ASSUME NEW d \in Seq(DbRecord), ListedOnce(d)
  PROVE  ReadDb(d) \in Seq(State) /\ WellOwned(ReadDb(d))
<1>1. /\ ReadDb(d) \in Seq(State)
      /\ \A i \in DOMAIN ReadDb(d) :
           /\ i \in DOMAIN d /\ ReadDb(d)[i].users = d[i].users
           /\ ReadDb(d)[i].name =
                IF d[i].users = <<>> THEN Nameless ELSE Plain(d[i].name.base)
  BY Sorts, ReadDbType
<1> QED BY <1>1 DEF WellOwned, ListedOnce, OwnerList

LEMMA WriteListedOnce ==
  ASSUME NEW all \in Seq(State), WellOwned(all)
  PROVE  WriteDb(all) \in Seq(DbRecord) /\ ListedOnce(WriteDb(all))
<1>1. /\ WriteDb(all) \in Seq(DbRecord) /\ Len(WriteDb(all)) = Len(all)
      /\ \A i \in DOMAIN all : WriteDb(all)[i] = [name |-> all[i].name, users |-> all[i].users]
  BY Sorts, WriteDbType
<1>2. DOMAIN WriteDb(all) = DOMAIN all
  BY <1>1
<1> QED BY <1>1, <1>2 DEF WellOwned, ListedOnce, OwnerList

LEMMA AppendWellOwned ==
  ASSUME NEW all \in Seq(State), WellOwned(all), NEW x \in State, OwnerList(x)
  PROVE  WellOwned(Append(all, x))
<1>1. \A i \in DOMAIN Append(all, x) :
        Append(all, x)[i] = x \/ (i \in DOMAIN all /\ Append(all, x)[i] = all[i])
  BY AppendPlaces
<1> QED BY <1>1 DEF WellOwned

LEMMA AppendListedOnce ==
  ASSUME NEW l \in DbRecord, OwnersOnce(l.users), ListedOnce(filesDb), TypeOK
  PROVE  ListedOnce(Append(filesDb, l))
<1>1. filesDb \in Seq(DbRecord)
  BY DEF TypeOK
<1>2. \A i \in DOMAIN Append(filesDb, l) :
        \/ Append(filesDb, l)[i] = l
        \/ i \in DOMAIN filesDb /\ Append(filesDb, l)[i] = filesDb[i]
  BY <1>1, AppendPlaces
<1> QED BY <1>2 DEF ListedOnce

LEMMA FrontWellOwned ==
  ASSUME NEW S, NEW all \in Seq(S), WellOwned(all)
  PROVE  Front(all) \in Seq(S) /\ WellOwned(Front(all))
BY FrontLastFact DEF WellOwned

(* The table cut short.                                                    *)
LEMMA TornListedOnce ==
  ASSUME NEW db \in Seq(DbRecord), ListedOnce(db), NEW part \in Torn(db)
  PROVE  ListedOnce(part)
<1>1. \A i \in DOMAIN part : i \in DOMAIN db /\ part[i] \in TornLine(db[i])
  BY Sorts, TornFact
<1>2. ASSUME NEW i \in DOMAIN part PROVE OwnersOnce(part[i].users)
  <2>1. i \in DOMAIN db /\ db[i] \in DbRecord /\ part[i] \in TornLine(db[i])
    BY <1>1
  <2>2. OwnersOnce(db[i].users)
    BY <2>1 DEF ListedOnce
  <2> QED BY <2>1, <2>2, Sorts, TornLineFact
<1> QED BY <1>2 DEF ListedOnce

(* The process ends and leaves a files_db.txt that names nobody twice.     *)
LEMMA EndingOwners ==
  ASSUME Halt, ListedOnce(filesDb')
  PROVE  OwnersWellFormed'
BY DEF Halt, OwnersWellFormed, ListedOnce

LEMMA SettleOwners ==
  ASSUME IInv, OwnersWellFormed,
         NEW c \in Conn, NEW n, NEW all, NEW lines, NEW txt, NEW fs,
         Settles(c, n, all, lines, txt, fs), Settle(c, n, all, lines, txt, fs),
         WellOwned(all)
  PROVE  OwnersWellFormed'
<1> DEFINE u == user[c]
           joined == JoinOwner(Front(all), n, u)
           l == [name |-> Last(all).name, users |-> Last(all).users]
<1>1. /\ u \in Owner /\ all \in Seq(State) /\ all # <<>>
      /\ Front(all) \in Seq(State) /\ WellOwned(Front(all))
      /\ Len(all) \in DOMAIN all /\ Last(all) = all[Len(all)]
  <2>1. all \in Seq(State) /\ all # <<>> /\ u \in Owner
    BY Sorts DEF Settles, IInv, TypeOK
  <2>2. Len(all) \in DOMAIN all
    BY <2>1, EmptySeq
  <2> QED BY <2>1, <2>2, FrontLastFact, FrontWellOwned
<1>2. /\ ListedOnce(filesDb) /\ filesDb \in Seq(DbRecord)
      /\ cache \in [Conn -> Seq(State)] /\ \A d \in Conn : WellOwned(cache[d])
  BY OwnersParts DEF IInv, TypeOK
<1>3. /\ l \in DbRecord /\ OwnersOnce(l.users)
      /\ Recorded(Last(all)) = Append(filesDb, l) /\ Last(Recorded(Last(all))) = l
  <2>1. OwnersOnce(Last(all).users)
    BY <1>1 DEF WellOwned, OwnerList
  <2> QED BY <1>1, <1>2, <2>1, RecordedFact
<1>4. ASSUME IsDuplicate(all, n, fs)
      PROVE  joined \in Seq(State) /\ WellOwned(joined)
  <2>1. Named(Front(all), n) # {}
    BY <1>4, DuplicateFact
  <2>2. /\ joined \in Seq(State) /\ DOMAIN joined = DOMAIN Front(all)
        /\ \A k \in DOMAIN Front(all) : OwnerList(Front(all)[k]) => OwnerList(joined[k])
    BY <1>1, <2>1, Sorts, JoinOwnerFact
  <2> HIDE DEF joined
  <2> QED BY <1>1, <2>2 DEF WellOwned
<1> HIDE DEF joined, l
<1>5. CASE filesDb' = Recorded(Last(all)) /\ cache' = [cache EXCEPT ![c] = all]
  <2>1. ListedOnce(filesDb')
    BY <1>2, <1>3, <1>5, AppendListedOnce DEF IInv
  <2>2. \A d \in Conn : WellOwned(cache'[d])
    BY <1>2, <1>5
  <2> QED BY <2>1, <2>2 DEF OwnersWellFormed, ListedOnce, WellOwned
<1>6. CASE /\ IsDuplicate(all, n, fs)
           /\ filesDb' = IF joined = Front(all) THEN filesDb ELSE WriteDb(joined)
           /\ cache' = [cache EXCEPT ![c] = joined]
  <2>1. ListedOnce(filesDb')
    BY <1>2, <1>4, <1>6, WriteListedOnce
  <2>2. \A d \in Conn : WellOwned(cache'[d])
    BY <1>2, <1>4, <1>6
  <2> QED BY <2>1, <2>2 DEF OwnersWellFormed, ListedOnce, WellOwned
<1>7. CASE Halt /\ UNCHANGED filesDb
  BY <1>2, <1>7, EndingOwners
<1>8. CASE /\ Halt
           /\ filesDb' \in {Append(filesDb, t) : t \in TornLine(Last(Recorded(Last(all))))}
  <2>1. PICK t \in TornLine(l) : filesDb' = Append(filesDb, t)
    BY <1>3, <1>8
  <2>2. t \in DbRecord /\ OwnersOnce(t.users)
    BY <1>3, Sorts, TornLineFact
  <2>3. ListedOnce(filesDb')
    BY <1>2, <2>1, <2>2, AppendListedOnce DEF IInv
  <2> QED BY <1>8, <2>3, EndingOwners
<1>9. CASE IsDuplicate(all, n, fs) /\ Halt /\ filesDb' \in Torn(WriteDb(joined))
  <2>1. ListedOnce(filesDb')
    BY <1>4, <1>9, WriteListedOnce, TornListedOnce
  <2> QED BY <1>9, <2>1, EndingOwners
<1> QED BY <1>5, <1>6, <1>7, <1>8, <1>9 DEF Settle, SettleCut, Crash, CutShort, Ending, joined

LEMMA OwnersStep ==
  IInv /\ OwnersWellFormed /\ [Next]_vars => OwnersWellFormed'
<1> SUFFICES ASSUME IInv, OwnersWellFormed, [Next]_vars PROVE OwnersWellFormed'
  OBVIOUS
<1>1. /\ filesDb \in Seq(DbRecord) /\ ListedOnce(filesDb)
      /\ cache \in [Conn -> Seq(State)] /\ \A d \in Conn : WellOwned(cache[d])
  BY OwnersParts DEF IInv, TypeOK
<1>2. ReadDb(filesDb) \in Seq(State) /\ WellOwned(ReadDb(filesDb))
  BY <1>1, ReadWellOwned
<1>3. CASE filesDb' = filesDb /\ \A d \in Conn : cache'[d] \in {cache[d], <<>>, ReadDb(filesDb)}
  <2>1. WellOwned(<<>>)
    BY DEF WellOwned
  <2>2. \A d \in Conn : WellOwned(cache'[d])
    BY <1>1, <1>2, <1>3, <2>1
  <2> QED BY <1>1, <1>3, <2>2 DEF OwnersWellFormed, ListedOnce, WellOwned
<1>4. CASE Boot
  BY <1>1, <1>3, <1>4 DEF Boot, disk
<1>5. CASE Kill
  BY <1>1, <1>5, EndingOwners DEF Kill, Crash, Ending
<1>6. ASSUME NEW c \in Conn, Accept(c) PROVE OwnersWellFormed'
  BY <1>1, <1>3, <1>6 DEF Accept, disk
<1>7. ASSUME NEW c \in Conn, Disconnect(c) \/ AcceptFails(c) PROVE OwnersWellFormed'
  BY <1>1, <1>3, <1>7 DEF Disconnect, AcceptFails, disk
<1>8. ASSUME NEW c \in Conn, NEW u \in User, Login(c, u) \/ Register(c, u)
      PROVE  OwnersWellFormed'
  BY <1>3, <1>8 DEF Login, Register, disk
<1>9. ASSUME NEW c \in Conn, NEW n \in UploadName, NEW v \in Part, UploadStart(c, n, v)
      PROVE  OwnersWellFormed'
  <2> DEFINE rec == NewRecord(ReadDb(filesDb), n, user[c])
  <2>1. user[c] \in Owner /\ n \in Name
    BY <1>9, Sorts, ClientName DEF UploadStart, Ready, IInv, TypeOK
  <2>2. rec \in State /\ rec.users = <<user[c]>>
    BY <1>2, <2>1, Sorts, NewRecordType
  <2>3. OwnerList(rec)
    BY <2>2, SingleOwner
  <2>4. filesDb' = filesDb /\ cache' = [cache EXCEPT ![c] = Append(ReadDb(filesDb), rec)]
    BY <1>9 DEF UploadStart
  <2> HIDE DEF rec
  <2>5. WellOwned(Append(ReadDb(filesDb), rec))
    BY <1>2, <2>2, <2>3, AppendWellOwned
  <2>6. \A d \in Conn : WellOwned(cache'[d])
    BY <1>1, <2>4, <2>5
  <2> QED BY <1>1, <2>4, <2>6 DEF OwnersWellFormed, ListedOnce, WellOwned
<1>10. ASSUME NEW c \in Conn, NEW n \in UploadName, NEW v \in Part, UploadFull(c, n, v)
       PROVE  OwnersWellFormed'
  <2> DEFINE u     == user[c]
             all   == ReadDb(filesDb)
             s     == ServerName(all, n)
             lines == WithLine(u, s, n)
             rec   == NewRecord(all, n, u)
  <2>1. /\ Settles(c, n, Append(all, rec), lines, Saved(userTxt, lines, u), Created(s, v))
        /\ Settle(c, n, Append(all, rec), lines, Saved(userTxt, lines, u), Created(s, v))
        /\ rec \in State /\ rec.users = <<u>>
    BY <1>10, UploadFullSettles
  <2>2. OwnerList(rec)
    BY <2>1, SingleOwner
  <2>3. WellOwned(Append(all, rec))
    <3> HIDE DEF rec
    <3> QED BY <1>2, <2>1, <2>2, AppendWellOwned
  <2> HIDE DEF u, all, s, lines, rec
  <2> QED BY <2>1, <2>3, SettleOwners
<1>11. ASSUME NEW c \in Conn, NEW v \in Part, UploadBody(c, v) PROVE OwnersWellFormed'
  BY <1>3, <1>11 DEF UploadBody
<1>12. ASSUME NEW c \in Conn, NEW v \in Part, UploadEnd(c, v) PROVE OwnersWellFormed'
  BY <1>1, <1>12, UploadEndSettles, SettleOwners
<1>13. ASSUME NEW c \in Conn, UploadUnloaded(c) PROVE OwnersWellFormed'
  BY <1>1, <1>13, EndingOwners DEF UploadUnloaded, Crash, Ending
<1>14. ASSUME NEW c \in Conn, NEW n, Delete(c, n) PROVE OwnersWellFormed'
  <2> DEFINE all == LeaveRecord(cache[c], n, user[c], Nobody)
  <2>1. all \in Seq(State) /\ WellOwned(all)
    <3>1. Named(cache[c], n) # {} /\ cache[c] \in Seq(State)
      BY <1>1, <1>14 DEF Delete, OwnedBy
    <3>2. /\ all \in Seq(State) /\ DOMAIN all = DOMAIN cache[c]
          /\ \A k \in DOMAIN cache[c] : OwnerList(cache[c][k]) => OwnerList(all[k])
      BY <3>1, Sorts, LeaveRecordFact
    <3> HIDE DEF all
    <3> QED BY <1>1, <3>2 DEF WellOwned
  <2> DEFINE db == WriteDb(all)
  <2>2. db \in Seq(DbRecord) /\ ListedOnce(db)
    <3> HIDE DEF all
    <3> QED BY <2>1, WriteListedOnce
  <2>3. CASE cache' = [cache EXCEPT ![c] = all] /\ filesDb' = db
    <3> HIDE DEF all, db
    <3>1. \A d \in Conn : WellOwned(cache'[d])
      BY <1>1, <2>1, <2>3
    <3> QED BY <2>2, <2>3, <3>1 DEF OwnersWellFormed, ListedOnce, WellOwned
  <2>4. CASE Halt /\ filesDb' = filesDb
    BY <1>1, <2>4, EndingOwners
  <2>5. CASE Halt /\ filesDb' \in Torn(db)
    <3> HIDE DEF db
    <3>1. ListedOnce(filesDb')
      BY <2>2, <2>5, TornListedOnce
    <3> QED BY <2>5, <3>1, EndingOwners
  <2> QED BY <1>14, <2>3, <2>4, <2>5 DEF Delete, Crash, CutShort, Ending
<1>15. ASSUME NEW c \in Conn, NEW n \in UploadName, StartCut(c, n) \/ TakeMissing(c, n)
       PROVE  OwnersWellFormed'
  <2>1. Halt /\ filesDb' = filesDb
    BY <1>15 DEF StartCut, TakeMissing, Crash, CutShort, Ending
  <2> QED BY <1>1, <2>1, EndingOwners
<1>16. CASE UNCHANGED vars
  BY <1>3, <1>16 DEF vars, disk, memory
<1> QED BY <1>4, <1>5, <1>6, <1>7, <1>8, <1>9, <1>10, <1>11, <1>12, <1>13, <1>14, <1>15, <1>16
        DEF Next

(* Whatever joins and leaves, whoever rewrites the table from whatever     *)
(* copy and wherever the process is killed while it writes, no list of     *)
(* owners names one twice, and the only records that have nobody are those *)
(* read_db makes of a line cut short: they have no name either.            *)
THEOREM OwnersCorrect == Spec => []OwnersWellFormed
<1>1. Init => OwnersWellFormed
  BY DEF Init, OwnersWellFormed
<1> QED BY <1>1, OwnersStep, Invariant, PTL DEF Spec

-----------------------------------------------------------------------------
(* The numbers of copies. *)

(* name_compare never gives a file a number, plain names included, that a  *)
(* line of files_db.txt with users has.                                    *)
LEMMA ServerNameUnlisted ==
  ASSUME NEW d \in Seq(DbRecord), NEW n \in Name, n.copy = 0,
         NEW i \in DOMAIN d, d[i].users # <<>>
  PROVE  d[i].name # ServerName(ReadDb(d), n)
<1> DEFINE all == ReadDb(d)
           s   == ServerName(all, n)
<1>1. d[i].name \in Name
  <2>1. d[i] \in DbRecord
    OBVIOUS
  <2> QED BY <2>1 DEF DbRecord
<1>2. /\ all \in Seq(State) /\ i \in DOMAIN all
      /\ all[i].name = Plain(d[i].name.base) /\ all[i].cnt = d[i].name.copy
  BY Sorts, ReadDbType
<1>3. n = Plain(n.base)
  BY DEF Name, Plain
<1> HIDE DEF all
<1>4. /\ s.base = n.base
      /\ Named(all, n) = {} => s = n
      /\ \A j \in Named(all, n) : s.copy > all[j].cnt
  BY <1>2, Sorts, ServerNameFact
<1> SUFFICES ASSUME d[i].name = s PROVE FALSE
  BY DEF all
<1>5. i \in Named(all, n)
  BY <1>2, <1>3, <1>4 DEF Named
<1>6. s.copy > d[i].name.copy /\ d[i].name.copy \in Nat
  BY <1>1, <1>2, <1>4, <1>5 DEF Name
<1> QED BY <1>6

(* The one step that begins an upload and keeps it open is UploadStart.    *)
LEMMA Begins ==
  ASSUME TypeOK, [Next]_vars, NEW c \in Conn, upload[c] = None, upload'[c] # None
  PROVE  \E n \in UploadName, v \in Part : UploadStart(c, n, v)
<1> SUFFICES ASSUME \A n \in UploadName, v \in Part : ~UploadStart(c, n, v)
             PROVE  FALSE
  OBVIOUS
<1>0. upload \in [Conn -> Upload \cup {None}]
  BY DEF TypeOK
<1>1. CASE Boot \/ Kill
  BY <1>1 DEF Boot, Kill, Crash, Ending, Halt
<1>2. ASSUME NEW d \in Conn, Accept(d) \/ AcceptFails(d) \/ Disconnect(d) PROVE FALSE
  BY <1>0, <1>2 DEF Accept, AcceptFails, Disconnect
<1>3. ASSUME NEW d \in Conn, NEW u \in User, Login(d, u) \/ Register(d, u) PROVE FALSE
  BY <1>3 DEF Login, Register
<1>4. ASSUME NEW d \in Conn, NEW n \in UploadName, NEW v \in Part, UploadStart(d, n, v)
      PROVE FALSE
  <2>1. d # c
    BY <1>4
  <2> QED BY <1>0, <1>4, <2>1 DEF UploadStart
<1>5. ASSUME NEW d \in Conn, NEW n, NEW all, NEW lines, NEW txt, NEW fs,
             Settle(d, n, all, lines, txt, fs)
      PROVE FALSE
  BY <1>0, <1>5 DEF Settle, SettleCut, Crash, CutShort, Ending, Halt
<1>6. ASSUME NEW d \in Conn, NEW n \in UploadName, NEW v \in Part, UploadFull(d, n, v)
      PROVE FALSE
  BY <1>5, <1>6 DEF UploadFull
<1>7. ASSUME NEW d \in Conn, NEW v \in Part, UploadBody(d, v) PROVE FALSE
  <2>1. d # c
    BY <1>7 DEF UploadBody
  <2> QED BY <1>0, <1>7, <2>1 DEF UploadBody
<1>8. ASSUME NEW d \in Conn, NEW v \in Part, UploadEnd(d, v) PROVE FALSE
  BY <1>5, <1>8 DEF UploadEnd
<1>9. ASSUME NEW d \in Conn, UploadUnloaded(d) PROVE FALSE
  BY <1>9 DEF UploadUnloaded, Crash, Ending, Halt
<1>10. ASSUME NEW d \in Conn, NEW n, Delete(d, n) PROVE FALSE
  BY <1>10 DEF Delete, Crash, CutShort, Ending, Halt
<1>11. ASSUME NEW d \in Conn, NEW n \in UploadName, StartCut(d, n) \/ TakeMissing(d, n)
       PROVE FALSE
  BY <1>11 DEF StartCut, TakeMissing, Crash, CutShort, Ending, Halt
<1>12. CASE UNCHANGED vars
  BY <1>12 DEF vars, memory
<1> QED BY <1>1, <1>2, <1>3, <1>4, <1>6, <1>7, <1>8, <1>9, <1>10, <1>11, <1>12 DEF Next

(* However the table has been rewritten, and however many uploads are in   *)
(* progress, an upload with a plain name starts on a server name that no   *)
(* line of files_db.txt with users lists.                                  *)
THEOREM NewNameCorrect == Spec => NewNameUnlisted
<1> DEFINE Fresh1 ==
      \A c \in Conn : upload[c] = None /\ upload'[c] # None /\ upload'[c].name.copy = 0
        => \A i \in DOMAIN filesDb :
             filesDb[i].users # <<>> => filesDb[i].name # upload'[c].srv
<1>1. ASSUME TypeOK, [Next]_vars PROVE Fresh1
  <2> SUFFICES ASSUME NEW c \in Conn, upload[c] = None, upload'[c] # None,
                      upload'[c].name.copy = 0,
                      NEW i \in DOMAIN filesDb, filesDb[i].users # <<>>
               PROVE  filesDb[i].name # upload'[c].srv
    OBVIOUS
  <2>1. PICK n \in UploadName, v \in Part : UploadStart(c, n, v)
    BY <1>1, Begins
  <2>2. /\ upload'[c].name = n
        /\ upload'[c].srv = ServerName(ReadDb(filesDb), n)
    <3>1. upload \in [Conn -> Upload \cup {None}]
      BY <1>1 DEF TypeOK
    <3>2. upload' = [upload EXCEPT ![c] =
                       [name |-> n, srv |-> ServerName(ReadDb(filesDb), n), sent |-> <<v>>]]
      BY <2>1 DEF UploadStart
    <3> QED BY <3>1, <3>2
  <2>3. filesDb \in Seq(DbRecord) /\ n \in Name
    BY <1>1, ClientName DEF TypeOK
  <2> QED BY <2>2, <2>3, ServerNameUnlisted
<1>2. TypeOK /\ [Next]_vars => [Fresh1]_vars
  BY <1>1
<1> QED BY <1>2, TypeCorrect, PTL DEF Spec, NewNameUnlisted
===============================================================================
