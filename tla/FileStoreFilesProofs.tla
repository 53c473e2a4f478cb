------------------------- MODULE FileStoreFilesProofs -------------------------
(***************************************************************************)
(* Proofs about the directory Files\ and the table files_db.txt while      *)
(* uploads of several connections interleave: a file that one upload alone *)
(* writes holds what was sent (SoleWriterIntact), no duplicate takes the   *)
(* file without number away (PlainFileStays), and a connection with a      *)
(* current table takes no record from others (FreshRewriteIsLocal).        *)
(***************************************************************************)
EXTENDS FileStoreProofs

-----------------------------------------------------------------------------
(* One writer of a file. *)

(* Two uploads in progress that write one file are both marked.            *)
SharingIsMarked ==
  \A c, d \in Conn :
    /\ c # d /\ upload[c] # None /\ upload[d] # None
    /\ upload[c].srv = upload[d].srv
    => c \in clash

SoleInv == SharingIsMarked /\ SoleWriterIntact

(* A step that ends every upload, or touches no upload and no file.        *)
LEMMA SoleStays ==
  ASSUME SoleInv,
         \/ \A c \in Conn : upload'[c] = None
         \/ UNCHANGED <<upload, files, clash>>
  PROVE  SoleInv'
BY DEF SoleInv, SharingIsMarked, SoleWriterIntact

LEMMA HaltSole ==
  ASSUME SoleInv, Halt
  PROVE  SoleInv'
BY SoleStays DEF Halt

(* What Clashing marks: the uploads that write s, and none it was not told.*)
LEMMA ClashingFact ==
  ASSUME NEW c \in Conn, NEW s
  PROVE  /\ \A d \in Conn \ {c} : upload[d] # None /\ upload[d].srv = s
              => d \in Clashing(c, s) /\ c \in Clashing(c, s)
         /\ clash \ {c} \subseteq Clashing(c, s)
BY DEF Clashing, Rivals

LEMMA SettleSole ==
  ASSUME IInv, SoleInv, NEW c \in Conn, NEW n, NEW all, NEW lines, NEW txt, NEW fs,
         Settles(c, n, all, lines, txt, fs), Settle(c, n, all, lines, txt, fs),
         \A x \in DOMAIN files \ {Last(all).name} : fs[x] = files[x]
  PROVE  SoleInv'
<1> DEFINE s == Last(all).name
<1>1. CASE Halt
  BY <1>1, HaltSole
<1>2. CASE /\ upload' = [upload EXCEPT ![c] = None]
           /\ clash' = Clashing(c, s) \ {c}
           /\ files' = fs \/ files' = Removed(fs, all, n)
  <2>1. upload'[c] = None /\ \A d \in Conn \ {c} : upload'[d] = upload[d]
    BY <1>2 DEF IInv, TypeOK
  <2>2. ASSUME NEW d \in Conn, upload'[d] # None, d \notin clash'
        PROVE  d # c /\ d \notin clash /\ upload'[d] = upload[d] /\ upload[d].srv # s
    BY <1>2, <2>1, <2>2, ClashingFact
  <2>3. SharingIsMarked'
    <3> SUFFICES ASSUME NEW d \in Conn, NEW e \in Conn, d # e,
                        upload'[d] # None, upload'[e] # None, upload'[d].srv = upload'[e].srv,
                        d \notin clash'
                 PROVE  FALSE
      BY DEF SharingIsMarked
    <3>1. d # c /\ d \notin clash /\ upload'[d] = upload[d]
      BY <2>2
    <3>2. e # c /\ upload'[e] = upload[e]
      BY <2>1
    <3> QED BY <3>1, <3>2 DEF SoleInv, SharingIsMarked
  <2>4. \A x \in DOMAIN files \ {s} : x \in DOMAIN files' /\ files'[x] = files[x]
    <3>1. /\ DOMAIN Removed(fs, all, n) = DOMAIN fs \ {s}
          /\ \A x \in DOMAIN fs \ {s} : Removed(fs, all, n)[x] = fs[x]
      BY DEF Removed, Restrict
    <3>2. \A x \in DOMAIN files \ {s} : x \in DOMAIN fs \ {s} /\ fs[x] = files[x]
      BY DEF Settles
    <3>3. CASE files' = fs
      BY <3>2, <3>3
    <3>4. CASE files' = Removed(fs, all, n)
      BY <3>1, <3>2, <3>4
    <3> QED BY <1>2, <3>3, <3>4
  <2>5. SoleWriterIntact'
    <3> SUFFICES ASSUME NEW d \in Conn, upload'[d] # None, d \notin clash'
                 PROVE  /\ upload'[d].srv \in DOMAIN files'
                        /\ files'[upload'[d].srv] = upload'[d].sent
      BY DEF SoleWriterIntact
    <3>1. d \notin clash /\ upload'[d] = upload[d] /\ upload[d].srv # s
      BY <2>2
    <3>2. upload[d].srv \in DOMAIN files /\ files[upload[d].srv] = upload[d].sent
      BY <3>1 DEF SoleInv, SoleWriterIntact
    <3> QED BY <2>4, <3>1, <3>2
  <2> QED BY <2>3, <2>5 DEF SoleInv
<1> QED BY <1>1, <1>2 DEF Settle, SettleCut, Crash, CutShort, Ending

LEMMA UploadStartSole ==
  ASSUME IInv, SoleInv, NEW c \in Conn, NEW n \in UploadName, NEW v \in Part,
         UploadStart(c, n, v)
  PROVE  SoleInv'
<1> DEFINE s == ServerName(ReadDb(filesDb), n)
           new == [name |-> n, srv |-> s, sent |-> <<v>>]
<1>1. /\ files' = Created(s, v) /\ upload' = [upload EXCEPT ![c] = new]
      /\ clash' = Clashing(c, s)
      /\ new.srv = s /\ new.sent = <<v>>
  BY DEF UploadStart
<1>2. s \in Name
  <2>1. ReadDb(filesDb) \in Seq(State) /\ n \in Name
    BY ClientName, Sorts, ReadDbType DEF IInv, TypeOK
  <2> QED BY <2>1, Sorts, ServerNameFact
<1>3. /\ DOMAIN Created(s, v) = DOMAIN files \cup {s}
      /\ \A x \in DOMAIN Created(s, v) :
           Created(s, v)[x] = (IF x = s THEN <<v>> ELSE files[x])
  BY <1>2, CreatedFact DEF IInv
<1>4. upload'[c] = new /\ \A d \in Conn \ {c} : upload'[d] = upload[d]
  BY <1>1 DEF IInv, TypeOK
<1> HIDE DEF s, new
<1>5. ASSUME NEW d \in Conn, d # c, upload[d] # None, d \notin clash'
      PROVE  d \notin clash /\ upload[d].srv # s
  BY <1>1, <1>5, ClashingFact
<1>6. SharingIsMarked'
  <2> SUFFICES ASSUME NEW d \in Conn, NEW e \in Conn, d # e,
                      upload'[d] # None, upload'[e] # None, upload'[d].srv = upload'[e].srv
               PROVE  d \in clash'
    BY DEF SharingIsMarked
  <2>1. CASE d = c
    <3>1. upload[e] # None /\ upload[e].srv = s /\ e \in Conn \ {c}
      BY <1>1, <1>4, <2>1
    <3> QED BY <1>1, <2>1, <3>1, ClashingFact
  <2>2. CASE e = c
    <3>1. upload[d] # None /\ upload[d].srv = s /\ d \in Conn \ {c}
      BY <1>1, <1>4, <2>2
    <3> QED BY <1>1, <3>1, ClashingFact
  <2>3. CASE d # c /\ e # c
    <3>1. d \in clash
      BY <1>4, <2>3 DEF SoleInv, SharingIsMarked
    <3> QED BY <1>1, <2>3, <3>1, ClashingFact
  <2> QED BY <2>1, <2>2, <2>3
<1>7. SoleWriterIntact'
  <2> SUFFICES ASSUME NEW d \in Conn, upload'[d] # None, d \notin clash'
               PROVE  /\ upload'[d].srv \in DOMAIN files'
                      /\ files'[upload'[d].srv] = upload'[d].sent
    BY DEF SoleWriterIntact
  <2>1. CASE d = c
    BY <1>1, <1>3, <1>4, <2>1
  <2>2. CASE d # c
    <3>1. upload'[d] = upload[d] /\ d \notin clash /\ upload[d].srv # s
      BY <1>4, <1>5, <2>2
    <3>2. upload[d].srv \in DOMAIN files /\ files[upload[d].srv] = upload[d].sent
      BY <3>1 DEF SoleInv, SoleWriterIntact
    <3> QED BY <1>1, <1>3, <3>1, <3>2
  <2> QED BY <2>1, <2>2
<1> QED BY <1>6, <1>7 DEF SoleInv

(* The stream of the one writer is at the end of the file.                 *)
LEMMA UploadBodySole ==
  ASSUME IInv, SoleInv, NEW c \in Conn, NEW v \in Part, UploadBody(c, v)
  PROVE  SoleInv'
<1>1. /\ upload[c] # None /\ files' = Written(c, v) /\ clash' = clash
      /\ upload' = [upload EXCEPT ![c].sent = Append(@, v)]
  BY DEF UploadBody
<1>2. /\ upload[c] \in Upload /\ upload[c].srv \in Name /\ upload[c].sent \in Seq(Part)
      /\ upload[c].srv \in DOMAIN files
  BY <1>1, UploadFact DEF IInv, UploadIsNewest
<1> DEFINE s == upload[c].srv
           sent == upload[c].sent
<1>3. /\ upload'[c].srv = s /\ upload'[c].sent = Append(sent, v)
      /\ \A d \in Conn \ {c} : upload'[d] = upload[d]
  BY <1>1, <1>2 DEF IInv, TypeOK, Upload
<1>4. /\ DOMAIN files' = DOMAIN files
      /\ \A x \in DOMAIN files \ {s} : files'[x] = files[x]
      /\ files'[s] = WriteAt(files[s], Len(sent), v, Zero)
  BY <1>1, <1>2 DEF Written
<1>5. SharingIsMarked'
  <2> SUFFICES ASSUME NEW d \in Conn, NEW e \in Conn, d # e,
                      upload'[d] # None, upload'[e] # None, upload'[d].srv = upload'[e].srv
               PROVE  d \in clash'
    BY DEF SharingIsMarked
  <2>1. upload[d].srv = upload[e].srv /\ upload[d] # None /\ upload[e] # None
    BY <1>1, <1>3
  <2> QED BY <1>1, <2>1 DEF SoleInv, SharingIsMarked
<1>6. SoleWriterIntact'
  <2> SUFFICES ASSUME NEW d \in Conn, upload'[d] # None, d \notin clash'
               PROVE  /\ upload'[d].srv \in DOMAIN files'
                      /\ files'[upload'[d].srv] = upload'[d].sent
    BY DEF SoleWriterIntact
  <2>1. d \notin clash /\ upload[d] # None
    BY <1>1, <1>3
  <2>2. upload[d].srv \in DOMAIN files /\ files[upload[d].srv] = upload[d].sent
    BY <2>1 DEF SoleInv, SoleWriterIntact
  <2>3. CASE d = c
    <3>1. files[s] = sent
      BY <2>2, <2>3
    <3>2. sent \in Seq(Part \cup {Zero}) /\ v \in Part \cup {Zero} /\ Zero \in Part \cup {Zero}
      <4>1. files[s] \in Seq(Part \cup {Zero})
        BY <1>2 DEF IInv, TypeOK, Content
      <4> QED BY <3>1, <4>1
    <3> HIDE DEF sent
    <3>3. WriteAt(sent, Len(sent), v, Zero) = Append(sent, v)
      BY <3>2, WriteAtEnd
    <3> QED BY <1>2, <1>3, <1>4, <2>3, <3>1, <3>3
  <2>4. CASE d # c
    <3>1. upload[d].srv # s
      BY <1>1, <2>1, <2>4 DEF SoleInv, SharingIsMarked
    <3> QED BY <1>3, <1>4, <2>2, <2>4, <3>1
  <2> QED BY <2>3, <2>4
<1> QED BY <1>5, <1>6 DEF SoleInv

LEMMA DisconnectSole ==
  ASSUME IInv, SoleInv, NEW c \in Conn, Disconnect(c)
  PROVE  SoleInv'
<1>1. /\ upload'[c] = None /\ \A d \in Conn \ {c} : upload'[d] = upload[d]
      /\ clash' = clash \ {c} /\ files' = files
  BY DEF Disconnect, disk, IInv, TypeOK
<1> QED BY <1>1 DEF SoleInv, SharingIsMarked, SoleWriterIntact

LEMMA SoleStep ==
  IInv /\ SoleInv /\ [Next]_vars => SoleInv'
<1> SUFFICES ASSUME IInv, SoleInv, [Next]_vars PROVE SoleInv'
  OBVIOUS
<1>1. CASE Boot \/ Kill
  BY <1>1, SoleStays, HaltSole DEF Boot, Kill, Crash, Ending, disk
<1>2. ASSUME NEW c \in Conn, Accept(c) \/ AcceptFails(c) PROVE SoleInv'
  BY <1>2, SoleStays DEF Accept, AcceptFails, disk
<1>3. ASSUME NEW c \in Conn, NEW u \in User, Login(c, u) \/ Register(c, u) PROVE SoleInv'
  BY <1>3, SoleStays DEF Login, Register, disk
<1>4. ASSUME NEW c \in Conn, NEW n \in UploadName, NEW v \in Part, UploadFull(c, n, v)
      PROVE  SoleInv'
  <2> DEFINE u     == user[c]
             all   == ReadDb(filesDb)
             s     == ServerName(all, n)
             lines == WithLine(u, s, n)
             rec   == NewRecord(all, n, u)
  <2>1. /\ Settles(c, n, Append(all, rec), lines, Saved(userTxt, lines, u), Created(s, v))
        /\ Settle(c, n, Append(all, rec), lines, Saved(userTxt, lines, u), Created(s, v))
        /\ Last(Append(all, rec)) = rec
    BY <1>4, UploadFullSettles
  <2>2. rec.name = s
    BY DEF NewRecord
  <2>3. \A x \in DOMAIN files \ {s} : Created(s, v)[x] = files[x]
    BY DEF Created
  <2> HIDE DEF u, all, s, lines, rec
  <2> QED BY <2>1, <2>2, <2>3, SettleSole
<1>5. ASSUME NEW c \in Conn, NEW v \in Part, UploadEnd(c, v) PROVE SoleInv'
  <2>1. upload[c] # None /\ Last(cache[c]).name = upload[c].srv
    BY <1>5 DEF UploadEnd, IInv, UploadIsNewest
  <2>2. \A x \in DOMAIN files \ {upload[c].srv} : Written(c, v)[x] = files[x]
    BY DEF Written
  <2> QED BY <1>5, <2>1, <2>2, UploadEndSettles, SettleSole
<1>6. ASSUME NEW c \in Conn, UploadUnloaded(c) PROVE SoleInv'
  BY <1>6, HaltSole DEF UploadUnloaded, Crash, Ending
<1>7. ASSUME NEW c \in Conn, NEW n, Delete(c, n) PROVE SoleInv'
  BY <1>7, SoleStays, HaltSole DEF Delete, Crash, CutShort, Ending
<1>8. ASSUME NEW c \in Conn, NEW n \in UploadName, StartCut(c, n) \/ TakeMissing(c, n)
      PROVE  SoleInv'
  BY <1>8, HaltSole DEF StartCut, TakeMissing, Crash, CutShort, Ending
<1>9. CASE UNCHANGED vars
  BY <1>9, SoleStays DEF vars, disk, memory
<1> QED BY <1>1, <1>2, <1>3, <1>4, <1>5, <1>6, <1>7, <1>8, <1>9,
           UploadStartSole, UploadBodySole, DisconnectSole
        DEF Next

(* However uploads, ends, crashes and disconnections interleave, an upload *)
(* whose server name no other upload had meanwhile finds in Files exactly  *)
(* the parts it sent.                                                      *)
THEOREM SoleWriterIntactCorrect == Spec => []SoleWriterIntact
<1>1. Init => SoleInv
  BY DEF Init, SoleInv, SharingIsMarked, SoleWriterIntact
<1>2. SoleInv => SoleWriterIntact
  BY DEF SoleInv
<1> QED BY <1>1, <1>2, SoleStep, Invariant, PTL DEF Spec

-----------------------------------------------------------------------------
(* The files without number. *)

(* Every record of the table all has its file without number in names,     *)
(* but for those that have no name.                                        *)
HasPlain(n, names) == n # Nameless => Plain(n.base) \in names

Covered(all, names) == \A i \in DOMAIN all : HasPlain(all[i].name, names)

(* An upload that got a name without number was the first of its name when *)
(* its connection read the table, so that it cannot be found a duplicate.  *)
PlainUploadIsFirst ==
  \A c \in Conn : upload[c] # None /\ upload[c].srv.copy = 0
    => Named(Front(cache[c]), upload[c].name) = {}

PlainInv ==
  /\ Covered(filesDb, DOMAIN files)
  /\ \A c \in Conn : Covered(cache[c], DOMAIN files)
  /\ PlainUploadIsFirst

LEMMA ReadCovered ==
  ASSUME NEW d \in Seq(DbRecord), NEW names, Covered(d, names)
  PROVE  ReadDb(d) \in Seq(State) /\ Covered(ReadDb(d), names)
<1>1. /\ ReadDb(d) \in Seq(State)
      /\ \A i \in DOMAIN ReadDb(d) :
           /\ i \in DOMAIN d
           /\ ReadDb(d)[i].name =
                IF d[i].users = <<>> THEN Nameless ELSE Plain(d[i].name.base)
  BY Sorts, ReadDbType
<1>2. ASSUME NEW i \in DOMAIN ReadDb(d) PROVE HasPlain(ReadDb(d)[i].name, names)
  <2> SUFFICES ASSUME ReadDb(d)[i].name # Nameless
               PROVE  Plain(ReadDb(d)[i].name.base) \in names
    BY DEF HasPlain
  <2>1. i \in DOMAIN d /\ ReadDb(d)[i].name = Plain(d[i].name.base)
    BY <1>1
  <2>2. Plain(d[i].name.base).base = d[i].name.base
    BY DEF Plain
  <2>3. d[i].name # Nameless
    <3>1. Plain(Nameless.base) = Nameless
      BY DEF Plain, Nameless
    <3> QED BY <2>1, <3>1
  <2> QED BY <2>1, <2>2, <2>3 DEF Covered, HasPlain
<1> QED BY <1>1, <1>2 DEF Covered

LEMMA WriteCovered ==
  ASSUME NEW all \in Seq(State), NEW names, Covered(all, names)
  PROVE  Covered(WriteDb(all), names)
BY DEF WriteDb, Covered

LEMMA AppendCovered ==
  ASSUME NEW S, NEW all \in Seq(S), NEW names, Covered(all, names),
         NEW x \in S, HasPlain(x.name, names)
  PROVE  Covered(Append(all, x), names)
<1>1. \A i \in DOMAIN Append(all, x) :
        Append(all, x)[i] = x \/ (i \in DOMAIN all /\ Append(all, x)[i] = all[i])
  BY AppendPlaces
<1> QED BY <1>1 DEF Covered

LEMMA MoreCovered ==
  ASSUME NEW all, NEW names, Covered(all, names), NEW more, names \subseteq more
  PROVE  Covered(all, more)
BY DEF Covered, HasPlain

LEMMA TornLineCovered ==
  ASSUME NEW l \in DbRecord, NEW names, HasPlain(l.name, names), NEW part \in TornLine(l)
  PROVE  part \in DbRecord /\ HasPlain(part.name, names)
<1>1. part \in DbRecord /\ (part.name = Nameless \/ part.name = l.name)
  BY Sorts, TornLineFact
<1> QED BY <1>1 DEF HasPlain

LEMMA TornCovered ==
  ASSUME NEW db \in Seq(DbRecord), NEW names, Covered(db, names), NEW part \in Torn(db)
  PROVE  Covered(part, names)
<1>1. \A i \in DOMAIN part : i \in DOMAIN db /\ part[i] \in TornLine(db[i])
  BY Sorts, TornFact
<1>2. \A i \in DOMAIN db : db[i] \in DbRecord
  OBVIOUS
<1> QED BY <1>1, <1>2, TornLineCovered DEF Covered

LEMMA NothingCovered ==
  ASSUME NEW names
  PROVE  Covered(<<>>, names)
BY DEF Covered

(* The tables change by parts of what they were, the files not at all and  *)
(* the uploads in progress keep their tables.                              *)
LEMMA PlainKept ==
  ASSUME PlainInv, DOMAIN files \subseteq DOMAIN files',
         Covered(filesDb', DOMAIN files),
         \A c \in Conn : Covered(cache'[c], DOMAIN files),
         \A c \in Conn : upload'[c] # None =>
            /\ upload[c] # None /\ cache'[c] = cache[c]
            /\ upload'[c].srv = upload[c].srv /\ upload'[c].name = upload[c].name
  PROVE  PlainInv'
<1>1. Covered(filesDb', DOMAIN files') /\ \A c \in Conn : Covered(cache'[c], DOMAIN files')
  BY MoreCovered
<1>2. PlainUploadIsFirst'
  BY DEF PlainInv, PlainUploadIsFirst
<1> QED BY <1>1, <1>2 DEF PlainInv, Covered

LEMMA HaltPlain ==
  ASSUME Halt, NEW names, DOMAIN files' = names, Covered(filesDb', names)
  PROVE  PlainInv'
<1>1. \A c \in Conn : upload'[c] = None /\ cache'[c] = <<>>
  BY DEF Halt
<1>2. \A c \in Conn : Covered(cache'[c], names)
  BY <1>1, NothingCovered
<1>3. PlainUploadIsFirst'
  BY <1>1 DEF PlainUploadIsFirst
<1> QED BY <1>2, <1>3 DEF PlainInv, Covered

LEMMA SettlePlain ==
  ASSUME IInv, PlainInv, NEW c \in Conn, NEW n, NEW all, NEW lines, NEW txt, NEW fs,
         Settles(c, n, all, lines, txt, fs), Settle(c, n, all, lines, txt, fs),
         Covered(all, DOMAIN fs),
         Last(all).name.copy = 0 => Named(Front(all), n) = {}
  PROVE  PlainInv'
<1> DEFINE u == user[c]
           s == Last(all).name
           joined == JoinOwner(Front(all), n, u)
           less == Removed(fs, all, n)
<1>1. /\ u \in Owner /\ all \in Seq(State) /\ all # <<>>
      /\ Front(all) \in Seq(State) /\ Last(all) \in State
      /\ Len(all) \in DOMAIN all /\ Last(all) = all[Len(all)]
  <2>1. all \in Seq(State) /\ all # <<>> /\ u \in Owner
    BY Sorts DEF Settles, IInv, TypeOK
  <2>2. Len(all) \in DOMAIN all
    BY <2>1, EmptySeq
  <2> QED BY <2>1, <2>2, FrontLastFact
<1>2. /\ filesDb \in Seq(DbRecord) /\ cache \in [Conn -> Seq(State)]
      /\ upload \in [Conn -> Upload \cup {None}]
      /\ DOMAIN files \subseteq DOMAIN fs
  BY DEF IInv, TypeOK, Settles
<1>3. Covered(filesDb, DOMAIN files) /\ \A d \in Conn : Covered(cache[d], DOMAIN files)
  BY DEF PlainInv
<1>4. Covered(filesDb, DOMAIN fs) /\ \A d \in Conn : Covered(cache[d], DOMAIN fs)
  BY <1>2, <1>3, MoreCovered
<1> DEFINE rec == [name |-> s, users |-> Last(all).users]
<1>11. /\ rec \in DbRecord /\ HasPlain(rec.name, DOMAIN fs)
       /\ Recorded(Last(all)) = Append(filesDb, rec) /\ Last(Recorded(Last(all))) = rec
  <2>1. HasPlain(s, DOMAIN fs)
    BY <1>1 DEF Covered
  <2> QED BY <1>1, <1>2, <2>1, RecordedFact
<1> HIDE DEF rec
<1>5. CASE /\ ~IsDuplicate(all, n, fs)
           /\ filesDb' = Recorded(Last(all))
           /\ cache' = [cache EXCEPT ![c] = all]
           /\ files' = fs
           /\ upload' = [upload EXCEPT ![c] = None]
  <2>4. Covered(filesDb', DOMAIN fs)
    BY <1>2, <1>4, <1>5, <1>11, AppendCovered
  <2>5. \A d \in Conn : Covered(cache'[d], DOMAIN fs)
    BY <1>2, <1>4, <1>5
  <2>6. PlainUploadIsFirst'
    BY <1>2, <1>5 DEF PlainInv, PlainUploadIsFirst
  <2> QED BY <1>5, <2>4, <2>5, <2>6 DEF PlainInv, Covered
<1>6. ASSUME IsDuplicate(all, n, fs)
      PROVE  /\ joined \in Seq(State) /\ WriteDb(joined) \in Seq(DbRecord)
             /\ Covered(joined, DOMAIN less) /\ Covered(WriteDb(joined), DOMAIN less)
             /\ Covered(filesDb, DOMAIN less)
             /\ \A d \in Conn : Covered(cache[d], DOMAIN less)
  <2>1. Named(Front(all), n) # {}
    BY <1>6, DuplicateFact
  <2>2. s.copy # 0
    BY <2>1
  <2>3. \A b : Plain(b) # s
    BY <2>2 DEF Plain
  <2>4. DOMAIN less = DOMAIN fs \ {s}
    BY RemovedFact
  <2>5. \A t : Covered(t, DOMAIN fs) => Covered(t, DOMAIN less)
    BY <2>3, <2>4 DEF Covered, HasPlain
  <2>6. Covered(Front(all), DOMAIN fs)
    BY <1>1, FrontLastFact DEF Covered
  <2>7. /\ joined \in Seq(State) /\ DOMAIN joined = DOMAIN Front(all)
        /\ \A k \in DOMAIN Front(all) : joined[k].name = Front(all)[k].name
    BY <1>1, <2>1, Sorts, JoinOwnerFact
  <2> HIDE DEF joined, less
  <2>8. Covered(joined, DOMAIN fs)
    BY <2>6, <2>7 DEF Covered
  <2>9. WriteDb(joined) \in Seq(DbRecord) /\ Covered(WriteDb(joined), DOMAIN fs)
    BY <2>7, <2>8, Sorts, WriteDbType, WriteCovered
  <2> QED BY <1>4, <2>5, <2>7, <2>8, <2>9
<1>7. CASE /\ IsDuplicate(all, n, fs)
           /\ filesDb' = IF joined = Front(all) THEN filesDb ELSE WriteDb(joined)
           /\ cache' = [cache EXCEPT ![c] = joined]
           /\ files' = less
           /\ upload' = [upload EXCEPT ![c] = None]
  <2> HIDE DEF joined, less
  <2>1. Covered(filesDb', DOMAIN less)
    BY <1>6, <1>7
  <2>2. \A d \in Conn : Covered(cache'[d], DOMAIN less)
    BY <1>2, <1>6, <1>7
  <2>3. PlainUploadIsFirst'
    BY <1>2, <1>7 DEF PlainInv, PlainUploadIsFirst
  <2> QED BY <1>7, <2>1, <2>2, <2>3 DEF PlainInv, Covered
<1>8. CASE Crash(Uploading \ {c}, fs, txt)
  <2>1. DOMAIN files' = DOMAIN fs
    BY <1>8, RemainsFact DEF Crash, Ending, Settles, Uploading
  <2> QED BY <1>4, <1>8, <2>1, HaltPlain DEF Crash, Ending
<1>9. ASSUME NEW txts, NEW dbs, IsDuplicate(all, n, fs),
             CutShort(Uploading \ {c}, less, txts, dbs),
             dbs = {filesDb} \/ dbs = Torn(WriteDb(joined))
      PROVE  PlainInv'
  <2>1. DOMAIN files' = DOMAIN less
    <3>1. DOMAIN less = DOMAIN fs \ {s} /\ \A x \in DOMAIN fs \ {s} : less[x] = fs[x]
      BY RemovedFact
    <3>2. \A x \in DOMAIN less : less[x] \in Content
      BY <3>1 DEF Settles
    <3> HIDE DEF less
    <3>3. files' \in Remains(less, Uploading \ {c}) /\ (Uploading \ {c}) \in SUBSET Conn
      BY <1>9 DEF CutShort, Ending, Uploading
    <3> QED BY <3>2, <3>3, RemainsFact
  <2> HIDE DEF less
  <2>2. Covered(filesDb', DOMAIN less)
    <3>1. CASE filesDb' = filesDb
      BY <1>6, <1>9, <3>1
    <3> DEFINE db == WriteDb(joined)
    <3>2. CASE filesDb' \in Torn(db)
      <4>1. db \in Seq(DbRecord) /\ Covered(db, DOMAIN less)
        BY <1>6, <1>9
      <4> HIDE DEF db
      <4> QED BY <3>2, <4>1, TornCovered
    <3> QED BY <1>9, <3>1, <3>2 DEF CutShort
  <2> QED BY <1>9, <2>1, <2>2, HaltPlain DEF CutShort, Ending
<1>12. ASSUME NEW dbs, CutShort(Uploading \ {c}, fs, {txt}, dbs),
              dbs = {Append(filesDb, l) : l \in TornLine(Last(Recorded(Last(all))))}
       PROVE  PlainInv'
  <2>1. DOMAIN files' = DOMAIN fs
    BY <1>12, RemainsFact DEF CutShort, Ending, Settles, Uploading
  <2>2. PICK l \in TornLine(rec) : filesDb' = Append(filesDb, l)
    BY <1>11, <1>12 DEF CutShort
  <2>3. Covered(filesDb', DOMAIN fs)
    <3>1. l \in DbRecord /\ HasPlain(l.name, DOMAIN fs)
      BY <1>11, TornLineCovered
    <3> QED BY <1>2, <1>4, <2>2, <3>1, AppendCovered
  <2> QED BY <1>12, <2>1, <2>3, HaltPlain DEF CutShort, Ending
<1>10. CASE SettleCut(c, n, all, lines, txt, fs)
  BY <1>8, <1>9, <1>10, <1>12 DEF SettleCut
<1> QED BY <1>5, <1>7, <1>8, <1>10 DEF Settle

(* The name name_compare gives an upload that comes without number: it has *)
(* none exactly when it is the first, and its file without number is there *)
(* or is this one.                                                         *)
LEMMA NewNameFact ==
  ASSUME NEW all \in Seq(State), NEW n \in UploadName, n.copy = 0,
         NEW names, Covered(all, names)
  PROVE  LET s == ServerName(all, n)
         IN /\ s.copy = 0 => Named(all, n) = {}
            /\ HasPlain(s, names \cup {s})
<1> DEFINE s == ServerName(all, n)
<1>1. /\ s.base = n.base
      /\ Named(all, n) = {} => s = n
      /\ \A i \in Named(all, n) : s.copy > all[i].cnt
  BY ClientName, Sorts, ServerNameFact
<1> HIDE DEF s
<1>2. n = Plain(n.base) /\ n # Nameless
  BY ClientName DEF Name, Plain
<1>3. \A i \in Named(all, n) : all[i] \in State /\ all[i].name = n /\ i \in DOMAIN all
  BY DEF Named
<1>4. ASSUME NEW i \in Named(all, n) PROVE s.copy # 0 /\ n \in names
  <2>1. all[i].cnt \in Nat /\ s.copy > all[i].cnt
    BY <1>1, <1>3 DEF State
  <2>2. s.copy # 0
    BY <2>1
  <2>3. n \in names
    BY <1>2, <1>3 DEF Covered, HasPlain
  <2> QED BY <2>2, <2>3
<1> QED BY <1>1, <1>2, <1>4 DEF s, HasPlain

LEMMA UploadStartPlain ==
  ASSUME IInv, PlainInv, NEW c \in Conn, NEW n \in UploadName, n.copy = 0, NEW v \in Part,
         UploadStart(c, n, v)
  PROVE  PlainInv'
<1> DEFINE u == user[c]
           all == ReadDb(filesDb)
           s == ServerName(all, n)
           rec == NewRecord(all, n, u)
           new == [name |-> n, srv |-> s, sent |-> <<v>>]
<1>1. /\ filesDb' = filesDb /\ files' = Created(s, v)
      /\ cache' = [cache EXCEPT ![c] = Append(all, rec)]
      /\ upload' = [upload EXCEPT ![c] = new]
      /\ new.name = n /\ new.srv = s
  BY DEF UploadStart
<1>2. /\ u \in Owner /\ n \in Name /\ filesDb \in Seq(DbRecord)
      /\ cache \in [Conn -> Seq(State)] /\ upload \in [Conn -> Upload \cup {None}]
      /\ Covered(filesDb, DOMAIN files) /\ \A d \in Conn : Covered(cache[d], DOMAIN files)
  BY <1>1, Sorts, ClientName DEF UploadStart, Ready, IInv, TypeOK, PlainInv
<1>3. all \in Seq(State) /\ Covered(all, DOMAIN files)
  BY <1>2, ReadCovered
<1>4. s \in Name /\ rec \in State /\ rec.name = s
  BY <1>2, <1>3, Sorts, ServerNameFact, NewRecordType
<1>5. (s.copy = 0 => Named(all, n) = {}) /\ HasPlain(s, DOMAIN files \cup {s})
  BY <1>2, <1>3, NewNameFact
<1>6. DOMAIN files' = DOMAIN files \cup {s}
  BY <1>1, <1>4, CreatedFact DEF IInv
<1> DEFINE names == DOMAIN files \cup {s}
<1>7. Covered(all, names) /\ Covered(filesDb, names) /\ \A d \in Conn : Covered(cache[d], names)
  BY <1>2, <1>3, MoreCovered
<1> HIDE DEF u, all, s, rec, new
<1>8. Covered(Append(all, rec), names) /\ Front(Append(all, rec)) = all
  BY <1>3, <1>4, <1>5, <1>7, AppendCovered, AppendFact
<1> HIDE DEF names
<1>9. \A d \in Conn : Covered(cache'[d], names)
  BY <1>1, <1>2, <1>7, <1>8
<1>10. PlainUploadIsFirst'
  <2>1. upload'[c] = new /\ cache'[c] = Append(all, rec)
    BY <1>1, <1>2
  <2>2. \A d \in Conn \ {c} : upload'[d] = upload[d] /\ cache'[d] = cache[d]
    BY <1>1, <1>2
  <2> QED BY <1>1, <1>5, <1>8, <2>1, <2>2 DEF PlainInv, PlainUploadIsFirst
<1>11. DOMAIN files' = names
  BY <1>6 DEF names
<1> QED BY <1>1, <1>7, <1>9, <1>10, <1>11 DEF PlainInv, Covered

LEMMA UploadFullPlain ==
  ASSUME IInv, PlainInv, NEW c \in Conn, NEW n \in UploadName, n.copy = 0, NEW v \in Part,
         UploadFull(c, n, v)
  PROVE  PlainInv'
<1> DEFINE u     == user[c]
           all   == ReadDb(filesDb)
           s     == ServerName(all, n)
           lines == WithLine(u, s, n)
           rec   == NewRecord(all, n, u)
<1>1. /\ Settles(c, n, Append(all, rec), lines, Saved(userTxt, lines, u), Created(s, v))
      /\ Settle(c, n, Append(all, rec), lines, Saved(userTxt, lines, u), Created(s, v))
      /\ all \in Seq(State) /\ rec \in State
      /\ Front(Append(all, rec)) = all /\ Last(Append(all, rec)) = rec
  BY UploadFullSettles
<1>2. n \in Name /\ filesDb \in Seq(DbRecord) /\ Covered(filesDb, DOMAIN files)
  BY ClientName DEF IInv, TypeOK, PlainInv
<1>3. Covered(all, DOMAIN files)
  BY <1>2, ReadCovered
<1>4. (s.copy = 0 => Named(all, n) = {}) /\ HasPlain(s, DOMAIN files \cup {s})
  BY <1>1, <1>2, <1>3, NewNameFact
<1>5. rec.name = s
  BY DEF NewRecord
<1>6. DOMAIN Created(s, v) = DOMAIN files \cup {s}
  BY DEF Created
<1> DEFINE fs == Created(s, v)
<1>7. DOMAIN fs = DOMAIN files \cup {s}
  BY <1>6
<1>8. Covered(all, DOMAIN fs)
  <2> HIDE DEF fs, all
  <2> QED BY <1>3, <1>7, MoreCovered
<1> HIDE DEF u, all, s, lines, rec, fs
<1>9. Covered(Append(all, rec), DOMAIN fs)
  BY <1>1, <1>4, <1>5, <1>7, <1>8, AppendCovered
<1>10. /\ Settles(c, n, Append(all, rec), lines, Saved(userTxt, lines, u), fs)
       /\ Settle(c, n, Append(all, rec), lines, Saved(userTxt, lines, u), fs)
  BY <1>1 DEF fs
<1> QED BY <1>1, <1>4, <1>5, <1>9, <1>10, SettlePlain

LEMMA UploadEndPlain ==
  ASSUME IInv, PlainInv, NEW c \in Conn, NEW v \in Part, UploadEnd(c, v)
  PROVE  PlainInv'
<1>1. upload[c] # None /\ Last(cache[c]).name = upload[c].srv
  BY DEF UploadEnd, IInv, UploadIsNewest
<1>2. DOMAIN Written(c, v) = DOMAIN files
  BY <1>1, WrittenFact
<1>3. Covered(cache[c], DOMAIN Written(c, v))
  BY <1>2 DEF PlainInv
<1>4. upload[c].srv.copy = 0 => Named(Front(cache[c]), upload[c].name) = {}
  BY <1>1 DEF PlainInv, PlainUploadIsFirst
<1> QED BY <1>1, <1>3, <1>4, UploadEndSettles, SettlePlain

LEMMA DeletePlain ==
  ASSUME IInv, PlainInv, NEW c \in Conn, NEW n, Delete(c, n)
  PROVE  PlainInv'
<1> DEFINE all == LeaveRecord(cache[c], n, user[c], Nobody)
           db  == WriteDb(all)
<1>1. /\ Ready(c) /\ Named(cache[c], n) # {} /\ cache[c] \in Seq(State)
      /\ cache \in [Conn -> Seq(State)]
      /\ Covered(filesDb, DOMAIN files) /\ \A d \in Conn : Covered(cache[d], DOMAIN files)
  BY DEF Delete, OwnedBy, IInv, TypeOK, PlainInv
<1>2. all \in Seq(State) /\ Covered(all, DOMAIN files)
  <2>1. /\ all \in Seq(State) /\ DOMAIN all = DOMAIN cache[c]
        /\ \A k \in DOMAIN cache[c] : all[k].name = cache[c][k].name
    BY <1>1, Sorts, LeaveRecordFact
  <2> HIDE DEF all
  <2> QED BY <1>1, <2>1 DEF Covered
<1>3. db \in Seq(DbRecord) /\ Covered(db, DOMAIN files)
  <2> HIDE DEF all
  <2> QED BY <1>2, Sorts, WriteDbType, WriteCovered
<1>4. CASE cache' = [cache EXCEPT ![c] = all] /\ filesDb' = db /\ UNCHANGED <<files, upload>>
  <2> HIDE DEF all, db
  <2>1. \A d \in Conn : Covered(cache'[d], DOMAIN files)
    BY <1>1, <1>2, <1>4
  <2>2. \A d \in Conn : upload'[d] # None => d # c /\ cache'[d] = cache[d]
    BY <1>1, <1>4 DEF Ready
  <2> QED BY <1>3, <1>4, <2>1, <2>2, PlainKept
<1>5. ASSUME Ending(Uploading, files), Covered(filesDb', DOMAIN files) PROVE PlainInv'
  <2>1. /\ files' \in Remains(files, Uploading) /\ Uploading \in SUBSET Conn
        /\ \A x \in DOMAIN files : files[x] \in Content
    BY <1>5 DEF Ending, Uploading, IInv, TypeOK
  <2>2. DOMAIN files' = DOMAIN files
    BY <2>1, RemainsFact
  <2> QED BY <1>5, <2>2, HaltPlain DEF Ending
<1>6. CASE Crash(Uploading, files, userTxt)
  BY <1>1, <1>5, <1>6 DEF Crash
<1>7. CASE CutShort(Uploading, files, {userTxt}, Torn(db))
  <2> HIDE DEF db
  <2>1. Covered(filesDb', DOMAIN files)
    BY <1>3, <1>7, TornCovered DEF CutShort
  <2> QED BY <1>5, <1>7, <2>1 DEF CutShort
<1> QED BY <1>4, <1>6, <1>7 DEF Delete

LEMMA PlainStep ==
  ASSUME \A n \in UploadName : n.copy = 0, IInv, PlainInv, [Next]_vars
  PROVE  PlainInv'
<1>1. /\ filesDb \in Seq(DbRecord) /\ cache \in [Conn -> Seq(State)]
      /\ Covered(filesDb, DOMAIN files) /\ \A d \in Conn : Covered(cache[d], DOMAIN files)
  BY DEF IInv, TypeOK, PlainInv
<1>2. Covered(ReadDb(filesDb), DOMAIN files) /\ Covered(<<>>, DOMAIN files)
  BY <1>1, ReadCovered, NothingCovered
<1>3. ASSUME filesDb' = filesDb, DOMAIN files' = DOMAIN files,
             \A d \in Conn : cache'[d] \in {cache[d], <<>>, ReadDb(filesDb)},
             \A d \in Conn : upload'[d] # None =>
               /\ upload[d] # None /\ cache'[d] = cache[d]
               /\ upload'[d].srv = upload[d].srv /\ upload'[d].name = upload[d].name
      PROVE  PlainInv'
  <2>1. \A d \in Conn : Covered(cache'[d], DOMAIN files)
    BY <1>1, <1>2, <1>3
  <2> QED BY <1>1, <1>3, <2>1, PlainKept
<1>4. ASSUME Ending(Uploading, files), filesDb' = filesDb PROVE PlainInv'
  <2>1. /\ files' \in Remains(files, Uploading) /\ Uploading \in SUBSET Conn
        /\ \A x \in DOMAIN files : files[x] \in Content
    BY <1>4 DEF Ending, Uploading, IInv, TypeOK
  <2>2. DOMAIN files' = DOMAIN files
    BY <2>1, RemainsFact
  <2> QED BY <1>1, <1>4, <2>2, HaltPlain DEF Ending
<1>5. CASE Boot
  <2>1. \A d \in Conn : upload[d] = None
    BY <1>5 DEF Boot, IInv, TypeOK, UploadIsNewest
  <2> QED BY <1>1, <1>3, <1>5, <2>1 DEF Boot, disk
<1>6. CASE Kill
  BY <1>4, <1>6 DEF Kill, Crash
<1>7. ASSUME NEW c \in Conn, Accept(c) PROVE PlainInv'
  <2>1. ASSUME NEW d \in Conn, upload[d] # None PROVE d # c + 1
    <3>1. conn[d] = "open"
      BY <2>1 DEF IInv, UploadIsNewest
    <3>2. ~(d > c)
      BY <1>7, <3>1 DEF Accept, IInv, TypeOK
    <3> QED BY <3>2 DEF Conn
  <2> QED BY <1>1, <1>3, <1>7, <2>1 DEF Accept, disk
<1>8. ASSUME NEW c \in Conn, AcceptFails(c) \/ Disconnect(c) PROVE PlainInv'
  <2>1. AcceptFails(c) => upload[c] = None
    BY DEF AcceptFails, IInv, UploadIsNewest
  <2>2. upload \in [Conn -> Upload \cup {None}]
    BY DEF IInv, TypeOK
  <2>3. \A d \in Conn : upload'[d] # None => d # c /\ upload'[d] = upload[d]
    BY <1>8, <2>1, <2>2 DEF AcceptFails, Disconnect
  <2> QED BY <1>1, <1>3, <1>8, <2>3 DEF AcceptFails, Disconnect, disk
<1>9. ASSUME NEW c \in Conn, NEW u \in User, Login(c, u) \/ Register(c, u) PROVE PlainInv'
  BY <1>3, <1>9 DEF Login, Register, disk
<1>10. ASSUME NEW c \in Conn, NEW v \in Part, UploadBody(c, v) PROVE PlainInv'
  <2>1. /\ upload[c] # None /\ files' = Written(c, v)
        /\ upload' = [upload EXCEPT ![c].sent = Append(@, v)]
        /\ UNCHANGED <<filesDb, cache>>
    BY <1>10 DEF UploadBody
  <2>2. DOMAIN files' = DOMAIN files
    BY <2>1 DEF Written
  <2>3. upload[c] \in Upload /\ upload \in [Conn -> Upload \cup {None}]
    BY <2>1, UploadFact DEF IInv, TypeOK
  <2>4. \A d \in Conn \ {c} : upload'[d] = upload[d]
    BY <2>1, <2>3
  <2>5. upload'[c].srv = upload[c].srv /\ upload'[c].name = upload[c].name
    BY <2>1, <2>3 DEF Upload
  <2> QED BY <1>3, <2>1, <2>2, <2>4, <2>5
<1>11. ASSUME NEW c \in Conn, UploadUnloaded(c) PROVE PlainInv'
  BY <1>4, <1>11 DEF UploadUnloaded, Crash
<1>12. ASSUME NEW c \in Conn, NEW n \in UploadName, StartCut(c, n) \/ TakeMissing(c, n)
       PROVE  PlainInv'
  BY <1>4, <1>12 DEF StartCut, TakeMissing, Crash, CutShort
<1>13. CASE UNCHANGED vars
  BY <1>3, <1>13 DEF vars, disk, memory
<1>14. ASSUME NEW c \in Conn, NEW n \in UploadName, NEW v \in Part,
              UploadStart(c, n, v) \/ UploadFull(c, n, v)
       PROVE  PlainInv'
  BY <1>14, UploadStartPlain, UploadFullPlain
<1> QED BY <1>5, <1>6, <1>7, <1>8, <1>9, <1>10, <1>11, <1>12, <1>13, <1>14,
           UploadEndPlain, DeletePlain
        DEF Next

(* As long as clients send names without number, the file that a later     *)
(* upload of a record's name is compared with is in Files, for every       *)
(* record with a name of files_db.txt and of every connection's table      *)
(* however old and wherever a kill cut the table: the file that is removed *)
(* as a duplicate has a number.                                            *)
THEOREM PlainFileStaysCorrect == Spec => []PlainFileStays
<1> DEFINE PlainOnly == \A n \in UploadName : n.copy = 0
<1>1. CASE PlainOnly
  <2>1. Init => PlainInv
    BY DEF Init, PlainInv, PlainUploadIsFirst, Covered
  <2>2. IInv /\ PlainInv /\ [Next]_vars => PlainInv'
    BY <1>1, PlainStep
  <2>3. PlainInv => PlainFileStays
    BY DEF PlainInv, PlainFileStays, Covered, HasPlain
  <2> QED BY <2>1, <2>2, <2>3, Invariant, PTL DEF Spec
<1>2. CASE ~PlainOnly
  <2>1. PlainFileStays
    BY <1>2 DEF PlainFileStays
  <2> QED BY <2>1, PTL
<1> QED BY <1>1, <1>2

-----------------------------------------------------------------------------
(* What a connection with a current table does to the records of others.   *)

LEMMA WrittenOwned ==
  ASSUME NEW d \in Seq(DbRecord), NEW old \in Seq(State), old = ReadDb(d),
         NEW all \in Seq(State), DOMAIN all = DOMAIN old, NEW u,
         \A k \in DOMAIN old : u \in ToSet(old[k].users) => u \in ToSet(all[k].users)
  PROVE  Owned(d, u) \subseteq Owned(WriteDb(all), u)
<1>1. /\ \A i \in DOMAIN old : i \in DOMAIN d /\ old[i].users = d[i].users
      /\ \A i \in DOMAIN d : d[i].users # <<>> => i \in DOMAIN old
  BY Sorts, ReadDbType
<1>2. /\ DOMAIN WriteDb(all) = DOMAIN all
      /\ \A i \in DOMAIN all : WriteDb(all)[i].users = all[i].users
  BY DEF WriteDb
<1>3. \A i \in DOMAIN d : u \in ToSet(d[i].users) => i \in DOMAIN old
  <2>1. ToSet(<<>>) = {}
    BY DEF ToSet
  <2> QED BY <1>1, <2>1
<1> QED BY <1>1, <1>2, <1>3 DEF Owned

LEMMA SettleLocal ==
  ASSUME IInv, NEW c \in Conn, NEW n, NEW all, NEW lines, NEW txt, NEW fs,
         Settles(c, n, all, lines, txt, fs), Settle(c, n, all, lines, txt, fs),
         ReadDb(filesDb) = Front(all), ~Halt, NEW u \in User
  PROVE  Owned(filesDb, u) \subseteq Owned(filesDb', u)
<1> DEFINE joined == JoinOwner(Front(all), n, user[c])
<1>1. /\ user[c] \in Owner /\ filesDb \in Seq(DbRecord) /\ all # <<>>
      /\ Front(all) \in Seq(State) /\ Last(all) \in State
  BY Sorts, FrontLastFact DEF Settles, IInv, TypeOK
<1>2. CASE filesDb' = Recorded(Last(all))
  <2> DEFINE rec == [name |-> Last(all).name, users |-> Last(all).users]
  <2>1. rec \in DbRecord /\ filesDb' = Append(filesDb, rec)
    BY <1>1, <1>2, RecordedFact DEF Settles
  <2> HIDE DEF rec
  <2>2. /\ DOMAIN filesDb' = 1..(Len(filesDb) + 1)
        /\ \A i \in 1..Len(filesDb) : filesDb'[i] = filesDb[i]
    BY <1>1, <2>1, AppendProperties, LenProperties
  <2>3. DOMAIN filesDb = 1..Len(filesDb) /\ Len(filesDb) \in Nat
    BY <1>1
  <2> QED BY <2>2, <2>3 DEF Owned
<1>3. CASE /\ IsDuplicate(all, n, fs)
           /\ filesDb' = IF joined = Front(all) THEN filesDb ELSE WriteDb(joined)
  <2>1. Named(Front(all), n) # {}
    BY <1>3, DuplicateFact
  <2>2. joined \in Seq(State) /\ DOMAIN joined = DOMAIN Front(all)
    BY <1>1, <2>1, Sorts, JoinOwnerFact
  <2>3. \A k \in DOMAIN Front(all) :
          u \in ToSet(Front(all)[k].users) => u \in ToSet(joined[k].users)
    BY <1>1, <2>1, Sorts, JoinOwnerKeeps
  <2> HIDE DEF joined
  <2>4. CASE filesDb' = filesDb
    BY <2>4
  <2>5. CASE filesDb' = WriteDb(joined)
    <3> DEFINE old == Front(all)
    <3>1. /\ old \in Seq(State) /\ DOMAIN joined = DOMAIN old /\ ReadDb(filesDb) = old
          /\ \A k \in DOMAIN old : u \in ToSet(old[k].users) => u \in ToSet(joined[k].users)
      BY <1>1, <2>2, <2>3
    <3> HIDE DEF old
    <3> QED BY <1>1, <2>2, <2>5, <3>1, WrittenOwned
  <2> QED BY <1>3, <2>4, <2>5
<1> QED BY <1>2, <1>3 DEF Settle, SettleCut, Crash, CutShort, Ending

(* A handler of c that changes its table is one of an upload or a Delete.  *)
LEMMA ActsOnTableBy ==
  ASSUME IInv, [Next]_vars, NEW c \in Conn, ActsOnTable(c)
  PROVE  \/ filesDb' = filesDb
         \/ \E n \in UploadName, v \in Part : UploadFull(c, n, v)
         \/ \E v \in Part : UploadEnd(c, v)
         \/ \E i \in DOMAIN cache[c] : Delete(c, cache[c][i].name)
<1> DEFINE Goal == \/ filesDb' = filesDb
                   \/ \E n \in UploadName, v \in Part : UploadFull(c, n, v)
                   \/ \E v \in Part : UploadEnd(c, v)
                   \/ \E i \in DOMAIN cache[c] : Delete(c, cache[c][i].name)
<1>0. ~Halt /\ cache'[c] # cache[c] /\ cache \in [Conn -> Seq(State)]
  BY DEF ActsOnTable, Halt, IInv, TypeOK
<1>1. ASSUME NEW d \in Conn, NEW n, NEW all, NEW lines, NEW txt, NEW fs,
             Settle(d, n, all, lines, txt, fs)
      PROVE  d = c
  BY <1>0, <1>1 DEF Settle, SettleCut, Crash, CutShort, Ending
<1>2. ASSUME NEW d \in Conn, NEW n \in UploadName, NEW v \in Part,
             UploadStart(d, n, v) \/ UploadFull(d, n, v)
      PROVE  Goal
  <2>1. UploadFull(d, n, v) => d = c
    BY <1>1 DEF UploadFull
  <2> QED BY <1>2, <2>1 DEF UploadStart
<1>3. ASSUME NEW d \in Conn, NEW v \in Part, UploadBody(d, v) \/ UploadEnd(d, v)
      PROVE  Goal
  <2>1. UploadEnd(d, v) => d = c
    BY <1>1 DEF UploadEnd
  <2> QED BY <1>3, <2>1 DEF UploadBody
<1>4. ASSUME NEW d \in Conn, NEW i \in DOMAIN cache[d], Delete(d, cache[d][i].name)
      PROVE  Goal
  <2>1. d = c
    BY <1>0, <1>4 DEF Delete, Crash, CutShort, Ending
  <2> QED BY <1>4, <2>1
<1>5. CASE Boot
  BY <1>5 DEF Boot, disk
<1>6. CASE Kill
  BY <1>6 DEF Kill, Crash
<1>7. ASSUME NEW d \in Conn, Accept(d) \/ AcceptFails(d) \/ Disconnect(d) PROVE Goal
  BY <1>7 DEF Accept, AcceptFails, Disconnect, disk
<1>8. ASSUME NEW d \in Conn, NEW u \in User, Login(d, u) \/ Register(d, u) PROVE Goal
  BY <1>8 DEF Login, Register, disk
<1>9. ASSUME NEW d \in Conn, UploadUnloaded(d) PROVE Goal
  BY <1>9 DEF UploadUnloaded, Crash
<1>10. ASSUME NEW d \in Conn, NEW n \in UploadName, StartCut(d, n) \/ TakeMissing(d, n)
       PROVE  Goal
  BY <1>0, <1>10 DEF StartCut, TakeMissing, Crash, CutShort, Ending
<1>11. CASE UNCHANGED vars
  BY <1>11 DEF vars, disk
<1> QED BY <1>2, <1>3, <1>4, <1>5, <1>6, <1>7, <1>8, <1>9, <1>10, <1>11 DEF Next

LEMMA LocalStep ==
  ASSUME IInv, [Next]_vars, NEW c \in Conn, ActsOnTable(c), Fresh(c)
  PROVE  OthersKeepRecords(c)
<1>0. ~Halt /\ filesDb \in Seq(DbRecord)
  BY DEF ActsOnTable, Halt, IInv, TypeOK
<1>1. CASE filesDb' = filesDb
  BY <1>1 DEF OthersKeepRecords, Owned
<1>2. ASSUME NEW n \in UploadName, NEW v \in Part, UploadFull(c, n, v)
      PROVE  OthersKeepRecords(c)
  <2> DEFINE w     == user[c]
             all   == ReadDb(filesDb)
             s     == ServerName(all, n)
             lines == WithLine(w, s, n)
             rec   == NewRecord(all, n, w)
             both  == Append(all, rec)
  <2>1. /\ Settles(c, n, both, lines, Saved(userTxt, lines, w), Created(s, v))
        /\ Settle(c, n, both, lines, Saved(userTxt, lines, w), Created(s, v))
        /\ ReadDb(filesDb) = Front(both)
    BY <1>2, UploadFullSettles
  <2> HIDE DEF w, all, s, lines, rec, both
  <2>2. \A u \in User : Owned(filesDb, u) \subseteq Owned(filesDb', u)
    BY <1>0, <2>1, SettleLocal
  <2> QED BY <2>2 DEF OthersKeepRecords
<1>3. ASSUME NEW v \in Part, UploadEnd(c, v) PROVE OthersKeepRecords(c)
  <2>1. ReadDb(filesDb) = Front(cache[c])
    BY <1>3 DEF Fresh, UploadEnd
  <2>2. \A u \in User : Owned(filesDb, u) \subseteq Owned(filesDb', u)
    BY <1>0, <1>3, <2>1, UploadEndSettles, SettleLocal
  <2> QED BY <2>2 DEF OthersKeepRecords
<1>4. ASSUME NEW n, Delete(c, n) PROVE OthersKeepRecords(c)
  <2> DEFINE old == cache[c]
             all == LeaveRecord(old, n, user[c], Nobody)
  <2>1. /\ filesDb' = WriteDb(all) /\ Named(old, n) # {} /\ old \in Seq(State)
        /\ ReadDb(filesDb) = old
    BY <1>0, <1>4 DEF Delete, OwnedBy, Crash, CutShort, Ending, Fresh, Ready, IInv, TypeOK
  <2>2. all \in Seq(State) /\ DOMAIN all = DOMAIN old
    BY <2>1, Sorts, LeaveRecordFact
  <2>3. \A k \in DOMAIN old : ToSet(old[k].users) \ {user[c]} \subseteq ToSet(all[k].users)
    BY <2>1, Sorts, LeaveRecordKeeps
  <2> HIDE DEF old, all
  <2>4. ASSUME NEW u \in User \ {user[c]}
        PROVE  Owned(filesDb, u) \subseteq Owned(filesDb', u)
    <3>1. \A k \in DOMAIN old : u \in ToSet(old[k].users) => u \in ToSet(all[k].users)
      BY <2>3
    <3> QED BY <1>0, <2>1, <2>2, <3>1, WrittenOwned
  <2> QED BY <2>4 DEF OthersKeepRecords
<1> QED BY <1>1, <1>2, <1>3, <1>4, ActsOnTableBy

(* A handler that ends an upload or deletes a file on a table nobody has   *)
(* changed since the connection read it takes no record from another user. *)
THEOREM FreshRewriteCorrect == Spec => FreshRewriteIsLocal
<1> DEFINE Local == \A c \in Conn : ActsOnTable(c) /\ Fresh(c) => OthersKeepRecords(c)
<1>1. IInv /\ [Next]_vars => [Local]_vars
  BY LocalStep
<1> QED BY <1>1, Invariant, PTL DEF Spec, FreshRewriteIsLocal

-----------------------------------------------------------------------------
(* Duplicates. *)

(* An upload keeps from step to step what its "start" chose.               *)
LEMMA UploadGoesOn ==
  ASSUME IInv, [Next]_vars, NEW c \in Conn, upload[c] # None, upload'[c] # None
  PROVE  /\ upload'[c].name = upload[c].name /\ upload'[c].srv = upload[c].srv
         /\ cache'[c] = cache[c] /\ user'[c] = user[c]
<1> DEFINE Goal == /\ upload'[c].name = upload[c].name /\ upload'[c].srv = upload[c].srv
                   /\ cache'[c] = cache[c] /\ user'[c] = user[c]
<1>0. /\ upload \in [Conn -> Upload \cup {None}] /\ upload[c] \in Upload
      /\ cache \in [Conn -> Seq(State)] /\ user \in [Conn -> User \cup {None}]
      /\ conn[c] = "open" /\ user[c] # None /\ ~Halt
  <2>1. upload[c] \in Upload /\ user[c] \in User
    BY UploadFact DEF IInv, TypeOK, UploadIsNewest
  <2> QED BY <2>1, ConstantsAssumption DEF IInv, TypeOK, UploadIsNewest, Halt
<1>1. CASE Boot \/ Kill
  BY <1>0, <1>1 DEF Boot, Kill, Crash, Ending, IInv, TypeOK
<1>2. ASSUME NEW d \in Conn, Accept(d) PROVE Goal
  <2>1. c # d + 1
    <3>1. ~(c > d)
      BY <1>0, <1>2 DEF Accept, IInv, TypeOK
    <3> QED BY <3>1 DEF Conn
  <2> QED BY <1>0, <1>2, <2>1 DEF Accept
<1>3. ASSUME NEW d \in Conn, AcceptFails(d) \/ Disconnect(d) PROVE Goal
  BY <1>0, <1>3 DEF AcceptFails, Disconnect
<1>4. ASSUME NEW d \in Conn, NEW u \in User, Login(d, u) \/ Register(d, u) PROVE Goal
  BY <1>0, <1>4 DEF Login, Register
<1>5. ASSUME NEW d \in Conn, NEW n \in UploadName, NEW v \in Part, UploadStart(d, n, v)
      PROVE Goal
  <2>1. d # c
    BY <1>5 DEF UploadStart, Ready
  <2> QED BY <1>0, <1>5, <2>1 DEF UploadStart
<1>6. ASSUME NEW d \in Conn, NEW n, NEW all, NEW lines, NEW txt, NEW fs,
             Settle(d, n, all, lines, txt, fs)
      PROVE Goal
  BY <1>0, <1>6 DEF Settle, SettleCut, Crash, CutShort, Ending
<1>7. ASSUME NEW d \in Conn, NEW n \in UploadName, NEW v \in Part, UploadFull(d, n, v)
      PROVE Goal
  BY <1>6, <1>7 DEF UploadFull
<1>8. ASSUME NEW d \in Conn, NEW v \in Part, UploadBody(d, v) PROVE Goal
  <2>1. /\ upload' = [upload EXCEPT ![d].sent = Append(@, v)]
        /\ cache' = cache /\ user' = user
    BY <1>8 DEF UploadBody
  <2>2. upload'[c].name = upload[c].name /\ upload'[c].srv = upload[c].srv
    BY <1>0, <2>1 DEF Upload
  <2> QED BY <2>1, <2>2
<1>9. ASSUME NEW d \in Conn, NEW v \in Part, UploadEnd(d, v) PROVE Goal
  BY <1>6, <1>9 DEF UploadEnd
<1>10. ASSUME NEW d \in Conn, UploadUnloaded(d) PROVE Goal
  BY <1>0, <1>10 DEF UploadUnloaded, Crash, Ending
<1>11. ASSUME NEW d \in Conn, NEW n, Delete(d, n) PROVE Goal
  <2>1. d # c
    BY <1>0, <1>11 DEF Delete, Ready
  <2> QED BY <1>0, <1>11, <2>1 DEF Delete, Crash, CutShort, Ending
<1>12. ASSUME NEW d \in Conn, NEW n \in UploadName, StartCut(d, n) \/ TakeMissing(d, n)
       PROVE Goal
  BY <1>0, <1>12 DEF StartCut, TakeMissing, Crash, CutShort, Ending
<1>13. CASE UNCHANGED vars
  BY <1>13 DEF vars, memory
<1> QED BY <1>1, <1>2, <1>3, <1>4, <1>5, <1>7, <1>8, <1>9, <1>10, <1>11, <1>12, <1>13
        DEF Next

(* An upload that may be found a duplicate writes another file than the one*)
(* it is compared with.                                                    *)
TwinIsOther ==
  \A c \in Conn : upload[c] # None /\ Named(Front(cache[c]), upload[c].name) # {}
    => upload[c].srv # upload[c].name

LEMMA TwinIsOtherStep ==
  ASSUME IInv, TwinIsOther, [Next]_vars
  PROVE  TwinIsOther'
<1> SUFFICES ASSUME NEW c \in Conn, upload'[c] # None,
                    Named(Front(cache'[c]), upload'[c].name) # {}
             PROVE  upload'[c].srv # upload'[c].name
  BY DEF TwinIsOther
<1>1. CASE upload[c] # None
  BY <1>1, UploadGoesOn DEF TwinIsOther
<1>2. CASE upload[c] = None
  <2>1. PICK n \in UploadName, v \in Part : UploadStart(c, n, v)
    BY <1>2, Begins DEF IInv
  <2> DEFINE all == ReadDb(filesDb)
             s   == ServerName(all, n)
             rec == NewRecord(all, n, user[c])
  <2>2. /\ n \in Name /\ n # Nameless
        /\ filesDb \in Seq(DbRecord) /\ user[c] \in Owner
    BY <2>1, Sorts, ClientName DEF IInv, TypeOK, UploadStart, Ready
  <2>3. all \in Seq(State) /\ rec \in State
    BY <2>2, Sorts, ReadDbType, NewRecordType
  <2>4. /\ upload'[c].name = n /\ upload'[c].srv = s /\ cache'[c] = Append(all, rec)
    <3>1. upload \in [Conn -> Upload \cup {None}] /\ cache \in [Conn -> Seq(State)]
      BY DEF IInv, TypeOK
    <3>2. /\ upload' = [upload EXCEPT ![c] = [name |-> n, srv |-> s, sent |-> <<v>>]]
          /\ cache' = [cache EXCEPT ![c] = Append(all, rec)]
      BY <2>1 DEF UploadStart
    <3> QED BY <3>1, <3>2
  <2>5. Named(all, n) # {}
    <3> HIDE DEF all, rec
    <3>1. Front(Append(all, rec)) = all
      BY <2>3, AppendFact
    <3> QED BY <2>4, <3>1
  <2>6. PICK i \in DOMAIN all : all[i].name = n /\ all[i].cnt \in Nat
    <3>1. PICK i \in DOMAIN all : all[i].name = n
      BY <2>5 DEF Named
    <3>2. all[i] \in State
      BY <2>3
    <3> QED BY <3>1, <3>2 DEF State
  <2>7. n.copy = 0
    <3>1. all[i].name \in {Nameless, Plain(filesDb[i].name.base)}
      BY <2>2, Sorts, ReadDbType
    <3> HIDE DEF all
    <3> QED BY <2>2, <2>6, <3>1 DEF Plain
  <2>8. s.copy > all[i].cnt
    <3>1. i \in Named(all, n)
      BY <2>6 DEF Named
    <3> QED BY <2>2, <2>3, <3>1, Sorts, ServerNameFact
  <2>9. s \in Name
    BY <2>2, <2>3, Sorts, ServerNameFact
  <2>10. s.copy # n.copy
    <3> HIDE DEF all, s
    <3>1. s.copy \in Nat
      BY <2>9 DEF Name
    <3> QED BY <2>6, <2>7, <2>8, <3>1
  <2> QED BY <2>4, <2>10
<1> QED BY <1>1, <1>2

(* An upload that nobody disturbed and that is discarded.                  *)
LEMMA TwinFact ==
  ASSUME IInv, SoleInv, TwinIsOther, NEW c \in Conn, NEW v \in Part, Discards(c, v),
         Cardinality(Named(Front(cache[c]), upload[c].name)) = 1
  PROVE  TwinStays(c, v)
<1> DEFINE n    == upload[c].name
           s    == upload[c].srv
           sent == upload[c].sent
           fs   == Written(c, v)
<1>1. /\ UploadEnd(c, v) /\ c \notin clash /\ up' /\ s \notin DOMAIN files'
      /\ upload[c] # None
  BY DEF Discards, UploadEnd
<1>2. /\ Settles(c, n, cache[c], mapping, userTxt, fs)
      /\ Settle(c, n, cache[c], mapping, userTxt, fs)
  BY <1>1, UploadEndSettles
<1>3. /\ Last(cache[c]).name = s /\ s \in DOMAIN files /\ files[s] = sent
      /\ DOMAIN fs = DOMAIN files /\ \A x \in DOMAIN fs : fs[x] \in Content
  BY <1>1, WrittenFact DEF IInv, UploadIsNewest, SoleInv, SoleWriterIntact
<1>4. ~Halt
  BY <1>1 DEF Halt
<1>5. IsDuplicate(cache[c], n, fs) /\ files' = Removed(fs, cache[c], n)
  <2> HIDE DEF n, s, fs
  <2> QED BY <1>1, <1>2, <1>3, <1>4 DEF Settle, SettleCut, Crash, CutShort, Ending
<1>6. n \in DOMAIN fs /\ Named(Front(cache[c]), n) # {} /\ fs[s] = fs[n]
  <2>1. n \in DOMAIN fs /\ Named(Front(cache[c]), n) # {}
    BY <1>5, DuplicateFact
  <2>2. SameWithin(fs[s], fs[n], 1)
    BY <1>3, <1>5 DEF IsDuplicate
  <2>3. fs[s] \in Seq(Part \cup {Zero}) /\ fs[n] \in Seq(Part \cup {Zero})
    BY <1>3, <2>1 DEF Content
  <2> HIDE DEF fs, n, s
  <2> QED BY <2>1, <2>2, <2>3, SameOnce
<1>7. n # s
  BY <1>1, <1>6 DEF TwinIsOther
<1>8. fs[s] = Append(sent, v)
  <2>1. sent \in Seq(Part \cup {Zero}) /\ v \in Part \cup {Zero} /\ Zero \in Part \cup {Zero}
    <3>1. files[s] \in Seq(Part \cup {Zero})
      BY <1>3 DEF IInv, TypeOK, Content
    <3> QED BY <1>3, <3>1
  <2>2. fs[s] = WriteAt(sent, Len(sent), v, Zero)
    BY <1>3 DEF Written
  <2> HIDE DEF sent, fs, s
  <2> QED BY <2>1, <2>2, WriteAtEnd
<1>9. n \in DOMAIN files' /\ files'[n] = fs[n]
  <2> HIDE DEF fs, n, s
  <2>1. /\ DOMAIN Removed(fs, cache[c], n) = DOMAIN fs \ {s}
        /\ \A x \in DOMAIN fs \ {s} : Removed(fs, cache[c], n)[x] = fs[x]
    BY <1>3 DEF Removed, Restrict
  <2> QED BY <1>5, <1>6, <1>7, <2>1
<1> QED BY <1>6, <1>8, <1>9 DEF TwinStays

(* A file that was taken away as a duplicate when one record of its name   *)
(* was known has left behind a file with exactly the parts that were sent, *)
(* whoever else uploaded, deleted or disconnected meanwhile.               *)
THEOREM SingleRecordDuplicateCorrect == Spec => SingleRecordDuplicateIsEqual
<1> DEFINE Twins ==
      \A c \in Conn, v \in Part :
        Discards(c, v) /\ Cardinality(Named(Front(cache[c]), upload[c].name)) = 1
          => TwinStays(c, v)
           Inv2 == SoleInv /\ TwinIsOther
<1>1. Init => Inv2
  BY DEF Init, SoleInv, SharingIsMarked, SoleWriterIntact, TwinIsOther
<1>2. IInv /\ Inv2 /\ [Next]_vars => Inv2'
  BY SoleStep, TwinIsOtherStep
<1>3. IInv /\ Inv2 /\ [Next]_vars => [Twins]_vars
  BY TwinFact
<1> QED BY <1>1, <1>2, <1>3, Invariant, PTL DEF Spec, SingleRecordDuplicateIsEqual
===============================================================================
