------------------------------ MODULE FileStore ------------------------------
(***************************************************************************)
(* The storage side of the server: every connection's Space_Saver with its *)
(* cached copy of files_db.txt, the shared Files_Mapping with its text     *)
(* file per user, and the directory Files.  One io_context thread runs the *)
(* handlers, so a handler is one atomic action; an upload is many          *)
(* messages, so uploads of different connections interleave.               *)
(*                                                                         *)
(* Disk:    registered  the logins of db.txt                               *)
(*          filesDb     files_db.txt, its lines [name, users]; <<>> when   *)
(*                      there is no such file, <<Blank>> when it is empty  *)
(*          userTxt     <user>.txt, the mapping lines last written         *)
(*          files       Files\, from server names to parts of content      *)
(* Memory:  up          the process runs                                   *)
(*          mapping     files_map_data; its domain: the users it loaded    *)
(*          conn, user  a NEW_connection's life and its user_name          *)
(*          cache       Space_Saver::all_files of the connection           *)
(*          upload      the open fileout: Content-Name, file, parts sent   *)
(* History: clash       uploads that shared their server name with another *)
(*          cuts        handlers killed while they wrote a text file       *)
(*                                                                         *)
(* Clients follow the Client program: they log in first, send one upload   *)
(* at a time and nothing else between its parts.                           *)
(***************************************************************************)
EXTENDS StoreTables

CONSTANTS
  User,        \* logins
  InitialUser, \* those already in the db.txt the repository ships
  Base,        \* base names of files
  UploadName,  \* names a client may send as Content-Name
  Part,        \* contents of one part (at most 9000 bytes)
  Zero,        \* what a gap in a file reads as
  Nobody,      \* the user "none" of a record whose last owner left
  None,        \* no user, no upload
  MaxConn,     \* bound: connections the server accepts in one life
  MaxLines,    \* bound: mapping lines of all users together, and records
  MaxParts,    \* bound: parts of an upload
  MaxCuts      \* bound: handlers that are killed while they write a text file

Conn == 1..MaxConn
Name == [copy : Nat, base : Base \cup {NoName}]

ASSUME ConstantsAssumption ==
  /\ InitialUser \subseteq User
  /\ NoName \notin Base /\ UploadName \subseteq [copy : Nat, base : Base]
  /\ None \notin User /\ Nobody \notin User
  /\ MaxConn \in Nat \ {0} /\ MaxLines \in Nat /\ MaxParts \in Nat \ {0}
  /\ MaxCuts \in Nat

VARIABLES registered, filesDb, userTxt, files,
          up, mapping, conn, user, cache, upload, clash, cuts

disk   == <<registered, filesDb, userTxt, files>>
memory == <<up, mapping, conn, user, cache, upload, clash>>
vars   == <<disk, memory, cuts>>

Owner    == User \cup {Nobody}
Content  == Seq(Part \cup {Zero})
DbRecord == [name : Name, users : Seq(Owner)]
State    == [name : Name, cnt : Nat, users : Seq(Owner)]
Line     == [first : Name, second : Name]
Upload   == [name : UploadName, srv : Name, sent : Seq(Part)]

NoLines == [u \in {} |-> <<>>]

Init ==
  /\ registered = InitialUser
  /\ filesDb = <<>>
  /\ userTxt = [u \in User |-> <<>>]
  /\ files = [n \in {} |-> <<>>]
  /\ up = FALSE
  /\ mapping = NoLines
  /\ conn = [c \in Conn |-> "none"]
  /\ user = [c \in Conn |-> None]
  /\ cache = [c \in Conn |-> <<>>]
  /\ upload = [c \in Conn |-> None]
  /\ clash = {}
  /\ cuts = 0

-----------------------------------------------------------------------------
(* The process. *)

(* main and Cloud_Storage(): the first NEW_connection is created before    *)
(* load_users and read_from_db fill the mapping from db.txt and <user>.txt.*)
Boot ==
  /\ ~up
  /\ up' = TRUE
  /\ mapping' = [u \in registered |-> userTxt[u]]
  /\ conn' = [conn EXCEPT ![1] = "listening"]
  /\ cache' = [cache EXCEPT ![1] = ReadDb(filesDb)]
  /\ UNCHANGED <<disk, user, upload, clash, cuts>>

(* The process is gone and every connection with it.                       *)
Halt ==
  /\ up' = FALSE
  /\ mapping' = NoLines
  /\ conn' = [c \in Conn |-> "none"]
  /\ user' = [c \in Conn |-> None]
  /\ cache' = [c \in Conn |-> <<>>]
  /\ upload' = [c \in Conn |-> None]
  /\ clash' = {}

Uploading == {c \in Conn : upload[c] # None}

(* What an abrupt end leaves of the directory fs: the part an open fileout *)
(* wrote last may still be in its buffer.                                  *)
Remains(fs, open) ==
  {[s \in DOMAIN fs |-> IF \E c \in lost : upload[c].srv = s THEN Front(fs[s]) ELSE fs[s]] :
     lost \in SUBSET open}

Ending(open, fs) ==
  /\ Halt
  /\ files' \in Remains(fs, open)
  /\ UNCHANGED registered

(* The process ends; no text file is open then.                            *)
Crash(open, fs, txt) ==
  /\ Ending(open, fs)
  /\ userTxt' = txt
  /\ UNCHANGED <<filesDb, cuts>>

(* It ends while text files are written: they hold one of txts and of dbs. *)
CutShort(open, fs, txts, dbs) ==
  /\ cuts < MaxCuts
  /\ cuts' = cuts + 1
  /\ Ending(open, fs)
  /\ userTxt' \in txts
  /\ filesDb' \in dbs

(* Between two handlers.                                                   *)
Kill == up /\ Crash(Uploading, files, userTxt)

(* handle_accept, and start_accept at its end: the NEW_connection for the  *)
(* next client is created now, and its Space_Saver reads files_db.txt now. *)
Accept(c) ==
  /\ conn[c] = "listening"
  /\ conn' = [d \in Conn |-> IF d = c THEN "open"
                             ELSE IF d = c + 1 THEN "listening" ELSE conn[d]]
  /\ cache' = [d \in Conn |-> IF d = c + 1 THEN ReadDb(filesDb) ELSE cache[d]]
  /\ UNCHANGED <<disk, up, mapping, user, upload, clash, cuts>>

(* handle_accept with an error: the connection is dropped and start_accept *)
(* is not called, so that nobody else gets in until the next start.        *)
AcceptFails(c) ==
  /\ conn[c] = "listening"
  /\ conn' = [conn EXCEPT ![c] = "closed"]
  /\ cache' = [cache EXCEPT ![c] = <<>>]
  /\ UNCHANGED <<disk, up, mapping, user, upload, clash, cuts>>

(* A read fails: the last shared_ptr goes, and with it the Space_Saver and *)
(* an open fileout.  What was written so far stays.                        *)
Disconnect(c) ==
  /\ conn[c] = "open"
  /\ conn' = [conn EXCEPT ![c] = "closed"]
  /\ user' = [user EXCEPT ![c] = None]
  /\ cache' = [cache EXCEPT ![c] = <<>>]
  /\ upload' = [upload EXCEPT ![c] = None]
  /\ clash' = clash \ {c}
  /\ UNCHANGED <<disk, up, mapping, cuts>>

-----------------------------------------------------------------------------
(* Authorisation and Registration, as far as the store sees them.          *)

Login(c, u) ==
  /\ conn[c] = "open" /\ user[c] = None
  /\ u \in registered
  /\ user' = [user EXCEPT ![c] = u]
  /\ UNCHANGED <<disk, up, mapping, conn, cache, upload, clash, cuts>>

(* user_data::Registration appends a line to db.txt; Files_Mapping's       *)
(* add_new_user creates the text file and never adds its own_file_line to  *)
(* files_map_data.                                                         *)
Register(c, u) ==
  /\ conn[c] = "open" /\ user[c] = None
  /\ u \notin registered
  /\ registered' = registered \cup {u}
  /\ user' = [user EXCEPT ![c] = u]
  /\ UNCHANGED <<filesDb, userTxt, files, up, mapping, conn, cache, upload, clash, cuts>>

-----------------------------------------------------------------------------
(* Uploads. *)

Ready(c) == conn[c] = "open" /\ user[c] # None /\ upload[c] = None

CanAddLine(u) ==
  /\ u \in DOMAIN mapping
  /\ Len(filesDb) < MaxLines
  /\ LET lines == {l \in (DOMAIN mapping) \X (1..MaxLines) : l[2] \in DOMAIN mapping[l[1]]}
     IN Cardinality(lines) < MaxLines

(* Files_Mapping::add_a_line_for_user: set_right_copy_number renumbers the *)
(* lines of every user, write_full writes those of one.                    *)
WithLine(u, s, n) ==
  [w \in DOMAIN mapping |->
     Renumber(IF w = u THEN Append(mapping[u], [first |-> s, second |-> n])
              ELSE mapping[w])]

Rivals(c, s) == {d \in Conn \ {c} : upload[d] # None /\ upload[d].srv = s}

Clashing(c, s) ==
  IF Rivals(c, s) = {} THEN clash \ {c} ELSE clash \cup Rivals(c, s) \cup {c}

(* Slip: what was in the file stays there.                                 *)
SavedBehind(txt, lines, u) == [txt EXCEPT ![u] = @ \o lines[u]]

(* Files_Mapping::write_full, after reset_a_file where that is called.      *)
Saved(txt, lines, u) == [txt EXCEPT ![u] = lines[u]]

(* ... and cut short: the file is truncated first and filled line by line. *)
SavedInPart(txt, lines, u) == {[txt EXCEPT ![u] = part] : part \in Prefixes(lines[u])}

(* Files_Mapping::delete_a_file, in memory.                                *)
Dropped(lines, u, s) == [lines EXCEPT ![u] = DropLine(@, s)]

(* Slip: the file with the client's name is removed.                       *)
RemovedClientName(fs, all, n) == Restrict(fs, DOMAIN fs \ {n})

(* std::filesystem::remove of the newest file.                             *)
Removed(fs, all, n) == Restrict(fs, DOMAIN fs \ {Last(all).name})

(* Files_OPERATOR::set_a_line: a file that exists gets a new line.         *)
Recorded(r) == Append(filesDb, [name |-> r.name, users |-> r.users])

(* The process is killed in add_file_to_db: before anything in it lasts,   *)
(* when the new line is written, when the list is, or when the table is.   *)
SettleCut(c, n, all, lines, txt, fs) ==
  LET u       == user[c]
      joined  == JoinOwner(Front(all), n, u)
      dropped == Dropped(lines, u, Last(all).name)
  IN \/ Crash(Uploading \ {c}, fs, txt)
     \/ /\ ~IsDuplicate(all, n, fs)
        /\ CutShort(Uploading \ {c}, fs, {txt},
                    {Append(filesDb, l) : l \in TornLine(Last(Recorded(Last(all))))})
     \/ /\ IsDuplicate(all, n, fs)
        /\ Rivals(c, Last(all).name) = {}
        /\ \/ CutShort(Uploading \ {c}, Removed(fs, all, n),
                       {txt} \cup SavedInPart(txt, dropped, u), {filesDb})
           \/ /\ joined # Front(all)
              /\ CutShort(Uploading \ {c}, Removed(fs, all, n),
                          {Saved(txt, dropped, u)}, Torn(WriteDb(joined)))

(* add_file_to_db on what the same handler did before it: all is all_files,*)
(* lines the mapping, txt the text files, fs the directory.                *)
Settle(c, n, all, lines, txt, fs) ==
  LET u       == user[c]
      s       == Last(all).name
      joined  == JoinOwner(Front(all), n, u)
      dropped == Dropped(lines, u, s)
  IN \/ /\ ~IsDuplicate(all, n, fs)
        /\ filesDb' = Recorded(Last(all))
        /\ cache' = [cache EXCEPT ![c] = all]
        /\ mapping' = lines
        /\ userTxt' = txt
        /\ files' = fs
        /\ upload' = [upload EXCEPT ![c] = None]
        /\ clash' = Clashing(c, s) \ {c}
        /\ UNCHANGED <<registered, up, conn, user, cuts>>
     \/ /\ IsDuplicate(all, n, fs)
        /\ Rivals(c, s) = {}
        /\ filesDb' = IF joined = Front(all) THEN filesDb ELSE WriteDb(joined)
        /\ cache' = [cache EXCEPT ![c] = joined]
        /\ mapping' = dropped
        /\ userTxt' = Saved(txt, dropped, u)
        /\ files' = Removed(fs, all, n)
        /\ upload' = [upload EXCEPT ![c] = None]
        /\ clash' = Clashing(c, s) \ {c}
        /\ UNCHANGED <<registered, up, conn, user, cuts>>
     \/ \* remove of a file another fileout has open throws, and nothing
        \* between the handler and main catches it
        /\ IsDuplicate(all, n, fs)
        /\ Rivals(c, s) # {}
        /\ Crash(Uploading \ {c}, fs, txt)
     \/ SettleCut(c, n, all, lines, txt, fs)

(* fileout.open creates the file or truncates it, then the first part.     *)
Created(s, v) == [x \in DOMAIN files \cup {s} |-> IF x = s THEN <<v>> ELSE files[x]]

(* SendingAFile "start": name_compare, then the first 9000 bytes.          *)
UploadStart(c, n, v) ==
  /\ Ready(c)
  /\ CanAddLine(user[c])
  /\ LET u     == user[c]
         all   == ReadDb(filesDb)
         s     == ServerName(all, n)
         lines == WithLine(u, s, n)
     IN /\ cache' = [cache EXCEPT ![c] = Append(all, NewRecord(all, n, u))]
        /\ mapping' = lines
        /\ userTxt' = Saved(userTxt, lines, u)
        /\ files' = Created(s, v)
        /\ upload' = [upload EXCEPT ![c] = [name |-> n, srv |-> s, sent |-> <<v>>]]
        /\ clash' = Clashing(c, s)
  /\ UNCHANGED <<registered, filesDb, up, conn, user, cuts>>

(* The process is killed in name_compare, while the list is written.       *)
StartCut(c, n) ==
  /\ Ready(c)
  /\ CanAddLine(user[c])
  /\ LET s     == ServerName(ReadDb(filesDb), n)
         lines == WithLine(user[c], s, n)
     IN CutShort(Uploading, files, SavedInPart(userTxt, lines, user[c]), {filesDb})

(* fileout.write at the place this stream has reached.                     *)
Written(c, v) ==
  [files EXCEPT ![upload[c].srv] = WriteAt(@, Len(upload[c].sent), v, Zero)]

(* SendingAFile "body". *)
UploadBody(c, v) ==
  /\ upload[c] # None
  /\ Len(upload[c].sent) < MaxParts - 1
  /\ files' = Written(c, v)
  /\ upload' = [upload EXCEPT ![c].sent = Append(@, v)]
  /\ UNCHANGED <<registered, filesDb, userTxt, up, mapping, conn, user, cache, clash, cuts>>

(* SendingAFile "end": the last part, then add_file_to_db. *)
UploadEnd(c, v) ==
  /\ upload[c] # None
  /\ Len(upload[c].sent) < MaxParts
  /\ Settle(c, upload[c].name, cache[c], mapping, userTxt, Written(c, v))

(* SendingAFile "full": "start" and "end" in one handler.  A rival's file  *)
(* is truncated all the same.                                              *)
UploadFull(c, n, v) ==
  /\ Ready(c)
  /\ CanAddLine(user[c])
  /\ LET u     == user[c]
         old   == ReadDb(filesDb)
         s     == ServerName(old, n)
         lines == WithLine(u, s, n)
     IN Settle(c, n, Append(old, NewRecord(old, n, u)), lines,
               Saved(userTxt, lines, u), Created(s, v))

(* add_a_line_for_user for a user who is not in files_map_data calls       *)
(* itself without end and the stack overflows.                             *)
UploadUnloaded(c) ==
  /\ Ready(c)
  /\ user[c] \notin DOMAIN mapping
  /\ Crash(Uploading, files, userTxt)

-----------------------------------------------------------------------------
(* DeleteAFile answered "200 OK": the record changes, Files\ and the       *)
(* mapping do not.  The name is the client's, it is not translated.        *)
Delete(c, n) ==
  /\ Ready(c)
  /\ OwnedBy(cache[c], n, user[c])
  /\ \/ /\ ~ErasesMissing(cache[c], n, user[c])
        /\ LET all == LeaveRecord(cache[c], n, user[c], Nobody)
           IN \/ /\ cache' = [cache EXCEPT ![c] = all]
                 /\ filesDb' = WriteDb(all)
                 /\ UNCHANGED <<registered, userTxt, files, up, mapping, conn, user, upload,
                                clash, cuts>>
              \/ \* or the process is killed while the table is written
                 CutShort(Uploading, files, {userTxt}, Torn(WriteDb(all)))
     \/ /\ ErasesMissing(cache[c], n, user[c])
        /\ Crash(Uploading, files, userTxt)

(* Files_Mapping::client_server_alternative.                               *)
ClientServerAlternative(lines, n) ==
  LET shown == {i \in DOMAIN lines : lines[i].second = n}
  IN IF shown = {} THEN n ELSE lines[Min(shown)].first

Lines(u) == IF u \in DOMAIN mapping THEN mapping[u] ELSE <<>>

(* TakingAFile of a file that is not there: File_Sender goes on with a size*)
(* nobody has set, and either overruns the 10000 bytes of the Http_Builder *)
(* or sends for ever.  When it survives, nothing here has changed; a file  *)
(* that is there is only read.                                             *)
TakeMissing(c, n) ==
  /\ Ready(c)
  /\ ClientServerAlternative(Lines(user[c]), n) \notin DOMAIN files
  /\ Crash(Uploading, files, userTxt)

-----------------------------------------------------------------------------
Next ==
  \/ Boot
  \/ Kill
  \/ \E c \in Conn :
       \/ Accept(c) \/ AcceptFails(c)
       \/ Disconnect(c)
       \/ \E u \in User : Login(c, u) \/ Register(c, u)
       \/ \E n \in UploadName, v \in Part : UploadStart(c, n, v) \/ UploadFull(c, n, v)
       \/ \E v \in Part : UploadBody(c, v) \/ UploadEnd(c, v)
       \/ UploadUnloaded(c)
       \/ \E n \in UploadName : StartCut(c, n) \/ TakeMissing(c, n)
       \/ \E i \in DOMAIN cache[c] : Delete(c, cache[c][i].name)

Spec == Init /\ [][Next]_vars

-----------------------------------------------------------------------------
(* Properties. *)

(* Types of the variables; connections are created one after another, and  *)
(* none outlives the process.                                              *)
TypeOK ==
  /\ registered \subseteq User
  /\ filesDb \in Seq(DbRecord)
  /\ userTxt \in [User -> Seq(Line)]
  /\ DOMAIN files \subseteq Name /\ \A s \in DOMAIN files : files[s] \in Content
  /\ up \in BOOLEAN
  /\ DOMAIN mapping \subseteq registered
  /\ \A u \in DOMAIN mapping : mapping[u] \in Seq(Line)
  /\ conn \in [Conn -> {"none", "listening", "open", "closed"}]
  /\ user \in [Conn -> User \cup {None}]
  /\ cache \in [Conn -> Seq(State)]
  /\ upload \in [Conn -> Upload \cup {None}]
  /\ clash \subseteq Conn
  /\ cuts \in 0..MaxCuts
  /\ \A c, d \in Conn : conn[c] = "listening" /\ d > c => conn[d] = "none"
  /\ ~up => mapping = NoLines /\ \A c \in Conn : conn[c] = "none"

(* add_file_to_db takes the last element of all_files for the file just    *)
(* received: it is that upload's record, of this user alone, and the file  *)
(* is there to be compared.                                                *)
UploadIsNewest ==
  \A c \in Conn : upload[c] # None =>
    /\ conn[c] = "open" /\ user[c] \in DOMAIN mapping
    /\ cache[c] # <<>>
    /\ Last(cache[c]).name = upload[c].srv
    /\ Last(cache[c]).users = <<user[c]>>
    /\ upload[c].srv \in DOMAIN files

(* Uploads interleave part by part.  One that never shared its server name *)
(* finds in Files exactly the parts it sent.                               *)
SoleWriterIntact ==
  \A c \in Conn : upload[c] # None /\ c \notin clash =>
    /\ upload[c].srv \in DOMAIN files
    /\ files[upload[c].srv] = upload[c].sent

(* new_file_name_compare opens the file of an older record under the name  *)
(* without number.  It is there for every record with a name, in           *)
(* files_db.txt or in any all_files however old: removing a duplicate      *)
(* never takes it away, and a table cut short names no other.  (The file   *)
(* of a connection's own record, which space_counter opens under its       *)
(* number, may be removed: KeptFileIntact.)  A client that uploads "(1)x"  *)
(* before anybody uploads "x" breaks this.                                 *)
PlainFileStays ==
  (\A n \in UploadName : n.copy = 0) =>
    \A all \in {filesDb} \cup {cache[c] : c \in Conn} : \A i \in DOMAIN all :
      all[i].name # Nameless => Plain(all[i].name.base) \in DOMAIN files

(* No line of files_db.txt and no record of a connection's all_files names *)
(* a user twice, and a record has nobody only when read_db made it of a    *)
(* line cut short, whatever joins and leaves it and whenever the process   *)
(* is killed while it writes.                                              *)
OwnersWellFormed ==
  /\ \A i \in DOMAIN filesDb : OwnersOnce(filesDb[i].users)
  /\ \A c \in Conn : \A i \in DOMAIN cache[c] : OwnerList(cache[c][i])

-----------------------------------------------------------------------------
(* Action properties. *)

Owned(db, u) == {i \in DOMAIN db : u \in ToSet(db[i].users)}

(* c read files_db.txt and nothing has changed it since.                   *)
Fresh(c) ==
  ReadDb(filesDb) = IF upload[c] = None THEN cache[c] ELSE Front(cache[c])

ActsOnTable(c) == conn[c] = "open" /\ conn'[c] = "open" /\ cache'[c] # cache[c]

OthersKeepRecords(c) ==
  \A u \in User \ {user[c]} : Owned(filesDb, u) \subseteq Owned(filesDb', u)

(* A connection whose all_files is current takes no record from another    *)
(* user by ending an upload or deleting a file.                            *)
FreshRewriteIsLocal ==
  [][\A c \in Conn : ActsOnTable(c) /\ Fresh(c) => OthersKeepRecords(c)]_vars

(* The same for every connection, whenever it read files_db.txt.           *)
RewriteIsLocal == [][\A c \in Conn : ActsOnTable(c) => OthersKeepRecords(c)]_vars

(* What an upload with a plain name starts to overwrite is no file that a  *)
(* line of files_db.txt gives to a user under that number.                 *)
NewNameUnlisted ==
  [][\A c \in Conn :
       upload[c] = None /\ upload'[c] # None /\ upload'[c].name.copy = 0
         => \A i \in DOMAIN filesDb :
              filesDb[i].users # <<>> => filesDb[i].name # upload'[c].srv]_vars

(* c ends its upload with part v and the file is taken away as a duplicate.*)
Discards(c, v) ==
  /\ UploadEnd(c, v) /\ c \notin clash
  /\ up' /\ upload[c].srv \notin DOMAIN files'

TwinStays(c, v) ==
  /\ upload[c].name \in DOMAIN files'
  /\ files'[upload[c].name] = Append(upload[c].sent, v)

(* A file discarded when one record of its name was known leaves a file    *)
(* with the same content.                                                  *)
SingleRecordDuplicateIsEqual ==
  [][\A c \in Conn, v \in Part :
       Discards(c, v) /\ Cardinality(Named(Front(cache[c]), upload[c].name)) = 1
         => TwinStays(c, v)]_vars

(* The same, however many records have the name.                           *)
DuplicateIsEqual ==
  [][\A c \in Conn, v \in Part : Discards(c, v) => TwinStays(c, v)]_vars

(* The name u's list shows for the file s leads back to s, as long as the  *)
(* first line of the base name is one that shows no number.                *)
FoundAgain(u, s, sent) ==
  LET lines == mapping'[u]
      same  == {i \in DOMAIN lines : lines[i].first.base = s.base}
  IN same # {} /\ lines[Min(same)].second = Plain(s.base) =>
       \E i \in LinesFor(lines, s) :
         LET f == ClientServerAlternative(lines, lines[i].second)
         IN f \in DOMAIN files' /\ files'[f] = sent

(* An upload that ran undisturbed and whose file was kept can be fetched at*)
(* once, unchanged, under a name that the user's list shows, whatever      *)
(* copies, duplicates and uploads cut off came before it, as long as they  *)
(* left in the list a first line of the base name that shows no number.    *)
UploadedIsServed ==
  [][\A c \in Conn, v \in Part :
       UploadEnd(c, v) /\ c \notin clash /\ up' /\ upload[c].srv \in DOMAIN files'
         => FoundAgain(user[c], upload[c].srv, Append(upload[c].sent, v))]_vars

(* A file whose uploader is still connected and was answered "200 OK" is   *)
(* not written by anybody else's upload.                                   *)
KeptFileIntact ==
  [][\A c \in Conn : conn[c] = "open" /\ upload[c] = None /\ cache[c] # <<>> =>
       LET s == Last(cache[c]).name
       IN s.copy > 0 /\ s \in DOMAIN files /\ Rivals(c, s) = {}
            => s \in DOMAIN files' /\ files'[s] = files[s]]_vars

-----------------------------------------------------------------------------
(* What the mapping promises: every user has a list of server names that   *)
(* only the user's own uploads change and that a restart does not.         *)
Firsts(lines) == [i \in DOMAIN lines |-> lines[i].first]

Lists ==
  INSTANCE UserLists WITH
    list <- [u \in User |-> Firsts(IF u \in DOMAIN mapping THEN mapping[u] ELSE userTxt[u])]

ListsAreDurable == Lists!Spec
==============================================================================
