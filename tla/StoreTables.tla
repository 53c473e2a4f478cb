----------------------------- MODULE StoreTables -----------------------------
(***************************************************************************)
(* The pure table operations of the storage server: the text format of     *)
(* files_db.txt (space_saver.cpp), the numbering of copies                 *)
(* (Server_Client_files_mapping.cpp) and the comparison that recognises a  *)
(* file already stored.  No state here: FileStore applies them.            *)
(*                                                                         *)
(* A file name is [copy, base]: "(2)x" is [copy |-> 2, base |-> x] and a   *)
(* name without prefix has copy 0.                                         *)
(*   line of files_db.txt    [name, users]                                 *)
(*   files_state in memory   [name, cnt, users]                            *)
(*   own_map (mapping line)  [first, second]: server name, client name     *)
(*                                                                         *)
(* A definition under "Slip:" is a wrong form of the one that follows it,  *)
(* which a property of FileStore must notice; nothing uses it.             *)
(***************************************************************************)
EXTENDS SequencesExt

Plain(b) == [copy |-> 0, base |-> b]

(* The name of a record that read_db makes of a line without ":", and what *)
(* reset_a_file_info writes of such a record: an empty line.               *)
NoName   == ""
Nameless == Plain(NoName)
Blank    == [name |-> Nameless, users |-> <<>>]

(* getline returns every line but an empty one at the end of the file.     *)
LinesRead(db) == IF db # <<>> /\ Last(db) = Blank THEN Front(db) ELSE db

(* Slip: the counter of a name without number is -1, as max_copy starts.   *)
ReadDbFromMinusOne(db) ==
  [i \in DOMAIN LinesRead(db) |->
     [name  |-> IF db[i].users = <<>> THEN Nameless ELSE Plain(db[i].name.base),
      cnt   |-> db[i].name.copy - 1,
      users |-> db[i].users]]

(* Files_OPERATOR::read_db: the "(n)" prefix of a line moves from the name *)
(* to file_name_copy_counter, and only a line with users gives a name.     *)
ReadDb(db) ==
  [i \in DOMAIN LinesRead(db) |->
     [name  |-> IF db[i].users = <<>> THEN Nameless ELSE Plain(db[i].name.base),
      cnt   |-> db[i].name.copy,
      users |-> db[i].users]]

(* Files_OPERATOR::reset_a_file_info writes file_name and the users; the   *)
(* copy counter is not written.                                            *)
WriteDb(all) ==
  [i \in DOMAIN all |-> [name |-> all[i].name, users |-> all[i].users]]

(* A writer killed on the way leaves the lines before some line, and of    *)
(* that line nothing or the name with some of the users.                   *)
TornLine(l) == {Blank} \cup {[l EXCEPT !.users = part] : part \in Prefixes(l.users)}

Torn(db) ==
  UNION {{Append(SubSeq(db, 1, k - 1), l) : l \in TornLine(db[k])} : k \in DOMAIN db}

Named(all, n) == {i \in DOMAIN all : all[i].name = n}

FirstNamed(all, n) == Min(Named(all, n))

(* Slip: the highest number is used again.                                 *)
ServerNameReused(all, n) ==
  IF Named(all, n) = {} THEN n
  ELSE [copy |-> Max({all[i].cnt : i \in Named(all, n)}), base |-> n.base]

(* Space_Saver::name_compare: the server name of an upload called n.       *)
ServerName(all, n) ==
  IF Named(all, n) = {} THEN n
  ELSE [copy |-> Max({all[i].cnt : i \in Named(all, n)}) + 1, base |-> n.base]

(* Slip: the record keeps the client's name.                               *)
NewRecordClientName(all, n, u) == [name |-> n, cnt |-> 0, users |-> <<u>>]

(* ... and the record name_compare pushes on all_files for it.             *)
NewRecord(all, n, u) ==
  LET s == ServerName(all, n)
  IN [name |-> s, cnt |-> IF Named(all, n) = {} THEN 0 ELSE s.copy, users |-> <<u>>]

(* Space_Saver::check_a_file: some record called n has u among its users.  *)
OwnedBy(all, n, u) == \E i \in Named(all, n) : u \in ToSet(all[i].users)

(* Slip: the copies are not numbered.                                      *)
RenumberSkipped(lines) == lines

(* Files_Mapping::set_right_copy_number: the k-th line after the first     *)
(* with the same base name shows the client "(k)".                         *)
Renumber(lines) ==
  [i \in DOMAIN lines |->
     LET earlier == {j \in 1..(i - 1) : lines[j].first.base = lines[i].first.base}
     IN IF earlier = {} THEN lines[i]
        ELSE [lines[i] EXCEPT !.second.copy = Cardinality(earlier)]]

LinesFor(lines, s) == {i \in DOMAIN lines : lines[i].first = s}

(* Files_Mapping::delete_a_file: the first line with this server name goes.*)
DropLine(lines, s) ==
  IF LinesFor(lines, s) = {} THEN lines ELSE RemoveAt(lines, Min(LinesFor(lines, s)))

(* Slip: one part too early.                                               *)
WriteAtEarly(content, pos, v, zero) ==
  [i \in 1..Max({Len(content), pos}) |-> IF i = pos THEN v ELSE content[i]]

(* An ofstream writing one part at offset pos: a file truncated meanwhile  *)
(* is extended with zeros.                                                 *)
WriteAt(content, pos, v, zero) ==
  [i \in 1..Max({Len(content), pos + 1}) |->
     IF i = pos + 1 THEN v ELSE IF i <= Len(content) THEN content[i] ELSE zero]

(* How far std::equal advances fin from offset p: the stream stops at the  *)
(* first difference and is not rewound for the next comparison.  Two       *)
(* different parts are taken to differ in every byte, so that it stops at  *)
(* the border of a part.                                                   *)
Advance(f, g, p) == Max({k \in 0..(Len(f) - p) : \A j \in 1..k : f[p + j] = g[j]})

(* Slip: equal sizes are enough.                                           *)
SameWithinSizes(f, g, m) == Len(f) = Len(g)

(* Space_Saver::new_file_name_compare against m records of one name, all   *)
(* of which open the same stored file g.                                   *)
SameWithin(f, g, m) ==
  LET at[k \in 0..m] == IF k = 0 THEN 0 ELSE at[k - 1] + Advance(f, g, at[k - 1])
  IN Len(f) = Len(g) /\ \E k \in 1..m : at[k] = Len(f)

(* ... on the table: is the newest file, the last record, a duplicate?     *)
IsDuplicate(all, n, files) ==
  LET m == Cardinality(Named(Front(all), n))
  IN m > 0 /\ n \in DOMAIN files /\ SameWithin(files[Last(all).name], files[n], m)

(* The users of a record or a line name nobody twice, and the record has   *)
(* somebody unless read_db made it of a line that has no users.            *)
OwnersOnce(us) == IsInjective(us)

OwnerList(r) == OwnersOnce(r.users) /\ (r.users = <<>> => r.name = Nameless)

(* Slip: the user is added without a look at the owners.                   *)
JoinOwnerTwice(all, n, u) ==
  [all EXCEPT ![FirstNamed(all, n)].users = Append(@, u)]

(* add_file_to_db, duplicate found: u joins the first record called n.     *)
JoinOwner(all, n, u) ==
  LET i == FirstNamed(all, n)
  IN IF u \in ToSet(all[i].users) THEN all ELSE [all EXCEPT ![i].users = Append(@, u)]

(* rem_file_from_db looks only at the first record called n.  Erasing a    *)
(* user who is not in a list of several erases end(): undefined.           *)
ErasesMissing(all, n, u) ==
  LET us == all[FirstNamed(all, n)].users IN Len(us) > 1 /\ u \notin ToSet(us)

(* Slip: the last owner leaves, whoever asked.                             *)
LeaveRecordLast(all, n, u, nobody) ==
  LET i  == FirstNamed(all, n)
      us == all[i].users
  IN IF Len(us) > 1 THEN [all EXCEPT ![i].users = Front(us)]
     ELSE [all EXCEPT ![i].users = <<nobody>>]

(* The record without u; "none" takes the place of a last owner.           *)
LeaveRecord(all, n, u, nobody) ==
  LET i  == FirstNamed(all, n)
      us == all[i].users
  IN CASE Len(us) > 1 -> [all EXCEPT ![i].users = RemoveFirst(us, u)]
       [] us = <<u>>  -> [all EXCEPT ![i].users = <<nobody>>]
       [] OTHER       -> all
==============================================================================
