# Verification of the Arduino controlled cloud storage

TLA+ models of the program in this repository, TLC configurations that check
them on small instances, and TLAPS proofs of what holds for every instance.
Line numbers below are those of the source files.

## 1. The system

One **server** process (`CloudStorageServer/`) stores files for the users of
any number of **client** processes (`Client/`).  They talk over TCP port 80
in messages of 10000 bytes built and parsed by `HTTP_BUILDER/Http_Builder.h`;
files travel in parts of 9000 bytes cut by `File_Sender/File_Sender.h`.  With
the flag `-a` the server also sends short messages over a serial line to an
**Arduino** that drives a display.

A single thread runs `context.run()` (CloudStorageServer.cpp:358), so each
handler is atomic with respect to the others.  What interleaves are the
*requests* and, inside one upload, the *messages* of different connections.
There is no lock because none is needed for memory; what is shared and can go
wrong is the disk, and memory that a connection read earlier.

| Component | State it keeps | Operations |
|---|---|---|
| `Cloud_Storage`, `NEW_connection` (CloudStorageServer.cpp) | acceptor; per connection one buffer `http_request`, `client_state`, `user_name`, outstanding reads and writes, its own `Space_Saver`, `http_processing` | accept, start_read/handle_read, start_write/handle_write, Files_Operator |
| `http_processing` (Http_processing.cpp) | `fileout` of an upload, a `File_Sender` for a download, a `user_data` | Authorisation, Registration, TakingAFile, SendingAFile |
| `user_data` (user_data.cpp) | `db.txt`: a line per account; an `fstream` that some returns leave open, and that outlives the connection: nothing deletes the `user_data` | Authorisation, Registration |
| `Space_Saver`, `Files_OPERATOR` (space_saver.cpp) | `files_db.txt`: a record per stored file with its users; per connection a copy of it, `all_files` | name_compare, new_file_name_compare, add_file_to_db, rem_file_from_db, check_a_file, space_counter, lists |
| `Files_Mapping` (Server_Client_files_mapping.cpp) | in memory a list per user of (server name, client name); `<user>.txt` for each | load_users, read_from_db, add_new_user, add_a_line_for_user, delete_a_file, lookups |
| `File_Sender` (File_Sender.h) | open file, position, state start/body/end/full | init_File_sender, set_right_state, split_file, close_file |
| `Http_Builder`, `Http_Parser` | one buffer each | one builder per kind of message, Parsing |
| Client (ClentInit.cpp, Client.cpp) | where its menu loop is, one request buffer | log in or register until "200 OK"; then send, take, delete, storage size, list |
| `Client_Vector` | weak pointers to the connections, the last count sent | add_new_client, update_clients_list (posts itself for ever) |
| `Arduino_Connector`, the sketch | serial port; the display's last message | sendArduino; Catch_connection, Update_Display |
| `RAID_Manager` | directories below `RAID\` | created once at start-up |
| bcrypt, blowfish | - | vendored |

How they interact: `handle_read` parses the buffer and calls one of the
others; `name_compare` adds a line to the mapping, `add_file_to_db` takes it
away again when the file is a duplicate.  The copy number of a stored file
lives in three places that are written at different times: `all_files` of the
uploading connection (at the first part), the mapping (at the first part) and
`files_db.txt` (after the last part).  The hard behaviours follow from that:

* uploads of one name that overlap, and files that they share;
* a table rewritten from a copy that is no longer current;
* a connection cut, or the process killed, in the middle of an upload, and the
  restart that reads the text files back;
* streams left open between two requests of a client;
* several reads and writes outstanding on one buffer;
* sizes at the border of a part and of an `int`;
* a client that leaves and one that joins between two looks at their number,
  and serial messages that nothing separates.

`PROJECT.json` lists the hazards one by one, each at its line and with the
properties that cover it.

What makes each component correct: a *table* that never loses a record or
mistakes two files for one; a *mapping* that survives restarts and whose names
lead back to the files they stand for; *accounts* that are unique and always usable; a
*transfer* that copies byte for byte or visibly fails; a *session* in which
every request gets its own answer; a *display* that ends up with the current
number of clients, or says that it cannot.

## 2. The modules

| Module | Models | Correspondence |
|---|---|---|
| `StoreTables` | the pure operations on files_db.txt, all_files and mapping lines | one operator per function: `ReadDb` is read_db, `WriteDb` reset_a_file_info (`Torn` when it is cut short), `ServerName`/`NewRecord` name_compare, `Renumber` set_right_copy_number, `SameWithin`/`IsDuplicate` new_file_name_compare, `JoinOwner` and `LeaveRecord` the two changes of a user list |
| `FileStore` | all connections' `Space_Saver`s, `Files_Mapping`, the directory `Files`, starts and crashes of the process | disk: `registered`, `filesDb`, `userTxt`, `files`; memory: `up`, `mapping`, `conn`, `user`, `cache` (all_files), `upload` (the open fileout); `clash` and `cuts` are history variables |
| `UserLists` | abstract: one durable list of files per user | implemented by `FileStore` |
| `Accounts` | `user_data` and db.txt under any number of connections | `isOpen` is `db.is_open()`; one action per return of the two functions; `Disconnect` leaves the stream as it is |
| `Sessions` | abstract: who is registered, who is logged in as whom | implemented by `Accounts` |
| `Transfer` | `File_Sender`, the wire, the reassembly in SendingAFile | one action per part kind on each side |
| `FileCopy` | abstract: the copy is a growing prefix, complete when done | implemented by `Transfer` |
| `Session` | the Client's menu loop and one `NEW_connection` | `reads`, `arrived`, `writes`, `written` are the asynchronous operations by their stage; `buf` is the shared buffer |
| `ClientsDisplay` | `Client_Vector`, `Arduino_Connector`, the serial line, the sketch | `listed` is client_vector, `lastSize` last_size, `asleep` the pause in sendArduino; `line` the messages not yet read; `greeted`, `info`, `prev` the sketch's variables, `lcd` what it drew last; `sent`, `counted`, `deaf` are history variables |
| `MCFileStore`, `MCAccounts`, `MCTransfer` | instances for TLC | constants and symmetry only |
| `StoreTablesProofs` | lemmas about the tables | section 5 |
| `FileStoreProofs`, `FileStoreFilesProofs`, `FileStoreListsProofs` | theorems about the table, the files and the users' lists of `FileStore`; each extends the one before | section 5 |
| `AccountsProofs`, `TransferProofs`, `SessionProofs`, `ClientsDisplayProofs` | theorems about these modules | section 5 |

Abstractions:

* A file name is its copy number and its base: "(2)x" is `[copy |-> 2,
  base |-> "x"]`.  Names that contain ")" or ":" themselves, and users called
  "db" or "files_db", whose text files would collide, are left out.
* `FileStore`'s accounts are a set.  A login that stands twice in db.txt (run
  `accounts_repeated_login`) would be loaded twice by load_users and have two
  entries in the mapping; that is left out.
* In `FileStore` the content of a part is a model value, and two different
  parts are taken to differ in all their bytes, so the comparison of files
  stops between parts.  `Transfer` has the bytes.
* A read returns one whole message (nothing in the program frames them).
* `FileStore`'s clients behave like the Client program: log in first, one
  upload at a time, nothing between its parts.  `Delete` may name any file of
  the connection's all_files.
* A handler is one action, including everything it calls.  `Settle` is
  add_file_to_db applied to what the same handler did before, because the
  "full" message does both halves of an upload in one call.
* Any end of the process may lose the part an open `fileout` wrote last
  (`Remains`).  `abort`, a stack overflow and a kill do not flush it.
* files_db.txt that does not exist is `<<>>`, one that exists and is empty is
  `<<Blank>>`: set_a_line begins with a newline whenever the file exists, so
  the line before stays, and read_db makes of an empty line, or of one with a
  name and no ":", a record without name and users (`Nameless`).  An empty
  line at the end of the file is none to getline (`LinesRead`).
* A process killed while it writes `<user>.txt` or files_db.txt leaves its
  beginning (`CutShort`): reset_a_file and reset_a_file_info truncate the file
  when they open it and fill it in order.  files_db.txt, set_a_line's new
  line included, may end before or after any name or user (`Torn`); a
  separator counts with what follows it, and part of a name or of a user is
  left out.  The lines of a list are whole: half a line has no ":" and is
  skipped by read_from_db, or names a file by a shorter name, which is left
  out.  Registration's line of db.txt is taken as atomic.
* The user who registers is not loaded (`Register`), so that the first upload
  ends the process (`UploadUnloaded`).  `TakeMissing`, a download of a file
  that is not there, goes on with an uninitialised size; of its outcomes the
  end of the process is an action and the others change nothing that
  `FileStore` has.
* A serial message is the sequence of its characters, these are numbers, and
  numbers are written in base `Radix`: with base 3 the ID of the third client
  already has two digits, as has that of the tenth in the program.  "MH" is in
  the model and is reached only from `Radix * Radix` clients on, more than the
  run has.
* `ClientsDisplay` is a server started with `-a`.  That opening the port
  resets some boards and that the serial buffer has 64 bytes is left out.
  `Wake` happens when the line has been read: the server pauses five seconds,
  longer than the sketch takes to draw.
* bcrypt is external: a hash stands for its password.

Every constant that only bounds a model is marked "bound" in its module:
`MaxConn`, `MaxLines` (mapping lines of all users, and records), `MaxParts`,
`MaxCuts`, `MaxDb`, `MaxRequests`, `SocketBuffer`, `MaxClients`, `MaxStarts`,
`MaxLine`.  Definitions below a comment "Slip:" are wrong
variants of the definition that follows; they exist to show that a property
notices the mistake and nothing else uses them.

## 3. The runs

Passing runs.

| Run | Question | Result |
|---|---|---|
| `store_contents` | What do uploads leave in `Files`? | `SoleWriterIntact`: an upload that never shared its server name finds on disk exactly what it sent. `SingleRecordDuplicateIsEqual`: with one record of the name, a discarded file has an equal twin. `UploadedIsServed`: an upload that ran undisturbed and was kept (its file is still there when it has ended) can be downloaded at once, unchanged, under a name its user's list shows, as long as the list's first line of that base name shows no number. |
| `store_copies` | Do numbering, sharing and rewriting keep the table sound? | `UploadIsNewest`: the file that ends is the last of all_files. `PlainFileStays`: the file that a record with a name, on disk or in any connection's copy, is compared with exists; it is the one without number (space_saver.cpp:62), and for every record read from files_db.txt also the one that space_counter opens (171), not for the connection's own newest record, which keeps its number (40). `OwnersWellFormed`: no user list names anybody twice, and only a record that read_db made of a line cut short is empty. `FreshRewriteIsLocal`: a connection whose copy is current takes no record from others. `NewNameUnlisted`: a new upload never opens a file that a line of files_db.txt with users has under that number. |
| `store_restarts` | Does the mapping survive? | `ListsAreDurable`: FileStore implements `UserLists`, in which a restart changes nothing and a kill in the middle of a write costs at most the end of the one list being written. `PlainFileStays`, `OwnersWellFormed` and `NewNameUnlisted` again, now after a files_db.txt that was cut short, also down to an empty one, and that later uploads append to. |
| `accounts` | What can the open stream do? | `StreamFollowsAnswer`: while a client asks, its stream is open exactly after "380". `RepeatsOnlyAfterTaken`, `StoredPasswordAcceptedOtherwise`: so only a client just told "380" can repeat a login or be refused with the right password. `ImplementsSessions`: no login is lost and nobody is logged in under one that is not stored. |
| `transfer` | Is a file copied? | `WrittenIsPrefix`: whatever was written is a prefix until the file is closed as received, for every size, also when stoi throws. `ImplementsCopy`: it is whole when the transfer ends well, for sizes that do not wrap around. `TransferEnds`. |
| `session` | Does every request get its answer? | For an orderly client: `AlwaysListening` (the connection never runs out of operations), `AnswerMatches`, `TakenInOrder`, `UploadInOrder`. A file of more parts than the socket takes at once has the answer in place of a part, and stod of it ends the client: `EndsOnlyOnLongFile` says that nothing else does, and `ComesBack` that otherwise the client returns to its menu. |
| `display` | Does the display follow the server? | `ShowsLast`: a display that has read everything shows the last message or "WRONG SERIAL", unless it was restarted and has read no message by itself since. `DepartedNotCounted`: in the end nobody who left is counted. `DisplayCatchesUp`: again and again the display shows the last message or the error. |

Runs that find what the code does otherwise than the repository says.

| Run | Violated | What happens |
|---|---|---|
| `store_false_duplicate` | `DuplicateIsEqual` | the comparison is not rewound between records (space_saver.cpp:69); a new file is removed although none is equal. |
| `store_lost_record` | `RewriteIsLocal` | files_db.txt is rewritten from a stale copy (space_saver.cpp:122); another user's record is gone. |
| `store_lost_number` | `KeptFileIntact` | the rewrite forgets copy numbers (space_saver.cpp:242); a later upload truncates a stored file. |
| `accounts_repeated_login` | `LoginsAreUnique` | after "THIS LOGIN IN USE" the same request succeeds (user_data.cpp:37). |
| `display_missed` | `CountReported` | the size compared is taken before the expired connections are erased (CloudStorageServer.cpp:251): a client that leaves and one that joins between two rounds leave the sent number too low. |

The conditions in the passing properties are the exact complement of these:
one record instead of several, a current copy instead of a stale one, "380"
just before, "too many" instead of "exactly".  They say
where the code can be relied on.

Two more defects are actions of the models and refute no sentence of the
repository, so no run is spent on them: a new user's first upload ends the
server (`UploadUnloaded`; Server_Client_files_mapping.cpp:50, 103), and a
client that names a local file it does not have waits for an answer nobody
owes it (`ChooseMissingUpload` in `Session`; ClentInit.cpp:125, 241).
`ComesBack` is stated for clients that name files they have.

What the properties leave out on purpose, and the code does not bear:

* uploads that share a server name (`clash`): both write one file;
* uploads of several parts by a client that has taken a file before
  (`orderly`): the reads left outstanding overwrite the parts in the buffer;
* in `UploadedIsServed`, lists whose first line of a base name shows a number,
  which an upload cut off and a duplicate can leave: two lines then show one
  name, and the second file is not reached by it;
* erasing a user who is not in the first record of a name, and removing a file
  another upload has open: in the models the process ends.

Each is a hazard in `PROJECT.json` with a note and no property.

### Bounds

* `store_contents`: one user, two contents, three connections, two lines,
  three parts.  Two connections overlap while a third has read the table
  before either; three parts give a first, a middle and a last one and let
  two uploads differ in size or in one part.
* `store_copies`: two users who own the same file, up to three lines, so three
  records of a name; two connections, two parts (start and end, or full).
* `store_restarts`: one shipped user and one who registers, two connections per
  life of the process, one content, any number of lives, one kill in the
  middle of a write (`MaxCuts`); what a second one finds differs only by lists
  that are shorter.
* `accounts`: three connections (one asking, one left with an open stream, one
  writing between), three logins, two passwords, four lines.
* `transfer`: parts of two bytes, every file of up to seven bytes over {0, 1},
  the filler byte 0 being one of them; 14 values of an int, so that size 7 no
  longer fits.
* `session`: two kinds of question, files of up to three parts, four requests,
  a socket that takes two messages, so that an answer after two parts has to
  wait, and of a file of three parts a part has to.
* `display`: three clients (base 3: the third cannot send its storage, two
  can), percentages of one, two and three digits, two lives of the
  server, three messages on the line, so that two can be joined while a third
  is on its way; any number of restarts of the device.

`store_*` and `accounts` use symmetry of users, parts or connections, all
interchangeable in the specifications (only the shipped users in
`store_restarts` are not, and the symmetry set leaves them alone).
`CHECK_DEADLOCK FALSE` is set for `accounts` and `session`: connections are
used once, and a client whose requests are used up stops.

### Fairness

`Transfer` assumes weak fairness of the sender (its loop does nothing else)
and of the receiver (the io_context thread takes what arrives); nothing makes
a connection break.  `Session` assumes it of the client's thread, of TCP's
delivery and of the handlers, never of what the user chooses.
`ClientsDisplay` assumes it of the sketch, whose loop() runs for ever, and of
the end of the pause; of `Update` strong fairness, since the pause disables it
again and again: update_clients_list posts itself, the queue of the io_context
is first in, first out, and so its turn comes after finitely many handlers.
Nothing makes clients join, leave or ask, or anything restart.  The other runs
check safety only.

## 4. What is not modelled

* `RAID_Manager`: creates a fixed tree of directories once, which nothing
  reads or writes afterwards; there is no behaviour to state anything of.
* bcrypt and blowfish: vendored; a hash stands for its password.
* The text of messages and the string searches of `Http_Parser`.
* Short and joined TCP reads: nothing in the program frames messages, and a
  model of them would refute nearly every property of `Session` and `Transfer`
  without saying more than that.
* A login that stands twice in db.txt in the mapping (see section 2).
* How many streams of db.txt that nothing closes the operating system bears.
* The glyphs, positions and delays of the display and the terminal menu;
  `Arduino_Connection::send_Arduino_message`, `server_client_alternative`,
  `check_a_user` and `get_users_vector`, which nothing calls.
* ArduinoInfo at a server without `-a`, which has no `arduino_connector`.

## 5. What is proved

Checked by TLAPS for all values of the constants that satisfy the modules'
assumptions.  These ask for what the code fixes: sentinels are no users
(`ConstantsAssumption`, `AccountsAssumption`), a part is not empty and a message
fits an int (`TransferAssumption`), a request of one message is not called
"send", "take" or "answer" (`SessionAssumption`), numerals have a base of two at
least (`DisplayAssumption`), bounds are naturals.  Every invariant of a passing
run is a theorem, and so are the action properties and the refinements; the four
liveness properties are not (end of this section).

**Tables** (`StoreTablesProofs`).  Lemmas: a finite non-empty set of numbers has
a maximum (by well-founded induction on subsets); what `ServerName` returns and
that it differs from every number in the table; what reading, writing,
renumbering, joining, leaving, appending and removing keep: types, owners,
names that occur once; that joining adds exactly one new user and leaving takes
one away; that what is left of a table cut short is each line's beginning.  The
value of `NoName` is nowhere used: it is a string that is no base name.

**Accounts** (`AccountsProofs`).  The inductive invariant is
`TypeOK /\ StreamFollowsAnswer` (of a client still asking: the stream of one
that has left may be open): the action properties `RepeatsOnlyAfterTaken`
and `StoredPasswordAcceptedOtherwise` need to know that a connection not just
answered "380" reads all of db.txt.  `AccountsImplementSessions` is the
refinement.

**Store**, in three modules, each on the invariant of the one before.

* `FileStoreProofs`: the inductive invariant `IInv` is `TypeOK /\ UploadIsNewest`.
  `TypeOK` alone is not inductive: `UploadBody` writes at the upload's server
  name, which has to be in `Files`, and `Settle` takes `Last` and `Front` of
  all_files, which must not be empty.  `UploadIsNewest` in turn needs the last
  two conjuncts of `TypeOK`: `Accept` resets the all_files of the next
  connection, which must not have an upload.  One lemma for each action that
  does more than move values, and `Settle` once for both of its callers, from
  the facts `Settles` lists.  On it rest `OwnersCorrect` (a user joins only a
  list without that user, and one who leaves a list of one is replaced by
  "none"; a record is without users only if it was read from a line without
  any, and has no name then) and `NewNameCorrect` (the number taken exceeds
  every one of that name in files_db.txt, which the same handler has just
  read).  Both hold for any number of kills in the middle of a write:
  `CutShortInv` reduces each to what may be on disk, and `TornListedOnce`
  carries the owners over to a table cut short.
* `FileStoreFilesProofs`: what is in `Files`.  `SoleWriterIntactCorrect` adds
  that two open uploads of one server name are both marked (`SharingIsMarked`):
  without it a part could be appended to the file of an upload that counts as
  undisturbed.  `PlainFileStaysCorrect`: `PlainInv` states the property for the
  copy of every connection too (`Covered`), since any of them may become
  files_db.txt, and that a plain upload knows no earlier record of its name
  (`PlainUploadIsFirst`), so that only numbered files are taken away;
  `TornCovered` is the table cut short, whose broken line names no other file.
  `FreshRewriteCorrect` follows from `IInv` by cases on the handler.
  `SingleRecordDuplicateCorrect` needs that of two records of one name and number
  none is the upload's own (`TwinIsOther`): what is left behind is another file
  than the one taken away.
* `FileStoreListsProofs`: the users' lists.  `MappingIsSavedCorrect`: the mapping
  and the text files name the same stored files; no run checks it, and
  `StoreImplementsLists` needs it, because its lists are the text files while the
  server works on the mapping.  `UploadedIsServedCorrect` combines
  `SoleWriterIntact`, for lists whose first line of the base name shows no number,
  with two invariants of the lists: what `Renumber` has been
  through is numbered as it leaves it (`AllNumbered`), and the line of an open
  upload is in its user's list (`UploadListed`).

**Transfer** (`TransferProofs`).  `IInv` ties every message on the way to its place
in the file (`At(i)`, `Fits`), and through it the bytes written to the bytes
read: `WrittenIsPrefix` says nothing of what is still in the channel, so no step
of the receiver keeps it by itself.  `StoredIsWholeCorrect` is stronger than the
prefix at the end and in no run.  `TransferImplementsCopy` is for files shorter than
the range of an int: the size in a header wraps for longer ones, and the
receiver then closes a file that is not whole.  `WrittenIsPrefixCorrect` covers
these too as long as the file is not closed as received, and with them the end
by stoi's exception; `StoredIsWhole` carries the condition (`SizeFits`),
`TypeCorrect` needs none.

**Session** (`SessionProofs`).  The types hold for every client.  An orderly one is
in one of five stages (`Stages`): nothing asked, request on the way or
half taken in, answer written, file being written to it, ended by the answer in
place of a part.
Each stage says what is in the socket, in the buffer both directions share and
among the operations outstanding.  `AlwaysListening` counts the latter;
`AnswerMatches`, `UploadInOrder`, `TakenInOrder` and `EndsOnlyOnLongFile` read off
what the stage says.
None of them is inductive alone: a read that completes while a write is
outstanding puts its data into the buffer that write will send.

**Display** (`ClientsDisplayProofs`).  `ShowsLast` for any base of numerals.  `IInv`
adds what a line may hold (`LineInv`: whole frames, and one broken greeting after
a restart of the device), what a device that has just heard the greeting shows
(`FreshInv`) and what it remembers (`DrawnInv`).  The frames are why: the counter
always has two characters (`MainFrameFact`), so messages joined on the line are
never as short as one; a storage frame is longer than two characters, and one of
three does not begin with 0 (`StorageFrameFact`).
`Numeral` and the library's `FlattenSeq` are recursive functions, and the
library's induction theorems take an operator as a parameter, which no installed
prover can instantiate.  Each is therefore shown to satisfy its own equation by
hand: approximations defined up to any bound agree, by a least counterexample
(`MinFact`), and their union is the function.

**What the attempts changed in the model.**  `UploadedIsServed` used to speak of
uploads after which files_db.txt is longer.  The step for `Settle` did not go
through, and with two users TLC found why: a connection with an old, longer copy
of the table makes files_db.txt longer although it has recognised a duplicate and
removed the file.  The property now speaks of uploads whose file is kept.
`TakenInOrder` lost a condition on the room in the socket, which the
proof did not use; `EndsOnlyOnLongFile` is where the room does matter.  "answer" was a possible name of a request in `Session`, and
is the client's state too; the assumption excludes it.

**Only model-checked.**  `TransferEnds`, `ComesBack`, `DepartedNotCounted` and
`DisplayCatchesUp`: liveness under fairness rests on ENABLED, which is beyond
TLAPS here.  `FileStoreCopies`, `FileStoreContents` and the other runs give the
proved properties an instance on which they are not vacuous.  What five
runs of section 3 find violated has no theorem.

## 6. Plan

Modelled and checked: the store, the accounts, the transfer, the session, the
display.  Proved: every invariant, action property and refinement the passing
runs check.  Left for later:

1. Proofs shorter where a lemma can serve two actions: the steps of `SessionProofs`
   that leave most of a stage alone, and those of `FileStoreListsProofs` about
   `Renumber`.
2. `Sessions`, `UserLists` and `FileCopy` have no theorems of their own; what
   follows from them alone (no step but a kill loses two entries) could be stated there
   and carried over by refinement.
3. Hazards without a property (PROJECT.json says why for each), if the code
   they bite in comes within reach of the modules.
