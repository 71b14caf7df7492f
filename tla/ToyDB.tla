------------------------------- MODULE ToyDB --------------------------------
(***************************************************************************)
(* The database layer, toydb.c, as it stands: db_create, db_open,          *)
(* db_create_table, the lookup of db_insert and db_close, called one after *)
(* the other by a program with one Database.                               *)
(*                                                                         *)
(* The directory is a tree of module BTree.  Up to a max_depth of 1, and   *)
(* as long as no write fails, it is the map of module KVMap: an insertion  *)
(* may be refused, and the first entry under a key stays.  Deeper ones     *)
(* drop subtrees when an inner node is split (run inner_split), and a      *)
(* write that fails goes unnoticed: such a directory has whichever of its  *)
(* entries its blocks still lead to, and its blocks may lead astray.       *)
(*                                                                         *)
(* With a directory the file is longer than a block, so that block_append  *)
(* fails (AppendFails of module BlockFile) and db_create_table never gets  *)
(* as far as the table's tree.  What a call does after that, or with a     *)
(* FILE that was closed, is not defined by the code: pc stays "undefined". *)
(***************************************************************************)
EXTENDS Integers

CONSTANTS
  Heads,     \* the first seven bytes of a table's name
  MaxDepths  \* the max_depths a database was created with

ASSUME MaxDepthsAssumption == MaxDepths \subseteq Nat

(* The eighth byte is the terminator in a name of seven characters, a      *)
(* character in a longer one, and either behind a shorter one.             *)
Eighth == {"nul", "char"}
Name   == [head : Heads, eighth : Eighth \cup {"any"}]
Key    == Heads \X Eighth

VARIABLES
  file,     \* "absent", "broken" (too short for the two header fields),
            \* "garbled" (its header is arbitrary bytes), "formatted"
  max_depth,  \* the header's, which is the directory's
  disk,     \* "good", or "failing": writes may fail
  fp,       \* the Database's FILE: "unusable" after a db_open that failed,
            \* "closed" by db_close, "stale" if closed by another call
  dir,      \* the keys with an entry in the directory
  entered,  \* the names that got an entry
  found,    \* the names db_insert looked up, and with what result
  ret,      \* the last call and what it returned
  pc

vars == <<file, max_depth, disk, fp, dir, entered, found, ret, pc>>

TypeOK ==
  /\ file \in {"absent", "broken", "garbled", "formatted"}
  /\ max_depth \in MaxDepths
  /\ disk \in {"good", "failing"}
  /\ fp \in {"none", "open", "unusable", "closed", "stale"}
  /\ dir \subseteq Key
  /\ entered \subseteq Name
  /\ found \subseteq [name : Name, hit : BOOLEAN]
  /\ ret \in {"none", "db_create", "db_open", "db_create_table", "db_close"} \X (-1 .. 4)
  /\ pc \in {"running", "undefined"}

(* The file is absent, or laid out as notes.txt says (1, 2).               *)
Init ==
  /\ file \in {"absent", "formatted"}
  /\ max_depth \in MaxDepths
  /\ disk \in {"good", "failing"}
  /\ fp = "none"
  /\ dir = {} /\ entered = {} /\ found = {}
  /\ ret = <<"none", 0>>
  /\ pc = "running"

-----------------------------------------------------------------------------
(* db_create. *)

Create(outcome, r) ==
  /\ pc = "running"
  /\ file' = outcome
  /\ ret' = <<"db_create", r>>
  /\ UNCHANGED <<max_depth, disk, fp, dir, entered, found, pc>>

CreateExists == file # "absent" /\ Create(file, 1)

(* fopen fails, or it makes an empty file and stat fails.                  *)
CreateOpenFails ==
  /\ file = "absent"
  /\ Create("absent", 2) \/ Create("broken", 2)

(* The tests of the first two writes are the wrong way round: the call     *)
(* ends with "write error" at the first of them that succeeds.             *)
CreateFieldWritten == file = "absent" /\ Create("broken", 3)

(* Neither succeeds, and filling the block fails half way.                 *)
CreateFillFails ==
  /\ file = "absent" /\ disk = "failing"
  /\ Create("broken", 3) \/ Create("garbled", 3)

(* Neither succeeds, the block is filled with whatever follows the string  *)
(* literal in memory, and btree_open cannot seek to the end of the file.   *)
CreateTreeFails ==
  /\ file = "absent" /\ disk = "failing"
  /\ Create("broken", 4) \/ Create("garbled", 4)

(* The same, but the directory is made: btree_close closes the FILE,       *)
(* whether or not it returns an error, and db_create closes it again.      *)
CreateClosesTwice ==
  /\ pc = "running" /\ file = "absent" /\ disk = "failing"
  /\ file' = "garbled"
  /\ pc' = "undefined"
  /\ UNCHANGED <<max_depth, disk, fp, dir, entered, found, ret>>

-----------------------------------------------------------------------------
(* db_open and db_close. *)

(* Mutant: the second fread of db_open is not checked.                     *)
OpenUnchecked ==
  /\ pc = "running" /\ fp \in {"none", "closed", "stale"}
  /\ file # "absent"
  /\ fp' = "open"
  /\ ret' = <<"db_open", 0>>
  /\ UNCHANGED <<file, max_depth, disk, dir, entered, found, pc>>

Open ==
  /\ pc = "running" /\ fp \in {"none", "closed", "stale"}
  /\ file \in {"garbled", "formatted"}
  /\ fp' = "open"
  /\ ret' = <<"db_open", 0>>
  /\ UNCHANGED <<file, max_depth, disk, dir, entered, found, pc>>

(* A FILE whose header cannot be read is left open.                        *)
OpenFails ==
  /\ pc = "running" /\ fp \in {"none", "closed", "stale"}
  /\ \/ file = "absent" /\ fp' = "none"     /\ ret' = <<"db_open", 1>>
     \/ file = "broken" /\ fp' = "unusable" /\ ret' = <<"db_open", 2>>
  /\ UNCHANGED <<file, max_depth, disk, dir, entered, found, pc>>

(* db_close returns what fclose returns, EOF if a write fails.             *)
Close ==
  /\ pc = "running" /\ fp \in {"open", "unusable"}
  /\ fp' = "closed"
  /\ \/ ret' = <<"db_close", 0>>
     \/ disk = "failing" /\ ret' = <<"db_close", -1>>
  /\ UNCHANGED <<file, max_depth, disk, dir, entered, found, pc>>

-----------------------------------------------------------------------------
(* db_create_table and db_insert on an opened database. *)

Opened == pc = "running" /\ file = "formatted" /\ fp = "open"

(* Mutants: the byte behind the terminator is read as well; the eighth     *)
(* byte is left as it is.                                                  *)
EntryKeysPastEnd(name) == {name.head} \X Eighth

EntryKeysUnset(name) == {<<name.head, name.eighth>>}

(* db_create_table copies eight bytes of the name into the key, db_insert  *)
(* seven.                                                                  *)
EntryKeys(name) ==
  {name.head} \X (IF name.eighth = "any" THEN Eighth ELSE {name.eighth})

LookupKey(name) == <<name.head, "nul">>

(* A schema whose first column is no int64_t is rejected at once.          *)
TableRejected ==
  /\ pc = "running" /\ fp # "none"
  /\ ret' = <<"db_create_table", 2>>
  /\ UNCHANGED <<file, max_depth, disk, fp, dir, entered, found, pc>>

(* Whether the directory keeps what it has.                                *)
Reliable == max_depth <= 1 /\ disk = "good"

(* What an insertion leaves of the entries: all, or any of those ever made *)
(* (one that was lost may be within reach again).                          *)
Kept == IF Reliable THEN {dir} ELSE SUBSET UNION {EntryKeys(name) : name \in entered}

(* The insertion into the directory, whose result is ignored.              *)
EnterOrRefuse(name) == \E kept \in Kept :
  \/ \E key \in EntryKeys(name) \ kept :
       dir' = kept \cup {key} /\ entered' = entered \cup {name}
  \/ dir' = kept /\ UNCHANGED entered

(* Or the insertion, or the search of db_insert, reads what is no node.    *)
DirectoryUndefined ==
  /\ Opened /\ ~Reliable
  /\ pc' = "undefined"
  /\ UNCHANGED <<file, max_depth, disk, fp, dir, entered, found, ret>>

(* No memory for the schema block, or a field of the schema does not fit:  *)
(* the directory is closed, and with it the FILE of the Database; 4 if     *)
(* closing fails.                                                          *)
TableSchemaFails(name) ==
  /\ Opened
  /\ EnterOrRefuse(name)
  /\ \/ ret' \in {<<"db_create_table", 1>>, <<"db_create_table", 3>>}
     \/ disk = "failing" /\ ret' = <<"db_create_table", 4>>
  /\ fp' = "stale"
  /\ UNCHANGED <<file, max_depth, disk, found, pc>>

TableAppendFails(name) ==
  /\ Opened
  /\ EnterOrRefuse(name)
  /\ pc' = "undefined"
  /\ UNCHANGED <<file, max_depth, disk, fp, found, ret>>

(* The lookup of db_insert.  Without an entry the call frees a block and   *)
(* closes a tree it has not set up; with one it opens the table's tree     *)
(* where none is, and its next line does not compile.                      *)
InsertLooksUp(name) ==
  /\ Opened
  /\ found' = found \cup {[name |-> name, hit |-> LookupKey(name) \in dir]}
  /\ pc' = "undefined"
  /\ UNCHANGED <<file, max_depth, disk, fp, dir, entered, ret>>

(* A call that uses the FILE db_create_table has closed, or a database     *)
(* whose block size and directory are arbitrary bytes.                     *)
UseUnsound ==
  /\ pc = "running"
  /\ \/ fp = "stale"
     \/ fp = "open" /\ file = "garbled"
  /\ pc' = "undefined"
  /\ UNCHANGED <<file, max_depth, disk, fp, dir, entered, found, ret>>

Next ==
  \/ CreateExists \/ CreateOpenFails \/ CreateFieldWritten \/ CreateFillFails
  \/ CreateTreeFails \/ CreateClosesTwice
  \/ Open \/ OpenFails \/ Close \/ UseUnsound
  \/ TableRejected \/ DirectoryUndefined
  \/ \E name \in Name :
       TableSchemaFails(name) \/ TableAppendFails(name) \/ InsertLooksUp(name)

Spec == Init /\ [][Next]_vars

-----------------------------------------------------------------------------
(* What holds. *)

(* What a db_create that failed leaves behind is not opened as a database: *)
(* never without both header fields, and, unless writes fail, never with a *)
(* header that was not written.                                            *)
OpenedIsWhole ==
  fp = "open" => file # "broken" /\ (disk = "good" => file = "formatted")

(* A table whose name has seven characters is found by db_insert, whatever *)
(* other tables were created, if db_create_table entered it: in a database *)
(* of max_depth 0 or 1 all of whose writes succeed.                        *)
SevenCharactersFound == Reliable =>
  \A f \in found : f.name \in entered /\ f.name.eighth = "nul" => f.hit

-----------------------------------------------------------------------------
(* What the repository says and the code does not do. *)

(* The directory has entries of tables that exist: a db_create_table that  *)
(* returns an error adds none.                                             *)
EntriesHaveTables == [][~(dir' \subseteq dir) /\ pc' = "running" => ret'[2] = 0]_vars
=============================================================================
