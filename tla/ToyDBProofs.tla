----------------------------- MODULE ToyDBProofs -----------------------------
(***************************************************************************)
(* The database layer, whatever the names of its tables.                   *)
(***************************************************************************)
EXTENDS ToyDB, TLAPS

(* What keeps OpenedIsWhole: a good disk leaves no header of arbitrary     *)
(* bytes, and a database that is open has a file that db_create refuses.   *)
HeadersWritten ==
  /\ disk = "good" => file # "garbled"
  /\ fp = "open" => file \in {"garbled", "formatted"}

(* What keeps SevenCharactersFound: an entry with seven characters stays   *)
(* under the one key db_insert asks for, if the directory loses none, and  *)
(* a lookup is the last call.                                              *)
EntriesStay ==
  /\ Reliable => \A name \in entered : name.eighth = "nul" => LookupKey(name) \in dir
  /\ \A f \in found : pc = "undefined" /\ (f.hit <=> LookupKey(f.name) \in dir)

DBInv == TypeOK /\ HeadersWritten /\ EntriesStay

(* The program starts without a database at hand.                          *)
LEMMA DBInit == Init => DBInv
BY DEF Init, DBInv, TypeOK, HeadersWritten, EntriesStay

(* The file and what the Database makes of it.                             *)
LEMMA HeadersNext == ASSUME DBInv, [Next]_vars PROVE HeadersWritten'
<1> USE DEF DBInv, HeadersWritten
<1>1. CASE CreateExists \/ CreateOpenFails \/ CreateFieldWritten \/ CreateFillFails
           \/ CreateTreeFails \/ CreateClosesTwice
  BY <1>1 DEF CreateExists, CreateOpenFails, CreateFieldWritten, CreateFillFails,
              CreateTreeFails, CreateClosesTwice, Create
<1>2. CASE Open \/ OpenFails \/ Close \/ UseUnsound
  BY <1>2 DEF Open, OpenFails, Close, UseUnsound
<1>3. CASE TableRejected \/ DirectoryUndefined
  BY <1>3 DEF TableRejected, DirectoryUndefined
<1>4. ASSUME NEW name \in Name,
             TableSchemaFails(name) \/ TableAppendFails(name) \/ InsertLooksUp(name)
      PROVE  HeadersWritten'
  BY <1>4 DEF TableSchemaFails, TableAppendFails, InsertLooksUp
<1>5. CASE UNCHANGED vars
  BY <1>5 DEF vars
<1> QED BY <1>1, <1>2, <1>3, <1>4, <1>5 DEF Next

(* The key of a name, and what an insertion leaves of the directory.       *)
LEMMA KeysAre ==
  ASSUME NEW name \in Name
  PROVE  EntryKeys(name) \subseteq Key
<1>1. name.head \in Heads /\ name.eighth \in Eighth \cup {"any"}
  BY DEF Name
<1> QED BY <1>1 DEF EntryKeys, Key

LEMMA KeptAre ==
  ASSUME DBInv, NEW kept \in Kept
  PROVE  kept \subseteq Key /\ (Reliable => kept = dir)
<1>1. dir \subseteq Key /\ entered \subseteq Name
  BY DEF DBInv, TypeOK
<1>2. UNION {EntryKeys(name) : name \in entered} \subseteq Key
  BY <1>1, KeysAre
<1> QED BY <1>1, <1>2 DEF Kept

(* The directory, what was entered and what was looked up.                 *)
LEMMA EnterKeeps ==
  ASSUME DBInv, NEW name \in Name, EnterOrRefuse(name), found = {},
         UNCHANGED <<found, max_depth, disk>>
  PROVE  EntriesStay' /\ dir' \subseteq Key /\ entered' \subseteq Name
<1> PICK kept \in Kept :
      \/ \E key \in EntryKeys(name) \ kept :
           dir' = kept \cup {key} /\ entered' = entered \cup {name}
      \/ dir' = kept /\ UNCHANGED entered
  BY DEF EnterOrRefuse
<1>1. kept \subseteq Key /\ (Reliable => kept = dir) /\ (Reliable' <=> Reliable)
  BY KeptAre DEF Reliable
<1>2. Reliable => \A n \in entered : n.eighth = "nul" => LookupKey(n) \in kept
  BY <1>1 DEF DBInv, EntriesStay
<1>3. CASE dir' = kept /\ UNCHANGED entered
  BY <1>1, <1>2, <1>3 DEF DBInv, EntriesStay, LookupKey, TypeOK
<1>4. ASSUME NEW key \in EntryKeys(name) \ kept,
             dir' = kept \cup {key}, entered' = entered \cup {name}
      PROVE  EntriesStay' /\ dir' \subseteq Key /\ entered' \subseteq Name
  <2>1. key \in Key
    BY KeysAre
  <2>2. name.eighth = "nul" => key = LookupKey(name)
    BY DEF EntryKeys, LookupKey
  <2>3. Reliable' => \A n \in entered' : n.eighth = "nul" => LookupKey(n) \in dir'
    BY <1>1, <1>2, <1>4, <2>2
  <2> QED BY <1>1, <1>4, <2>1, <2>3 DEF DBInv, TypeOK, EntriesStay, LookupKey
<1> QED BY <1>3, <1>4

LEMMA EntriesNext == ASSUME DBInv, [Next]_vars PROVE EntriesStay'
<1>1. ASSUME UNCHANGED <<dir, entered, found, max_depth, disk>>, pc = "undefined" => pc' = "undefined"
      PROVE  EntriesStay'
  BY <1>1 DEF DBInv, EntriesStay, LookupKey, Reliable
<1>2. CASE CreateExists \/ CreateOpenFails \/ CreateFieldWritten \/ CreateFillFails
           \/ CreateTreeFails \/ CreateClosesTwice
  BY <1>1, <1>2 DEF CreateExists, CreateOpenFails, CreateFieldWritten, CreateFillFails,
                    CreateTreeFails, CreateClosesTwice, Create
<1>3. CASE Open \/ OpenFails \/ Close \/ UseUnsound
  BY <1>1, <1>3 DEF Open, OpenFails, Close, UseUnsound
<1>4. CASE TableRejected \/ DirectoryUndefined
  BY <1>1, <1>4 DEF TableRejected, DirectoryUndefined
<1>5. ASSUME NEW name \in Name, TableSchemaFails(name) \/ TableAppendFails(name)
      PROVE  EntriesStay'
  <2>1. found = {} /\ EnterOrRefuse(name) /\ UNCHANGED <<found, max_depth, disk>>
    BY <1>5 DEF TableSchemaFails, TableAppendFails, Opened, DBInv, EntriesStay
  <2> QED BY <2>1, EnterKeeps
<1>6. ASSUME NEW name \in Name, InsertLooksUp(name) PROVE EntriesStay'
  <2>1. /\ found = {} /\ pc' = "undefined" /\ UNCHANGED <<dir, entered, max_depth, disk>>
        /\ found' = found \cup {[name |-> name, hit |-> LookupKey(name) \in dir]}
    BY <1>6 DEF InsertLooksUp, Opened, DBInv, EntriesStay
  <2>2. ASSUME NEW f \in found' PROVE f.hit <=> LookupKey(f.name) \in dir
    <3>1. f = [name |-> name, hit |-> LookupKey(name) \in dir]
      BY <2>1
    <3> QED BY <3>1, Zenon
  <2> QED BY <2>1, <2>2 DEF DBInv, EntriesStay, LookupKey, Reliable
<1>7. CASE UNCHANGED vars
  BY <1>1, <1>7 DEF vars
<1> QED BY <1>2, <1>3, <1>4, <1>5, <1>6, <1>7 DEF Next

LEMMA TypeNext == ASSUME DBInv, [Next]_vars PROVE TypeOK'
<1> USE DEF DBInv, TypeOK
<1>1. CASE CreateExists \/ CreateOpenFails \/ CreateFieldWritten \/ CreateFillFails
           \/ CreateTreeFails \/ CreateClosesTwice
  BY <1>1 DEF CreateExists, CreateOpenFails, CreateFieldWritten, CreateFillFails,
              CreateTreeFails, CreateClosesTwice, Create
<1>2. CASE Open \/ OpenFails \/ Close \/ UseUnsound
  BY <1>2 DEF Open, OpenFails, Close, UseUnsound
<1>3. CASE TableRejected \/ DirectoryUndefined
  BY <1>3 DEF TableRejected, DirectoryUndefined
<1>4. ASSUME NEW name \in Name, TableSchemaFails(name) \/ TableAppendFails(name)
      PROVE  TypeOK'
  <2>1. found = {} /\ EnterOrRefuse(name) /\ UNCHANGED <<found, file, max_depth, disk>>
    BY <1>4 DEF TableSchemaFails, TableAppendFails, Opened, EntriesStay
  <2>2. dir' \subseteq Key /\ entered' \subseteq Name
    BY <2>1, EnterKeeps
  <2> QED BY <1>4, <2>1, <2>2 DEF TableSchemaFails, TableAppendFails
<1>5. ASSUME NEW name \in Name, InsertLooksUp(name) PROVE TypeOK'
  <2>1. [name |-> name, hit |-> LookupKey(name) \in dir] \in [name : Name, hit : BOOLEAN]
    OBVIOUS
  <2> QED BY <1>5, <2>1 DEF InsertLooksUp
<1>6. CASE UNCHANGED vars
  BY <1>6 DEF vars
<1> QED BY <1>1, <1>2, <1>3, <1>4, <1>5, <1>6 DEF Next

LEMMA DBInvariance == Spec => []DBInv
<1>1. DBInv /\ [Next]_vars => DBInv'
  BY HeadersNext, EntriesNext, TypeNext DEF DBInv
<1> QED BY <1>1, DBInit, PTL DEF Spec

(* Whatever the tables are called, and however db_create failed before,    *)
(* db_open opens no file without both header fields, and on a good disk    *)
(* none whose header was not written.                                      *)
THEOREM OpensWhole == Spec => []OpenedIsWhole
<1>1. DBInv => OpenedIsWhole
  BY DEF DBInv, TypeOK, HeadersWritten, OpenedIsWhole
<1> QED BY <1>1, DBInvariance, PTL

(* However many tables share a prefix, db_insert finds a table whose name  *)
(* has seven characters if db_create_table entered it, in a database of    *)
(* max_depth 0 or 1 all of whose writes succeed.  Its directory is then    *)
(* the map ShallowImplementsMap of module BTreeMapProofs says; a deeper    *)
(* one loses entries.                                                      *)
THEOREM FindsSevenCharacters == Spec => []SevenCharactersFound
<1>1. DBInv => SevenCharactersFound
  BY DEF DBInv, EntriesStay, SevenCharactersFound
<1> QED BY <1>1, DBInvariance, PTL

(* Every variable of the database stays of its type.                       *)
THEOREM DBTypeCorrect == Spec => []TypeOK
<1>1. DBInv => TypeOK
  BY DEF DBInv
<1> QED BY <1>1, DBInvariance, PTL
=============================================================================
