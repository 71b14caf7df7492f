# TLA+ models of Toy-DB

Toy-DB is a small database in C: tables in one block-structured file, found
through B-trees kept in the same file. This directory holds TLA+ models of it,
the TLC runs that check them on small instances, and theorems that TLAPS checks
for every value of the constants.

    tlc -workers 2 -config <run>.cfg <module>     a run (PROJECT.json lists module and cfg)
    tlapm <module>Proofs.tla                      the proofs

## The system

The code proper is `src/src/`. `src/random/btree.c` is a copy of
`src/src/btree.c`; `src/random/inter_tests/` holds four programs that create,
fill, search and print one tree by hand; `src/random/btree2.c` is a program of
its own, a B-tree in memory with deletion, kept beside the other as a pattern.
`src/notes.txt` is the design.

| Component | State it keeps | Operations | Correct if |
|---|---|---|---|
| Node algorithms (`btree.c`) | a `Node` in memory: isLeaf, pos, n, records, children | the scans of insert and search, the shift in a leaf, `btree_split_child` | no record or subtree is lost or doubled, keys stay in order |
| B-tree handle (`btree.c`) | `Btree` in memory (root_offset, pos_last_node) and its copy in the tree's header block; the node blocks on file | `btree_open` (create, existing), `btree_close`, `btree_insert`, `btree_search` | it is a map; header and handle agree; blocks are handed out once; calls end; the depth is bounded |
| File layout (`btree.c`, `block.c`) | the length of the file and where each tree and block of data begins | place and reserve a tree, address a node, `block_append` | nothing overlaps, all is block aligned, a node reads back as written |
| Block I/O (`block.c`) | none | `block_read`, `block_write` (used by nobody), `block_append` | appends to any file |
| Database (`toydb.c`) | `Database`: the `FILE`, block size, max depth; the directory, a B-tree at block 1 from names to trees | `db_create`, `db_open`, `db_create_table`, `db_insert`, `db_select` (empty), `db_close` | errors are reported as documented, a table that was entered can be found, a failed call leaves nothing behind |
| In-memory B-tree (`btree2.c`) | nodes linked by pointers, with key arrays whose tails keep old keys; a lock | `insert`, `delete`, `search`, `tree_lock`, `tree_unlock`, `main` and its console | it is an ordered list of keys, balanced and half full |
| Parser (`parser.h`) | | a declaration without a body | |

**How they interact.** The database calls the B-tree for the directory and for
each table's index, all on one shared `FILE`, and appends schema blocks between
the trees with `block_append`. A tree is identified by the byte its header
begins at. The B-tree reserves all of its blocks when it is created (their
number follows from max_depth), so that later trees go behind it. Calls are
synchronous function calls; there are no threads, callbacks or messages.

**What is hard.** Not concurrency, but: long sequences of legal insertions that
reach inner splits and the last block; copies of nodes in memory beside the
blocks on file; in-place shifts with different bounds; ownership of one `FILE`
by three handles; error paths that free or close what was never set up;
products and positions kept in an `int`; a program that dies between two writes
of a split. `hazards` in PROJECT.json lists each at its line.

## Modules

| Module | Models | State and actions |
|---|---|---|
| `BTreeNode` | nodes as values, and what a split, a shift and a scan compute | operators only |
| `BTree` | `btree_open`, `_close`, `_insert`, `_search` on one tree | `nodes`, `hdr`: blocks and header on file; `h`: the handle; `cur`, `arg`: node copy and arguments of the call in progress; `pc`, `ret`. An action is one call of the recursion: it begins with a node in `cur` and ends with the next one read, or with the call's return |
| `BTreeSafety` | the properties of `BTree` | |
| `KVMap` | abstract: a map in which the first value stored under a key stays | `map`, `call`, `ret` |
| `BTreeMap` | the refinement mapping from `BTree` to `KVMap` | `Map`: what a search would return now |
| `BTreeCrash` | `BTreeMap` in a program that may be killed between two writes | `images`: the files a kill may leave; `crashes`, `asked`. Each action of `BTree` with the writes it makes, in the code's order, and `Crash` |
| `BTreeCrashSafety` | its properties | |
| `MCBTree`, `MCDeep`, `MCCrash` | definitions for TLC; `MCDeep` and `MCCrash` insert along workloads | |
| `MemTree` | `btree2.c`: nodes at addresses, linked by them, with the arrays kept whole; what insert, split, delete, borrow and merge make of them | `heap`, `used`: nodes, and which are allocated; `root`, `lock`; `todo`, `typed`: the calls of `main` and of the user; `call`, `pc`, `cur`, `key`, `walk`: the call in progress, the function that is running and its arguments; `found`. An action is one call of a recursive function |
| `SortedKeys` | abstract: a sorted list of keys with a lock. `Exact` is what `btree2.c` says: the deletion of an absent key changes nothing, a search for one fails. `Spec` adds the two ways in which the code departs from it: such a deletion may take away the key just before (`DelBefore`), such a search may succeed (`FindAbsent`) | `sorted`, `lock`, `call`, `found` |
| `MemTreeSafety` | the properties of `MemTree` | |
| `MemTreeList` | the refinement mapping from `MemTree` to `SortedKeys` | `List`: a walk through the tree; `ImplementsKeyList` (`Spec`) and `IsKeyList` (`Exact`) |
| `MCMemTree` | the arrays of `main`, and other scripts | |
| `BlockFile` | where trees, nodes and blocks of data are in the file, in the widths of the code's integers | `length`, `parts`, `file`; `CreateTree`, `WriteCell`, `WriteAstray`, `AppendBlock`, `AppendWriteFails`, `AppendFails` |
| `CellArrays` | abstract: each tree has its own array of cells, until the file is given up (`GiveUp`) because an `int` cannot count its bytes | `arrays` |
| `MCBlockFile` | definitions for TLC | |
| `ToyDB` | `toydb.c` as calls one after the other on one `Database` | `file`, `max_depth`, `disk`, `fp`, `dir`, `entered`, `found`, `ret`; one action per call and outcome |
| `BTreeProofs`, `BTreeShallowProofs`, `BTreeOrderProofs`, `BTreeMapProofs`, `BTreeCrashProofs`, `BlockFileProofs`, `ToyDBProofs`, `MemTreeProofs` | theorems | |

**Composition.** `BlockFile` refines `CellArrays`, which is what `BTree` takes
the file to be (`nodes[p]` is cell p and `hdr` is cell -1 of its tree). `BTree`
of max_depth 0 or 1 refines `KVMap`, which is what `ToyDB` takes such a
directory to be, as long as no write fails (an insertion may be refused, the
first entry under a key stays: `Reliable`). A deeper one drops subtrees
(`inner_split`), and a failing write goes unnoticed: in `ToyDB` the directory is
then left with any of the entries ever made (`Kept`), and a call may read what is
no node (`DirectoryUndefined`).

`BTreeCrash` conjoins every action of `BTree` with what it writes, so that
without kills it is `BTree`. `MemTree` refines `SortedKeys`, through
`MemTreeList`; it shares no code with the rest. A deletion that has put another
key in the place of the one to delete goes on to delete that other key below;
until it returns, `List` is the list without the second copy and with the first
key, so that the whole deletion is one step of the list.

**Kills.** What is modelled is the death of the process (a signal, an
abort), not of the machine. Every `write_node`, `read_node` and
`update_btree_header` begins with `fseek`, which hands what the `FILE` has
buffered to the system; so the writes of a call reach the file in the order the
code makes them, and the last one stays in the buffer until the next `fseek` or
`fclose`: the header a split writes, unless the key belongs to the upper half,
which is read back at once (`MakesAndSeeks`). One node or header is taken to be written as a whole. Memory is lost,
the file stays as it is, and the next step is a reopen (or, before the header is
on file, another creation).

**Undefined behaviour.** Where the code reads the header block as a node,
stores past the end of an array, closes a `FILE` twice or uses a closed one, the
code does not say what comes next: `pc` becomes "undefined" and the behaviour
ends, which is why some runs do not check for deadlock. Where it only reads a
word that was never written (slot -1 of a records array, a stale slot), the
outcome is a choice.

A definition preceded by a comment that begins with "Mutant" is a plausible
slip in the definition after it; PROJECT.json says which property finds it.

## Runs

Passing:

| Run | Instance | Shows |
|---|---|---|
| `btree_shallow` | T = 2, 5 blocks (max_depth 1, as in the test programs), 5 keys, 2 values | all properties of the tree, and that it is the map, through every order of insertions, searches, closes and reopens |
| `btree_wide` | T = 3, 7 blocks (max_depth 1), 8 keys, fairness | the same where a split moves two records and several children; every call ends |
| `btree_deep` | T = 2, 85 blocks, three workloads of up to 125 keys | what survives inner splits, exhaustion below the root, and a root that takes the last block |
| `btree_crash` | T = 2, 21 blocks, 12 keys in six orders, up to two kills | what a kill takes and what it cannot take, and how the tree goes on |
| `mem_tree` | order 3 as in the code; the script of `main`, the empty one, and 27 others of up to 56 calls; three commands of a user | no node is leaked, lost or linked twice, the tree is balanced and half full, each call gets a node that can take what it does, and the tree is the list (`SortedKeys!Spec`), until NULL is dereferenced |
| `file` | block size 128, an `int` that ends at 1791, trees of 1, 5 and 21 nodes, up to 3 parts, first lengths 0, 4 and 128; a failed `block_append` ends at byte 60, 128 or 200; at most two cells written | as long as an `int` can count the file's bytes, parts are disjoint and each node reads back as written; types and alignment also beyond |
| `toydb` | two seven-byte heads, six names; max_depth 1 and 2 | what holds of the database layer, with a good and with a failing disk |

The other runs each check one statement of the repository's comments or notes
that the code does not keep (see Findings).

**Why the bounds are enough.** *T*: 2 is the smallest, and the test programs'
own; with it a half is one record, so that an off-by-one in what is copied
where may go unseen, hence T = 3 in `btree_wide`. *Keys*: five fill four leaves
after three splits for T = 2, in every order, with room for duplicates of keys
in the root and in leaves; the run reaches the refusal when a fifth block is
wanted. For T = 3 the leaves split twice with 8 keys, and children are shifted
when the split child is not the last. *Blocks*: 5 = 1 + 4 is max_depth 1 for
T = 2; 7 is max_depth 1 for T = 3; 85 is max_depth 3 for T = 2. *Workloads*: all
orders of 125 keys cannot be enumerated; ascending and descending keys split
always the last or the first child; the third order was found by random search
among orders that leave exactly one block when the root is full. *IntMax*: the
code's 2^31 - 1 scaled down to 14 blocks, which two trees of 5 nodes behind a header
block, or three smaller parts, fit in; a tree of 21 nodes does not, so that offsets in it wrap
and the next trees are placed at a position that is negative or inside another.
A file that ends inside the last block an `int` can count is
left out: there rounding up wraps, the seek fails and the tree begins where the
file ends, in mid-block; the first lengths stay clear of it. *Cells written*:
two, since a write is compared with all other cells, whatever they hold. *Failed
appends*: inside the first block, at its end, and inside the second. *Parts*: an overlap needs two parts, and a third to be made
behind both. *Names*: two heads, to tell a wrong entry from the right one; the
eighth byte is the terminator, a character, or whatever follows a shorter name.
*max_depth*: 1 is the last for which the directory is a map, 2 the first for
which it is not; nothing else in the layer depends on it.

*Kills*: the first may come at any point of any of
the six workloads; the second only among the first six insertions, because what
it adds, a block that is astray already, is there after the first split. The
refusal of a key for the word before the array is allowed in two of the
insertions, the growth of the root and the split of a leaf; in every insertion
it doubles the states each time. *Scripts*: 28 keys make three levels at
order 3; ascending, descending and mixed deletions reach borrowing from both
sides, merging with both, replacement by both neighbours, and both undefined
states. The keys of `main` hold two pairs of equals. *Addresses*: 34 nodes are
room for the 63 keys of `main` at two to a node, so that no script runs out of
memory. The script of `absent_key` ends with a second deletion of the key 2.
`malloc` failing (`OutOfMemory`) ends the program and is possible at every call
that allocates, whatever is free.

**Fairness.** `btree_wide` assumes weak fairness of the steps inside an
insertion or search: they are ordinary function calls of one thread, which go on
by themselves. Nothing is assumed about the program making calls.

## Theorems

TLAPS checks them for every value of the constants, under the assumptions the
modules name (T at least 2; an `int` that can hold the block size; at least one block; integer keys; a mark of "no
record" that is neither a value nor a record; a block size of at least 96; trees
of at least one node; NODE_ORDER at least 2; addresses and the keys given to
`btree2.c` other than 0).

*`BTreeProofs`*: for trees of any depth and node size, `TypeCorrect`,
`HeaderStaysCurrent`, `PointersStayInUse`, `SplitBeforeDescent` and
`BlocksInOrder`. Types alone are not inductive: that a split leaves records in
every live slot needs the child to be full, that the parent's counter stays in
range needs it not to be full when a block is left, and that a child's slot may
be followed needs the offsets to name blocks handed out. `IndInv` is the
conjunction of these: the type invariant, every live slot holds a record, a
full node in `cur` only when no block is left, pointers within
`pos_last_node`, header equal to handle.

*`BTreeShallowProofs`*: with max_depth 0 or 1 (`Shallow`) and any node size,
`ShallowIsDefined`, `ShallowTree` and `ShallowCopies`. The argument is that the
tree has exactly as many blocks as a full root can name: the root is a leaf and
the only block, or it is inner, its n + 1 children are leaves and are all other
blocks in use (`ShallowInv`). So when a leaf is full and the root is not, a
block is left and the split takes place; and when the root is full, no block is.
This is what fails for deeper trees, where blocks run out below a root with
room.

*`BTreeOrderProofs`*: for the same trees, `ShallowOrder`. That nodes stay sorted,
with each child's keys between the records beside it, is not inductive alone: a
record stored in a leaf must fit between the separators above, which the
parent's scan saw and the leaf's does not. `OrderInv` adds that while an
insertion is in a leaf, its key fits the slot the leaf hangs in. A split is
taken through `SplitOf`, which says of parent and halves what they are after it,
slot by slot, so that order, size and the records kept are proved from the same
facts for the growth of the root and for the split of a child.

For trees of any depth, `StaysHalfFull` and `RecordsStay`. The tree may fall
apart there, so that nothing can be said of how nodes hang together; the
argument is about blocks instead. A step writes each node to the block the node
says it is in, so a record is lost only if a node is written over another. That
the node in `cur` still has the records of its block is not enough, for a
new root is worked on before it is written, and the last block may be the root's
without ever being written. `PlaceInv` names these exceptions: every block in
use holds a node that says so, or is unwritten, and an insertion works on a node
whose block has no records that the node lacks (`WritesBack`).

*`BTreeMapProofs`*: for trees of max_depth 0 or 1, `ShallowImplementsMap`: what
`Map` says a search would return changes only when an insertion stores a key
for the first time, and then to the stored value. `Map` is a recursive function
over the levels left; `Finder` solves it for two levels, the scan's slot being
the least one that fits (`WFMin` of the library gives it). From this and
`OrderInv`, `FoundInv` says which record a search finds in terms of what is
stored: the one in the root if there is one, and otherwise the one in the leaf.
So a split, which moves a record up, changes nothing, and a duplicate of a key of
the root, which is stored in a leaf, is never found. `CallInv` and `SearchInv`
say of a call in progress that its node is where the key has to be, so that what
it returns is what `Map` says.

*`BTreeCrashProofs`*: for trees of any depth, any node size and any number of
kills, `OneBlockAstray`. `IndInv` does not survive a kill, so the
invariant is about files: `Files` are those a program can be left with, in
which every block holds a well-formed node that names no block further than one
beyond those the header counts; `CrashInv` says that the file and every entry of
`images` are such. `FilesKeep` is the argument for all writing steps at once:
if each write names no block beyond L + 1 and each header written counts L at
least, and either L is what the header counts already or the header is written
first, then every prefix of the writes leaves such a file. The growth of the root
writes the header first and takes two blocks, which is why the order of its
writes matters.

*`BlockFileProofs`*: for every width of an `int`,
`LayoutAligned`, `LayoutDisjoint` and `FileImplementsArrays`, which speak of a
file as long as an `int` can count its bytes (`IntsSuffice`); and
`NodeFitsBlock` for all block sizes. `LayoutInv` adds to the two layout
properties that the bytes behind the end of the file are zeros, without which a
new tree's nodes would not read as zeros, and that parts end within the bound.
A file never becomes shorter (`LengthGrows`), so that one an `int` suffices for
always was one; `FileInv` is `TypeOK` and, in such a file, `LayoutInv`. A cell's
address does not wrap there because its part ends within the file, and rounding
up the end of the file does not because the new tree would make the file too
long (`NextBlockIs`). Address arithmetic is in the
lemmas `AddressIs` and `CellsApart`: two cells with the same address are the
same cell of the same part. `FileTypeCorrect` needs no such condition: where
positions wrap around, trees may lie on top of each other, but they still begin
at a byte of the file.

*`ToyDBProofs`*: for any set of names and of max_depths, `OpensWhole`,
`FindsSevenCharacters` and `DBTypeCorrect`. `FindsSevenCharacters` speaks of
databases of max_depth 0 or 1 all of whose writes succeed, the directories of
which are maps by `ShallowImplementsMap`; of a deeper one it says nothing.
`DBInv` adds that a good disk leaves no header of arbitrary
bytes and that an open database has a file db_create refuses to create again
(`HeadersWritten`), and that in such a database an entry with seven characters stays under
the one key a lookup asks for (`EntriesStay`).

*`MemTreeProofs`*: for every NODE_ORDER, any supply of addresses, any script of
`main` and trees of any depth, `MemTypeCorrect`, `MemOneParent`,
`MemLeavesAtOneLevel`, `MemHalfFull`, `MemCallsPrepared` and
`MemUndefinedAtSmallRootOnly`. They follow from one invariant, `IInv`, and none
of them is inductive without the others: that a borrowed key or a split stays
within the arrays needs `CallsPrepared`, which needs `HalfFull`, which a merge
keeps only because the two children it joins hang in the parent's slots and
nowhere else, and a borrow keeps the leaves level only because its two children
are of one height. `IInv` is `TypeOK`, `CallsPrepared` and `Sound`, which has
three parts:

- `Filled`: every node but the root is half full, a leaf's child slots are all
  NULL, and an empty leaf has never held a key (a key found in it would be
  matched and its counter would go below 0);
- `Linked`: a live slot holds an allocated node; every node but the root is in
  one live slot, the root in none;
- `Levelled`: there is a function from nodes to heights that is 0 at the leaves,
  one more at a parent than at its child, and greatest at the root. That all leaves are at one depth is
  a statement about a recursion over the tree, for which induction is out of
  reach here; a height that every operation can hand on is not. A split gives
  the new node the height of its other half, the growth of the root gives the
  new root one more than the old, a merge and a borrow change no height.

The heap is a parameter of these definitions, so that what an operation makes of
a heap is stated without primes and apart from the call it belongs to. Each
changes the links in one of four ways, and is taken through a definition that
says so: a child divided in two (`IsSplit`), a new root above the old (`IsTop`),
two children joined (`IsMerge`), one key and one child handed to a neighbour
(`Lends`, `Moves`). For each, a lemma says where every child of before is now.
`MemLeavesAtOneLevel` takes one step more: `LevelIs` shows that all of `Level[d]`
are at the root's height less d, by the least d at which it fails.

*Only model-checked*: `ImplementsMap` in deeper trees, where inner splits lose
subtrees and the map with them (the run `inner_split`); what a single kill takes
(`KillBetweenCalls`, `KillInInsertion`, `SoundTreeKeepsRecords`); that the
tree in memory is the list (`ImplementsKeyList`), whose mapping is a recursive
walk; and liveness (`CallsEnd`), which is out of the prover's reach.

## Findings

Each of these is the violated property of a run.

| Run | Property | Where | What |
|---|---|---|---|
| `inner_split` | `EveryBlockHasOneParent` | btree.c:303 | the split of an inner node stores all moved children in one slot: subtrees are lost |
| `key_twice` | `KeysUnique` | btree.c:360 | a key in an inner node is not seen as a duplicate |
| `append_long` | `AppendReturns` | block.c:104 | the fill of a file longer than a block has a negative length |
| `entry_without_table` | `EntriesHaveTables` | toydb.c:187 | the entry is made before the table |
| `absent_key` | `IsKeyList` | btree2.c:398 | a slot behind a leaf's live keys is compared: deleting 2 twice from 1, 1, 2 takes away a 1, where line 404 would say "Node not found."; a search for a deleted key may succeed (line 192) |

The models contain more deviations, at the actions named; no run is spent on
them:

- `CreateFieldWritten`: `fwrite` returning 1, which is success, is taken for the
  "3: Write error" of toydb.c:32 (toydb.c:66), so that db_create ends with 3
  after its first field on a disk that never fails.
- `InsertDuplicate(-1)`: the duplicate check reads the word before the records
  array (btree.c:348), so that an insertion of an absent key may be refused.
- `InsertNoSplit`: `btree_split_child` returns without a word when no block is
  left (btree.c:277) and its caller goes on, so that a leaf with 2*t-1 records
  is given one more (`InsertOverflows`, reached in `btree_deep`).
- `InsertGrow`: the root grows whenever a block is left (btree.c:408), whatever
  max_depth is.
- `CreateTree`: the end of the file is kept in an `int` (btree.c:74), so that a
  tree may be placed on top of another; the run `file` has such
  states, and `PartsDisjoint` speaks only of files an `int` can count.
- `Address`: the offset of a node is computed in an `int` (btree.c:255).
- `TableSchemaFails`: closing the directory closes the `FILE` of the `Database`
  (toydb.c:245), and the next call uses it (`UseUnsound`).
- `Create` of `BTreeCrash`: a program killed before the root is written leaves
  a root of zeros, an inner node that names itself in every child slot; searches
  and insertions in the reopened tree never end (btree.c:83-101).
- `Grows`: the header names the new root before it is written (btree.c:423);
  after a kill in between the tree reads as empty, and what is inserted goes to
  block 0, over the old root.
- `Splits`: killed before the header counts the new block (btree.c:331), the
  tree is whole but the next split hands the block out again, over its records.
  The same comes of a refused duplicate right behind a split, whose header write
  is still buffered when the call returns. A tree that a kill has left sound loses nothing so
  (`SoundTreeKeepsRecords`).
- `DeleteUndefined`: `!child1 && !child2` stands where both should exist (btree2.c:499):
  deleting from a root leaf with one key dereferences NULL, and an inner root
  with one key is emptied but never replaced by its only child (`MergeNull` then
  dereferences NULL; that nothing else does is `MemUndefinedAtSmallRootOnly`).
- `EntryKeys` and `LookupKey`: db_create_table enters eight bytes of a name,
  db_insert looks up seven (toydb.c:177, 286). `SevenCharactersFound` says of
  which names the lookup can be relied on.

## What is not modelled

- Wording of output, `printf`, `malloc` failing in the B-tree (unchecked by the
  code; the next access would end the program), and freeing of its nodes.
- In the B-tree, a failing `fread` or `fwrite`, or an `fseek` that fails
  unnoticed. The code looks at two calls only. If the seek to the end of the file
  fails, `btree_open` returns 3 with nothing written (btree.c:69): a stuttering step
  of `BTree`. If `fclose` fails, `btree_close` returns 1 (btree.c:219) and the `FILE`
  is closed all the same: `Close`, and what the file then lacks is the write that
  was buffered, which in `BTreeCrash` a kill before `Close` takes. In `ToyDB`
  writes may fail, with what the layer returns for it.
- Which of its bytes a failing `block_append` has written, but for where the file
  then ends; its return of 2, when the seek fails, leaves all as it was.
- A power failure, which may lose writes the system already has, in any order;
  a write of one node cut in two.
- In `btree2.c`: printing, what a search's result points to, and which address
  `malloc` picks (it is the first free one). The slot 6 that search passes over
  (`SearchSlot`) exists only with a NODE_ORDER above 3, for which `MemTree` has it
  but no run shows that the tree is the list.
- `src/random/btree.c` is `src/src/btree.c` with another include, and the
  programs of `inter_tests` create, fill, search and print one tree of block
  size 128 and max_depth 1; `btree_shallow` stands for them.
- `block_read` and `block_write`, which nothing calls; `db_select`, which is
  empty; `db_insert` after line 302, which does not compile; the encoding of a
  schema, which never reaches the file because `block_append` fails first.
- Other programs changing the file, and two handles on one tree at a time: the
  database layer opens and closes the directory within each call.

## Plan

Done, in this order: `BTreeNode`, `BTree` and its properties, the map it
implements, deep trees, the proofs about `BTree`, the file layout with its
refinement and proofs, the database layer, killed programs, the tree in memory,
the proofs about order, about records, about killed programs and about the
database layer, the proof of the map, and the tree in memory node by node, with
its proofs.

Left:

1. `KillBetweenCalls` for shallow trees, from `FoundInv` and `CrashInv`.
2. Failing reads and writes in the B-tree as outcomes of its actions.
3. The schema block of `db_create_table`, as an encoding checked against what
   toydb.h says a schema is.
