------------------------------- MODULE BTree -------------------------------
(***************************************************************************)
(* The B-tree of btree.c in one file, used through one Btree handle.       *)
(*                                                                         *)
(* The file is the header block followed by NumNodes node blocks.  An      *)
(* insertion or a search is a descent: one action reads the root, each     *)
(* further action is one call of the recursive clrs_insert_non_full or     *)
(* clrs_btree_search and works on cur, the call's in-memory copy of a      *)
(* node.  A child offset of -1 makes read_node read the header block as a  *)
(* node, and a record stored in a full node lies past the end of the       *)
(* malloc'd array: what the program does after either is not defined by    *)
(* the code, and pc stays "undefined".                                     *)
(***************************************************************************)
EXTENDS BTreeNode

VARIABLES
  nodes,   \* nodes[p]: the node block at position p, as the FILE* reads it
  hdr,     \* the header block: root_offset and pos_last_node
  h,       \* the same fields of the in-memory Btree
  pc,      \* what the program is doing
  cur,     \* the node copy (node, x) the current call works on
  arg,     \* the key and value of the call in progress, NoRecord if none
  ret      \* how the last call of btree_insert or btree_search ended

vars == <<nodes, hdr, h, pc, cur, arg, ret>>

Header == [root : Positions, last : Positions]

(* Outcomes.  btree_insert returns -1 for "full" (no node block left) and  *)
(* for "dup"; "done" is the path that flows off its end.  btree_search     *)
(* returns -1 for "notfound", and otherwise 0 with the value.              *)
Outcomes == {"none", "done", "dup", "full", "notfound"}

TypeOK ==
  /\ nodes \in [Positions -> Node]
  /\ hdr \in Header
  /\ h \in Header
  /\ pc \in {"absent", "closed", "idle", "insert", "search", "undefined"}
  /\ cur \in Node
  /\ arg \in [key : Keys, value_offset : Values \cup {NoRecord}] \cup {NoRecord}
  /\ ret \in Outcomes \cup Values

Init ==
  /\ nodes = [p \in Positions |-> ZeroNode]
  /\ hdr = [root |-> 0, last |-> 0]
  /\ h = [root |-> 0, last |-> 0]
  /\ pc = "absent"
  /\ cur = InitNode
  /\ arg = NoRecord
  /\ ret = "none"

(* Mutant: the comparison with get_num_nodes(s) forgets that positions     *)
(* start at 0.                                                             *)
NoBlockLeftLate(s) == s.last = NumNodes

NoBlockLeft(s) == s.last = NumNodes - 1

(* The end of a call: the arguments are gone, the outcome stays.           *)
Return(outcome) ==
  /\ pc' = "idle"
  /\ arg' = NoRecord
  /\ cur' = InitNode
  /\ ret' = outcome

GoesUndefined ==
  /\ pc' = "undefined"
  /\ UNCHANGED <<nodes, hdr, h, cur, arg, ret>>

-----------------------------------------------------------------------------
(* Opening and closing. *)

(* btree_open with do_create: the header, the reservation of all node      *)
(* blocks and the empty root at position 0 are written.  (If the seek to   *)
(* the end of the file fails it returns 3, having written nothing: a       *)
(* stuttering step.)                                                       *)
OpenCreate ==
  /\ pc = "absent"
  /\ h' = [root |-> 0, last |-> 0]
  /\ hdr' = h'
  /\ nodes' = [nodes EXCEPT ![0] = InitNode]
  /\ pc' = "idle"
  /\ UNCHANGED <<cur, arg, ret>>

(* btree_open of an existing tree: the handle is read from the header.     *)
OpenExisting ==
  /\ pc = "closed"
  /\ h' = hdr
  /\ pc' = "idle"
  /\ UNCHANGED <<nodes, hdr, cur, arg, ret>>

(* btree_close.  fclose closes the FILE even where it fails and            *)
(* btree_close returns 1; what the file then lacks is what module          *)
(* BTreeCrash lets a kill take, the write that was still buffered.         *)
Close ==
  /\ pc = "idle"
  /\ pc' = "closed"
  /\ UNCHANGED <<nodes, hdr, h, cur, arg, ret>>

-----------------------------------------------------------------------------
(* btree_insert: the root. *)

Argument(k, v) == [key |-> k, value_offset |-> v]

(* Mutants: the split leaves the header to its caller; the split does not  *)
(* count the block it takes.                                               *)
SplitChildNoHeader(s, x, i, y) ==
  LET z == UpperHalf(y, i, s.last + 1)
  IN  /\ nodes' = [nodes EXCEPT ![x.pos] = WithChildAfter(x, i, y.records[T - 1], z.pos),
                                ![y.pos] = LowerHalf(y),
                                ![z.pos] = z]
      /\ h' = [s EXCEPT !.last = z.pos]
      /\ UNCHANGED hdr

SplitChildUncounted(s, x, i, y) ==
  LET z == UpperHalf(y, i, s.last + 1)
  IN  /\ nodes' = [nodes EXCEPT ![x.pos] = WithChildAfter(x, i, y.records[T - 1], z.pos),
                                ![y.pos] = LowerHalf(y),
                                ![z.pos] = z]
      /\ h' = s
      /\ hdr' = h'

(* btree_split_child(s, x, i, y) with a block left, s the handle it is     *)
(* called with: x, y and the new node z are written at their own           *)
(* positions, then the header.                                             *)
SplitChild(s, x, i, y) ==
  LET z == UpperHalf(y, i, s.last + 1)
  IN  /\ nodes' = [nodes EXCEPT ![x.pos] = WithChildAfter(x, i, y.records[T - 1], z.pos),
                                ![y.pos] = LowerHalf(y),
                                ![z.pos] = z]
      /\ h' = [s EXCEPT !.last = z.pos]
      /\ hdr' = h'

(* The root has room: the descent starts there.                            *)
InsertBegin(k, v) ==
  /\ pc = "idle"
  /\ ~IsFull(nodes[h.root])
  /\ pc' = "insert"
  /\ cur' = nodes[h.root]
  /\ arg' = Argument(k, v)
  /\ UNCHANGED <<nodes, hdr, h, ret>>

(* The root is full and every block is in use: -1.                         *)
InsertRefused ==
  /\ pc = "idle"
  /\ IsFull(nodes[h.root])
  /\ NoBlockLeft(h)
  /\ Return("full")
  /\ UNCHANGED <<nodes, hdr, h>>

(* The root is full: a new root takes the next block and the old root is   *)
(* split below it.                                                         *)
InsertGrow(k, v) ==
  /\ pc = "idle"
  /\ IsFull(nodes[h.root])
  /\ LET old == nodes[h.root]
         new == NewRoot(old.pos, h.last + 1)
         up  == [root |-> new.pos, last |-> new.pos]
     IN  /\ ~NoBlockLeft(h) /\ ~NoBlockLeft(up)
         /\ SplitChild(up, new, 0, old)
         /\ cur' = WithChildAfter(new, 0, old.records[T - 1], up.last + 1)
  /\ pc' = "insert"
  /\ arg' = Argument(k, v)
  /\ UNCHANGED ret

(* Mutant: update_btree_header is left to btree_split_child, which calls   *)
(* it as well, except here.                                                *)
InsertGrowLastNoHeader(k, v) ==
  /\ pc = "idle"
  /\ IsFull(nodes[h.root])
  /\ LET new == NewRoot(nodes[h.root].pos, h.last + 1)
         up  == [root |-> new.pos, last |-> new.pos]
     IN  /\ ~NoBlockLeft(h) /\ NoBlockLeft(up)
         /\ h' = up
         /\ cur' = new
  /\ pc' = "insert"
  /\ arg' = Argument(k, v)
  /\ UNCHANGED <<nodes, hdr, ret>>

(* The same when the new root takes the last block: the header names it,   *)
(* btree_split_child returns at once, and the new root is never written.   *)
InsertGrowLast(k, v) ==
  /\ pc = "idle"
  /\ IsFull(nodes[h.root])
  /\ LET new == NewRoot(nodes[h.root].pos, h.last + 1)
         up  == [root |-> new.pos, last |-> new.pos]
     IN  /\ ~NoBlockLeft(h) /\ NoBlockLeft(up)
         /\ h' = up
         /\ hdr' = up
         /\ cur' = new
  /\ pc' = "insert"
  /\ arg' = Argument(k, v)
  /\ UNCHANGED <<nodes, ret>>

-----------------------------------------------------------------------------
(* clrs_insert_non_full on an inner node cur; child i is the one to the    *)
(* right of the record the scan stopped at.                                *)

InsertsBelow(i) ==
  /\ pc = "insert"
  /\ ~cur.isLeaf
  /\ InsertScanStops(cur, arg.key, i - 1)

Child(i) == nodes[cur.children[i]]

(* Mutant: the test of line 370 is missing, a full child is not split.     *)
InsertDescendFull(i) ==
  /\ InsertsBelow(i)
  /\ cur.children[i] # NoChild
  /\ cur' = Child(i)
  /\ UNCHANGED <<nodes, hdr, h, pc, arg, ret>>

(* A child with room.                                                      *)
InsertDescend(i) ==
  /\ InsertsBelow(i)
  /\ cur.children[i] # NoChild
  /\ ~IsFull(Child(i))
  /\ cur' = Child(i)
  /\ UNCHANGED <<nodes, hdr, h, pc, arg, ret>>

(* Mutants: the descent goes on in the child as it was before the split;   *)
(* in the lower half whatever the key.                                     *)
InsertSplitStale(i) ==
  /\ InsertsBelow(i)
  /\ cur.children[i] # NoChild
  /\ IsFull(Child(i))
  /\ ~NoBlockLeft(h)
  /\ SplitChild(h, cur, i, Child(i))
  /\ cur' = IF arg.key > Child(i).records[T - 1].key
            THEN UpperHalf(Child(i), i, h.last + 1)
            ELSE Child(i)
  /\ UNCHANGED <<pc, arg, ret>>

InsertSplitLower(i) ==
  /\ InsertsBelow(i)
  /\ cur.children[i] # NoChild
  /\ IsFull(Child(i))
  /\ ~NoBlockLeft(h)
  /\ SplitChild(h, cur, i, Child(i))
  /\ cur' = LowerHalf(Child(i))
  /\ UNCHANGED <<pc, arg, ret>>

(* A full child is split first; the descent goes on in the half the key    *)
(* belongs to, the lower one if it equals the median's key.                *)
InsertSplit(i) ==
  /\ InsertsBelow(i)
  /\ cur.children[i] # NoChild
  /\ IsFull(Child(i))
  /\ ~NoBlockLeft(h)
  /\ SplitChild(h, cur, i, Child(i))
  /\ cur' = IF arg.key > Child(i).records[T - 1].key
            THEN UpperHalf(Child(i), i, h.last + 1)
            ELSE LowerHalf(Child(i))
  /\ UNCHANGED <<pc, arg, ret>>

(* A full child and no block left: nothing is split and the descent goes   *)
(* on in the full child.  The comparison after btree_split_child reads     *)
(* record i of the unchanged parent: for i < n that key is greater.  For   *)
(* i = n it is a stale slot; where child i+1 is a stale slot as well, both *)
(* come from before a split of the parent, and that key is greater too.    *)
InsertNoSplit(i) ==
  /\ InsertsBelow(i)
  /\ cur.children[i] # NoChild
  /\ IsFull(Child(i))
  /\ NoBlockLeft(h)
  /\ cur' = Child(i)
  /\ UNCHANGED <<nodes, hdr, h, pc, arg, ret>>

(* Elsewhere slot n of the parent was never written.  If the word in it is *)
(* less than the key, the descent moves to child n+1, which is -1, or past *)
(* the end of both arrays.                                                 *)
InsertStrays(i) ==
  /\ InsertsBelow(i)
  /\ cur.children[i] # NoChild
  /\ IsFull(Child(i))
  /\ NoBlockLeft(h)
  /\ i = cur.n
  /\ i + 1 \in ChildSlots => cur.children[i + 1] = NoChild
  /\ GoesUndefined

(* The child offset is -1: the header block is read as a node.             *)
InsertReadsHeader(i) ==
  /\ InsertsBelow(i)
  /\ cur.children[i] = NoChild
  /\ GoesUndefined

-----------------------------------------------------------------------------
(* clrs_insert_non_full on a leaf cur. *)

InsertsAfter(i) ==
  /\ pc = "insert"
  /\ cur.isLeaf
  /\ InsertScanStops(cur, arg.key, i)

(* The record the scan stopped at has the key: -1.  For i = -1 the word    *)
(* compared is the one before the array, which may hold any value.         *)
InsertDuplicate(i) ==
  /\ InsertsAfter(i)
  /\ i >= 0 => cur.records[i].key = arg.key
  /\ IsFull(cur) => i = cur.n - 1
  /\ Return("dup")
  /\ UNCHANGED <<nodes, hdr, h>>

(* The leaf is written back with the record.                               *)
InsertStore(i) ==
  /\ InsertsAfter(i)
  /\ i >= 0 => cur.records[i].key # arg.key
  /\ ~IsFull(cur)
  /\ nodes' = [nodes EXCEPT ![cur.pos] = WithRecordAfter(cur, i, arg)]
  /\ Return("done")
  /\ UNCHANGED <<hdr, h>>

(* A full leaf, reached when no block was left for its split: the record   *)
(* shifted or stored goes past the end of records[].                       *)
InsertOverflows(i) ==
  /\ InsertsAfter(i)
  /\ IsFull(cur)
  /\ i = cur.n - 1 => cur.records[i].key # arg.key
  /\ GoesUndefined

-----------------------------------------------------------------------------
(* btree_search and clrs_btree_search. *)

SearchBegin(k) ==
  /\ pc = "idle"
  /\ pc' = "search"
  /\ cur' = nodes[h.root]
  /\ arg' = Argument(k, NoRecord)
  /\ UNCHANGED <<nodes, hdr, h, ret>>

SearchesAt(i) ==
  /\ pc = "search"
  /\ SearchScanStops(cur, arg.key, i)

HasKeyAt(i) == i < cur.n /\ cur.records[i].key = arg.key

SearchFound(i) ==
  /\ SearchesAt(i)
  /\ HasKeyAt(i)
  /\ Return(cur.records[i].value_offset)
  /\ UNCHANGED <<nodes, hdr, h>>

SearchMissing(i) ==
  /\ SearchesAt(i)
  /\ ~HasKeyAt(i)
  /\ cur.isLeaf
  /\ Return("notfound")
  /\ UNCHANGED <<nodes, hdr, h>>

SearchDescend(i) ==
  /\ SearchesAt(i)
  /\ ~HasKeyAt(i)
  /\ ~cur.isLeaf
  /\ cur.children[i] # NoChild
  /\ cur' = Child(i)
  /\ UNCHANGED <<nodes, hdr, h, pc, arg, ret>>

SearchReadsHeader(i) ==
  /\ SearchesAt(i)
  /\ ~HasKeyAt(i)
  /\ ~cur.isLeaf
  /\ cur.children[i] = NoChild
  /\ GoesUndefined

-----------------------------------------------------------------------------
(* The calls a user of the handle makes, and the steps of a call.          *)

Call == \/ OpenCreate
        \/ OpenExisting
        \/ Close
        \/ InsertRefused
        \/ \E k \in Keys : SearchBegin(k)
        \/ \E k \in Keys, v \in Values :
             InsertBegin(k, v) \/ InsertGrow(k, v) \/ InsertGrowLast(k, v)

InsertStep == \/ \E i \in ChildSlots :
                   \/ InsertDescend(i) \/ InsertSplit(i) \/ InsertNoSplit(i)
                   \/ InsertStrays(i) \/ InsertReadsHeader(i)
              \/ \E i \in -1 .. MaxRecords - 1 :
                   InsertDuplicate(i) \/ InsertStore(i) \/ InsertOverflows(i)

SearchStep == \E i \in ChildSlots :
                \/ SearchFound(i) \/ SearchMissing(i)
                \/ SearchDescend(i) \/ SearchReadsHeader(i)

Next == Call \/ InsertStep \/ SearchStep

(* A call runs to its end by itself; no call need ever be made.            *)
Spec     == Init /\ [][Next]_vars
FairSpec == Spec /\ WF_vars(InsertStep \/ SearchStep)
=============================================================================
