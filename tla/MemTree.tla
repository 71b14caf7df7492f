------------------------------- MODULE MemTree -------------------------------
(***************************************************************************)
(* The B-tree in memory of random/btree2.c: search, insert, delete, the    *)
(* lock, and the program that fills a tree and then obeys a console.       *)
(*                                                                         *)
(* Nodes are at addresses and linked by them, with the code's arrays kept  *)
(* whole: slots behind the live ones keep an earlier key or an earlier     *)
(* child.  Search and delete compare key slot n.  In a full node it is     *)
(* past the end of the array: in the structure's padding, which is never   *)
(* written, so that the comparison may come out either way.                *)
(*                                                                         *)
(* An action is one call of a recursive function: it begins with a node    *)
(* in cur and ends with the child the next call is given, or with the      *)
(* return to main.                                                         *)
(***************************************************************************)
EXTENDS Integers, Sequences

CONSTANTS
  Order,      \* NODE_ORDER
  Addresses,  \* where malloc may place a node
  Keys,       \* numbers main and the user give
  Scripts,    \* the calls main makes before the console: one of these
  Numbers,    \* numbers the user types (0, which console ignores, left out)
  MaxCalls    \* bound: commands the user types

ASSUME OrderAssumption     == Order \in Nat /\ Order >= 2
ASSUME AddressesAssumption == Addresses \subseteq Nat \ {0}
ASSUME KeysAssumption      == Keys \subseteq Int \ {0} /\ Numbers \subseteq Keys
ASSUME MaxCallsAssumption  == MaxCalls \in Nat

NULL       == 0
MaxKeys    == 2 * Order - 1
Slots      == 0 .. MaxKeys - 1
ChildSlots == 0 .. MaxKeys

VARIABLES
  heap,    \* the nodes
  used,    \* the addresses that are allocated
  root,    \* b->root
  lock,    \* b->lock
  todo,    \* the calls main has still to make before the console
  typed,   \* commands the user has typed
  call,    \* the call main has made: its name and its number
  pc,      \* the function that is running, "exited" or "undefined"
  cur,     \* the node it is given
  key,     \* the key it is given
  walk,    \* the node BTreeGetLeftMax or BTreeGetRightMin is given
  found    \* what the last search answered

tree  == <<heap, used, root, lock>>
args  == <<cur, key, walk>>
input == <<todo, typed>>
vars  == <<tree, args, input, call, pc, found>>

-----------------------------------------------------------------------------
(* Nodes, and what the functions make of them. *)

(* create_node: an empty leaf, all slots 0. *)
NewNode == [leaf     |-> TRUE,
            n        |-> 0,
            keys     |-> [j \in Slots |-> 0],
            children |-> [j \in ChildSlots |-> NULL]]

(* The scan of search and delete: up from 0 while the key is greater.      *)
ScanUp(x, k) ==
  CHOOSE i \in 0 .. x.n : /\ \A j \in 0 .. i - 1 : x.keys[j] < k
                          /\ i < x.n => k <= x.keys[i]

(* The scan of insert: down from n while the key is less.                  *)
ScanDown(x, k) ==
  CHOOSE i \in 0 .. x.n : /\ \A j \in i .. x.n - 1 : k < x.keys[j]
                          /\ i > 0 => x.keys[i - 1] <= k

(* How key == key_array[i] may come out, for i up to n.                    *)
Matches(x, i, k) == IF i \in Slots THEN {k = x.keys[i]} ELSE BOOLEAN

(* The arrays with one more entry at i, the later ones moved up, and with  *)
(* the entry at i gone, the later ones moved down.                         *)
KeyAdded(x, i, k) ==
  [j \in Slots |-> CASE j = i -> k
                     [] i < j /\ j <= x.n -> x.keys[j - 1]
                     [] OTHER -> x.keys[j]]

ChildAdded(x, i, a) ==
  [j \in ChildSlots |-> CASE j = i -> a
                          [] i < j /\ j <= x.n + 1 -> x.children[j - 1]
                          [] OTHER -> x.children[j]]

KeyRemoved(x, i) ==
  [j \in Slots |-> IF i <= j /\ j < x.n - 1 THEN x.keys[j + 1] ELSE x.keys[j]]

(* Mutant: the last child is not moved.                                    *)
ChildRemovedShort(x, i) ==
  [j \in ChildSlots |-> IF i <= j /\ j < x.n - 1 THEN x.children[j + 1] ELSE x.children[j]]

ChildRemoved(x, i) ==
  [j \in ChildSlots |-> IF i <= j /\ j < x.n THEN x.children[j + 1] ELSE x.children[j]]

(* split_child: the median of y moves up into slot i of the parent x, its  *)
(* upper half to a new node, which becomes child i + 1.                    *)
LowerHalf(y) == [y EXCEPT !.n = Order - 1]

UpperHalf(y) ==
  [leaf     |-> y.leaf,
   n        |-> Order - 1,
   keys     |-> [j \in Slots |-> IF j < Order - 1 THEN y.keys[Order + j] ELSE 0],
   children |-> [j \in ChildSlots |-> IF ~y.leaf /\ j < Order THEN y.children[Order + j]
                                      ELSE NULL]]

WithHalf(x, i, y, new) ==
  [x EXCEPT !.n        = @ + 1,
            !.keys     = KeyAdded(x, i, y.keys[Order - 1]),
            !.children = ChildAdded(x, i + 1, new)]

(* merge_children: l, key i of x and r become l.                           *)
Joined(x, i, l, r) ==
  [l EXCEPT !.n        = MaxKeys,
            !.keys     = [j \in Slots |-> CASE j < Order - 1 -> @[j]
                                            [] j = Order - 1 -> x.keys[i]
                                            [] j > Order - 1 -> r.keys[j - Order]],
            !.children = [j \in ChildSlots |-> IF ~r.leaf /\ j >= Order
                                               THEN r.children[j - Order] ELSE @[j]]]

(* Mutant: the wrong one of the two children leaves the parent.            *)
WithoutKeyAndLeft(x, i) ==
  [x EXCEPT !.n = @ - 1, !.keys = KeyRemoved(x, i), !.children = ChildRemoved(x, i)]

WithoutKey(x, i) ==
  [x EXCEPT !.n = @ - 1, !.keys = KeyRemoved(x, i), !.children = ChildRemoved(x, i + 1)]

(* BTreeBorrowFromLeft: key i of x moves down to the front of its child c, *)
(* the last key of the child l to the left up, its last child across.      *)
GivenFirst(x, i, c, l) ==
  [c EXCEPT !.n        = @ + 1,
            !.keys     = KeyAdded(c, 0, x.keys[i]),
            !.children = IF l.leaf THEN [@ EXCEPT ![0] = l.children[l.n]]
                         ELSE ChildAdded(c, 0, l.children[l.n])]

(* Mutant: the key lent is not given up.                                   *)
WithoutLastKept(l) == l

WithoutLast(l) == [l EXCEPT !.n = @ - 1]

(* BTreeBorrowFromRight: key i of x moves down to the end of its child c,  *)
(* the first key of the child r to the right up, its first child across.   *)
GivenLast(x, i, c, r) ==
  [c EXCEPT !.n        = @ + 1,
            !.keys     = [@ EXCEPT ![c.n] = x.keys[i]],
            !.children = IF r.leaf THEN @ ELSE [@ EXCEPT ![c.n + 1] = r.children[0]]]

WithoutFirst(r) ==
  [r EXCEPT !.n        = @ - 1,
            !.keys     = KeyRemoved(r, 0),
            !.children = IF r.leaf THEN @ ELSE ChildRemoved(r, 0)]

(* Mutants: a full node is taken to have room; a minimal node lends a key; *)
(* a minimal node is entered as it is.                                     *)
IsFullLate(x)      == x.n > MaxKeys
HasSpareMinimal(x) == x.n >= Order - 1
IsMinimalLate(x)   == x.n < Order - 1

IsFull(x)    == x.n = MaxKeys
IsMinimal(x) == x.n = Order - 1
HasSpare(x)  == x.n > Order - 1

-----------------------------------------------------------------------------
(* The program: main makes the calls of its script, then serves a console. *)

NoCall == [name |-> "none", number |-> 0]

(* malloc and free.  A node takes the first address that is free; what was *)
(* in a node that is freed is forgotten.                                   *)
Allocates(a) == a \in Addresses \ used /\ \A b \in Addresses \ used : a <= b
Freed(nodes, a) == [nodes EXCEPT ![a] = NewNode]

Init ==
  /\ root \in Addresses /\ \A b \in Addresses : root <= b
  /\ used = {root}
  /\ heap = [a \in Addresses |-> NewNode]
  /\ lock = FALSE
  /\ todo \in Scripts
  /\ typed = 0
  /\ call = NoCall
  /\ pc = "main"
  /\ cur = NULL /\ key = 0 /\ walk = NULL
  /\ found = FALSE

(* The next call of main's script, or a line the user types.               *)
Scripted(name, k) ==
  /\ todo # <<>>
  /\ Head(todo) = [name |-> name, number |-> k]
  /\ todo' = Tail(todo)
  /\ UNCHANGED typed

Typed(k) ==
  /\ todo = <<>>
  /\ k \in Numbers \cup {0}
  /\ typed < MaxCalls
  /\ typed' = typed + 1
  /\ UNCHANGED todo

Asked(name, k) == pc = "main" /\ (Scripted(name, k) \/ Typed(k))

Starts(name, function, k) ==
  /\ Asked(name, k)
  /\ call' = [name |-> name, number |-> k]
  /\ pc' = function /\ cur' = root /\ key' = k
  /\ UNCHANGED <<tree, walk, found>>

Add(k)  == Starts("add", "insert", k)
Del(k)  == Starts("del", "delete", k)
Find(k) == Starts("search", "search", k)

(* tree_lock refuses a tree that is locked, which leaves it locked.        *)
SetLock(to) ==
  /\ Asked(IF to THEN "lock" ELSE "unlock", 0)
  /\ lock' = to
  /\ UNCHANGED <<heap, used, root, args, call, pc, found>>

Exit ==
  /\ Asked("exit", 0)
  /\ pc' = "exited"
  /\ UNCHANGED <<tree, args, call, found>>

(* The next call of a function, and the return through all of them.        *)
Calls(function, c, k) ==
  /\ pc' = function /\ cur' = c /\ key' = k
  /\ UNCHANGED <<lock, walk, input, call, found>>

Returns ==
  /\ pc' = "main" /\ call' = NoCall
  /\ cur' = NULL /\ key' = 0 /\ walk' = NULL
  /\ UNCHANGED <<lock, input>>

Undefined ==
  /\ pc' = "undefined"
  /\ UNCHANGED <<tree, args, input, call, found>>

(* insert and delete do nothing to a tree that is locked.                  *)
Refused ==
  /\ pc \in {"insert", "delete"} /\ lock
  /\ Returns
  /\ UNCHANGED <<heap, used, root, found>>

-----------------------------------------------------------------------------
(* search, which does not look at the lock. *)

(* The slot it looks at: slot 6 is passed over, which only larger orders   *)
(* than the code's have.                                                   *)
SearchSlot(x, k) == IF ScanUp(x, k) = 6 THEN 5 ELSE ScanUp(x, k)

SearchEnds(hit) ==
  LET x == heap[cur]
  IN  /\ pc = "search"
      /\ hit \in Matches(x, SearchSlot(x, key), key)
      /\ hit \/ x.leaf
      /\ found' = hit
      /\ Returns
      /\ UNCHANGED <<heap, used, root>>

SearchDescend ==
  LET x == heap[cur]
      i == SearchSlot(x, key)
  IN  /\ pc = "search"
      /\ FALSE \in Matches(x, i, key) /\ ~x.leaf
      /\ Calls("search", x.children[i], key)
      /\ UNCHANGED <<heap, used, root>>

-----------------------------------------------------------------------------
(* insert. *)

InsertRoot ==
  /\ pc = "insert" /\ ~lock /\ ~IsFull(heap[root])
  /\ Calls("insert_nonfull", root, key)
  /\ UNCHANGED <<heap, used, root>>

(* A full root is split below a new one. *)
InsertGrow(top, new) ==
  LET y == heap[root]
      x == [NewNode EXCEPT !.leaf = FALSE, !.children[0] = root]
  IN  /\ pc = "insert" /\ ~lock /\ IsFull(y)
      /\ Allocates(top)
      /\ new \in Addresses \ (used \cup {top})
      /\ \A b \in Addresses \ (used \cup {top}) : new <= b
      /\ heap' = [heap EXCEPT ![root] = LowerHalf(y),
                              ![top]  = WithHalf(x, 0, y, new),
                              ![new]  = UpperHalf(y)]
      /\ used' = used \cup {top, new}
      /\ root' = top
      /\ Calls("insert_nonfull", top, key)

InsertLeaf ==
  LET x == heap[cur]
  IN  /\ pc = "insert_nonfull" /\ x.leaf
      /\ heap' = [heap EXCEPT ![cur] = [x EXCEPT !.n    = @ + 1,
                                                 !.keys = KeyAdded(x, ScanDown(x, key), key)]]
      /\ Returns
      /\ UNCHANGED <<used, root, found>>

InsertDescend ==
  LET x == heap[cur]
      c == x.children[ScanDown(x, key)]
  IN  /\ pc = "insert_nonfull" /\ ~x.leaf /\ ~IsFull(heap[c])
      /\ Calls("insert_nonfull", c, key)
      /\ UNCHANGED <<heap, used, root>>

(* A full child is split before the descent, which goes on in the half the *)
(* key belongs to.                                                         *)
InsertSplit(new) ==
  LET x == heap[cur]
      i == ScanDown(x, key)
      c == x.children[i]
      y == heap[c]
      p == WithHalf(x, i, y, new)
  IN  /\ pc = "insert_nonfull" /\ ~x.leaf /\ IsFull(y)
      /\ Allocates(new)
      /\ heap' = [heap EXCEPT ![cur] = p, ![c] = LowerHalf(y), ![new] = UpperHalf(y)]
      /\ used' = used \cup {new}
      /\ Calls("insert_nonfull", p.children[IF key > p.keys[i] THEN i + 1 ELSE i], key)
      /\ UNCHANGED root

(* The program ends when malloc fails: in get_resultset, called by search  *)
(* at every node, or in create_node, before the tree has changed or behind *)
(* the allocation of a new root and b->root = newNode.                     *)
OutOfMemory ==
  /\ \/ pc = "search"
     \/ pc = "insert" /\ ~lock /\ IsFull(heap[root])
     \/ pc = "insert_nonfull" /\ ~heap[cur].leaf
        /\ IsFull(heap[heap[cur].children[ScanDown(heap[cur], key)]])
  /\ pc' = "exited"
  /\ UNCHANGED <<tree, args, input, call, found>>

-----------------------------------------------------------------------------
(* delete. *)

(* At a root with one key the children are looked at if both are NULL: at  *)
(* a leaf NULL is dereferenced, and an inner root is never replaced by its *)
(* merged children.                                                        *)
LooksAtNull(x) == x.n = 1 /\ x.children[0] = NULL /\ x.children[1] = NULL

DeleteRoot ==
  /\ pc = "delete" /\ ~lock /\ ~LooksAtNull(heap[root])
  /\ Calls("BTreeDeleteNoNone", root, key)
  /\ UNCHANGED <<heap, used, root>>

DeleteUndefined ==
  /\ pc = "delete" /\ ~lock /\ LooksAtNull(heap[root])
  /\ Undefined

DeleteLeaf(hit) ==
  LET x == heap[cur]
      i == ScanUp(x, key)
  IN  /\ pc = "BTreeDeleteNoNone" /\ x.leaf
      /\ hit \in Matches(x, i, key)
      /\ heap' = IF hit
                 THEN [heap EXCEPT ![cur] = [x EXCEPT !.n = @ - 1, !.keys = KeyRemoved(x, i)]]
                 ELSE heap
      /\ Returns
      /\ UNCHANGED <<used, root, found>>

(* In an inner node the key is at slot i, or else in the part of child i.  *)
At(i) ==
  /\ pc = "BTreeDeleteNoNone" /\ ~heap[cur].leaf
  /\ i \in ChildSlots /\ i = ScanUp(heap[cur], key)

Here(i)  == At(i) /\ i < heap[cur].n /\ heap[cur].keys[i] = key
Below(i) == At(i) /\ ~(i < heap[cur].n /\ heap[cur].keys[i] = key)

Kid(i) == heap[cur].children[i]

(* The key is replaced by its predecessor or successor if the child that   *)
(* is in has a key to spare, and is merged into the child otherwise.       *)
Seeks(function, c) ==
  /\ pc' = function /\ walk' = c
  /\ UNCHANGED <<tree, cur, key, input, call, found>>

SeekLeftMax(i) ==
  Here(i) /\ HasSpare(heap[Kid(i)]) /\ Seeks("BTreeGetLeftMax", Kid(i))

SeekRightMin(i) ==
  /\ Here(i) /\ ~HasSpare(heap[Kid(i)]) /\ HasSpare(heap[Kid(i + 1)])
  /\ Seeks("BTreeGetRightMin", Kid(i + 1))

LeftMaxDescend ==
  LET w == heap[walk]
  IN  pc = "BTreeGetLeftMax" /\ ~w.leaf /\ Seeks(pc, w.children[w.n])

RightMinDescend ==
  LET w == heap[walk]
  IN  pc = "BTreeGetRightMin" /\ ~w.leaf /\ Seeks(pc, w.children[0])

(* The key found takes the place of key i; it is deleted below, in child c.*)
Replaces(k, i, c) ==
  /\ heap' = [heap EXCEPT ![cur].keys[i] = k]
  /\ pc' = "BTreeDeleteNoNone" /\ cur' = Kid(c) /\ key' = k /\ walk' = NULL
  /\ UNCHANGED <<used, root, lock, input, call, found>>

LeftMaxEnds ==
  LET w == heap[walk]
      i == ScanUp(heap[cur], key)
  IN  pc = "BTreeGetLeftMax" /\ w.leaf /\ Replaces(w.keys[w.n - 1], i, i)

RightMinEnds ==
  LET w == heap[walk]
      i == ScanUp(heap[cur], key)
  IN  pc = "BTreeGetRightMin" /\ w.leaf /\ Replaces(w.keys[0], i, i + 1)

(* Child i, key i and child i + 1 become child i, which is entered.        *)
Merges(i) ==
  LET x == heap[cur]
      l == Kid(i)
      r == Kid(i + 1)
  IN  /\ heap' = Freed([heap EXCEPT ![cur] = WithoutKey(x, i),
                                    ![l]   = Joined(x, i, heap[l], heap[r])], r)
      /\ used' = used \ {r}
      /\ Calls("BTreeDeleteNoNone", l, key)
      /\ UNCHANGED root

MergeHere(i) ==
  Here(i) /\ ~HasSpare(heap[Kid(i)]) /\ ~HasSpare(heap[Kid(i + 1)]) /\ Merges(i)

DeleteDescend(i) ==
  /\ Below(i) /\ ~IsMinimal(heap[Kid(i)])
  /\ Calls("BTreeDeleteNoNone", Kid(i), key)
  /\ UNCHANGED <<heap, used, root>>

(* A minimal child first gets a key from a neighbour that has one to       *)
(* spare, left before right, or is merged with one.  A minimal child       *)
(* without neighbours is merged with NULL.                                 *)
LeftLends(i)  == i > 0 /\ HasSpare(heap[Kid(i - 1)])
RightLends(i) == i < heap[cur].n /\ HasSpare(heap[Kid(i + 1)])

BorrowFromLeft(i) ==
  LET x == heap[cur]
      l == Kid(i - 1)
      c == Kid(i)
  IN  /\ Below(i) /\ IsMinimal(heap[c]) /\ LeftLends(i)
      /\ heap' = [heap EXCEPT ![cur].keys[i - 1] = heap[l].keys[heap[l].n - 1],
                              ![l] = WithoutLast(heap[l]),
                              ![c] = GivenFirst(x, i - 1, heap[c], heap[l])]
      /\ Calls("BTreeDeleteNoNone", c, key)
      /\ UNCHANGED <<used, root>>

BorrowFromRight(i) ==
  LET x == heap[cur]
      c == Kid(i)
      r == Kid(i + 1)
  IN  /\ Below(i) /\ IsMinimal(heap[c]) /\ ~LeftLends(i) /\ RightLends(i)
      /\ heap' = [heap EXCEPT ![cur].keys[i] = heap[r].keys[0],
                              ![r] = WithoutFirst(heap[r]),
                              ![c] = GivenLast(x, i, heap[c], heap[r])]
      /\ Calls("BTreeDeleteNoNone", c, key)
      /\ UNCHANGED <<used, root>>

Alone(i) == Below(i) /\ IsMinimal(heap[Kid(i)]) /\ ~LeftLends(i) /\ ~RightLends(i)

MergeLeft(i)  == Alone(i) /\ i > 0 /\ Merges(i - 1)
MergeRight(i) == Alone(i) /\ i = 0 /\ i < heap[cur].n /\ Merges(i)

(* Mutant: the first of two children is alone.                             *)
MergeNullOfTwo(i) == Alone(i) /\ i = 0 /\ i >= heap[cur].n - 1 /\ Undefined

MergeNull(i) == Alone(i) /\ i = 0 /\ i >= heap[cur].n /\ Undefined

-----------------------------------------------------------------------------
Next ==
  \/ \E k \in Keys : Add(k) \/ Del(k) \/ Find(k)
  \/ \E to \in BOOLEAN : SetLock(to)
  \/ Exit
  \/ Refused
  \/ \E hit \in BOOLEAN : SearchEnds(hit) \/ DeleteLeaf(hit)
  \/ SearchDescend
  \/ InsertRoot \/ InsertLeaf \/ InsertDescend \/ OutOfMemory
  \/ \E top, new \in Addresses : InsertGrow(top, new)
  \/ \E new \in Addresses : InsertSplit(new)
  \/ DeleteRoot \/ DeleteUndefined
  \/ LeftMaxDescend \/ LeftMaxEnds \/ RightMinDescend \/ RightMinEnds
  \/ \E i \in ChildSlots :
       \/ SeekLeftMax(i) \/ SeekRightMin(i) \/ MergeHere(i)
       \/ DeleteDescend(i) \/ BorrowFromLeft(i) \/ BorrowFromRight(i)
       \/ MergeLeft(i) \/ MergeRight(i) \/ MergeNull(i)

Spec == Init /\ [][Next]_vars
=============================================================================
