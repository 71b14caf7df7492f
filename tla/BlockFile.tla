----------------------------- MODULE BlockFile ------------------------------
(***************************************************************************)
(* The file under the trees: where btree_open places a tree, what it       *)
(* reserves, at which byte write_node, read_node and update_btree_header   *)
(* find a node, and where block_append puts a block of data.  Several      *)
(* trees and blocks share one file.                                        *)
(*                                                                         *)
(* The file holds bytes, but everything written is written from the start  *)
(* of a block on and fits in it: file maps the byte a block starts at to   *)
(* what was last written there.  An int has the values -IntMax-1 .. IntMax *)
(* and wraps around, int64_t and long do not overflow here.                *)
(***************************************************************************)
EXTENDS Integers, Sequences

CONSTANTS
  BlockSize,     \* block_size
  NodeCounts,    \* the possible results of get_num_nodes
  IntMax,        \* the largest value of an int
  FirstLengths,  \* bytes in the file before the first tree or block
  MaxParts,      \* bound on the trees and blocks in the file
  MaxLength,     \* bound on the bytes in the file
  Partials,      \* bound: where the file may end after a failed block_append
  Data, New, Zero,
  Foreign        \* what the file held before

ASSUME BlockSizeAssumption    == BlockSize \in Nat /\ BlockSize >= 96
ASSUME NodeCountsAssumption   == NodeCounts \subseteq Nat \ {0}
ASSUME IntMaxAssumption       == IntMax \in Nat /\ BlockSize <= IntMax
ASSUME MaxLengthAssumption    == MaxLength \in Nat
ASSUME PartialsAssumption     == Partials \subseteq Nat
ASSUME FirstLengthsAssumption == FirstLengths \subseteq 0 .. IntMax

VARIABLES
  length,   \* bytes in the file
  parts,    \* the trees and blocks in the file, in the order they were made
  file,     \* content of the block that starts at a byte
  pc        \* "undefined" after undefined behaviour

vars == <<length, parts, file, pc>>

(* The t btree_open derives from the block size: the largest odd number of *)
(* records for which the metadata, the records and the children fit.       *)
ElementsPerNode ==
  LET n == (BlockSize - 24) \div 24
  IN  IF n % 2 = 0 THEN n - 1 ELSE n

T == (ElementsPerNode + 1) \div 2

(* The bytes write_node writes, and the bytes of a Btree in the header.    *)
NodeBytes   == 9 + 16 * (2 * T - 1) + 8 * (2 * T)
HeaderBytes == 40

(* A block of data is a part without nodes.                                *)
Part == [offset : Nat, nodes : Nat]

Starts == {b * BlockSize : b \in 0 .. MaxLength \div BlockSize}

Contents == Data \cup {New, Zero, Foreign}

TypeOK ==
  /\ length \in Nat
  /\ parts \in Seq(Part)
  /\ file \in [Starts -> Contents]
  /\ pc \in {"running", "undefined"}

ToInt(x) == ((x + IntMax + 1) % (2 * IntMax + 2)) - (IntMax + 1)

Init ==
  /\ length \in FirstLengths
  /\ parts = <<>>
  /\ file = [a \in Starts |-> IF a < length THEN Foreign ELSE Zero]
  /\ pc = "running"

GoesUndefined ==
  /\ pc' = "undefined"
  /\ UNCHANGED <<length, parts, file>>

-----------------------------------------------------------------------------
(* Addresses. *)

(* Mutant: the end of the file is used as it is.                           *)
NextBlockUnaligned(x) == x

(* The division of C drops the fraction.                                   *)
Quotient(x) == IF x >= 0 THEN x \div BlockSize ELSE -((-x) \div BlockSize)

(* btree_open rounds an int up, leaving a multiple of the block size as it *)
(* is.                                                                     *)
NextBlock(x) == IF x % BlockSize = 0 THEN x ELSE ToInt(Quotient(x) * BlockSize + BlockSize)

(* Mutant: the nodes start at the header.                                  *)
AddressNoHeader(part, p) == part.offset + ToInt(IF p = -1 THEN 0 ELSE p * BlockSize)

(* The byte at which write_node and read_node look for the node at         *)
(* position p.  The header is at btree_offset itself, as if it were at     *)
(* position -1; the product is an int.                                     *)
Address(part, p) == part.offset + ToInt((p + 1) * BlockSize)

Positions(part) == -1 .. part.nodes - 1

(* The bytes a part takes: from offset up to, not including, this one.     *)
End(part) == part.offset + (part.nodes + 1) * BlockSize

-----------------------------------------------------------------------------
(* Mutant: the reservation counts from the header block, not from the      *)
(* block after it.                                                         *)
CreateTreeShort(n) ==
  /\ pc = "running"
  /\ LET pos  == NextBlock(ToInt(length))
         tree == [offset |-> IF pos < 0 THEN length ELSE pos, nodes |-> n]
     IN  /\ End(tree) <= MaxLength
         /\ parts' = Append(parts, tree)
         /\ length' = IF length < End(tree) - BlockSize THEN End(tree) - BlockSize ELSE length
         /\ file' = [file EXCEPT ![Address(tree, -1)] = New, ![Address(tree, 0)] = New]
  /\ UNCHANGED pc

(* Mutant: the position in the handle is the one computed, whether or not  *)
(* the seek succeeded.                                                     *)
CreateTreeUnsought(n) ==
  /\ pc = "running"
  /\ LET tree == [offset |-> NextBlock(ToInt(length)), nodes |-> n]
     IN  /\ End(tree) <= MaxLength
         /\ parts' = Append(parts, tree)
         /\ length' = IF length < End(tree) THEN End(tree) ELSE length
         /\ file' = [a \in Starts |-> IF a \in {Address(tree, -1), Address(tree, 0)}
                                     THEN New ELSE file[a]]
  /\ UNCHANGED pc

(* btree_open with do_create: the position of the new tree is computed in  *)
(* an int; a seek to a negative position fails and leaves the FILE at its  *)
(* end.  Header and root are written; a byte at the end of the last node's *)
(* block, beyond the node, makes the file as long as the tree.  (A file    *)
(* that ends inside the last block an int can count is left out: rounding  *)
(* up wraps and the tree begins where the file ends, in mid-block.)        *)
CreateTree(n) ==
  /\ pc = "running"
  /\ LET pos  == NextBlock(ToInt(length))
         tree == [offset |-> IF pos < 0 THEN length ELSE pos, nodes |-> n]
     IN  /\ End(tree) <= MaxLength
         /\ parts' = Append(parts, tree)
         /\ length' = IF length < End(tree) THEN End(tree) ELSE length
         /\ file' = [file EXCEPT ![Address(tree, -1)] = New, ![Address(tree, 0)] = New]
  /\ UNCHANGED pc

(* write_node and, for position -1, update_btree_header.                   *)
WriteCell(k, p, d) ==
  /\ pc = "running"
  /\ Address(parts[k], p) \in Starts
  /\ file' = [file EXCEPT ![Address(parts[k], p)] = d]
  /\ UNCHANGED <<length, parts, pc>>

(* The product has wrapped around to before the start of the file: the     *)
(* seek fails, unnoticed, and the node is written at whatever byte the     *)
(* FILE happens to be.                                                     *)
WriteAstray(k, p) ==
  /\ pc = "running"
  /\ Address(parts[k], p) < 0
  /\ GoesUndefined

(* block_append fills the file up to one block and appends the data.       *)
AppendBlock(d) ==
  /\ pc = "running"
  /\ length <= BlockSize
  /\ LET block == [offset |-> BlockSize, nodes |-> 0]
     IN  /\ End(block) <= MaxLength
         /\ parts' = Append(parts, block)
         /\ length' = End(block)
         /\ file' = [file EXCEPT ![block.offset] = d]
  /\ UNCHANGED pc

(* block_append fails: the fill and the data are written up to some byte   *)
(* and the call returns 1.  (It returns 2, having done nothing, if fseek   *)
(* fails: a stuttering step.)                                              *)
AppendWriteFails ==
  /\ pc = "running"
  /\ length <= BlockSize
  /\ 2 * BlockSize <= MaxLength
  /\ \E l \in Partials :
       /\ length <= l /\ l < 2 * BlockSize
       /\ length' = l
       /\ file' = IF l > BlockSize THEN [file EXCEPT ![BlockSize] = Foreign] ELSE file
  /\ UNCHANGED <<parts, pc>>

(* If the file is longer than a block the fill has a negative length:      *)
(* malloc of it fails and memset goes through the null pointer.            *)
AppendFails ==
  /\ pc = "running"
  /\ length > BlockSize
  /\ GoesUndefined

Next ==
  \/ Len(parts) < MaxParts /\ \E n \in NodeCounts : CreateTree(n)
  \/ Len(parts) < MaxParts /\ \E d \in Data : AppendBlock(d)
  \/ AppendWriteFails \/ AppendFails
  \/ \E k \in DOMAIN parts : \E p \in Positions(parts[k]) :
       WriteAstray(k, p) \/ \E d \in Data : WriteCell(k, p, d)

Spec == Init /\ [][Next]_vars

-----------------------------------------------------------------------------
(* The layout. *)

(* Trees and blocks start at a multiple of the block size (notes.txt, 3).  *)
PartsAligned == \A k \in DOMAIN parts : parts[k].offset % BlockSize = 0

(* An int can count the bytes of the file, hence every position in it and  *)
(* every offset in a tree.                                                 *)
IntsSuffice == length <= IntMax

(* As long as an int suffices no two trees or blocks share a byte, and     *)
(* none reaches beyond the end of the file, where the next one is made.    *)
PartsDisjoint ==
  IntsSuffice =>
    \A k \in DOMAIN parts :
      /\ End(parts[k]) <= length
      /\ \A m \in DOMAIN parts : k < m => End(parts[k]) <= parts[m].offset

(* A node, and a header, fits in its block with a byte to spare, the one   *)
(* btree_open writes at the end of the reservation.                        *)
NodeFits == T >= 2 /\ NodeBytes < BlockSize /\ HeaderBytes < BlockSize

(* What the trees and blocks hold.                                         *)
Read(a) == IF a \in Starts THEN file[a] ELSE Foreign

Arrays ==
  [k \in DOMAIN parts |-> [p \in Positions(parts[k]) |-> Read(Address(parts[k], p))]]

(* Nothing is promised of a file an int no longer suffices for.            *)
Promised == IF IntsSuffice THEN Arrays ELSE <<>>

Cells == INSTANCE CellArrays WITH arrays <- Promised

(* As long as an int suffices, a node reads back as what was last written  *)
(* to it, whatever is written to the other nodes, headers, trees and       *)
(* blocks of the file; a node never written reads as zeros.  This is what  *)
(* module BTree takes nodes and hdr to be.                                 *)
ImplementsArrays == Cells!Spec

-----------------------------------------------------------------------------
(* What the repository says and the code does not do. *)

(* block_append appends to any file ("s->block_size bytes will be appended *)
(* if call is successful", and otherwise it returns 1 or 2).               *)
AppendReturns == pc = "running"
=============================================================================
