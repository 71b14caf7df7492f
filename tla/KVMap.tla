------------------------------- MODULE KVMap -------------------------------
(***************************************************************************)
(* What a handle on the B-tree promises: a map in which the first value    *)
(* stored under a key is the one every later search returns.  An insertion *)
(* may be refused; one that is not refused but names a key the map already *)
(* has leaves the map as it was.                                           *)
(***************************************************************************)
CONSTANTS Keys, Values, NoRecord

VARIABLES
  map,    \* the value under each key, NoRecord if there is none
  call,   \* the insertion or search in progress, NoRecord if none
  ret     \* how the last call ended

vars == <<map, call, ret>>

Init ==
  /\ map = [k \in Keys |-> NoRecord]
  /\ call = NoRecord
  /\ ret = "none"

Begin ==
  /\ call = NoRecord
  /\ call' \in [key : Keys, value_offset : Values \cup {NoRecord}]
  /\ UNCHANGED <<map, ret>>

IsInsert == call # NoRecord /\ call.value_offset # NoRecord
IsSearch == call # NoRecord /\ call.value_offset = NoRecord

(* No room: the insertion ends before it has begun.                        *)
Full ==
  /\ call = NoRecord
  /\ ret' = "full"
  /\ UNCHANGED <<map, call>>

(* Refused as a duplicate.  The caller cannot conclude that the key is     *)
(* there: see InsertDuplicate of BTree.                                    *)
Refuse ==
  /\ IsInsert
  /\ ret' = "dup"
  /\ call' = NoRecord
  /\ UNCHANGED map

Put ==
  /\ IsInsert
  /\ map' = IF map[call.key] = NoRecord
            THEN [map EXCEPT ![call.key] = call.value_offset]
            ELSE map
  /\ ret' = "done"
  /\ call' = NoRecord

Get ==
  /\ IsSearch
  /\ ret' = IF map[call.key] = NoRecord THEN "notfound" ELSE map[call.key]
  /\ call' = NoRecord
  /\ UNCHANGED map

Next == Begin \/ Full \/ Refuse \/ Put \/ Get

Spec == Init /\ [][Next]_vars
=============================================================================
