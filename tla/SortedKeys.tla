----------------------------- MODULE SortedKeys -----------------------------
(***************************************************************************)
(* An ordered collection of keys with a lock, as btree2.c says it is, in   *)
(* Exact, and as its code keeps it, in Spec.  A key may be added any       *)
(* number of times; deleting a key that is there takes one of its copies   *)
(* away, and a key that is there is found.                                 *)
(***************************************************************************)
EXTENDS Integers, SequencesExt

CONSTANT Keys

VARIABLES
  sorted,  \* the keys, in order
  lock,    \* insert and delete do nothing
  call,    \* the call in progress: its name and its key
  found    \* what the last search answered

vars == <<sorted, lock, call, found>>

NoCall == [name |-> "none", number |-> 0]

Init ==
  /\ sorted = <<>>
  /\ lock = FALSE
  /\ call = NoCall
  /\ found = FALSE

Begin ==
  /\ call = NoCall
  /\ call' \in [name : {"add", "del", "search"}, number : Keys]
  /\ UNCHANGED <<sorted, lock, found>>

SetLock ==
  /\ call = NoCall
  /\ lock' \in BOOLEAN
  /\ UNCHANGED <<sorted, call, found>>

Ends(name) == call.name = name /\ call' = NoCall /\ UNCHANGED lock

(* How many keys are up to k: a new k goes behind them.                    *)
UpTo(k) == Len(SelectSeq(sorted, LAMBDA other : other <= k))

Add ==
  LET k == call.number
  IN  /\ Ends("add")
      /\ sorted' = IF lock THEN sorted ELSE InsertAt(sorted, UpTo(k) + 1, k)
      /\ UNCHANGED found

(* A key that is not there is not deleted ("Node not found.").             *)
Del ==
  /\ Ends("del")
  /\ sorted' = IF lock THEN sorted ELSE RemoveFirst(sorted, call.number)
  /\ UNCHANGED found

Find ==
  /\ Ends("search")
  /\ found' = Contains(sorted, call.number)
  /\ UNCHANGED sorted

Exact == Init /\ [][Begin \/ SetLock \/ Add \/ Del \/ Find]_vars

-----------------------------------------------------------------------------
(* The code compares a key that is not there with what is behind the live  *)
(* keys of a node.  Deleting it may then take away the key before it, and  *)
(* no other; searching for it may find it.                                 *)
Absent(k) == ~Contains(sorted, k)

DelBefore ==
  LET k == call.number
  IN  /\ Ends("del")
      /\ ~lock /\ Absent(k) /\ UpTo(k) > 0
      /\ sorted' = RemoveAt(sorted, UpTo(k))
      /\ UNCHANGED found

FindAbsent ==
  /\ Ends("search")
  /\ Absent(call.number)
  /\ found' = TRUE
  /\ UNCHANGED sorted

Next == Begin \/ SetLock \/ Add \/ Del \/ Find \/ DelBefore \/ FindAbsent

Spec == Init /\ [][Next]_vars
=============================================================================
