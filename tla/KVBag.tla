------------------------------- MODULE KVBag -------------------------------
(***************************************************************************)
(* What a fingerprint-based key-value store promises, with no table, no    *)
(* buckets and no kicking: a bag of (class, value) pairs.  A class is what *)
(* the store can tell of a key, its fingerprint and its candidate buckets; *)
(* two keys of one class cannot be told apart, so deleting one may remove  *)
(* the other, and a read of one may return the other's value.              *)
(*                                                                         *)
(* CuckooKVStore is shown to implement this specification: an insertion    *)
(* that moves many entries adds exactly one pair, one that fails adds none,*)
(* and a deletion reports NotFound only when the class is empty.           *)
(***************************************************************************)
EXTENDS Naturals

CONSTANTS
  Keys,      \* application keys
  Values,    \* values
  Classes,   \* what the store can tell of a key
  KeyClass   \* KeyClass[k] is the class of key k

VARIABLES
  bag,       \* bag[<<c, v>>] copies of value v are stored under class c
  result     \* what the last completed call returned

vars == <<bag, result>>

Pairs == Classes \X Values

Results == {"none", "Ok", "TableFull", "NotFound", "InvalidParams"}

TypeOK ==
  /\ bag \in [Pairs -> Nat]
  /\ result \in Results

Init ==
  /\ bag = [p \in Pairs |-> 0]
  /\ result = "none"

Stored(k) == {v \in Values : bag[<<KeyClass[k], v>>] > 0}

Insert(k, v) ==
  /\ result' = "Ok"
  /\ bag' = [bag EXCEPT ![<<KeyClass[k], v>>] = @ + 1]

\* The store may refuse an insertion, and then holds what it held.
InsertFails ==
  /\ result' = "TableFull"
  /\ UNCHANGED bag

Delete(k) ==
  \/ /\ result' = "Ok"
     /\ \E v \in Stored(k) : bag' = [bag EXCEPT ![<<KeyClass[k], v>>] = @ - 1]
  \/ /\ result' = "NotFound"
     /\ Stored(k) = {}
     /\ UNCHANGED bag

Update(k, new) ==
  \/ /\ result' = "Ok"
     /\ \E old \in Stored(k) :
          LET without == [bag EXCEPT ![<<KeyClass[k], old>>] = @ - 1]
          IN  bag' = [without EXCEPT ![<<KeyClass[k], new>>] = @ + 1]
  \/ /\ result' = "NotFound"
     /\ Stored(k) = {}
     /\ UNCHANGED bag

RejectLength ==
  /\ result' = "InvalidParams"
  /\ UNCHANGED bag

Next ==
  \/ \E k \in Keys : Delete(k) \/ (\E v \in Values : Insert(k, v) \/ Update(k, v))
  \/ InsertFails
  \/ RejectLength

Spec == Init /\ [][Next]_vars

=============================================================================
