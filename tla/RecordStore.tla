----------------------------- MODULE RecordStore -----------------------------
(***************************************************************************)
(* What the position-record store promises the rest of the firmware: a     *)
(* record it accepted stays pending until the server confirms it, or until *)
(* a store that holds more than its capacity gives it up.                  *)
(***************************************************************************)
EXTENDS Naturals, FiniteSets

CONSTANTS
  MaxRecord,  \* bound of the model: how many records the device produces
  Capacity    \* how many records the store holds whatever happens

VARIABLES
  produced,   \* records are numbered in the order they are produced
  pending,    \* accepted, neither confirmed nor evicted
  confirmed,
  evicted

vars == <<produced, pending, confirmed, evicted>>

Init == produced = 0 /\ pending = {} /\ confirmed = {} /\ evicted = {}

Accept ==
  /\ produced < MaxRecord
  /\ produced' = produced + 1
  /\ pending' = pending \cup {produced'}
  /\ UNCHANGED <<confirmed, evicted>>

Confirm(r) ==
  /\ r \in pending
  /\ pending' = pending \ {r}
  /\ confirmed' = confirmed \cup {r}
  /\ UNCHANGED <<produced, evicted>>

Evict(r) ==
  /\ r \in pending
  /\ Cardinality(pending) > Capacity
  /\ pending' = pending \ {r}
  /\ evicted' = evicted \cup {r}
  /\ UNCHANGED <<produced, confirmed>>

Next == Accept \/ \E r \in pending : Confirm(r) \/ Evict(r)

Spec == Init /\ [][Next]_vars
=============================================================================
