---------------------------- MODULE FairSemaphore ----------------------------
(***************************************************************************)
(* What package ctxlock promises its callers, with the mutex, the channels  *)
(* and the abandoned queue entries left out: for each id at most MaxHeld    *)
(* callers are inside, the others wait in arrival order, a slot that is     *)
(* given up goes to the first waiter, and a waiter may leave at any time.   *)
(***************************************************************************)
EXTENDS Naturals, FiniteSets

CONSTANTS Procs, IDs, MaxHeld

VARIABLES inside,   \* inside[id]: callers that hold a lock on id
          waiting,  \* waiting[id]: callers waiting for id
          ahead     \* ahead[id]: the pairs <<p, q>> of them where p came before q

vars == <<inside, waiting, ahead>>

Init == /\ inside = [id \in IDs |-> {}]
        /\ waiting = [id \in IDs |-> {}]
        /\ ahead = [id \in IDs |-> {}]

Acquire(p, id) ==
  /\ waiting[id] = {}
  /\ Cardinality(inside[id]) < MaxHeld
  /\ inside' = [inside EXCEPT ![id] = @ \cup {p}]
  /\ UNCHANGED <<waiting, ahead>>

Wait(p, id) ==
  /\ Cardinality(inside[id]) = MaxHeld
  /\ waiting' = [waiting EXCEPT ![id] = @ \cup {p}]
  /\ ahead' = [ahead EXCEPT ![id] = @ \cup (waiting[id] \X {p})]
  /\ UNCHANGED inside

\* Caller p is no longer among the waiters, the others keep their places.
Departs(p, id) ==
  /\ waiting' = [waiting EXCEPT ![id] = @ \ {p}]
  /\ ahead' = [ahead EXCEPT ![id] = {e \in @ : p # e[1] /\ p # e[2]}]

Leave(p, id) ==
  /\ p \in waiting[id]
  /\ Departs(p, id)
  /\ UNCHANGED inside

Release(p, id) ==
  /\ p \in inside[id]
  /\ waiting[id] = {}
  /\ inside' = [inside EXCEPT ![id] = @ \ {p}]
  /\ UNCHANGED <<waiting, ahead>>

First(id) == {w \in waiting[id] : \A v \in waiting[id] : <<v, w>> \notin ahead[id]}

HandOver(p, id) ==
  /\ p \in inside[id]
  /\ \E w \in First(id) :
        /\ inside' = [inside EXCEPT ![id] = (@ \ {p}) \cup {w}]
        /\ Departs(w, id)

Next == \E p \in Procs, id \in IDs :
          \/ Acquire(p, id)
          \/ Wait(p, id)
          \/ Leave(p, id)
          \/ Release(p, id)
          \/ HandOver(p, id)

Spec == Init /\ [][Next]_vars
==============================================================================
