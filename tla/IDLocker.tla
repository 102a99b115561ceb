------------------------------- MODULE IDLocker -------------------------------
(***************************************************************************)
(* Package ctxlock: a per-id lock with at most MaxHeld holders, a bounded   *)
(* queue of waiters, and waiters that give up when their context ends.     *)
(*                                                                         *)
(* A goroutine is a member of Procs.  The channel a waiter queues is        *)
(* identified with the waiter: a waiter has one channel, and it is out of   *)
(* every queue before Lock returns.  The mutex l.mx is free between steps   *)
(* except while Unlock blocks on `<-ch`; `mx` names that unlocker, `recv`   *)
(* the waiter whose channel it receives from.                              *)
(***************************************************************************)
EXTENDS Integers, FiniteSets, Sequences, SequencesExt

CONSTANTS Procs,     \* goroutines that call Lock and Unlock
          IDs,       \* the keys K
          MaxHeld,   \* cfg.MaxHeld after NewIDLocker's defaulting
          MaxWait,   \* cfg.MaxWait, -1 for no limit
          NoProc     \* "nobody"

ASSUME ProcsAssumption == IsFiniteSet(Procs) /\ NoProc \notin Procs
ASSUME MaxHeldAssumption == MaxHeld \in Nat \ {0}
ASSUME MaxWaitAssumption == MaxWait \in Nat \cup {-1}

VARIABLES count,   \* l.count
          queue,   \* l.queue, oldest waiter first
          pc,      \* where each goroutine is
          key,     \* the id each goroutine last passed to Lock
          mx,      \* the unlocker that keeps l.mx while it receives, or NoProc
          recv     \* the waiter it receives from, or NoProc

vars == <<count, queue, pc, key, mx, recv>>

PC == {"idle",        \* not in Lock, holds nothing
       "select",      \* in Lock, at the select of the slow path
       "abandoned",   \* in Lock, channel closed, waits for l.mx to clean up
       "held",        \* Lock returned nil
       "unlocking"}   \* in Unlock's loop, at `<-ch`

TypeOK ==
  /\ count \in [IDs -> Nat]
  /\ queue \in [IDs -> Seq(Procs)]
  /\ pc \in [Procs -> PC]
  /\ key \in [Procs -> IDs]
  /\ mx \in Procs \cup {NoProc}
  /\ recv \in Procs \cup {NoProc}

Init ==
  /\ count = [id \in IDs |-> 0]
  /\ queue = [id \in IDs |-> <<>>]
  /\ pc = [p \in Procs |-> "idle"]
  /\ key \in [Procs -> IDs]
  /\ mx = NoProc
  /\ recv = NoProc

-----------------------------------------------------------------------------
(* Lock *)

\* Variant of LockFast with an off-by-one in the limit.
LockFastOffByOne(p, id) ==
  /\ pc[p] = "idle" /\ mx = NoProc
  /\ count[id] <= MaxHeld
  /\ count' = [count EXCEPT ![id] = @ + 1]
  /\ pc' = [pc EXCEPT ![p] = "held"]
  /\ key' = [key EXCEPT ![p] = id]
  /\ UNCHANGED <<queue, mx, recv>>

\* The fast path: a slot is free.
LockFast(p, id) ==
  /\ pc[p] = "idle" /\ mx = NoProc
  /\ count[id] < MaxHeld
  /\ count' = [count EXCEPT ![id] = @ + 1]
  /\ pc' = [pc EXCEPT ![p] = "held"]
  /\ key' = [key EXCEPT ![p] = id]
  /\ UNCHANGED <<queue, mx, recv>>

QueueFull(id) == MaxWait # -1 /\ Len(queue[id]) >= MaxWait

\* The slow path: queue a channel and block in the select.  When the queue is
\* full Lock returns ErrQueueFull and nothing changes.
LockEnqueue(p, id) ==
  /\ pc[p] = "idle" /\ mx = NoProc
  /\ count[id] >= MaxHeld
  /\ ~QueueFull(id)
  /\ queue' = [queue EXCEPT ![id] = Append(@, p)]
  /\ pc' = [pc EXCEPT ![p] = "select"]
  /\ key' = [key EXCEPT ![p] = id]
  /\ UNCHANGED <<count, mx, recv>>

\* The context is cancelled or cfg.Timeout passes: the waiter closes its
\* channel before it asks for the mutex.
Abandon(p) ==
  /\ pc[p] = "select"
  /\ pc' = [pc EXCEPT ![p] = "abandoned"]
  /\ UNCHANGED <<count, queue, key, mx, recv>>

\* Variant of Cleanup that drops the oldest waiter instead of the caller.
CleanupDropsHead(p) ==
  LET id == key[p] IN
  /\ pc[p] = "abandoned" /\ mx = NoProc
  /\ queue' = [queue EXCEPT ![id] = IF @ = <<>> THEN @ ELSE Tail(@)]
  /\ pc' = [pc EXCEPT ![p] = "idle"]
  /\ UNCHANGED <<count, key, mx, recv>>

\* append(queue[:i], queue[i+1:]...), or nothing when Unlock already took it
Cleanup(p) ==
  LET id == key[p] IN
  /\ pc[p] = "abandoned" /\ mx = NoProc
  /\ \/ \E i \in 1..Len(queue[id]) :
          /\ queue[id][i] = p
          /\ queue' = [queue EXCEPT ![id] = RemoveAt(@, i)]
     \/ /\ \A i \in 1..Len(queue[id]) : queue[id][i] # p
        /\ UNCHANGED queue
  /\ pc' = [pc EXCEPT ![p] = "idle"]
  /\ UNCHANGED <<count, key, mx, recv>>

-----------------------------------------------------------------------------
(* Unlock *)

\* Variant of UnlockTurn that serves the newest waiter first.
UnlockTurnLIFO(p) ==
  LET id == key[p] IN
  \/ /\ queue[id] = <<>>
     /\ count' = [count EXCEPT ![id] = @ - 1]
     /\ pc' = [pc EXCEPT ![p] = "idle"]
     /\ mx' = NoProc /\ recv' = NoProc
     /\ UNCHANGED <<queue, key>>
  \/ /\ queue[id] # <<>>
     /\ queue' = [queue EXCEPT ![id] = Front(@)]
     /\ pc' = [pc EXCEPT ![p] = "unlocking"]
     /\ mx' = p /\ recv' = Last(queue[id])
     /\ UNCHANGED <<count, key>>

\* One turn of Unlock's loop: give the slot back when nobody waits, otherwise
\* take the first channel off the queue and keep the mutex for the receive.
UnlockTurn(p) ==
  LET id == key[p] IN
  \/ /\ queue[id] = <<>>
     /\ count' = [count EXCEPT ![id] = @ - 1]
     /\ pc' = [pc EXCEPT ![p] = "idle"]
     /\ mx' = NoProc /\ recv' = NoProc
     /\ UNCHANGED <<queue, key>>
  \/ /\ queue[id] # <<>>
     /\ queue' = [queue EXCEPT ![id] = Tail(@)]
     /\ pc' = [pc EXCEPT ![p] = "unlocking"]
     /\ mx' = p /\ recv' = Head(queue[id])
     /\ UNCHANGED <<count, key>>

Unlock(p) ==
  /\ pc[p] = "held" /\ mx = NoProc
  /\ UnlockTurn(p)

\* The receive meets a waiter's send: the slot changes hands, count stays.
HandOff(p) ==
  /\ mx = p /\ pc[p] = "unlocking"
  /\ pc[recv] = "select"
  /\ pc' = [pc EXCEPT ![p] = "idle", ![recv] = "held"]
  /\ mx' = NoProc /\ recv' = NoProc
  /\ UNCHANGED <<count, queue, key>>

\* Variant of SkipAbandoned without the `continue` (unlock.go:43).
SkipAbandonedReturns(p) ==
  /\ mx = p /\ pc[p] = "unlocking"
  /\ pc[recv] = "abandoned"
  /\ pc' = [pc EXCEPT ![p] = "idle"]
  /\ mx' = NoProc /\ recv' = NoProc
  /\ UNCHANGED <<count, queue, key>>

\* The receive finds the channel closed and the loop goes round again.
SkipAbandoned(p) ==
  /\ mx = p /\ pc[p] = "unlocking"
  /\ pc[recv] = "abandoned"
  /\ UnlockTurn(p)

-----------------------------------------------------------------------------

Next ==
  \/ \E p \in Procs, id \in IDs : LockFast(p, id) \/ LockEnqueue(p, id)
  \/ \E p \in Procs : Abandon(p) \/ Cleanup(p) \/ Unlock(p) \/ HandOff(p) \/ SkipAbandoned(p)

\* Goroutines run; Go's mutex hands itself over to a starving goroutine
\* (strong fairness for the steps that need it); and every caller of Lock
\* defers Unlock (app/limitconcurrencybyauthsource.go, auth/basic).
Fairness ==
  \A p \in Procs : /\ SF_vars(Cleanup(p)) /\ SF_vars(Unlock(p))
                   /\ WF_vars(HandOff(p)) /\ WF_vars(SkipAbandoned(p))

Spec == Init /\ [][Next]_vars
FairSpec == Spec /\ Fairness

-----------------------------------------------------------------------------
(* Properties *)

Holders(id) == {p \in Procs : pc[p] \in {"held", "unlocking"} /\ key[p] = id}
Queued(p) == \E i \in 1..Len(queue[key[p]]) : queue[key[p]][i] = p

\* At most MaxHeld callers are between Lock and the end of Unlock of one id,
\* through fast paths, hand-offs and abandoned waiters.
MutualExclusion == \A id \in IDs : Cardinality(Holders(id)) <= MaxHeld

\* l.count is the number of holders: a hand-off neither leaks nor forges a slot,
\* so Unlock never takes the count below zero (its panic).
CountExact == \A id \in IDs : count[id] = Cardinality(Holders(id))

\* A waiter in the select is in the queue, or is the one an unlocker is
\* receiving from: no waiter is forgotten when others give up around it.
NoLostWaiter == \A p \in Procs : pc[p] = "select" => Queued(p) \/ recv = p

\* Channels are queued for an id only while all its slots are taken, so a freed
\* slot is never left unused beside a waiter.
QueuedOnlyWhenFull == \A id \in IDs : queue[id] # <<>> => count[id] = MaxHeld

\* Memory for waiters is bounded by cfg.MaxWait, abandoned entries included.
QueueBounded == MaxWait # -1 => \A id \in IDs : Len(queue[id]) <= MaxWait

\* The slots of an id are accounted for: at most MaxHeld holders, all counted,
\* and none left free beside a queue.
SlotsExact == MutualExclusion /\ CountExact /\ QueuedOnlyWhenFull

\* A newcomer never overtakes: the fast path is not taken for an id while a
\* caller that has not given up is waiting for it.
NoBarging ==
  [][\A p \in Procs : pc[p] = "idle" /\ pc'[p] = "held" =>
        ~ \E w \in Procs : pc[w] = "select" /\ key[w] = key'[p]]_vars

\* Those who wait for id, and who of them came first: the channel Unlock is
\* receiving from is still the first in line.  A caller whose channel is closed
\* has left, although its entry may still be queued.
Waiters(id) == {p \in Procs : pc[p] = "select" /\ key[p] = id}
Before(p, q, id) ==
  \/ p = recv /\ q # recv
  \/ \E i, j \in 1..Len(queue[id]) : i < j /\ queue[id][i] = p /\ queue[id][j] = q

\* The locker behaves as a first-come first-served semaphore whose waiters may
\* leave, whatever its mutex, its channels and the abandoned entries do.
Semaphore == INSTANCE FairSemaphore WITH
  inside  <- [id \in IDs |-> Holders(id)],
  waiting <- [id \in IDs |-> Waiters(id)],
  ahead   <- [id \in IDs |-> {e \in Waiters(id) \X Waiters(id) : Before(e[1], e[2], id)}]
ImplementsSemaphore == Semaphore!Spec

\* Every caller that blocks in Lock stops blocking: it gets the lock or it
\* returns its context's error.
WaiterServed == \A p \in Procs : pc[p] \in {"select", "abandoned"} ~> pc[p] \in {"held", "idle"}
===============================================================================
