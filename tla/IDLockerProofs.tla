---------------------------- MODULE IDLockerProofs ----------------------------
(***************************************************************************)
(* Proofs about IDLocker for every set of goroutines, every set of ids and  *)
(* every MaxHeld and MaxWait.                                               *)
(***************************************************************************)
EXTENDS IDLocker, FiniteSetTheorems, SequenceTheorems, TLAPS

\* What Unlock's loop relies on while it keeps the mutex: there is one
\* unlocker at a time, and the channel it receives from belongs to a caller
\* that is still inside Lock for the same id and is in no queue any more.
MutexInv ==
  /\ mx = NoProc <=> recv = NoProc
  /\ \A p \in Procs : pc[p] = "unlocking" <=> mx = p
  /\ mx # NoProc => /\ pc[recv] \in {"select", "abandoned"}
                    /\ key[recv] = key[mx]
                    /\ ~Queued(recv)

\* A queue holds callers inside Lock for that id, each at one place.
QueueInv ==
  \A id \in IDs :
    /\ \A i \in 1..Len(queue[id]) :
         /\ pc[queue[id][i]] \in {"select", "abandoned"}
         /\ key[queue[id][i]] = id
    /\ \A i, j \in 1..Len(queue[id]) : queue[id][i] = queue[id][j] => i = j

CountBounded == \A id \in IDs : count[id] <= MaxHeld

IInv == TypeOK /\ MutexInv /\ QueueInv /\ NoLostWaiter /\ CountExact
          /\ CountBounded /\ QueuedOnlyWhenFull /\ QueueBounded

-----------------------------------------------------------------------------

\* Taking one entry out of the queue keeps the others in order.
LEMMA RemoveAtFacts ==
  ASSUME NEW S, NEW s \in Seq(S), NEW i \in 1..Len(s)
  PROVE  /\ RemoveAt(s, i) \in Seq(S)
         /\ Len(RemoveAt(s, i)) = Len(s) - 1
         /\ \A j \in 1..(Len(s) - 1) :
               RemoveAt(s, i)[j] = IF j < i THEN s[j] ELSE s[j + 1]
<1> DEFINE a == SubSeq(s, 1, i - 1)
           b == SubSeq(s, i + 1, Len(s))
<1>1. Len(s) \in Nat /\ \A j \in 1..Len(s) : s[j] \in S
  BY ElementOfSeq, LenProperties
<1>2. /\ a \in Seq(S) /\ Len(a) = i - 1
      /\ \A j \in 1..(i - 1) : a[j] = s[j]
  BY <1>1, SubSeqProperties
<1>3. /\ b \in Seq(S) /\ Len(b) = Len(s) - i
      /\ \A j \in 1..(Len(s) - i) : b[j] = s[i + j]
  BY <1>1, SubSeqProperties
<1>4. RemoveAt(s, i) = a \o b
  BY DEF RemoveAt
<1> HIDE DEF a, b
<1>5. /\ a \o b \in Seq(S)
      /\ Len(a \o b) = Len(a) + Len(b)
      /\ \A j \in 1..(Len(a) + Len(b)) :
            (a \o b)[j] = IF j <= Len(a) THEN a[j] ELSE b[j - Len(a)]
  BY <1>2, <1>3, ConcatProperties
<1>6. \A j \in 1..(Len(s) - 1) :
         (a \o b)[j] = IF j < i THEN s[j] ELSE s[j + 1]
  <2> TAKE j \in 1..(Len(s) - 1)
  <2>1. CASE j < i
    BY <2>1, <1>1, <1>2, <1>3, <1>5
  <2>2. CASE ~(j < i)
    <3>1. (a \o b)[j] = b[j - (i - 1)]
      BY <2>2, <1>1, <1>2, <1>3, <1>5
    <3>2. b[j - (i - 1)] = s[i + (j - (i - 1))]
      BY <2>2, <1>1, <1>3
    <3>3. i + (j - (i - 1)) = j + 1
      BY <1>1
    <3> QED BY <2>2, <3>1, <3>2, <3>3
  <2> QED BY <2>1, <2>2
<1> QED BY <1>1, <1>2, <1>3, <1>4, <1>5, <1>6

\* Holders are goroutines, and there are finitely many of those.
LEMMA HoldersFinite ==
  ASSUME NEW id \in IDs
  PROVE  IsFiniteSet(Holders(id)) /\ Cardinality(Holders(id)) \in Nat
BY ProcsAssumption, FS_Subset, FS_CardinalityType DEF Holders

LEMMA InitIInv == Init => IInv
<1> SUFFICES ASSUME Init PROVE IInv
  OBVIOUS
<1>1. TypeOK /\ MutexInv /\ QueueInv /\ NoLostWaiter
  BY ProcsAssumption DEF Init, TypeOK, MutexInv, QueueInv, NoLostWaiter, PC, Queued
<1>2. CountExact
  <2> SUFFICES ASSUME NEW id \in IDs PROVE count[id] = Cardinality(Holders(id))
    BY DEF CountExact
  <2>1. Holders(id) = {}
    BY DEF Init, Holders
  <2> QED BY <2>1, FS_EmptySet DEF Init
<1>3. CountBounded /\ QueuedOnlyWhenFull /\ QueueBounded
  BY MaxHeldAssumption, MaxWaitAssumption DEF Init, CountBounded, QueuedOnlyWhenFull, QueueBounded
<1> QED BY <1>1, <1>2, <1>3 DEF IInv

LEMMA LockFastIInv ==
  ASSUME IInv, NEW p \in Procs, NEW id \in IDs, LockFast(p, id)
  PROVE  IInv'
<1> USE DEF IInv, LockFast
<1>1. TypeOK'
  BY DEF TypeOK, PC
<1>2. MutexInv' /\ QueueInv' /\ NoLostWaiter'
  BY ProcsAssumption DEF TypeOK, MutexInv, QueueInv, NoLostWaiter, Queued
<1>3. CountExact'
  <2> SUFFICES ASSUME NEW k \in IDs PROVE count'[k] = Cardinality(Holders(k)')
    BY DEF CountExact
  <2>1. CASE k = id
    <3>1. Holders(k)' = Holders(k) \cup {p} /\ p \notin Holders(k)
      BY <2>1 DEF Holders, TypeOK
    <3>2. Cardinality(Holders(k)') = Cardinality(Holders(k)) + 1
      BY <3>1, FS_AddElement, HoldersFinite
    <3> QED BY <2>1, <3>2 DEF CountExact, TypeOK
  <2>2. CASE k # id
    <3>1. Holders(k)' = Holders(k)
      BY <2>2 DEF Holders, TypeOK
    <3> QED BY <2>2, <3>1 DEF CountExact, TypeOK
  <2> QED BY <2>1, <2>2
<1>4. CountBounded' /\ QueuedOnlyWhenFull' /\ QueueBounded'
  BY MaxHeldAssumption DEF CountBounded, QueuedOnlyWhenFull, QueueBounded, TypeOK
<1> QED BY <1>1, <1>2, <1>3, <1>4

LEMMA LockEnqueueIInv ==
  ASSUME IInv, NEW p \in Procs, NEW id \in IDs, LockEnqueue(p, id)
  PROVE  IInv'
<1> USE DEF IInv, LockEnqueue
<1> DEFINE q == queue[id]
           r == Append(q, p)
<1>1. /\ q \in Seq(Procs) /\ r \in Seq(Procs) /\ Len(q) \in Nat
      /\ Len(r) = Len(q) + 1
      /\ \A i \in 1..Len(q) : r[i] = q[i]
      /\ r[Len(q) + 1] = p
      /\ queue' = [queue EXCEPT ![id] = r]
  BY AppendProperties, LenProperties DEF TypeOK
<1> HIDE DEF q, r
<1>2. TypeOK'
  BY <1>1 DEF TypeOK, PC
<1>3. \A k \in IDs : queue'[k] = IF k = id THEN r ELSE queue[k]
  BY <1>1 DEF TypeOK
<1>4. \A w \in Procs \ {p} : pc'[w] = pc[w] /\ key'[w] = key[w]
  BY DEF TypeOK
<1>5. pc'[p] = "select" /\ key'[p] = id
  BY DEF TypeOK
<1>6. \A k \in IDs : \A i \in 1..Len(queue[k]) : queue[k][i] \in Procs \ {p}
  BY ElementOfSeq DEF QueueInv, TypeOK
<1>7. QueueInv'
  BY <1>1, <1>3, <1>4, <1>5, <1>6 DEF QueueInv, q
<1>8. MutexInv'
  BY <1>4, <1>5, ProcsAssumption DEF MutexInv, TypeOK
<1>9. NoLostWaiter'
  <2> SUFFICES ASSUME NEW w \in Procs, pc'[w] = "select" PROVE Queued(w)' \/ recv' = w
    BY DEF NoLostWaiter
  <2>1. CASE w = p
    BY <2>1, <1>1, <1>3, <1>5 DEF Queued
  <2>2. CASE w # p
    <3>1. Queued(w) \/ recv = w
      BY <2>2, <1>4 DEF NoLostWaiter
    <3>2. ASSUME Queued(w) PROVE Queued(w)'
      <4>1. PICK i \in 1..Len(queue[key[w]]) : queue[key[w]][i] = w
        BY <3>2 DEF Queued
      <4>2. i \in 1..Len(queue'[key[w]]) /\ queue'[key[w]][i] = w
        <5>1. CASE key[w] = id
          BY <5>1, <4>1, <1>1, <1>3 DEF q
        <5>2. CASE key[w] # id
          BY <5>2, <4>1, <1>3 DEF TypeOK
        <5> QED BY <5>1, <5>2
      <4> QED BY <4>2, <2>2, <1>4 DEF Queued
    <3> QED BY <3>1, <3>2
  <2> QED BY <2>1, <2>2
<1>10. CountExact'
  <2>1. \A k \in IDs : Holders(k)' = Holders(k)
    BY <1>4, <1>5 DEF Holders
  <2> QED BY <2>1 DEF CountExact
<1>11. CountBounded' /\ QueuedOnlyWhenFull'
  BY <1>3, MaxHeldAssumption DEF CountBounded, QueuedOnlyWhenFull, TypeOK
<1>12. QueueBounded'
  BY <1>1, <1>3, MaxWaitAssumption DEF QueueBounded, QueueFull, q, TypeOK
<1> QED BY <1>2, <1>7, <1>8, <1>9, <1>10, <1>11, <1>12

LEMMA AbandonIInv ==
  ASSUME IInv, NEW p \in Procs, Abandon(p)
  PROVE  IInv'
<1> USE DEF IInv, Abandon
<1>1. TypeOK'
  BY DEF TypeOK, PC
<1>2. \A w \in Procs : pc'[w] = IF w = p THEN "abandoned" ELSE pc[w]
  BY DEF TypeOK
<1>3. QueueInv'
  BY <1>2, ElementOfSeq DEF QueueInv, TypeOK
<1>4. MutexInv'
  BY <1>2, ProcsAssumption DEF MutexInv, Queued, TypeOK
<1>5. NoLostWaiter'
  BY <1>2 DEF NoLostWaiter, Queued
<1>6. CountExact'
  <2>1. \A k \in IDs : Holders(k)' = Holders(k)
    BY <1>2 DEF Holders
  <2> QED BY <2>1 DEF CountExact
<1>7. CountBounded' /\ QueuedOnlyWhenFull' /\ QueueBounded'
  BY DEF CountBounded, QueuedOnlyWhenFull, QueueBounded
<1> QED BY <1>1, <1>3, <1>4, <1>5, <1>6, <1>7

LEMMA CleanupIInv ==
  ASSUME IInv, NEW p \in Procs, Cleanup(p)
  PROVE  IInv'
<1> DEFINE id == key[p]
           q == queue[id]
<1> USE DEF IInv
<1>1. /\ id \in IDs /\ q \in Seq(Procs) /\ Len(q) \in Nat
      /\ pc[p] = "abandoned" /\ mx = NoProc /\ recv = NoProc
  BY LenProperties DEF TypeOK, Cleanup, MutexInv
<1>2. \A w \in Procs : pc'[w] = IF w = p THEN "idle" ELSE pc[w]
  BY DEF TypeOK, Cleanup
<1>3. count' = count /\ key' = key /\ mx' = mx /\ recv' = recv
  BY DEF Cleanup
<1>4. CountExact'
  <2>1. \A k \in IDs : Holders(k)' = Holders(k)
    BY <1>1, <1>2, <1>3 DEF Holders
  <2> QED BY <2>1, <1>3 DEF CountExact
<1>5. ASSUME NEW i \in 1..Len(q), q[i] = p, queue' = [queue EXCEPT ![id] = RemoveAt(q, i)]
      PROVE  IInv'
  <2> DEFINE r == RemoveAt(q, i)
  <2>1. /\ r \in Seq(Procs) /\ Len(r) = Len(q) - 1
        /\ \A j \in 1..(Len(q) - 1) : r[j] = IF j < i THEN q[j] ELSE q[j + 1]
    BY <1>1, RemoveAtFacts
  <2>2. \A k \in IDs : queue'[k] = IF k = id THEN r ELSE queue[k]
    BY <1>5 DEF TypeOK
  <2>3. queue' \in [IDs -> Seq(Procs)]
    BY <1>1, <1>5, <2>1 DEF TypeOK
  <2> HIDE DEF r
  <2>4. TypeOK'
    BY <1>2, <1>3, <2>3 DEF TypeOK, PC, Cleanup
  <2>5. \A j \in 1..Len(q) : q[j] = p => j = i
    BY <1>1, <1>5 DEF QueueInv
  <2>6. \A j \in 1..Len(r) : r[j] # p
    BY <1>1, <2>1, <2>5
  <2>7. ASSUME NEW k \in IDs, k # id, NEW j \in 1..Len(queue[k]) PROVE queue[k][j] # p
    BY <2>7 DEF QueueInv
  <2>8. QueueInv'
    <3> SUFFICES ASSUME NEW k \in IDs
                 PROVE  /\ \A j \in 1..Len(queue'[k]) :
                             /\ pc'[queue'[k][j]] \in {"select", "abandoned"}
                             /\ key'[queue'[k][j]] = k
                        /\ \A j, m \in 1..Len(queue'[k]) : queue'[k][j] = queue'[k][m] => j = m
      BY DEF QueueInv
    <3>1. CASE k = id
      <4>1. queue'[k] = r
        BY <3>1, <2>2
      <4>2. ASSUME NEW j \in 1..Len(r)
            PROVE  /\ r[j] \in Procs \ {p}
                   /\ pc[r[j]] \in {"select", "abandoned"}
                   /\ key[r[j]] = id
        <5> DEFINE m == IF j < i THEN j ELSE j + 1
        <5>1. m \in 1..Len(q) /\ r[j] = q[m]
          BY <1>1, <2>1
        <5> HIDE DEF m
        <5> QED BY <5>1, <1>1, <2>6, ElementOfSeq DEF QueueInv
      <4>3. ASSUME NEW j \in 1..Len(r), NEW m \in 1..Len(r), r[j] = r[m]
            PROVE  j = m
        <5> DEFINE pos(x) == IF x < i THEN x ELSE x + 1
        <5>1. pos(j) \in 1..Len(q) /\ pos(m) \in 1..Len(q) /\ q[pos(j)] = q[pos(m)]
          BY <1>1, <2>1, <4>3
        <5>2. pos(j) = pos(m)
          BY <5>1, <1>1 DEF QueueInv
        <5> QED BY <5>2, <1>1, <2>1
      <4> QED BY <4>1, <4>2, <4>3, <1>2, <1>3, <3>1
    <3>2. CASE k # id
      <4>1. \A j \in 1..Len(queue[k]) : queue[k][j] \in Procs \ {p}
        BY <2>7, <3>2, ElementOfSeq DEF TypeOK
      <4> QED BY <3>2, <2>2, <4>1, <1>2, <1>3 DEF QueueInv
    <3> QED BY <3>1, <3>2
  <2>9. NoLostWaiter'
    <3> SUFFICES ASSUME NEW w \in Procs, pc'[w] = "select" PROVE Queued(w)'
      BY DEF NoLostWaiter
    <3>1. w # p /\ pc[w] = "select"
      BY <1>2
    <3>2. PICK j \in 1..Len(queue[key[w]]) : queue[key[w]][j] = w
      BY <3>1, <1>1, ProcsAssumption DEF NoLostWaiter, Queued
    <3>3. CASE key[w] # id
      BY <3>2, <3>3, <2>2, <1>3 DEF Queued, TypeOK
    <3>4. CASE key[w] = id
      <4>1. q[j] = w /\ j \in 1..Len(q)
        BY <3>2, <3>4
      <4>2. j # i
        BY <4>1, <3>1, <1>5
      <4> DEFINE m == IF j < i THEN j ELSE j - 1
      <4>3. m \in 1..Len(r) /\ r[m] = w
        BY <4>1, <4>2, <2>1, <1>1
      <4> QED BY <4>3, <3>4, <2>2, <1>1, <1>3 DEF Queued
    <3> QED BY <3>3, <3>4
  <2>10. MutexInv'
    BY <1>1, <1>2, <1>3, ProcsAssumption DEF MutexInv
  <2>11. CountBounded' /\ QueueBounded' /\ QueuedOnlyWhenFull'
    <3>1. q # <<>>
      BY <1>1, <1>5
    <3>2. CountBounded' /\ QueuedOnlyWhenFull'
      BY <1>1, <1>3, <2>2, <3>1 DEF CountBounded, QueuedOnlyWhenFull
    <3>3. QueueBounded'
      <4>1. Len(r) <= Len(q)
        BY <1>1, <2>1
      <4>2. ASSUME MaxWait # -1, NEW k \in IDs PROVE Len(queue'[k]) <= MaxWait
        <5>1. CASE k = id
          <6>1. Len(q) <= MaxWait /\ MaxWait \in Nat
            BY <4>2, <1>1, MaxWaitAssumption DEF QueueBounded
          <6> QED BY <5>1, <6>1, <1>1, <2>1, <2>2
        <5>2. CASE k # id
          BY <5>2, <4>2, <2>2 DEF QueueBounded
        <5> QED BY <5>1, <5>2
      <4> QED BY <4>2 DEF QueueBounded
    <3> QED BY <3>2, <3>3
  <2> QED BY <1>4, <2>4, <2>8, <2>9, <2>10, <2>11
<1>6. ASSUME \A i \in 1..Len(q) : q[i] # p, queue' = queue
      PROVE  IInv'
  <2>1. TypeOK'
    BY <1>2, <1>3, <1>6 DEF TypeOK, PC, Cleanup
  <2>2. \A k \in IDs : \A j \in 1..Len(queue[k]) : queue[k][j] \in Procs \ {p}
    BY <1>1, <1>6, ElementOfSeq DEF QueueInv, TypeOK
  <2>3. QueueInv'
    BY <1>2, <1>3, <1>6, <2>2 DEF QueueInv
  <2>4. MutexInv'
    BY <1>1, <1>2, <1>3, ProcsAssumption DEF MutexInv
  <2>5. NoLostWaiter'
    BY <1>2, <1>3, <1>6 DEF NoLostWaiter, Queued
  <2>6. CountBounded' /\ QueueBounded' /\ QueuedOnlyWhenFull'
    BY <1>3, <1>6 DEF CountBounded, QueueBounded, QueuedOnlyWhenFull
  <2> QED BY <1>4, <2>1, <2>3, <2>4, <2>5, <2>6
<1> QED BY <1>5, <1>6 DEF Cleanup

\* One turn of Unlock's loop, from `held` or after a closed channel.
LEMMA UnlockTurnIInv ==
  ASSUME IInv, NEW p \in Procs, UnlockTurn(p),
         \/ pc[p] = "held" /\ mx = NoProc
         \/ pc[p] = "unlocking" /\ mx = p /\ pc[recv] = "abandoned"
  PROVE  IInv'
<1> DEFINE id == key[p]
           q == queue[id]
<1> USE DEF IInv
<1>1. /\ id \in IDs /\ q \in Seq(Procs) /\ Len(q) \in Nat
      /\ pc[p] \in {"held", "unlocking"}
      /\ p # NoProc
  BY LenProperties, ProcsAssumption DEF TypeOK
<1>2. \A w \in Procs : pc[w] = "select" => recv # w
  BY ProcsAssumption DEF MutexInv
<1>3. p \in Holders(id)
  BY <1>1 DEF Holders
<1>4. \A w \in Procs \ {p} : pc[w] # "unlocking"
  BY ProcsAssumption DEF MutexInv
<1>5. ASSUME NEW k \in IDs, NEW j \in 1..Len(queue[k]) PROVE queue[k][j] \in Procs \ {p}
  BY <1>1, ElementOfSeq DEF QueueInv, TypeOK
<1>6. CASE q = <<>>
  <2>1. /\ count' = [count EXCEPT ![id] = @ - 1]
        /\ pc' = [pc EXCEPT ![p] = "idle"]
        /\ mx' = NoProc /\ recv' = NoProc /\ queue' = queue /\ key' = key
    BY <1>6 DEF UnlockTurn
  <2>2. \A w \in Procs : pc'[w] = IF w = p THEN "idle" ELSE pc[w]
    BY <2>1 DEF TypeOK
  <2>3. CountExact' /\ count[id] > 0
    <3>1. count[id] > 0
      BY <1>1, <1>3, HoldersFinite, FS_EmptySet DEF CountExact
    <3> SUFFICES ASSUME NEW k \in IDs PROVE count'[k] = Cardinality(Holders(k)')
      BY <3>1 DEF CountExact
    <3>2. CASE k = id
      <4>1. Holders(k)' = Holders(k) \ {p}
        BY <3>2, <2>1, <2>2 DEF Holders
      <4>2. Cardinality(Holders(k)') = Cardinality(Holders(k)) - 1
        BY <4>1, <3>2, <1>3, FS_RemoveElement, HoldersFinite
      <4> QED BY <4>2, <3>2, <2>1 DEF CountExact, TypeOK
    <3>3. CASE k # id
      <4>1. Holders(k)' = Holders(k)
        BY <3>3, <2>1, <2>2 DEF Holders
      <4> QED BY <4>1, <3>3, <2>1 DEF CountExact, TypeOK
    <3> QED BY <3>2, <3>3
  <2>4. TypeOK'
    BY <2>1, <2>3, <1>1 DEF TypeOK, PC
  <2>5. QueueInv'
    BY <2>1, <2>2, <1>5 DEF QueueInv
  <2>6. MutexInv'
    BY <2>1, <2>2, <1>4, ProcsAssumption DEF MutexInv
  <2>7. NoLostWaiter'
    BY <2>1, <2>2, <1>2 DEF NoLostWaiter, Queued
  <2>8. CountBounded' /\ QueuedOnlyWhenFull' /\ QueueBounded'
    BY <2>1, <2>3, <1>6, MaxHeldAssumption
       DEF CountBounded, QueuedOnlyWhenFull, QueueBounded, TypeOK
  <2> QED BY <2>3, <2>4, <2>5, <2>6, <2>7, <2>8
<1>7. CASE q # <<>>
  <2> DEFINE h == Head(q)
             r == Tail(q)
  <2>1. /\ queue' = [queue EXCEPT ![id] = r]
        /\ pc' = [pc EXCEPT ![p] = "unlocking"]
        /\ mx' = p /\ recv' = h /\ count' = count /\ key' = key
    BY <1>7 DEF UnlockTurn
  <2>2. /\ h \in Procs /\ r \in Seq(Procs) /\ Len(r) = Len(q) - 1 /\ Len(q) > 0
        /\ \A j \in 1..Len(r) : r[j] = q[j + 1]
        /\ h = q[1]
    BY <1>1, <1>7, HeadTailProperties, EmptySeq
  <2>3. \A k \in IDs : queue'[k] = IF k = id THEN r ELSE queue[k]
    BY <2>1 DEF TypeOK
  <2>4. \A w \in Procs : pc'[w] = IF w = p THEN "unlocking" ELSE pc[w]
    BY <2>1 DEF TypeOK
  <2>5. TypeOK'
    BY <2>1, <2>2 DEF TypeOK, PC
  <2> HIDE DEF h, r
  <2>6. ASSUME NEW j \in 1..Len(r)
        PROVE  /\ j + 1 \in 1..Len(q) /\ r[j] = q[j + 1]
               /\ r[j] # h /\ r[j] \in Procs \ {p}
               /\ pc[r[j]] \in {"select", "abandoned"} /\ key[r[j]] = id
    <3>1. j + 1 \in 1..Len(q) /\ 1 \in 1..Len(q) /\ r[j] = q[j + 1] /\ j + 1 # 1
      BY <1>1, <2>2
    <3>2. q[j + 1] # q[1]
      BY <3>1, <1>1 DEF QueueInv
    <3> QED BY <3>1, <3>2, <2>2, <1>1, <1>5 DEF QueueInv
  <2>7. h # p /\ pc[h] \in {"select", "abandoned"} /\ key[h] = id
    BY <1>1, <2>2, <1>5 DEF QueueInv
  <2>8. QueueInv'
    <3>1. \A k \in IDs : \A j \in 1..Len(queue'[k]) :
             /\ pc'[queue'[k][j]] \in {"select", "abandoned"}
             /\ key'[queue'[k][j]] = k
      <4> TAKE k \in IDs
      <4> TAKE j \in 1..Len(queue'[k])
      <4>1. CASE k = id
        <5>1. queue'[k] = r
          BY <4>1, <2>3
        <5> QED BY <5>1, <4>1, <2>1, <2>4, <2>6
      <4>2. CASE k # id
        BY <4>2, <2>1, <2>3, <2>4, <1>5 DEF QueueInv
      <4> QED BY <4>1, <4>2
    <3>2. \A k \in IDs : \A i, j \in 1..Len(queue'[k]) : queue'[k][i] = queue'[k][j] => i = j
      <4> TAKE k \in IDs
      <4> TAKE i, j \in 1..Len(queue'[k])
      <4> HAVE queue'[k][i] = queue'[k][j]
      <4>1. CASE k = id
        <5>1. /\ q[i + 1] = q[j + 1] /\ i + 1 \in 1..Len(q) /\ j + 1 \in 1..Len(q)
              /\ i \in Nat /\ j \in Nat
          BY <4>1, <1>1, <2>2, <2>3
        <5>2. i + 1 = j + 1
          BY <5>1, <1>1 DEF QueueInv
        <5> QED BY <5>1, <5>2
      <4>2. CASE k # id
        BY <4>2, <2>3 DEF QueueInv
      <4> QED BY <4>1, <4>2
    <3> QED BY <3>1, <3>2 DEF QueueInv
  <2>9. MutexInv'
    <3>1. key'[recv'] = id /\ queue'[id] = r
      BY <2>1, <2>3, <2>7, <1>1
    <3>2. ~Queued(recv)'
      BY <3>1, <2>1, <2>6 DEF Queued
    <3>3. \A w \in Procs : pc'[w] = "unlocking" <=> w = p
      BY <2>4, <1>4
    <3> QED BY <3>2, <3>3, <2>1, <2>2, <2>4, <2>7, <1>1, ProcsAssumption DEF MutexInv
  <2>10. NoLostWaiter'
    <3> SUFFICES ASSUME NEW w \in Procs, pc'[w] = "select" PROVE Queued(w)' \/ recv' = w
      BY DEF NoLostWaiter
    <3>1. pc[w] = "select" /\ w # p
      BY <2>4
    <3>2. PICK j \in 1..Len(queue[key[w]]) : queue[key[w]][j] = w
      BY <3>1, <1>2 DEF NoLostWaiter, Queued
    <3>3. CASE key[w] # id
      BY <3>2, <3>3, <2>1, <2>3 DEF Queued, TypeOK
    <3>4. CASE key[w] = id /\ j = 1
      BY <3>2, <3>4, <2>1, <2>2
    <3>5. CASE key[w] = id /\ j # 1
      <4>1. j - 1 \in 1..Len(r) /\ r[j - 1] = w
        BY <3>2, <3>5, <2>2, <1>1
      <4> QED BY <4>1, <3>5, <2>1, <2>3, <1>1 DEF Queued
    <3> QED BY <3>3, <3>4, <3>5
  <2>11. CountExact'
    <3>1. \A k \in IDs : Holders(k)' = Holders(k)
      BY <2>1, <2>4, <1>1 DEF Holders
    <3> QED BY <3>1, <2>1 DEF CountExact
  <2>12. CountBounded' /\ QueuedOnlyWhenFull'
    BY <1>1, <1>7, <2>1, <2>3 DEF CountBounded, QueuedOnlyWhenFull
  <2>13. QueueBounded'
    <3> SUFFICES ASSUME MaxWait # -1, NEW k \in IDs PROVE Len(queue'[k]) <= MaxWait
      BY DEF QueueBounded
    <3>1. CASE k = id
      <4>1. Len(q) <= MaxWait /\ MaxWait \in Nat
        BY <1>1, MaxWaitAssumption DEF QueueBounded
      <4> QED BY <3>1, <4>1, <1>1, <2>2, <2>3
    <3>2. CASE k # id
      BY <3>2, <2>3 DEF QueueBounded
    <3> QED BY <3>1, <3>2
  <2> QED BY <2>5, <2>8, <2>9, <2>10, <2>11, <2>12, <2>13
<1> QED BY <1>6, <1>7

LEMMA HandOffIInv ==
  ASSUME IInv, NEW p \in Procs, HandOff(p)
  PROVE  IInv'
<1> USE DEF IInv
<1>1. /\ mx = p /\ p # NoProc /\ pc[p] = "unlocking" /\ pc[recv] = "select"
      /\ recv \in Procs /\ key[recv] = key[p] /\ ~Queued(recv) /\ key[p] \in IDs
      /\ recv # p
  BY ProcsAssumption DEF HandOff, MutexInv, TypeOK
<1>2. /\ mx' = NoProc /\ recv' = NoProc /\ count' = count /\ queue' = queue /\ key' = key
      /\ pc' = [pc EXCEPT ![p] = "idle", ![recv] = "held"]
  BY DEF HandOff
<1>3. \A w \in Procs : pc'[w] = IF w = recv THEN "held" ELSE IF w = p THEN "idle" ELSE pc[w]
  BY <1>1, <1>2 DEF TypeOK
<1>4. TypeOK'
  BY <1>2 DEF TypeOK, PC
<1>5. \A k \in IDs : \A j \in 1..Len(queue[k]) : queue[k][j] \in Procs \ {p, recv}
  BY <1>1, ElementOfSeq DEF QueueInv, Queued, TypeOK
<1>6. QueueInv'
  <2>1. ASSUME NEW k \in IDs, NEW j \in 1..Len(queue[k])
        PROVE  pc'[queue[k][j]] \in {"select", "abandoned"} /\ key[queue[k][j]] = k
    <3>1. pc'[queue[k][j]] = pc[queue[k][j]]
      BY <1>3, <1>5
    <3> QED BY <3>1 DEF QueueInv
  <2> QED BY <2>1, <1>2 DEF QueueInv
<1>7. MutexInv'
  <2>1. \A w \in Procs : pc[w] = "unlocking" => w = p
    BY <1>1 DEF MutexInv
  <2>2. \A w \in Procs : pc'[w] # "unlocking"
    BY <2>1, <1>3
  <2> QED BY <2>2, <1>2, ProcsAssumption DEF MutexInv
<1>8. NoLostWaiter'
  BY <1>2, <1>3 DEF NoLostWaiter, Queued
<1>9. CountExact'
  <2> SUFFICES ASSUME NEW k \in IDs PROVE count'[k] = Cardinality(Holders(k)')
    BY DEF CountExact
  <2>1. CASE k = key[p]
    <3>1. /\ Holders(k)' = (Holders(k) \ {p}) \cup {recv}
          /\ p \in Holders(k) /\ recv \notin Holders(k) \ {p}
      <4>1. p \in Holders(k) /\ recv \notin Holders(k)
        BY <2>1, <1>1 DEF Holders
      <4>2. ASSUME NEW w \in Procs
            PROVE  w \in Holders(k)' <=> w \in (Holders(k) \ {p}) \cup {recv}
        <5>1. CASE w = recv
          BY <5>1, <2>1, <1>1, <1>2, <1>3 DEF Holders
        <5>2. CASE w = p
          BY <5>2, <1>1, <1>3 DEF Holders
        <5>3. CASE w # recv /\ w # p
          BY <5>3, <1>2, <1>3 DEF Holders
        <5> QED BY <5>1, <5>2, <5>3
      <4>3. Holders(k)' \subseteq Procs /\ (Holders(k) \ {p}) \cup {recv} \subseteq Procs
        BY <1>1 DEF Holders
      <4> QED BY <4>1, <4>2, <4>3
    <3>2. /\ IsFiniteSet(Holders(k) \ {p})
          /\ Cardinality(Holders(k) \ {p}) = Cardinality(Holders(k)) - 1
      BY <3>1, FS_RemoveElement, HoldersFinite
    <3>3. Cardinality(Holders(k)') = Cardinality(Holders(k) \ {p}) + 1
      BY <3>1, <3>2, FS_AddElement
    <3> QED BY <3>2, <3>3, <1>2, HoldersFinite DEF CountExact
  <2>2. CASE k # key[p]
    <3>1. Holders(k)' = Holders(k)
      BY <2>2, <1>1, <1>2, <1>3 DEF Holders
    <3> QED BY <3>1, <1>2 DEF CountExact
  <2> QED BY <2>1, <2>2
<1>10. CountBounded' /\ QueuedOnlyWhenFull' /\ QueueBounded'
  BY <1>2 DEF CountBounded, QueuedOnlyWhenFull, QueueBounded
<1> QED BY <1>4, <1>6, <1>7, <1>8, <1>9, <1>10

-----------------------------------------------------------------------------

LEMMA NextIInv == IInv /\ [Next]_vars => IInv'
<1> SUFFICES ASSUME IInv, [Next]_vars PROVE IInv'
  OBVIOUS
<1>1. ASSUME NEW p \in Procs, NEW id \in IDs, LockFast(p, id) PROVE IInv'
  BY <1>1, LockFastIInv
<1>2. ASSUME NEW p \in Procs, NEW id \in IDs, LockEnqueue(p, id) PROVE IInv'
  BY <1>2, LockEnqueueIInv
<1>3. ASSUME NEW p \in Procs, Abandon(p) PROVE IInv'
  BY <1>3, AbandonIInv
<1>4. ASSUME NEW p \in Procs, Cleanup(p) PROVE IInv'
  BY <1>4, CleanupIInv
<1>5. ASSUME NEW p \in Procs, Unlock(p) PROVE IInv'
  BY <1>5, UnlockTurnIInv DEF Unlock
<1>6. ASSUME NEW p \in Procs, HandOff(p) PROVE IInv'
  BY <1>6, HandOffIInv
<1>7. ASSUME NEW p \in Procs, SkipAbandoned(p) PROVE IInv'
  BY <1>7, UnlockTurnIInv DEF SkipAbandoned
<1>8. CASE UNCHANGED vars
  BY <1>8 DEF vars, IInv, TypeOK, MutexInv, QueueInv, NoLostWaiter, Queued, CountExact,
              Holders, CountBounded, QueuedOnlyWhenFull, QueueBounded
<1> QED BY <1>1, <1>2, <1>3, <1>4, <1>5, <1>6, <1>7, <1>8 DEF Next

\* The strengthened invariant holds in every reachable state.
THEOREM Inductive == Spec => []IInv
BY InitIInv, NextIInv, PTL DEF Spec

\* Every variable of the locker keeps its type; in particular l.count stays a
\* natural number, so the panic of Unlock is unreachable.
THEOREM TypeCorrect == Spec => []TypeOK
<1>1. IInv => TypeOK
  BY DEF IInv
<1> QED BY <1>1, Inductive, PTL

\* At most MaxHeld callers hold an id, whatever the interleaving of fast paths,
\* hand-offs and cancellations.
THEOREM Exclusion == Spec => []MutualExclusion
<1>1. IInv => MutualExclusion
  BY DEF IInv, CountExact, CountBounded, MutualExclusion
<1> QED BY <1>1, Inductive, PTL

\* No caller blocked in Lock is ever left outside the queue while nobody is
\* about to hand it the lock.
THEOREM WaitersKept == Spec => []NoLostWaiter
<1>1. IInv => NoLostWaiter
  BY DEF IInv
<1> QED BY <1>1, Inductive, PTL

\* Waiters exist only while every slot is in use.
THEOREM NoIdleSlot == Spec => []QueuedOnlyWhenFull
<1>1. IInv => QueuedOnlyWhenFull
  BY DEF IInv
<1> QED BY <1>1, Inductive, PTL

\* l.count, which Unlock leaves alone when it hands the lock over, is exactly the
\* number of holders.
THEOREM ExactCount == Spec => []CountExact
<1>1. IInv => CountExact
  BY DEF IInv
<1> QED BY <1>1, Inductive, PTL

\* Through hand-overs and abandoned waits an id has at most MaxHeld holders, all
\* of them counted, and no slot is free while somebody queues.
THEOREM SlotsAccounted == Spec => []SlotsExact
BY Exclusion, ExactCount, NoIdleSlot, PTL DEF SlotsExact

\* The queue respects MaxWait although the limit is tested before the append.
THEOREM BoundedQueue == Spec => []QueueBounded
<1>1. IInv => QueueBounded
  BY DEF IInv
<1> QED BY <1>1, Inductive, PTL

\* The fast path never overtakes a caller that still waits for the same id.
THEOREM NoOvertaking == Spec => NoBarging
<1> DEFINE Fair == \A p \in Procs : pc[p] = "idle" /\ pc'[p] = "held" =>
                      ~ \E w \in Procs : pc[w] = "select" /\ key[w] = key'[p]
<1>1. IInv /\ [Next]_vars => [Fair]_vars
  <2> SUFFICES ASSUME IInv, Next, NEW p \in Procs, pc[p] = "idle", pc'[p] = "held",
                      NEW w \in Procs, pc[w] = "select", key[w] = key'[p]
               PROVE  FALSE
    BY DEF vars
  <2> USE DEF IInv
  <2>1. ASSUME NEW v \in Procs, NEW id \in IDs, LockFast(v, id) PROVE FALSE
    <3>1. v = p /\ key'[p] = id /\ count[id] < MaxHeld /\ mx = NoProc
      BY <2>1 DEF LockFast, TypeOK
    <3>2. recv # w
      BY <3>1, ProcsAssumption DEF MutexInv
    <3>3. Queued(w)
      BY <3>2 DEF NoLostWaiter
    <3>4. queue[id] # <<>>
      BY <3>1, <3>3 DEF Queued
    <3> QED BY <3>1, <3>4, MaxHeldAssumption DEF QueuedOnlyWhenFull, TypeOK
  <2>2. ASSUME NEW v \in Procs, NEW id \in IDs, LockEnqueue(v, id) PROVE FALSE
    BY <2>2 DEF LockEnqueue, TypeOK
  <2>3. ASSUME NEW v \in Procs, Abandon(v) \/ Cleanup(v) PROVE FALSE
    BY <2>3 DEF Abandon, Cleanup, TypeOK
  <2>4. ASSUME NEW v \in Procs, UnlockTurn(v) PROVE FALSE
    BY <2>4 DEF UnlockTurn, TypeOK
  <2>5. ASSUME NEW v \in Procs, HandOff(v) PROVE FALSE
    BY <2>5, ProcsAssumption DEF HandOff, MutexInv, TypeOK
  <2> QED BY <2>1, <2>2, <2>3, <2>4, <2>5 DEF Next, Unlock, SkipAbandoned
<1> QED BY <1>1, Inductive, PTL DEF Spec, NoBarging

-----------------------------------------------------------------------------
(* The locker implements the semaphore *)

\* Who came before whom among the waiters of id, as the mapping gives it.
Ahead(id) == {e \in Waiters(id) \X Waiters(id) : Before(e[1], e[2], id)}

\* A waiter is in the queue of its id, at one place, or the one Unlock receives from.
LEMMA WaiterPlaces ==
  ASSUME IInv, NEW id \in IDs, NEW w \in Waiters(id), w # recv
  PROVE  \E i \in 1..Len(queue[id]) : queue[id][i] = w
BY DEF IInv, NoLostWaiter, Queued, Waiters

\* Without a queue and a live channel to receive from nobody waits.
LEMMA NobodyWaits ==
  ASSUME IInv, NEW id \in IDs, queue[id] = <<>>, recv = NoProc \/ pc[recv] # "select"
  PROVE  Waiters(id) = {} /\ Ahead(id) = {}
<1>1. \A w \in Waiters(id) : w # recv
  BY ProcsAssumption DEF Waiters
<1>2. Len(queue[id]) = 0
  OBVIOUS
<1> QED BY <1>1, <1>2, WaiterPlaces DEF Ahead

\* At the start nobody holds, nobody waits.
LEMMA InitSimulates == Init => Semaphore!Init
<1> SUFFICES ASSUME Init PROVE Semaphore!Init
  OBVIOUS
<1>1. \A id \in IDs : Holders(id) = {} /\ Waiters(id) = {}
  BY DEF Init, Holders, Waiters
<1> QED BY <1>1 DEF Semaphore!Init

\* FairSemaphore counts with the same Cardinality.
LEMMA SameCardinality == ASSUME NEW S PROVE Semaphore!Cardinality(S) = Cardinality(S)
BY DEF Semaphore!Cardinality, Cardinality

\* A step that changes neither holders, waiters nor their order is a stutter.
LEMMA Unnoticed ==
  ASSUME \A k \in IDs : Holders(k)' = Holders(k) /\ Waiters(k)' = Waiters(k) /\ Ahead(k)' = Ahead(k)
  PROVE  UNCHANGED Semaphore!vars
BY DEF Semaphore!vars, Ahead

\* The fast path finds a free slot and, so, no waiter.
LEMMA LockFastSimulates ==
  ASSUME IInv, NEW p \in Procs, NEW id \in IDs, LockFast(p, id)
  PROVE  Semaphore!Acquire(p, id)
<1>1. Waiters(id) = {} /\ Cardinality(Holders(id)) < MaxHeld
  <2>1. queue[id] = <<>> /\ recv = NoProc /\ count[id] = Cardinality(Holders(id))
    BY MaxHeldAssumption DEF IInv, TypeOK, MutexInv, QueuedOnlyWhenFull, CountExact, LockFast
  <2> QED BY <2>1, NobodyWaits DEF LockFast
<1>2. \A k \in IDs : Holders(k)' = IF k = id THEN Holders(k) \cup {p} ELSE Holders(k)
  BY DEF IInv, TypeOK, LockFast, Holders
<1>3. \A k \in IDs : Waiters(k)' = Waiters(k)
  BY DEF IInv, TypeOK, LockFast, Waiters
<1>4. \A k \in IDs : \A a, b \in Procs : Before(a, b, k)' = Before(a, b, k)
  BY DEF LockFast, Before
<1>5. \A k \in IDs : Ahead(k)' = Ahead(k)
  BY <1>3, <1>4 DEF Ahead, Waiters
<1>6. [k \in IDs |-> Holders(k)]' = [[k \in IDs |-> Holders(k)] EXCEPT ![id] = @ \cup {p}]
  BY <1>2
<1>7. [k \in IDs |-> Waiters(k)]' = [k \in IDs |-> Waiters(k)]
  BY <1>3
<1>8. [k \in IDs |-> Ahead(k)]' = [k \in IDs |-> Ahead(k)]
  BY <1>5
<1>9. /\ [k \in IDs |-> Waiters(k)][id] = {}
      /\ Semaphore!Cardinality([k \in IDs |-> Holders(k)][id]) < MaxHeld
  BY <1>1, SameCardinality
<1> QED BY <1>6, <1>7, <1>8, <1>9 DEF Semaphore!Acquire, Ahead

\* The slow path puts the caller behind all who wait already.
LEMMA LockEnqueueSimulates ==
  ASSUME IInv, NEW p \in Procs, NEW id \in IDs, LockEnqueue(p, id)
  PROVE  Semaphore!Wait(p, id)
<1> DEFINE q == queue[id]
           r == Append(q, p)
<1> USE DEF IInv
<1>1. /\ q \in Seq(Procs) /\ Len(q) \in Nat /\ Len(r) = Len(q) + 1
      /\ \A i \in 1..Len(q) : r[i] = q[i]
      /\ r[Len(q) + 1] = p
      /\ recv = NoProc /\ recv' = NoProc
  BY AppendProperties, LenProperties DEF TypeOK, LockEnqueue, MutexInv
<1>2. \A k \in IDs : queue'[k] = IF k = id THEN r ELSE queue[k]
  BY DEF TypeOK, LockEnqueue
<1> HIDE DEF q, r
<1>3. \A k \in IDs : Holders(k)' = Holders(k)
  BY DEF TypeOK, LockEnqueue, Holders
<1>4. \A k \in IDs : Waiters(k)' = IF k = id THEN Waiters(k) \cup {p} ELSE Waiters(k)
  BY DEF TypeOK, LockEnqueue, Waiters
<1>5. Cardinality(Holders(id)) = MaxHeld
  BY MaxHeldAssumption DEF TypeOK, LockEnqueue, CountExact, CountBounded
<1>6. \A i \in 1..Len(q) : q[i] # p
  BY DEF QueueInv, LockEnqueue, q
<1>7. p \notin Waiters(id) /\ \A w \in Waiters(id) : \E i \in 1..Len(q) : q[i] = w
  <2>1. \A w \in Waiters(id) : w # recv
    BY <1>1, ProcsAssumption DEF Waiters
  <2> QED BY <2>1, WaiterPlaces DEF Waiters, LockEnqueue, q
<1>8. \A a, b \in Procs \ {p} : Before(a, b, id)' = Before(a, b, id)
  <2> TAKE a, b \in Procs \ {p}
  <2>1. Before(a, b, id) <=> \E i, j \in 1..Len(q) : i < j /\ q[i] = a /\ q[j] = b
    BY <1>1, ProcsAssumption DEF Before, q
  <2>2. Before(a, b, id)' <=> \E i, j \in 1..Len(r) : i < j /\ r[i] = a /\ r[j] = b
    BY <1>1, <1>2, ProcsAssumption DEF Before
  <2>3. \A i \in 1..Len(r) : r[i] # p => i \in 1..Len(q)
    BY <1>1
  <2>4. \A i \in 1..Len(q) : i \in 1..Len(r)
    BY <1>1
  <2>5. Before(a, b, id)' => Before(a, b, id)
    BY <1>1, <2>1, <2>2, <2>3
  <2>6. Before(a, b, id) => Before(a, b, id)'
    BY <1>1, <2>1, <2>2, <2>4
  <2> QED BY <2>5, <2>6 DEF Before
<1>9. \A a \in Waiters(id) : Before(a, p, id)'
  <2> TAKE a \in Waiters(id)
  <2>1. PICK i \in 1..Len(q) : q[i] = a
    BY <1>7
  <2>2. i \in 1..Len(r) /\ Len(q) + 1 \in 1..Len(r) /\ i < Len(q) + 1 /\ r[i] = a /\ r[Len(q) + 1] = p
    BY <1>1, <2>1
  <2> QED BY <2>2, <1>2 DEF Before
<1>10. \A a \in Procs : ~Before(p, a, id)'
  <2>1. \A i, j \in 1..Len(r) : i < j => r[i] # p
    BY <1>1, <1>6
  <2> QED BY <2>1, <1>1, <1>2, ProcsAssumption DEF Before
<1>11. Ahead(id)' = Ahead(id) \cup (Waiters(id) \X {p})
  <2>1. Waiters(id) \subseteq Procs
    BY DEF Waiters
  <2>2. Waiters(id)' = Waiters(id) \cup {p}
    BY <1>4
  <2> QED BY <2>1, <2>2, <1>7, <1>8, <1>9, <1>10 DEF Ahead
<1>12. \A k \in IDs \ {id} : Ahead(k)' = Ahead(k)
  <2> TAKE k \in IDs \ {id}
  <2>1. Waiters(k)' = Waiters(k) /\ queue'[k] = queue[k]
    BY <1>2, <1>4
  <2>2. \A a, b \in Procs : Before(a, b, k)' = Before(a, b, k)
    BY <2>1, <1>1 DEF Before
  <2> QED BY <2>1, <2>2 DEF Ahead, Waiters
<1>13. [k \in IDs |-> Waiters(k)]' = [[k \in IDs |-> Waiters(k)] EXCEPT ![id] = @ \cup {p}]
  BY <1>4
<1>14. [k \in IDs |-> Ahead(k)]'
         = [[k \in IDs |-> Ahead(k)] EXCEPT ![id] = @ \cup ([k \in IDs |-> Waiters(k)][id] \X {p})]
  BY <1>11, <1>12
<1>15. [k \in IDs |-> Holders(k)]' = [k \in IDs |-> Holders(k)]
  BY <1>3
<1>16. Semaphore!Cardinality([k \in IDs |-> Holders(k)][id]) = MaxHeld
  BY <1>5, SameCardinality
<1> QED BY <1>13, <1>14, <1>15, <1>16 DEF Semaphore!Wait, Ahead

\* A waiter w of id is out and the others keep their places.
LEMMA Departure ==
  ASSUME NEW id \in IDs, NEW w \in Procs,
         \A k \in IDs : Waiters(k)' = IF k = id THEN Waiters(k) \ {w} ELSE Waiters(k),
         \A k \in IDs : \A a, b \in Waiters(k)' : Before(a, b, k)' = Before(a, b, k)
  PROVE  Semaphore!Departs(w, id)
<1>1. \A k \in IDs : Ahead(k)' = IF k = id THEN {e \in Ahead(k) : w # e[1] /\ w # e[2]} ELSE Ahead(k)
  BY DEF Ahead
<1>2. [k \in IDs |-> Waiters(k)]' = [[k \in IDs |-> Waiters(k)] EXCEPT ![id] = @ \ {w}]
  OBVIOUS
<1>3. [k \in IDs |-> Ahead(k)]'
        = [[k \in IDs |-> Ahead(k)] EXCEPT ![id] = {e \in @ : w # e[1] /\ w # e[2]}]
  BY <1>1
<1> QED BY <1>2, <1>3 DEF Semaphore!Departs, Ahead

\* Closing the channel is the moment the waiter leaves.
LEMMA AbandonSimulates ==
  ASSUME IInv, NEW p \in Procs, Abandon(p)
  PROVE  Semaphore!Leave(p, key[p])
<1> DEFINE id == key[p]
<1>1. id \in IDs /\ p \in Waiters(id)
  BY DEF IInv, TypeOK, Abandon, Waiters
<1>2. \A k \in IDs : Holders(k)' = Holders(k)
  BY DEF IInv, TypeOK, Abandon, Holders
<1>3. \A k \in IDs : Waiters(k)' = IF k = id THEN Waiters(k) \ {p} ELSE Waiters(k)
  BY DEF IInv, TypeOK, Abandon, Waiters
<1>4. \A k \in IDs : \A a, b \in Waiters(k)' : Before(a, b, k)' = Before(a, b, k)
  BY DEF Abandon, Before
<1>5. Semaphore!Departs(p, id)
  BY <1>1, <1>3, <1>4, Departure
<1>6. [k \in IDs |-> Holders(k)]' = [k \in IDs |-> Holders(k)]
  BY <1>2
<1>7. p \in [k \in IDs |-> Waiters(k)][id]
  BY <1>1
<1> QED BY <1>5, <1>6, <1>7 DEF Semaphore!Leave

\* Taking an abandoned entry out of the queue is invisible.
LEMMA CleanupSimulates ==
  ASSUME IInv, NEW p \in Procs, Cleanup(p)
  PROVE  UNCHANGED Semaphore!vars
<1> DEFINE id == key[p]
           q == queue[id]
<1> USE DEF IInv
<1>1. /\ id \in IDs /\ q \in Seq(Procs) /\ Len(q) \in Nat
      /\ recv = NoProc /\ recv' = NoProc /\ pc[p] = "abandoned"
  BY LenProperties DEF TypeOK, Cleanup, MutexInv
<1>2. \A k \in IDs : Holders(k)' = Holders(k)
  BY DEF TypeOK, Cleanup, Holders
<1>3. \A k \in IDs : Waiters(k)' = Waiters(k) /\ p \notin Waiters(k) /\ Waiters(k) \subseteq Procs
  BY DEF TypeOK, Cleanup, Waiters
<1>4. ASSUME NEW i \in 1..Len(q), q[i] = p, queue' = [queue EXCEPT ![id] = RemoveAt(q, i)]
      PROVE  \A k \in IDs : \A a, b \in Waiters(k) : Before(a, b, k)' = Before(a, b, k)
  <2> DEFINE r == RemoveAt(q, i)
  <2>1. /\ r \in Seq(Procs) /\ Len(r) = Len(q) - 1
        /\ \A j \in 1..(Len(q) - 1) : r[j] = IF j < i THEN q[j] ELSE q[j + 1]
    BY <1>1, RemoveAtFacts
  <2>2. \A k \in IDs : queue'[k] = IF k = id THEN r ELSE queue[k]
    BY <1>4 DEF TypeOK
  <2> HIDE DEF r
  <2> TAKE k \in IDs
  <2> TAKE a, b \in Waiters(k)
  <2>3. CASE k # id
    BY <2>3, <2>2, <1>1 DEF Before
  <2>4. CASE k = id
    <3> HIDE DEF q
    <3>1. a # p /\ b # p /\ a # NoProc /\ b # NoProc
      BY <1>3, ProcsAssumption
    <3>2. Before(a, b, k) <=> \E m, n \in 1..Len(q) : m < n /\ q[m] = a /\ q[n] = b
      BY <1>1, <2>4, <3>1 DEF Before, q
    <3>3. Before(a, b, k)' <=> \E m, n \in 1..Len(r) : m < n /\ r[m] = a /\ r[n] = b
      BY <1>1, <2>2, <2>4, <3>1 DEF Before
    <3>4. ASSUME NEW m \in 1..Len(r), NEW n \in 1..Len(r), m < n, r[m] = a, r[n] = b
          PROVE  \E x, y \in 1..Len(q) : x < y /\ q[x] = a /\ q[y] = b
      <4> DEFINE x == IF m < i THEN m ELSE m + 1
                 y == IF n < i THEN n ELSE n + 1
      <4>1. x \in 1..Len(q) /\ y \in 1..Len(q) /\ x < y
        BY <1>1, <2>1, <3>4
      <4>2. q[x] = a /\ q[y] = b
        BY <1>1, <2>1, <3>4
      <4> QED BY <4>1, <4>2
    <3>5. ASSUME NEW m \in 1..Len(q), NEW n \in 1..Len(q), m < n, q[m] = a, q[n] = b
          PROVE  \E x, y \in 1..Len(r) : x < y /\ r[x] = a /\ r[y] = b
      <4> DEFINE x == IF m < i THEN m ELSE m - 1
                 y == IF n < i THEN n ELSE n - 1
      <4>1. m # i /\ n # i
        BY <3>1, <3>5, <1>4
      <4>2. x \in 1..Len(r) /\ y \in 1..Len(r) /\ x < y
        BY <1>1, <2>1, <3>5, <4>1
      <4>3. r[x] = a /\ r[y] = b
        BY <1>1, <2>1, <3>5, <4>1
      <4> QED BY <4>2, <4>3
    <3> QED BY <3>2, <3>3, <3>4, <3>5 DEF Before
  <2> QED BY <2>3, <2>4
<1>5. ASSUME queue' = queue
      PROVE  \A k \in IDs : \A a, b \in Waiters(k) : Before(a, b, k)' = Before(a, b, k)
  BY <1>1, <1>5 DEF Before
<1>6. \A k \in IDs : Ahead(k)' = Ahead(k)
  BY <1>3, <1>4, <1>5 DEF Cleanup, Ahead
<1> QED BY <1>2, <1>3, <1>6, Unnoticed

\* A turn of Unlock's loop gives the slot back when nobody waits; when it takes
\* a channel off the queue its owner stays the first in line.
LEMMA UnlockTurnSimulates ==
  ASSUME IInv, NEW p \in Procs, UnlockTurn(p),
         \/ pc[p] = "held" /\ mx = NoProc
         \/ pc[p] = "unlocking" /\ mx = p /\ pc[recv] = "abandoned"
  PROVE  Semaphore!Release(p, key[p]) \/ UNCHANGED Semaphore!vars
<1> DEFINE id == key[p]
           q == queue[id]
<1> USE DEF IInv
<1>1. /\ id \in IDs /\ q \in Seq(Procs) /\ Len(q) \in Nat /\ p \in Holders(id)
      /\ recv = NoProc \/ pc[recv] # "select"
  BY LenProperties DEF TypeOK, MutexInv, Holders
<1>2. \A k \in IDs : \A w \in Waiters(k) : w \in Procs /\ w # recv /\ w # NoProc
  BY <1>1, ProcsAssumption DEF Waiters
<1>3. CASE q = <<>>
  <2>1. /\ pc' = [pc EXCEPT ![p] = "idle"]
        /\ recv' = NoProc /\ queue' = queue /\ key' = key
    BY <1>3 DEF UnlockTurn
  <2>2. \A k \in IDs : Holders(k)' = IF k = id THEN Holders(k) \ {p} ELSE Holders(k)
    BY <2>1 DEF TypeOK, Holders
  <2>3. \A k \in IDs : Waiters(k)' = Waiters(k)
    BY <2>1 DEF TypeOK, Waiters
  <2>4. \A k \in IDs : \A a, b \in Waiters(k) : Before(a, b, k)' = Before(a, b, k)
    BY <2>1, <1>2 DEF Before
  <2>5. \A k \in IDs : Ahead(k)' = Ahead(k)
    BY <2>3, <2>4 DEF Ahead
  <2>6. Waiters(id) = {}
    BY <1>1, <1>3, NobodyWaits
  <2>7. [k \in IDs |-> Holders(k)]' = [[k \in IDs |-> Holders(k)] EXCEPT ![id] = @ \ {p}]
    BY <2>2
  <2>8. /\ [k \in IDs |-> Waiters(k)]' = [k \in IDs |-> Waiters(k)]
        /\ [k \in IDs |-> Ahead(k)]' = [k \in IDs |-> Ahead(k)]
    BY <2>3, <2>5
  <2>9. p \in [k \in IDs |-> Holders(k)][id] /\ [k \in IDs |-> Waiters(k)][id] = {}
    BY <1>1, <2>6
  <2> QED BY <2>7, <2>8, <2>9 DEF Semaphore!Release, Ahead
<1>4. CASE q # <<>>
  <2> DEFINE h == Head(q)
             r == Tail(q)
  <2>1. /\ queue' = [queue EXCEPT ![id] = r]
        /\ pc' = [pc EXCEPT ![p] = "unlocking"]
        /\ recv' = h /\ key' = key
    BY <1>4 DEF UnlockTurn
  <2>2. /\ h \in Procs /\ r \in Seq(Procs) /\ Len(r) = Len(q) - 1 /\ Len(q) > 0
        /\ \A j \in 1..Len(r) : r[j] = q[j + 1]
        /\ h = q[1]
    BY <1>1, <1>4, HeadTailProperties, EmptySeq
  <2>3. \A k \in IDs : queue'[k] = IF k = id THEN r ELSE queue[k]
    BY <2>1 DEF TypeOK
  <2> HIDE DEF h, r
  <2>4. \A k \in IDs : Holders(k)' = Holders(k) /\ Waiters(k)' = Waiters(k)
    BY <2>1 DEF TypeOK, Holders, Waiters
  <2>5. key[h] = id
    BY <2>2, <1>1 DEF QueueInv
  <2>6. \A k \in IDs : \A a, b \in Waiters(k) : Before(a, b, k)' = Before(a, b, k)
    <3> TAKE k \in IDs
    <3> TAKE a, b \in Waiters(k)
    <3>1. CASE k # id
      <4>1. a # h
        BY <3>1, <2>5 DEF Waiters
      <4> QED BY <4>1, <3>1, <2>1, <2>3, <1>2 DEF Before
    <3>2. CASE k = id
      <4> HIDE DEF q
      <4>1. \A i, j \in 1..Len(q) : q[i] = q[j] => i = j
        BY <1>1 DEF QueueInv, q
      <4>2. Before(a, b, k) <=> \E i, j \in 1..Len(q) : i < j /\ q[i] = a /\ q[j] = b
        BY <3>2, <1>2 DEF Before, q
      <4>3. Before(a, b, k)' <=> \/ a = h /\ b # h
                                 \/ \E i, j \in 1..Len(r) : i < j /\ r[i] = a /\ r[j] = b
        BY <3>2, <2>1, <2>3 DEF Before
      <4>4. ASSUME NEW i \in 1..Len(q), NEW j \in 1..Len(q), i < j, q[i] = a, q[j] = b
            PROVE  Before(a, b, k)'
        <5>1. CASE i = 1
          BY <5>1, <4>1, <4>3, <4>4, <2>2
        <5>2. CASE i # 1
          <6>1. i - 1 \in 1..Len(r) /\ j - 1 \in 1..Len(r) /\ i - 1 < j - 1
            BY <5>2, <4>4, <1>1, <2>2
          <6>2. r[i - 1] = a /\ r[j - 1] = b
            BY <6>1, <4>4, <1>1, <2>2
          <6> QED BY <6>1, <6>2, <4>3
        <5> QED BY <5>1, <5>2
      <4>5. ASSUME a = h, b # h PROVE Before(a, b, k)
        <5>1. PICK j \in 1..Len(q) : q[j] = b
          BY <3>2, <1>2, WaiterPlaces DEF q
        <5>2. 1 \in 1..Len(q) /\ 1 < j
          BY <5>1, <4>5, <1>1, <2>2
        <5> QED BY <5>1, <5>2, <4>2, <4>5, <2>2
      <4>6. ASSUME NEW i \in 1..Len(r), NEW j \in 1..Len(r), i < j, r[i] = a, r[j] = b
            PROVE  Before(a, b, k)
        <5>1. i + 1 \in 1..Len(q) /\ j + 1 \in 1..Len(q) /\ i + 1 < j + 1
          BY <4>6, <1>1, <2>2
        <5> QED BY <5>1, <4>2, <4>6, <2>2
      <4> QED BY <4>2, <4>3, <4>4, <4>5, <4>6 DEF Before
    <3> QED BY <3>1, <3>2
  <2>7. \A k \in IDs : Ahead(k)' = Ahead(k)
    BY <2>4, <2>6 DEF Ahead
  <2> QED BY <2>4, <2>7, Unnoticed
<1> QED BY <1>3, <1>4

\* The caller Unlock receives from is a first waiter, and the slot becomes its own.
LEMMA HandOffSimulates ==
  ASSUME IInv, NEW p \in Procs, HandOff(p)
  PROVE  Semaphore!HandOver(p, key[p])
<1> DEFINE id == key[p]
<1> USE DEF IInv
<1>1. /\ id \in IDs /\ p \in Holders(id) /\ recv \in Waiters(id) /\ recv # p
      /\ recv \in Procs /\ ~Queued(recv) /\ key[recv] = id
  BY ProcsAssumption DEF TypeOK, HandOff, MutexInv, Holders, Waiters
<1>2. \A w \in Procs : pc'[w] = IF w = recv THEN "held" ELSE IF w = p THEN "idle" ELSE pc[w]
  BY <1>1 DEF TypeOK, HandOff
<1>3. \A k \in IDs : Holders(k)' = IF k = id THEN (Holders(k) \ {p}) \cup {recv} ELSE Holders(k)
  <2>1. key' = key /\ pc[p] = "unlocking" /\ pc[recv] = "select"
    BY DEF HandOff
  <2> QED BY <2>1, <1>1, <1>2 DEF Holders
<1>4. \A k \in IDs : Waiters(k)' = IF k = id THEN Waiters(k) \ {recv} ELSE Waiters(k)
  <2>1. key' = key /\ pc[p] = "unlocking" /\ pc[recv] = "select"
    BY DEF HandOff
  <2> QED BY <2>1, <1>1, <1>2 DEF Waiters
<1>5. \A k \in IDs : \A a, b \in Waiters(k)' : Before(a, b, k)' = Before(a, b, k)
  <2> TAKE k \in IDs
  <2> TAKE a, b \in Waiters(k)'
  <2>1. a # recv /\ a # recv'
    BY <1>1, <1>4, ProcsAssumption DEF Waiters, HandOff
  <2> QED BY <2>1 DEF Before, HandOff
<1>6. Semaphore!Departs(recv, id)
  BY <1>1, <1>4, <1>5, Departure
<1>7. \A v \in Waiters(id) : <<v, recv>> \notin Ahead(id)
  BY <1>1 DEF Ahead, Before, Queued
<1>8. recv \in Semaphore!First(id)
  BY <1>1, <1>7 DEF Semaphore!First, Ahead
<1>9. [k \in IDs |-> Holders(k)]'
        = [[k \in IDs |-> Holders(k)] EXCEPT ![id] = (@ \ {p}) \cup {recv}]
  BY <1>3
<1>10. p \in [k \in IDs |-> Holders(k)][id]
  BY <1>1
<1> QED BY <1>6, <1>8, <1>9, <1>10 DEF Semaphore!HandOver

\* Every step of the locker is a step of the semaphore or none.
LEMMA NextSimulates ==
  ASSUME IInv, [Next]_vars
  PROVE  [Semaphore!Next]_(Semaphore!vars)
<1>1. ASSUME NEW p \in Procs, NEW id \in IDs, LockFast(p, id) PROVE Semaphore!Next
  BY <1>1, LockFastSimulates DEF Semaphore!Next
<1>2. ASSUME NEW p \in Procs, NEW id \in IDs, LockEnqueue(p, id) PROVE Semaphore!Next
  BY <1>2, LockEnqueueSimulates DEF Semaphore!Next
<1>3. \A p \in Procs : key[p] \in IDs
  BY DEF IInv, TypeOK
<1>4. ASSUME NEW p \in Procs, Abandon(p) PROVE Semaphore!Next
  BY <1>3, <1>4, AbandonSimulates DEF Semaphore!Next
<1>5. ASSUME NEW p \in Procs, Cleanup(p) PROVE UNCHANGED Semaphore!vars
  BY <1>5, CleanupSimulates
<1>6. ASSUME NEW p \in Procs, Unlock(p) PROVE Semaphore!Next \/ UNCHANGED Semaphore!vars
  <2>1. Semaphore!Release(p, key[p]) \/ UNCHANGED Semaphore!vars
    BY <1>6, UnlockTurnSimulates DEF Unlock
  <2> QED BY <1>3, <2>1 DEF Semaphore!Next
<1>7. ASSUME NEW p \in Procs, SkipAbandoned(p) PROVE Semaphore!Next \/ UNCHANGED Semaphore!vars
  <2>1. Semaphore!Release(p, key[p]) \/ UNCHANGED Semaphore!vars
    BY <1>7, UnlockTurnSimulates DEF SkipAbandoned
  <2> QED BY <1>3, <2>1 DEF Semaphore!Next
<1>8. ASSUME NEW p \in Procs, HandOff(p) PROVE Semaphore!Next
  BY <1>3, <1>8, HandOffSimulates DEF Semaphore!Next
<1>9. ASSUME UNCHANGED vars PROVE UNCHANGED Semaphore!vars
  <2>1. \A k \in IDs : Holders(k)' = Holders(k) /\ Waiters(k)' = Waiters(k) /\ Ahead(k)' = Ahead(k)
    BY <1>9 DEF vars, Holders, Waiters, Ahead, Before
  <2> QED BY <2>1, Unnoticed
<1> QED BY <1>1, <1>2, <1>4, <1>5, <1>6, <1>7, <1>8, <1>9 DEF Next

\* For every number of goroutines, ids, slots and waiters the locker is a
\* first-come first-served semaphore whose waiters may leave: Lock's fast path
\* acquires, its slow path waits, a context that ends leaves, Unlock releases or
\* hands its slot to the first waiter; the mutex, the channels and the clean-up
\* of abandoned entries are stutters.
THEOREM Refinement == Spec => ImplementsSemaphore
BY InitSimulates, NextSimulates, Inductive, PTL DEF Spec, ImplementsSemaphore, Semaphore!Spec
=============================================================================
