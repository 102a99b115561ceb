------------------------ MODULE OutgoingMessagesProofs ------------------------
(***************************************************************************)
(* Proofs about OutgoingMessages for any number of processes and messages   *)
(* and any retry limit.                                                     *)
(***************************************************************************)
EXTENDS OutgoingMessages, TLAPS

\* The connection of a cycle lives only inside a cycle, and owns the lock.
LockInv ==
  \A e \in Engines :
    /\ conn[e] => lock = e /\ pc[e] \in {"locked", "sending", "refresh"}
    /\ pc[e] # "sending" => queue[e] = {}

\* While a process can still send a message of its queue, the message has an
\* attempt left and its row is as the transaction left it, or failed, or gone.
QueueInv ==
  \A e \in Engines : conn[e] => \A m \in queue[e] :
    /\ attempts[m] <= RetryLimit
    /\ row[m].status \in {"pending", "failed", "gone"}
    /\ row[m].status # "gone" => /\ ~row[m].sent
                                 /\ attempts[m] <= row[m].retry

\* The latest attempt of a message is the one a live sender is working on.
SendInv ==
  \A s \in sends :
    /\ s.att \in 1 .. attempts[s.msg]
    /\ ~s.cancelled => /\ pc[s.eng] = "sending"
                       /\ conn[s.eng] => s.att = attempts[s.msg] /\ s.msg \notin queue[s.eng]

\* A message that has a row has spent at most the attempts its retry count
\* allows; a message that never had one has spent none.
BudgetInv ==
  \A m \in Msgs : /\ attempts[m] <= RetryLimit + 1
                  /\ row[m].status = "none" => row[m] = NoRow /\ attempts[m] = 0
                  /\ Exists(row[m]) => attempts[m] <= row[m].retry + 1

IInv == TypeOK /\ LockInv /\ QueueInv /\ SendInv /\ BudgetInv /\ PendingUnsent /\ CheckConstraints

SendType == [eng : Engines, msg : Msgs, att : Attempt, accepted : BOOLEAN, cancelled : BOOLEAN]

-----------------------------------------------------------------------------
(* What the statements do to one row *)

\* The CHECK constraints of one row.
Consistent(r) ==
  /\ r.status = "pending" => ~r.fired /\ ~r.sent
  /\ r.status = "sending" => r.deadline # "null" /\ r.fired /\ ~r.sent
  /\ r.status \in Reported => ~r.fired /\ r.sent

\* A change that may be made without the lock: it starts no attempt, makes no
\* row and makes no message pending, and it marks none as sent that waits for
\* its turn in a queue.
Harmless(r, q) ==
  /\ q \in RowType /\ Consistent(q)
  /\ q.status = "none" => q = r
  /\ q.status = "pending" => r.status = "pending"
  /\ Exists(q) => Exists(r) /\ q.retry = r.retry
  /\ r.status \in {"pending", "failed", "gone"} =>
       /\ q.status \in {"pending", "failed", "gone"}
       /\ q.status # "gone" => (q.sent <=> r.sent)

LEMMA HarmlessStutter ==
  ASSUME NEW r \in RowType, Consistent(r) PROVE Harmless(r, r)
BY DEF Harmless

LEMMA tempFailRow ==
  ASSUME NEW r \in RowType, Consistent(r), NEW pid \in Attempt
  PROVE  Harmless(r, tempFail(r, pid))
<1>1. CASE ~Exists(r)
  BY <1>1, HarmlessStutter DEF tempFail
<1>2. CASE Exists(r)
  <2> DEFINE q == tempFail(r, pid)
  <2>1. /\ q \in RowType /\ q.status = "failed" /\ q.retry = r.retry /\ q.sent = r.sent
    BY <1>2 DEF tempFail, Coalesce, RowType, Status
  <2> QED
    BY <1>2, <2>1 DEF Harmless, Consistent, Reported, Exists
<1> QED
  BY <1>1, <1>2

LEMMA permFailRow ==
  ASSUME NEW r \in RowType, Consistent(r), NEW pid \in Attempt
  PROVE  Harmless(r, permFail(r, pid))
<1>1. CASE ~Exists(r)
  BY <1>1, HarmlessStutter DEF permFail
<1>2. CASE Exists(r)
  <2> DEFINE q == permFail(r, pid)
  <2>1. /\ q \in RowType /\ q.status = "failed" /\ q.retry = r.retry /\ q.sent = r.sent
    BY <1>2 DEF permFail, Coalesce, RowType, Status
  <2> QED
    BY <1>2, <2>1 DEF Harmless, Consistent, Reported, Exists
<1> QED
  BY <1>1, <1>2

LEMMA updateStatusRow ==
  ASSUME NEW r \in RowType, Consistent(r), NEW pid \in Attempt,
         NEW seq \in -1 .. MaxSeq, NEW s \in Reported
  PROVE  Harmless(r, updateStatus(r, pid, seq, s))
<1> DEFINE q == updateStatus(r, pid, seq, s)
<1>1. CASE Exists(r) /\ (seq = -1 \/ r.seq <= seq) /\ r.status \notin {"failed", "pending"}
  <2>1. seq # -1 => seq \in 0 .. MaxSeq
    BY MaxSeqAssumption
  <2>2. /\ q \in RowType /\ q.status = s /\ q.retry = r.retry /\ q.sent = TRUE /\ q.fired = FALSE
    BY <1>1, <2>1 DEF updateStatus, Coalesce, RowType, Status
  <2> QED
    BY <1>1, <2>2 DEF Harmless, Consistent, Reported, Exists
<1>2. CASE ~(Exists(r) /\ (seq = -1 \/ r.seq <= seq) /\ r.status \notin {"failed", "pending"})
  BY <1>2, HarmlessStutter DEF updateStatus
<1> QED
  BY <1>1, <1>2

LEMMA UpdateMessageStatusRow ==
  ASSUME NEW r \in RowType, Consistent(r), NEW pid \in Attempt,
         NEW seq \in -1 .. MaxSeq, NEW s \in Results
  PROVE  Harmless(r, UpdateMessageStatus(r, pid, seq, s))
<1>1. CASE s = "failed_temp"
  BY <1>1, tempFailRow DEF UpdateMessageStatus
<1>2. CASE s = "failed_perm"
  BY <1>2, permFailRow DEF UpdateMessageStatus
<1>3. CASE s \in Reported
  BY <1>3, updateStatusRow DEF UpdateMessageStatus, Reported
<1> QED
  BY <1>1, <1>2, <1>3 DEF Results

\* The row of a deleted message.
LEMMA GoneRow ==
  /\ Gone \in RowType /\ Gone.status = "gone"
  /\ NoRow \in RowType /\ NoRow.status = "none"
  /\ \A r \in RowType : Harmless(r, Gone)
<1>1. 0 \in 0 .. RetryLimit /\ 0 \in 0 .. MaxSeq /\ 0 \in Attempt
  BY RetryLimitAssumption, MaxSeqAssumption DEF Attempt
<1>2. NoRow \in RowType /\ NoRow.status = "none"
  BY <1>1 DEF NoRow, RowType, Status
<1>3. Gone \in RowType /\ Gone.status = "gone"
  BY <1>1 DEF NoRow, Gone, RowType, Status
<1> QED
  BY <1>2, <1>3 DEF Harmless, Consistent, Reported, Exists

-----------------------------------------------------------------------------
(* Steps that change rows without the lock *)

LEMMA HarmlessStep ==
  ASSUME IInv,
         row' = [m \in Msgs |-> row'[m]], \A m \in Msgs : Harmless(row[m], row'[m]),
         sends' \subseteq sends,
         refresh' \in [Engines -> SUBSET [msg : Msgs, pid : Attempt]],
         UNCHANGED <<lock, leaked, lockIdle, pc, conn, queue, attempts, accepted>>
  PROVE  IInv'
<1> USE DEF IInv
<1>1. \A m \in Msgs : row'[m] \in RowType
  BY DEF Harmless
<1>2. TypeOK'
  <2>1. row' \in [Msgs -> RowType]
    BY <1>1
  <2> QED
    BY <2>1 DEF TypeOK
<1>3. LockInv' /\ SendInv'
  BY DEF LockInv, SendInv
<1>4. QueueInv'
  <2> SUFFICES ASSUME NEW e \in Engines, conn[e], NEW m \in queue[e]
               PROVE  /\ attempts[m] <= RetryLimit
                      /\ row'[m].status \in {"pending", "failed", "gone"}
                      /\ row'[m].status # "gone" => ~row'[m].sent /\ attempts[m] <= row'[m].retry
    BY DEF QueueInv
  <2>1. /\ m \in Msgs /\ attempts[m] <= RetryLimit
        /\ row[m].status \in {"pending", "failed", "gone"}
        /\ row[m].status # "gone" => ~row[m].sent /\ attempts[m] <= row[m].retry
    BY DEF QueueInv, TypeOK
  <2>2. Harmless(row[m], row'[m])
    BY <2>1
  <2> QED
    BY <2>1, <2>2 DEF Harmless, Exists
<1>5. BudgetInv'
  BY DEF BudgetInv, Harmless
<1>6. PendingUnsent'
  BY DEF PendingUnsent, Harmless, Exists
<1>7. CheckConstraints'
  BY DEF CheckConstraints, Harmless, Consistent
<1> QED
  BY <1>2, <1>3, <1>4, <1>5, <1>6, <1>7

\* The CHECK constraints hold of every row.
LEMMA RowFacts ==
  ASSUME IInv, NEW m \in Msgs PROVE row[m] \in RowType /\ Consistent(row[m])
BY DEF IInv, TypeOK, CheckConstraints, Consistent

\* One row is changed, with a harmless value.
LEMMA OneRow ==
  ASSUME IInv, NEW m \in Msgs, NEW q, Harmless(row[m], q), row' = [row EXCEPT ![m] = q]
  PROVE  /\ row' = [n \in Msgs |-> row'[n]]
         /\ \A n \in Msgs : Harmless(row[n], row'[n])
<1>1. row \in [Msgs -> RowType]
  BY DEF IInv, TypeOK
<1>2. \A n \in Msgs : row'[n] = IF n = m THEN q ELSE row[n]
  BY <1>1
<1>3. \A n \in Msgs : Harmless(row[n], row[n])
  BY RowFacts, HarmlessStutter
<1> QED
  BY <1>1, <1>2, <1>3

LEMMA DeleteRowStep ==
  ASSUME IInv, NEW m \in Msgs, DeleteRow(m)
  PROVE  IInv' /\ \A n \in Msgs : Harmless(row[n], row'[n])
<1>1. Harmless(row[m], Gone)
  BY RowFacts, GoneRow
<1> QED
  BY <1>1, OneRow, HarmlessStep DEF DeleteRow, IInv, TypeOK

LEMMA TimeStep ==
  ASSUME IInv, NEW m \in Msgs, DeadlinePasses(m) \/ RetryTimePasses(m)
  PROVE  IInv' /\ \A n \in Msgs : Harmless(row[n], row'[n])
<1>1. row[m] \in RowType /\ Consistent(row[m])
  BY RowFacts
<1>2. CASE DeadlinePasses(m)
  <2> DEFINE q == [row[m] EXCEPT !.deadline = "past"]
  <2>1. /\ q \in RowType /\ q.status = row[m].status /\ q.retry = row[m].retry
        /\ q.sent = row[m].sent /\ q.fired = row[m].fired /\ q.deadline = "past"
    BY <1>1 DEF RowType
  <2>2. row[m].status # "none"
    BY <1>2 DEF DeadlinePasses, IInv, BudgetInv, NoRow
  <2>3. Harmless(row[m], q)
    <3> HIDE DEF q
    <3> QED
      BY <1>1, <2>1, <2>2 DEF Harmless, Consistent, Exists
  <2>4. row' = [row EXCEPT ![m] = q]
    BY <1>2 DEF DeadlinePasses
  <2> QED
    BY <1>2, <2>3, <2>4, OneRow, HarmlessStep DEF DeadlinePasses, IInv, TypeOK
<1>3. CASE RetryTimePasses(m)
  <2> DEFINE q == [row[m] EXCEPT !.nextRetry = "due"]
  <2>1. /\ q \in RowType /\ q.status = row[m].status /\ q.retry = row[m].retry
        /\ q.sent = row[m].sent /\ q.fired = row[m].fired /\ q.deadline = row[m].deadline
    BY <1>1 DEF RowType
  <2>2. row[m].status # "none"
    BY <1>3 DEF RetryTimePasses, IInv, BudgetInv, NoRow
  <2>3. Harmless(row[m], q)
    <3> HIDE DEF q
    <3> QED
      BY <1>1, <2>1, <2>2 DEF Harmless, Consistent, Exists
  <2>4. row' = [row EXCEPT ![m] = q]
    BY <1>3 DEF RetryTimePasses
  <2> QED
    BY <1>3, <2>3, <2>4, OneRow, HarmlessStep DEF RetryTimePasses, IInv, TypeOK
<1> QED
  BY <1>2, <1>3

LEMMA CallbackStep ==
  ASSUME IInv, NEW m \in Msgs, NEW att \in Attempt, NEW seq \in 0 .. MaxSeq, NEW res \in Results,
         Callback(m, att, seq, res)
  PROVE  IInv' /\ \A n \in Msgs : Harmless(row[n], row'[n])
<1>1. seq \in -1 .. MaxSeq
  BY MaxSeqAssumption
<1>2. Harmless(row[m], UpdateMessageStatus(row[m], att, seq, res))
  BY <1>1, RowFacts, UpdateMessageStatusRow
<1>3. row' = [row EXCEPT ![m] = UpdateMessageStatus(row[m], att, seq, res)]
  BY DEF Callback
<1> QED
  BY <1>2, <1>3, OneRow, HarmlessStep DEF Callback, IInv, TypeOK

LEMMA RecordResultStep ==
  ASSUME IInv, NEW s \in sends, RecordResult(s)
  PROVE  IInv' /\ \A n \in Msgs : Harmless(row[n], row'[n])
<1>1. s.msg \in Msgs /\ s.att \in Attempt /\ 0 \in Attempt /\ 0 \in -1 .. MaxSeq
  BY RetryLimitAssumption, MaxSeqAssumption DEF IInv, TypeOK, Attempt
<1>2. PICK q : Harmless(row[s.msg], q) /\ row' = [row EXCEPT ![s.msg] = q]
  <2>1. CASE row' = [row EXCEPT ![s.msg] = tempFail(@, 0)]
    <3>1. Harmless(row[s.msg], tempFail(row[s.msg], 0))
      BY <1>1, RowFacts, tempFailRow
    <3> QED
      BY <2>1, <3>1
  <2>2. CASE \E res \in Results : row' = [row EXCEPT ![s.msg] =
               UpdateMessageStatus(@, IF s.accepted THEN s.att ELSE 0, 0, res)]
    <3>1. PICK res \in Results : row' = [row EXCEPT ![s.msg] =
               UpdateMessageStatus(row[s.msg], IF s.accepted THEN s.att ELSE 0, 0, res)]
      BY <2>2
    <3>2. PICK pid \in Attempt : pid = IF s.accepted THEN s.att ELSE 0
      BY <1>1
    <3>3. Harmless(row[s.msg], UpdateMessageStatus(row[s.msg], pid, 0, res))
      BY <1>1, RowFacts, UpdateMessageStatusRow
    <3> QED
      BY <3>1, <3>2, <3>3
  <2> QED
    BY <2>1, <2>2 DEF RecordResult
<1>3. /\ row' = [n \in Msgs |-> row'[n]]
      /\ \A n \in Msgs : Harmless(row[n], row'[n])
  BY <1>1, <1>2, OneRow
<1> QED
  BY <1>3, HarmlessStep DEF RecordResult, IInv, TypeOK

LEMMA RefreshStep ==
  ASSUME IInv, NEW e \in Engines, NEW x \in refresh[e], Refresh(e, x)
  PROVE  IInv' /\ \A n \in Msgs : Harmless(row[n], row'[n])
<1>1. x.msg \in Msgs /\ x.pid \in Attempt /\ -1 \in -1 .. MaxSeq
  BY MaxSeqAssumption DEF IInv, TypeOK
<1>2. /\ row' = [n \in Msgs |-> row'[n]]
      /\ \A n \in Msgs : Harmless(row[n], row'[n])
  <2>1. CASE UNCHANGED row
    BY <2>1, RowFacts, HarmlessStutter DEF IInv, TypeOK
  <2>2. ASSUME NEW res \in Reported \cup {"failed_perm"},
               row' = [row EXCEPT ![x.msg] = UpdateMessageStatus(@, x.pid, -1, res)]
        PROVE  /\ row' = [n \in Msgs |-> row'[n]]
               /\ \A n \in Msgs : Harmless(row[n], row'[n])
    <3>1. Harmless(row[x.msg], UpdateMessageStatus(row[x.msg], x.pid, -1, res))
      BY <1>1, RowFacts, UpdateMessageStatusRow DEF Results
    <3> QED
      BY <1>1, <2>2, <3>1, OneRow
  <2> QED
    BY <2>1, <2>2 DEF Refresh
<1>3. refresh' \in [Engines -> SUBSET [msg : Msgs, pid : Attempt]]
  BY DEF Refresh, IInv, TypeOK
<1> QED
  BY <1>2, <1>3, HarmlessStep DEF Refresh, IInv, TypeOK

-----------------------------------------------------------------------------
(* Steps of the cycle that leave the table alone *)

\* Such a step only has to keep what ties processes to messages.
LEMMA TableKept ==
  ASSUME IInv, UNCHANGED <<row, attempts>>, TypeOK', LockInv', SendInv',
         \A e \in Engines : conn'[e] => queue'[e] = {} \/ (conn[e] /\ queue'[e] \subseteq queue[e])
  PROVE  IInv'
<1>1. QueueInv'
  BY DEF IInv, QueueInv
<1>2. BudgetInv' /\ PendingUnsent' /\ CheckConstraints'
  BY DEF IInv, BudgetInv, PendingUnsent, CheckConstraints
<1> QED
  BY <1>1, <1>2 DEF IInv

LEMMA StartCycleStep ==
  ASSUME IInv, NEW e \in Engines, StartCycle(e) PROVE IInv'
<1>1. \A f \in Engines : conn'[f] => conn[f] /\ lock' = lock
  <2>1. CASE lock # NoEngine /\ lockIdle
    BY <2>1 DEF StartCycle, IInv, LockInv, TypeOK
  <2>2. CASE ~(lock # NoEngine /\ lockIdle)
    BY <2>2 DEF StartCycle
  <2> QED
    BY <2>1, <2>2
<1>2. TypeOK'
  BY DEF StartCycle, IInv, TypeOK
<1>3. \A f \in Engines : pc'[f] = IF f = e THEN "start" ELSE pc[f]
  BY DEF StartCycle, IInv, TypeOK
<1>4. pc[e] = "idle" /\ queue' = queue /\ sends' = sends /\ row' = row /\ attempts' = attempts
  BY DEF StartCycle
<1>5. LockInv' /\ SendInv'
  BY <1>1, <1>3, <1>4 DEF IInv, LockInv, SendInv, TypeOK
<1> QED
  BY <1>1, <1>2, <1>4, <1>5, TableKept

LEMMA TryLockStep ==
  ASSUME IInv, NEW e \in Engines, TryLock(e) PROVE IInv'
<1>1. TypeOK'
  BY DEF TryLock, IInv, TypeOK
<1>2. pc[e] = "start" /\ queue' = queue /\ sends' = sends /\ row' = row /\ attempts' = attempts
  BY DEF TryLock
<1>3. queue[e] = {} /\ ~conn[e] /\ \A s \in sends : s.eng = e => s.cancelled
  BY <1>2 DEF IInv, LockInv, SendInv
<1>4. \A f \in Engines : f # e => pc'[f] = pc[f] /\ (conn'[f] <=> conn[f])
  BY DEF TryLock, IInv, TypeOK
<1>5. \/ lock' = e /\ pc'[e] = "locked" /\ (lock = NoEngine \/ lock = e)
      \/ lock' = lock /\ pc'[e] = "idle" /\ ~conn'[e]
  BY <1>3 DEF TryLock, IInv, TypeOK
<1>6. LockInv'
  BY <1>2, <1>3, <1>4, <1>5, EnginesAssumption DEF IInv, LockInv
<1>7. SendInv'
  BY <1>2, <1>3, <1>4 DEF IInv, SendInv, TypeOK
<1> QED
  BY <1>1, <1>2, <1>3, <1>4, <1>6, <1>7, TableKept

LEMMA LeakLockStep ==
  ASSUME IInv, NEW e \in Engines, LeakLock(e) PROVE IInv'
<1>1. TypeOK'
  BY DEF LeakLock, IInv, TypeOK
<1>2. \A f \in Engines : ~conn[f]
  BY EnginesAssumption DEF LeakLock, IInv, LockInv
<1>3. \A f \in Engines : f # e => pc'[f] = pc[f]
  BY DEF LeakLock, IInv, TypeOK
<1>4. LockInv' /\ SendInv'
  BY <1>2, <1>3 DEF LeakLock, IInv, LockInv, SendInv, TypeOK
<1> QED
  BY <1>1, <1>2, <1>4, TableKept DEF LeakLock

\* The end of a cycle, after it was prepared or before.
LEMMA UnlockStep ==
  ASSUME IInv, NEW e \in Engines, PrepareFails(e) \/ EndCycle(e) PROVE IInv'
<1>1. /\ pc[e] \in {"locked", "refresh"} /\ pc' = [pc EXCEPT ![e] = "idle"]
      /\ conn' = [conn EXCEPT ![e] = FALSE] /\ Unlock(e)
      /\ UNCHANGED <<row, leaked, queue, sends, refresh, attempts, accepted>>
  BY DEF PrepareFails, EndCycle
<1>2. lock' = lock \/ (lock = e /\ lock' = NoEngine)
  BY <1>1 DEF Unlock
<1>3. lock' \in Engines \cup {NoEngine} /\ lockIdle' \in BOOLEAN
  BY <1>1 DEF Unlock, IInv, TypeOK
<1>4. TypeOK'
  BY <1>1, <1>3 DEF IInv, TypeOK
<1>5. \A f \in Engines : f # e => pc'[f] = pc[f] /\ (conn'[f] <=> conn[f])
  BY <1>1 DEF IInv, TypeOK
<1>6. pc'[e] = "idle" /\ ~conn'[e]
  BY <1>1 DEF IInv, TypeOK
<1>7. LockInv'
  BY <1>1, <1>2, <1>5, <1>6 DEF IInv, LockInv
<1>8. SendInv'
  BY <1>1, <1>5, <1>6 DEF IInv, SendInv, TypeOK
<1> QED
  BY <1>1, <1>4, <1>5, <1>6, <1>7, <1>8, TableKept

LEMMA CycleTimesOutStep ==
  ASSUME IInv, NEW e \in Engines, CycleTimesOut(e) PROVE IInv'
<1>1. /\ pc' = [pc EXCEPT ![e] = "idle"] /\ queue' = [queue EXCEPT ![e] = {}]
      /\ conn' = [conn EXCEPT ![e] = FALSE] /\ Unlock(e)
      /\ UNCHANGED <<row, leaked, refresh, attempts, accepted>>
  BY DEF CycleTimesOut
<1>2. lock' = lock \/ (lock = e /\ lock' = NoEngine)
  BY <1>1 DEF Unlock
<1>3. lock' \in Engines \cup {NoEngine} /\ lockIdle' \in BOOLEAN
  BY <1>1 DEF Unlock, IInv, TypeOK
<1>4. \A s \in sends' : \E t \in sends :
        /\ s \in SendType /\ s.eng = t.eng /\ s.msg = t.msg /\ s.att = t.att
        /\ IF t.eng = e THEN s.cancelled ELSE s = t
  <2> SUFFICES ASSUME NEW s \in sends'
               PROVE  \E t \in sends :
                        /\ s \in SendType /\ s.eng = t.eng /\ s.msg = t.msg /\ s.att = t.att
                        /\ IF t.eng = e THEN s.cancelled ELSE s = t
    OBVIOUS
  <2>1. CASE s \in sends /\ s.eng # e
    BY <2>1 DEF IInv, TypeOK, SendType
  <2>2. ASSUME NEW t \in sends, t.eng = e, s = [t EXCEPT !.cancelled = TRUE]
        PROVE  s \in SendType /\ s.eng = t.eng /\ s.msg = t.msg /\ s.att = t.att /\ s.cancelled
    BY <2>2 DEF IInv, TypeOK, SendType
  <2> QED
    BY <2>1, <2>2 DEF CycleTimesOut
<1>5. TypeOK'
  <2>1. sends' \subseteq SendType
    BY <1>4
  <2> QED
    BY <1>1, <1>3, <2>1 DEF IInv, TypeOK, SendType
<1>6. /\ pc'[e] = "idle" /\ ~conn'[e] /\ queue'[e] = {}
      /\ \A f \in Engines : f # e => /\ pc'[f] = pc[f] /\ (conn'[f] <=> conn[f])
                                     /\ queue'[f] = queue[f]
  BY <1>1 DEF IInv, TypeOK
<1>7. LockInv'
  BY <1>2, <1>6 DEF IInv, LockInv
<1>8. SendInv'
  <2> SUFFICES ASSUME NEW s \in sends'
               PROVE  /\ s.att \in 1 .. attempts[s.msg]
                      /\ ~s.cancelled => /\ pc'[s.eng] = "sending"
                                         /\ conn'[s.eng] => s.att = attempts[s.msg] /\ s.msg \notin queue'[s.eng]
    BY <1>1 DEF SendInv
  <2>1. PICK t \in sends : /\ s.eng = t.eng /\ s.msg = t.msg /\ s.att = t.att
                           /\ IF t.eng = e THEN s.cancelled ELSE s = t
    BY <1>4
  <2>2. t.att \in 1 .. attempts[t.msg] /\ t.eng \in Engines
    BY DEF IInv, SendInv, TypeOK
  <2>3. CASE t.eng = e
    BY <2>1, <2>2, <2>3
  <2>4. CASE t.eng # e
    BY <1>6, <2>1, <2>2, <2>4 DEF IInv, SendInv
  <2> QED
    BY <2>3, <2>4
<1> QED
  BY <1>1, <1>5, <1>6, <1>7, <1>8, TableKept

LEMMA SetSendingFailsStep ==
  ASSUME IInv, NEW e \in Engines, NEW m \in Msgs, SetSendingFails(e, m) PROVE IInv'
<1>1. TypeOK'
  BY DEF SetSendingFails, IInv, TypeOK
<1>2. \A f \in Engines : queue'[f] \subseteq queue[f]
  BY DEF SetSendingFails, IInv, TypeOK
<1>3. LockInv'
  BY <1>2 DEF SetSendingFails, IInv, LockInv
<1>4. SendInv'
  BY <1>2 DEF SetSendingFails, IInv, SendInv, TypeOK
<1> QED
  BY <1>1, <1>2, <1>3, <1>4, TableKept DEF SetSendingFails

LEMMA ProviderAcceptsStep ==
  ASSUME IInv, NEW s \in sends, ProviderAccepts(s) PROVE IInv'
<1> DEFINE t == [s EXCEPT !.accepted = TRUE]
<1>1. /\ s \in SendType
      /\ t \in SendType
      /\ t.eng = s.eng /\ t.msg = s.msg /\ t.att = s.att /\ t.cancelled = s.cancelled
  BY DEF IInv, TypeOK, SendType
<1>2. sends' = (sends \ {s}) \cup {t}
  BY DEF ProviderAccepts
<1> HIDE DEF t
<1>3. TypeOK'
  <2>1. accepted' \in [Msgs -> SUBSET Attempt]
    BY <1>1 DEF ProviderAccepts, IInv, TypeOK
  <2> QED
    BY <1>1, <1>2, <2>1 DEF ProviderAccepts, IInv, TypeOK, SendType
<1>4. LockInv'
  BY DEF ProviderAccepts, IInv, LockInv
<1>5. SendInv'
  BY <1>1, <1>2 DEF ProviderAccepts, IInv, SendInv
<1> QED
  BY <1>3, <1>4, <1>5, TableKept DEF ProviderAccepts

LEMMA ResultLostStep ==
  ASSUME IInv, NEW s \in sends, ResultLost(s) PROVE IInv'
<1>1. TypeOK' /\ LockInv' /\ SendInv'
  BY DEF ResultLost, IInv, TypeOK, LockInv, SendInv
<1> QED
  BY <1>1, TableKept DEF ResultLost

LEMMA FinishSendsStep ==
  ASSUME IInv, NEW e \in Engines, FinishSends(e) PROVE IInv'
<1>1. refresh' \in [Engines -> SUBSET [msg : Msgs, pid : Attempt]]
  <2>1. PICK stuck \in SUBSET Msgs :
          refresh' = [refresh EXCEPT ![e] = {[msg |-> m, pid |-> row[m].pid] : m \in stuck}]
    BY DEF FinishSends
  <2>2. \A m \in Msgs : row[m].pid \in Attempt
    BY DEF IInv, TypeOK, RowType
  <2> QED
    BY <2>1, <2>2 DEF IInv, TypeOK
<1>2. TypeOK'
  BY <1>1 DEF FinishSends, IInv, TypeOK
<1>3. \A f \in Engines : pc'[f] = IF f = e THEN "refresh" ELSE pc[f]
  BY DEF FinishSends, IInv, TypeOK
<1>4. LockInv'
  BY <1>3 DEF FinishSends, IInv, LockInv
<1>5. SendInv'
  BY <1>3 DEF FinishSends, IInv, SendInv, TypeOK
<1> QED
  BY <1>2, <1>4, <1>5, TableKept DEF FinishSends

LEMMA CrashStep ==
  ASSUME IInv, NEW e \in Engines, Crash(e) PROVE IInv'
<1>1. TypeOK'
  BY DEF Crash, IInv, TypeOK
<1>2. /\ pc'[e] = "idle" /\ ~conn'[e] /\ queue'[e] = {}
      /\ \A f \in Engines : f # e => /\ pc'[f] = pc[f] /\ (conn'[f] <=> conn[f])
                                     /\ queue'[f] = queue[f]
  BY DEF Crash, IInv, TypeOK
<1>3. lock' = lock \/ lock = e
  BY DEF Crash
<1>4. LockInv'
  BY <1>2, <1>3 DEF IInv, LockInv
<1>5. SendInv'
  BY <1>2 DEF Crash, IInv, SendInv, TypeOK
<1> QED
  BY <1>1, <1>2, <1>4, <1>5, TableKept DEF Crash

LEMMA LockIdlesStep ==
  ASSUME IInv, LockIdles PROVE IInv'
<1>1. TypeOK' /\ LockInv' /\ SendInv'
  BY DEF LockIdles, IInv, TypeOK, LockInv, SendInv
<1> QED
  BY <1>1, TableKept DEF LockIdles

-----------------------------------------------------------------------------
(* New rows, the transaction and the start of a send *)

LEMMA CreateStep ==
  ASSUME IInv, NEW m \in Msgs, Create(m) PROVE IInv'
<1> DEFINE q == [NoRow EXCEPT !.status = "pending"]
<1>1. /\ q \in RowType /\ q.status = "pending" /\ ~q.fired /\ ~q.sent /\ q.retry = 0
  BY GoneRow DEF NoRow, RowType, Status
<1>2. row[m].status = "none" /\ attempts[m] = 0
  BY GoneRow DEF Create, IInv, BudgetInv
<1>3. \A n \in Msgs : row'[n] = IF n = m THEN q ELSE row[n]
  BY DEF Create, IInv, TypeOK
<1>4. UNCHANGED <<lock, leaked, lockIdle, pc, conn, queue, sends, refresh, attempts, accepted>>
  BY DEF Create
<1>5. row' \in [Msgs -> RowType]
  BY <1>1 DEF Create, IInv, TypeOK
<1> HIDE DEF q
<1>6. TypeOK'
  BY <1>4, <1>5 DEF IInv, TypeOK
<1>7. LockInv' /\ SendInv'
  BY <1>4 DEF IInv, LockInv, SendInv
<1>8. QueueInv'
  <2>1. \A e \in Engines : conn[e] => m \notin queue[e]
    BY <1>2 DEF IInv, QueueInv
  <2> QED
    BY <1>3, <1>4, <2>1 DEF IInv, QueueInv, TypeOK
<1>9. BudgetInv' /\ PendingUnsent'
  BY <1>1, <1>2, <1>3, <1>4, RetryLimitAssumption DEF IInv, BudgetInv, PendingUnsent, Exists
<1>10. CheckConstraints'
  BY <1>1, <1>3 DEF IInv, CheckConstraints, Reported
<1> QED
  BY <1>6, <1>7, <1>8, <1>9, <1>10 DEF IInv

\* The states between which the transaction moves a message that is not sent.
Unsent == {"failed", "pending", "bundled", "gone"}

\* What the transaction may do to a row: a message becomes pending only when its
\* retry is counted.
Kept(r, q) ==
  /\ q \in RowType /\ Consistent(q)
  /\ q.status = "none" => q = r
  /\ Exists(q) => Exists(r) /\ r.retry <= q.retry
  /\ q.status = "pending" => r.status = "pending" \/ r.retry + 1 <= q.retry
  /\ r.status \in Unsent => q.status \in Unsent

LEMMA KeptTrans ==
  ASSUME NEW r \in RowType, NEW q \in RowType, NEW t \in RowType, Kept(r, q), Kept(q, t)
  PROVE  Kept(r, t)
<1>1. r.retry \in Nat /\ q.retry \in Nat /\ t.retry \in Nat
  BY DEF RowType
<1>2. Exists(t) => Exists(r) /\ r.retry <= t.retry
  BY <1>1 DEF Kept
<1>3. t.status = "pending" => r.status = "pending" \/ r.retry + 1 <= t.retry
  BY <1>1 DEF Kept, Exists
<1> QED
  BY <1>2, <1>3 DEF Kept

LEMMA KeptStutter ==
  ASSUME NEW r \in RowType, Consistent(r) PROVE Kept(r, r)
<1>1. r.retry <= r.retry
  BY DEF RowType
<1> QED
  BY <1>1 DEF Kept

LEMMA failUnreachableRow ==
  ASSUME NEW r \in RowType, Consistent(r) PROVE Kept(r, failUnreachable(r))
<1>1. CASE r.status = "pending"
  <2> DEFINE q == failUnreachable(r)
  <2>1. q \in RowType /\ q.status = "failed" /\ q.retry = r.retry
    BY <1>1 DEF failUnreachable, RowType, Status
  <2>2. r.retry <= r.retry
    BY DEF RowType
  <2> QED
    BY <1>1, <2>1, <2>2 DEF Kept, Consistent, Reported, Exists, Unsent
<1>2. CASE r.status # "pending"
  BY <1>2, KeptStutter DEF failUnreachable
<1> QED
  BY <1>1, <1>2

LEMMA sendDeadlineExpiredRow ==
  ASSUME NEW r \in RowType, Consistent(r) PROVE Kept(r, sendDeadlineExpired(r))
<1>1. CASE r.status = "sending" /\ r.deadline = "past"
  <2> DEFINE q == sendDeadlineExpired(r)
  <2>1. q \in RowType /\ q.status = "failed" /\ q.retry = r.retry
    BY <1>1 DEF sendDeadlineExpired, RowType, Status
  <2>2. r.retry <= r.retry
    BY DEF RowType
  <2> QED
    BY <1>1, <2>1, <2>2 DEF Kept, Consistent, Reported, Exists, Unsent
<1>2. CASE ~(r.status = "sending" /\ r.deadline = "past")
  BY <1>2, KeptStutter DEF sendDeadlineExpired
<1> QED
  BY <1>1, <1>2

LEMMA retryClearRow ==
  ASSUME NEW r \in RowType, Consistent(r) PROVE Kept(r, retryClear(r))
<1>1. CASE r.status = "failed" /\ r.retry >= RetryLimit
  <2> DEFINE q == retryClear(r)
  <2>1. q \in RowType /\ q.status = "failed" /\ q.retry = r.retry
    BY <1>1 DEF retryClear, RowType, Status
  <2>2. r.retry <= r.retry
    BY DEF RowType
  <2> QED
    BY <1>1, <2>1, <2>2 DEF Kept, Consistent, Reported, Exists, Unsent
<1>2. CASE ~(r.status = "failed" /\ r.retry >= RetryLimit)
  BY <1>2, KeptStutter DEF retryClear
<1> QED
  BY <1>1, <1>2

LEMMA retryResetRow ==
  ASSUME NEW r \in RowType, Consistent(r) PROVE Kept(r, retryReset(r))
<1>1. CASE r.status = "failed" /\ r.nextRetry = "due" /\ r.retry < RetryLimit
  <2> DEFINE q == retryReset(r)
  <2>1. /\ r.retry + 1 \in 0 .. RetryLimit /\ r.retry <= r.retry + 1
        /\ 0 \in 0 .. MaxSeq /\ 0 \in Attempt
    BY <1>1, RetryLimitAssumption, MaxSeqAssumption DEF RowType, Attempt
  <2>2. /\ q \in RowType /\ q.status = "pending" /\ q.retry = r.retry + 1
        /\ q.fired = FALSE /\ q.sent = FALSE
    BY <1>1, <2>1 DEF retryReset, RowType, Status
  <2>3. r.retry + 1 <= q.retry /\ r.retry <= q.retry
    BY <2>1, <2>2
  <2> QED
    BY <1>1, <2>2, <2>3 DEF Kept, Consistent, Reported, Exists, Unsent
<1>2. CASE ~(r.status = "failed" /\ r.nextRetry = "due" /\ r.retry < RetryLimit)
  BY <1>2, KeptStutter DEF retryReset
<1> QED
  BY <1>1, <1>2

LEMMA PreparedRows ==
  ASSUME IInv, NEW gone, NEW unreachable, NEW m \in Msgs
  PROVE  Kept(row[m], Prepared(gone, unreachable)[m])
<1>1. row[m] \in RowType /\ Consistent(row[m])
  BY RowFacts
<1>2. CASE m \in gone
  <2>1. Prepared(gone, unreachable)[m] = Gone
    BY <1>2 DEF Prepared
  <2> QED
    BY <2>1, GoneRow DEF Kept, Consistent, Reported, Exists, Unsent
<1>3. CASE m \notin gone
  <2> DEFINE r1 == IF m \in unreachable THEN failUnreachable(row[m]) ELSE row[m]
             r2 == sendDeadlineExpired(r1)
             r3 == retryClear(r2)
             r4 == retryReset(r3)
  <2>1. Prepared(gone, unreachable)[m] = r4
    BY <1>3 DEF Prepared
  <2>2. Kept(row[m], r1)
    BY <1>1, failUnreachableRow, KeptStutter
  <2> HIDE DEF r1
  <2>3. Kept(r1, r2)
    BY <2>2, sendDeadlineExpiredRow DEF Kept
  <2> HIDE DEF r2
  <2>4. Kept(r2, r3)
    BY <2>3, retryClearRow DEF Kept
  <2> HIDE DEF r3
  <2>5. Kept(r3, r4)
    BY <2>4, retryResetRow DEF Kept
  <2> HIDE DEF r4
  <2>6. r1 \in RowType /\ r2 \in RowType /\ r3 \in RowType /\ r4 \in RowType
    BY <2>2, <2>3, <2>4, <2>5 DEF Kept
  <2>7. Kept(row[m], r2)
    BY <1>1, <2>2, <2>3, <2>6, KeptTrans
  <2>8. Kept(row[m], r3)
    BY <1>1, <2>4, <2>6, <2>7, KeptTrans
  <2>9. Kept(row[m], r4)
    BY <1>1, <2>5, <2>6, <2>8, KeptTrans
  <2> QED
    BY <2>1, <2>9
<1> QED
  BY <1>2, <1>3

\* After bundling a row is kept, or it is the row of a new bundle.
LEMMA BundledRows ==
  ASSUME IInv, NEW t, \A m \in Msgs : Kept(row[m], t[m]),
         NEW dups \in SUBSET Msgs, NEW fresh \in SUBSET Msgs, CanFold(t, dups, fresh), NEW m \in Msgs
  PROVE  \/ Kept(row[m], Bundled(t, dups, fresh)[m])
         \/ row[m] = NoRow /\ Bundled(t, dups, fresh)[m] = [NoRow EXCEPT !.status = "pending"]
<1> DEFINE q == Bundled(t, dups, fresh)[m]
<1>1. Kept(row[m], t[m]) /\ t[m] \in RowType
  BY DEF Kept
<1>2. CASE m \in dups
  <2>1. q = bundleMessages(t[m]) /\ t[m].status = "pending"
    BY <1>2 DEF Bundled, CanFold
  <2>2. q \in RowType /\ q.status = "bundled" /\ q.retry = t[m].retry
    BY <1>1, <2>1 DEF bundleMessages, RowType, Status
  <2> QED
    BY <1>1, <2>1, <2>2 DEF Kept, Consistent, Reported, Exists, Unsent
<1>3. CASE m \notin dups /\ m \in fresh
  BY <1>1, <1>3, GoneRow DEF Bundled, CanFold, Kept
<1>4. CASE m \notin dups /\ m \notin fresh
  BY <1>1, <1>4 DEF Bundled
<1> QED
  BY <1>2, <1>3, <1>4

LEMMA PrepareTxStep ==
  ASSUME IInv, NEW e \in Engines, PrepareTx(e)
  PROVE  IInv' /\ \A m \in Msgs : row[m].status = "failed" => row'[m].status \in Unsent
<1> DEFINE New == [NoRow EXCEPT !.status = "pending"]
<1>1. /\ pc[e] = "locked" /\ lock = e /\ conn[e] /\ pc' = [pc EXCEPT ![e] = "sending"]
      /\ lockIdle' = FALSE
      /\ UNCHANGED <<lock, leaked, conn, sends, refresh, attempts, accepted>>
  BY DEF PrepareTx, currentQueue
<1>2. PICK q \in SUBSET {m \in Msgs : row'[m].status = "pending"} : queue' = [queue EXCEPT ![e] = q]
  BY DEF PrepareTx, currentQueue
<1>3. row' = [m \in Msgs |-> row'[m]]
  BY DEF PrepareTx, currentQueue, Prepared, Bundled
<1>4. \A m \in Msgs : Kept(row[m], row'[m]) \/ (row[m] = NoRow /\ row'[m] = New)
  <2>1. PICK gone, unreachable :
          LET t == Prepared(gone, unreachable) IN
            \/ row' = t
            \/ \E dups \in (SUBSET Msgs) \ {{}}, fresh \in SUBSET Msgs :
                 CanFold(t, dups, fresh) /\ row' = Bundled(t, dups, fresh)
    BY DEF PrepareTx, currentQueue
  <2> DEFINE t == Prepared(gone, unreachable)
  <2>2. \A m \in Msgs : Kept(row[m], t[m])
    BY PreparedRows
  <2> HIDE DEF t
  <2>3. CASE row' = t
    BY <2>2, <2>3
  <2>4. ASSUME NEW dups \in SUBSET Msgs, NEW fresh \in SUBSET Msgs, CanFold(t, dups, fresh),
               row' = Bundled(t, dups, fresh)
        PROVE  \A m \in Msgs : Kept(row[m], row'[m]) \/ (row[m] = NoRow /\ row'[m] = New)
    BY <2>2, <2>4, BundledRows
  <2> QED
    BY <2>1, <2>3, <2>4 DEF t
<1>5. /\ New \in RowType /\ New.status = "pending" /\ ~New.fired /\ ~New.sent /\ New.retry = 0
  BY GoneRow DEF NoRow, RowType, Status
<1> HIDE DEF New
<1>6. \A m \in Msgs : row'[m] \in RowType /\ Consistent(row'[m])
  BY <1>4, <1>5 DEF Kept, Consistent, Reported
<1>7. TypeOK'
  <2>1. row' \in [Msgs -> RowType]
    BY <1>3, <1>6
  <2>2. queue' \in [Engines -> SUBSET Msgs]
    BY <1>2 DEF IInv, TypeOK
  <2> QED
    BY <1>1, <2>1, <2>2 DEF IInv, TypeOK
<1>8. /\ pc'[e] = "sending" /\ queue'[e] = q
      /\ \A f \in Engines : f # e => pc'[f] = pc[f] /\ queue'[f] = queue[f] /\ ~conn[f]
  BY <1>1, <1>2 DEF IInv, TypeOK, LockInv
<1>9. LockInv'
  BY <1>1, <1>8 DEF IInv, LockInv
<1>10. SendInv'
  <2>1. \A s \in sends : s.eng \in Engines /\ (s.eng = e => s.cancelled)
    BY <1>1 DEF IInv, SendInv, TypeOK
  <2> QED
    BY <1>1, <1>8, <2>1 DEF IInv, SendInv
<1>11. /\ \A m \in Msgs : attempts[m] \in Nat /\ row'[m].retry \in Nat /\ row[m].retry \in Nat
       /\ \A m \in Msgs : row'[m].retry <= RetryLimit
  BY <1>6 DEF IInv, TypeOK, RowType, Attempt
<1>12. \A m \in Msgs : row[m] = NoRow => attempts[m] = 0
  BY GoneRow DEF IInv, BudgetInv
<1>13. BudgetInv'
  <2> SUFFICES ASSUME NEW m \in Msgs
               PROVE  /\ attempts[m] <= RetryLimit + 1
                      /\ row'[m].status = "none" => row'[m] = NoRow /\ attempts[m] = 0
                      /\ Exists(row'[m]) => attempts[m] <= row'[m].retry + 1
    BY <1>1 DEF BudgetInv, Exists
  <2>1. CASE Kept(row[m], row'[m])
    <3>1. attempts[m] <= RetryLimit + 1 /\ row'[m].status = "none" => row'[m] = NoRow /\ attempts[m] = 0
      BY <2>1 DEF IInv, BudgetInv, Kept
    <3>2. Exists(row'[m]) => attempts[m] <= row'[m].retry + 1
      BY <1>11, <2>1 DEF IInv, BudgetInv, Kept
    <3> QED
      BY <3>1, <3>2 DEF IInv, BudgetInv
  <2>2. CASE row[m] = NoRow /\ row'[m] = New
    BY <1>5, <1>11, <1>12, <2>2, RetryLimitAssumption
  <2> QED
    BY <1>4, <2>1, <2>2
<1>14. PendingUnsent'
  <2> SUFFICES ASSUME NEW m \in Msgs, row'[m].status = "pending" PROVE attempts[m] <= row'[m].retry
    BY <1>1 DEF PendingUnsent
  <2>1. CASE Kept(row[m], row'[m])
    BY <1>11, <2>1 DEF IInv, BudgetInv, PendingUnsent, Kept, Exists
  <2>2. CASE row[m] = NoRow /\ row'[m] = New
    BY <1>11, <1>12, <2>2
  <2> QED
    BY <1>4, <2>1, <2>2
<1>15. QueueInv'
  <2> SUFFICES ASSUME NEW m \in q
               PROVE  /\ attempts[m] <= RetryLimit /\ row'[m].status = "pending"
                      /\ ~row'[m].sent /\ attempts[m] <= row'[m].retry
    BY <1>1, <1>8 DEF QueueInv
  <2>1. m \in Msgs /\ row'[m].status = "pending" /\ ~row'[m].sent
    BY <1>2, <1>6 DEF Consistent
  <2>2. attempts[m] <= row'[m].retry
    BY <1>1, <1>14, <2>1 DEF PendingUnsent
  <2>3. attempts[m] <= RetryLimit
    BY <1>11, <2>1, <2>2, RetryLimitAssumption
  <2> QED
    BY <2>1, <2>2, <2>3
<1>16. CheckConstraints'
  BY <1>6 DEF CheckConstraints, Consistent
<1>17. \A m \in Msgs : row[m].status = "failed" => row'[m].status \in Unsent
  BY <1>4, GoneRow DEF Kept, Unsent
<1> QED
  BY <1>7, <1>9, <1>10, <1>13, <1>14, <1>15, <1>16, <1>17 DEF IInv

LEMMA SetSendingStep ==
  ASSUME IInv, NEW e \in Engines, NEW m \in Msgs, SetSending(e, m) PROVE IInv'
<1> DEFINE r == row[m]
           q == setSending(row[m])
           new == NewSend(e, m)
<1>1. /\ pc[e] = "sending" /\ m \in queue[e] /\ conn[e] /\ lock = e
      /\ UNCHANGED <<lock, leaked, pc, conn, refresh, accepted>> /\ lockIdle' = FALSE
      /\ sends' = sends \cup {new}
  BY DEF SetSending, IInv, LockInv
<1>2. /\ attempts[m] <= RetryLimit /\ attempts[m] \in Nat /\ r \in RowType
      /\ r.status \in {"pending", "failed", "gone"}
      /\ r.status # "gone" => ~r.sent /\ attempts[m] <= r.retry
  BY <1>1 DEF IInv, QueueInv, TypeOK, Attempt
<1>3. \A f \in Engines : f # e => ~conn[f]
  BY <1>1 DEF IInv, LockInv
<1>4. /\ \A n \in Msgs : row'[n] = IF n = m THEN q ELSE row[n]
      /\ \A n \in Msgs : attempts'[n] = IF n = m THEN attempts[m] + 1 ELSE attempts[n]
      /\ \A f \in Engines : queue'[f] = IF f = e THEN queue[e] \ {m} ELSE queue[f]
  BY DEF SetSending, IInv, TypeOK
<1>5. attempts[m] + 1 \in Attempt /\ attempts[m] + 1 <= RetryLimit + 1
  BY <1>2, RetryLimitAssumption DEF Attempt
<1>6. /\ q \in RowType
      /\ \/ q.status = "gone"
         \/ /\ q.status = "sending" /\ q.deadline = "set" /\ q.fired /\ ~q.sent
            /\ q.retry = r.retry /\ attempts[m] <= r.retry
  <2>1. 0 \in 0 .. MaxSeq /\ 0 \in Attempt
    BY RetryLimitAssumption, MaxSeqAssumption DEF Attempt
  <2>2. CASE r.status = "gone"
    BY <1>2, <2>2 DEF setSending, Exists
  <2>3. CASE r.status # "gone"
    BY <1>2, <2>1, <2>3 DEF setSending, Exists, RowType, Status
  <2> QED
    BY <2>2, <2>3
<1>7. new \in SendType
  BY <1>5 DEF NewSend, SendType
<1>8. /\ row' \in [Msgs -> RowType] /\ attempts' \in [Msgs -> Attempt]
      /\ queue' \in [Engines -> SUBSET Msgs]
  BY <1>5, <1>6 DEF SetSending, IInv, TypeOK
<1>9. new.eng = e /\ new.msg = m /\ new.att = attempts[m] + 1
  BY DEF NewSend
<1>10. q.status \in {"sending", "gone"}
  BY <1>6
<1> HIDE DEF q, new, r
<1>11. TypeOK'
  BY <1>1, <1>7, <1>8 DEF IInv, TypeOK, SendType
<1>12. LockInv'
  BY <1>1, <1>4 DEF IInv, LockInv
<1>13. QueueInv'
  <2> SUFFICES ASSUME NEW n \in queue[e] \ {m}
               PROVE  row'[n] = row[n] /\ attempts'[n] = attempts[n]
    BY <1>1, <1>3, <1>4 DEF IInv, QueueInv
  <2> QED
    BY <1>1, <1>4 DEF IInv, TypeOK
<1>14. SendInv'
  <2> SUFFICES ASSUME NEW s \in sends'
               PROVE  /\ s.att \in 1 .. attempts'[s.msg]
                      /\ ~s.cancelled => /\ pc'[s.eng] = "sending"
                                         /\ conn'[s.eng] => s.att = attempts'[s.msg] /\ s.msg \notin queue'[s.eng]
    BY DEF SendInv
  <2>1. CASE s = new
    <3>1. attempts'[m] = attempts[m] + 1 /\ m \notin queue'[e]
      BY <1>4
    <3>2. attempts[m] + 1 \in 1 .. attempts[m] + 1
      BY <1>2
    <3> QED
      BY <1>1, <1>9, <2>1, <3>1, <3>2
  <2>2. CASE s \in sends
    <3>1. /\ s.eng \in Engines /\ s.msg \in Msgs /\ s.att \in 1 .. attempts[s.msg]
          /\ (~s.cancelled => pc[s.eng] = "sending") /\ attempts[s.msg] \in Nat
      BY <2>2 DEF IInv, TypeOK, SendInv, Attempt
    <3>2. s.att \in 1 .. attempts'[s.msg]
      BY <1>2, <1>4, <3>1
    <3>3. ASSUME ~s.cancelled, conn[s.eng] PROVE s.att = attempts'[s.msg] /\ s.msg \notin queue'[s.eng]
      <4>1. s.eng = e /\ s.att = attempts[s.msg] /\ s.msg \notin queue[e]
        BY <1>3, <2>2, <3>1, <3>3 DEF IInv, SendInv
      <4>2. s.msg # m
        BY <1>1, <4>1
      <4> QED
        BY <1>4, <3>1, <4>1, <4>2
    <3> QED
      BY <1>1, <3>1, <3>2, <3>3
  <2> QED
    BY <1>1, <2>1, <2>2
<1>15. BudgetInv'
  <2> SUFFICES ASSUME NEW n \in Msgs
               PROVE  /\ attempts'[n] <= RetryLimit + 1
                      /\ row'[n].status = "none" => row'[n] = NoRow /\ attempts'[n] = 0
                      /\ Exists(row'[n]) => attempts'[n] <= row'[n].retry + 1
    BY DEF BudgetInv, Exists
  <2>1. CASE n # m
    BY <1>4, <2>1 DEF IInv, BudgetInv
  <2>2. CASE n = m
    <3>1. row'[n] = q /\ attempts'[n] = attempts[m] + 1
      BY <1>4, <2>2
    <3>2. Exists(q) => attempts[m] + 1 <= q.retry + 1
      <4>1. Exists(q) => q.retry = r.retry /\ attempts[m] <= r.retry /\ r.retry \in Nat
        BY <1>2, <1>6 DEF Exists, RowType
      <4> QED
        BY <1>2, <4>1
    <3> QED
      BY <1>5, <1>10, <3>1, <3>2
  <2> QED
    BY <2>1, <2>2
<1>16. PendingUnsent'
  BY <1>4, <1>10 DEF IInv, PendingUnsent
<1>17. CheckConstraints'
  <2>1. Consistent(q)
    BY <1>6 DEF Consistent, Reported
  <2> QED
    BY <1>4, <2>1 DEF IInv, CheckConstraints, Consistent
<1> QED
  BY <1>11, <1>12, <1>13, <1>14, <1>15, <1>16, <1>17 DEF IInv

-----------------------------------------------------------------------------
(* The invariant is inductive *)

LEMMA InitIInv == Init => IInv
<1> SUFFICES ASSUME Init PROVE IInv
  OBVIOUS
<1>1. 0 \in Attempt /\ 0 <= RetryLimit + 1
  BY RetryLimitAssumption DEF Attempt
<1>2. TypeOK
  BY <1>1, GoneRow DEF Init, TypeOK
<1>3. LockInv /\ QueueInv /\ SendInv
  BY DEF Init, LockInv, QueueInv, SendInv
<1>4. BudgetInv /\ PendingUnsent
  BY <1>1, GoneRow DEF Init, BudgetInv, PendingUnsent, Exists
<1>5. CheckConstraints
  BY GoneRow DEF Init, CheckConstraints, Reported
<1> QED
  BY <1>2, <1>3, <1>4, <1>5 DEF IInv

LEMMA NextIInv == IInv /\ [Next]_vars => IInv'
<1> SUFFICES ASSUME IInv, [Next]_vars PROVE IInv'
  OBVIOUS
<1>1. CASE Next
  <2>1. ASSUME NEW m \in Msgs,
               \/ Create(m)
               \/ DeleteRow(m) \/ DeadlinePasses(m) \/ RetryTimePasses(m)
               \/ \E att \in Attempt, seq \in 0 .. MaxSeq, res \in Results : Callback(m, att, seq, res)
        PROVE  IInv'
    BY <2>1, CreateStep, DeleteRowStep, TimeStep, CallbackStep
  <2>2. ASSUME NEW e \in Engines,
               \/ StartCycle(e) \/ TryLock(e) \/ LeakLock(e) \/ PrepareTx(e) \/ PrepareFails(e)
               \/ \E m \in Msgs : SetSending(e, m) \/ SetSendingFails(e, m)
               \/ FinishSends(e)
               \/ \E x \in refresh[e] : Refresh(e, x)
               \/ EndCycle(e) \/ CycleTimesOut(e) \/ Crash(e)
        PROVE  IInv'
    BY <2>2, StartCycleStep, TryLockStep, LeakLockStep, PrepareTxStep, UnlockStep,
       SetSendingStep, SetSendingFailsStep, FinishSendsStep, RefreshStep, CycleTimesOutStep,
       CrashStep
  <2>3. ASSUME NEW s \in sends, ProviderAccepts(s) \/ RecordResult(s) \/ ResultLost(s)
        PROVE  IInv'
    BY <2>3, ProviderAcceptsStep, RecordResultStep, ResultLostStep
  <2> QED
    BY <1>1, <2>1, <2>2, <2>3, LockIdlesStep DEF Next
<1>2. CASE UNCHANGED vars
  BY <1>2 DEF vars, IInv, TypeOK, LockInv, QueueInv, SendInv, BudgetInv, PendingUnsent, CheckConstraints
<1> QED
  BY <1>1, <1>2

-----------------------------------------------------------------------------
(* The results *)

\* IInv holds in every reachable state, for any processes, messages and limit.
THEOREM Inductive == Spec => []IInv
<1>1. Init => IInv
  BY InitIInv
<1>2. IInv /\ [Next]_vars => IInv'
  BY NextIInv
<1> QED
  BY <1>1, <1>2, PTL DEF Spec

\* The table, the lock and the sends in flight stay well formed; retry_count and
\* the attempts stay within the limit of tempFail and retryReset.
THEOREM TypeCorrect == Spec => []TypeOK
<1>1. IInv => TypeOK
  BY DEF IInv
<1> QED
  BY <1>1, Inductive, PTL

\* No statement of engine/message/db.go, wherever it comes in a cycle or after
\* it, violates a CHECK constraint of outgoing_messages.
THEOREM ConstraintsHold == Spec => []CheckConstraints
<1>1. IInv => CheckConstraints
  BY DEF IInv
<1> QED
  BY <1>1, Inductive, PTL

\* tempFail, retryReset and setSending together start at most RetryLimit + 1
\* sends of a message, whatever crashes, takes over the lock or reports late.
THEOREM BoundedAttempts == Spec => []AttemptsBounded
<1>1. IInv => AttemptsBounded
  BY DEF IInv, BudgetInv, AttemptsBounded
<1> QED
  BY <1>1, Inductive, PTL

\* A message that sendMessage has started is not shown as pending.
THEOREM PendingIsUnsent == Spec => []PendingUnsent
<1>1. IInv => PendingUnsent
  BY DEF IInv
<1> QED
  BY <1>1, Inductive, PTL

\* Only the holder of advisory lock 4912 can start sends.
THEOREM LockedSender == Spec => []SenderHoldsLock
<1>1. IInv => SenderHoldsLock
  BY DEF IInv, LockInv, SenderHoldsLock
<1> QED
  BY <1>1, Inductive, PTL

\* Of two overlapping sends of a message, the earlier one was given up by a cycle
\* that timed out, or belongs to a process whose locked connection was terminated
\* by advLockCleanup during its cycle.
THEOREM OverlapOnlyAfterTakeover == Spec => []SingleFlight
<1>1. ASSUME IInv PROVE SingleFlight
  <2> SUFFICES ASSUME NEW s \in sends, NEW t \in sends, s.msg = t.msg, s.att < t.att
               PROVE  s.cancelled \/ (~conn[s.eng] /\ pc[s.eng] = "sending")
    BY DEF SingleFlight
  <2>1. s.att \in Nat /\ t.att \in Nat /\ attempts[t.msg] \in Nat /\ t.att <= attempts[t.msg]
    BY <1>1 DEF IInv, SendInv, TypeOK, Attempt
  <2>2. s.att # attempts[s.msg]
    BY <2>1
  <2> QED
    BY <1>1, <2>2 DEF IInv, SendInv
<1> QED
  BY <1>1, Inductive, PTL

\* Only PrepareTx and SetSending take a message out of the failed state.
LEMMA FailedStaysFailed ==
  ASSUME IInv, Next, NEW m \in Msgs, row[m].status = "failed"
  PROVE  \/ row'[m].status \in {"failed", "gone"}
         \/ /\ row'[m].status \in {"pending", "sending", "bundled"}
            /\ lock # NoEngine /\ conn[lock]
<1>1. ASSUME Harmless(row[m], row'[m]) PROVE row'[m].status \in {"failed", "gone"}
  BY <1>1 DEF Harmless
<1>2. ASSUME NEW n \in Msgs, Create(n) PROVE row'[m] = row[m]
  BY <1>2, GoneRow DEF Create, IInv, TypeOK
<1>3. ASSUME NEW e \in Engines, PrepareTx(e)
      PROVE  row'[m].status \in Unsent /\ lock # NoEngine /\ conn[lock]
  BY <1>3, PrepareTxStep, EnginesAssumption DEF PrepareTx
<1>4. ASSUME NEW e \in Engines, NEW n \in Msgs, SetSending(e, n)
      PROVE  row'[m].status \in {"sending", "failed"} /\ lock # NoEngine /\ conn[lock]
  <2>1. lock = e /\ conn[e]
    BY <1>4 DEF SetSending, IInv, LockInv
  <2>2. CASE n = m
    <3>1. row'[m] = setSending(row[m])
      BY <1>4, <2>2 DEF SetSending, IInv, TypeOK
    <3>2. row[m] \in RowType
      BY RowFacts
    <3>3. row'[m].status = "sending"
      BY <3>1, <3>2 DEF setSending, Exists, RowType
    <3> QED
      BY <2>1, <3>3, EnginesAssumption
  <2>3. CASE n # m
    BY <1>4, <2>1, <2>3, EnginesAssumption DEF SetSending, IInv, TypeOK
  <2> QED
    BY <2>2, <2>3
<1>5. \/ UNCHANGED row
      \/ \E n \in Msgs : Create(n)
      \/ \E e \in Engines : PrepareTx(e)
      \/ \E e \in Engines, n \in Msgs : SetSending(e, n)
      \/ Harmless(row[m], row'[m])
  <2>1. ASSUME NEW n \in Msgs, DeleteRow(n) \/ DeadlinePasses(n) \/ RetryTimePasses(n)
        PROVE  Harmless(row[m], row'[m])
    BY <2>1, DeleteRowStep, TimeStep
  <2>2. ASSUME NEW n \in Msgs, NEW att \in Attempt, NEW seq \in 0 .. MaxSeq, NEW res \in Results,
               Callback(n, att, seq, res)
        PROVE  Harmless(row[m], row'[m])
    BY <2>2, CallbackStep
  <2>3. ASSUME NEW s \in sends, RecordResult(s) PROVE Harmless(row[m], row'[m])
    BY <2>3, RecordResultStep
  <2>4. ASSUME NEW e \in Engines, NEW x \in refresh[e], Refresh(e, x)
        PROVE  Harmless(row[m], row'[m])
    BY <2>4, RefreshStep
  <2> QED
    BY <2>1, <2>2, <2>3, <2>4
    DEF Next, StartCycle, TryLock, LeakLock, PrepareFails, SetSendingFails, FinishSends, EndCycle,
        CycleTimesOut, Crash, ProviderAccepts, ResultLost, LockIdles
<1> QED
  BY <1>1, <1>2, <1>3, <1>4, <1>5 DEF Unsent

\* Callbacks, refreshes and results that come late, or for an earlier attempt,
\* never turn a failed message into a sent one: updateStatus does not apply, and
\* only the lock holder's retryReset brings the message back.
THEOREM FailedIsFinal == Spec => NeverRevived
<1>1. ASSUME IInv, [Next]_vars
      PROVE  [\A m \in Msgs : row[m].status = "failed" /\ row'[m].status \notin {"failed", "gone"}
                => row'[m].status \in {"pending", "sending", "bundled"} /\ lock # NoEngine /\ conn[lock]]_vars
  BY <1>1, FailedStaysFailed
<1> QED
  BY <1>1, Inductive, PTL DEF Spec, NeverRevived
===============================================================================
