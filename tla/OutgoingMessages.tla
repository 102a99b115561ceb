--------------------------- MODULE OutgoingMessages ---------------------------
(***************************************************************************)
(* The outgoing_messages queue of engine/message/db.go: several engine      *)
(* processes share the table, one at a time holds the session-level         *)
(* advisory lock 4912 and runs a sending cycle, and the outcome of a send   *)
(* is written by the sender, by provider callbacks and by the refresh of    *)
(* stuck messages, all of them without the lock.                            *)
(*                                                                         *)
(* Time is abstracted to flags that a clock action raises: a deadline or a  *)
(* retry time that has passed, a lock whose connection has been idle for a  *)
(* minute.  provider_msg_id is the number of the attempt it was issued for, *)
(* 0 for NULL.                                                             *)
(***************************************************************************)
EXTENDS Integers, FiniteSets

CONSTANTS Msgs,         \* ids of outgoing_messages rows
          Engines,      \* engine processes
          NoEngine,
          RetryLimit,   \* the 3 of tempFail, retryReset and retryClear
          MaxSeq        \* largest provider sequence number considered

ASSUME EnginesAssumption == NoEngine \notin Engines
ASSUME RetryLimitAssumption == RetryLimit \in Nat
ASSUME MaxSeqAssumption == MaxSeq \in Nat

VARIABLES row,        \* the table; status "none" before a row, "gone" after it
          lock,       \* process whose connection holds advisory lock 4912
          leaked,     \* that connection keeps the lock after pg_advisory_unlock
          lockIdle,   \* the connection has been idle for more than a minute
          pc,         \* step of each process's cycle
          conn,       \* the process's locked connection is alive
          queue,      \* messages of the cycle's queue that are not started yet
          sends,      \* sends in flight; `cancelled` when their cycle gave them up
          refresh,    \* stuck messages being refreshed: [msg, pid]
          attempts,   \* number of sends started for each message
          accepted    \* attempts of each message some provider accepted

vars == <<row, lock, leaked, lockIdle, pc, conn, queue, sends, refresh, attempts, accepted>>

\* What UpdateMessageStatus writes for a provider state that is not a failure.
Reported == {"queued_remotely", "sent", "delivered", "read"}
Status == {"none", "gone", "pending", "sending", "failed", "bundled"} \cup Reported
Attempt == 0 .. RetryLimit + 1

RowType == [status : Status, retry : 0 .. RetryLimit,
            nextRetry : {"null", "wait", "due"}, deadline : {"null", "set", "past"},
            fired : BOOLEAN, sent : BOOLEAN, pid : Attempt, seq : 0 .. MaxSeq]

TypeOK ==
  /\ row \in [Msgs -> RowType]
  /\ lock \in Engines \cup {NoEngine}
  /\ leaked \in BOOLEAN /\ lockIdle \in BOOLEAN
  /\ pc \in [Engines -> {"idle", "start", "locked", "sending", "refresh"}]
  /\ conn \in [Engines -> BOOLEAN]
  /\ queue \in [Engines -> SUBSET Msgs]
  /\ sends \subseteq [eng : Engines, msg : Msgs, att : Attempt, accepted : BOOLEAN,
                   cancelled : BOOLEAN]
  /\ refresh \in [Engines -> SUBSET [msg : Msgs, pid : Attempt]]
  /\ attempts \in [Msgs -> Attempt]
  /\ accepted \in [Msgs -> SUBSET Attempt]

NoRow == [status |-> "none", retry |-> 0, nextRetry |-> "null", deadline |-> "null",
          fired |-> FALSE, sent |-> FALSE, pid |-> 0, seq |-> 0]

Gone == [NoRow EXCEPT !.status = "gone"]

Init ==
  /\ row = [m \in Msgs |-> NoRow]
  /\ lock = NoEngine /\ leaked = FALSE /\ lockIdle = FALSE
  /\ pc = [e \in Engines |-> "idle"]
  /\ conn = [e \in Engines |-> FALSE]
  /\ queue = [e \in Engines |-> {}]
  /\ sends = {}
  /\ refresh = [e \in Engines |-> {}]
  /\ attempts = [m \in Msgs |-> 0]
  /\ accepted = [m \in Msgs |-> {}]

-----------------------------------------------------------------------------
(* The statements, as functions of one row *)

Exists(r) == r.status \notin {"none", "gone"}
Coalesce(pid, old) == IF pid # 0 THEN pid ELSE old

tempFail(r, pid) ==
  IF ~Exists(r) THEN r
  ELSE [r EXCEPT !.status = "failed", !.pid = Coalesce(pid, @),
                 !.nextRetry = IF r.retry < RetryLimit THEN "wait" ELSE "null"]

permFail(r, pid) ==
  IF ~Exists(r) THEN r
  ELSE [r EXCEPT !.status = "failed", !.pid = Coalesce(pid, @),
                 !.nextRetry = "null"]

\* Variant of updateStatus without the condition on last_status.
updateStatusAnyTime(r, pid, seq, s) ==
  IF Exists(r) /\ (seq = -1 \/ r.seq <= seq)
  THEN [r EXCEPT !.status = s, !.deadline = "null", !.sent = TRUE,
                 !.fired = FALSE, !.pid = Coalesce(pid, @),
                 !.seq = IF seq = -1 THEN @ ELSE seq, !.nextRetry = "null"]
  ELSE r

\* seq = -1 is the refresh of a stuck message: it applies whatever was seen.
updateStatus(r, pid, seq, s) ==
  IF Exists(r) /\ (seq = -1 \/ r.seq <= seq) /\ r.status \notin {"failed", "pending"}
  THEN [r EXCEPT !.status = s, !.deadline = "null", !.sent = TRUE,
                 !.fired = FALSE, !.pid = Coalesce(pid, @),
                 !.seq = IF seq = -1 THEN @ ELSE seq, !.nextRetry = "null"]
  ELSE r

\* There is no condition on the status: `where id = $1`.
setSending(r) ==
  IF ~Exists(r) THEN r
  ELSE [r EXCEPT !.status = "sending", !.deadline = "set", !.fired = TRUE,
                 !.seq = 0, !.pid = 0, !.nextRetry = "null"]

sendDeadlineExpired(r) ==
  IF r.status = "sending" /\ r.deadline = "past"
  THEN [r EXCEPT !.status = "failed", !.nextRetry = "null"] ELSE r

retryClear(r) ==
  IF r.status = "failed" /\ r.retry >= RetryLimit
  THEN [r EXCEPT !.nextRetry = "null"] ELSE r

\* Variant of retryReset that does not count the retry.
retryResetUncounted(r) ==
  IF r.status = "failed" /\ r.nextRetry = "due" /\ r.retry < RetryLimit
  THEN [r EXCEPT !.status = "pending", !.nextRetry = "null",
                 !.fired = FALSE, !.sent = FALSE, !.pid = 0, !.seq = 0]
  ELSE r

\* Variant of retryReset that keeps fired_at.
retryResetKeepsFired(r) ==
  IF r.status = "failed" /\ r.nextRetry = "due" /\ r.retry < RetryLimit
  THEN [r EXCEPT !.status = "pending", !.nextRetry = "null", !.retry = @ + 1,
                 !.sent = FALSE, !.pid = 0, !.seq = 0]
  ELSE r

retryReset(r) ==
  IF r.status = "failed" /\ r.nextRetry = "due" /\ r.retry < RetryLimit
  THEN [r EXCEPT !.status = "pending", !.nextRetry = "null", !.retry = @ + 1,
                 !.fired = FALSE, !.sent = FALSE, !.pid = 0, !.seq = 0]
  ELSE r

\* failDisabledCM and failSMSVoice
failUnreachable(r) ==
  IF r.status = "pending"
  THEN [r EXCEPT !.status = "failed", !.nextRetry = "null"] ELSE r

bundleMessages(r) == [r EXCEPT !.status = "bundled"]

\* UpdateMessageStatus: the failure states go to tempFail and permFail.
UpdateMessageStatus(r, pid, seq, s) ==
  CASE s = "failed_temp" -> tempFail(r, pid)
    [] s = "failed_perm" -> permFail(r, pid)
    [] OTHER -> updateStatus(r, pid, seq, s)

Results == Reported \cup {"failed_temp", "failed_perm"}

-----------------------------------------------------------------------------
(* Rows come and go *)

\* insert into outgoing_messages (escalation, notification rules, tests, ...)
Create(m) ==
  /\ row[m] = NoRow
  /\ row' = [row EXCEPT ![m] = [NoRow EXCEPT !.status = "pending"]]
  /\ UNCHANGED <<lock, leaked, lockIdle, pc, conn, queue, sends, refresh, attempts, accepted>>

\* A row goes with what it points to: the notification cycle of an alert that is
\* acknowledged or closed, the contact method, the alert.  cycle_id, which some
\* statements reset, is left out: a row may be deleted whatever its state.
DeleteRow(m) ==
  /\ Exists(row[m])
  /\ row' = [row EXCEPT ![m] = Gone]
  /\ UNCHANGED <<lock, leaked, lockIdle, pc, conn, queue, sends, refresh, attempts, accepted>>

-----------------------------------------------------------------------------
(* The sending cycle *)

\* Variant of StartCycle without advLockCleanup.
StartCycleNoCleanup(e) ==
  /\ pc[e] = "idle"
  /\ pc' = [pc EXCEPT ![e] = "start"]
  /\ UNCHANGED <<row, lock, leaked, lockIdle, conn, queue, sends, refresh, attempts, accepted>>

\* advLockCleanup: pg_terminate_backend of a lock holder idle for a minute.
StartCycle(e) ==
  /\ pc[e] = "idle"
  /\ pc' = [pc EXCEPT ![e] = "start"]
  /\ IF lock # NoEngine /\ lockIdle
     THEN /\ conn' = [conn EXCEPT ![lock] = FALSE]
          /\ lock' = NoEngine /\ leaked' = FALSE /\ lockIdle' = FALSE
     ELSE UNCHANGED <<conn, lock, leaked, lockIdle>>
  /\ UNCHANGED <<row, queue, sends, refresh, attempts, accepted>>

\* pg_try_advisory_lock in a short transaction.  A connection of the pool that
\* still holds the lock takes it again.
TryLock(e) ==
  /\ pc[e] = "start"
  /\ \/ /\ lock = NoEngine \/ (lock = e /\ leaked)
        /\ lock' = e /\ lockIdle' = FALSE
        /\ pc' = [pc EXCEPT ![e] = "locked"]
        /\ conn' = [conn EXCEPT ![e] = TRUE]
        /\ UNCHANGED leaked
     \/ /\ lock # NoEngine
        /\ pc' = [pc EXCEPT ![e] = "idle"]
        /\ UNCHANGED <<lock, leaked, lockIdle, conn>>
  /\ UNCHANGED <<row, queue, sends, refresh, attempts, accepted>>

\* The short transaction fails after the lock was taken (a pause cancels
\* execCtx): _SendMessages returns before the deferred unlock is registered and
\* the connection goes back to the pool with the lock.
LeakLock(e) ==
  /\ pc[e] = "start" /\ lock = NoEngine
  /\ lock' = e /\ leaked' = TRUE /\ lockIdle' = FALSE
  /\ pc' = [pc EXCEPT ![e] = "idle"]
  /\ UNCHANGED <<row, conn, queue, sends, refresh, attempts, accepted>>

\* The transaction that holds the table exclusively.  `gone` are status updates
\* nobody wants any more and superseded notifications, `unreachable` pending
\* messages whose contact method is disabled, `dups` alert messages folded into
\* others, which are pending messages or the bundle rows `fresh` created here; the
\* rate limits keep part of the pending messages out of the queue.
Prepared(gone, unreachable) ==
  [m \in Msgs |->
     IF m \in gone THEN Gone
     ELSE LET r == IF m \in unreachable THEN failUnreachable(row[m]) ELSE row[m]
          IN retryReset(retryClear(sendDeadlineExpired(r)))]

Bundled(t, dups, fresh) ==
  [m \in Msgs |->
     IF m \in dups THEN bundleMessages(t[m])
     ELSE IF m \in fresh THEN [NoRow EXCEPT !.status = "pending"]
     ELSE t[m]]

\* One of the messages stays: the oldest of the duplicates, or a bundle.  Msgs
\* need not be all the messages, so a new bundle may hold one of them and others.
CanFold(t, dups, fresh) ==
  /\ \A m \in dups : t[m].status = "pending"
  /\ \A m \in fresh : t[m] = NoRow
  /\ fresh # {} \/ \E m \in Msgs \ dups : t[m].status = "pending"

\* Duplicates and bundles, and the part of the pending messages that is sent.
currentQueue(e, t) ==
  /\ \/ row' = t
     \/ \E dups \in (SUBSET Msgs) \ {{}}, fresh \in SUBSET Msgs :
          /\ CanFold(t, dups, fresh)
          /\ row' = Bundled(t, dups, fresh)
  /\ \E q \in SUBSET {m \in Msgs : row'[m].status = "pending"} :
       queue' = [queue EXCEPT ![e] = q]

PrepareTx(e) ==
  /\ pc[e] = "locked" /\ lock = e /\ conn[e]
  /\ \E gone \in SUBSET {m \in Msgs : row[m].status = "pending"
                            \/ (row[m].status = "failed" /\ row[m].nextRetry # "null")},
        unreachable \in SUBSET {m \in Msgs : row[m].status = "pending"} :
       currentQueue(e, Prepared(gone, unreachable))
  /\ pc' = [pc EXCEPT ![e] = "sending"]
  /\ lockIdle' = FALSE
  /\ UNCHANGED <<lock, leaked, conn, sends, refresh, attempts, accepted>>

\* pg_advisory_unlock on the cycle's connection; a lock taken twice stays.
Unlock(e) ==
  IF lock = e /\ conn[e] /\ ~leaked
  THEN lock' = NoEngine /\ lockIdle' = FALSE
  ELSE UNCHANGED <<lock, lockIdle>>

\* The transaction fails and rolls back.
PrepareFails(e) ==
  /\ pc[e] = "locked"
  /\ pc' = [pc EXCEPT ![e] = "idle"]
  /\ conn' = [conn EXCEPT ![e] = FALSE]
  /\ Unlock(e)
  /\ UNCHANGED <<row, leaked, queue, sends, refresh, attempts, accepted>>

NewSend(e, m) == [eng |-> e, msg |-> m, att |-> attempts[m] + 1, accepted |-> FALSE, cancelled |-> FALSE]

\* Variant of SetSending that uses any connection of the pool.
SetSendingAnyConn(e, m) ==
  /\ pc[e] = "sending" /\ m \in queue[e]
  /\ queue' = [queue EXCEPT ![e] = @ \ {m}]
  /\ row' = [row EXCEPT ![m] = setSending(@)]
  /\ attempts' = [attempts EXCEPT ![m] = @ + 1]
  /\ sends' = sends \cup {NewSend(e, m)}
  /\ UNCHANGED <<lock, leaked, lockIdle, pc, conn, refresh, accepted>>

\* sendMessage: setSending runs on the locked connection, and the result is not
\* looked at: a row deleted meanwhile is sent all the same.  The tries of one
\* send, up to ten on temporary errors, are one attempt.
SetSending(e, m) ==
  /\ pc[e] = "sending" /\ m \in queue[e] /\ conn[e]
  /\ queue' = [queue EXCEPT ![e] = @ \ {m}]
  /\ row' = [row EXCEPT ![m] = setSending(@)]
  /\ attempts' = [attempts EXCEPT ![m] = @ + 1]
  /\ sends' = sends \cup {NewSend(e, m)}
  /\ lockIdle' = FALSE
  /\ UNCHANGED <<lock, leaked, pc, conn, refresh, accepted>>

\* setSending fails (always, once the connection was terminated).
SetSendingFails(e, m) ==
  /\ pc[e] = "sending" /\ m \in queue[e]
  /\ queue' = [queue EXCEPT ![e] = @ \ {m}]
  /\ UNCHANGED <<row, lock, leaked, lockIdle, pc, conn, sends, refresh, attempts, accepted>>

\* The provider takes the message and gives it an id.
ProviderAccepts(s) ==
  /\ s \in sends /\ ~s.accepted
  /\ sends' = (sends \ {s}) \cup {[s EXCEPT !.accepted = TRUE]}
  /\ accepted' = [accepted EXCEPT ![s.msg] = @ \cup {s.att}]
  /\ UNCHANGED <<row, lock, leaked, lockIdle, pc, conn, queue, refresh, attempts>>

\* send() returns and the result is written, outside the lock.  An error (the
\* 5 second timeout too, accepted or not) is a temporary failure without id.
RecordResult(s) ==
  /\ s \in sends
  /\ \/ row' = [row EXCEPT ![s.msg] = tempFail(@, 0)]
     \/ \E res \in Results : row' = [row EXCEPT ![s.msg] =
          UpdateMessageStatus(@, IF s.accepted THEN s.att ELSE 0, 0, res)]
        /\ (res \in Reported => s.accepted)
  /\ sends' = sends \ {s}
  /\ UNCHANGED <<lock, leaked, lockIdle, pc, conn, queue, refresh, attempts, accepted>>

\* The result cannot be written, 15 tries included.
ResultLost(s) ==
  /\ s \in sends
  /\ sends' = sends \ {s}
  /\ UNCHANGED <<row, lock, leaked, lockIdle, pc, conn, queue, refresh, attempts, accepted>>

\* Variant of FinishSends that does not wait for the sends.
FinishSendsNoWait(e) ==
  /\ pc[e] = "sending" /\ queue[e] = {}
  /\ \E stuck \in SUBSET {m \in Msgs : row[m].status = "queued_remotely" /\ row[m].pid # 0} :
       refresh' = [refresh EXCEPT ![e] = {[msg |-> m, pid |-> row[m].pid] : m \in stuck}]
  /\ pc' = [pc EXCEPT ![e] = "refresh"]
  /\ UNCHANGED <<row, lock, leaked, lockIdle, conn, queue, sends, attempts, accepted>>

\* wg.Wait() returns: pick stuck messages whose provider is to be asked.
FinishSends(e) ==
  /\ pc[e] = "sending" /\ queue[e] = {} /\ \A s \in sends : s.eng = e => s.cancelled
  /\ \E stuck \in SUBSET {m \in Msgs : row[m].status = "queued_remotely" /\ row[m].pid # 0} :
       refresh' = [refresh EXCEPT ![e] = {[msg |-> m, pid |-> row[m].pid] : m \in stuck}]
  /\ pc' = [pc EXCEPT ![e] = "refresh"]
  /\ UNCHANGED <<row, lock, leaked, lockIdle, conn, queue, sends, attempts, accepted>>

\* refreshMessageState turns a temporary failure into a permanent one and sets
\* Sequence to -1; an unknown state changes nothing.
Refresh(e, x) ==
  /\ x \in refresh[e]
  /\ \/ \E res \in Reported \cup {"failed_perm"} :
          row' = [row EXCEPT ![x.msg] = UpdateMessageStatus(@, x.pid, -1, res)]
     \/ UNCHANGED row
  /\ refresh' = [refresh EXCEPT ![e] = @ \ {x}]
  /\ UNCHANGED <<lock, leaked, lockIdle, pc, conn, queue, sends, attempts, accepted>>

\* The minute of processMessages is over: sendMessagesByType returns on
\* ctx.Done(), what is not started fails, and the lock is given back although
\* sends, or the writing of their results, are still under way.
CycleTimesOut(e) ==
  /\ pc[e] = "sending"
  /\ sends' = {s \in sends : s.eng # e} \cup {[s EXCEPT !.cancelled = TRUE] : s \in {t \in sends : t.eng = e}}
  /\ queue' = [queue EXCEPT ![e] = {}]
  /\ pc' = [pc EXCEPT ![e] = "idle"]
  /\ conn' = [conn EXCEPT ![e] = FALSE]
  /\ Unlock(e)
  /\ UNCHANGED <<row, leaked, refresh, attempts, accepted>>

EndCycle(e) ==
  /\ pc[e] = "refresh" /\ refresh[e] = {}
  /\ pc' = [pc EXCEPT ![e] = "idle"]
  /\ conn' = [conn EXCEPT ![e] = FALSE]
  /\ Unlock(e)
  /\ UNCHANGED <<row, leaked, queue, sends, refresh, attempts, accepted>>

-----------------------------------------------------------------------------
(* The environment *)

\* A provider reports on an attempt it accepted, in any order and repeatedly.
\* SetMessageStatus passes the provider's id only, so the row is found by it.
Callback(m, att, seq, res) ==
  /\ att \in accepted[m] /\ row[m].pid = att
  /\ row' = [row EXCEPT ![m] = UpdateMessageStatus(@, att, seq, res)]
  /\ UNCHANGED <<lock, leaked, lockIdle, pc, conn, queue, sends, refresh, attempts, accepted>>

\* The process dies: its connections close and its sends are never recorded.
Crash(e) ==
  /\ pc' = [pc EXCEPT ![e] = "idle"]
  /\ conn' = [conn EXCEPT ![e] = FALSE]
  /\ queue' = [queue EXCEPT ![e] = {}]
  /\ refresh' = [refresh EXCEPT ![e] = {}]
  /\ sends' = {s \in sends : s.eng # e}
  /\ IF lock = e THEN lock' = NoEngine /\ leaked' = FALSE /\ lockIdle' = FALSE
                 ELSE UNCHANGED <<lock, leaked, lockIdle>>
  /\ UNCHANGED <<row, attempts, accepted>>

DeadlinePasses(m) ==
  /\ row[m].deadline = "set"
  /\ row' = [row EXCEPT ![m].deadline = "past"]
  /\ UNCHANGED <<lock, leaked, lockIdle, pc, conn, queue, sends, refresh, attempts, accepted>>

RetryTimePasses(m) ==
  /\ row[m].nextRetry = "wait"
  /\ row' = [row EXCEPT ![m].nextRetry = "due"]
  /\ UNCHANGED <<lock, leaked, lockIdle, pc, conn, queue, sends, refresh, attempts, accepted>>

\* The lock's connection stays idle for a minute: it was leaked into the pool,
\* or its process stalls between two statements of the cycle.
LockIdles ==
  /\ lock # NoEngine /\ ~lockIdle
  /\ leaked \/ pc[lock] \in {"locked", "sending", "refresh"}
  /\ lockIdle' = TRUE
  /\ UNCHANGED <<row, lock, leaked, pc, conn, queue, sends, refresh, attempts, accepted>>

-----------------------------------------------------------------------------

Next ==
  \/ \E m \in Msgs : \/ Create(m) \/ DeleteRow(m)
                     \/ DeadlinePasses(m) \/ RetryTimePasses(m)
                     \/ \E att \in Attempt, seq \in 0 .. MaxSeq, res \in Results : Callback(m, att, seq, res)
  \/ \E e \in Engines : \/ StartCycle(e) \/ TryLock(e) \/ LeakLock(e)
                        \/ PrepareTx(e) \/ PrepareFails(e)
                        \/ \E m \in Msgs : SetSending(e, m) \/ SetSendingFails(e, m)
                        \/ FinishSends(e)
                        \/ \E x \in refresh[e] : Refresh(e, x)
                        \/ EndCycle(e) \/ CycleTimesOut(e) \/ Crash(e)
  \/ \E s \in sends : ProviderAccepts(s) \/ RecordResult(s) \/ ResultLost(s)
  \/ LockIdles

Spec == Init /\ [][Next]_vars

\* Processes keep cycling; of the processes that try, one gets a free lock in the
\* end and one transaction goes through; sends time out; clocks advance.  A crash
\* or a stall may still happen at any time.
Fairness ==
  /\ \A e \in Engines : /\ WF_vars(StartCycle(e)) /\ WF_vars(TryLock(e))
                        /\ \A m \in Msgs : WF_vars(SetSending(e, m) \/ SetSendingFails(e, m))
                        /\ WF_vars(\E s \in sends : s.eng = e /\ (RecordResult(s) \/ ResultLost(s)))
                        /\ WF_vars(FinishSends(e)) /\ WF_vars(EndCycle(e))
                        /\ WF_vars(\E x \in refresh[e] : Refresh(e, x))
  /\ SF_vars(\E e \in Engines : lock = NoEngine /\ TryLock(e))
  /\ SF_vars(\E e \in Engines : PrepareTx(e))
  /\ \A m \in Msgs : WF_vars(DeadlinePasses(m)) /\ WF_vars(RetryTimePasses(m))
  /\ WF_vars(LockIdles)

FairSpec == Spec /\ Fairness

-----------------------------------------------------------------------------
(* Properties *)

\* No statement can fail on a CHECK constraint of the table (schema.sql,
\* om_pending_no_fired_no_sent, om_sending_*, om_processed_no_fired_sent),
\* setSending included, which does not look at the status it overwrites.
CheckConstraints ==
  \A m \in Msgs : LET r == row[m] IN
    /\ r.status = "pending" => ~r.fired /\ ~r.sent
    /\ r.status = "sending" => r.deadline # "null" /\ r.fired /\ ~r.sent
    /\ r.status \in Reported => ~r.fired /\ r.sent

\* A message is sent at most once per retry: however sends stall, locks are
\* taken over and results come late, no more than RetryLimit + 1 attempts.
AttemptsBounded ==
  \A m \in Msgs : /\ attempts[m] <= RetryLimit + 1
                  /\ Exists(row[m]) => attempts[m] <= row[m].retry + 1

\* A message shown as waiting to be sent has not been sent since it was queued
\* or reset for a retry.
PendingUnsent == \A m \in Msgs : row[m].status = "pending" => attempts[m] <= row[m].retry

\* A process that can still start sends is the holder of advisory lock 4912:
\* setSending runs on the connection that owns the lock, so losing one is
\* losing the other.
SenderHoldsLock == \A e \in Engines : conn[e] => lock = e

\* Two sends of one message overlap only when the earlier one was given up by a
\* cycle that timed out, or its process has lost its connection, and with it the
\* lock, in the middle of its cycle.
SingleFlight ==
  \A s, t \in sends : s.msg = t.msg /\ s.att < t.att
    => s.cancelled \/ (~conn[s.eng] /\ pc[s.eng] = "sending")

\* A failed message comes back only through the process that holds the lock, to
\* be sent again or folded into another one; a late callback or refresh never
\* turns it into a sent one.
NeverRevived ==
  [][\A m \in Msgs : row[m].status = "failed" /\ row'[m].status \notin {"failed", "gone"}
        => row'[m].status \in {"pending", "sending", "bundled"} /\ lock # NoEngine /\ conn[lock]]_vars

\* A message does not stay in `sending` for ever when its sender dies: some
\* process gets the lock, leaked or not, and expires the deadline.
NotStuckSending ==
  \A m \in Msgs : row[m].status = "sending" ~> row[m].status # "sending"
===============================================================================
