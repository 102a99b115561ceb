# ms-oncall: models, checks and proofs

ms-oncall is an on-call alerting server written in Go on top of PostgreSQL, a
fork of GoAlert. Alerts belong to services, services to escalation policies;
an *engine*, which runs in every server process, advances the escalation of open
alerts, queues notifications and sends them. This directory holds TLA+ models
of the parts whose correctness depends on the order in which several processes,
goroutines, database transactions and provider callbacks take their steps, the
TLC configurations that check them, and TLAPS proofs.

`PROJECT.json` lists the components, the runs, which definition models which
lines, the hazards, the findings and the theorems.

Contents: [inventory](#inventory) - [modules](#modules-and-the-code) -
[runs](#runs) - [fairness](#fairness) - [proofs](#proofs) -
[findings](#findings) - [limits](#what-is-left-out) - [plan](#plan)

## Inventory

| component | state | operations | hard behaviour | what makes it correct |
|---|---|---|---|---|
| `ctxlock` | count and wait queue per id | Lock, Unlock, cancellation | a hand-over meets a waiter that is giving up | limit, no lost waiter, first come first served |
| message queue `engine/message` | table `outgoing_messages`, advisory lock 4912, sends in flight | the sending cycle, results, callbacks, refresh of stuck messages | several processes, crashes, stalls, lock take-over, late and repeated reports | bounded attempts, table constraints, no stuck and no revived message |
| message selection (`queue.go`, `throttle.go`, dedup, bundles) | sent messages of the last hours | order, rate limits, dedup | boundaries of the rates | never above a rate, order by priority |
| `alert` | `alerts`, `alert_logs` | create, acknowledge, close, request an escalation | against policy edits and the engine | closed is final, requests are served |
| `engine/escalationmanager` | `escalation_policy_state` | one pass of six statements | steps and policies that change between two statements | only the present policy, bounded repeats, no forgotten alert |
| `escalation`, `service` | steps, repeat, policy of a service, maintenance | edits | triggers that see committed rows only | state row for every open alert of a policy with steps |
| `app/lifecycle` | status channel, pause and shutdown channels | Run, Pause, Resume, Shutdown | any of them at any time | no panic, no hang, exclusive callbacks |
| `engine/engine.go` | run loop, River client | cycle, pause, resume, shutdown | requests between the steps of the loop, River's jobs that outlast a context | paused means quiet, shutdown leaves no loop and no River that takes jobs |
| `swo/swogrp`, `swo/swomsg` (switchover group) | a log of messages, each node's view of it | hello, reset, election, pause of all nodes, execute | node loss, lost messages, tasks that race with their cancellation | nodes agree, everybody is paused during the switch, nobody waits without a cause |
| `swo/swosync`, `swo/executor.go`, `swo/pgxpool.go` (switchover data) | two databases, change log, connection locks | copy, logical sync, stop the world, switch | a sync that is cancelled or stalls, writers that started early or late | no committed write is lost |
| `engine/npcyclemanager` | `notification_policy_cycles` | ticks, deletion | overlapping ticks, acknowledgement between ticks | each rule fires once, paging stops |
| `engine/statusmgr` | `alert_status_subscriptions` | search, process a subscription | duplicate jobs, late subscriptions | every change told once, the last one known |
| `notification/webhook` token rotation | the row's token, the Gateway's tokens, deadlines | Start, Reconcile, Finalize | two owners without a common transaction, unknown commits | the row's token is accepted, results are true |
| `engine/heartbeatmanager`, `rotationmanager`, `schedulemanager`, `verifymanager`, `cleanupmanager`, `signalmgr` | one table each | periodic statements | races with users' changes | per module |
| `keyring`, session renewal in `auth` | the shared row, each node's copy | create, refresh, rotate, sign, verify, re-encrypt | creation races, missed rotations, wrapping indexes, several secrets | what is signed can be verified, as long as promised |
| `engine/processinglock` | row lock per module and version | begin a transaction | old and new versions side by side | one at a time |
| stores, GraphQL, HTTP, auth, notification providers, web UI | rows, network | requests | mostly sequential | access rules |

How they interact: the stores and the engine share the database and nothing
else; triggers of `migrate/schema.sql` keep the derived tables. The
escalation manager and the notification cycles insert rows that the message
queue sends. Providers call back into the engine (`SetSendResult`). The
lifecycle manager wraps the engine and the application; the switchover group
pauses them through it before the executor of its leader moves the last rows.
The escalation of an alert starts notification cycles, whose messages subscribe
their destinations to the alert's status.

## Modules and the code

| module | models | composed of |
|---|---|---|
| `FairSemaphore` | what `ctxlock` promises: a first-come first-served semaphore per id | |
| `IDLocker` | `ctxlock/lock.go`, `unlock.go` | refines `FairSemaphore` |
| `OutgoingMessages` | `engine/message/db.go`, with bundling and dedup abstracted, `processinglock/conn.go` | |
| `AlertEscalation` | `alert/store.go`, `escalation/store.go`, `service/store.go`, triggers, `engine/escalationmanager` | |
| `AlertFollowUp` | `engine/npcyclemanager`, `engine/statusmgr`, the acknowledgement and closing of `alert/store.go`, the subscription in `engine/sendmessage.go` | |
| `Lifecycle` | `app/lifecycle/manager.go` | |
| `EngineLifecycle` | `engine/engine.go` under the manager | extends `Lifecycle` |
| `TokenRotation` | `notification/webhook/gateway_token_rotation.go` with the Gateway and the row | |
| `SwoGroup` | `swo/swogrp`, `swo/swomsg` | |
| `SwoSync` | `swo/executor.go`, `swo/pgxpool.go`, `swo/swosync` | |
| `Keyring` | `keyring`, session renewal of `auth/handler.go` | |
| `*Proofs` | theorems and proofs; `SwoProofs` those of both `Swo` modules | extend the module |
| `MC*` | model values and symmetry for TLC | extend the module |

Definitions that begin with "Variant of" in their comment are wrong versions of
the definition below them. They are used by no specification; each shows that
a property notices the mistake.

**IDLocker.** A goroutine is idle, at the `select` of `Lock`, has closed its
channel (*abandoned*), holds the lock, or is in the loop of `Unlock`. `Unlock`
takes the head of the queue and receives from its channel while it keeps the
mutex: `mx` and `recv` name the two. The receive ends with the waiter's send
(`HandOff`) or with its close (`SkipAbandoned`). Each section under the mutex is
a step.

**OutgoingMessages.** `row` is the table. The SQL statements are functions from
row to row (`tempFail`, `updateStatus`, `setSending`, `retryReset`, ...) with
their WHERE as the condition. A process goes through `StartCycle` (the
statement that terminates a stale lock holder), `TryLock`, `PrepareTx` (the
transaction under the exclusive table lock), `SetSending` for each message,
`RecordResult`, `FinishSends`, `Refresh` and `EndCycle`; at any point it may
crash, stall for a minute (`LockIdles`), fail a statement or run out of its
minute (`CycleTimesOut`). Times are flags a clock raises. `provider_msg_id` is
the number of the attempt it was given for. Which messages are duplicates,
bundled, unwanted or held back by a rate limit is a free choice, so the results
hold for every selection. `cycle_id` is left out: rows are deleted freely, which
contains what its foreign key does.

**AlertEscalation.** `ep` holds the row of `escalation_policy_state` of each
alert, `steps[p]` the steps of a policy in the order of `step_number`. Store
operations that lock the service row are one step. Two transactions are split
in an insert and a commit or rollback: inserting an alert (`InsertAlert`,
`CommitAlert`, `RollbackAlert`) and inserting a step (`AddStep`, `CommitStep`,
`RollbackStep`), because each has a trigger that reads what the other writes and
neither locks it. The escalation manager is `stage`, one statement after the
other; any of them may fail, which ends the pass. The statements skip the rows
of locked services and wait for an open `AddStep`, whose trigger locks the table
of steps. Three fields of a row are there for `RepeatsBounded` only: `firsts`, how
often the alert was escalated to the first step under this policy, `cuts`, how often
the step it was at was deleted, and `most`, the largest `repeat` the policy had
since. `loop_count` alone does not tell: the statement for deleted steps can send an
alert back to the first step without counting a loop.

**Lifecycle.** The channel `m.status` of capacity one is state and mutex; a
section between its receive and its send is a step, and `Resume` keeps it while
the wrapped function runs (`holder`). `waitOn[c]` is the Pause whose `pauseDone`
the caller waits for, `op` the Pause that made the present one. A closed
channel is a member of `closed`; closing it again, and the two "unexpected
lifecycle state" panics, set `panicked`. `EarlyOverlap` says whether a second
Pause may be called while one waits for the startup; in this application one
goroutine, the switchover's executor, calls Pause, so it is FALSE in the runs.

**EngineLifecycle.** Gives the manager the engine's functions: the run loop with
its two selects, `_pause` (stop River, offer the request to the loop, wait for
the answer, or resume on a cancelled context), `_resume`, `_shutdown`. The
modules and the sending of a cycle are one step, "work". River is external: it
is on, off, or told to stop and finishing its jobs. `River.Stop` tells it to stop
and waits until it has or until the caller's context ends; then it returns the
error, in `_pause` and in `_shutdown` alike, with River still at its jobs. Its
restart may fail, and a client that still finishes is not started again. The end
of the context of Run (`RunCtxEnds`) ends the loop without a Shutdown, and tells
River to stop.

**AlertFollowUp.** One alert and the users on call for it. A cycle is a record of
its age, the time of its last tick (both relative, so that time may pass for
ever) and whether an acknowledgement that counts for it was logged. Engines and
acknowledgements work in transactions whose `now()` is the time they began: the
variables `engTx` and `ackTx` hold how long ago that was. `QueueMessages` is the
one statement of the manager: lock, delete what ended, insert messages for the
rules between the last tick and now. A row that is being sent keeps its cycle,
so the end of the cycle deletes it (`RowKept`). The first message that is sent
subscribes its destination (`Subscribe`); `LookForWork` and the jobs of
`ProcessSubscription` then follow the status. The author of the latest log entry
for the status decides who is told. A subscription that was told nothing for seven
days is *stale* (`GoesStale`): the search no longer finds it and the hourly
`Cleanup` deletes it, unless a job that was queued before tells it once more.

**TokenRotation.** An attempt of `Start` and an inspector (`Reconcile`, `Finalize`)
are processes with a program counter. `tx[a]` is the compare-and-swap transaction
as the server sees it, apart from what the client knows: a commit may be under way
after the client lost the connection, which quarantine then ends. The Gateway
answers, does not answer, or acts later for a caller that left (`late`). A Begin
whose outcome is unknown (`BeginUncertain`) may have activated the pair or not, and
Start reports that reconciliation is required with the handle ("needs") or, when the
answer carries none (lines 907 and 1433-1434), without ("unknown"). A Begin that takes
effect after its caller left is one whose caller leaves later, since the caller does
nothing in between. Time is counted in units of the code's limits; deadlines are
absolute.

**SwoGroup.** The log is a sequence; a node's `pos` is how much of it its message
loop has handled, one action for each case of the loop's switch. Tasks are
goroutines that end on their own: cancelling one only marks it. An append can
fail, a task can fail, a node can crash and a new one join, first by following the
log from its end (`NewLog`), then with its hello (`Join`). `sendAck` ignores an error
(`Append1`); `sendAckWait`, with which the administrator's requests are sent, closes
the channel it waits on, and the message may be in the log all the same
(`AppendWait`, `doomed`): the node then panics when its loop reads it
(`HandlePanics`). The safety properties are stated for logs without strangers (`NoStrangers`): before a reset, every node that
reported itself paused had said hello since the reset before. `StartTask` and
`TaskSucceeds` record the two other ways in which the code panics (a task started over
another; `cancelTask` called when nil).

**SwoSync.** A row's value is the number of the write that set it. `Acquire`
takes the snapshot of the state and `ConnLocked` gets the shared lock: one
statement in the code, two steps here because the statement waits in between.
The executor goes through the statements of `ResetChangeTracking`,
`StartTrackingChanges`, `FullInitialSync`, `LogicalSync` and `FinalSync`, split
where they commit. `Stall` lets its session time out while the goroutine goes on;
`StalledApplies` is what that one still writes to the new database. `stale` holds the
rows it wrote so while another executor was at work or after the switch, until they
are written again through the new database or truncated for another copy.

**Keyring.** A key is the number of the rotation after which it signs; the row
maps indexes (rotation count modulo `Keyspace`, 256 in the code) to keys. A
refresh is a read, a decision and an update guarded by the rotation count, or the
insertion of a first row that another node may win. Nodes are started with
different lists of secrets, may miss rotations for as long as the ticker allows,
and sign with the copy they have.

## Runs

| run | instance | distinct states | shows |
|---|---|---|---|
| `idlocker` | 4 goroutines, 2 ids, 1 slot, 2 waiters | 5,456 | every slot accounted for, no lost waiter, refinement of `FairSemaphore`, every waiter is served or returns |
| `outgoing` | 1 message, 2 processes, 2 retries, 2 sequence numbers | 373,720 | bounded attempts, pending means unsent, when sends overlap, failed is final |
| `bundles` | 2 messages, 1 process, 1 retry | 254,212 | table constraints with dedup and bundles; no message stays in `sending` |
| `escalation` | 1 alert, 1 service, 2 policies, 2 steps, 3 edits, 1 request | 167,960 | only the present policy and steps, a next time or a request, bounded runs through a policy, closed is final, a pending escalation is served |
| `follow_up` | 1 user on call and another, 2 engines, 1 rule, 1 escalation, 2 changes of status before closing, 2 jobs, 1 mishap | 636,443 | each rule takes effect once, each change is told once for a subscription; paging stops, subscriptions end with the final status |
| `lifecycle` | 3 callers, 4 calls in all | 186,212 | no panic, exclusive callbacks, consistent status; every call returns |
| `engine_lifecycle` | 3 callers, 3 calls in all | 446,978 | paused is quiet, a shutdown that returned left no loop and no River that takes jobs; a signalled loop exits, and River ends |
| `token_rotation` | 2 attempts, 1 inspector, 4 units of time | 5,104,894 | the row's token is accepted, a failure leaves no swap, and a pair only when it asks for reconciliation, results are true, swaps are admitted only with time to recover |
| `swo_group` | 2 nodes that may lead, one of which joins late, 11 messages, 2 resets, 1 execute, 1 trouble (a failed append, a crash or a failed task) | 905,391 | agreement, everybody paused during the switch, no task over another; every reset ends, and who stays in a switchover waits for a lost answer or a member that left |
| `swo_sync` | 2 executors, 2 connections, 2 rows, 2 writes, 2 starts, 1 stall, 1 round | 911,316 | no lost write except through a late connection or over a stalled executor's, every other difference is in the change log, no connection waits for ever |
| `swo_lost_write` | 2 connections, 2 rows, 2 writes, 1 start | violation | see findings |
| `keyring` | 2 nodes, 2 secrets, 3 indexes, 1 old key, 3 rotations, 3 starts, 1 trouble | 2,146,432 (up to symmetry) | exact verification, promised validity, nodes with all secrets can sign, sessions only move to newer keys |

Why these bounds are enough. *IDLocker*: both users of the lock set `MaxHeld` to 1.
With a holder, two waiters and a fourth goroutine an id has a full queue with
someone refused and an abandoned waiter before a live one; with two ids two
unlockers compete for the mutex. More slots, ids and goroutines are covered by
the proofs. *Outgoing*: the lock, its take-over and its leak concern two
processes; two retries give a first, a middle and a last attempt, so a report of
the first can meet the third. Rows interact only through bundling, which
`bundles` covers with two; a process that crashes or leaks its lock comes back as
its own successor, so one is enough for the liveness of `sending`. *Escalation*:
alerts interact only through the lock of their service; two policies are needed
to exchange them, two steps for a last one that is not the first; three edits
build a policy and change it while it is used. *Lifecycle*: one goroutine for each
of the operations, and a fourth call that meets what they left behind. Under the
engine three calls are enough for a pause, a resume and a shutdown in any order; what
a fourth meets in the manager is in `lifecycle`.
*Follow-up*: two engines are enough for transactions that run in another order than
they began; a lag of one minute is the distance between two ticks. With two
changes of status the alert is acknowledged, triggered again and closed. Mishaps
(a message sent again, a user who leaves, a contact method disabled, a subscription
that goes stale) touch different parts, so one at a time is allowed. Subscriptions do not interact: the
run follows one of any number. *Token rotation*: a second attempt is what a late
commit or finalization of the first can spoil; four units hold an overlap in which
each of the limits can just be met or missed. *Group*: with two nodes one
may lead or follow, join late or be lost; eleven messages hold a reset with its
hellos and a whole switchover, or a second reset in the middle of it. *Sync*: one connection can be late while another writes in time;
two starts give a sync over the remains of an earlier one, or a second executor that
synchronises while the first has stalled. *Keyring*: three indexes
wrap after the first rotation, as 256 do after many.
`CHECK_DEADLOCK` is on for the lock, the message queue and the escalation, which
never stop. The others stop when the bounded calls, writes, messages or changes
are used up.

What the runs say of some questions that are easily answered wrongly:

- Two sends of one message *can* be in flight together, but only when the
  earlier was given up by a cycle whose minute was over, or when its process lost
  its connection in the middle of a cycle (`SingleFlight`). One way there: a
  stalled process refreshes a stuck message with its old provider id, the row
  then matches the old callback, and its failure makes the message retry.
- Even then no message is tried more than once per retry (`AttemptsBounded`).
- `setSending` overwrites a row whatever its status, yet no interleaving
  makes it violate a CHECK constraint (`CheckConstraints`): a queued message can
  become failed or vanish, but not sent, before its turn.
- A commit whose outcome Core does not know can land after the inspection that
  reads the row began, but not after it has the row lock; that is what keeps
  `TokenAccepted` (an inspection without the lock breaks it).
- A signature may be refused up to one period of the ticker before its promised
  time, when the node that signed had not seen the last rotation
  (`ValidLongEnough`).
- A destination that subscribes after the alert was acknowledged or closed is
  still told, because the minutely search finds it (`SubsFollow`). The exception is
  a subscription that heard nothing for seven days: a change after them is not told.
- An alert can start its policy again more often than `repeat` and the requests
  allow: once for each time the step it was at is deleted (`RepeatsBounded`).
- A reset ends whatever is lost, by the loop's timer. Synchronising, pausing and
  executing have no timer: when an answer is lost, or a member crashed or left, the
  others stay there until an administrator resets. `Settles` says that nothing else
  makes them stay.
- A closed alert can have an escalation state row, created by a step insert that
  still saw the alert open; nothing is ever done with it (`ClosedIsFinal`).

## Fairness

- `IDLocker`: weak fairness of the receive inside `Unlock`; strong fairness of the
  clean-up and of `Unlock`, which need the mutex: Go's mutex hands itself over to a
  starving goroutine, and a holder releases what it holds, as the callers do with
  `defer`. Nothing is assumed of contexts.
- `OutgoingMessages`: processes keep starting cycles (the engine's ticker), sends
  return (they have a timeout of 5 seconds), clocks advance. Strong fairness only
  for "some process gets the free lock" and "some preparation succeeds": a process may crash,
  stall or fail as often as it likes, but not for ever at the same point. There
  is none for crashes, timeouts and callbacks.
- `AlertEscalation`: open transactions end, the manager runs a pass every five
  seconds, and no statement fails for ever (strong fairness, since a failure sends
  the pass back to the start and locked services are skipped).
- `Lifecycle`: goroutines go on and the wrapped functions return, the run
  function once it is cancelled. None for the calls, the contexts, or Run.
- `EngineLifecycle`: goroutines go on, a cycle ends, and so do the jobs of a River
  that was told to stop. Strong fairness of the loop
  for a request that is offered and for the shutdown channel, because every pass
  of the loop asks for both before it waits for the ticker.
- `AlertFollowUp`: time passes, engines begin a tick every five seconds and the
  search for outdated subscriptions runs every minute, the clean-up every hour;
  transactions, sends and jobs end. Strong fairness of `QueueMessages`: a tick may fail, but not for ever.
- `SwoGroup`: the message loop of a node that runs handles what is in the log, the
  reset timer fires when there is nothing to read, and tasks end, if only by their
  timeouts or those of their statements. None for requests, joins, crashes and losses.
- `SwoSync`: a granted lock wakes its waiter and the executor's statements end, if
  only by their timeouts. None for the application's transactions.
- `TokenRotation` and `Keyring` have safety properties only.

## Proofs

TLAPS checks the theorems of the `*Proofs` modules for every value of the
constants, from the assumptions that the modules name: finitely many goroutines and
`MaxHeld >= 1`; a natural retry limit; alerts with a service; delays with a
greatest one; lists of secrets that are not empty, and what `NewDB` validates of the
keyring (`MaxOldKeys + 2 <= Keyspace`) with a ticker of at most half a rotation;
natural numbers for all bounds and time limits; null values that are not members of
the sets they stand beside. The bounds are constants, so the results hold for any
number of calls, writes, edits, crashes and requests. Each module follows the same
plan: an inductive invariant `IInv` (`GroupInv` for `SwoGroup`), checked by TLC
before it was proved, one lemma per action with one step per conjunct,
`Inductive == Spec => []IInv`, and the properties as consequences.

*IDLocker.* `MutexInv`: the unlocker that keeps the mutex receives from a caller
that is still inside Lock for that id and in no queue. `QueueInv`: queues hold
callers inside Lock for that id, each once. Both are needed to count holders
exactly: a hand-over passes the slot of one known caller to another.
Proved: `TypeOK`, `NoLostWaiter`, `SlotsExact` (that is `MutualExclusion`,
`CountExact` and `QueuedOnlyWhenFull`), and, which no run checks, `QueueBounded`
and `NoBarging`.
The refinement `ImplementsSemaphore` is proved step by step from the same invariant:
the fast path is `Acquire` (a free slot means an empty queue, so nobody waits), the slow
path `Wait`, the closing of a channel `Leave`, the last turn of Unlock's loop `Release`,
the receive `HandOver`. The clean-up of an abandoned entry is a stutter, and so is the
turn that takes a channel off the queue: its owner is still the first in line, through
`recv`. `FairSemaphore` has no fairness; that waiters are served is `WaiterServed`.

*OutgoingMessages.* `LockInv`: a live cycle connection owns the lock, so
there is one. `QueueInv`: what such a process has in its queue has an attempt
left and its row is pending, failed or gone. `SendInv`: the attempt a live sender
works on is the latest. `BudgetInv`: attempts are within the retry count. The
statements are divided in those that may run without the lock (`Harmless`: they
make nothing pending and nothing sent that waits in a queue) and those of the
cycle. Proved: `TypeOK`, `CheckConstraints`, `AttemptsBounded`, `PendingUnsent`,
`SingleFlight`, `NeverRevived`, and, which no run checks, `SenderHoldsLock`.

*AlertEscalation.* `LoopInv`: an alert came to the first step when it began, with a loop
that was counted, or after its step was deleted; `loop_count` is within the largest
`repeat` and the requests served, and a pending request stands for the one it may
cause. `ClosedInv`: a closed alert has no row or one never escalated nor
requested. `TxInv`: what open transactions hold. Proved: `TypeOK`,
`OnlyActivePolicy`, `NeverWithoutNext`, `RepeatsBounded`, `ClosedIsFinal`. The
bounds on requests and edits are constants, so the results hold for any number
of them.

*Lifecycle and EngineLifecycle* (`EngineLifecycleProofs`), for any number of
callers and under `~EarlyOverlap`, since with overlapping early Pauses the manager
does panic. `RunInv` ties the progress of Run to the status and to the channels it
closes, `OwnerInv` each Pause under way to `op`, `isPausing` and the status, `HolderInv`
the taken status to the Resume whose function runs, `ShutInv` makes the Shutdown that
works the only one. `AloneInv` is the part that is hard to find: a Pause meets one that
waits for the startup only after the startup has failed. Proved: `NoPanic`,
`CallbacksExclusive`, `StatusConsistent`. With `QuietInv` (a loop that took the request
does not work) and `StoppedInv` (what a Shutdown has passed stays stopped, and a River
that was told to stop takes no jobs) also `EngineObeys`, and that the engine's callbacks keep all that holds of the manager.

*Keyring.* `CopyInv`: the row and every copy of it hold exactly the keys of a window of
rotations, each at its byte (`Exact`). That a byte names one key of the window is
`ByteInjective`, where `MaxOldKeys + 2 <= Keyspace` is used. `SecretInv` follows the
private keys through nodes that lack secrets; `TimeInv` bounds by how much a node lags
and how old a signature is, for `ValidLongEnough`. Proved: `VerifiesExactly`, `CanSign`,
`ValidLongEnough`, `RenewsForward`.

*AlertFollowUp.* `CycleInv`: a rule was found due once if its delay is not after the
last tick and never otherwise; and the last tick is not ahead of the cycle's age less
its idle time, which is why an engine whose transaction began earlier than another's,
but locks the cycle later, finds nothing twice. `ToldInv`: a subscription for which the
present status was told knows it. Proved: `RulesOnce`, `ToldOnce`.

*SwoSync.* `LockInv` and `PhaseInv` say where the one executor at work stands, what the
state is and that the triggers exist; `LogInv` that an open write without a log entry is
one the executor still waits for; `IdInv` that the number of an open write is in no log
and in no list of numbers to delete. With these `TrackInv` is inductive: every row that
differs, or will differ once what was read is applied, is named by an entry that
survives the deletion. `StopInv` then gives equality at the switch, and `LastInv` the
result. All of it is about the rows that are not `stale`; a stalled executor that writes
while no other is at work needs no exception, since what it read is still in the change
log. Proved, for any number of executors and stalls: `LostOnlyLate`, `RowsTracked`.

*TokenRotation.* An attempt is *spent* when the row can never hold its token any more:
it has left the swap and its transaction neither committed nor is committing. Spent is
for ever. `TxInv`: the row never goes back, and a commit under way finds the old token in
the row and the pair at the Gateway. `SeenInv`: what was read under the row lock stays
true after the lock is lost: either the commit is known or the attempt is spent.
`DecidedInv`: a rollback, even one executed late, is asked for only of a spent
attempt, a finalization only of a committed one. `TimeInv`: the local deadline is never
after the Gateway's. Proved: `TokenAccepted`, `NoOrphanPair`, `ResultsTruthful` and the
action property `CasInsideOverlap`, for any number of attempts and inspectors, any
limits and any overlaps.

*SwoGroup* (with *SwoSync* in `SwoProofs`; its specification is `GroupSpec`, so that one
module can extend both). A node's view is what the message loop makes of the messages it
has handled, and what such a fold computes cannot be proved here by induction. So
`GroupInv` says instead that there *is* a sequence of views, each made from the one before
by one message (`Folded`), and an append extends it (`Extends`). `ViewsInv` is about the log
alone: who said hello since the last reset is a member, who counts as paused acknowledged
the pause under way, a reset keeps its leader. `NodeInv` ties a node to it: a node that has
not left holds the view of its position; `cancelTask` stands for the task of the current
state; every task is one its node was due to run, the leader's or its own pause (`Duty`);
an answer in the log comes from a node that was due to give it, whose task is over, and who
acknowledged a pause stays paused until it has handled a message that ends it. The answers
are what makes it inductive: that a "pause" or "reset-end" finds no task under way on any
node follows only from the leader having sent it. Only `Kinds` (types, and a node never
ahead of the log) holds without `NoStrangers`. Proved: `Agreement` with `TypeOK`,
`NoDoubleTask`, `PausedDuringExec`, for any nodes and any number of messages, resets,
crashes and losses.

Only model-checked: every liveness property, which is outside the prover. Every safety
property of a passing run is proved.

## Findings

`swo_lost_write`: `SWOConnLock` waits for the shared advisory lock and reads
`switchover_state` in one statement. In PostgreSQL the statement's snapshot is
taken when it starts, so a connection that began to wait before the switch and
gets the lock after it reads the old state and is given to the application for
the old database; what it writes there is lost. `swo/README.md` says that after
the lock is released all new queries go to the new database. In the application
this needs a connection that is asked for while the application is paused, by a
part that the pause does not stop. `LostOnlyLate` shows that there is one other way to
lose a write: a leader that stalls past its session's timeout and then writes what it
had read into the new database, while another leader synchronises or after the switch
(`logicalsync.go:99-104`).

The models hold further disagreements between code and comments, or plain
mistakes, for which no run is kept; the behaviours are part of the specifications:

- *OutgoingMessages*: `tempFail` and `permFail` apply a report whatever its
  sequence number, against the comment in `notification/nfymsg/status.go:14-15`.
- *AlertEscalation*: an alert inserted while the first step of its policy is being
  inserted can end without a state row; it is never escalated and `EscalateAsOf`
  refuses it as having an empty policy. The same happens to an alert opened under
  a policy without steps when its service gets a policy with steps.
- *Lifecycle* (with `EarlyOverlap = TRUE`): a second Pause called as the startup
  ends overtakes the one that waits for the startup, which panics.
- *EngineLifecycle*: a pause cancelled after the loop took the request calls Resume
  from within Pause and waits for itself (`engine.go:270`); a pause that fails after
  River was stopped leaves it stopped (`engine.go:266`); a Shutdown between Starting
  and Ready waits for a run loop that is never entered (`engine.go:314`); a pause
  accepted before River is started returns nil with River running. So
  `CallsReturn` is checked of the manager, and of the engine only that a loop that
  was entered stops.
- *SwoGroup*: a task that succeeds after it was cancelled calls a nil `cancelTask`
  (`starttask.go:29`); entries of `paused` for nodes that are not members survive a
  reset (`taskmgr.go:122-125`): a node whose hello was lost and that paused all the
  same counts as paused in a later switchover, which can then execute while its
  application runs. `NoStrangers` excludes these logs from the safety properties. A
  task that was cancelled and ends well after its successor was started cancels that
  one (`starttask.go:29`), whose answer is then never sent: the switchover waits for
  ever. An append that commits but reports an error makes `sendAckWait` close a channel
  that stays in `waitMsg`; the message loop closes it again and the process panics
  (`taskmgr.go:253`, `taskmgr.go:110`).
- *SwoSync*: `Executor.Cancel` does not clear `rep`, so that a later Sync on the same
  node answers "already syncing" (`executor.go:58`).
- *AlertFollowUp*: the unique key of `alert_status_subscriptions` has a null column
  in every row and so excludes nothing; a destination whose first message is
  reported failed and sent again is subscribed, and told, twice.
- *Keyring*: `RotateKeys` after Shutdown sends on a closed channel
  (`store.go:255`); not modelled, as nothing calls it then.

## What is left out

- Permissions, organization scoping, search, alert logs, metadata, feedback: no
  effect on the modelled state.
- The LIMITs of the escalation statements: with more alerts than they take, an
  alert waits for the next pass. With several alerts of one service, inserts that
  keep the service locked can also postpone it (SKIP LOCKED); the runs have one
  alert.
- The up to ten tries of one send are one attempt: a try that was accepted before
  its error is delivered twice, which no code here can prevent.
- `repeat = -1` in the escalation statements: no caller can store it. Alerts are
  created triggered, as all callers do, and `UpdateStatus` to triggered, which
  `alert/store.go` has a branch for, is left out because no caller asks for it.
- DisableCycle (API-only processes) in `EngineLifecycle`, and the setters of the
  lifecycle manager, which are called before Run.
- The database's behaviour is taken as PostgreSQL's read committed: a statement
  sees what is committed when it starts, row locks until the end of the
  transaction.
- *TokenRotation*: the validation of arguments and handles, which ends a call before
  it changes anything. A reply of Begin that is not valid is not left out: the Gateway
  may have acted, and it is an unknown outcome with or without a handle; after one
  without a handle a pair may stand that nothing here can settle, as `NoOrphanPair`
  says. The Gateway is modelled from the contract its client's comments and checks
  state.
- *SwoGroup*: progress and ping messages, and messages that cannot be decoded (all
  nodes run the same code; a hello that cannot be decoded leaves the loop body without
  unlocking `mx`, `taskmgr.go:132`).
- *SwoSync*: several tables, sequences, and the order that foreign keys impose on
  the copies; a failing statement is a cancelled sync.
- *AlertFollowUp*: bundles of several alerts, channels, several contact methods of
  one user, and the messages' own retries beyond one (`OutgoingMessages` has them).
- *Keyring*: a keyring that never rotates by itself (`RotationDays = 0`, as the API's);
  `Rotation` is positive in the model. Signatures and JSON are ideal: a signature verifies under its own key
  only. A decryption with a wrong secret that seems to succeed is a bounded
  trouble (`CanMisread`).
- The map covers some 5,400 of about 134,000 lines. Some 53,000 of those are generated
  (`graphql2/generated.go`, `gadb/queries.sql.go`, the models), most of the rest are
  resolvers, stores, validation, configuration and providers, which handle a
  request from beginning to end over database rows.
- Single-statement managers (verify, cleanup, metrics, compat), stores, API, auth
  and web UI: no protocol of their own. Providers and River: external.

## Plan

Done: all modules above are checked and proved about.

Proofs to come: what remains true in `SwoGroup` once a stranger has paused.

Models to come: `MultiPauseResume` (`app/lifecycle/pauseresumer.go`) over several
lifecycles, the heartbeat monitors, the processing locks of several versions, and
throttle, queue order and dedup as operators against reference definitions.
