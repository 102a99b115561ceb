--------------------------- MODULE AlertFollowUp ----------------------------
(***************************************************************************)
(* What follows the escalation of one alert: the notification cycles of    *)
(* the users who are on call (engine/npcyclemanager), the acknowledgements *)
(* that end them (alert/store.go), the messages they queue, and the status *)
(* updates to the destinations that were notified (engine/statusmgr).      *)
(*                                                                         *)
(* Every user has one contact method and one notification rule for each    *)
(* delay.  Time counts minutes and is kept relative to what it is compared *)
(* with, so that it can pass without end.  A transaction works with the    *)
(* time of its begin, which may be a few minutes old (its lag).            *)
(***************************************************************************)
EXTENDS Integers, FiniteSets, FiniteSetsExt

CONSTANTS
    Users,           \* the users who may acknowledge and close the alert
    OnCall,          \* the users on call, who are notified
    Forced,          \* users whose contact method requires status updates
    Delays,          \* the delays of everyone's notification rules, in minutes
    Engines,         \* the engines
    Nobody,          \* the author of an entry that no user wrote
    MaxLag,          \* bound on the minutes that a transaction lasts
    MaxEscalations,  \* bound on the escalations, each of which starts cycles
    MaxChanges,      \* bound on the changes of the alert's status, but closing
    MaxJobs,         \* bound on the jobs queued for one subscription
    MaxSubs,         \* the subscriptions of one destination that are followed
    MaxMishaps       \* bound on messages sent again, users who leave, contact methods
                     \* disabled and subscriptions that are stale, altogether

ASSUME FollowUpAssumption ==
    /\ IsFiniteSet(Users) /\ OnCall \subseteq Users /\ Forced \subseteq Users /\ Nobody \notin Users
    /\ Delays \subseteq Nat /\ \E m \in Delays : \A d \in Delays : m >= d
    /\ {MaxLag, MaxEscalations, MaxChanges, MaxJobs, MaxSubs, MaxMishaps} \subseteq Nat

CycleIDs == OnCall \X (1..MaxEscalations)
NoCycle  == OnCall \X {0}               \* stands for messages whose cycle_id is null
Subs     == OnCall \X (1..MaxSubs)
Never    == -(MaxLag + 1)               \* null; NoTx is the lag of no transaction
NoTx     == -1
MaxDelay == Max(Delays)                 \* beyond it the age of a cycle is all one
Upto(n, bound) == IF n < bound THEN n ELSE bound

VARIABLES
    status,     \* alerts.status
    multi_ack,  \* the alert's escalation step asks everyone to acknowledge
    author,     \* who wrote the latest alert_logs entry for the status, or "none"
    cycles,     \* notification_policy_cycles: id -> age, last_tick, idle, ...
    due,        \* cycle in progress -> rule -> how often a tick found it due
    pending,    \* the cycles with messages that wait to be sent
    sending,    \* the cycles of the messages that are being sent
    sent,       \* users with a row of a message that was sent about the alert
    retries,    \* messages sent again so far
    engTx,      \* engine -> the lag of its transaction
    ackTx,      \* user on call -> the lag of the acknowledging transaction
    lost,       \* users who left the organization
    disabled,   \* users whose contact method was disabled
    subs,       \* alert_status_subscriptions -> last_alert_status
    stale,      \* subscriptions whose updated_at is seven days ago
    jobs,       \* subscription -> jobs queued to process it
    updates,    \* subscription -> updates queued since the last change of status
    changes,    \* changes of the alert's status
    escalations \* escalations so far

alertVars  == <<status, multi_ack, author, changes, escalations>>
cycleVars  == <<cycles, due, pending>>
sendVars   == <<sending, sent, retries>>
txVars     == <<engTx, ackTx>>
userVars   == <<lost, disabled>>
statusVars == <<subs, stale, jobs, updates>>
vars == <<alertVars, cycleVars, sendVars, txVars, userVars, statusVars>>

Mishaps == retries + Cardinality(lost) + Cardinality(disabled) + Cardinality(stale)

Init ==
    /\ status = "triggered" /\ multi_ack = FALSE /\ changes = 0 /\ escalations = 0
    /\ author = "none"
    /\ cycles = [c \in {} |-> 0]
    /\ due = [c \in CycleIDs |-> [d \in Delays |-> 0]]
    /\ pending = {} /\ sending = {} /\ sent = {} /\ retries = 0
    /\ engTx = [e \in Engines |-> NoTx] /\ ackTx = [u \in OnCall |-> NoTx]
    /\ lost = {} /\ disabled = {}
    /\ subs = [b \in Subs |-> "none"] /\ jobs = [b \in Subs |-> 0]
    /\ updates = [b \in Subs |-> 0] /\ stale = {}

(* A minute passes; no transaction outlives MaxLag. *)
Older(cycle) ==
    [cycle EXCEPT !.age = Upto(@ + 1, MaxDelay + MaxLag), !.idle = Upto(@ + 1, MaxLag + 2)]

Minute ==
    /\ \A e \in Engines : engTx[e] < MaxLag
    /\ \A u \in OnCall : ackTx[u] < MaxLag
    /\ engTx' = [e \in Engines |-> IF engTx[e] = NoTx THEN NoTx ELSE engTx[e] + 1]
    /\ ackTx' = [u \in OnCall |-> IF ackTx[u] = NoTx THEN NoTx ELSE ackTx[u] + 1]
    /\ cycles' = [c \in DOMAIN cycles |-> Older(cycles[c])]
    /\ UNCHANGED <<alertVars, due, pending, sendVars, userVars, statusVars>>

----------------------------------------------------------------------------
(* The alert: acknowledge, close, escalate                                 *)

SetStatus(s) ==
    /\ status' = s /\ changes' = changes + 1
    /\ updates' = [b \in Subs |-> 0]

(* The acknowledged entry carries the time the transaction began; for a    *)
(* cycle of the user it counts when the cycle is older than that.          *)
Acknowledge(u) ==
    /\ author' = u
    /\ cycles' = [c \in DOMAIN cycles |->
                     [cycles[c] EXCEPT !.acked = @ \/ (c[1] = u /\ cycles[c].age > ackTx[u])]]

AckBegins(u) ==
    /\ u \in OnCall /\ ackTx[u] = NoTx
    /\ ackTx' = [ackTx EXCEPT ![u] = 0]
    /\ UNCHANGED <<alertVars, cycleVars, sendVars, engTx, userVars, statusVars>>

(* UpdateStatusTx: a second acknowledgement is recorded for multi-ack only. *)
(* When the transaction began matters for the users on call alone.         *)
AckEnds(u) ==
    /\ u \in OnCall => ackTx[u] # NoTx
    /\ ackTx' = [v \in OnCall |-> IF v = u THEN NoTx ELSE ackTx[v]]
    /\ \/ /\ status = "triggered" /\ changes < MaxChanges
          /\ SetStatus("active") /\ Acknowledge(u)
       \/ /\ status = "active" /\ multi_ack
          /\ Acknowledge(u)
          /\ UNCHANGED <<status, changes, updates>>
       \/ /\ status = "closed" \/ (status = "active" /\ ~multi_ack)
          /\ UNCHANGED <<status, changes, updates, author, cycles>>
    /\ UNCHANGED <<multi_ack, escalations, due, pending, sendVars, engTx, userVars, subs, stale, jobs>>

AckFails(u) ==
    /\ u \in OnCall /\ ackTx[u] # NoTx
    /\ ackTx' = [ackTx EXCEPT ![u] = NoTx]
    /\ UNCHANGED <<alertVars, cycleVars, sendVars, engTx, userVars, statusVars>>

Close(u) ==
    /\ status # "closed"
    /\ SetStatus("closed")
    /\ author' = u
    /\ UNCHANGED <<multi_ack, escalations, cycleVars, sendVars, txVars, userVars, subs, stale, jobs>>

(* EscalateAsOf: forcing an escalation triggers the alert again. *)
EscalateRequest ==
    /\ status = "active" /\ changes < MaxChanges
    /\ SetStatus("triggered")
    /\ author' = IF escalations > 0 THEN Nobody ELSE "none"
    /\ UNCHANGED <<multi_ack, escalations, cycleVars, sendVars, txVars, userVars, subs, stale, jobs>>

(* The escalation manager starts a cycle for every user on call who still  *)
(* belongs to the organization, and logs the escalation.                   *)
Escalated ==
    /\ status = "triggered" /\ escalations < MaxEscalations
    /\ escalations' = escalations + 1
    /\ multi_ack' \in BOOLEAN
    /\ LET fresh == (OnCall \ lost) \X {escalations + 1}
       IN cycles' = [c \in DOMAIN cycles \cup fresh |->
              IF c \in fresh
              THEN [age |-> 0, last_tick |-> Never, idle |-> 0, multi_ack |-> multi_ack',
                    acked |-> FALSE]
              ELSE cycles[c]]
    /\ author' = Nobody
    /\ UNCHANGED <<status, changes, due, pending, sendVars, txVars, userVars, statusVars>>

----------------------------------------------------------------------------
(* npcyclemanager: one tick of an engine                                   *)

TickBegins(e) ==
    /\ engTx[e] = NoTx
    /\ engTx' = [engTx EXCEPT ![e] = 0]
    /\ UNCHANGED <<alertVars, cycleVars, sendVars, ackTx, userVars, statusVars>>

(* lock_cycles: the cycles without a tick in the last minute. *)
LockCycles(lag) ==
    {c \in DOMAIN cycles : cycles[c].last_tick = Never \/ cycles[c].idle - lag > 1}

\* Variant of Ended in which multi-ack cycles outlive the closing of the alert.
EndedMultiAck(c) == status # "triggered" /\ (~cycles[c].multi_ack \/ cycles[c].acked)

(* deleted: the cycles that an acknowledgement or the closing ends. *)
Ended(c) ==
    /\ status # "triggered"
    /\ status = "closed" \/ ~cycles[c].multi_ack \/ cycles[c].acked

\* Variant of RuleDue that takes the time of the last tick in again.
RuleDueAgain(c, d, lag) == d >= cycles[c].last_tick /\ d <= cycles[c].age - lag

(* inserted: the rules whose delay lies between the last tick and now. *)
RuleDue(c, d, lag) ==
    /\ d > cycles[c].last_tick
    /\ d <= cycles[c].age - lag

(* update: the last tick is the time at which the transaction began, which *)
(* for a cycle in lock_cycles is after the last one (greatest).            *)
Ticked(cycle, lag) ==
    [cycle EXCEPT !.last_tick = Upto(cycle.age - lag, MaxDelay), !.idle = lag]

(* Deleting a cycle deletes its messages that wait. *)
Cascade(deleted) == pending \ deleted

(* The transaction holds the module's lock.  A recipient who left gets no  *)
(* message, and the tick counts.                                           *)
QueueMessages(e) ==
    /\ engTx[e] # NoTx
    /\ LET lag     == engTx[e]
           locked  == LockCycles(lag)
           deleted == {c \in locked : Ended(c)}
           process == locked \ deleted
       IN /\ cycles' = [c \in DOMAIN cycles \ deleted |->
                IF c \in process THEN Ticked(cycles[c], lag) ELSE cycles[c]]
          /\ due' = [c \in CycleIDs |-> [d \in Delays |->
                IF c \in deleted THEN 0
                ELSE IF c \in process /\ RuleDue(c, d, lag) THEN due[c][d] + 1 ELSE due[c][d]]]
          /\ pending' = Cascade(deleted) \cup
                {c \in process : c[1] \notin lost /\ \E d \in Delays : RuleDue(c, d, lag)}
    /\ engTx' = [engTx EXCEPT ![e] = NoTx]
    /\ UNCHANGED <<alertVars, sendVars, ackTx, userVars, statusVars>>

(* ErrNoLock, a contact method deleted meanwhile, any other error. *)
TickFails(e) ==
    /\ engTx[e] # NoTx
    /\ engTx' = [engTx EXCEPT ![e] = NoTx]
    /\ UNCHANGED <<alertVars, cycleVars, sendVars, ackTx, userVars, statusVars>>

----------------------------------------------------------------------------
(* Sending: dedupAlerts, sendMessage                                       *)

(* One of the messages to a user is sent, the others are bundled with it:  *)
(* the end of their cycle no longer deletes those, for cycle_id is null.   *)
SendBegins(u) ==
    /\ \E c \in pending : c[1] = u /\ sending' = sending \cup {c}
    /\ ~ \E c \in sending : c[1] = u
    /\ pending' = {c \in pending : c[1] # u}
    /\ UNCHANGED <<alertVars, cycles, due, sent, retries, txVars, userVars, statusVars>>

(* The first message that is sent subscribes its destination to the status *)
(* (trackStatus), with triggered as the status it knows.  It is the first  *)
(* when OriginalMessageStatus, which orders by sent_at, returns the        *)
(* message itself; of several that were not sent yet any may come first.   *)
(* A failure of the insert is only logged, and nothing keeps a destination *)
(* from being subscribed twice: one column of the unique key is null.      *)
(* Subscriptions do not interact, so that MaxSubs of any number are        *)
(* followed; where nothing changes one may be made that is not.            *)
Subscribe(u) ==
    \/ UNCHANGED <<subs, updates>>
    \/ /\ u \notin sent
       /\ \E b \in Subs : /\ b[1] = u /\ subs[b] = "none" /\ jobs[b] = 0
                          /\ subs' = [subs EXCEPT ![b] = "triggered"]
                          /\ updates' = [updates EXCEPT ![b] = 0]

(* The row is there unless the end of its cycle deleted it meanwhile.  The *)
(* result may not be written, by a process that stops: the row then fails  *)
(* for good when its deadline has passed.                                  *)
RowKept(c) == c \in NoCycle \/ c \in DOMAIN cycles

SendEnds(c) ==
    /\ c \in sending
    /\ sending' = sending \ {c}
    /\ \/ /\ Subscribe(c[1])                       \* the provider took it
          /\ sent' \in {sent, IF RowKept(c) THEN sent \cup {c[1]} ELSE sent}
          /\ UNCHANGED <<pending, retries>>
       \/ UNCHANGED <<pending, sent, retries, subs, updates>>   \* failed for good
       \/ /\ RowKept(c) /\ Mishaps < MaxMishaps    \* failed, to be tried again
          /\ pending' = pending \cup {c} /\ retries' = retries + 1
          /\ UNCHANGED <<sent, subs, updates>>
    /\ UNCHANGED <<alertVars, cycles, due, txVars, userVars, stale, jobs>>

(* A provider that took a message reports later that it failed: the        *)
(* message, which has no cycle any more, is sent again (retryReset clears  *)
(* sent_at).  Another message to the user may have been sent.              *)
ReportedFailed(u) ==
    /\ u \in sent /\ Mishaps < MaxMishaps
    /\ pending' = pending \cup {<<u, 0>>} /\ retries' = retries + 1
    /\ sent' \in {sent, sent \ {u}}
    /\ UNCHANGED <<alertVars, cycles, due, sending, txVars, userVars, statusVars>>

----------------------------------------------------------------------------
(* statusmgr                                                               *)

\* Variant of Outdated that forgets the alerts that were closed.
OutdatedOpen == {b \in Subs \ stale : status # "closed" /\ subs[b] \notin {"none", status}}

(* StatusMgrOutdated: a subscription that was last told something seven    *)
(* days ago is not told any more.                                          *)
Outdated == {b \in Subs \ stale : subs[b] \notin {"none", status}}

(* lookForWork, every minute and after each change of the alert's status. *)
LookForWork ==
    /\ \E b \in Outdated : jobs[b] < MaxJobs
    /\ jobs' = [b \in Subs |-> IF b \in Outdated THEN Upto(jobs[b] + 1, MaxJobs) ELSE jobs[b]]
    /\ UNCHANGED <<alertVars, cycleVars, sendVars, txVars, userVars, subs, stale, updates>>

\* Variant of NothingToDo that relies on the job having been queued for a reason.
NothingToDoTrusting(b) == subs[b] = "none"

(* No subscription any more, or a duplicate or outdated job. *)
NothingToDo(b) == subs[b] \in {"none", status}

(* processSubscription: the subscription and the alert are locked, so that *)
(* a duplicate job finds the subscription up to date.  Users are not told  *)
(* of their own action unless the contact method requires it.              *)
ProcessSubscription(b) ==
    /\ jobs[b] > 0
    /\ jobs' = [jobs EXCEPT ![b] = @ - 1]
    /\ LET u    == b[1]
           by   == author
           gone == by # "none" /\ u \in disabled
           tell == by # "none" /\ ~gone /\ (u \in Forced \/ by # u)
       IN IF NothingToDo(b)
          THEN UNCHANGED <<subs, stale, updates>>
          ELSE /\ subs' = [subs EXCEPT ![b] = IF status = "closed" \/ gone THEN "none" ELSE status]
               /\ updates' = [updates EXCEPT ![b] = IF tell THEN @ + 1 ELSE @]
               /\ stale' = stale \ {b}
    /\ UNCHANGED <<alertVars, cycleVars, sendVars, txVars, userVars>>

(* Seven days pass without an update of the subscription. *)
GoesStale(b) ==
    /\ subs[b] # "none" /\ b \notin stale /\ Mishaps < MaxMishaps
    /\ stale' = stale \cup {b}
    /\ UNCHANGED <<alertVars, cycleVars, sendVars, txVars, userVars, subs, jobs, updates>>

(* cleanup, every hour: StatusMgrCleanupStaleSubs *)
Cleanup ==
    /\ stale # {}
    /\ subs' = [b \in Subs |-> IF b \in stale THEN "none" ELSE subs[b]]
    /\ stale' = {}
    /\ UNCHANGED <<alertVars, cycleVars, sendVars, txVars, userVars, jobs, updates>>

----------------------------------------------------------------------------
(* Users leave, contact methods are disabled                               *)

Leave(u) ==
    /\ u \in OnCall \ lost /\ Mishaps < MaxMishaps
    /\ lost' = lost \cup {u}
    /\ UNCHANGED <<alertVars, cycleVars, sendVars, txVars, disabled, statusVars>>

Disable(u) ==
    /\ u \in OnCall \ disabled /\ Mishaps < MaxMishaps
    /\ disabled' = disabled \cup {u}
    /\ UNCHANGED <<alertVars, cycleVars, sendVars, txVars, lost, statusVars>>

Next ==
    \/ Minute \/ EscalateRequest \/ Escalated \/ LookForWork \/ Cleanup
    \/ \E u \in Users : \/ AckBegins(u) \/ AckEnds(u) \/ AckFails(u) \/ Close(u)
                        \/ SendBegins(u) \/ ReportedFailed(u) \/ Leave(u) \/ Disable(u)
    \/ \E c \in sending : SendEnds(c)
    \/ \E b \in Subs : ProcessSubscription(b) \/ GoesStale(b)
    \/ \E e \in Engines : TickBegins(e) \/ QueueMessages(e) \/ TickFails(e)

(***************************************************************************)
(* Transactions, sends and jobs end; time passes; engines run a cycle every*)
(* five seconds, and their transactions do not all fail; the search for    *)
(* outdated subscriptions runs every minute, the clean-up every hour.      *)
(***************************************************************************)
Fairness ==
    /\ WF_vars(Minute) /\ WF_vars(LookForWork) /\ WF_vars(Cleanup)
    /\ \A e \in Engines : WF_vars(TickBegins(e)) /\ SF_vars(QueueMessages(e))
    /\ \A u \in OnCall : WF_vars(AckEnds(u) \/ AckFails(u))
    /\ \A c \in CycleIDs \cup NoCycle : WF_vars(SendEnds(c))
    /\ \A b \in Subs : WF_vars(ProcessSubscription(b))

Spec == Init /\ [][Next]_vars /\ Fairness

----------------------------------------------------------------------------
(* Properties                                                              *)

Statuses == {"triggered", "active", "closed"}

(* Type correctness of the alert, the cycles and the subscriptions. *)
FollowUpTypeOK ==
    /\ status \in Statuses /\ multi_ack \in BOOLEAN
    /\ author \in Users \cup {Nobody, "none"}
    /\ DOMAIN cycles \subseteq CycleIDs
    /\ \A c \in DOMAIN cycles :
          cycles[c] \in [age : 0..(MaxDelay + MaxLag), idle : 0..(MaxLag + 2),
                         last_tick : {Never} \cup (-MaxLag)..MaxDelay,
                         multi_ack : BOOLEAN, acked : BOOLEAN]
    /\ due \in [CycleIDs -> [Delays -> Nat]]
    /\ pending \subseteq DOMAIN cycles \cup NoCycle
    /\ sending \subseteq CycleIDs \cup NoCycle /\ sent \subseteq OnCall /\ retries \in 0..MaxMishaps
    /\ engTx \in [Engines -> NoTx..MaxLag] /\ ackTx \in [OnCall -> NoTx..MaxLag]
    /\ lost \subseteq Users /\ disabled \subseteq Users
    /\ subs \in [Subs -> {"none", "triggered", "active", "closed"}]
    /\ stale \subseteq {b \in Subs : subs[b] # "none"}
    /\ jobs \in [Subs -> 0..MaxJobs] /\ updates \in [Subs -> Nat]
    /\ changes \in 0..(MaxChanges + 1) /\ escalations \in 0..MaxEscalations

(***************************************************************************)
(* Every notification rule takes effect exactly once in a cycle, at the    *)
(* first tick at or after its delay: none is repeated by engines whose     *)
(* transactions overlap and none is skipped by a tick that came late,      *)
(* failed, or worked with a time before the start of the cycle.            *)
(***************************************************************************)
RulesOnce ==
    FollowUpTypeOK /\ \A c \in CycleIDs, d \in Delays :
        /\ due[c][d] <= 1
        /\ c \in DOMAIN cycles => (due[c][d] = 1 <=> d <= cycles[c].last_tick)

(***************************************************************************)
(* A change of the alert's status is told at most once for a subscription, *)
(* whatever jobs are duplicated and whenever it was made.                  *)
(***************************************************************************)
ToldOnce == \A b \in Subs : updates[b] <= 1

(***************************************************************************)
(* An alert that stays acknowledged or closed stops paging: every cycle,   *)
(* with the messages it still has queued, goes away, except those of a     *)
(* multi-ack step whose user has yet to acknowledge.                       *)
(***************************************************************************)
StopsPaging ==
    <>[](status # "triggered") =>
        <>[](\A c \in DOMAIN cycles : status = "active" /\ cycles[c].multi_ack /\ ~cycles[c].acked)

(***************************************************************************)
(* A destination that is subscribed follows the alert: once the status no  *)
(* longer changes it comes to know it, even when it subscribed after the   *)
(* change and the job of the change found nothing to do; closing           *)
(* unsubscribes it.  The exception is a subscription that was told nothing *)
(* for seven days: it is not told of a change that comes after them, and   *)
(* goes away without it.                                                   *)
(***************************************************************************)
SubsFollow ==
    <>[](\A b \in Subs : subs[b] \in (IF status = "closed" THEN {"none"} ELSE {"none", status}))
=============================================================================
