--------------------------- MODULE AlertEscalation ---------------------------
(***************************************************************************)
(* Alerts and their escalation: alert/store.go changes the status of alerts *)
(* and requests escalations, escalation/store.go and service/store.go edit  *)
(* policies and services, the triggers of the schema keep one               *)
(* escalation_policy_state row per open alert, and                          *)
(* engine/escalationmanager advances those rows.                            *)
(*                                                                         *)
(* The steps of a policy are a sequence: step_number is the position minus  *)
(* one, which the schema's triggers keep without gaps.  Transactions that   *)
(* lock the service row are atomic; inserting an alert and adding a step    *)
(* are split, because neither locks what the other reads.                   *)
(***************************************************************************)
EXTENDS Integers, Sequences

CONSTANTS Alerts, Services, Policies, Steps,
          NoAlert, NoPolicy, NoStep,
          ServiceOf,      \* the service of each alert
          MaxRepeat,      \* largest repeat of a policy (5 in escalation/policy.go)
          MaxRequests,    \* bound on the escalation requests per alert
          MaxChanges      \* bound on the edits of policies and services

ASSUME ServiceAssumption == ServiceOf \in [Alerts -> Services]
ASSUME NoneAssumption == NoAlert \notin Alerts /\ NoPolicy \notin Policies /\ NoStep \notin Steps
ASSUME BoundAssumption == MaxRepeat \in Nat /\ MaxRequests \in Nat /\ MaxChanges \in Nat

VARIABLES alert,      \* alerts.status, "none" before the row is committed
          ep,         \* escalation_policy_state
          steps,      \* escalation_policy_steps by step_number
          repeat,     \* escalation_policies.repeat
          policy,     \* services.escalation_policy_id
          maint,      \* services.maintenance_expires_at: null, in the future, past
          creating,   \* the alert an open transaction inserts under the service's lock
          adding,     \* the step an open transaction inserts
          stage,      \* the next statement of the escalation manager's update
          requests,   \* escalation requests accepted for each alert
          changes     \* edits made

vars == <<alert, ep, steps, repeat, policy, maint, creating, adding, stage, requests, changes>>

admin == <<steps, repeat, policy, maint, changes>>

\* The last three fields are no columns but the history of the row: how often the
\* alert was escalated to the first step, how often the step it was at was deleted,
\* and the largest `repeat` that the policy has had since.
StateRow == [on : BOOLEAN, policy : Policies \cup {NoPolicy}, step : Steps \cup {NoStep},
             num : Nat, loop : 0 .. MaxRepeat + MaxRequests, last : BOOLEAN,
             next : {"null", "wait", "due"}, force : BOOLEAN,
             firsts : Nat, cuts : Nat, most : 0 .. MaxRepeat]

TypeOK ==
  /\ alert \in [Alerts -> {"none", "triggered", "active", "closed"}]
  /\ ep \in [Alerts -> StateRow]
  /\ steps \in [Policies -> Seq(Steps)]
  /\ repeat \in [Policies -> 0 .. MaxRepeat]
  /\ policy \in [Services -> Policies]
  /\ maint \in [Services -> {"off", "on", "past"}]
  /\ creating \in [Services -> [id : Alerts \cup {NoAlert}, tracked : BOOLEAN]]
  /\ adding \in [policy : Policies \cup {NoPolicy}, step : Steps \cup {NoStep}, alerts : SUBSET Alerts]
  /\ stage \in {"oncall", "maint", "cleanup", "new", "deleted", "normal"}
  /\ requests \in [Alerts -> 0 .. MaxRequests]
  /\ changes \in 0 .. MaxChanges

\* A row with the defaults of the table, and the absence of a row.
Row(on, p, most) == [on |-> on, policy |-> p, step |-> NoStep, num |-> 0, loop |-> 0,
                     last |-> FALSE, next |-> "null", force |-> FALSE,
                     firsts |-> 0, cuts |-> 0, most |-> most]
NewState(p) == Row(TRUE, p, repeat[p])
NoState == Row(FALSE, NoPolicy, 0)
NotCreating == [id |-> NoAlert, tracked |-> FALSE]
NotAdding == [policy |-> NoPolicy, step |-> NoStep, alerts |-> {}]

Init ==
  /\ alert = [a \in Alerts |-> "none"]
  /\ ep = [a \in Alerts |-> NoState]
  /\ steps = [p \in Policies |-> <<>>]
  /\ repeat \in [Policies -> 0 .. MaxRepeat]
  /\ policy \in [Services -> Policies]
  /\ maint = [s \in Services |-> "off"]
  /\ creating = [s \in Services |-> NotCreating]
  /\ adding = NotAdding
  /\ stage = "oncall"
  /\ requests = [a \in Alerts |-> 0]
  /\ changes = 0

Open(a) == alert[a] \in {"triggered", "active"}
Unlocked(s) == creating[s] = NotCreating
StepsOf(p) == {steps[p][i] : i \in DOMAIN steps[p]}
AllSteps == UNION {StepsOf(p) : p \in Policies}
StepNumber(p, x) == (CHOOSE i \in DOMAIN steps[p] : steps[p][i] = x) - 1

-----------------------------------------------------------------------------
(* alert/store.go *)

\* The insert, under the lock of the service; the trigger
\* fn_insert_ep_state_on_alert_insert reads the committed step_count.
InsertAlert(a) == LET s == ServiceOf[a] IN
  /\ alert[a] = "none" /\ Unlocked(s)
  /\ creating' = [creating EXCEPT ![s] = [id |-> a, tracked |-> Len(steps[policy[s]]) > 0]]
  /\ UNCHANGED <<alert, ep, adding, stage, requests, admin>>

CommitAlert(s) == LET c == creating[s] IN
  /\ c # NotCreating
  /\ alert' = [alert EXCEPT ![c.id] = "triggered"]
  /\ ep' = [ep EXCEPT ![c.id] = IF c.tracked THEN NewState(policy[s]) ELSE NoState]
  /\ creating' = [creating EXCEPT ![s] = NotCreating]
  /\ UNCHANGED <<adding, stage, requests, admin>>

\* The inserting transaction fails later, for instance on writing the alert log.
RollbackAlert(s) ==
  /\ ~Unlocked(s)
  /\ creating' = [creating EXCEPT ![s] = NotCreating]
  /\ UNCHANGED <<alert, ep, adding, stage, requests, admin>>

\* UpdateStatus, UpdateManyAlertStatus, UpdateStatusByService and CreateOrUpdate
\* of an existing alert: the status only moves towards closed.
Acknowledge(as) ==
  /\ \A a \in as : alert[a] = "triggered" /\ Unlocked(ServiceOf[a])
  /\ alert' = [a \in Alerts |-> IF a \in as THEN "active" ELSE alert[a]]
  /\ UNCHANGED <<ep, creating, adding, stage, requests, admin>>

\* The triggers of the schema keep their names.
fn_clear_ep_state_on_alert_close(as) == [a \in Alerts |-> IF a \in as THEN NoState ELSE ep[a]]

Close(as) ==
  /\ \A a \in as : Open(a) /\ Unlocked(ServiceOf[a])
  /\ alert' = [a \in Alerts |-> IF a \in as THEN "closed" ELSE alert[a]]
  /\ ep' = fn_clear_ep_state_on_alert_close(as)
  /\ UNCHANGED <<creating, adding, stage, requests, admin>>

\* Variant of Requested whose trigger forgets the next escalation time although
\* force_escalation is not set.
RequestedWithoutForce(a) == [ep[a] EXCEPT !.next = IF alert[a] = "active" THEN "null" ELSE @]

\* force_escalation = true fires fn_trig_alert_on_force_escalation, and leaving
\* `active` fires fn_clear_next_esc_on_alert_ack.
Requested(a) == [ep[a] EXCEPT !.force = TRUE, !.next = IF alert[a] = "active" THEN "null" ELSE @]

\* EscalateAsOf: `since` says that the alert has not been escalated after the
\* given time.  A second request changes nothing until the first is served.
EscalateAsOf(a, since) ==
  /\ Open(a) /\ Unlocked(ServiceOf[a]) /\ maint[ServiceOf[a]] = "off"
  /\ ep[a].on /\ ~ep[a].force /\ (since \/ ~ep[a].last)
  /\ requests[a] < MaxRequests
  /\ ep' = [ep EXCEPT ![a] = Requested(a)]
  /\ alert' = [alert EXCEPT ![a] = "triggered"]
  /\ requests' = [requests EXCEPT ![a] = @ + 1]
  /\ UNCHANGED <<creating, adding, stage, admin>>

-----------------------------------------------------------------------------
(* Policies and services *)

Edit == changes < MaxChanges /\ changes' = changes + 1

\* The first step of a policy inserts a row for the open alerts it reads here.
fn_insert_ep_state_on_step_insert(p) ==
  {a \in Alerts : Len(steps[p]) = 0 /\ Open(a) /\ policy[ServiceOf[a]] = p}

\* CreateStepTx.  The insert of the trigger fails on the primary key when one of
\* its alerts still has a row.
AddStep(p, x) ==
  /\ adding = NotAdding /\ x \notin AllSteps
  /\ LET as == fn_insert_ep_state_on_step_insert(p) IN
       /\ \A a \in as : ~ep[a].on
       /\ adding' = [policy |-> p, step |-> x, alerts |-> as]
  /\ Edit
  /\ UNCHANGED <<alert, ep, steps, repeat, policy, maint, creating, stage, requests>>

\* The new rows are checked against the foreign keys when the statement ends:
\* an alert may have been closed since, its service must have kept the policy.
CommitStep ==
  /\ adding # NotAdding
  /\ \A a \in adding.alerts : policy[ServiceOf[a]] = adding.policy /\ Unlocked(ServiceOf[a])
  /\ steps' = [steps EXCEPT ![adding.policy] = Append(@, adding.step)]
  /\ ep' = [a \in Alerts |-> IF a \in adding.alerts THEN NewState(adding.policy) ELSE ep[a]]
  /\ adding' = NotAdding
  /\ UNCHANGED <<alert, repeat, policy, maint, creating, stage, requests, changes>>

RollbackStep ==
  /\ adding # NotAdding
  /\ adding' = NotAdding
  /\ UNCHANGED <<alert, ep, creating, stage, requests, admin>>

\* Lists of different steps of the policy.
Orders(p) == UNION {{f \in [1 .. n -> StepsOf(p)] : \A i, j \in 1 .. n : f[i] = f[j] => i = j} :
                      n \in 0 .. Len(steps[p])}

\* DeleteStepTx and the step list of an updated policy: steps that are left out
\* are deleted, and rows that are at one of them lose their step.
SetSteps(p, order) ==
  /\ adding = NotAdding /\ order # steps[p]
  /\ steps' = [steps EXCEPT ![p] = order]
  /\ ep' = [a \in Alerts |-> IF ep[a].step \in StepsOf(p) \ {order[i] : i \in DOMAIN order}
                             THEN [ep[a] EXCEPT !.step = NoStep, !.cuts = @ + 1] ELSE ep[a]]
  /\ Edit
  /\ UNCHANGED <<alert, repeat, policy, maint, creating, adding, stage, requests>>

SetRepeat(p, n) ==
  /\ repeat[p] # n
  /\ repeat' = [repeat EXCEPT ![p] = n]
  /\ ep' = [a \in Alerts |-> IF ep[a].policy = p /\ ep[a].most < n
                             THEN [ep[a] EXCEPT !.most = n] ELSE ep[a]]
  /\ Edit
  /\ UNCHANGED <<alert, steps, policy, maint, creating, adding, stage, requests>>

\* Variant of SetPolicy whose trigger does not reset the position.
SetPolicyKeepsStep(s, p) ==
  /\ policy[s] # p /\ Unlocked(s)
  /\ policy' = [policy EXCEPT ![s] = p]
  /\ ep' = [a \in Alerts |-> IF ServiceOf[a] = s /\ ep[a].on THEN [ep[a] EXCEPT !.policy = p] ELSE ep[a]]
  /\ Edit
  /\ UNCHANGED <<alert, steps, repeat, maint, creating, adding, stage, requests>>

\* The rows of the service start anew under the other policy.
fn_clear_ep_state_on_svc_ep_change(s, p) ==
  [a \in Alerts |-> IF ServiceOf[a] = s /\ ep[a].on THEN NewState(p) ELSE ep[a]]

\* UpdateTx of a service.
SetPolicy(s, p) ==
  /\ policy[s] # p /\ Unlocked(s)
  /\ policy' = [policy EXCEPT ![s] = p]
  /\ ep' = fn_clear_ep_state_on_svc_ep_change(s, p)
  /\ Edit
  /\ UNCHANGED <<alert, steps, repeat, maint, creating, adding, stage, requests>>

SetMaintenance(s, m) ==
  /\ maint[s] # m /\ Unlocked(s)
  /\ maint' = [maint EXCEPT ![s] = m]
  /\ Edit
  /\ UNCHANGED <<alert, ep, steps, repeat, policy, creating, adding, stage, requests>>

-----------------------------------------------------------------------------
(* engine/escalationmanager: one pass of update, a transaction per statement. *)
(* They wait for an open AddStep, whose trigger locks the table of steps     *)
(* EXCLUSIVE against SHARE and FOR UPDATE, and skip rows of locked services. *)

UpdateOnCall ==
  /\ stage = "oncall" /\ adding = NotAdding
  /\ stage' = "maint"
  /\ UNCHANGED <<alert, ep, creating, adding, requests, admin>>

clearMaintExpiredSvc ==
  /\ stage = "maint" /\ \A s \in Services : maint[s] = "past" => Unlocked(s)
  /\ maint' = [s \in Services |-> IF maint[s] = "past" THEN "off" ELSE maint[s]]
  /\ stage' = "cleanup"
  /\ UNCHANGED <<alert, ep, steps, repeat, policy, creating, adding, requests, changes>>

cleanupNoSteps ==
  /\ stage = "cleanup"
  /\ ep' = [a \in Alerts |-> IF ep[a].on /\ ep[a].step = NoStep /\ Len(steps[ep[a].policy]) = 0
                             THEN NoState ELSE ep[a]]
  /\ stage' = "new"
  /\ UNCHANGED <<alert, creating, adding, requests, admin>>

\* What the three to_escalate selections have in common.
Eligible(a) ==
  /\ ep[a].on /\ (alert[a] = "triggered" \/ ep[a].force)
  /\ maint[ServiceOf[a]] = "off" /\ Unlocked(ServiceOf[a])

\* Variant of IsNew without the condition on the status of the alert.
IsNewAnyStatus(a) ==
  /\ ep[a].on /\ maint[ServiceOf[a]] = "off" /\ Unlocked(ServiceOf[a])
  /\ ~ep[a].last /\ Len(steps[ep[a].policy]) > 0

IsNew(a) == Eligible(a) /\ ~ep[a].last /\ Len(steps[ep[a].policy]) > 0
IsOffStep(a) == Eligible(a) /\ ep[a].last /\ ep[a].step = NoStep /\ Len(steps[ep[a].policy]) > 0

\* Variant of NextNumber that repeats the policy once too often.
NextNumberOnceMore(a) == LET r == ep[a] old == StepNumber(r.policy, r.step) IN
  IF old + 1 < Len(steps[r.policy]) THEN old + 1
  ELSE IF r.force \/ r.loop <= repeat[r.policy] THEN 0 ELSE -1

\* The next step_number, -1 when the policy is exhausted.
NextNumber(a) == LET r == ep[a] old == StepNumber(r.policy, r.step) IN
  IF old + 1 < Len(steps[r.policy]) THEN old + 1
  ELSE IF r.force \/ r.loop < repeat[r.policy] THEN 0 ELSE -1

IsDue(a) ==
  /\ Eligible(a) /\ ep[a].last /\ ep[a].step # NoStep
  /\ ep[a].next = "due" \/ ep[a].force
  /\ NextNumber(a) >= 0

\* The state of a row that has been escalated to step number n.
At(r, n) == [r EXCEPT !.last = TRUE, !.next = "wait", !.num = n, !.force = FALSE,
                      !.step = steps[r.policy][n + 1],
                      !.firsts = IF n = 0 THEN @ + 1 ELSE @]

\* Variant of newPolicies that waits for next_escalation, as normalEscalation does.
newPoliciesWhenDue ==
  /\ stage = "new" /\ adding = NotAdding
  /\ ep' = [a \in Alerts |-> IF IsNew(a) /\ (ep[a].next = "due" \/ ep[a].force)
                             THEN [At(ep[a], 0) EXCEPT !.num = ep[a].num] ELSE ep[a]]
  /\ stage' = "deleted"
  /\ UNCHANGED <<alert, creating, adding, requests, admin>>

newPolicies ==
  /\ stage = "new" /\ adding = NotAdding
  /\ ep' = [a \in Alerts |-> IF IsNew(a) THEN [At(ep[a], 0) EXCEPT !.num = ep[a].num] ELSE ep[a]]
  /\ stage' = "deleted"
  /\ UNCHANGED <<alert, creating, adding, requests, admin>>

\* A row whose step was deleted goes to the step that has its number now, or to
\* the first one; a pass is not counted as a repeat.
deletedSteps ==
  /\ stage = "deleted" /\ adding = NotAdding
  /\ ep' = [a \in Alerts |->
       IF IsOffStep(a)
       THEN At(ep[a], IF ep[a].num >= Len(steps[ep[a].policy]) THEN 0 ELSE ep[a].num)
       ELSE ep[a]]
  /\ stage' = "normal"
  /\ UNCHANGED <<alert, creating, adding, requests, admin>>

\* loop_count counts the passes: the old step was the last one.
Advance(a) == [At(ep[a], NextNumber(a)) EXCEPT !.loop =
  IF StepNumber(ep[a].policy, ep[a].step) + 1 >= Len(steps[ep[a].policy]) THEN @ + 1 ELSE @]

normalEscalation ==
  /\ stage = "normal" /\ adding = NotAdding
  /\ ep' = [a \in Alerts |-> IF IsDue(a) THEN Advance(a) ELSE ep[a]]
  /\ stage' = "oncall"
  /\ UNCHANGED <<alert, creating, adding, requests, admin>>

\* A statement fails: update returns, and the next cycle starts over.
UpdateFails ==
  /\ stage # "oncall"
  /\ stage' = "oncall"
  /\ UNCHANGED <<alert, ep, creating, adding, requests, admin>>

-----------------------------------------------------------------------------
(* Time *)

NextEscalationPasses(a) ==
  /\ ep[a].next = "wait"
  /\ ep' = [ep EXCEPT ![a].next = "due"]
  /\ UNCHANGED <<alert, creating, adding, stage, requests, admin>>

MaintenanceExpires(s) ==
  /\ maint[s] = "on"
  /\ maint' = [maint EXCEPT ![s] = "past"]
  /\ UNCHANGED <<alert, ep, steps, repeat, policy, creating, adding, stage, requests, changes>>

-----------------------------------------------------------------------------

Engine == \/ UpdateOnCall \/ clearMaintExpiredSvc \/ cleanupNoSteps
          \/ newPolicies \/ deletedSteps \/ normalEscalation \/ UpdateFails

Next ==
  \/ \E a \in Alerts : InsertAlert(a) \/ NextEscalationPasses(a)
                       \/ \E since \in BOOLEAN : EscalateAsOf(a, since)
  \/ \E as \in (SUBSET Alerts) \ {{}} : Acknowledge(as) \/ Close(as)
  \/ \E p \in Policies : \/ \E x \in Steps : AddStep(p, x)
                         \/ \E order \in Orders(p) : SetSteps(p, order)
                         \/ \E n \in 0 .. MaxRepeat : SetRepeat(p, n)
  \/ CommitStep \/ RollbackStep
  \/ \E s \in Services : \/ CommitAlert(s) \/ RollbackAlert(s) \/ MaintenanceExpires(s)
                         \/ \E p \in Policies : SetPolicy(s, p)
                         \/ \E m \in {"on", "off"} : SetMaintenance(s, m)
  \/ Engine

Spec == Init /\ [][Next]_vars

\* Open transactions end; the engine runs a cycle every five seconds and no
\* statement fails for ever; clocks advance.
Fairness ==
  /\ \A s \in Services : WF_vars(CommitAlert(s) \/ RollbackAlert(s)) /\ WF_vars(MaintenanceExpires(s))
  /\ \A a \in Alerts : WF_vars(NextEscalationPasses(a))
  /\ WF_vars(CommitStep \/ RollbackStep)
  /\ SF_vars(UpdateOnCall) /\ SF_vars(clearMaintExpiredSvc) /\ SF_vars(cleanupNoSteps)
  /\ SF_vars(newPolicies) /\ SF_vars(deletedSteps) /\ SF_vars(normalEscalation)

FairSpec == Spec /\ Fairness

-----------------------------------------------------------------------------
(* Properties *)

\* Only the service's current policy is used for an alert: its row names that
\* policy, and the step it is at is one of that policy's present steps.
OnlyActivePolicy ==
  \A a \in Alerts : ep[a].on =>
    /\ ep[a].policy = policy[ServiceOf[a]]
    /\ ep[a].step # NoStep => ep[a].step \in StepsOf(ep[a].policy)

\* An unacknowledged alert that has been escalated is never without the time of
\* its next escalation: reopening it by a request clears the time, and the
\* request itself then stands for it until it is served.
NeverWithoutNext ==
  \A a \in Alerts : alert[a] = "triggered" /\ ep[a].on /\ ep[a].last /\ ep[a].step # NoStep
    => ep[a].next # "null" \/ ep[a].force

\* Under a policy an alert is escalated to the first step once, again at most as
\* often as the largest `repeat` the policy has had since, once more for each
\* request, and once for each time the step it was at was deleted, which
\* loop_count does not count: however steps are added, moved and deleted and
\* `repeat` is changed, nothing else starts the policy again.
RepeatsBounded ==
  \A a \in Alerts : ep[a].firsts <= 1 + ep[a].most + requests[a] + ep[a].cuts

\* A closed alert stays closed and is not escalated, even when its row was
\* created by an AddStep that still saw it open.
ClosedIsFinal ==
  [][\A a \in Alerts : alert[a] = "closed" => /\ alert'[a] = "closed"
                                              /\ ~ep[a].last => ~ep'[a].last]_vars

\* An alert whose escalation is pending, because it is new, its step was deleted,
\* its time has come or a request was made, does not stay so.
EscalationServed ==
  \A a \in Alerts : (IsNew(a) \/ IsOffStep(a) \/ IsDue(a)) ~> ~(IsNew(a) \/ IsOffStep(a) \/ IsDue(a))
===============================================================================
