------------------------ MODULE AlertEscalationProofs ------------------------
(***************************************************************************)
(* Proofs about AlertEscalation for any alerts, services, policies and      *)
(* steps and any bounds.                                                    *)
(***************************************************************************)
EXTENDS AlertEscalation, TLAPS

\* loop_count, and the escalations to the first step that it and the deletions
\* account for, after n requests: a pending request stands for the repeat it may
\* cause, and a row that is new or lost its step for the escalation to come.
Counted(r, n) ==
  /\ r.loop <= r.most + n
  /\ r.force => r.loop < r.most + n
  /\ r.firsts <= 1 + r.loop + r.cuts
  /\ ~r.last \/ r.step = NoStep => r.firsts <= r.loop + r.cuts

LoopInv ==
  \A a \in Alerts : /\ Counted(ep[a], requests[a])
                    /\ ep[a].on => repeat[ep[a].policy] <= ep[a].most

\* A closed alert has no row, or one that was never escalated nor requested.
ClosedInv == \A a \in Alerts : alert[a] = "closed" => ~ep[a].last /\ ~ep[a].force

\* An alert that is being inserted does not exist yet and belongs to the locked
\* service; a step that is being inserted belongs to a policy.
TxInv ==
  /\ \A s \in Services : creating[s] # NotCreating =>
       /\ creating[s].id \in Alerts /\ ServiceOf[creating[s].id] = s
       /\ alert[creating[s].id] = "none"
  /\ adding # NotAdding => adding.policy \in Policies /\ adding.step \in Steps

IInv == TypeOK /\ OnlyActivePolicy /\ NeverWithoutNext /\ LoopInv /\ ClosedInv /\ TxInv

-----------------------------------------------------------------------------
(* Facts about rows *)

LEMMA NewStateType ==
  ASSUME TypeOK
  PROVE  /\ \A p \in Policies : NewState(p) \in StateRow
         /\ NoState \in StateRow
<1>1. 0 \in 0 .. MaxRepeat + MaxRequests /\ 0 \in 0 .. MaxRepeat /\ 0 \in Nat
  BY BoundAssumption
<1>2. \A p \in Policies : repeat[p] \in 0 .. MaxRepeat
  BY DEF TypeOK
<1> QED
  BY <1>1, <1>2 DEF NewState, NoState, Row, StateRow

\* The fields of a row that has not been escalated.
LEMMA NewStateFields ==
  /\ \A p \in Policies : /\ NewState(p).policy = p /\ NewState(p).step = NoStep
                         /\ NewState(p).loop = 0 /\ ~NewState(p).last /\ ~NewState(p).force
                         /\ NewState(p).most = repeat[p]
  /\ NoState.loop = 0 /\ ~NoState.on /\ ~NoState.last /\ ~NoState.force
BY DEF NewState, NoState, Row

\* It has nothing to account for.
LEMMA NewStateCounted ==
  ASSUME TypeOK, NEW n \in Nat
  PROVE  /\ \A p \in Policies : Counted(NewState(p), n)
         /\ Counted(NoState, n)
<1>1. \A p \in Policies : repeat[p] \in Nat
  BY BoundAssumption DEF TypeOK
<1>2. \A p \in Policies : /\ NewState(p).loop = 0 /\ NewState(p).firsts = 0 /\ NewState(p).cuts = 0
                           /\ NewState(p).most = repeat[p] /\ ~NewState(p).force
  BY DEF NewState, Row
<1>3. NoState.loop = 0 /\ NoState.firsts = 0 /\ NoState.cuts = 0 /\ NoState.most = 0 /\ ~NoState.force
  BY DEF NoState, Row
<1> QED
  BY <1>1, <1>2, <1>3 DEF Counted

\* Escalating a row to an existing step gives a well-formed row at that step.
LEMMA AtFacts ==
  ASSUME TypeOK, NEW r \in StateRow, r.policy \in Policies,
         NEW n \in Nat, n < Len(steps[r.policy])
  PROVE  /\ At(r, n) \in StateRow
         /\ At(r, n).step \in StepsOf(r.policy)
         /\ At(r, n).policy = r.policy /\ At(r, n).on = r.on /\ At(r, n).loop = r.loop
         /\ ~At(r, n).force /\ At(r, n).next = "wait" /\ At(r, n).last
         /\ At(r, n).most = r.most /\ At(r, n).cuts = r.cuts
         /\ At(r, n).firsts = IF n = 0 THEN r.firsts + 1 ELSE r.firsts
         /\ At(r, n).step # NoStep
<1>1. steps[r.policy] \in Seq(Steps)
  BY DEF TypeOK
<1>2. n + 1 \in DOMAIN steps[r.policy]
  BY <1>1
<1>3. steps[r.policy][n + 1] \in Steps
  BY <1>1, <1>2
<1> DEFINE x == steps[r.policy][n + 1]
           f == IF n = 0 THEN r.firsts + 1 ELSE r.firsts
<1>4. x \in Steps /\ x \in StepsOf(r.policy) /\ x # NoStep
  BY <1>2, <1>3, NoneAssumption DEF StepsOf
<1>5. f \in Nat
  BY DEF StateRow
<1>6. At(r, n) = [r EXCEPT !.last = TRUE, !.next = "wait", !.num = n, !.force = FALSE,
                           !.step = x, !.firsts = f]
  BY DEF At, StateRow
<1>7. f = IF n = 0 THEN r.firsts + 1 ELSE r.firsts
  OBVIOUS
<1> HIDE DEF x, f
<1>8. At(r, n) \in StateRow
  BY <1>4, <1>5, <1>6 DEF StateRow
<1>9. /\ At(r, n).step = x /\ At(r, n).firsts = f
      /\ At(r, n).policy = r.policy /\ At(r, n).on = r.on /\ At(r, n).loop = r.loop
      /\ ~At(r, n).force /\ At(r, n).next = "wait" /\ At(r, n).last
      /\ At(r, n).most = r.most /\ At(r, n).cuts = r.cuts
  BY <1>6 DEF StateRow
<1> QED
  BY <1>4, <1>7, <1>8, <1>9

\* The step a row is at has a number, and the next one is a number or -1.
LEMMA NumberFacts ==
  ASSUME TypeOK, OnlyActivePolicy, NEW a \in Alerts, ep[a].on, ep[a].step # NoStep
  PROVE  /\ ep[a].policy \in Policies
         /\ StepNumber(ep[a].policy, ep[a].step) \in 0 .. Len(steps[ep[a].policy]) - 1
         /\ NextNumber(a) \in -1 .. Len(steps[ep[a].policy]) - 1
<1>1. ep[a].policy \in Policies
  BY ServiceAssumption DEF TypeOK, OnlyActivePolicy
<1>2. steps[ep[a].policy] \in Seq(Steps)
  BY <1>1 DEF TypeOK
<1>3. \E i \in DOMAIN steps[ep[a].policy] : steps[ep[a].policy][i] = ep[a].step
  BY DEF OnlyActivePolicy, StepsOf
<1>4. StepNumber(ep[a].policy, ep[a].step) \in 0 .. Len(steps[ep[a].policy]) - 1
  BY <1>2, <1>3 DEF StepNumber
<1>5. NextNumber(a) \in -1 .. Len(steps[ep[a].policy]) - 1
  BY <1>2, <1>4 DEF NextNumber
<1> QED
  BY <1>1, <1>4, <1>5

-----------------------------------------------------------------------------
(* The invariant is inductive *)

LEMMA InitIInv == Init => IInv
<1> SUFFICES ASSUME Init PROVE IInv
  OBVIOUS
<1>1. TypeOK
  <2>1. NoState \in StateRow
    BY BoundAssumption DEF NoState, Row, StateRow
  <2> QED
    BY <2>1, BoundAssumption DEF Init, TypeOK, NotCreating, NotAdding
<1>2. OnlyActivePolicy /\ NeverWithoutNext /\ ClosedInv
  BY DEF Init, OnlyActivePolicy, NeverWithoutNext, ClosedInv, NoState, Row
<1>3. LoopInv
  <2>1. 0 \in Nat /\ \A a \in Alerts : ep[a] = NoState /\ requests[a] = 0
    BY DEF Init
  <2>2. Counted(NoState, 0) /\ ~NoState.on
    BY <1>1, <2>1, NewStateCounted, NewStateFields
  <2> QED
    BY <2>1, <2>2 DEF LoopInv
<1>4. TxInv
  BY DEF Init, TxInv
<1> QED
  BY <1>1, <1>2, <1>3, <1>4 DEF IInv

LEMMA InsertAlertStep ==
  ASSUME IInv, NEW a \in Alerts, InsertAlert(a) PROVE IInv'
<1> USE DEF IInv, InsertAlert, admin
<1>1. TypeOK'
  BY ServiceAssumption DEF TypeOK
<1>2. OnlyActivePolicy' /\ NeverWithoutNext' /\ ClosedInv' /\ LoopInv'
  BY DEF OnlyActivePolicy, NeverWithoutNext, ClosedInv, LoopInv, StepsOf
<1>3. TxInv'
  BY ServiceAssumption DEF TxInv, TypeOK
<1> QED
  BY <1>1, <1>2, <1>3

LEMMA CommitAlertStep ==
  ASSUME IInv, NEW s \in Services, CommitAlert(s) PROVE IInv'
<1> DEFINE c == creating[s].id
<1> USE DEF IInv, CommitAlert, admin
<1>1. c \in Alerts /\ ServiceOf[c] = s /\ alert[c] = "none" /\ policy[s] \in Policies
  BY DEF TxInv, TypeOK
<1>2. ep'[c] \in {NewState(policy[s]), NoState} /\ ep'[c] \in StateRow
  BY <1>1, NewStateType DEF TypeOK
<1>3. \A b \in Alerts : b # c => ep'[b] = ep[b] /\ alert'[b] = alert[b]
  BY DEF TypeOK
<1>4. alert'[c] = "triggered"
  BY <1>1 DEF TypeOK
<1>5. TypeOK'
  BY <1>1, <1>2 DEF TypeOK, NotCreating
<1>6. OnlyActivePolicy'
  BY <1>1, <1>2, <1>3 DEF OnlyActivePolicy, NewState, NoState, Row, StepsOf
<1>7. NeverWithoutNext' /\ ClosedInv'
  BY <1>2, <1>3, <1>4 DEF NeverWithoutNext, ClosedInv, NewState, NoState, Row
<1>8. LoopInv'
  <2>1. requests[c] \in Nat /\ repeat[policy[s]] \in Nat
    BY <1>1, BoundAssumption DEF TypeOK
  <2>2. Counted(ep'[c], requests[c]) /\ (ep'[c].on => repeat[ep'[c].policy] <= ep'[c].most)
    BY <1>1, <1>2, <2>1, NewStateFields, NewStateCounted
  <2> QED
    BY <1>3, <2>2 DEF LoopInv
<1>9. TxInv'
  BY <1>1, <1>3 DEF TxInv, TypeOK
<1> QED
  BY <1>5, <1>6, <1>7, <1>8, <1>9

LEMMA RollbackAlertStep ==
  ASSUME IInv, NEW s \in Services, RollbackAlert(s) PROVE IInv'
<1> USE DEF IInv, RollbackAlert, admin
<1>1. TypeOK'
  BY DEF TypeOK, NotCreating
<1>2. OnlyActivePolicy' /\ NeverWithoutNext' /\ ClosedInv' /\ LoopInv'
  BY DEF OnlyActivePolicy, NeverWithoutNext, ClosedInv, LoopInv, StepsOf
<1>3. TxInv'
  BY DEF TxInv, TypeOK
<1> QED
  BY <1>1, <1>2, <1>3

LEMMA AcknowledgeStep ==
  ASSUME IInv, NEW as \in SUBSET Alerts, Acknowledge(as) PROVE IInv'
<1> USE DEF IInv, Acknowledge, admin
<1>1. TypeOK'
  BY DEF TypeOK
<1>2. OnlyActivePolicy' /\ LoopInv'
  BY DEF OnlyActivePolicy, LoopInv, StepsOf
<1>3. NeverWithoutNext' /\ ClosedInv'
  BY DEF NeverWithoutNext, ClosedInv
<1>4. TxInv'
  BY DEF TxInv
<1> QED
  BY <1>1, <1>2, <1>3, <1>4

LEMMA CloseStep ==
  ASSUME IInv, NEW as \in SUBSET Alerts, Close(as) PROVE IInv'
<1> USE DEF IInv, Close, fn_clear_ep_state_on_alert_close, admin
<1>1. TypeOK'
  BY NewStateType DEF TypeOK
<1>2. \A a \in Alerts : ep'[a] = IF a \in as THEN NoState ELSE ep[a]
  OBVIOUS
<1>3. \A a \in Alerts : alert'[a] = IF a \in as THEN "closed" ELSE alert[a]
  OBVIOUS
<1>4. OnlyActivePolicy'
  <2> HIDE DEF Close
  <2>1. steps' = steps /\ policy' = policy
    BY DEF Close
  <2> SUFFICES ASSUME NEW a \in Alerts, ep'[a].on
               PROVE  /\ ep'[a].policy = policy[ServiceOf[a]]
                      /\ ep'[a].step # NoStep => ep'[a].step \in StepsOf(ep'[a].policy)
    BY <2>1 DEF OnlyActivePolicy, StepsOf
  <2>2. ep'[a] = ep[a]
    <3>1. CASE a \in as
      <4>1. ep'[a] = NoState
        BY <1>2, <3>1
      <4> QED BY <4>1, NewStateFields
    <3>2. CASE a \notin as
      BY <1>2, <3>2
    <3> QED BY <3>1, <3>2
  <2> QED
    BY <2>2 DEF OnlyActivePolicy
<1>5. LoopInv'
  <2>1. \A a \in Alerts : requests[a] \in Nat
    BY DEF TypeOK
  <2>2. \A a \in Alerts : Counted(NoState, requests[a]) /\ ~NoState.on
    BY <2>1, NewStateCounted, NewStateFields
  <2> QED
    BY <1>2, <2>2 DEF LoopInv
<1>6. NeverWithoutNext' /\ ClosedInv'
  BY <1>2, <1>3 DEF NeverWithoutNext, ClosedInv, NoState, Row
<1>7. TxInv'
  BY <1>3 DEF TxInv, Open
<1> QED
  BY <1>1, <1>4, <1>5, <1>6, <1>7

LEMMA EscalateStep ==
  ASSUME IInv, NEW a \in Alerts, NEW since \in BOOLEAN, EscalateAsOf(a, since) PROVE IInv'
<1> USE DEF IInv, EscalateAsOf, admin
<1>1. /\ ep'[a] = Requested(a) /\ alert'[a] = "triggered"
      /\ requests'[a] = requests[a] + 1
      /\ \A b \in Alerts : b # a => ep'[b] = ep[b] /\ alert'[b] = alert[b] /\ requests'[b] = requests[b]
  BY DEF TypeOK
<1>2. /\ Requested(a) \in StateRow /\ Requested(a).force
      /\ Requested(a).policy = ep[a].policy /\ Requested(a).step = ep[a].step
      /\ Requested(a).loop = ep[a].loop /\ Requested(a).on /\ Requested(a).last = ep[a].last
      /\ Requested(a).most = ep[a].most /\ Requested(a).cuts = ep[a].cuts
      /\ Requested(a).firsts = ep[a].firsts
  <2>1. ep[a] \in StateRow
    BY DEF TypeOK
  <2>2. CASE alert[a] = "active"
    BY <2>1, <2>2 DEF Requested, StateRow
  <2>3. CASE alert[a] # "active"
    BY <2>1, <2>3 DEF Requested, StateRow
  <2> QED
    BY <2>2, <2>3
<1>3. TypeOK'
  <2>1. ep' \in [Alerts -> StateRow] /\ alert' \in [Alerts -> {"none", "triggered", "active", "closed"}]
    BY <1>2 DEF TypeOK
  <2>2. requests' \in [Alerts -> 0 .. MaxRequests]
    BY BoundAssumption DEF TypeOK
  <2> QED
    BY <2>1, <2>2 DEF TypeOK
<1>4. OnlyActivePolicy'
  BY <1>1, <1>2 DEF OnlyActivePolicy, StepsOf
<1>5. LoopInv'
  <2>1. /\ ep[a].loop \in Nat /\ ep[a].most \in Nat /\ requests[a] \in Nat
        /\ Counted(ep[a], requests[a])
    BY BoundAssumption DEF TypeOK, StateRow, LoopInv
  <2>2. Counted(ep'[a], requests'[a])
    BY <1>1, <1>2, <2>1 DEF Counted
  <2>3. ep'[a].on => repeat[ep'[a].policy] <= ep'[a].most
    BY <1>1, <1>2 DEF LoopInv
  <2> QED
    BY <1>1, <2>2, <2>3 DEF LoopInv
<1>6. NeverWithoutNext' /\ ClosedInv'
  BY <1>1, <1>2 DEF NeverWithoutNext, ClosedInv
<1>7. TxInv'
  BY <1>1 DEF TxInv, Open
<1> QED
  BY <1>3, <1>4, <1>5, <1>6, <1>7

LEMMA AddStepStep ==
  ASSUME IInv, NEW p \in Policies, NEW x \in Steps, AddStep(p, x) PROVE IInv'
<1> USE DEF IInv, AddStep, fn_insert_ep_state_on_step_insert
<1>1. /\ adding'.policy = p /\ adding'.step = x /\ adding'.alerts \in SUBSET Alerts
      /\ adding' = [policy |-> adding'.policy, step |-> adding'.step, alerts |-> adding'.alerts]
  OBVIOUS
<1>2. changes' \in 0 .. MaxChanges
  BY BoundAssumption DEF TypeOK, Edit
<1>3. TypeOK'
  BY <1>1, <1>2 DEF TypeOK
<1>4. OnlyActivePolicy' /\ NeverWithoutNext' /\ ClosedInv'
  BY DEF OnlyActivePolicy, NeverWithoutNext, ClosedInv, StepsOf
<1>5. LoopInv'
  BY DEF LoopInv
<1>6. TxInv'
  BY <1>1 DEF TxInv
<1> QED
  BY <1>3, <1>4, <1>5, <1>6

LEMMA CommitStepStep ==
  ASSUME IInv, CommitStep PROVE IInv'
<1> DEFINE p == adding.policy
           as == adding.alerts
<1> USE DEF IInv
<1>1. p \in Policies /\ adding.step \in Steps /\ as \in SUBSET Alerts
  BY DEF CommitStep, TxInv, TypeOK
<1>2. /\ steps' = [steps EXCEPT ![p] = Append(@, adding.step)]
      /\ \A a \in Alerts : ep'[a] = IF a \in as THEN NewState(p) ELSE ep[a]
      /\ \A a \in as : policy[ServiceOf[a]] = p
      /\ UNCHANGED <<alert, repeat, policy, maint, creating, stage, requests, changes>>
      /\ adding' = NotAdding
  BY DEF CommitStep
<1>3. \A q \in Policies : \A i \in DOMAIN steps[q] :
        i \in DOMAIN steps'[q] /\ steps'[q][i] = steps[q][i]
  <2> SUFFICES ASSUME NEW q \in Policies, NEW i \in DOMAIN steps[q]
               PROVE  i \in DOMAIN steps'[q] /\ steps'[q][i] = steps[q][i]
    OBVIOUS
  <2>1. steps[q] \in Seq(Steps)
    BY DEF TypeOK
  <2> QED
    BY <1>1, <1>2, <2>1 DEF TypeOK
<1>4. TypeOK'
  <2>1. steps' \in [Policies -> Seq(Steps)]
    BY <1>1, <1>2 DEF TypeOK
  <2>2. ep' \in [Alerts -> StateRow]
    BY <1>1, NewStateType DEF CommitStep, TypeOK
  <2> QED
    BY <1>2, <2>1, <2>2 DEF TypeOK, NotAdding
<1>5. OnlyActivePolicy'
  <2> SUFFICES ASSUME NEW a \in Alerts, ep'[a].on
               PROVE  /\ ep'[a].policy = policy'[ServiceOf[a]]
                      /\ ep'[a].step # NoStep =>
                           \E i \in DOMAIN steps'[ep'[a].policy] : ep'[a].step = steps'[ep'[a].policy][i]
    BY DEF OnlyActivePolicy, StepsOf
  <2>1. CASE a \in as
    <3>1. ep'[a].policy = p /\ ep'[a].step = NoStep
      BY <1>1, <1>2, <2>1 DEF NewState, Row
    <3>2. policy'[ServiceOf[a]] = p
      BY <1>2, <2>1
    <3> QED
      BY <3>1, <3>2
  <2>2. CASE a \notin as
    <3>1. ep'[a] = ep[a] /\ ep[a].policy = policy'[ServiceOf[a]] /\ ep[a].policy \in Policies
      BY <1>2, <2>2, ServiceAssumption DEF OnlyActivePolicy, TypeOK
    <3>2. ep[a].step # NoStep =>
            \E i \in DOMAIN steps[ep[a].policy] : ep[a].step = steps[ep[a].policy][i]
      BY <3>1 DEF OnlyActivePolicy, StepsOf
    <3> QED
      BY <1>3, <3>1, <3>2
  <2> QED
    BY <2>1, <2>2
<1>6. \A a \in as : ~ep'[a].last /\ ~ep'[a].force /\ ep'[a].loop = 0
  BY <1>1, <1>2 DEF NewState, Row
<1>7. NeverWithoutNext' /\ ClosedInv'
  BY <1>2, <1>6 DEF NeverWithoutNext, ClosedInv
<1>8. LoopInv'
  <2>1. \A a \in Alerts : requests[a] \in Nat
    BY DEF TypeOK
  <2>2. p \in Policies /\ repeat[p] \in Nat
    BY <1>1, BoundAssumption DEF TypeOK
  <2>3. \A a \in as : Counted(ep'[a], requests[a]) /\ repeat[ep'[a].policy] <= ep'[a].most
    BY <1>1, <1>2, <2>1, <2>2, NewStateFields, NewStateCounted
  <2> QED
    BY <1>2, <2>3 DEF LoopInv
<1>9. TxInv'
  BY <1>2 DEF TxInv
<1> QED
  BY <1>4, <1>5, <1>7, <1>8, <1>9

LEMMA RollbackStepStep ==
  ASSUME IInv, RollbackStep PROVE IInv'
<1> USE DEF IInv, RollbackStep, admin
<1>1. TypeOK'
  BY DEF TypeOK, NotAdding
<1>2. OnlyActivePolicy' /\ NeverWithoutNext' /\ ClosedInv' /\ LoopInv' /\ TxInv'
  BY DEF OnlyActivePolicy, NeverWithoutNext, ClosedInv, LoopInv, TxInv, StepsOf
<1> QED
  BY <1>1, <1>2

LEMMA SetStepsStep ==
  ASSUME IInv, NEW p \in Policies, NEW order \in Orders(p), SetSteps(p, order) PROVE IInv'
<1> DEFINE gone == StepsOf(p) \ {order[i] : i \in DOMAIN order}
<1> USE DEF IInv
<1>1. order \in Seq(Steps)
  <2>1. steps[p] \in Seq(Steps) /\ StepsOf(p) \subseteq Steps
    BY DEF TypeOK, StepsOf
  <2>2. PICK n \in 0 .. Len(steps[p]) : order \in [1 .. n -> StepsOf(p)]
    BY DEF Orders
  <2> QED
    BY <2>1, <2>2
<1>2. /\ steps' = [steps EXCEPT ![p] = order]
      /\ \A a \in Alerts : ep'[a] = IF ep[a].step \in gone
                                      THEN [ep[a] EXCEPT !.step = NoStep, !.cuts = @ + 1] ELSE ep[a]
      /\ ep' = [a \in Alerts |-> ep'[a]]
      /\ UNCHANGED <<alert, repeat, policy, maint, creating, adding, stage, requests>>
  BY DEF SetSteps
<1> HIDE DEF gone
<1>3. \A a \in Alerts :
        /\ ep'[a] \in StateRow /\ ep'[a].on = ep[a].on /\ ep'[a].policy = ep[a].policy
        /\ ep'[a].loop = ep[a].loop /\ ep'[a].last = ep[a].last /\ ep'[a].force = ep[a].force
        /\ ep'[a].next = ep[a].next /\ ep'[a].step \in {ep[a].step, NoStep}
        /\ ep'[a].step # NoStep => ep[a].step \notin gone
        /\ Counted(ep'[a], requests[a]) /\ ep'[a].most = ep[a].most
  <2> SUFFICES ASSUME NEW a \in Alerts
               PROVE  /\ ep'[a] \in StateRow /\ ep'[a].on = ep[a].on /\ ep'[a].policy = ep[a].policy
                      /\ ep'[a].loop = ep[a].loop /\ ep'[a].last = ep[a].last /\ ep'[a].force = ep[a].force
                      /\ ep'[a].next = ep[a].next /\ ep'[a].step \in {ep[a].step, NoStep}
                      /\ ep'[a].step # NoStep => ep[a].step \notin gone
                      /\ Counted(ep'[a], requests[a]) /\ ep'[a].most = ep[a].most
    OBVIOUS
  <2>1. /\ ep[a] \in StateRow /\ Counted(ep[a], requests[a])
        /\ ep[a].firsts \in Nat /\ ep[a].cuts \in Nat /\ ep[a].loop \in Nat
    BY BoundAssumption DEF TypeOK, LoopInv, StateRow
  <2>2. CASE ep[a].step \in gone
    <3> DEFINE k == ep[a].cuts + 1
    <3>1. k \in Nat /\ k = ep[a].cuts + 1
      BY <2>1
    <3>2. ep'[a] = [ep[a] EXCEPT !.step = NoStep, !.cuts = k]
      BY <1>2, <2>2, Zenon
    <3> HIDE DEF k
    <3>3. /\ ep'[a] \in StateRow /\ ep'[a].on = ep[a].on /\ ep'[a].policy = ep[a].policy
          /\ ep'[a].loop = ep[a].loop /\ ep'[a].last = ep[a].last /\ ep'[a].force = ep[a].force
          /\ ep'[a].next = ep[a].next /\ ep'[a].step = NoStep /\ ep'[a].most = ep[a].most
          /\ ep'[a].firsts = ep[a].firsts /\ ep'[a].cuts = k
      BY <2>1, <3>1, <3>2 DEF StateRow
    <3>4. Counted(ep'[a], requests[a])
      BY <2>1, <3>1, <3>3 DEF Counted
    <3> QED
      BY <3>3, <3>4
  <2>3. CASE ep[a].step \notin gone
    BY <1>2, <2>1, <2>3
  <2> QED
    BY <2>2, <2>3
<1>4. TypeOK'
  <2>1. steps' \in [Policies -> Seq(Steps)]
    BY <1>1, <1>2 DEF TypeOK
  <2>2. ep' \in [Alerts -> StateRow]
    <3>1. \A a \in Alerts : ep'[a] \in StateRow
      BY <1>3
    <3> QED BY <1>2, <3>1
  <2>3. changes' \in 0 .. MaxChanges
    <3>1. changes < MaxChanges /\ changes' = changes + 1
      BY DEF SetSteps, Edit
    <3> QED BY <3>1, BoundAssumption DEF TypeOK
  <2> QED
    BY <1>2, <2>1, <2>2, <2>3 DEF TypeOK
<1>5. OnlyActivePolicy'
  <2> SUFFICES ASSUME NEW a \in Alerts, ep'[a].on
               PROVE  /\ ep'[a].policy = policy'[ServiceOf[a]]
                      /\ ep'[a].step # NoStep =>
                           \E i \in DOMAIN steps'[ep'[a].policy] : ep'[a].step = steps'[ep'[a].policy][i]
    BY DEF OnlyActivePolicy, StepsOf
  <2>1. ep[a].on /\ ep'[a].policy = ep[a].policy /\ ep[a].policy = policy'[ServiceOf[a]]
    BY <1>2, <1>3 DEF OnlyActivePolicy
  <2>2. ep[a].policy \in Policies
    BY <2>1, ServiceAssumption DEF OnlyActivePolicy, TypeOK
  <2>3. ASSUME ep'[a].step # NoStep
        PROVE  \E i \in DOMAIN steps'[ep'[a].policy] : ep'[a].step = steps'[ep'[a].policy][i]
    <3>1. ep'[a].step = ep[a].step /\ ep[a].step \in StepsOf(ep[a].policy) /\ ep[a].step \notin gone
      BY <1>3, <2>1, <2>3 DEF OnlyActivePolicy
    <3>2. CASE ep[a].policy = p
      <4>1. \E i \in DOMAIN order : ep[a].step = order[i]
        BY <3>1, <3>2 DEF gone
      <4>2. steps'[p] = order
        BY <1>2 DEF TypeOK
      <4> QED
        BY <2>1, <3>1, <3>2, <4>1, <4>2
    <3>3. CASE ep[a].policy # p
      <4>1. steps'[ep[a].policy] = steps[ep[a].policy]
        BY <1>2, <2>2, <3>3 DEF TypeOK
      <4> QED
        BY <2>1, <3>1, <4>1 DEF StepsOf
    <3> QED
      BY <3>2, <3>3
  <2> QED
    BY <2>1, <2>3
<1>6. NeverWithoutNext' /\ ClosedInv'
  BY <1>2, <1>3 DEF NeverWithoutNext, ClosedInv
<1>7. LoopInv'
  BY <1>2, <1>3 DEF LoopInv
<1>8. TxInv'
  BY <1>2 DEF TxInv
<1> QED
  BY <1>4, <1>5, <1>6, <1>7, <1>8

LEMMA SetRepeatStep ==
  ASSUME IInv, NEW p \in Policies, NEW n \in 0 .. MaxRepeat, SetRepeat(p, n) PROVE IInv'
<1> USE DEF IInv
<1>1. /\ \A a \in Alerts : ep'[a] = IF ep[a].policy = p /\ ep[a].most < n
                                    THEN [ep[a] EXCEPT !.most = n] ELSE ep[a]
      /\ ep' = [a \in Alerts |-> ep'[a]] /\ repeat' = [repeat EXCEPT ![p] = n]
      /\ UNCHANGED <<alert, steps, policy, maint, creating, adding, stage, requests>>
  BY DEF SetRepeat
<1>2. ASSUME NEW a \in Alerts
      PROVE  /\ ep'[a] \in StateRow /\ ep'[a].on = ep[a].on /\ ep'[a].policy = ep[a].policy
             /\ ep'[a].last = ep[a].last /\ ep'[a].force = ep[a].force
             /\ ep'[a].next = ep[a].next /\ ep'[a].step = ep[a].step
             /\ Counted(ep'[a], requests[a])
             /\ ep'[a].most >= ep[a].most /\ (ep[a].policy = p => ep'[a].most >= n)
  <2>1. /\ ep[a] \in StateRow /\ Counted(ep[a], requests[a])
        /\ ep[a].loop \in Nat /\ ep[a].most \in Nat /\ requests[a] \in Nat /\ n \in Nat
    BY BoundAssumption DEF TypeOK, LoopInv, StateRow
  <2>2. CASE ep[a].policy = p /\ ep[a].most < n
    <3>1. ep'[a] = [ep[a] EXCEPT !.most = n]
      BY <1>1, <2>2
    <3>2. /\ ep'[a] \in StateRow /\ ep'[a].on = ep[a].on /\ ep'[a].policy = ep[a].policy
          /\ ep'[a].last = ep[a].last /\ ep'[a].force = ep[a].force /\ ep'[a].next = ep[a].next
          /\ ep'[a].step = ep[a].step /\ ep'[a].loop = ep[a].loop /\ ep'[a].most = n
          /\ ep'[a].firsts = ep[a].firsts /\ ep'[a].cuts = ep[a].cuts
      BY <2>1, <3>1 DEF StateRow
    <3> QED
      BY <2>1, <2>2, <3>2 DEF Counted
  <2>3. CASE ~(ep[a].policy = p /\ ep[a].most < n)
    <3>1. ep'[a] = ep[a]
      BY <1>1, <2>3
    <3> QED
      BY <2>1, <2>3, <3>1
  <2> QED
    BY <2>2, <2>3
<1>3. TypeOK'
  <2>1. ep' \in [Alerts -> StateRow] /\ repeat' \in [Policies -> 0 .. MaxRepeat]
    BY <1>1, <1>2 DEF TypeOK
  <2>2. changes' \in 0 .. MaxChanges
    BY BoundAssumption DEF SetRepeat, Edit, TypeOK
  <2> QED
    BY <1>1, <2>1, <2>2 DEF TypeOK
<1>4. OnlyActivePolicy' /\ NeverWithoutNext' /\ ClosedInv' /\ TxInv'
  BY <1>1, <1>2 DEF OnlyActivePolicy, NeverWithoutNext, ClosedInv, TxInv, StepsOf
<1>5. LoopInv'
  <2> SUFFICES ASSUME NEW a \in Alerts, ep'[a].on
               PROVE  repeat'[ep'[a].policy] <= ep'[a].most
    BY <1>1, <1>2 DEF LoopInv
  <2>1. /\ ep[a].policy \in Policies /\ repeat[ep[a].policy] <= ep[a].most
        /\ ep[a].most \in Nat /\ ep'[a].most \in Nat /\ repeat[ep[a].policy] \in Nat
    <3>1. ep[a].on /\ ep[a] \in StateRow /\ ep'[a] \in StateRow
      BY <1>2 DEF TypeOK
    <3>2. ep[a].policy = policy[ServiceOf[a]] /\ repeat[ep[a].policy] <= ep[a].most
      BY <3>1 DEF LoopInv, OnlyActivePolicy
    <3>3. ep[a].policy \in Policies
      BY <3>2, ServiceAssumption DEF TypeOK
    <3>4. repeat[ep[a].policy] \in Nat
      BY <3>3, BoundAssumption DEF TypeOK
    <3>5. ep[a].most \in Nat /\ ep'[a].most \in Nat
      BY <3>1, BoundAssumption DEF StateRow
    <3> QED
      BY <3>2, <3>3, <3>4, <3>5
  <2>2. repeat'[ep[a].policy] = IF ep[a].policy = p THEN n ELSE repeat[ep[a].policy]
    BY <1>1, <2>1 DEF TypeOK
  <2> QED
    BY <1>2, <2>1, <2>2
<1> QED
  BY <1>3, <1>4, <1>5

LEMMA SetPolicyStep ==
  ASSUME IInv, NEW s \in Services, NEW p \in Policies, SetPolicy(s, p) PROVE IInv'
<1> USE DEF IInv
<1>1. /\ policy' = [policy EXCEPT ![s] = p]
      /\ \A a \in Alerts : ep'[a] = IF ServiceOf[a] = s /\ ep[a].on THEN NewState(p) ELSE ep[a]
      /\ ep' = [a \in Alerts |-> ep'[a]]
      /\ UNCHANGED <<alert, steps, repeat, maint, creating, adding, stage, requests>>
  BY DEF SetPolicy, fn_clear_ep_state_on_svc_ep_change
<1>2. \A a \in Alerts : ep'[a] = NewState(p) \/ ep'[a] = ep[a]
  BY <1>1
<1>3. /\ NewState(p).policy = p /\ NewState(p).step = NoStep /\ NewState(p).loop = 0
      /\ ~NewState(p).last /\ ~NewState(p).force /\ NewState(p) \in StateRow
  BY NewStateFields, NewStateType
<1>4. TypeOK'
  <2>1. ep' \in [Alerts -> StateRow]
    BY <1>1, <1>2, <1>3 DEF TypeOK
  <2>2. changes' \in 0 .. MaxChanges
    BY BoundAssumption DEF SetPolicy, fn_clear_ep_state_on_svc_ep_change, Edit, TypeOK
  <2> QED
    BY <1>1, <2>1, <2>2 DEF TypeOK
<1>5. OnlyActivePolicy'
  <2> SUFFICES ASSUME NEW a \in Alerts, ep'[a].on
               PROVE  /\ ep'[a].policy = policy'[ServiceOf[a]]
                      /\ ep'[a].step # NoStep =>
                           \E i \in DOMAIN steps'[ep'[a].policy] : ep'[a].step = steps'[ep'[a].policy][i]
    BY DEF OnlyActivePolicy, StepsOf
  <2>1. CASE ServiceOf[a] = s /\ ep[a].on
    <3>1. policy'[s] = p /\ ep'[a] = NewState(p)
      BY <1>1, <2>1 DEF TypeOK
    <3> QED
      BY <1>3, <2>1, <3>1
  <2>2. CASE ServiceOf[a] # s
    <3>1. ep'[a] = ep[a] /\ policy'[ServiceOf[a]] = policy[ServiceOf[a]] /\ steps' = steps
      BY <1>1, <2>2, ServiceAssumption DEF TypeOK
    <3> QED
      BY <3>1 DEF OnlyActivePolicy, StepsOf
  <2>3. CASE ~ep[a].on
    BY <1>1, <2>3
  <2> QED
    BY <2>1, <2>2, <2>3
<1>6. NeverWithoutNext' /\ ClosedInv'
  BY <1>1, <1>2, <1>3 DEF NeverWithoutNext, ClosedInv
<1>7. LoopInv'
  <2>1. repeat[p] \in Nat /\ NewState(p).most = repeat[p] /\ \A a \in Alerts : requests[a] \in Nat
    BY BoundAssumption, NewStateFields DEF TypeOK
  <2>2. \A a \in Alerts : Counted(NewState(p), requests[a])
    BY <2>1, NewStateCounted
  <2> QED
    BY <1>1, <1>2, <1>3, <2>1, <2>2 DEF LoopInv
<1>8. TxInv'
  BY <1>1 DEF TxInv
<1> QED
  BY <1>4, <1>5, <1>6, <1>7, <1>8

LEMMA MaintenanceStep ==
  ASSUME IInv, NEW s \in Services,
         (\E m \in {"on", "off"} : SetMaintenance(s, m)) \/ MaintenanceExpires(s)
  PROVE  IInv'
<1> USE DEF IInv
<1>1. UNCHANGED <<alert, ep, steps, repeat, policy, creating, adding, stage, requests>>
  BY DEF SetMaintenance, MaintenanceExpires
<1>2. TypeOK'
  <2>1. maint' \in [Services -> {"off", "on", "past"}]
    BY DEF SetMaintenance, MaintenanceExpires, TypeOK
  <2>2. changes' \in 0 .. MaxChanges
    <3>1. CASE \E m \in {"on", "off"} : SetMaintenance(s, m)
      BY <3>1, BoundAssumption DEF SetMaintenance, Edit, TypeOK
    <3>2. CASE MaintenanceExpires(s)
      BY <3>2 DEF MaintenanceExpires, TypeOK
    <3> QED
      BY <3>1, <3>2
  <2> QED
    BY <1>1, <2>1, <2>2 DEF TypeOK
<1>3. OnlyActivePolicy' /\ NeverWithoutNext' /\ ClosedInv' /\ LoopInv' /\ TxInv'
  BY <1>1 DEF OnlyActivePolicy, NeverWithoutNext, ClosedInv, LoopInv, TxInv, StepsOf
<1> QED
  BY <1>2, <1>3

-----------------------------------------------------------------------------
(* The escalation manager *)

\* What a statement of the escalation manager does to the row of an alert: it
\* leaves it, deletes it, or puts it at a step of its policy within the repeats.
Escalated(a) ==
  /\ ep'[a] \in StateRow /\ ep'[a].policy = ep[a].policy /\ ep'[a].on = ep[a].on
  /\ ep'[a].step \in StepsOf(ep[a].policy) /\ ep'[a].next = "wait" /\ ~ep'[a].force
  /\ alert[a] # "closed" /\ Counted(ep'[a], requests[a]) /\ ep'[a].most = ep[a].most

\* Such a statement keeps the invariant.
LEMMA EngineStep ==
  ASSUME IInv, ep' = [a \in Alerts |-> ep'[a]],
         \A a \in Alerts : ep'[a] = ep[a] \/ ep'[a] = NoState \/ Escalated(a),
         maint' \in [Services -> {"off", "on", "past"}],
         stage' \in {"oncall", "maint", "cleanup", "new", "deleted", "normal"},
         UNCHANGED <<alert, steps, repeat, policy, creating, adding, requests, changes>>
  PROVE  IInv'
<1> USE DEF IInv
<1>1. TypeOK'
  <2>1. ep' \in [Alerts -> StateRow]
    BY NewStateType DEF TypeOK, Escalated
  <2> QED
    BY <2>1 DEF TypeOK
<1>2. OnlyActivePolicy'
  <2> SUFFICES ASSUME NEW a \in Alerts, ep'[a].on
               PROVE  /\ ep'[a].policy = policy[ServiceOf[a]]
                      /\ ep'[a].step # NoStep =>
                           \E i \in DOMAIN steps[ep'[a].policy] : ep'[a].step = steps[ep'[a].policy][i]
    BY DEF OnlyActivePolicy, StepsOf
  <2>1. CASE ep'[a] = ep[a]
    BY <2>1 DEF OnlyActivePolicy, StepsOf
  <2>2. CASE ep'[a] = NoState
    BY <2>2, NewStateFields
  <2>3. CASE Escalated(a)
    BY <2>3 DEF Escalated, OnlyActivePolicy, StepsOf
  <2> QED
    BY <2>1, <2>2, <2>3
<1>3. NeverWithoutNext' /\ ClosedInv'
  <2> SUFFICES ASSUME NEW a \in Alerts
               PROVE  /\ alert[a] = "triggered" /\ ep'[a].on /\ ep'[a].last /\ ep'[a].step # NoStep
                           => ep'[a].next # "null" \/ ep'[a].force
                      /\ alert[a] = "closed" => ~ep'[a].last /\ ~ep'[a].force
    BY DEF NeverWithoutNext, ClosedInv
  <2>1. CASE ep'[a] = ep[a]
    BY <2>1 DEF NeverWithoutNext, ClosedInv
  <2>2. CASE ep'[a] = NoState
    BY <2>2, NewStateFields
  <2>3. CASE Escalated(a)
    BY <2>3 DEF Escalated
  <2> QED
    BY <2>1, <2>2, <2>3
<1>4. LoopInv'
  <2> SUFFICES ASSUME NEW a \in Alerts
               PROVE  /\ Counted(ep'[a], requests[a])
                      /\ ep'[a].on => repeat[ep'[a].policy] <= ep'[a].most
    BY DEF LoopInv
  <2>1. CASE ep'[a] = ep[a]
    BY <2>1 DEF LoopInv
  <2>2. CASE ep'[a] = NoState
    <3>1. requests[a] \in Nat
      BY DEF TypeOK
    <3> QED
      BY <2>2, <3>1, NewStateFields, NewStateCounted
  <2>3. CASE Escalated(a)
    BY <2>3 DEF Escalated, LoopInv
  <2> QED
    BY <2>1, <2>2, <2>3
<1>5. TxInv'
  BY DEF TxInv
<1> QED
  BY <1>1, <1>2, <1>3, <1>4, <1>5

\* A selected row is not the row of a closed alert, and its policy exists.
LEMMA EligibleFacts ==
  ASSUME IInv, NEW a \in Alerts, Eligible(a)
  PROVE  /\ alert[a] # "closed" /\ ep[a] \in StateRow /\ ep[a].policy \in Policies
         /\ Counted(ep[a], requests[a]) /\ steps[ep[a].policy] \in Seq(Steps)
         /\ ep[a].loop \in Nat /\ ep[a].most \in Nat /\ requests[a] \in Nat
         /\ ep[a].firsts \in Nat /\ ep[a].cuts \in Nat
<1>1. ep[a].policy \in Policies
  BY ServiceAssumption DEF IInv, TypeOK, OnlyActivePolicy, Eligible
<1> QED
  BY <1>1, BoundAssumption DEF IInv, TypeOK, ClosedInv, LoopInv, Eligible, StateRow

LEMMA newPoliciesStep ==
  ASSUME IInv, newPolicies PROVE IInv'
<1>1. \A a \in Alerts : ep'[a] = ep[a] \/ Escalated(a)
  <2> SUFFICES ASSUME NEW a \in Alerts, IsNew(a) PROVE Escalated(a)
    BY DEF newPolicies
  <2>1. ep'[a] = [At(ep[a], 0) EXCEPT !.num = ep[a].num]
    BY DEF newPolicies
  <2>2. Eligible(a) /\ 0 < Len(steps[ep[a].policy]) /\ 0 \in Nat
    BY DEF IsNew
  <2>3. /\ At(ep[a], 0) \in StateRow
        /\ At(ep[a], 0).step \in StepsOf(ep[a].policy)
        /\ At(ep[a], 0).policy = ep[a].policy /\ At(ep[a], 0).on = ep[a].on
        /\ At(ep[a], 0).loop = ep[a].loop
        /\ ~At(ep[a], 0).force /\ At(ep[a], 0).next = "wait"
        /\ At(ep[a], 0).most = ep[a].most /\ At(ep[a], 0).cuts = ep[a].cuts
        /\ At(ep[a], 0).firsts = ep[a].firsts + 1 /\ At(ep[a], 0).step # NoStep
        /\ At(ep[a], 0).last
    BY <2>2, AtFacts, EligibleFacts DEF IInv
  <2>4. ep[a].num \in Nat
    BY <2>2, EligibleFacts DEF StateRow
  <2>5. /\ ep'[a] \in StateRow /\ ep'[a].policy = ep[a].policy /\ ep'[a].on = ep[a].on
        /\ ep'[a].step = At(ep[a], 0).step /\ ep'[a].next = "wait" /\ ~ep'[a].force
        /\ ep'[a].loop = ep[a].loop /\ ep'[a].most = ep[a].most /\ ep'[a].cuts = ep[a].cuts
        /\ ep'[a].firsts = ep[a].firsts + 1 /\ ep'[a].last
    BY <2>1, <2>3, <2>4 DEF StateRow
  <2>6. ~ep[a].last
    BY DEF IsNew
  <2>7. Counted(ep'[a], requests[a])
    BY <2>2, <2>3, <2>5, <2>6, EligibleFacts DEF Counted
  <2> QED
    BY <2>2, <2>3, <2>5, <2>7, EligibleFacts DEF Escalated
<1> QED
  BY <1>1, EngineStep DEF newPolicies, admin, IInv, TypeOK

LEMMA deletedStepsStep ==
  ASSUME IInv, deletedSteps PROVE IInv'
<1>1. \A a \in Alerts : ep'[a] = ep[a] \/ Escalated(a)
  <2> SUFFICES ASSUME NEW a \in Alerts, IsOffStep(a) PROVE Escalated(a)
    BY DEF deletedSteps
  <2>1. Eligible(a) /\ Len(steps[ep[a].policy]) > 0
    BY DEF IsOffStep
  <2>2. /\ ep[a] \in StateRow /\ ep[a].num \in Nat /\ Len(steps[ep[a].policy]) \in Nat
        /\ ep[a].policy \in Policies
    BY <2>1, EligibleFacts DEF StateRow
  <2>3. PICK n \in Nat : n < Len(steps[ep[a].policy]) /\ ep'[a] = At(ep[a], n)
    <3>1. CASE ep[a].num >= Len(steps[ep[a].policy])
      BY <2>1, <3>1 DEF deletedSteps
    <3>2. CASE ~(ep[a].num >= Len(steps[ep[a].policy]))
      BY <2>2, <3>2 DEF deletedSteps
    <3> QED
      BY <3>1, <3>2
  <2>4. /\ At(ep[a], n) \in StateRow
        /\ At(ep[a], n).step \in StepsOf(ep[a].policy)
        /\ At(ep[a], n).policy = ep[a].policy /\ At(ep[a], n).on = ep[a].on
        /\ At(ep[a], n).loop = ep[a].loop
        /\ ~At(ep[a], n).force /\ At(ep[a], n).next = "wait" /\ At(ep[a], n).last
        /\ At(ep[a], n).most = ep[a].most /\ At(ep[a], n).cuts = ep[a].cuts
        /\ At(ep[a], n).firsts \in {ep[a].firsts, ep[a].firsts + 1} /\ At(ep[a], n).step # NoStep
    BY <2>2, <2>3, AtFacts DEF IInv
  <2>5. ep[a].step = NoStep
    BY DEF IsOffStep
  <2>6. Counted(At(ep[a], n), requests[a])
    BY <2>1, <2>4, <2>5, EligibleFacts DEF Counted
  <2> QED
    BY <2>1, <2>3, <2>4, <2>6, EligibleFacts DEF Escalated
<1> QED
  BY <1>1, EngineStep DEF deletedSteps, admin, IInv, TypeOK

LEMMA normalEscalationStep ==
  ASSUME IInv, normalEscalation PROVE IInv'
<1>1. \A a \in Alerts : ep'[a] = ep[a] \/ Escalated(a)
  <2> SUFFICES ASSUME NEW a \in Alerts, IsDue(a) PROVE Escalated(a)
    BY DEF normalEscalation
  <2> DEFINE r == ep[a]
             n == NextNumber(a)
             old == StepNumber(r.policy, r.step)
             wraps == old + 1 >= Len(steps[r.policy])
  <2>1. Eligible(a) /\ r.on /\ r.step # NoStep /\ n >= 0
    BY DEF IsDue, Eligible
  <2>2. /\ r \in StateRow /\ r.policy \in Policies /\ Len(steps[r.policy]) \in Nat
        /\ r.loop \in Nat /\ requests[a] \in Nat /\ requests[a] <= MaxRequests
        /\ repeat[r.policy] \in Nat /\ repeat[r.policy] <= MaxRepeat
    <3>1. r \in StateRow /\ r.policy \in Policies /\ Len(steps[r.policy]) \in Nat /\ r.loop \in Nat
      BY <2>1, EligibleFacts
    <3>2. requests[a] \in 0 .. MaxRequests /\ repeat[r.policy] \in 0 .. MaxRepeat
      BY <3>1 DEF IInv, TypeOK
    <3> QED BY <3>1, <3>2, BoundAssumption
  <2>3. /\ old \in 0 .. Len(steps[r.policy]) - 1
        /\ n \in Nat /\ n < Len(steps[r.policy])
    BY <2>1, <2>2, NumberFacts DEF IInv
  <2>4. /\ At(r, n) \in StateRow
        /\ At(r, n).step \in StepsOf(r.policy)
        /\ At(r, n).policy = r.policy /\ At(r, n).on = r.on
        /\ At(r, n).loop = r.loop /\ At(r, n).last
        /\ ~At(r, n).force /\ At(r, n).next = "wait"
        /\ At(r, n).most = r.most /\ At(r, n).cuts = r.cuts
        /\ At(r, n).firsts = IF n = 0 THEN r.firsts + 1 ELSE r.firsts
        /\ At(r, n).step # NoStep
    BY <2>2, <2>3, AtFacts DEF IInv
  <2>5. ep'[a] = [At(r, n) EXCEPT !.loop = IF wraps THEN @ + 1 ELSE @]
    BY DEF normalEscalation, Advance
  <2>6. /\ Counted(r, requests[a]) /\ repeat[r.policy] <= r.most
        /\ r.most \in Nat /\ r.most <= MaxRepeat /\ r.firsts \in Nat /\ r.cuts \in Nat
    BY <2>1, <2>2, EligibleFacts, BoundAssumption DEF IInv, LoopInv, StateRow
  <2>7. wraps => r.loop + 1 <= r.most + requests[a]
    <3> SUFFICES ASSUME wraps PROVE r.loop + 1 <= r.most + requests[a]
      OBVIOUS
    <3>1. r.force \/ r.loop < repeat[r.policy]
      BY <2>1, <2>2, <2>3 DEF NextNumber
    <3>2. CASE r.force
      <4>1. r.loop < r.most + requests[a]
        BY <2>6, <3>2 DEF Counted
      <4> QED
        BY <2>2, <2>6, <4>1
    <3>3. CASE r.loop < repeat[r.policy]
      BY <2>2, <2>6, <3>3
    <3> QED
      BY <3>1, <3>2, <3>3
  <2>8. ~wraps => n # 0
    BY <2>2, <2>3 DEF NextNumber
  <2> HIDE DEF r, n, old, wraps
  <2>9. CASE wraps
    <3>1. r.loop + 1 \in 0 .. MaxRepeat + MaxRequests
      BY <2>2, <2>6, <2>7, <2>9, BoundAssumption
    <3>2. ep'[a] = [At(r, n) EXCEPT !.loop = r.loop + 1]
      BY <2>4, <2>5, <2>9 DEF StateRow
    <3>3. /\ ep'[a] \in StateRow /\ ep'[a].policy = r.policy /\ ep'[a].on = r.on
          /\ ep'[a].step = At(r, n).step /\ ep'[a].next = "wait" /\ ~ep'[a].force
          /\ ep'[a].loop = r.loop + 1 /\ ep'[a].last /\ ep'[a].most = r.most
          /\ ep'[a].cuts = r.cuts /\ ep'[a].firsts = At(r, n).firsts
      BY <2>4, <3>1, <3>2 DEF StateRow
    <3>4. ep'[a].step # NoStep /\ ep'[a].firsts \in {r.firsts, r.firsts + 1}
      BY <2>4, <3>3
    <3>5. r.firsts <= 1 + r.loop + r.cuts
      BY <2>6 DEF Counted
    <3>6. ep'[a].firsts <= 1 + ep'[a].loop + ep'[a].cuts
      BY <2>2, <2>6, <3>3, <3>4, <3>5
    <3>7. ep'[a].loop <= ep'[a].most + requests[a]
      BY <2>7, <2>9, <3>3
    <3>8. Counted(ep'[a], requests[a])
      BY <3>3, <3>4, <3>6, <3>7 DEF Counted
    <3> QED
      BY <2>1, <2>4, <3>3, <3>8, EligibleFacts DEF Escalated, r
  <2>10. CASE ~wraps
    <3>1. ep'[a] = At(r, n)
      BY <2>4, <2>5, <2>10 DEF StateRow
    <3>2. Counted(ep'[a], requests[a])
      BY <2>2, <2>4, <2>6, <2>8, <2>10, <3>1 DEF Counted
    <3> QED
      BY <2>1, <2>4, <3>1, <3>2, EligibleFacts DEF Escalated, r
  <2> QED
    BY <2>9, <2>10
<1> QED
  BY <1>1, EngineStep DEF normalEscalation, admin, IInv, TypeOK

LEMMA OtherEngineStep ==
  ASSUME IInv, UpdateOnCall \/ clearMaintExpiredSvc \/ cleanupNoSteps \/ UpdateFails PROVE IInv'
<1>1. ep \in [Alerts -> StateRow] /\ maint \in [Services -> {"off", "on", "past"}]
  BY DEF IInv, TypeOK
<1>2. ep' = [a \in Alerts |-> ep'[a]]
  BY <1>1 DEF UpdateOnCall, clearMaintExpiredSvc, cleanupNoSteps, UpdateFails
<1>3. \A a \in Alerts : ep'[a] = ep[a] \/ ep'[a] = NoState
  BY DEF UpdateOnCall, clearMaintExpiredSvc, cleanupNoSteps, UpdateFails
<1>4. maint' \in [Services -> {"off", "on", "past"}]
  BY <1>1 DEF UpdateOnCall, clearMaintExpiredSvc, cleanupNoSteps, UpdateFails, admin
<1>5. stage' \in {"oncall", "maint", "cleanup", "new", "deleted", "normal"}
  BY DEF UpdateOnCall, clearMaintExpiredSvc, cleanupNoSteps, UpdateFails
<1>6. UNCHANGED <<alert, steps, repeat, policy, creating, adding, requests, changes>>
  BY DEF UpdateOnCall, clearMaintExpiredSvc, cleanupNoSteps, UpdateFails, admin
<1> QED
  BY <1>2, <1>3, <1>4, <1>5, <1>6, EngineStep

LEMMA NextEscalationPassesStep ==
  ASSUME IInv, NEW a \in Alerts, NextEscalationPasses(a) PROVE IInv'
<1> USE DEF IInv, NextEscalationPasses, admin
<1>1. /\ ep[a] \in StateRow
      /\ ep'[a] = [ep[a] EXCEPT !.next = "due"]
      /\ \A b \in Alerts : b # a => ep'[b] = ep[b]
  BY DEF TypeOK
<1>2. /\ ep'[a] \in StateRow /\ ep'[a].on = ep[a].on /\ ep'[a].policy = ep[a].policy
      /\ ep'[a].loop = ep[a].loop /\ ep'[a].last = ep[a].last /\ ep'[a].force = ep[a].force
      /\ ep'[a].next = "due" /\ ep'[a].step = ep[a].step /\ ep'[a].most = ep[a].most
      /\ ep'[a].firsts = ep[a].firsts /\ ep'[a].cuts = ep[a].cuts
  BY <1>1 DEF StateRow
<1>3. TypeOK'
  BY <1>1, <1>2 DEF TypeOK
<1>4. OnlyActivePolicy'
  BY <1>1, <1>2 DEF OnlyActivePolicy, StepsOf
<1>5. NeverWithoutNext' /\ ClosedInv' /\ LoopInv' /\ TxInv'
  BY <1>1, <1>2 DEF NeverWithoutNext, ClosedInv, LoopInv, Counted, TxInv
<1> QED
  BY <1>3, <1>4, <1>5

LEMMA NextIInv == IInv /\ [Next]_vars => IInv'
<1> SUFFICES ASSUME IInv, [Next]_vars PROVE IInv'
  OBVIOUS
<1>1. CASE Next
  <2>1. ASSUME NEW a \in Alerts,
               InsertAlert(a) \/ NextEscalationPasses(a) \/ \E since \in BOOLEAN : EscalateAsOf(a, since)
        PROVE  IInv'
    BY <2>1, InsertAlertStep, NextEscalationPassesStep, EscalateStep
  <2>2. ASSUME NEW as \in (SUBSET Alerts) \ {{}}, Acknowledge(as) \/ Close(as)
        PROVE  IInv'
    BY <2>2, AcknowledgeStep, CloseStep
  <2>3. ASSUME NEW p \in Policies,
               \/ \E x \in Steps : AddStep(p, x)
               \/ \E order \in Orders(p) : SetSteps(p, order)
               \/ \E n \in 0 .. MaxRepeat : SetRepeat(p, n)
        PROVE  IInv'
    BY <2>3, AddStepStep, SetStepsStep, SetRepeatStep
  <2>4. ASSUME CommitStep \/ RollbackStep PROVE IInv'
    BY <2>4, CommitStepStep, RollbackStepStep
  <2>5. ASSUME NEW s \in Services,
               \/ CommitAlert(s) \/ RollbackAlert(s) \/ MaintenanceExpires(s)
               \/ \E p \in Policies : SetPolicy(s, p)
               \/ \E m \in {"on", "off"} : SetMaintenance(s, m)
        PROVE  IInv'
    BY <2>5, CommitAlertStep, RollbackAlertStep, SetPolicyStep, MaintenanceStep
  <2>6. ASSUME Engine PROVE IInv'
    BY <2>6, newPoliciesStep, deletedStepsStep, normalEscalationStep, OtherEngineStep DEF Engine
  <2> QED
    BY <1>1, <2>1, <2>2, <2>3, <2>4, <2>5, <2>6 DEF Next
<1>2. CASE UNCHANGED vars
  BY <1>2 DEF vars, IInv, TypeOK, OnlyActivePolicy, NeverWithoutNext, LoopInv, ClosedInv, TxInv, StepsOf
<1> QED
  BY <1>1, <1>2

-----------------------------------------------------------------------------
(* The results *)

\* IInv holds in every reachable state, for any sets and bounds.
THEOREM Inductive == Spec => []IInv
<1>1. Init => IInv
  BY InitIInv
<1>2. IInv /\ [Next]_vars => IInv'
  BY NextIInv
<1> QED
  BY <1>1, <1>2, PTL DEF Spec

\* The rows of escalation_policy_state, the policies and the open transactions
\* of alert/store.go and escalation/store.go stay well formed; loop_count stays
\* within the repeats and the requests.
THEOREM TypeCorrect == Spec => []TypeOK
<1>1. IInv => TypeOK
  BY DEF IInv
<1> QED
  BY <1>1, Inductive, PTL

\* However edits of policies and services interleave with the triggers and with
\* the statements of the escalation manager, an alert is only at a present step
\* of its service's policy.
THEOREM ActivePolicyOnly == Spec => []OnlyActivePolicy
<1>1. IInv => OnlyActivePolicy
  BY DEF IInv
<1> QED
  BY <1>1, Inductive, PTL

\* An unacknowledged, escalated alert always has the time of its next escalation
\* or a pending request: clearing next_escalation never strands it.
THEOREM NextIsKnown == Spec => []NeverWithoutNext
<1>1. IInv => NeverWithoutNext
  BY DEF IInv
<1> QED
  BY <1>1, Inductive, PTL

\* newPolicies, deletedSteps and normalEscalation escalate an alert to the first
\* step of its policy at most 1 + `repeat` times, plus once for each request of
\* EscalateAsOf and each time its step was deleted under it.
THEOREM BoundedRepeats == Spec => []RepeatsBounded
<1>1. ASSUME IInv PROVE RepeatsBounded
  <2> SUFFICES ASSUME NEW a \in Alerts
               PROVE  ep[a].firsts <= 1 + ep[a].most + requests[a] + ep[a].cuts
    BY DEF RepeatsBounded
  <2>1. /\ ep[a].firsts \in Nat /\ ep[a].most \in Nat /\ ep[a].cuts \in Nat /\ ep[a].loop \in Nat
        /\ requests[a] \in Nat
    BY <1>1, BoundAssumption DEF IInv, TypeOK, StateRow
  <2>2. ep[a].firsts <= 1 + ep[a].loop + ep[a].cuts /\ ep[a].loop <= ep[a].most + requests[a]
    BY <1>1 DEF IInv, LoopInv, Counted
  <2> QED
    BY <2>1, <2>2
<1> QED
  BY <1>1, Inductive, PTL

\* Every step leaves a closed alert closed.
LEMMA ClosedStaysClosed ==
  ASSUME IInv, Next, NEW a \in Alerts, alert[a] = "closed" PROVE alert'[a] = "closed"
<1>1. CASE UNCHANGED alert
  BY <1>1
<1>2. ASSUME NEW s \in Services, CommitAlert(s) PROVE alert'[a] = "closed"
  <2>1. alert[creating[s].id] = "none"
    BY <1>2 DEF IInv, TxInv, CommitAlert
  <2> QED
    BY <1>2, <2>1 DEF CommitAlert, IInv, TypeOK
<1>3. ASSUME NEW b \in Alerts, NEW since \in BOOLEAN, EscalateAsOf(b, since) PROVE alert'[a] = "closed"
  BY <1>3 DEF EscalateAsOf, Open, IInv, TypeOK
<1>4. ASSUME NEW as \in SUBSET Alerts, Acknowledge(as) \/ Close(as) PROVE alert'[a] = "closed"
  BY <1>4 DEF Acknowledge, Close
<1>5. \/ UNCHANGED alert
      \/ \E s \in Services : CommitAlert(s)
      \/ \E b \in Alerts, since \in BOOLEAN : EscalateAsOf(b, since)
      \/ \E as \in SUBSET Alerts : Acknowledge(as) \/ Close(as)
  BY DEF Next, Engine, InsertAlert, RollbackAlert, NextEscalationPasses, AddStep, SetSteps, SetRepeat,
         CommitStep, RollbackStep, MaintenanceExpires, SetPolicy, SetMaintenance, UpdateOnCall,
         clearMaintExpiredSvc, cleanupNoSteps, newPolicies, deletedSteps, normalEscalation, UpdateFails
<1> QED
  BY <1>1, <1>2, <1>3, <1>4, <1>5

\* No request, edit or pass of the escalation manager reopens a closed alert or
\* escalates a row that an AddStep created for it too late.
THEOREM ClosedForGood == Spec => ClosedIsFinal
<1>1. ASSUME IInv, IInv', [Next]_vars
      PROVE  [\A a \in Alerts : alert[a] = "closed" => /\ alert'[a] = "closed"
                                                       /\ ~ep[a].last => ~ep'[a].last]_vars
  <2>1. CASE UNCHANGED vars
    BY <2>1
  <2>2. CASE Next
    BY <1>1, <2>2, ClosedStaysClosed DEF IInv, ClosedInv
  <2> QED
    BY <1>1, <2>1, <2>2
<1> QED
  BY <1>1, Inductive, PTL DEF Spec, ClosedIsFinal
===============================================================================
