------------------------ MODULE AlertFollowUpProofs -------------------------
(***************************************************************************)
(* Proofs about AlertFollowUp for any users, engines, delays of the rules, *)
(* duration of the transactions, and numbers of escalations, changes of    *)
(* status, jobs, subscriptions and mishaps.                                *)
(***************************************************************************)
EXTENDS AlertFollowUp, FiniteSetTheorems, TLAPS

----------------------------------------------------------------------------
(* The inductive invariant                                                 *)

Cycle == [age : 0..(MaxDelay + MaxLag), idle : 0..(MaxLag + 2),
          last_tick : {Never} \cup (-MaxLag)..MaxDelay,
          multi_ack : BOOLEAN, acked : BOOLEAN]

(* FollowUpTypeOK in parts, and how often the status may change yet. *)
AlertTypes ==
    /\ status \in Statuses /\ multi_ack \in BOOLEAN
    /\ author \in Users \cup {Nobody, "none"}
    /\ changes \in 0..(MaxChanges + 1) /\ escalations \in 0..MaxEscalations
    /\ status # "closed" => changes <= MaxChanges

CycleTypes ==
    /\ DOMAIN cycles \subseteq CycleIDs
    /\ \A c \in DOMAIN cycles : cycles[c] \in Cycle
    /\ due \in [CycleIDs -> [Delays -> Nat]]

SendTypes ==
    /\ pending \subseteq DOMAIN cycles \cup NoCycle
    /\ sending \subseteq CycleIDs \cup NoCycle /\ sent \subseteq OnCall /\ retries \in 0..MaxMishaps

TxTypes == engTx \in [Engines -> NoTx..MaxLag] /\ ackTx \in [OnCall -> NoTx..MaxLag]

UserTypes == lost \subseteq Users /\ disabled \subseteq Users

StatusTypes ==
    /\ subs \in [Subs -> {"none", "triggered", "active", "closed"}]
    /\ stale \subseteq {b \in Subs : subs[b] # "none"}
    /\ jobs \in [Subs -> 0..MaxJobs] /\ updates \in [Subs -> Nat]

(* Only the cycles of past escalations exist or have existed; the time of  *)
(* the last tick, which a transaction may have brought along from before   *)
(* the present, is never ahead of the age less the idle time, until the    *)
(* cycle is older than every rule; and the rules up to that time, and no   *)
(* others, were found due, once.                                           *)
CycleInv ==
    /\ \A c \in DOMAIN cycles :
          /\ c[2] <= escalations
          /\ \/ cycles[c].last_tick = Never
             \/ cycles[c].last_tick + cycles[c].idle <= cycles[c].age
             \/ cycles[c].age = MaxDelay + MaxLag
          /\ \A d \in Delays : due[c][d] = IF d <= cycles[c].last_tick THEN 1 ELSE 0
    /\ \A c \in CycleIDs \ DOMAIN cycles : \A d \in Delays : due[c][d] = 0

(* A subscription for which an update was queued knows the status. *)
ToldInv ==
    \A b \in Subs : updates[b] = 0 \/ (updates[b] = 1 /\ subs[b] \in {"none", status})

IInv ==
    /\ AlertTypes /\ CycleTypes /\ SendTypes /\ TxTypes /\ UserTypes /\ StatusTypes
    /\ CycleInv /\ ToldInv

----------------------------------------------------------------------------
(* Facts about the constants                                               *)

LEMMA LargestDelay == MaxDelay \in Delays /\ \A d \in Delays : d <= MaxDelay
<1>1. \E m \in Delays : \A d \in Delays : m >= d
  BY FollowUpAssumption
<1>2. /\ MaxDelay \in Delays
      /\ \A d \in Delays : MaxDelay >= d
  BY <1>1 DEF MaxDelay, Max
<1> QED BY <1>2, FollowUpAssumption

LEMMA Naturals ==
    /\ MaxDelay \in Nat /\ MaxLag \in Nat /\ MaxEscalations \in Nat /\ MaxChanges \in Nat
    /\ MaxJobs \in Nat /\ MaxSubs \in Nat /\ MaxMishaps \in Nat /\ Delays \subseteq Nat
BY FollowUpAssumption, LargestDelay

LEMMA MishapsType ==
    ASSUME UserTypes, StatusTypes, retries \in Nat
    PROVE  Mishaps \in Nat /\ retries <= Mishaps
<1>1. IsFiniteSet(lost) /\ IsFiniteSet(disabled)
  BY FollowUpAssumption, FS_Subset DEF UserTypes
<1>2. IsFiniteSet(stale)
  <2>1. IsFiniteSet(OnCall) /\ IsFiniteSet(1..MaxSubs)
    BY FollowUpAssumption, Naturals, FS_Subset, FS_Interval
  <2>2. IsFiniteSet(Subs)
    BY <2>1, FS_Product DEF Subs
  <2>3. stale \subseteq Subs
    BY DEF StatusTypes
  <2> QED BY <2>2, <2>3, FS_Subset
<1>3. Cardinality(lost) \in Nat /\ Cardinality(disabled) \in Nat /\ Cardinality(stale) \in Nat
  BY <1>1, <1>2, FS_CardinalityType
<1> QED BY <1>3 DEF Mishaps

LEMMA UptoBound ==
    \A n, bound \in Int : /\ Upto(n, bound) \in {n, bound}
                          /\ Upto(n, bound) <= n /\ Upto(n, bound) <= bound
BY DEF Upto

LEMMA OlderCycle ==
    ASSUME NEW y \in Cycle
    PROVE  /\ Older(y) \in Cycle
           /\ Older(y).last_tick = y.last_tick
           /\ Older(y).age = Upto(y.age + 1, MaxDelay + MaxLag)
           /\ Older(y).idle = Upto(y.idle + 1, MaxLag + 2)
<1> DEFINE a == Upto(y.age + 1, MaxDelay + MaxLag)
           i == Upto(y.idle + 1, MaxLag + 2)
<1>1. a \in 0..(MaxDelay + MaxLag) /\ i \in 0..(MaxLag + 2)
  BY Naturals, UptoBound DEF Cycle
<1>2. Older(y) = [y EXCEPT !.age = a, !.idle = i]
  BY DEF Older
<1> HIDE DEF a, i
<1>3. Older(y) \in Cycle
  BY <1>1, <1>2 DEF Cycle
<1>4. Older(y).last_tick = y.last_tick /\ Older(y).age = a /\ Older(y).idle = i
  BY <1>2 DEF Cycle
<1> QED BY <1>3, <1>4 DEF a, i

LEMMA TickedCycle ==
    ASSUME NEW y \in Cycle, NEW lag \in 0..MaxLag
    PROVE  /\ Ticked(y, lag) \in Cycle
           /\ Ticked(y, lag).last_tick = Upto(y.age - lag, MaxDelay)
           /\ Ticked(y, lag).age = y.age
           /\ Ticked(y, lag).idle = lag
<1> DEFINE t == Upto(y.age - lag, MaxDelay)
<1>1. t \in (-MaxLag)..MaxDelay /\ lag \in 0..(MaxLag + 2)
  BY Naturals, UptoBound DEF Cycle
<1>2. Ticked(y, lag) = [y EXCEPT !.last_tick = t, !.idle = lag]
  BY DEF Ticked
<1> HIDE DEF t
<1>3. Ticked(y, lag) \in Cycle
  BY <1>1, <1>2 DEF Cycle
<1>4. Ticked(y, lag).last_tick = t /\ Ticked(y, lag).age = y.age /\ Ticked(y, lag).idle = lag
  BY <1>2 DEF Cycle
<1> QED BY <1>3, <1>4 DEF t

(* What an acknowledgement leaves of a cycle. *)
SameTimes(y, z) == z.age = y.age /\ z.idle = y.idle /\ z.last_tick = y.last_tick

LEMMA AckedCycle ==
    ASSUME NEW u \in Users, CycleTypes, Acknowledge(u)
    PROVE  /\ DOMAIN cycles' = DOMAIN cycles
           /\ \A c \in DOMAIN cycles : cycles'[c] \in Cycle /\ SameTimes(cycles[c], cycles'[c])
<1>1. DOMAIN cycles' = DOMAIN cycles
  BY DEF Acknowledge
<1>2. ASSUME NEW c \in DOMAIN cycles
      PROVE  cycles'[c] \in Cycle /\ SameTimes(cycles[c], cycles'[c])
  <2> DEFINE v == cycles[c].acked \/ (c[1] = u /\ cycles[c].age > ackTx[u])
  <2>1. cycles'[c] = [cycles[c] EXCEPT !.acked = v]
    BY DEF Acknowledge
  <2>2. v \in BOOLEAN
    OBVIOUS
  <2>3. cycles[c] \in Cycle
    BY DEF CycleTypes
  <2> HIDE DEF v
  <2>4. cycles'[c] \in Cycle
    BY <2>1, <2>2, <2>3 DEF Cycle
  <2>5. SameTimes(cycles[c], cycles'[c])
    BY <2>1, <2>3 DEF SameTimes, Cycle
  <2> QED BY <2>4, <2>5
<1> QED BY <1>1, <1>2

----------------------------------------------------------------------------
(* The steps preserve the invariant                                        *)

Stutter == UNCHANGED vars

LEMMA MinuteIInv ==
  ASSUME IInv, Minute
  PROVE  IInv'
<1>1. AlertTypes'
  BY DEF IInv, Minute, AlertTypes, alertVars
<1>2. CycleTypes'
  BY OlderCycle DEF IInv, Minute, CycleTypes
<1>3. SendTypes'
  BY DEF IInv, Minute, SendTypes, sendVars
<1>4. TxTypes'
  BY FollowUpAssumption DEF IInv, Minute, TxTypes, NoTx
<1>5. UserTypes'
  BY DEF IInv, Minute, UserTypes, userVars
<1>6. StatusTypes'
  BY DEF IInv, Minute, StatusTypes, statusVars
<1>7. CycleInv'
  <2>1. due' = due /\ escalations' = escalations /\ DOMAIN cycles' = DOMAIN cycles
    BY DEF Minute, alertVars
  <2>2. ASSUME NEW c \in DOMAIN cycles
        PROVE  /\ cycles'[c].last_tick = cycles[c].last_tick
               /\ \/ cycles'[c].last_tick = Never
                  \/ cycles'[c].last_tick + cycles'[c].idle <= cycles'[c].age
                  \/ cycles'[c].age = MaxDelay + MaxLag
    <3>1. cycles'[c] = Older(cycles[c]) /\ cycles[c] \in Cycle
      BY DEF Minute, IInv, CycleTypes
    <3>2. /\ cycles'[c].last_tick = cycles[c].last_tick
          /\ cycles'[c].age = Upto(cycles[c].age + 1, MaxDelay + MaxLag)
          /\ cycles'[c].idle = Upto(cycles[c].idle + 1, MaxLag + 2)
      BY <3>1, OlderCycle
    <3>3. /\ cycles[c].age \in 0..(MaxDelay + MaxLag) /\ cycles[c].idle \in 0..(MaxLag + 2)
          /\ cycles[c].last_tick = Never \/ cycles[c].last_tick \in (-MaxLag)..MaxDelay
      BY <3>1 DEF Cycle
    <3> QED BY <3>2, <3>3, Naturals, UptoBound DEF IInv, CycleInv
  <2> QED BY <2>1, <2>2 DEF IInv, CycleInv
<1>8. ToldInv'
  BY DEF IInv, Minute, ToldInv, alertVars, statusVars
<1> QED BY <1>1, <1>2, <1>3, <1>4, <1>5, <1>6, <1>7, <1>8 DEF IInv

LEMMA EscalateRequestIInv ==
  ASSUME IInv, EscalateRequest
  PROVE  IInv'
<1>1. AlertTypes'
  BY FollowUpAssumption DEF IInv, EscalateRequest, AlertTypes, SetStatus, Statuses
<1>2. CycleTypes'
  BY DEF IInv, EscalateRequest, CycleTypes, cycleVars
<1>3. SendTypes'
  BY DEF IInv, EscalateRequest, SendTypes, cycleVars, sendVars
<1>4. TxTypes'
  BY DEF IInv, EscalateRequest, TxTypes, txVars
<1>5. UserTypes'
  BY DEF IInv, EscalateRequest, UserTypes, userVars
<1>6. StatusTypes'
  BY DEF IInv, EscalateRequest, StatusTypes, SetStatus
<1>7. CycleInv'
  BY DEF IInv, EscalateRequest, CycleInv, cycleVars
<1>8. ToldInv'
  BY DEF EscalateRequest, ToldInv, SetStatus
<1> QED BY <1>1, <1>2, <1>3, <1>4, <1>5, <1>6, <1>7, <1>8 DEF IInv

LEMMA EscalatedIInv ==
  ASSUME IInv, Escalated
  PROVE  IInv'
<1>1. AlertTypes'
  BY FollowUpAssumption DEF IInv, Escalated, AlertTypes
<1>2. CycleTypes'
  BY LargestDelay, FollowUpAssumption DEF IInv, Escalated, AlertTypes, CycleTypes, Cycle, CycleIDs
<1>3. SendTypes'
  BY DEF IInv, Escalated, SendTypes, sendVars
<1>4. TxTypes'
  BY DEF IInv, Escalated, TxTypes, txVars
<1>5. UserTypes'
  BY DEF IInv, Escalated, UserTypes, userVars
<1>6. StatusTypes'
  BY DEF IInv, Escalated, StatusTypes, statusVars
<1>7. CycleInv'
  <2> DEFINE fresh == (OnCall \ lost) \X {escalations + 1}
  <2>1. /\ due' = due /\ escalations' = escalations + 1
        /\ DOMAIN cycles' = DOMAIN cycles \cup fresh
        /\ \A c \in fresh : cycles'[c].last_tick = Never
        /\ \A c \in DOMAIN cycles \ fresh : cycles'[c] = cycles[c]
    BY DEF Escalated
  <2>2. /\ \A c \in fresh : c \in CycleIDs /\ c[2] = escalations + 1
        /\ escalations \in Nat
    BY Naturals DEF IInv, AlertTypes, Escalated, CycleIDs
  <2>3. \A c \in DOMAIN cycles : c \notin fresh /\ c[2] \in Nat /\ c \in CycleIDs
    BY <2>2 DEF IInv, CycleInv, CycleTypes, CycleIDs
  <2>4. \A c \in fresh, d \in Delays : due[c][d] = 0 /\ ~(d <= Never)
    BY <2>2, <2>3, Naturals DEF IInv, CycleInv, Never
  <2> HIDE DEF fresh
  <2>5. ASSUME NEW c \in DOMAIN cycles'
        PROVE  /\ c[2] <= escalations'
               /\ \/ cycles'[c].last_tick = Never
                  \/ cycles'[c].last_tick + cycles'[c].idle <= cycles'[c].age
                  \/ cycles'[c].age = MaxDelay + MaxLag
               /\ \A d \in Delays : due'[c][d] = IF d <= cycles'[c].last_tick THEN 1 ELSE 0
    <3>1. CASE c \in fresh
      BY <3>1, <2>1, <2>2, <2>4
    <3>2. CASE c \in DOMAIN cycles
      BY <3>2, <2>1, <2>2, <2>3 DEF IInv, CycleInv
    <3> QED BY <3>1, <3>2, <2>1
  <2>6. \A c \in CycleIDs \ DOMAIN cycles' : \A d \in Delays : due'[c][d] = 0
    BY <2>1 DEF IInv, CycleInv
  <2> QED BY <2>5, <2>6 DEF CycleInv
<1>8. ToldInv'
  BY DEF IInv, Escalated, ToldInv, statusVars
<1> QED BY <1>1, <1>2, <1>3, <1>4, <1>5, <1>6, <1>7, <1>8 DEF IInv

LEMMA LookForWorkIInv ==
  ASSUME IInv, LookForWork
  PROVE  IInv'
<1>1. AlertTypes'
  BY DEF IInv, LookForWork, AlertTypes, alertVars
<1>2. CycleTypes'
  BY DEF IInv, LookForWork, CycleTypes, cycleVars
<1>3. SendTypes'
  BY DEF IInv, LookForWork, SendTypes, cycleVars, sendVars
<1>4. TxTypes'
  BY DEF IInv, LookForWork, TxTypes, txVars
<1>5. UserTypes'
  BY DEF IInv, LookForWork, UserTypes, userVars
<1>6. StatusTypes'
  <2>1. \A b \in Subs : jobs[b] \in 0..MaxJobs
    BY DEF IInv, StatusTypes
  <2>2. \A b \in Subs : Upto(jobs[b] + 1, MaxJobs) \in 0..MaxJobs
    BY <2>1, Naturals, UptoBound
  <2> QED BY <2>1, <2>2 DEF IInv, StatusTypes, LookForWork
<1>7. CycleInv'
  BY DEF IInv, LookForWork, CycleInv, alertVars, cycleVars
<1>8. ToldInv'
  BY DEF IInv, LookForWork, ToldInv, alertVars
<1> QED BY <1>1, <1>2, <1>3, <1>4, <1>5, <1>6, <1>7, <1>8 DEF IInv

LEMMA AckBeginsIInv ==
  ASSUME IInv, NEW u \in Users, AckBegins(u)
  PROVE  IInv'
<1>1. AlertTypes'
  BY DEF IInv, AckBegins, AlertTypes, alertVars
<1>2. CycleTypes'
  BY DEF IInv, AckBegins, CycleTypes, cycleVars
<1>3. SendTypes'
  BY DEF IInv, AckBegins, SendTypes, cycleVars, sendVars
<1>4. TxTypes'
  BY FollowUpAssumption DEF IInv, AckBegins, TxTypes, NoTx
<1>5. UserTypes'
  BY DEF IInv, AckBegins, UserTypes, userVars
<1>6. StatusTypes'
  BY DEF IInv, AckBegins, StatusTypes, statusVars
<1>7. CycleInv'
  BY DEF IInv, AckBegins, CycleInv, alertVars, cycleVars
<1>8. ToldInv'
  BY DEF IInv, AckBegins, ToldInv, alertVars, statusVars
<1> QED BY <1>1, <1>2, <1>3, <1>4, <1>5, <1>6, <1>7, <1>8 DEF IInv

LEMMA AckEndsIInv ==
  ASSUME IInv, NEW u \in Users, AckEnds(u)
  PROVE  IInv'
<1>1. AlertTypes'
  BY FollowUpAssumption DEF IInv, AckEnds, AlertTypes, SetStatus, Acknowledge, Statuses
<1>2. CycleTypes'
  <2>1. CASE Acknowledge(u)
    BY <2>1, AckedCycle DEF IInv, CycleTypes, AckEnds
  <2>2. CASE cycles' = cycles
    BY <2>2 DEF IInv, CycleTypes, AckEnds
  <2> QED BY <2>1, <2>2 DEF AckEnds
<1>3. SendTypes'
  BY DEF IInv, AckEnds, SendTypes, sendVars, Acknowledge
<1>4. TxTypes'
  BY FollowUpAssumption DEF IInv, AckEnds, TxTypes, NoTx
<1>5. UserTypes'
  BY DEF IInv, AckEnds, UserTypes, userVars
<1>6. StatusTypes'
  BY DEF IInv, AckEnds, StatusTypes, SetStatus
<1>7. CycleInv'
  <2>1. due' = due /\ escalations' = escalations
    BY DEF AckEnds
  <2>2. CASE Acknowledge(u)
    BY <2>1, <2>2, AckedCycle DEF IInv, CycleInv, SameTimes
  <2>3. CASE cycles' = cycles
    BY <2>1, <2>3 DEF IInv, CycleInv
  <2> QED BY <2>2, <2>3 DEF AckEnds
<1>8. ToldInv'
  BY DEF IInv, AckEnds, ToldInv, SetStatus
<1> QED BY <1>1, <1>2, <1>3, <1>4, <1>5, <1>6, <1>7, <1>8 DEF IInv

LEMMA AckFailsIInv ==
  ASSUME IInv, NEW u \in Users, AckFails(u)
  PROVE  IInv'
<1>1. AlertTypes'
  BY DEF IInv, AckFails, AlertTypes, alertVars
<1>2. CycleTypes'
  BY DEF IInv, AckFails, CycleTypes, cycleVars
<1>3. SendTypes'
  BY DEF IInv, AckFails, SendTypes, cycleVars, sendVars
<1>4. TxTypes'
  BY FollowUpAssumption DEF IInv, AckFails, TxTypes, NoTx
<1>5. UserTypes'
  BY DEF IInv, AckFails, UserTypes, userVars
<1>6. StatusTypes'
  BY DEF IInv, AckFails, StatusTypes, statusVars
<1>7. CycleInv'
  BY DEF IInv, AckFails, CycleInv, alertVars, cycleVars
<1>8. ToldInv'
  BY DEF IInv, AckFails, ToldInv, alertVars, statusVars
<1> QED BY <1>1, <1>2, <1>3, <1>4, <1>5, <1>6, <1>7, <1>8 DEF IInv

LEMMA CloseIInv ==
  ASSUME IInv, NEW u \in Users, Close(u)
  PROVE  IInv'
<1>1. AlertTypes'
  BY FollowUpAssumption DEF IInv, Close, AlertTypes, SetStatus, Statuses
<1>2. CycleTypes'
  BY DEF IInv, Close, CycleTypes, cycleVars
<1>3. SendTypes'
  BY DEF IInv, Close, SendTypes, cycleVars, sendVars
<1>4. TxTypes'
  BY DEF IInv, Close, TxTypes, txVars
<1>5. UserTypes'
  BY DEF IInv, Close, UserTypes, userVars
<1>6. StatusTypes'
  BY DEF IInv, Close, StatusTypes, SetStatus
<1>7. CycleInv'
  BY DEF IInv, Close, CycleInv, cycleVars
<1>8. ToldInv'
  BY DEF Close, ToldInv, SetStatus
<1> QED BY <1>1, <1>2, <1>3, <1>4, <1>5, <1>6, <1>7, <1>8 DEF IInv

LEMMA SendBeginsIInv ==
  ASSUME IInv, NEW u \in Users, SendBegins(u)
  PROVE  IInv'
<1>1. AlertTypes'
  BY DEF IInv, SendBegins, AlertTypes, alertVars
<1>2. CycleTypes'
  BY DEF IInv, SendBegins, CycleTypes
<1>3. SendTypes'
  BY DEF IInv, SendBegins, CycleTypes, SendTypes
<1>4. TxTypes'
  BY DEF IInv, SendBegins, TxTypes, txVars
<1>5. UserTypes'
  BY DEF IInv, SendBegins, UserTypes, userVars
<1>6. StatusTypes'
  BY DEF IInv, SendBegins, StatusTypes, statusVars
<1>7. CycleInv'
  BY DEF IInv, SendBegins, CycleInv, alertVars
<1>8. ToldInv'
  BY DEF IInv, SendBegins, ToldInv, alertVars, statusVars
<1> QED BY <1>1, <1>2, <1>3, <1>4, <1>5, <1>6, <1>7, <1>8 DEF IInv

LEMMA ReportedFailedIInv ==
  ASSUME IInv, NEW u \in Users, ReportedFailed(u)
  PROVE  IInv'
<1>1. AlertTypes'
  BY DEF IInv, ReportedFailed, AlertTypes, alertVars
<1>2. CycleTypes'
  BY DEF IInv, ReportedFailed, CycleTypes
<1>3. SendTypes'
  BY MishapsType, FollowUpAssumption DEF IInv, ReportedFailed, SendTypes, NoCycle
<1>4. TxTypes'
  BY DEF IInv, ReportedFailed, TxTypes, txVars
<1>5. UserTypes'
  BY DEF IInv, ReportedFailed, UserTypes, userVars
<1>6. StatusTypes'
  BY DEF IInv, ReportedFailed, StatusTypes, statusVars
<1>7. CycleInv'
  BY DEF IInv, ReportedFailed, CycleInv, alertVars
<1>8. ToldInv'
  BY DEF IInv, ReportedFailed, ToldInv, alertVars, statusVars
<1> QED BY <1>1, <1>2, <1>3, <1>4, <1>5, <1>6, <1>7, <1>8 DEF IInv

LEMMA LeaveIInv ==
  ASSUME IInv, NEW u \in Users, Leave(u)
  PROVE  IInv'
<1>1. AlertTypes'
  BY DEF IInv, Leave, AlertTypes, alertVars
<1>2. CycleTypes'
  BY DEF IInv, Leave, CycleTypes, cycleVars
<1>3. SendTypes'
  BY DEF IInv, Leave, SendTypes, cycleVars, sendVars
<1>4. TxTypes'
  BY DEF IInv, Leave, TxTypes, txVars
<1>5. UserTypes'
  BY DEF IInv, Leave, UserTypes
<1>6. StatusTypes'
  BY DEF IInv, Leave, StatusTypes, statusVars
<1>7. CycleInv'
  BY DEF IInv, Leave, CycleInv, alertVars, cycleVars
<1>8. ToldInv'
  BY DEF IInv, Leave, ToldInv, alertVars, statusVars
<1> QED BY <1>1, <1>2, <1>3, <1>4, <1>5, <1>6, <1>7, <1>8 DEF IInv

LEMMA DisableIInv ==
  ASSUME IInv, NEW u \in Users, Disable(u)
  PROVE  IInv'
<1>1. AlertTypes'
  BY DEF IInv, Disable, AlertTypes, alertVars
<1>2. CycleTypes'
  BY DEF IInv, Disable, CycleTypes, cycleVars
<1>3. SendTypes'
  BY DEF IInv, Disable, SendTypes, cycleVars, sendVars
<1>4. TxTypes'
  BY DEF IInv, Disable, TxTypes, txVars
<1>5. UserTypes'
  BY DEF IInv, Disable, UserTypes
<1>6. StatusTypes'
  BY DEF IInv, Disable, StatusTypes, statusVars
<1>7. CycleInv'
  BY DEF IInv, Disable, CycleInv, alertVars, cycleVars
<1>8. ToldInv'
  BY DEF IInv, Disable, ToldInv, alertVars, statusVars
<1> QED BY <1>1, <1>2, <1>3, <1>4, <1>5, <1>6, <1>7, <1>8 DEF IInv

LEMMA SendEndsIInv ==
  ASSUME IInv, NEW c \in sending, SendEnds(c)
  PROVE  IInv'
<1>1. AlertTypes'
  BY DEF IInv, SendEnds, AlertTypes, alertVars
<1>2. CycleTypes'
  BY DEF IInv, SendEnds, CycleTypes
<1>3. SendTypes'
  BY MishapsType, FollowUpAssumption DEF IInv, SendEnds, SendTypes, CycleIDs, NoCycle, RowKept
<1>4. TxTypes'
  BY DEF IInv, SendEnds, TxTypes, txVars
<1>5. UserTypes'
  BY DEF IInv, SendEnds, UserTypes, userVars
<1>6. StatusTypes'
  BY DEF IInv, SendEnds, StatusTypes, Subscribe
<1>7. CycleInv'
  BY DEF IInv, SendEnds, CycleInv, alertVars
<1>8. ToldInv'
  BY DEF IInv, SendEnds, StatusTypes, ToldInv, alertVars, Subscribe
<1> QED BY <1>1, <1>2, <1>3, <1>4, <1>5, <1>6, <1>7, <1>8 DEF IInv

LEMMA ProcessSubscriptionIInv ==
  ASSUME IInv, NEW b \in Subs, ProcessSubscription(b)
  PROVE  IInv'
<1>1. AlertTypes'
  BY DEF IInv, ProcessSubscription, AlertTypes, alertVars
<1>2. CycleTypes'
  BY DEF IInv, ProcessSubscription, CycleTypes, cycleVars
<1>3. SendTypes'
  BY DEF IInv, ProcessSubscription, SendTypes, cycleVars, sendVars
<1>4. TxTypes'
  BY DEF IInv, ProcessSubscription, TxTypes, txVars
<1>5. UserTypes'
  BY DEF IInv, ProcessSubscription, UserTypes, userVars
<1>6. StatusTypes'
  <2>1. jobs' \in [Subs -> 0..MaxJobs]
    BY Naturals DEF IInv, StatusTypes, ProcessSubscription
  <2>2. updates' \in [Subs -> Nat]
    <3>1. updates[b] \in Nat
      BY DEF IInv, StatusTypes
    <3>2. updates' = updates \/ \E n \in Nat : updates' = [updates EXCEPT ![b] = n]
      BY <3>1 DEF ProcessSubscription
    <3> QED BY <3>2 DEF IInv, StatusTypes
  <2>3. subs' \in [Subs -> {"none", "triggered", "active", "closed"}]
    <3>1. subs' = subs \/ \E s \in Statuses \cup {"none"} : subs' = [subs EXCEPT ![b] = s]
      BY DEF ProcessSubscription, IInv, AlertTypes, Statuses
    <3> QED BY <3>1 DEF IInv, StatusTypes, Statuses
  <2>4. stale' \subseteq {x \in Subs : subs'[x] # "none"}
    BY DEF ProcessSubscription, IInv, StatusTypes
  <2> QED BY <2>1, <2>2, <2>3, <2>4 DEF StatusTypes
<1>7. CycleInv'
  BY DEF IInv, ProcessSubscription, CycleInv, alertVars, cycleVars
<1>8. ToldInv'
  BY DEF IInv, ProcessSubscription, StatusTypes, ToldInv, alertVars, NothingToDo
<1> QED BY <1>1, <1>2, <1>3, <1>4, <1>5, <1>6, <1>7, <1>8 DEF IInv

LEMMA GoesStaleIInv ==
  ASSUME IInv, NEW b \in Subs, GoesStale(b)
  PROVE  IInv'
<1>1. AlertTypes'
  BY DEF IInv, GoesStale, AlertTypes, alertVars
<1>2. CycleTypes'
  BY DEF IInv, GoesStale, CycleTypes, cycleVars
<1>3. SendTypes'
  BY DEF IInv, GoesStale, SendTypes, cycleVars, sendVars
<1>4. TxTypes'
  BY DEF IInv, GoesStale, TxTypes, txVars
<1>5. UserTypes'
  BY DEF IInv, GoesStale, UserTypes, userVars
<1>6. StatusTypes'
  BY DEF IInv, GoesStale, StatusTypes
<1>7. CycleInv'
  BY DEF IInv, GoesStale, CycleInv, alertVars, cycleVars
<1>8. ToldInv'
  BY DEF IInv, GoesStale, ToldInv, alertVars
<1> QED BY <1>1, <1>2, <1>3, <1>4, <1>5, <1>6, <1>7, <1>8 DEF IInv

LEMMA CleanupIInv ==
  ASSUME IInv, Cleanup
  PROVE  IInv'
<1>1. AlertTypes'
  BY DEF IInv, Cleanup, AlertTypes, alertVars
<1>2. CycleTypes'
  BY DEF IInv, Cleanup, CycleTypes, cycleVars
<1>3. SendTypes'
  BY DEF IInv, Cleanup, SendTypes, cycleVars, sendVars
<1>4. TxTypes'
  BY DEF IInv, Cleanup, TxTypes, txVars
<1>5. UserTypes'
  BY DEF IInv, Cleanup, UserTypes, userVars
<1>6. StatusTypes'
  BY DEF IInv, Cleanup, StatusTypes
<1>7. CycleInv'
  BY DEF IInv, Cleanup, CycleInv, alertVars, cycleVars
<1>8. ToldInv'
  BY DEF IInv, Cleanup, ToldInv, alertVars
<1> QED BY <1>1, <1>2, <1>3, <1>4, <1>5, <1>6, <1>7, <1>8 DEF IInv

LEMMA TickBeginsIInv ==
  ASSUME IInv, NEW e \in Engines, TickBegins(e)
  PROVE  IInv'
<1>1. AlertTypes'
  BY DEF IInv, TickBegins, AlertTypes, alertVars
<1>2. CycleTypes'
  BY DEF IInv, TickBegins, CycleTypes, cycleVars
<1>3. SendTypes'
  BY DEF IInv, TickBegins, SendTypes, cycleVars, sendVars
<1>4. TxTypes'
  BY FollowUpAssumption DEF IInv, TickBegins, TxTypes, NoTx
<1>5. UserTypes'
  BY DEF IInv, TickBegins, UserTypes, userVars
<1>6. StatusTypes'
  BY DEF IInv, TickBegins, StatusTypes, statusVars
<1>7. CycleInv'
  BY DEF IInv, TickBegins, CycleInv, alertVars, cycleVars
<1>8. ToldInv'
  BY DEF IInv, TickBegins, ToldInv, alertVars, statusVars
<1> QED BY <1>1, <1>2, <1>3, <1>4, <1>5, <1>6, <1>7, <1>8 DEF IInv

LEMMA QueueMessagesIInv ==
  ASSUME IInv, NEW e \in Engines, QueueMessages(e)
  PROVE  IInv'
<1>1. AlertTypes'
  BY DEF IInv, QueueMessages, AlertTypes, alertVars
<1>2. CycleTypes'
  <2> DEFINE lag     == engTx[e]
             locked  == LockCycles(lag)
             deleted == {c \in locked : Ended(c)}
             process == locked \ deleted
  <2>1. /\ DOMAIN cycles' = DOMAIN cycles \ deleted
        /\ \A c \in DOMAIN cycles \ deleted :
              cycles'[c] = IF c \in process THEN Ticked(cycles[c], lag) ELSE cycles[c]
    BY DEF QueueMessages
  <2>2. lag \in 0..MaxLag
    BY Naturals DEF IInv, TxTypes, QueueMessages, NoTx
  <2>3. \A c \in DOMAIN cycles : cycles[c] \in Cycle /\ c \in CycleIDs
    BY DEF IInv, CycleTypes
  <2>4. \A c \in DOMAIN cycles : Ticked(cycles[c], lag) \in Cycle
    BY <2>2, <2>3, TickedCycle
  <2>5. due' \in [CycleIDs -> [Delays -> Nat]]
    BY DEF IInv, CycleTypes, QueueMessages
  <2> HIDE DEF lag, locked, deleted, process
  <2> QED BY <2>1, <2>3, <2>4, <2>5 DEF CycleTypes
<1>3. SendTypes'
  BY DEF IInv, QueueMessages, SendTypes, sendVars, LockCycles, Cascade
<1>4. TxTypes'
  BY FollowUpAssumption DEF IInv, QueueMessages, TxTypes, NoTx
<1>5. UserTypes'
  BY DEF IInv, QueueMessages, UserTypes, userVars
<1>6. StatusTypes'
  BY DEF IInv, QueueMessages, StatusTypes, statusVars
<1>7. CycleInv'
  <2> DEFINE lag     == engTx[e]
             locked  == LockCycles(lag)
             deleted == {c \in locked : Ended(c)}
             process == locked \ deleted
  <2>1. /\ DOMAIN cycles' = DOMAIN cycles \ deleted
        /\ \A c \in DOMAIN cycles \ deleted :
              cycles'[c] = IF c \in process THEN Ticked(cycles[c], lag) ELSE cycles[c]
    BY DEF QueueMessages
  <2>2. lag \in 0..MaxLag
    BY Naturals DEF IInv, TxTypes, QueueMessages, NoTx
  <2>3. \A c \in DOMAIN cycles : cycles[c] \in Cycle /\ c \in CycleIDs
    BY DEF IInv, CycleTypes
  <2>4. \A c \in CycleIDs, d \in Delays :
            due'[c][d] = IF c \in deleted THEN 0
                         ELSE IF c \in process /\ RuleDue(c, d, lag) THEN due[c][d] + 1
                         ELSE due[c][d]
    BY DEF QueueMessages
  <2>5. escalations' = escalations /\ process \subseteq DOMAIN cycles
    BY DEF QueueMessages, alertVars, LockCycles
  <2>6. \A c \in process : cycles[c].last_tick = Never \/ cycles[c].idle - lag > 1
    BY DEF LockCycles
  <2>7. \A c \in process, d \in Delays :
            RuleDue(c, d, lag) <=> d > cycles[c].last_tick /\ d <= cycles[c].age - lag
    BY DEF RuleDue
  <2> HIDE DEF lag, locked, deleted, process
  <2>8. ASSUME NEW c \in process, c \notin deleted
        PROVE  /\ cycles'[c].last_tick + cycles'[c].idle <= cycles'[c].age
               /\ \A d \in Delays : due'[c][d] = IF d <= cycles'[c].last_tick THEN 1 ELSE 0
    <3>1. cycles'[c] = Ticked(cycles[c], lag) /\ cycles[c] \in Cycle /\ c \in CycleIDs
      BY <2>1, <2>3, <2>5, <2>8
    <3>2. /\ cycles'[c].last_tick = Upto(cycles[c].age - lag, MaxDelay)
          /\ cycles'[c].age = cycles[c].age /\ cycles'[c].idle = lag
      BY <2>2, <3>1, TickedCycle
    <3>3. /\ cycles[c].age \in 0..(MaxDelay + MaxLag) /\ cycles[c].idle \in 0..(MaxLag + 2)
          /\ cycles[c].last_tick = Never \/ cycles[c].last_tick \in (-MaxLag)..MaxDelay
      BY <3>1 DEF Cycle
    <3>4. cycles'[c].last_tick + cycles'[c].idle <= cycles'[c].age
      BY <2>2, <3>2, <3>3, Naturals, UptoBound
    <3>5. ASSUME NEW d \in Delays
          PROVE  due'[c][d] = IF d <= cycles'[c].last_tick THEN 1 ELSE 0
      <4>1. d \in Nat /\ d <= MaxDelay
        BY Naturals, LargestDelay
      <4>2. d <= cycles'[c].last_tick <=> d <= cycles[c].age - lag
        BY <2>2, <3>2, <3>3, <4>1, Naturals DEF Upto
      <4>3. due[c][d] = IF d <= cycles[c].last_tick THEN 1 ELSE 0
        BY <2>5 DEF IInv, CycleInv
      <4>4. d <= cycles[c].last_tick => d <= cycles[c].age - lag
        <5>1. \/ cycles[c].last_tick = Never
              \/ cycles[c].last_tick + cycles[c].idle <= cycles[c].age
              \/ cycles[c].age = MaxDelay + MaxLag
          BY <2>5 DEF IInv, CycleInv
        <5> QED BY <2>2, <2>6, <3>3, <4>1, <5>1, Naturals DEF Never
      <4>5. due'[c][d] = IF d > cycles[c].last_tick /\ d <= cycles[c].age - lag
                         THEN due[c][d] + 1 ELSE due[c][d]
        BY <2>4, <2>7, <2>8, <3>1
      <4> QED BY <2>2, <3>3, <4>1, <4>2, <4>3, <4>4, <4>5, Naturals DEF Never
    <3> QED BY <3>4, <3>5
  <2>9. \A c \in DOMAIN cycles' : c \in process \/ cycles'[c] = cycles[c]
    BY <2>1
  <2> QED BY <2>1, <2>3, <2>4, <2>5, <2>8, <2>9 DEF IInv, CycleInv
<1>8. ToldInv'
  BY DEF IInv, QueueMessages, ToldInv, alertVars, statusVars
<1> QED BY <1>1, <1>2, <1>3, <1>4, <1>5, <1>6, <1>7, <1>8 DEF IInv

LEMMA TickFailsIInv ==
  ASSUME IInv, NEW e \in Engines, TickFails(e)
  PROVE  IInv'
<1>1. AlertTypes'
  BY DEF IInv, TickFails, AlertTypes, alertVars
<1>2. CycleTypes'
  BY DEF IInv, TickFails, CycleTypes, cycleVars
<1>3. SendTypes'
  BY DEF IInv, TickFails, SendTypes, cycleVars, sendVars
<1>4. TxTypes'
  BY FollowUpAssumption DEF IInv, TickFails, TxTypes, NoTx
<1>5. UserTypes'
  BY DEF IInv, TickFails, UserTypes, userVars
<1>6. StatusTypes'
  BY DEF IInv, TickFails, StatusTypes, statusVars
<1>7. CycleInv'
  BY DEF IInv, TickFails, CycleInv, alertVars, cycleVars
<1>8. ToldInv'
  BY DEF IInv, TickFails, ToldInv, alertVars, statusVars
<1> QED BY <1>1, <1>2, <1>3, <1>4, <1>5, <1>6, <1>7, <1>8 DEF IInv

LEMMA StutterIInv ==
  ASSUME IInv, Stutter
  PROVE  IInv'
<1>1. AlertTypes'
  BY DEF IInv, Stutter, AlertTypes, vars, alertVars
<1>2. CycleTypes'
  BY DEF IInv, Stutter, CycleTypes, vars, cycleVars
<1>3. SendTypes'
  BY DEF IInv, Stutter, SendTypes, vars, cycleVars, sendVars
<1>4. TxTypes'
  BY DEF IInv, Stutter, TxTypes, vars, txVars
<1>5. UserTypes'
  BY DEF IInv, Stutter, UserTypes, vars, userVars
<1>6. StatusTypes'
  BY DEF IInv, Stutter, StatusTypes, vars, statusVars
<1>7. CycleInv'
  BY DEF IInv, Stutter, CycleInv, vars, alertVars, cycleVars
<1>8. ToldInv'
  BY DEF IInv, Stutter, ToldInv, vars, alertVars, statusVars
<1> QED BY <1>1, <1>2, <1>3, <1>4, <1>5, <1>6, <1>7, <1>8 DEF IInv

LEMMA NextIInv == ASSUME IInv, [Next]_vars PROVE IInv'
<1>1. CASE Minute \/ EscalateRequest \/ Escalated \/ LookForWork \/ Cleanup
  BY <1>1, MinuteIInv, EscalateRequestIInv, EscalatedIInv, LookForWorkIInv, CleanupIInv
<1>2. ASSUME NEW u \in Users,
             \/ AckBegins(u) \/ AckEnds(u) \/ AckFails(u) \/ Close(u)
             \/ SendBegins(u) \/ ReportedFailed(u) \/ Leave(u) \/ Disable(u)
      PROVE  IInv'
  BY <1>2, AckBeginsIInv, AckEndsIInv, AckFailsIInv, CloseIInv, SendBeginsIInv,
     ReportedFailedIInv, LeaveIInv, DisableIInv
<1>3. ASSUME NEW c \in sending, SendEnds(c) PROVE IInv'
  BY <1>3, SendEndsIInv
<1>4. ASSUME NEW b \in Subs, ProcessSubscription(b) \/ GoesStale(b) PROVE IInv'
  BY <1>4, ProcessSubscriptionIInv, GoesStaleIInv
<1>5. ASSUME NEW e \in Engines, TickBegins(e) \/ QueueMessages(e) \/ TickFails(e) PROVE IInv'
  BY <1>5, TickBeginsIInv, QueueMessagesIInv, TickFailsIInv
<1>6. CASE UNCHANGED vars
  BY <1>6, StutterIInv DEF Stutter
<1> QED BY <1>1, <1>2, <1>3, <1>4, <1>5, <1>6 DEF Next

LEMMA InitIInv == Init => IInv
<1> SUFFICES ASSUME Init PROVE IInv
  OBVIOUS
<1>1. AlertTypes
  <2>1. multi_ack \in BOOLEAN
    BY DEF Init
  <2>2. /\ status = "triggered" /\ author = "none" /\ changes = 0 /\ escalations = 0
    BY DEF Init
  <2> QED BY <2>1, <2>2, Naturals DEF AlertTypes, Statuses
<1>2. CycleTypes
  BY DEF Init, CycleTypes
<1>3. SendTypes
  BY Naturals DEF Init, SendTypes
<1>4. TxTypes
  BY Naturals DEF Init, TxTypes, NoTx
<1>5. UserTypes /\ ToldInv
  BY DEF Init, UserTypes, ToldInv
<1>6. StatusTypes
  BY Naturals DEF Init, StatusTypes
<1>7. CycleInv
  <2>1. DOMAIN cycles = {}
    BY DEF Init
  <2>2. \A c \in CycleIDs, d \in Delays : due[c][d] = 0
    BY DEF Init
  <2> QED BY <2>1, <2>2 DEF CycleInv
<1> QED BY <1>1, <1>2, <1>3, <1>4, <1>5, <1>6, <1>7 DEF IInv

----------------------------------------------------------------------------
(* The theorems                                                            *)

(* What every reachable state satisfies: types, the place of the last tick *)
(* of a cycle relative to its age and to the rules found due, and that a   *)
(* subscription that was told of a change knows it.                        *)
THEOREM Inductive == Spec => []IInv
<1>1. IInv /\ [Next]_vars => IInv'
  BY NextIInv
<1> QED BY <1>1, InitIInv, PTL DEF Spec

(* Every rule takes effect exactly once in a cycle, at the first tick at   *)
(* or after its delay, for any number of engines whose transactions        *)
(* overlap, last for any time and fail (queueMessages).                    *)
THEOREM RulesTakeEffectOnce == Spec => []RulesOnce
<1>1. IInv => RulesOnce
  <2> SUFFICES ASSUME IInv PROVE RulesOnce
    OBVIOUS
  <2>1. FollowUpTypeOK
    BY DEF IInv, AlertTypes, CycleTypes, SendTypes, TxTypes, UserTypes, StatusTypes,
       FollowUpTypeOK, Cycle
  <2>2. \A c \in CycleIDs, d \in Delays :
            /\ due[c][d] <= 1
            /\ c \in DOMAIN cycles => (due[c][d] = 1 <=> d <= cycles[c].last_tick)
    BY DEF IInv, CycleInv
  <2> QED BY <2>1, <2>2 DEF RulesOnce
<1> QED BY <1>1, Inductive, PTL

(* A change of the alert's status is told at most once for a subscription, *)
(* however many jobs are queued for it (processSubscription).              *)
THEOREM StatusToldOnce == Spec => []ToldOnce
<1>1. IInv => ToldOnce
  BY DEF IInv, ToldInv, ToldOnce
<1> QED BY <1>1, Inductive, PTL
=============================================================================
