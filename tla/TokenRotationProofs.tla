------------------------ MODULE TokenRotationProofs -------------------------
(***************************************************************************)
(* Proofs about TokenRotation for any number of attempts and inspectors,   *)
(* any time limits and any overlaps that the Gateway gives.                *)
(***************************************************************************)
EXTENDS TokenRotation, TLAPS

----------------------------------------------------------------------------
(* The inductive invariant                                                 *)

(* TypeOK in parts. *)
Local == [h : Tokens, purpose : {"compensate", "unknownCAS", "reconcile", "finalize"},
          expected : Tokens, anchor : Nat, localG : Int, until : Int, tok : Tokens,
          state : States, identity : {"new", "old", "neither"}]

CoreTypes ==
    /\ now \in Nat /\ row \in Tokens \cup {Gone} /\ lock \in Procs \cup {Nobody}
    /\ tx \in [Attempts -> {"none", "open", "locked", "committing", "committed", "aborted"}]
GatewayTypes ==
    /\ gw \in [Attempts -> States] /\ from \in [Attempts -> Tokens]
    /\ dl \in [Attempts -> Nat] /\ active \in Tokens
    /\ late \subseteq {"rollback", "finalize"} \X Attempts
ProcTypes  == pc \in [Procs -> Labels] /\ res \in [Procs -> Results]
FrameTypes == fr \in [Procs -> Local]

(* Where a call of Start has not yet asked the Gateway, and where it has   *)
(* its pair and may still commit.                                          *)
Early   == {"idle", "begin"}
Working == {"began", "casBegin", "casLock", "casUpdate", "casCommit"}

(* The row will never hold the token of attempt a. *)
Spent(a) == pc[a] \notin Early \cup Working /\ tx[a] \notin {"committing", "committed"}

(* How far an attempt is, at the Gateway and in its transaction. *)
StartInv ==
    \A a \in Attempts :
        /\ fr[a].h = a
        /\ pc[a] = "begin" => fr[a].expected < a
        /\ pc[a] \in Early => gw[a] = "none"
        /\ gw[a] = "none" => tx[a] = "none"
        /\ pc[a] \in Working => gw[a] = "pair" /\ from[a] = fr[a].expected
        /\ pc[a] \in {"began", "casBegin"} => tx[a] = "none"
        /\ pc[a] \in Working \cup {"casRollback"} => tx[a] \notin {"committing", "committed"}
        /\ pc[a] = "casCommit" /\ tx[a] = "locked" => row = from[a]

(* One pair at most, with the newer token active. *)
GatewayInv ==
    /\ \A a, b \in Attempts : gw[a] = "pair" /\ gw[b] = "pair" => a = b
    /\ \A a \in Attempts : gw[a] = "pair" => active = a
    /\ \A a \in Attempts : gw[a] # "none" => from[a] < a

(* The row lock of the transactions, and what a commit finds and leaves. *)
TxInv ==
    /\ \A a, b \in Attempts :
          tx[a] \in {"locked", "committing"} /\ tx[b] \in {"locked", "committing"} => a = b
    /\ \A a \in Attempts :
          /\ tx[a] = "committing" => row = from[a] /\ gw[a] = "pair"
          /\ tx[a] = "committed" => row = Gone \/ row >= a
          /\ row = a => tx[a] = "committed"

(* A rollback is asked for, late or not, only of attempts whose token the  *)
(* row will never hold, a finalization only after the commit.              *)
DecidedInv ==
    /\ \A a \in Attempts :
          /\ <<"rollback", a>> \in late \/ gw[a] = "rolledBack" => Spent(a)
          /\ <<"finalize", a>> \in late => tx[a] = "committed"
    /\ \A p \in Procs :
          /\ pc[p] = "rollback" => Spent(fr[p].h)
          /\ pc[p] = "finalize" => tx[fr[p].h] = "committed"

(* What an inspection saw stays so, whether it still has the row lock or   *)
(* not: a token is newer than the attempt's or the attempt is spent, and   *)
(* the ends of a rotation are final.                                       *)
SeenInv ==
    \A p \in Procs :
        /\ pc[p] \in {"inspLock", "observe", "decide", "rollback", "finalize", "release"} =>
              fr[p].h \in Attempts /\ pc[fr[p].h] \notin Early \cup Working
        /\ pc[p] \in {"observe", "decide"} =>
              /\ fr[p].tok = fr[p].h => tx[fr[p].h] = "committed"
              /\ fr[p].tok < fr[p].h => Spent(fr[p].h)
        /\ pc[p] = "decide" =>
              /\ fr[p].state \in {"rolledBack", "completed"} => gw[fr[p].h] = fr[p].state
              /\ fr[p].identity = "new" => fr[p].tok = fr[p].h
              /\ fr[p].identity = "old" => fr[p].tok < fr[p].h

(* The results, from the end of the callback on. *)
ResultInv ==
    \A p \in Procs : pc[p] \in {"release", "done"} =>
        /\ res[p] = "pending" => fr[p].h \in Attempts /\ tx[fr[p].h] = "committed"
        /\ res[p] \in {"rolledBack", "completed"} =>
              fr[p].h \in Attempts /\ gw[fr[p].h] = res[p]
        /\ p \in Attempts /\ res[p] = "failed" => gw[p] \in {"none", "rolledBack"}
        /\ p \in Attempts /\ res[p] = "unknown" => tx[p] = "none"

(* The local deadline is not after the Gateway's, and the swap ends early  *)
(* enough before it.                                                       *)
TimeInv ==
    \A a \in Attempts :
        /\ pc[a] = "begin" => fr[a].anchor <= now
        /\ pc[a] \in Working => fr[a].localG <= dl[a]
        /\ pc[a] \in Working \ {"began"} =>
              fr[a].until + DiscardLimit + RecoveryLimit <= fr[a].localG

(* The token in the row is one that the Gateway accepts. *)
Accepted == row \in {active, Gone} \/ \E a \in Attempts : gw[a] = "pair" /\ row = from[a]

IInv ==
    /\ CoreTypes /\ GatewayTypes /\ ProcTypes /\ FrameTypes /\ StartInv /\ GatewayInv
    /\ TxInv /\ DecidedInv /\ SeenInv /\ ResultInv /\ TimeInv /\ Accepted

----------------------------------------------------------------------------
(* Constants, and records of the right type                                *)

LEMMA Constants ==
    /\ Attempts \subseteq Tokens /\ Attempts \subseteq Procs /\ Inspectors \subseteq Procs
    /\ \A t \in Tokens : t \in Nat
    /\ \A a \in Attempts : a \in Nat \ {0}
    /\ Gone \notin Tokens /\ Nobody \notin Procs
BY RotationAssumption DEF Attempts, Tokens, Procs

LEMMA Limits ==
    /\ MaxTime \in Nat /\ Overlaps \subseteq Nat /\ BeginLimit \in Nat /\ CASLimit \in Nat
    /\ DiscardLimit \in Nat /\ RecoveryLimit \in Nat
BY RotationAssumption

LEMMA FrameType == \A t \in Tokens : Frame(t) \in Local
BY RotationAssumption DEF Frame, Local, Tokens, States

LEMMA FrameSet ==
    ASSUME FrameTypes, NEW p \in Procs, NEW x \in Local, fr' = [fr EXCEPT ![p] = x]
    PROVE  FrameTypes' /\ fr'[p] = x /\ \A q \in Procs \ {p} : fr'[q] = fr[q]
BY DEF FrameTypes

----------------------------------------------------------------------------
(* What the ends of a step do to the process and its locals                *)

(* Process p goes to label, others stay where they are. *)
Moves(p, label) ==
    /\ pc'[p] = label /\ fr'[p].h = fr[p].h
    /\ \A q \in Procs \ {p} : pc'[q] = pc[q] /\ fr'[q] = fr[q] /\ res'[q] = res[q]

LEMMA ReturnEffect ==
    ASSUME ProcTypes, FrameTypes, NEW p \in Procs, NEW r \in Results, Return(p, r)
    PROVE  Moves(p, "done") /\ res'[p] = r /\ FrameTypes'
<1> DEFINE x == Frame(fr[p].h)
<1>1. x \in Local /\ x.h = fr[p].h
  BY FrameType DEF FrameTypes, Local, Frame
<1>2. fr' = [fr EXCEPT ![p] = x]
  BY DEF Return
<1> HIDE DEF x
<1>3. FrameTypes' /\ fr'[p] = x /\ \A q \in Procs \ {p} : fr'[q] = fr[q]
  BY <1>1, <1>2, FrameSet
<1> QED BY <1>1, <1>3 DEF ProcTypes, Return, Goto, Moves

LEMMA CompensateEffect ==
    ASSUME ProcTypes, FrameTypes, now \in Nat, NEW a \in Attempts, Compensate(a)
    PROVE  /\ \/ Moves(a, "rollback") /\ res' = res
              \/ Moves(a, "done") /\ res'[a] = "needs"
           /\ FrameTypes'
<1>1. CASE now < fr[a].localG
  <2> DEFINE until == Min2(now + RecoveryLimit, fr[a].localG)
             x == [fr[a] EXCEPT !.until = until]
  <2>1. a \in Procs /\ fr[a] \in Local /\ until \in Int
    BY Constants, Limits DEF FrameTypes, Local, Min2
  <2>2. fr' = [fr EXCEPT ![a] = x]
    BY <1>1 DEF Compensate
  <2> HIDE DEF until
  <2>3. x \in Local /\ x.h = fr[a].h
    BY <2>1 DEF Local
  <2> HIDE DEF x
  <2>4. FrameTypes' /\ fr'[a] = x /\ \A q \in Procs \ {a} : fr'[q] = fr[q]
    BY <2>1, <2>2, <2>3, FrameSet
  <2>5. pc' = [pc EXCEPT ![a] = "rollback"] /\ res' = res
    BY <1>1 DEF Compensate, Goto
  <2> QED BY <2>1, <2>3, <2>4, <2>5 DEF ProcTypes, Moves
<1>2. CASE ~(now < fr[a].localG)
  BY <1>2, ReturnEffect, Constants DEF Compensate, Results
<1> QED BY <1>1, <1>2

LEMMA ToQuarantineEffect ==
    ASSUME ProcTypes, FrameTypes, NEW a \in Attempts, ToQuarantine(a)
    PROVE  Moves(a, "quarantine") /\ res' = res /\ FrameTypes'
<1> DEFINE x == [fr[a] EXCEPT !.until = fr[a].until + DiscardLimit]
<1>1. a \in Procs /\ fr[a] \in Local /\ fr[a].until + DiscardLimit \in Int
  BY Constants, Limits DEF FrameTypes, Local
<1>2. x \in Local /\ x.h = fr[a].h
  BY <1>1 DEF Local
<1>3. fr' = [fr EXCEPT ![a] = x]
  BY DEF ToQuarantine
<1> HIDE DEF x
<1>4. FrameTypes' /\ fr'[a] = x /\ \A q \in Procs \ {a} : fr'[q] = fr[q]
  BY <1>1, <1>2, <1>3, FrameSet
<1> QED BY <1>1, <1>2, <1>4 DEF ProcTypes, ToQuarantine, Goto, Moves

LEMMA AfterRollbackEffect ==
    ASSUME ProcTypes, FrameTypes, NEW p \in Procs, NEW confirmed \in BOOLEAN,
           AfterRollback(p, confirmed)
    PROVE  /\ Moves(p, "done") \/ Moves(p, "release")
           /\ \/ res'[p] = "needs"
              \/ confirmed /\ res'[p] \in {"failed", "rolledBack"}
           /\ FrameTypes'
<1>1. CASE fr[p].purpose = "compensate"
  BY <1>1, ReturnEffect DEF AfterRollback, Results
<1>2. CASE fr[p].purpose # "compensate"
  BY <1>2 DEF AfterRollback, Release, Goto, Moves, ProcTypes, FrameTypes
<1> QED BY <1>1, <1>2

(* An attempt that gives up, or may have to be settled by others, disturbs *)
(* no decision and no observation.                                         *)
LEMMA GivesUp ==
    ASSUME IInv, NEW a \in Attempts, NEW label \in {"rollback", "done", "quarantine"},
           Moves(a, label), pc[a] \notin Early, UNCHANGED <<row, gw, from, late>>,
           tx' = tx \/ (tx[a] \in {"open", "locked"} /\ tx' = [tx EXCEPT ![a] = "aborted"]),
           label = "rollback" => tx'[a] \notin {"committing", "committed"}
    PROVE  StartInv' /\ DecidedInv' /\ SeenInv'
<1>1. /\ a \in Procs /\ Attempts \subseteq Procs /\ fr'[a].h = a /\ pc'[a] = label
      /\ \A q \in Procs \ {a} : pc'[q] = pc[q] /\ fr'[q] = fr[q]
  BY Constants DEF IInv, StartInv, Moves
<1>2. \A b \in Attempts :
        tx'[b] = tx[b] \/ (b = a /\ tx[a] \in {"open", "locked"} /\ tx'[a] = "aborted")
  BY DEF IInv, CoreTypes
<1>3. \A b \in Attempts : Spent(b) => Spent(b)'
  BY <1>1, <1>2 DEF Spent, Early, Working
<1>4. StartInv'
  BY <1>1, <1>2 DEF IInv, StartInv, Early, Working
<1>5. DecidedInv'
  <2>1. \A b \in Attempts :
            /\ (<<"rollback", b>> \in late \/ gw[b] = "rolledBack" => Spent(b))'
            /\ (<<"finalize", b>> \in late => tx[b] = "committed")'
    BY <1>2, <1>3 DEF IInv, DecidedInv
  <2>2. \A q \in Procs \ {a} :
            /\ (pc[q] = "rollback" => Spent(fr[q].h))'
            /\ (pc[q] = "finalize" => tx[fr[q].h] = "committed")'
    BY <1>1, <1>2, <1>3 DEF IInv, DecidedInv, SeenInv
  <2>3. label = "rollback" => Spent(a)'
    BY <1>1 DEF Spent, Early, Working
  <2> QED BY <1>1, <2>1, <2>2, <2>3 DEF DecidedInv
<1>6. SeenInv'
  <2>1. \A q \in Procs \ {a} :
           pc[q] \in {"inspLock", "observe", "decide", "rollback", "finalize", "release"} =>
              fr[q].h \in Attempts /\ pc'[fr[q].h] \notin Early \cup Working
    BY <1>1 DEF IInv, SeenInv, Early, Working
  <2>2. \A q \in Procs \ {a} : pc[q] \in {"observe", "decide"} =>
              /\ fr[q].tok = fr[q].h => tx'[fr[q].h] = "committed"
              /\ fr[q].tok < fr[q].h => Spent(fr[q].h)'
    BY <1>1, <1>2, <1>3 DEF IInv, SeenInv
  <2>3. \A q \in Procs \ {a} : pc[q] = "decide" =>
              /\ fr[q].state \in {"rolledBack", "completed"} => gw'[fr[q].h] = fr[q].state
              /\ fr[q].identity = "new" => fr[q].tok = fr[q].h
              /\ fr[q].identity = "old" => fr[q].tok < fr[q].h
    BY DEF IInv, SeenInv
  <2> QED BY <1>1, <2>1, <2>2, <2>3 DEF SeenInv, Early, Working, Spent
<1> QED BY <1>4, <1>5, <1>6

----------------------------------------------------------------------------
(* The steps preserve the invariant                                        *)

Stutter == UNCHANGED vars

LEMMA StartCallIInv ==
  ASSUME IInv, NEW a \in Attempts, StartCall(a)
  PROVE  IInv'
<1>1. CoreTypes'
  BY DEF IInv, StartCall, CoreTypes, core
<1>2. GatewayTypes'
  BY DEF IInv, StartCall, GatewayTypes, gateway
<1>3. ProcTypes'
  BY Constants DEF IInv, StartCall, ProcTypes, Goto, Labels
<1>4. FrameTypes'
  <2>0. PICK e \in 0 .. (a - 1) :
          fr' = [fr EXCEPT ![a] = [fr[a] EXCEPT !.expected = e, !.anchor = now,
                                                !.until = now + BeginLimit]]
    BY DEF StartCall
  <2> DEFINE x == [fr[a] EXCEPT !.expected = e, !.anchor = now, !.until = now + BeginLimit]
  <2>1. a \in Procs /\ fr[a] \in Local
    BY Constants DEF IInv, FrameTypes
  <2>2. e \in Tokens /\ now \in Nat /\ now + BeginLimit \in Int
    BY Constants, Limits, RotationAssumption DEF IInv, CoreTypes, Attempts, Tokens
  <2>3. x \in Local
    BY <2>1, <2>2 DEF Local
  <2>4. fr' = [fr EXCEPT ![a] = x]
    BY <2>0
  <2> HIDE DEF x
  <2> QED BY <2>1, <2>3, <2>4, FrameSet DEF IInv
<1>5. StartInv'
  BY Constants DEF IInv, StartCall, FrameTypes, StartInv, core, gateway, Goto, Early, Working
<1>6. GatewayInv'
  BY DEF IInv, StartCall, GatewayInv, gateway
<1>7. TxInv'
  BY DEF IInv, StartCall, TxInv, core, gateway
<1>8. DecidedInv'
  BY DEF IInv, StartCall, FrameTypes, DecidedInv, core, gateway, Goto, Spent, Early
<1>9. SeenInv'
  BY DEF IInv, StartCall, FrameTypes, SeenInv, core, gateway, Goto, Spent, Early
<1>10. ResultInv'
  BY DEF IInv, StartCall, FrameTypes, ResultInv, core, gateway, Goto
<1>11. TimeInv'
  BY Constants DEF IInv, StartCall, FrameTypes, TimeInv, gateway, Goto, Working, Local
<1>12. Accepted'
  BY DEF IInv, StartCall, Accepted, core, gateway
<1> QED BY <1>1, <1>2, <1>3, <1>4, <1>5, <1>6, <1>7, <1>8, <1>9, <1>10, <1>11, <1>12 DEF IInv

LEMMA BeginRotationIInv ==
  ASSUME IInv, NEW a \in Attempts, BeginRotation(a)
  PROVE  IInv'
<1>1. CoreTypes'
  BY DEF IInv, BeginRotation, CoreTypes, core
<1>2. GatewayTypes'
  BY Constants, Limits DEF IInv, BeginRotation, CoreTypes, GatewayTypes, Activate, States
<1>3. ProcTypes'
  BY Constants DEF IInv, BeginRotation, ProcTypes, Goto, Labels
<1>4. FrameTypes'
  <2>0. PICK overlap \in Overlaps :
          fr' = [fr EXCEPT ![a] = [fr[a] EXCEPT !.localG = fr[a].anchor + overlap]]
    BY DEF BeginRotation
  <2> DEFINE x == [fr[a] EXCEPT !.localG = fr[a].anchor + overlap]
  <2>1. a \in Procs /\ fr[a] \in Local
    BY Constants DEF IInv, FrameTypes
  <2>2. fr[a].anchor + overlap \in Int
    BY <2>1, Limits DEF Local
  <2>3. x \in Local
    BY <2>1, <2>2 DEF Local
  <2>4. fr' = [fr EXCEPT ![a] = x]
    BY <2>0
  <2> HIDE DEF x
  <2> QED BY <2>1, <2>3, <2>4, FrameSet DEF IInv
<1>5. StartInv'
  BY Constants DEF IInv, BeginRotation, GatewayTypes, ProcTypes, StartInv, core, Goto, Activate,
     Early
<1>6. GatewayInv'
  BY DEF IInv, BeginRotation, GatewayTypes, StartInv, GatewayInv, Activate
<1>7. TxInv'
  BY DEF IInv, BeginRotation, TxInv, core, Activate
<1>8. DecidedInv'
  BY DEF IInv, BeginRotation, DecidedInv, core, Goto, Activate, Spent, Early
<1>9. SeenInv'
  BY DEF IInv, BeginRotation, SeenInv, core, Goto, Activate, Spent, Early
<1>10. ResultInv'
  BY DEF IInv, BeginRotation, StartInv, ResultInv, core, Goto, Activate, Early
<1>11. TimeInv'
  BY Constants, Limits DEF IInv, BeginRotation, CoreTypes, GatewayTypes, FrameTypes, TimeInv, Goto,
     Activate, Working, Local
<1>12. Accepted'
  BY DEF IInv, BeginRotation, GatewayTypes, Accepted, core, Activate
<1> QED BY <1>1, <1>2, <1>3, <1>4, <1>5, <1>6, <1>7, <1>8, <1>9, <1>10, <1>11, <1>12 DEF IInv

LEMMA BeginUncertainIInv ==
  ASSUME IInv, NEW a \in Attempts, BeginUncertain(a)
  PROVE  IInv'
<1>1. CoreTypes'
  BY DEF IInv, BeginUncertain, CoreTypes, core
<1>2. GatewayTypes'
  <2>1. CASE UNCHANGED <<gw, from, dl, active>>
    BY <2>1 DEF IInv, GatewayTypes, BeginUncertain
  <2>2. ASSUME NEW overlap \in Overlaps, Activate(a, overlap) PROVE GatewayTypes'
    BY <2>2, Constants, Limits DEF IInv, CoreTypes, GatewayTypes, BeginUncertain, Activate, States
  <2> QED BY <2>1, <2>2 DEF BeginUncertain
<1>3. ProcTypes'
  BY Constants DEF IInv, BeginUncertain, ProcTypes, Goto, Return, Labels, Results
<1>4. FrameTypes'
  BY ReturnEffect, Constants DEF IInv, BeginUncertain, Results
<1>5. StartInv'
  BY Constants DEF IInv, BeginUncertain, GatewayTypes, ProcTypes, StartInv, core, Frame, Goto,
     Return, Activate, Early, Working
<1>6. GatewayInv'
  BY DEF IInv, BeginUncertain, GatewayTypes, StartInv, GatewayInv, Activate
<1>7. TxInv'
  BY DEF IInv, BeginUncertain, TxInv, core, Activate
<1>8. DecidedInv'
  BY DEF IInv, BeginUncertain, GatewayTypes, DecidedInv, core, Goto, Return, Activate, Spent, Early
<1>9. SeenInv'
  BY DEF IInv, BeginUncertain, GatewayTypes, SeenInv, core, Goto, Return, Activate, Spent, Early
<1>10. ResultInv'
  BY DEF IInv, BeginUncertain, GatewayTypes, ProcTypes, StartInv, ResultInv, core, Goto, Return,
     Activate, Early
<1>11. TimeInv'
  BY Constants DEF IInv, BeginUncertain, ProcTypes, StartInv, TimeInv, Goto, Return, Activate,
     Working
<1>12. Accepted'
  BY DEF IInv, BeginUncertain, GatewayTypes, Accepted, core, Activate
<1> QED BY <1>1, <1>2, <1>3, <1>4, <1>5, <1>6, <1>7, <1>8, <1>9, <1>10, <1>11, <1>12 DEF IInv

LEMMA BeginFailedIInv ==
  ASSUME IInv, NEW a \in Attempts, BeginFailed(a)
  PROVE  IInv'
<1>1. CoreTypes'
  BY DEF IInv, BeginFailed, CoreTypes, core
<1>2. GatewayTypes'
  BY DEF IInv, BeginFailed, GatewayTypes, gateway
<1>3. ProcTypes'
  BY Constants DEF IInv, BeginFailed, ProcTypes, Goto, Return, Labels, Results
<1>4. FrameTypes'
  BY ReturnEffect, Constants DEF IInv, BeginFailed, Results
<1>5. StartInv'
  BY Constants DEF IInv, BeginFailed, StartInv, core, gateway, Frame, Goto, Return, Early, Working
<1>6. GatewayInv'
  BY DEF IInv, BeginFailed, GatewayInv, gateway
<1>7. TxInv'
  BY DEF IInv, BeginFailed, TxInv, core, gateway
<1>8. DecidedInv'
  BY DEF IInv, BeginFailed, DecidedInv, core, gateway, Goto, Return, Spent, Early
<1>9. SeenInv'
  BY DEF IInv, BeginFailed, SeenInv, core, gateway, Goto, Return, Spent, Early
<1>10. ResultInv'
  BY DEF IInv, BeginFailed, ProcTypes, StartInv, ResultInv, core, gateway, Goto, Return, Early
<1>11. TimeInv'
  BY Constants DEF IInv, BeginFailed, ProcTypes, TimeInv, gateway, Goto, Return, Working
<1>12. Accepted'
  BY DEF IInv, BeginFailed, Accepted, core, gateway
<1> QED BY <1>1, <1>2, <1>3, <1>4, <1>5, <1>6, <1>7, <1>8, <1>9, <1>10, <1>11, <1>12 DEF IInv

LEMMA CallerEndedIInv ==
  ASSUME IInv, NEW a \in Attempts, CallerEnded(a)
  PROVE  IInv'
<1>1. CoreTypes'
  BY DEF IInv, CallerEnded, CoreTypes, core
<1>2. GatewayTypes'
  BY DEF IInv, CallerEnded, GatewayTypes, gateway
<1>3. ProcTypes'
  BY DEF IInv, CallerEnded, ProcTypes, Goto, Return, Compensate, Labels, Results
<1>4. FrameTypes'
  BY CompensateEffect DEF IInv, CoreTypes, CallerEnded
<1>5. StartInv'
  <2>1. /\ UNCHANGED <<row, tx, gw, from, late>> /\ pc[a] \notin Early
        /\ tx[a] = "none"
    BY DEF IInv, StartInv, CallerEnded, core, gateway, Early
  <2>2. Moves(a, "rollback") \/ Moves(a, "done")
    BY CompensateEffect DEF IInv, CoreTypes, CallerEnded
  <2> QED BY <2>1, <2>2, GivesUp
<1>6. GatewayInv'
  BY DEF IInv, CallerEnded, GatewayInv, gateway
<1>7. TxInv'
  BY DEF IInv, CallerEnded, TxInv, core, gateway
<1>8. DecidedInv'
  <2>1. /\ UNCHANGED <<row, tx, gw, from, late>> /\ pc[a] \notin Early
        /\ tx[a] = "none"
    BY DEF IInv, StartInv, CallerEnded, core, gateway, Early
  <2>2. Moves(a, "rollback") \/ Moves(a, "done")
    BY CompensateEffect DEF IInv, CoreTypes, CallerEnded
  <2> QED BY <2>1, <2>2, GivesUp
<1>9. SeenInv'
  <2>1. /\ UNCHANGED <<row, tx, gw, from, late>> /\ pc[a] \notin Early
        /\ tx[a] = "none"
    BY DEF IInv, StartInv, CallerEnded, core, gateway, Early
  <2>2. Moves(a, "rollback") \/ Moves(a, "done")
    BY CompensateEffect DEF IInv, CoreTypes, CallerEnded
  <2> QED BY <2>1, <2>2, GivesUp
<1>10. ResultInv'
  BY DEF IInv, CallerEnded, ProcTypes, FrameTypes, ResultInv, core, gateway, Goto, Return,
     Compensate
<1>11. TimeInv'
  BY Constants DEF IInv, CallerEnded, ProcTypes, FrameTypes, TimeInv, gateway, Goto, Return,
     Compensate, Working
<1>12. Accepted'
  BY DEF IInv, CallerEnded, Accepted, core, gateway
<1> QED BY <1>1, <1>2, <1>3, <1>4, <1>5, <1>6, <1>7, <1>8, <1>9, <1>10, <1>11, <1>12 DEF IInv

LEMMA AdmitIInv ==
  ASSUME IInv, NEW a \in Attempts, Admit(a)
  PROVE  IInv'
<1>1. CoreTypes'
  BY DEF IInv, Admit, CoreTypes, core
<1>2. GatewayTypes'
  BY DEF IInv, Admit, GatewayTypes, gateway
<1>3. ProcTypes'
  BY DEF IInv, Admit, ProcTypes, Goto, Return, Compensate, Labels, Results
<1>4. FrameTypes'
  <2>1. CASE Compensate(a)
    BY <2>1, CompensateEffect DEF IInv, CoreTypes
  <2>2. CASE ~Compensate(a)
    <3> DEFINE until == Min2(now + CASLimit, fr[a].localG - DiscardLimit - RecoveryLimit)
               x == [fr[a] EXCEPT !.until = until]
    <3>1. a \in Procs /\ fr[a] \in Local /\ until \in Int
      BY Constants, Limits DEF IInv, CoreTypes, FrameTypes, Local, Min2
    <3>2. fr' = [fr EXCEPT ![a] = x]
      BY <2>2 DEF Admit
    <3> HIDE DEF until
    <3>3. x \in Local
      BY <3>1 DEF Local
    <3> HIDE DEF x
    <3> QED BY <3>1, <3>2, <3>3, FrameSet DEF IInv
  <2> QED BY <2>1, <2>2
<1>5. StartInv'
  BY Constants DEF IInv, Admit, ProcTypes, FrameTypes, StartInv, core, gateway, Frame, Goto,
     Return, Compensate, Early, Working, Local
<1>6. GatewayInv'
  BY DEF IInv, Admit, GatewayInv, gateway
<1>7. TxInv'
  BY DEF IInv, Admit, TxInv, core, gateway
<1>8. DecidedInv'
  <2>1. /\ UNCHANGED <<row, tx, gw, from, late>> /\ pc[a] = "began"
        /\ tx[a] = "none"
    BY DEF IInv, StartInv, Admit, core, gateway
  <2>2. CASE Compensate(a)
    <3>1. Moves(a, "rollback") \/ Moves(a, "done")
      BY <2>2, CompensateEffect DEF IInv, CoreTypes
    <3> QED BY <2>1, <2>2, <3>1, GivesUp DEF Early
  <2>3. CASE ~Compensate(a)
    <3>1. /\ pc' = [pc EXCEPT ![a] = "casBegin"] /\ a \in Procs
          /\ \A q \in Procs \ {a} : fr'[q] = fr[q]
      BY <2>3, Constants DEF IInv, FrameTypes, Admit, Goto
    <3> QED BY <2>1, <3>1, Constants DEF IInv, ProcTypes, DecidedInv, SeenInv, Spent, Early, Working
  <2> QED BY <2>2, <2>3
<1>9. SeenInv'
  <2>1. /\ UNCHANGED <<row, tx, gw, from, late>> /\ pc[a] = "began"
        /\ tx[a] = "none"
    BY DEF IInv, StartInv, Admit, core, gateway
  <2>2. CASE Compensate(a)
    <3>1. Moves(a, "rollback") \/ Moves(a, "done")
      BY <2>2, CompensateEffect DEF IInv, CoreTypes
    <3> QED BY <2>1, <2>2, <3>1, GivesUp DEF Early
  <2>3. CASE ~Compensate(a)
    <3>1. /\ pc' = [pc EXCEPT ![a] = "casBegin"] /\ a \in Procs
          /\ \A q \in Procs \ {a} : fr'[q] = fr[q]
      BY <2>3, Constants DEF IInv, FrameTypes, Admit, Goto
    <3> QED BY <2>1, <3>1, Constants DEF IInv, ProcTypes, SeenInv, Spent, Early, Working
  <2> QED BY <2>2, <2>3
<1>10. ResultInv'
  BY DEF IInv, Admit, ProcTypes, FrameTypes, ResultInv, core, gateway, Goto, Return, Compensate
<1>11. TimeInv'
  <2>1. /\ a \in Procs /\ UNCHANGED <<now, dl>> /\ fr[a].localG <= dl[a]
        /\ now \in Nat /\ fr[a].localG \in Int
    BY Constants DEF IInv, CoreTypes, FrameTypes, Local, TimeInv, Admit, gateway, Working
  <2>2. CASE Compensate(a)
    <3>1. Moves(a, "rollback") \/ Moves(a, "done")
      BY <2>2, CompensateEffect DEF IInv, CoreTypes
    <3> QED BY <2>1, <3>1, Constants DEF IInv, TimeInv, Moves, Working
  <2>3. CASE ~Compensate(a)
    <3>1. /\ pc' = [pc EXCEPT ![a] = "casBegin"]
          /\ fr'[a].localG = fr[a].localG
          /\ fr'[a].until = Min2(now + CASLimit, fr[a].localG - DiscardLimit - RecoveryLimit)
          /\ \A q \in Procs \ {a} : fr'[q] = fr[q]
      BY <2>1, <2>3 DEF IInv, FrameTypes, Local, Admit, Goto
    <3>2. fr'[a].until + DiscardLimit + RecoveryLimit <= fr[a].localG
      BY <2>1, <3>1, Limits DEF Min2
    <3> QED BY <2>1, <3>1, <3>2, Constants DEF IInv, ProcTypes, TimeInv, Working
  <2> QED BY <2>2, <2>3
<1>12. Accepted'
  BY DEF IInv, Admit, Accepted, core, gateway
<1> QED BY <1>1, <1>2, <1>3, <1>4, <1>5, <1>6, <1>7, <1>8, <1>9, <1>10, <1>11, <1>12 DEF IInv

LEMMA CasBeginIInv ==
  ASSUME IInv, NEW a \in Attempts, CasBegin(a)
  PROVE  IInv'
<1>1. CoreTypes'
  BY DEF IInv, CasBegin, CoreTypes
<1>2. GatewayTypes'
  BY DEF IInv, CasBegin, GatewayTypes, gateway
<1>3. ProcTypes'
  BY DEF IInv, CasBegin, ProcTypes, Goto, Return, Compensate, Labels, Results
<1>4. FrameTypes'
  <2>1. CASE Compensate(a)
    BY <2>1, CompensateEffect DEF IInv, CoreTypes
  <2>2. CASE Return(a, "needs")
    BY <2>2, ReturnEffect, Constants DEF IInv, Results
  <2>3. CASE fr' = fr
    BY <2>3 DEF IInv, FrameTypes
  <2> QED BY <2>1, <2>2, <2>3 DEF CasBegin
<1>5. StartInv'
  BY Constants DEF IInv, CasBegin, CoreTypes, ProcTypes, FrameTypes, StartInv, gateway, Frame,
     Goto, Return, Compensate, Early, Working, Local
<1>6. GatewayInv'
  BY DEF IInv, CasBegin, GatewayInv, gateway
<1>7. TxInv'
  BY DEF IInv, CasBegin, CoreTypes, StartInv, TxInv, gateway
<1>8. DecidedInv'
  <2>1. /\ UNCHANGED <<row, gw, from, late>> /\ pc[a] \notin Early
        /\ tx[a] = "none"
    BY DEF IInv, StartInv, CasBegin, gateway, Early
  <2>2. CASE Compensate(a) /\ UNCHANGED tx
    <3>1. Moves(a, "rollback") \/ Moves(a, "done")
      BY <2>2, CompensateEffect DEF IInv, CoreTypes
    <3> QED BY <2>1, <2>2, <3>1, GivesUp
  <2>3. CASE Return(a, "needs") /\ UNCHANGED tx
    <3>1. Moves(a, "done")
      BY <2>3, ReturnEffect, Constants DEF IInv, Results
    <3> QED BY <2>1, <2>3, <3>1, GivesUp
  <2>4. CASE Goto(a, "casLock") /\ tx' = [tx EXCEPT ![a] = "open"] /\ UNCHANGED fr
    BY <2>1, <2>4, Constants DEF IInv, CoreTypes, ProcTypes, StartInv, DecidedInv, SeenInv, Goto,
       CasBegin, Spent, Early, Working
  <2> QED BY <2>2, <2>3, <2>4 DEF CasBegin
<1>9. SeenInv'
  <2>1. /\ UNCHANGED <<row, gw, from, late>> /\ pc[a] \notin Early
        /\ tx[a] = "none"
    BY DEF IInv, StartInv, CasBegin, gateway, Early
  <2>2. CASE Compensate(a) /\ UNCHANGED tx
    <3>1. Moves(a, "rollback") \/ Moves(a, "done")
      BY <2>2, CompensateEffect DEF IInv, CoreTypes
    <3> QED BY <2>1, <2>2, <3>1, GivesUp
  <2>3. CASE Return(a, "needs") /\ UNCHANGED tx
    <3>1. Moves(a, "done")
      BY <2>3, ReturnEffect, Constants DEF IInv, Results
    <3> QED BY <2>1, <2>3, <3>1, GivesUp
  <2>4. CASE Goto(a, "casLock") /\ tx' = [tx EXCEPT ![a] = "open"] /\ UNCHANGED fr
    BY <2>1, <2>4, Constants DEF IInv, CoreTypes, ProcTypes, StartInv, SeenInv, Goto, CasBegin,
       Spent, Early, Working
  <2> QED BY <2>2, <2>3, <2>4 DEF CasBegin
<1>10. ResultInv'
  BY DEF IInv, CasBegin, CoreTypes, ProcTypes, FrameTypes, StartInv, ResultInv, gateway, Goto,
     Return, Compensate
<1>11. TimeInv'
  BY Constants DEF IInv, CasBegin, ProcTypes, FrameTypes, TimeInv, gateway, Goto, Return,
     Compensate, Working
<1>12. Accepted'
  BY DEF IInv, CasBegin, Accepted, gateway
<1> QED BY <1>1, <1>2, <1>3, <1>4, <1>5, <1>6, <1>7, <1>8, <1>9, <1>10, <1>11, <1>12 DEF IInv

LEMMA CasLockIInv ==
  ASSUME IInv, NEW a \in Attempts, CasLock(a)
  PROVE  IInv'
<1>1. CoreTypes'
  BY DEF IInv, CasLock, CoreTypes
<1>2. GatewayTypes'
  BY DEF IInv, CasLock, GatewayTypes, gateway
<1>3. ProcTypes'
  BY DEF IInv, CasLock, ProcTypes, Goto, Labels
<1>4. FrameTypes'
  BY DEF IInv, CasLock, FrameTypes
<1>5. StartInv'
  BY Constants DEF IInv, CasLock, CoreTypes, ProcTypes, StartInv, gateway, Goto, Early, Working
<1>6. GatewayInv'
  BY DEF IInv, CasLock, GatewayInv, gateway
<1>7. TxInv'
  BY DEF IInv, CasLock, CoreTypes, TxInv, RowFree
<1>8. DecidedInv'
  BY Constants DEF IInv, CasLock, CoreTypes, ProcTypes, DecidedInv, SeenInv, gateway, Goto, Spent,
     Working
<1>9. SeenInv'
  BY Constants DEF IInv, CasLock, CoreTypes, ProcTypes, SeenInv, gateway, Goto, Spent, Working
<1>10. ResultInv'
  BY DEF IInv, CasLock, CoreTypes, ProcTypes, ResultInv, gateway, Goto
<1>11. TimeInv'
  BY Constants DEF IInv, CasLock, ProcTypes, TimeInv, gateway, Goto, Working
<1>12. Accepted'
  BY DEF IInv, CasLock, Accepted, gateway
<1> QED BY <1>1, <1>2, <1>3, <1>4, <1>5, <1>6, <1>7, <1>8, <1>9, <1>10, <1>11, <1>12 DEF IInv

LEMMA CasUpdateIInv ==
  ASSUME IInv, NEW a \in Attempts, CasUpdate(a)
  PROVE  IInv'
<1>1. CoreTypes'
  BY DEF IInv, CasUpdate, CoreTypes, core
<1>2. GatewayTypes'
  BY DEF IInv, CasUpdate, GatewayTypes, gateway
<1>3. ProcTypes'
  BY Constants DEF IInv, CasUpdate, ProcTypes, Goto, Labels
<1>4. FrameTypes'
  BY DEF IInv, CasUpdate, FrameTypes
<1>5. StartInv'
  BY DEF IInv, CasUpdate, StartInv, core, gateway, Goto, Early, Working
<1>6. GatewayInv'
  BY DEF IInv, CasUpdate, GatewayInv, gateway
<1>7. TxInv'
  BY DEF IInv, CasUpdate, TxInv, core
<1>8. DecidedInv'
  BY DEF IInv, CasUpdate, DecidedInv, core, gateway, Goto, Spent, Working
<1>9. SeenInv'
  BY DEF IInv, CasUpdate, SeenInv, core, gateway, Goto, Spent, Working
<1>10. ResultInv'
  BY DEF IInv, CasUpdate, ResultInv, core, gateway, Goto
<1>11. TimeInv'
  BY DEF IInv, CasUpdate, TimeInv, gateway, Goto, Working
<1>12. Accepted'
  BY DEF IInv, CasUpdate, Accepted, core, gateway
<1> QED BY <1>1, <1>2, <1>3, <1>4, <1>5, <1>6, <1>7, <1>8, <1>9, <1>10, <1>11, <1>12 DEF IInv

LEMMA CasStatementFailedIInv ==
  ASSUME IInv, NEW a \in Attempts, CasStatementFailed(a)
  PROVE  IInv'
<1>1. CoreTypes'
  BY DEF IInv, CasStatementFailed, CoreTypes, core
<1>2. GatewayTypes'
  BY DEF IInv, CasStatementFailed, GatewayTypes, gateway
<1>3. ProcTypes'
  BY DEF IInv, CasStatementFailed, ProcTypes, Goto, Return, Labels, Results
<1>4. FrameTypes'
  <2>1. CASE Return(a, "needs")
    BY <2>1, ReturnEffect, Constants DEF IInv, Results
  <2>2. CASE fr' = fr
    BY <2>2 DEF IInv, FrameTypes
  <2> QED BY <2>1, <2>2 DEF CasStatementFailed
<1>5. StartInv'
  BY Constants DEF IInv, CasStatementFailed, ProcTypes, FrameTypes, StartInv, core, gateway, Frame,
     Goto, Return, Early, Working
<1>6. GatewayInv'
  BY DEF IInv, CasStatementFailed, GatewayInv, gateway
<1>7. TxInv'
  BY DEF IInv, CasStatementFailed, TxInv, core, gateway
<1>8. DecidedInv'
  BY Constants DEF IInv, CasStatementFailed, GatewayTypes, ProcTypes, FrameTypes, DecidedInv,
     SeenInv, core, gateway, Goto, Return, Spent, Early, Working
<1>9. SeenInv'
  BY Constants DEF IInv, CasStatementFailed, ProcTypes, FrameTypes, SeenInv, core, gateway, Goto,
     Return, Spent, Working
<1>10. ResultInv'
  BY DEF IInv, CasStatementFailed, ProcTypes, FrameTypes, ResultInv, core, gateway, Goto, Return
<1>11. TimeInv'
  BY Constants DEF IInv, CasStatementFailed, ProcTypes, FrameTypes, TimeInv, gateway, Goto, Return,
     Working
<1>12. Accepted'
  BY DEF IInv, CasStatementFailed, Accepted, core, gateway
<1> QED BY <1>1, <1>2, <1>3, <1>4, <1>5, <1>6, <1>7, <1>8, <1>9, <1>10, <1>11, <1>12 DEF IInv

LEMMA CasRollbackIInv ==
  ASSUME IInv, NEW a \in Attempts, CasRollback(a)
  PROVE  IInv'
<1>1. CoreTypes'
  BY DEF IInv, CasRollback, CoreTypes
<1>2. GatewayTypes'
  BY DEF IInv, CasRollback, GatewayTypes, gateway
<1>3. ProcTypes'
  BY DEF IInv, CasRollback, ProcTypes, Goto, Return, Compensate, ToQuarantine, Labels, Results
<1>4. FrameTypes'
  <2> QED BY CompensateEffect, ToQuarantineEffect DEF IInv, CoreTypes, CasRollback
<1>5. StartInv'
  <2>1. /\ UNCHANGED <<row, gw, from, late>> /\ pc[a] \notin Early
        /\ tx' = tx \/ (tx[a] \in {"open", "locked"} /\ tx' = [tx EXCEPT ![a] = "aborted"])
        /\ tx'[a] \notin {"committing", "committed"}
    BY DEF IInv, CoreTypes, StartInv, CasRollback, gateway, Early
  <2>2. \/ Moves(a, "rollback") \/ Moves(a, "done") \/ Moves(a, "quarantine")
    BY CompensateEffect, ToQuarantineEffect DEF IInv, CoreTypes, CasRollback
  <2> QED BY <2>1, <2>2, GivesUp
<1>6. GatewayInv'
  BY DEF IInv, CasRollback, GatewayInv, gateway
<1>7. TxInv'
  BY DEF IInv, CasRollback, CoreTypes, TxInv, gateway
<1>8. DecidedInv'
  <2>1. /\ UNCHANGED <<row, gw, from, late>> /\ pc[a] \notin Early
        /\ tx' = tx \/ (tx[a] \in {"open", "locked"} /\ tx' = [tx EXCEPT ![a] = "aborted"])
        /\ tx'[a] \notin {"committing", "committed"}
    BY DEF IInv, CoreTypes, StartInv, CasRollback, gateway, Early
  <2>2. \/ Moves(a, "rollback") \/ Moves(a, "done") \/ Moves(a, "quarantine")
    BY CompensateEffect, ToQuarantineEffect DEF IInv, CoreTypes, CasRollback
  <2> QED BY <2>1, <2>2, GivesUp
<1>9. SeenInv'
  <2>1. /\ UNCHANGED <<row, gw, from, late>> /\ pc[a] \notin Early
        /\ tx' = tx \/ (tx[a] \in {"open", "locked"} /\ tx' = [tx EXCEPT ![a] = "aborted"])
        /\ tx'[a] \notin {"committing", "committed"}
    BY DEF IInv, CoreTypes, StartInv, CasRollback, gateway, Early
  <2>2. \/ Moves(a, "rollback") \/ Moves(a, "done") \/ Moves(a, "quarantine")
    BY CompensateEffect, ToQuarantineEffect DEF IInv, CoreTypes, CasRollback
  <2> QED BY <2>1, <2>2, GivesUp
<1>10. ResultInv'
  BY DEF IInv, CasRollback, CoreTypes, ProcTypes, FrameTypes, GatewayInv, ResultInv, gateway, Goto,
     Return, Compensate, ToQuarantine
<1>11. TimeInv'
  BY Constants DEF IInv, CasRollback, ProcTypes, FrameTypes, TimeInv, gateway, Goto, Return,
     Compensate, ToQuarantine, Working
<1>12. Accepted'
  BY DEF IInv, CasRollback, Accepted, gateway
<1> QED BY <1>1, <1>2, <1>3, <1>4, <1>5, <1>6, <1>7, <1>8, <1>9, <1>10, <1>11, <1>12 DEF IInv

LEMMA CasCommitIInv ==
  ASSUME IInv, NEW a \in Attempts, CasCommit(a)
  PROVE  IInv'
<1>1. CoreTypes'
  BY DEF IInv, CasCommit, CoreTypes
<1>2. GatewayTypes'
  BY DEF IInv, CasCommit, GatewayTypes, gateway
<1>3. ProcTypes'
  BY DEF IInv, CasCommit, ProcTypes, Goto, ToQuarantine, Labels
<1>4. FrameTypes'
  <2>1. CASE ToQuarantine(a)
    BY <2>1, ToQuarantineEffect DEF IInv
  <2>2. CASE fr' = fr
    BY <2>2 DEF IInv, FrameTypes
  <2> QED BY <2>1, <2>2 DEF CasCommit
<1>5. StartInv'
  <2>1. CASE ToQuarantine(a) /\ UNCHANGED tx
    <3>1. UNCHANGED <<row, tx, gw, from, late>> /\ pc[a] \notin Early
      BY <2>1 DEF CasCommit, gateway, Early
    <3>2. Moves(a, "quarantine")
      BY <2>1, ToQuarantineEffect DEF IInv
    <3> QED BY <3>1, <3>2, GivesUp
  <2>2. CASE tx' = [tx EXCEPT ![a] = "committing"] /\ Goto(a, "casWait") /\ UNCHANGED fr
    BY <2>2, Constants DEF IInv, CoreTypes, ProcTypes, StartInv, CasCommit, gateway, Goto, Early,
       Working
  <2> QED BY <2>1, <2>2 DEF CasCommit
<1>6. GatewayInv'
  BY DEF IInv, CasCommit, GatewayInv, gateway
<1>7. TxInv'
  BY DEF IInv, CasCommit, CoreTypes, StartInv, TxInv, gateway, Working
<1>8. DecidedInv'
  BY Constants DEF IInv, CasCommit, CoreTypes, ProcTypes, FrameTypes, DecidedInv, SeenInv, gateway,
     Goto, ToQuarantine, Spent, Working
<1>9. SeenInv'
  BY Constants DEF IInv, CasCommit, CoreTypes, ProcTypes, FrameTypes, SeenInv, gateway, Goto,
     ToQuarantine, Spent, Working
<1>10. ResultInv'
  BY DEF IInv, CasCommit, CoreTypes, ProcTypes, FrameTypes, ResultInv, gateway, Goto, ToQuarantine
<1>11. TimeInv'
  BY Constants DEF IInv, CasCommit, ProcTypes, FrameTypes, TimeInv, gateway, Goto, ToQuarantine,
     Working
<1>12. Accepted'
  BY DEF IInv, CasCommit, Accepted, gateway
<1> QED BY <1>1, <1>2, <1>3, <1>4, <1>5, <1>6, <1>7, <1>8, <1>9, <1>10, <1>11, <1>12 DEF IInv

LEMMA CasWaitIInv ==
  ASSUME IInv, NEW a \in Attempts, CasWait(a)
  PROVE  IInv'
<1>1. CoreTypes'
  BY DEF IInv, CasWait, CoreTypes, core
<1>2. GatewayTypes'
  BY DEF IInv, CasWait, GatewayTypes, gateway
<1>3. ProcTypes'
  BY DEF IInv, CasWait, ProcTypes, Goto, Return, ToQuarantine, Labels, Results
<1>4. FrameTypes'
  <2> QED BY ReturnEffect, ToQuarantineEffect, Constants DEF IInv, CasWait, Results
<1>5. StartInv'
  BY Constants DEF IInv, CasWait, CoreTypes, ProcTypes, FrameTypes, StartInv, DecidedInv, core,
     gateway, Frame, Goto, Return, ToQuarantine, Early, Working, Local
<1>6. GatewayInv'
  BY DEF IInv, CasWait, GatewayInv, gateway
<1>7. TxInv'
  BY DEF IInv, CasWait, TxInv, core, gateway
<1>8. DecidedInv'
  <2>1. UNCHANGED <<row, tx, gw, from, late>> /\ pc[a] \notin Early
    BY DEF CasWait, core, gateway, Early
  <2>2. Moves(a, "done") \/ Moves(a, "quarantine")
    BY ReturnEffect, ToQuarantineEffect, Constants DEF IInv, CasWait, Results
  <2> QED BY <2>1, <2>2, GivesUp
<1>9. SeenInv'
  <2>1. UNCHANGED <<row, tx, gw, from, late>> /\ pc[a] \notin Early
    BY DEF CasWait, core, gateway, Early
  <2>2. Moves(a, "done") \/ Moves(a, "quarantine")
    BY ReturnEffect, ToQuarantineEffect, Constants DEF IInv, CasWait, Results
  <2> QED BY <2>1, <2>2, GivesUp
<1>10. ResultInv'
  BY DEF IInv, CasWait, ProcTypes, FrameTypes, StartInv, ResultInv, core, gateway, Frame, Goto,
     Return, ToQuarantine
<1>11. TimeInv'
  BY Constants DEF IInv, CasWait, ProcTypes, FrameTypes, TimeInv, gateway, Goto, Return,
     ToQuarantine, Working
<1>12. Accepted'
  BY DEF IInv, CasWait, Accepted, core, gateway
<1> QED BY <1>1, <1>2, <1>3, <1>4, <1>5, <1>6, <1>7, <1>8, <1>9, <1>10, <1>11, <1>12 DEF IInv

LEMMA QuarantineIInv ==
  ASSUME IInv, NEW a \in Attempts, Quarantine(a)
  PROVE  IInv'
<1>1. CoreTypes'
  BY DEF IInv, Quarantine, CoreTypes, core
<1>2. GatewayTypes'
  BY DEF IInv, Quarantine, GatewayTypes, gateway
<1>3. ProcTypes'
  BY DEF IInv, Quarantine, ProcTypes, Goto, Return, Labels, Results
<1>4. FrameTypes'
  <2>1. CASE Return(a, "needs")
    BY <2>1, ReturnEffect, Constants DEF IInv, Results
  <2>2. CASE ~Return(a, "needs")
    <3> DEFINE until == Min2(now + RecoveryLimit, fr[a].localG)
               x == [fr[a] EXCEPT !.purpose = "unknownCAS", !.until = until]
    <3>1. a \in Procs /\ fr[a] \in Local /\ until \in Int
      BY Constants, Limits DEF IInv, CoreTypes, FrameTypes, Local, Min2
    <3>2. fr' = [fr EXCEPT ![a] = x]
      BY <2>2 DEF Quarantine
    <3> HIDE DEF until
    <3>3. x \in Local
      BY <3>1 DEF Local
    <3> HIDE DEF x
    <3> QED BY <3>1, <3>2, <3>3, FrameSet DEF IInv
  <2> QED BY <2>1, <2>2
<1>5. StartInv'
  BY Constants DEF IInv, Quarantine, ProcTypes, FrameTypes, StartInv, core, gateway, Frame, Goto,
     Return, Early, Working, Local
<1>6. GatewayInv'
  BY DEF IInv, Quarantine, GatewayInv, gateway
<1>7. TxInv'
  BY DEF IInv, Quarantine, TxInv, core, gateway
<1>8. DecidedInv'
  <2>1. UNCHANGED <<row, tx, gw, from, late>> /\ pc[a] = "quarantine"
    BY DEF Quarantine, core, gateway
  <2>2. CASE Return(a, "needs")
    <3>1. Moves(a, "done")
      BY <2>2, ReturnEffect, Constants DEF IInv, Results
    <3> QED BY <2>1, <3>1, GivesUp DEF Early
  <2>3. CASE ~Return(a, "needs")
    <3>1. /\ pc' = [pc EXCEPT ![a] = "inspLock"] /\ a \in Procs
          /\ \A q \in Procs \ {a} : fr'[q] = fr[q]
      BY <2>3, Constants DEF IInv, FrameTypes, Quarantine, Goto
    <3> QED BY <2>1, <3>1, Constants DEF IInv, ProcTypes, DecidedInv, Spent, Early, Working
  <2> QED BY <2>2, <2>3
<1>9. SeenInv'
  BY Constants DEF IInv, Quarantine, CoreTypes, ProcTypes, FrameTypes, StartInv, SeenInv, core,
     gateway, Goto, Return, Spent, Early, Working, Local
<1>10. ResultInv'
  BY DEF IInv, Quarantine, ProcTypes, FrameTypes, ResultInv, core, gateway, Goto, Return
<1>11. TimeInv'
  BY Constants DEF IInv, Quarantine, ProcTypes, FrameTypes, TimeInv, gateway, Goto, Return, Working
<1>12. Accepted'
  BY DEF IInv, Quarantine, Accepted, core, gateway
<1> QED BY <1>1, <1>2, <1>3, <1>4, <1>5, <1>6, <1>7, <1>8, <1>9, <1>10, <1>11, <1>12 DEF IInv

LEMMA ServerResolveIInv ==
  ASSUME IInv, NEW a \in Attempts, ServerResolve(a)
  PROVE  IInv'
<1>1. CoreTypes'
  BY Constants DEF IInv, ServerResolve, CoreTypes
<1>2. GatewayTypes'
  BY DEF IInv, ServerResolve, GatewayTypes, gateway
<1>3. ProcTypes'
  BY DEF IInv, ServerResolve, ProcTypes
<1>4. FrameTypes'
  BY DEF IInv, ServerResolve, FrameTypes
<1>5. StartInv'
  BY DEF IInv, ServerResolve, CoreTypes, StartInv, TxInv, gateway
<1>6. GatewayInv'
  BY DEF IInv, ServerResolve, GatewayInv, gateway
<1>7. TxInv'
  <2>1. CASE tx' = [tx EXCEPT ![a] = "aborted"] /\ UNCHANGED row
    BY <2>1, Constants DEF IInv, CoreTypes, TxInv, ServerResolve, gateway
  <2>2. CASE tx' = [tx EXCEPT ![a] = "committed"] /\ row' = a
    <3>1. row = from[a] /\ from[a] < a /\ from[a] \in Tokens
      BY DEF IInv, GatewayTypes, TxInv, GatewayInv, ServerResolve
    <3>2. \A b \in Attempts : tx[b] = "committed" => a >= b
      BY <3>1, Constants DEF IInv, TxInv, ServerResolve
    <3> QED BY <2>2, <3>2, Constants DEF IInv, CoreTypes, TxInv, ServerResolve, gateway
  <2> QED BY <2>1, <2>2 DEF ServerResolve
<1>8. DecidedInv'
  BY DEF IInv, ServerResolve, CoreTypes, DecidedInv, SeenInv, gateway, Spent
<1>9. SeenInv'
  BY DEF IInv, ServerResolve, CoreTypes, SeenInv, gateway, Spent
<1>10. ResultInv'
  BY DEF IInv, ServerResolve, CoreTypes, ResultInv, gateway
<1>11. TimeInv'
  BY DEF IInv, ServerResolve, TimeInv, gateway
<1>12. Accepted'
  BY DEF IInv, ServerResolve, GatewayInv, TxInv, Accepted, gateway
<1> QED BY <1>1, <1>2, <1>3, <1>4, <1>5, <1>6, <1>7, <1>8, <1>9, <1>10, <1>11, <1>12 DEF IInv

LEMMA ServerAbortIInv ==
  ASSUME IInv, NEW a \in Attempts, ServerAbort(a)
  PROVE  IInv'
<1>1. CoreTypes'
  BY DEF IInv, ServerAbort, CoreTypes
<1>2. GatewayTypes'
  BY DEF IInv, ServerAbort, GatewayTypes, gateway
<1>3. ProcTypes'
  BY DEF IInv, ServerAbort, ProcTypes
<1>4. FrameTypes'
  BY DEF IInv, ServerAbort, FrameTypes
<1>5. StartInv'
  BY DEF IInv, ServerAbort, StartInv, gateway
<1>6. GatewayInv'
  BY DEF IInv, ServerAbort, GatewayInv, gateway
<1>7. TxInv'
  BY DEF IInv, ServerAbort, TxInv, gateway
<1>8. DecidedInv'
  BY DEF IInv, ServerAbort, DecidedInv, gateway, Spent
<1>9. SeenInv'
  BY DEF IInv, ServerAbort, SeenInv, gateway, Spent
<1>10. ResultInv'
  BY DEF IInv, ServerAbort, ResultInv, gateway
<1>11. TimeInv'
  BY DEF IInv, ServerAbort, TimeInv, gateway
<1>12. Accepted'
  BY DEF IInv, ServerAbort, Accepted, gateway
<1> QED BY <1>1, <1>2, <1>3, <1>4, <1>5, <1>6, <1>7, <1>8, <1>9, <1>10, <1>11, <1>12 DEF IInv

LEMMA LateRollbackIInv ==
  ASSUME IInv, NEW a \in Attempts, LateRollback(a)
  PROVE  IInv'
<1>1. CoreTypes'
  BY DEF IInv, LateRollback, CoreTypes, core
<1>2. GatewayTypes'
  BY DEF IInv, LateRollback, GatewayTypes, RollBack, States
<1>3. ProcTypes'
  BY DEF IInv, LateRollback, ProcTypes
<1>4. FrameTypes'
  BY DEF IInv, LateRollback, FrameTypes
<1>5. StartInv'
  <2>1. /\ gw[a] = "pair" /\ gw' = [gw EXCEPT ![a] = "rolledBack"]
        /\ UNCHANGED <<row, tx, from, pc, fr>>
    BY DEF LateRollback, CanRollback, RollBack, core
  <2>2. pc[a] \notin Early \cup Working
    BY <2>1 DEF IInv, DecidedInv, StartInv, Spent, LateRollback, Early, Working
  <2> QED BY <2>1, <2>2 DEF IInv, GatewayTypes, StartInv
<1>6. GatewayInv'
  BY DEF IInv, LateRollback, GatewayTypes, GatewayInv, RollBack, CanRollback
<1>7. TxInv'
  <2>1. /\ gw[a] = "pair" /\ gw' = [gw EXCEPT ![a] = "rolledBack"]
        /\ UNCHANGED <<row, tx, from>>
    BY DEF LateRollback, CanRollback, RollBack, core
  <2>2. tx[a] # "committing"
    BY DEF IInv, DecidedInv, Spent, LateRollback
  <2> QED BY <2>1, <2>2 DEF IInv, GatewayTypes, TxInv
<1>8. DecidedInv'
  BY DEF IInv, LateRollback, DecidedInv, core, RollBack, Spent
<1>9. SeenInv'
  BY DEF IInv, LateRollback, SeenInv, core, RollBack, CanRollback, Spent
<1>10. ResultInv'
  BY DEF IInv, LateRollback, ResultInv, core, RollBack, CanRollback
<1>11. TimeInv'
  BY DEF IInv, LateRollback, TimeInv
<1>12. Accepted'
  <2>1. /\ gw[a] = "pair" /\ active' = from[a] /\ gw' = [gw EXCEPT ![a] = "rolledBack"]
        /\ UNCHANGED <<row, tx, from>>
    BY DEF LateRollback, CanRollback, RollBack, core
  <2>2. tx[a] # "committed"
    BY DEF IInv, DecidedInv, Spent, LateRollback
  <2>3. row = Gone \/ row = from[a]
    BY <2>1, <2>2 DEF IInv, TxInv, GatewayInv, Accepted
  <2> QED BY <2>1, <2>3 DEF Accepted
<1> QED BY <1>1, <1>2, <1>3, <1>4, <1>5, <1>6, <1>7, <1>8, <1>9, <1>10, <1>11, <1>12 DEF IInv

LEMMA LateFinalizeIInv ==
  ASSUME IInv, NEW a \in Attempts, LateFinalize(a)
  PROVE  IInv'
<1>1. CoreTypes'
  BY DEF IInv, LateFinalize, CoreTypes, core
<1>2. GatewayTypes'
  BY DEF IInv, LateFinalize, GatewayTypes, States
<1>3. ProcTypes'
  BY DEF IInv, LateFinalize, ProcTypes
<1>4. FrameTypes'
  BY DEF IInv, LateFinalize, FrameTypes
<1>5. StartInv'
  <2>1. /\ gw[a] = "pair" /\ gw' = [gw EXCEPT ![a] = "completed"]
        /\ UNCHANGED <<row, tx, from, pc, fr>>
    BY DEF LateFinalize, CanFinalize, core
  <2>2. pc[a] \notin Early \cup Working
    BY <2>1 DEF IInv, DecidedInv, StartInv, Spent, LateFinalize, Early, Working
  <2> QED BY <2>1, <2>2 DEF IInv, GatewayTypes, StartInv
<1>6. GatewayInv'
  BY DEF IInv, LateFinalize, GatewayInv, CanFinalize
<1>7. TxInv'
  <2>1. /\ gw[a] = "pair" /\ gw' = [gw EXCEPT ![a] = "completed"]
        /\ UNCHANGED <<row, tx, from>>
    BY DEF LateFinalize, CanFinalize, core
  <2>2. tx[a] # "committing"
    BY DEF IInv, DecidedInv, Spent, LateFinalize
  <2> QED BY <2>1, <2>2 DEF IInv, GatewayTypes, TxInv
<1>8. DecidedInv'
  BY DEF IInv, LateFinalize, DecidedInv, core, Spent
<1>9. SeenInv'
  BY DEF IInv, LateFinalize, SeenInv, core, CanFinalize, Spent
<1>10. ResultInv'
  BY DEF IInv, LateFinalize, ResultInv, core, CanFinalize
<1>11. TimeInv'
  BY DEF IInv, LateFinalize, TimeInv
<1>12. Accepted'
  <2>1. gw[a] = "pair" /\ UNCHANGED <<row, active, from>>
    BY DEF LateFinalize, CanFinalize, core
  <2>2. tx[a] = "committed" /\ active = a
    BY <2>1 DEF IInv, DecidedInv, GatewayInv, LateFinalize
  <2>3. \A b \in Attempts : gw[b] = "pair" => b = a
    BY <2>1 DEF IInv, GatewayInv
  <2>4. row = Gone \/ row >= a
    BY <2>2 DEF IInv, TxInv
  <2>5. row # from[a]
    BY <2>1, <2>4, Constants DEF IInv, GatewayTypes, GatewayInv
  <2> QED BY <2>1, <2>2, <2>3, <2>5 DEF IInv, Accepted
<1> QED BY <1>1, <1>2, <1>3, <1>4, <1>5, <1>6, <1>7, <1>8, <1>9, <1>10, <1>11, <1>12 DEF IInv

LEMMA InspectCallIInv ==
  ASSUME IInv, NEW i \in Inspectors, InspectCall(i)
  PROVE  IInv'
<1>1. CoreTypes'
  BY DEF IInv, InspectCall, CoreTypes, core
<1>2. GatewayTypes'
  BY DEF IInv, InspectCall, GatewayTypes, gateway
<1>3. ProcTypes'
  BY Constants DEF IInv, InspectCall, ProcTypes, Goto, Labels, Results
<1>4. FrameTypes'
  <2>1. PICK a \in Attempts, why \in {"reconcile", "finalize"} :
            fr' = [fr EXCEPT ![i] = [Frame(a) EXCEPT !.purpose = why, !.until = now + RecoveryLimit]]
    BY DEF InspectCall, Handles
  <2> DEFINE x == [Frame(a) EXCEPT !.purpose = why, !.until = now + RecoveryLimit]
  <2>2. i \in Procs /\ Frame(a) \in Local /\ now + RecoveryLimit \in Int
    BY FrameType, Constants, Limits DEF IInv, CoreTypes
  <2>3. x \in Local
    BY <2>2 DEF Local
  <2>4. fr' = [fr EXCEPT ![i] = x]
    BY <2>1
  <2> HIDE DEF x
  <2> QED BY <2>2, <2>3, <2>4, FrameSet DEF IInv
<1>5. StartInv'
  <2>1. /\ i \in Procs /\ i \notin Attempts /\ Attempts \subseteq Procs
        /\ \A b \in Attempts : pc'[b] = pc[b] /\ fr'[b] = fr[b]
    BY Constants, RotationAssumption DEF IInv, ProcTypes, FrameTypes, InspectCall, Goto
  <2> QED BY <2>1 DEF IInv, StartInv, InspectCall, core, gateway
<1>6. GatewayInv'
  BY DEF IInv, InspectCall, GatewayInv, gateway
<1>7. TxInv'
  BY DEF IInv, InspectCall, TxInv, core, gateway
<1>8. DecidedInv'
  BY DEF IInv, InspectCall, DecidedInv, core, gateway, Goto, Spent, Early, Working
<1>9. SeenInv'
  BY DEF IInv, InspectCall, FrameTypes, SeenInv, core, gateway, Frame, Goto, Handles, Spent, Early,
     Working
<1>10. ResultInv'
  BY DEF IInv, InspectCall, ProcTypes, ResultInv, core, gateway, Goto
<1>11. TimeInv'
  BY DEF IInv, InspectCall, TimeInv, gateway, Goto, Working
<1>12. Accepted'
  BY DEF IInv, InspectCall, Accepted, core, gateway
<1> QED BY <1>1, <1>2, <1>3, <1>4, <1>5, <1>6, <1>7, <1>8, <1>9, <1>10, <1>11, <1>12 DEF IInv

LEMMA InspLockIInv ==
  ASSUME IInv, NEW p \in Procs, InspLock(p)
  PROVE  IInv'
<1>1. CoreTypes'
  BY DEF IInv, InspLock, CoreTypes
<1>2. GatewayTypes'
  BY DEF IInv, InspLock, GatewayTypes, gateway
<1>3. ProcTypes'
  BY DEF IInv, InspLock, ProcTypes, Goto, Return, Labels, Results
<1>4. FrameTypes'
  <2>1. CASE Return(p, "needs")
    BY <2>1, ReturnEffect DEF IInv, Results
  <2>2. CASE ~Return(p, "needs")
    <3> DEFINE x == [fr[p] EXCEPT !.tok = row, !.anchor = now]
    <3>1. fr[p] \in Local /\ row \in Tokens /\ now \in Nat
      BY <2>2 DEF IInv, CoreTypes, FrameTypes, InspLock
    <3>2. fr' = [fr EXCEPT ![p] = x]
      BY <2>2 DEF InspLock
    <3>3. x \in Local
      BY <3>1 DEF Local
    <3> HIDE DEF x
    <3> QED BY <3>2, <3>3, FrameSet DEF IInv
  <2> QED BY <2>1, <2>2
<1>5. StartInv'
  BY Constants DEF IInv, InspLock, CoreTypes, GatewayTypes, ProcTypes, FrameTypes, StartInv,
     GatewayInv, SeenInv, gateway, Frame, Goto, Return, Early, Working, Local
<1>6. GatewayInv'
  BY DEF IInv, InspLock, GatewayInv, gateway
<1>7. TxInv'
  BY DEF IInv, InspLock, TxInv, gateway
<1>8. DecidedInv'
  <2>1. /\ UNCHANGED <<tx, gw, late>> /\ pc[p] = "inspLock"
        /\ \A q \in Procs \ {p} : pc'[q] = pc[q] /\ fr'[q] = fr[q]
        /\ pc'[p] \in {"observe", "done"}
    BY DEF IInv, ProcTypes, FrameTypes, InspLock, gateway, Goto, Return
  <2>2. \A b \in Attempts : Spent(b) => Spent(b)'
    BY <2>1, Constants DEF Spent, Early, Working
  <2> QED BY <2>1, <2>2 DEF IInv, DecidedInv, SeenInv
<1>9. SeenInv'
  <2>1. /\ UNCHANGED <<tx, gw, from>> /\ pc[p] = "inspLock"
        /\ \A q \in Procs \ {p} : pc'[q] = pc[q] /\ fr'[q] = fr[q]
        /\ pc'[p] \in {"observe", "done"}
    BY DEF IInv, ProcTypes, FrameTypes, InspLock, gateway, Goto, Return
  <2>2. \A b \in Attempts : Spent(b) => Spent(b)'
    BY <2>1, Constants DEF Spent, Early, Working
  <2>3. \A b \in Attempts : pc[b] \notin Early \cup Working => pc'[b] \notin Early \cup Working
    BY <2>1, Constants DEF Early, Working
  <2>4. fr[p].h \in Attempts /\ pc[fr[p].h] \notin Early \cup Working
    BY <2>1 DEF IInv, SeenInv
  <2>5. CASE pc'[p] = "observe"
    <3> DEFINE h == fr[p].h
    <3>1. fr'[p].h = h /\ fr'[p].tok = row /\ RowFree /\ row \in Tokens
      BY <2>5 DEF IInv, CoreTypes, ProcTypes, FrameTypes, Local, InspLock, Goto, Return
    <3>2. row = h => tx[h] = "committed"
      BY <2>4 DEF IInv, TxInv
    <3>3. row < h => Spent(h)
      <4>1. tx[h] # "committing" /\ (tx[h] = "committed" => row >= h)
        BY <2>4, <3>1, Constants DEF IInv, TxInv, RowFree
      <4> QED BY <2>4, <3>1, <4>1, Constants DEF Spent
    <3>4. /\ fr'[p].h \in Attempts /\ pc'[fr'[p].h] \notin Early \cup Working
          /\ fr'[p].tok = fr'[p].h => tx'[fr'[p].h] = "committed"
          /\ fr'[p].tok < fr'[p].h => Spent(fr[p].h)'
      BY <2>1, <2>2, <2>3, <2>4, <3>1, <3>2, <3>3
    <3> QED BY <2>1, <2>2, <2>3, <2>5, <3>4 DEF IInv, SeenInv
  <2>6. CASE pc'[p] = "done"
    BY <2>1, <2>2, <2>3, <2>6 DEF IInv, SeenInv
  <2> QED BY <2>1, <2>5, <2>6
<1>10. ResultInv'
  BY DEF IInv, InspLock, ProcTypes, FrameTypes, ResultInv, gateway, Goto, Return
<1>11. TimeInv'
  BY Constants DEF IInv, InspLock, ProcTypes, FrameTypes, TimeInv, gateway, Goto, Return, Working
<1>12. Accepted'
  BY DEF IInv, InspLock, Accepted, gateway
<1> QED BY <1>1, <1>2, <1>3, <1>4, <1>5, <1>6, <1>7, <1>8, <1>9, <1>10, <1>11, <1>12 DEF IInv

LEMMA ObserveRotationIInv ==
  ASSUME IInv, NEW p \in Procs, ObserveRotation(p)
  PROVE  IInv'
<1>1. CoreTypes'
  BY DEF IInv, ObserveRotation, CoreTypes, core
<1>2. GatewayTypes'
  BY DEF IInv, ObserveRotation, GatewayTypes, gateway
<1>3. ProcTypes'
  BY DEF IInv, ObserveRotation, ProcTypes, Goto, Release, Labels, Results
<1>4. FrameTypes'
  <2> DEFINE g == IF gw[fr[p].h] = "pair" /\ fr[p].purpose # "unknownCAS"
                  THEN fr[p].anchor + (dl[fr[p].h] - now)
                  ELSE fr[p].localG
             x == [fr[p] EXCEPT !.state = gw[fr[p].h],
                                !.identity = Identity(fr[p].tok, fr[p].h),
                                !.localG = g]
  <2>1. fr[p] \in Local /\ fr[p].h \in Attempts
    BY DEF IInv, FrameTypes, SeenInv, ObserveRotation
  <2>2. fr' = [fr EXCEPT ![p] = x] \/ fr' = fr
    BY DEF ObserveRotation, Release
  <2>3. /\ gw[fr[p].h] \in States /\ g \in Int
        /\ Identity(fr[p].tok, fr[p].h) \in {"new", "old", "neither"}
    BY <2>1, Limits DEF IInv, CoreTypes, GatewayTypes, Local, Identity
  <2> HIDE DEF g
  <2>4. x \in Local
    BY <2>1, <2>3 DEF Local
  <2> HIDE DEF x
  <2> QED BY <2>2, <2>4, FrameSet DEF IInv, FrameTypes
<1>5. StartInv'
  BY Constants DEF IInv, ObserveRotation, ProcTypes, FrameTypes, StartInv, core, gateway, Goto,
     Release, Early, Working, Local
<1>6. GatewayInv'
  BY DEF IInv, ObserveRotation, GatewayInv, gateway
<1>7. TxInv'
  BY DEF IInv, ObserveRotation, TxInv, core, gateway
<1>8. DecidedInv'
  BY Constants DEF IInv, ObserveRotation, CoreTypes, ProcTypes, FrameTypes, DecidedInv, SeenInv,
     core, gateway, Goto, Release, Spent, Early, Working
<1>9. SeenInv'
  <2>1. /\ UNCHANGED <<tx, gw, from>> /\ pc[p] = "observe"
        /\ \A q \in Procs \ {p} : pc'[q] = pc[q] /\ fr'[q] = fr[q]
        /\ pc'[p] \in {"decide", "release"}
        /\ fr'[p].h = fr[p].h /\ fr'[p].tok = fr[p].tok
    BY DEF IInv, ProcTypes, FrameTypes, Local, ObserveRotation, core, gateway, Goto, Release
  <2>2. \A b \in Attempts : Spent(b) => Spent(b)'
    BY <2>1, Constants DEF Spent, Early, Working
  <2>3. \A b \in Attempts : pc[b] \notin Early \cup Working => pc'[b] \notin Early \cup Working
    BY <2>1, Constants DEF Early, Working
  <2>4. /\ fr[p].h \in Attempts /\ pc[fr[p].h] \notin Early \cup Working
        /\ fr[p].tok = fr[p].h => tx[fr[p].h] = "committed"
        /\ fr[p].tok < fr[p].h => Spent(fr[p].h)
    BY <2>1 DEF IInv, SeenInv
  <2>5. CASE pc'[p] = "decide"
    <3> DEFINE h == fr[p].h
    <3>1. /\ gw[h] # "none" /\ fr'[p].state = gw[h] /\ fr'[p].identity = Identity(fr[p].tok, h)
      BY <2>5 DEF IInv, ProcTypes, FrameTypes, Local, ObserveRotation, Goto, Release
    <3>2. /\ fr'[p].identity = "new" => fr[p].tok = h
          /\ fr'[p].identity = "old" => fr[p].tok < h
      BY <2>4, <3>1 DEF IInv, GatewayInv, Identity
    <3>3. /\ fr'[p].state \in {"rolledBack", "completed"} => gw'[fr'[p].h] = fr'[p].state
          /\ fr'[p].identity = "new" => fr'[p].tok = fr'[p].h
          /\ fr'[p].identity = "old" => fr'[p].tok < fr'[p].h
      BY <2>1, <3>1, <3>2
    <3> QED BY <2>1, <2>2, <2>3, <2>4, <2>5, <3>3 DEF IInv, SeenInv
  <2>6. CASE pc'[p] = "release"
    BY <2>1, <2>2, <2>3, <2>4, <2>6 DEF IInv, SeenInv
  <2> QED BY <2>1, <2>5, <2>6
<1>10. ResultInv'
  BY DEF IInv, ObserveRotation, ProcTypes, FrameTypes, ResultInv, core, gateway, Goto, Release
<1>11. TimeInv'
  BY Constants DEF IInv, ObserveRotation, ProcTypes, FrameTypes, TimeInv, gateway, Goto, Release,
     Working
<1>12. Accepted'
  BY DEF IInv, ObserveRotation, Accepted, core, gateway
<1> QED BY <1>1, <1>2, <1>3, <1>4, <1>5, <1>6, <1>7, <1>8, <1>9, <1>10, <1>11, <1>12 DEF IInv

LEMMA ReconcileLockedIInv ==
  ASSUME IInv, NEW p \in Procs, ReconcileLocked(p)
  PROVE  IInv'
<1>1. CoreTypes'
  BY DEF IInv, ReconcileLocked, CoreTypes, core
<1>2. GatewayTypes'
  BY DEF IInv, ReconcileLocked, GatewayTypes, gateway
<1>3. ProcTypes'
  BY DEF IInv, ReconcileLocked, ProcTypes, Goto, Release, Labels, Results
<1>4. FrameTypes'
  BY DEF IInv, ReconcileLocked, FrameTypes, Release
<1>5. StartInv'
  BY Constants DEF IInv, ReconcileLocked, ProcTypes, StartInv, core, gateway, Goto, Release, Early,
     Working
<1>6. GatewayInv'
  BY DEF IInv, ReconcileLocked, GatewayInv, gateway
<1>7. TxInv'
  BY DEF IInv, ReconcileLocked, TxInv, core, gateway
<1>8. DecidedInv'
  BY Constants DEF IInv, ReconcileLocked, CoreTypes, ProcTypes, DecidedInv, SeenInv, core, gateway,
     Goto, Release, Sees, Spent, Early, Working
<1>9. SeenInv'
  BY Constants DEF IInv, ReconcileLocked, ProcTypes, SeenInv, core, gateway, Goto, Release, Spent,
     Early, Working
<1>10. ResultInv'
  BY DEF IInv, ReconcileLocked, ProcTypes, SeenInv, ResultInv, core, gateway, Goto, Release, Sees
<1>11. TimeInv'
  BY Constants DEF IInv, ReconcileLocked, ProcTypes, TimeInv, gateway, Goto, Release, Working
<1>12. Accepted'
  BY DEF IInv, ReconcileLocked, Accepted, core, gateway
<1> QED BY <1>1, <1>2, <1>3, <1>4, <1>5, <1>6, <1>7, <1>8, <1>9, <1>10, <1>11, <1>12 DEF IInv

LEMMA FinalizeLockedIInv ==
  ASSUME IInv, NEW p \in Procs, FinalizeLocked(p)
  PROVE  IInv'
<1>1. CoreTypes'
  BY DEF IInv, FinalizeLocked, CoreTypes, core
<1>2. GatewayTypes'
  BY DEF IInv, FinalizeLocked, GatewayTypes, gateway
<1>3. ProcTypes'
  BY DEF IInv, FinalizeLocked, ProcTypes, Goto, Release, Labels, Results
<1>4. FrameTypes'
  BY DEF IInv, FinalizeLocked, FrameTypes, Release
<1>5. StartInv'
  BY Constants DEF IInv, FinalizeLocked, ProcTypes, StartInv, core, gateway, Goto, Release, Early,
     Working
<1>6. GatewayInv'
  BY DEF IInv, FinalizeLocked, GatewayInv, gateway
<1>7. TxInv'
  BY DEF IInv, FinalizeLocked, TxInv, core, gateway
<1>8. DecidedInv'
  BY Constants DEF IInv, FinalizeLocked, CoreTypes, ProcTypes, DecidedInv, SeenInv, core, gateway,
     Goto, Release, Sees, Spent, Early, Working
<1>9. SeenInv'
  BY Constants DEF IInv, FinalizeLocked, ProcTypes, SeenInv, core, gateway, Goto, Release, Spent,
     Early, Working
<1>10. ResultInv'
  BY DEF IInv, FinalizeLocked, ProcTypes, ResultInv, core, gateway, Goto, Release
<1>11. TimeInv'
  BY Constants DEF IInv, FinalizeLocked, ProcTypes, TimeInv, gateway, Goto, Release, Working
<1>12. Accepted'
  BY DEF IInv, FinalizeLocked, Accepted, core, gateway
<1> QED BY <1>1, <1>2, <1>3, <1>4, <1>5, <1>6, <1>7, <1>8, <1>9, <1>10, <1>11, <1>12 DEF IInv

LEMMA RollbackRotationIInv ==
  ASSUME IInv, NEW p \in Procs, RollbackRotation(p)
  PROVE  IInv'
<1>1. CoreTypes'
  BY DEF IInv, RollbackRotation, CoreTypes, core
<1>2. GatewayTypes'
  BY DEF IInv, RollbackRotation, GatewayTypes, SeenInv, RollBack, AfterRollback, States
<1>3. ProcTypes'
  BY DEF IInv, RollbackRotation, ProcTypes, Goto, Return, Release, AfterRollback, Labels, Results
<1>4. FrameTypes'
  BY AfterRollbackEffect DEF IInv, RollbackRotation
<1>5. StartInv'
  BY Constants DEF IInv, RollbackRotation, GatewayTypes, ProcTypes, FrameTypes, StartInv, SeenInv,
     core, Frame, Goto, Return, Release, RollBack, AfterRollback, Early, Working
<1>6. GatewayInv'
  <2>1. fr[p].h \in Attempts
    BY DEF IInv, SeenInv, RollbackRotation
  <2>2. CASE UNCHANGED <<gw, active>>
    BY <2>2 DEF IInv, GatewayInv, RollbackRotation
  <2>3. CASE gw[fr[p].h] = "pair" /\ gw' = [gw EXCEPT ![fr[p].h] = "rolledBack"]
    BY <2>1, <2>3 DEF IInv, GatewayTypes, GatewayInv, RollbackRotation
  <2> QED BY <2>2, <2>3 DEF RollbackRotation, CanRollback, RollBack
<1>7. TxInv'
  BY DEF IInv, RollbackRotation, GatewayInv, TxInv, DecidedInv, SeenInv, core, AfterRollback,
     CanRollback, Spent
<1>8. DecidedInv'
  BY Constants, Limits DEF IInv, RollbackRotation, GatewayTypes, ProcTypes, FrameTypes, GatewayInv,
     TxInv, DecidedInv, SeenInv, ResultInv, TimeInv, Accepted, core, Goto, Return, Release,
     RollBack, AfterRollback, CanRollback, Spent, Early, Working
<1>9. SeenInv'
  BY Constants DEF IInv, RollbackRotation, GatewayTypes, ProcTypes, FrameTypes, SeenInv, core,
     Goto, Return, Release, RollBack, AfterRollback, CanRollback, Spent, Early, Working
<1>10. ResultInv'
  BY DEF IInv, RollbackRotation, GatewayTypes, ProcTypes, FrameTypes, StartInv, TxInv, DecidedInv,
     SeenInv, ResultInv, core, Goto, Return, Release, RollBack, AfterRollback, CanRollback
<1>11. TimeInv'
  BY Constants DEF IInv, RollbackRotation, ProcTypes, FrameTypes, TimeInv, Goto, Return, Release,
     AfterRollback, Working
<1>12. Accepted'
  BY DEF IInv, RollbackRotation, GatewayInv, TxInv, DecidedInv, SeenInv, Accepted, core, RollBack,
     AfterRollback, CanRollback, Spent
<1> QED BY <1>1, <1>2, <1>3, <1>4, <1>5, <1>6, <1>7, <1>8, <1>9, <1>10, <1>11, <1>12 DEF IInv

LEMMA FinalizeRotationIInv ==
  ASSUME IInv, NEW p \in Procs, FinalizeRotation(p)
  PROVE  IInv'
<1>1. CoreTypes'
  BY DEF IInv, FinalizeRotation, CoreTypes, core
<1>2. GatewayTypes'
  <2>1. fr[p].h \in Attempts
    BY DEF IInv, SeenInv, FinalizeRotation
  <2>2. late' \subseteq {"rollback", "finalize"} \X Attempts
    BY <2>1 DEF IInv, GatewayTypes, FinalizeRotation
  <2>3. gw' \in [Attempts -> States]
    BY DEF IInv, GatewayTypes, FinalizeRotation, States
  <2> QED BY <2>2, <2>3 DEF IInv, GatewayTypes, FinalizeRotation
<1>3. ProcTypes'
  BY DEF IInv, FinalizeRotation, ProcTypes, Goto, Release, Labels, Results
<1>4. FrameTypes'
  BY DEF IInv, FinalizeRotation, FrameTypes, Release
<1>5. StartInv'
  BY Constants DEF IInv, FinalizeRotation, GatewayTypes, ProcTypes, StartInv, SeenInv, core, Goto,
     Release, Early, Working
<1>6. GatewayInv'
  BY DEF IInv, FinalizeRotation, GatewayTypes, GatewayInv, CanFinalize
<1>7. TxInv'
  BY DEF IInv, FinalizeRotation, GatewayInv, TxInv, DecidedInv, SeenInv, core, CanFinalize
<1>8. DecidedInv'
  BY Constants DEF IInv, FinalizeRotation, CoreTypes, GatewayTypes, ProcTypes, DecidedInv, SeenInv,
     core, Goto, Release, Spent, Early, Working
<1>9. SeenInv'
  BY Constants DEF IInv, FinalizeRotation, GatewayTypes, ProcTypes, SeenInv, core, Goto, Release,
     CanFinalize, Spent, Early, Working
<1>10. ResultInv'
  BY DEF IInv, FinalizeRotation, GatewayTypes, ProcTypes, SeenInv, ResultInv, core, Goto, Release,
     CanFinalize
<1>11. TimeInv'
  BY Constants DEF IInv, FinalizeRotation, ProcTypes, TimeInv, Goto, Release, Working
<1>12. Accepted'
  BY Constants DEF IInv, FinalizeRotation, GatewayTypes, GatewayInv, TxInv, DecidedInv, Accepted,
     core
<1> QED BY <1>1, <1>2, <1>3, <1>4, <1>5, <1>6, <1>7, <1>8, <1>9, <1>10, <1>11, <1>12 DEF IInv

LEMMA InspReleaseIInv ==
  ASSUME IInv, NEW p \in Procs, InspRelease(p)
  PROVE  IInv'
<1>1. CoreTypes'
  BY DEF IInv, InspRelease, CoreTypes
<1>2. GatewayTypes'
  BY DEF IInv, InspRelease, GatewayTypes, gateway
<1>3. ProcTypes'
  BY DEF IInv, InspRelease, ProcTypes, Goto, Return, Labels, Results
<1>4. FrameTypes'
  BY ReturnEffect DEF IInv, InspRelease, Results, ProcTypes
<1>5. StartInv'
  BY Constants DEF IInv, InspRelease, ProcTypes, FrameTypes, StartInv, gateway, Frame, Goto,
     Return, Early, Working
<1>6. GatewayInv'
  BY DEF IInv, InspRelease, GatewayInv, gateway
<1>7. TxInv'
  BY DEF IInv, InspRelease, TxInv, gateway
<1>8. DecidedInv'
  BY Constants DEF IInv, InspRelease, GatewayTypes, ProcTypes, FrameTypes, GatewayInv, DecidedInv,
     SeenInv, TimeInv, Accepted, gateway, Frame, Goto, Return, Spent, Early, Working
<1>9. SeenInv'
  BY Constants DEF IInv, InspRelease, ProcTypes, FrameTypes, StartInv, SeenInv, Accepted, gateway,
     Goto, Return, Spent, Early, Working
<1>10. ResultInv'
  BY DEF IInv, InspRelease, ProcTypes, FrameTypes, ResultInv, gateway, Frame, Goto, Return
<1>11. TimeInv'
  BY Constants DEF IInv, InspRelease, ProcTypes, FrameTypes, TimeInv, gateway, Goto, Return, Working
<1>12. Accepted'
  BY DEF IInv, InspRelease, Accepted, gateway
<1> QED BY <1>1, <1>2, <1>3, <1>4, <1>5, <1>6, <1>7, <1>8, <1>9, <1>10, <1>11, <1>12 DEF IInv

LEMMA CrashIInv ==
  ASSUME IInv, NEW p \in Procs, Crash(p)
  PROVE  IInv'
<1>1. CoreTypes'
  BY DEF IInv, Crash, CoreTypes, core
<1>2. GatewayTypes'
  BY DEF IInv, Crash, GatewayTypes
<1>3. ProcTypes'
  BY DEF IInv, Crash, ProcTypes, Goto, Labels, Results
<1>4. FrameTypes'
  <2>1. fr[p].h \in Tokens
    BY DEF IInv, FrameTypes, Local
  <2>2. Frame(fr[p].h) \in Local
    BY <2>1, FrameType
  <2> QED BY <2>2, FrameSet DEF IInv, Crash
<1>5. StartInv'
  BY DEF IInv, Crash, ProcTypes, StartInv, core, Frame, Goto, Early, Working
<1>6. GatewayInv'
  BY DEF IInv, Crash, GatewayInv
<1>7. TxInv'
  BY DEF IInv, Crash, TxInv, core
<1>8. DecidedInv'
  BY DEF IInv, Crash, DecidedInv, core, Frame, Goto, Spent, Early, Working
<1>9. SeenInv'
  BY DEF IInv, Crash, ProcTypes, SeenInv, core, Goto, Spent, Early, Working
<1>10. ResultInv'
  BY DEF IInv, Crash, ResultInv, core, Frame, Goto
<1>11. TimeInv'
  BY DEF IInv, Crash, ProcTypes, TimeInv, Goto, Working
<1>12. Accepted'
  BY DEF IInv, Crash, Accepted, core
<1> QED BY <1>1, <1>2, <1>3, <1>4, <1>5, <1>6, <1>7, <1>8, <1>9, <1>10, <1>11, <1>12 DEF IInv

LEMMA SessionLostIInv ==
  ASSUME IInv, SessionLost
  PROVE  IInv'
<1>1. CoreTypes'
  BY DEF IInv, SessionLost, CoreTypes
<1>2. GatewayTypes'
  BY DEF IInv, SessionLost, GatewayTypes, gateway
<1>3. ProcTypes'
  BY DEF IInv, SessionLost, ProcTypes
<1>4. FrameTypes'
  BY DEF IInv, SessionLost, FrameTypes
<1>5. StartInv'
  BY DEF IInv, SessionLost, StartInv, gateway
<1>6. GatewayInv'
  BY DEF IInv, SessionLost, GatewayInv, gateway
<1>7. TxInv'
  BY DEF IInv, SessionLost, TxInv, gateway
<1>8. DecidedInv'
  BY DEF IInv, SessionLost, DecidedInv, gateway, Spent
<1>9. SeenInv'
  BY DEF IInv, SessionLost, SeenInv, gateway, Spent
<1>10. ResultInv'
  BY DEF IInv, SessionLost, ResultInv, gateway
<1>11. TimeInv'
  BY DEF IInv, SessionLost, TimeInv, gateway
<1>12. Accepted'
  BY DEF IInv, SessionLost, Accepted, gateway
<1> QED BY <1>1, <1>2, <1>3, <1>4, <1>5, <1>6, <1>7, <1>8, <1>9, <1>10, <1>11, <1>12 DEF IInv

LEMMA DeleteContactMethodIInv ==
  ASSUME IInv, DeleteContactMethod
  PROVE  IInv'
<1>1. CoreTypes'
  BY DEF IInv, DeleteContactMethod, CoreTypes
<1>2. GatewayTypes'
  BY DEF IInv, DeleteContactMethod, GatewayTypes, gateway
<1>3. ProcTypes'
  BY DEF IInv, DeleteContactMethod, ProcTypes
<1>4. FrameTypes'
  BY DEF IInv, DeleteContactMethod, FrameTypes
<1>5. StartInv'
  BY DEF IInv, DeleteContactMethod, StartInv, gateway, RowFree
<1>6. GatewayInv'
  BY DEF IInv, DeleteContactMethod, GatewayInv, gateway
<1>7. TxInv'
  BY Constants DEF DeleteContactMethod, TxInv, RowFree
<1>8. DecidedInv'
  BY DEF IInv, DeleteContactMethod, DecidedInv, gateway, Spent
<1>9. SeenInv'
  BY DEF IInv, DeleteContactMethod, SeenInv, gateway, Spent
<1>10. ResultInv'
  BY DEF IInv, DeleteContactMethod, ResultInv, gateway
<1>11. TimeInv'
  BY DEF IInv, DeleteContactMethod, TimeInv, gateway
<1>12. Accepted'
  BY DEF DeleteContactMethod, Accepted
<1> QED BY <1>1, <1>2, <1>3, <1>4, <1>5, <1>6, <1>7, <1>8, <1>9, <1>10, <1>11, <1>12 DEF IInv

LEMMA TickIInv ==
  ASSUME IInv, Tick
  PROVE  IInv'
<1>1. CoreTypes'
  BY DEF IInv, Tick, CoreTypes, core
<1>2. GatewayTypes'
  BY DEF IInv, Tick, GatewayTypes, gateway
<1>3. ProcTypes'
  BY DEF IInv, Tick, ProcTypes
<1>4. FrameTypes'
  BY DEF IInv, Tick, FrameTypes
<1>5. StartInv'
  BY DEF IInv, Tick, StartInv, core, gateway
<1>6. GatewayInv'
  BY DEF IInv, Tick, GatewayInv, gateway
<1>7. TxInv'
  BY DEF IInv, Tick, TxInv, core, gateway
<1>8. DecidedInv'
  BY DEF IInv, Tick, DecidedInv, core, gateway, Spent
<1>9. SeenInv'
  BY DEF IInv, Tick, SeenInv, core, gateway, Spent
<1>10. ResultInv'
  BY DEF IInv, Tick, ResultInv, core, gateway
<1>11. TimeInv'
  BY Constants DEF IInv, Tick, CoreTypes, FrameTypes, TimeInv, gateway, Local
<1>12. Accepted'
  BY DEF IInv, Tick, Accepted, core, gateway
<1> QED BY <1>1, <1>2, <1>3, <1>4, <1>5, <1>6, <1>7, <1>8, <1>9, <1>10, <1>11, <1>12 DEF IInv

LEMMA StutterIInv ==
  ASSUME IInv, Stutter
  PROVE  IInv'
<1>1. CoreTypes'
  BY DEF IInv, Stutter, CoreTypes, vars, core
<1>2. GatewayTypes'
  BY DEF IInv, Stutter, GatewayTypes, vars, gateway
<1>3. ProcTypes'
  BY DEF IInv, Stutter, ProcTypes, vars
<1>4. FrameTypes'
  BY DEF IInv, Stutter, FrameTypes, vars
<1>5. StartInv'
  BY DEF IInv, Stutter, StartInv, vars, core, gateway
<1>6. GatewayInv'
  BY DEF IInv, Stutter, GatewayInv, vars, gateway
<1>7. TxInv'
  BY DEF IInv, Stutter, TxInv, vars, core, gateway
<1>8. DecidedInv'
  BY DEF IInv, Stutter, DecidedInv, vars, core, gateway, Spent
<1>9. SeenInv'
  BY DEF IInv, Stutter, SeenInv, vars, core, gateway, Spent
<1>10. ResultInv'
  BY DEF IInv, Stutter, ResultInv, vars, core, gateway
<1>11. TimeInv'
  BY DEF IInv, Stutter, TimeInv, vars, gateway
<1>12. Accepted'
  BY DEF IInv, Stutter, Accepted, vars, core, gateway
<1> QED BY <1>1, <1>2, <1>3, <1>4, <1>5, <1>6, <1>7, <1>8, <1>9, <1>10, <1>11, <1>12 DEF IInv

LEMMA StartIInv == ASSUME IInv, NEW a \in Attempts, Start(a) PROVE IInv'
<1>1. CASE \/ StartCall(a) \/ BeginRotation(a) \/ BeginUncertain(a) \/ BeginFailed(a)
           \/ CallerEnded(a) \/ Admit(a)
  BY <1>1, StartCallIInv, BeginRotationIInv, BeginUncertainIInv, BeginFailedIInv,
     CallerEndedIInv, AdmitIInv
<1>2. CASE \/ CasBegin(a) \/ CasLock(a) \/ CasUpdate(a) \/ CasStatementFailed(a)
           \/ CasRollback(a) \/ CasCommit(a) \/ CasWait(a) \/ Quarantine(a)
  BY <1>2, CasBeginIInv, CasLockIInv, CasUpdateIInv, CasStatementFailedIInv, CasRollbackIInv,
     CasCommitIInv, CasWaitIInv, QuarantineIInv
<1> QED BY <1>1, <1>2 DEF Start

LEMMA InspectIInv == ASSUME IInv, NEW p \in Procs, Inspect(p) PROVE IInv'
BY InspLockIInv, ObserveRotationIInv, ReconcileLockedIInv, FinalizeLockedIInv,
   RollbackRotationIInv, FinalizeRotationIInv, InspReleaseIInv DEF Inspect

LEMMA EnvironmentIInv == ASSUME IInv, Environment PROVE IInv'
<1>1. ASSUME NEW a \in Attempts,
             ServerResolve(a) \/ ServerAbort(a) \/ LateRollback(a) \/ LateFinalize(a)
      PROVE  IInv'
  BY <1>1, ServerResolveIInv, ServerAbortIInv, LateRollbackIInv, LateFinalizeIInv
<1>2. CASE SessionLost \/ DeleteContactMethod \/ Tick
  BY <1>2, SessionLostIInv, DeleteContactMethodIInv, TickIInv
<1>3. ASSUME NEW p \in Procs, Crash(p) PROVE IInv'
  BY <1>3, CrashIInv
<1> QED BY <1>1, <1>2, <1>3 DEF Environment

LEMMA NextIInv == ASSUME IInv, [Next]_vars PROVE IInv'
<1>1. ASSUME NEW i \in Inspectors, InspectCall(i) PROVE IInv'
  BY <1>1, InspectCallIInv
<1>2. CASE UNCHANGED vars
  BY <1>2, StutterIInv DEF Stutter
<1> QED BY <1>1, <1>2, StartIInv, InspectIInv, EnvironmentIInv DEF Next

LEMMA InitIInv == Init => IInv
<1> SUFFICES ASSUME Init PROVE IInv
  OBVIOUS
<1>1. CoreTypes
  BY RotationAssumption DEF Init, CoreTypes, Tokens
<1>2. GatewayTypes
  BY RotationAssumption DEF Init, GatewayTypes, Tokens, States
<1>3. ProcTypes
  BY DEF Init, ProcTypes, Labels, Results
<1>4. FrameTypes
  <2>1. \A p \in Procs : (IF p \in Attempts THEN p ELSE 0) \in Tokens
    BY RotationAssumption DEF Attempts, Tokens
  <2>2. \A p \in Procs : Frame(IF p \in Attempts THEN p ELSE 0) \in Local
    BY <2>1, FrameType
  <2> QED BY <2>2 DEF Init, FrameTypes
<1>5. \A p \in Procs : pc[p] = "idle"
  BY DEF Init
<1>6. \A a \in Attempts : a \in Procs /\ fr[a].h = a /\ gw[a] = "none" /\ tx[a] = "none"
  BY Constants DEF Init, Frame
<1>7. StartInv
  BY <1>5, <1>6 DEF StartInv, Early, Working
<1>8. GatewayInv /\ Accepted
  BY <1>6 DEF Init, GatewayInv, Accepted
<1>9. TxInv
  BY <1>6, Constants DEF Init, TxInv
<1>10. DecidedInv
  BY <1>5, <1>6 DEF Init, DecidedInv
<1>11. SeenInv /\ ResultInv
  BY <1>5 DEF SeenInv, ResultInv
<1>12. TimeInv
  BY <1>5, <1>6 DEF TimeInv, Working
<1> QED BY <1>1, <1>2, <1>3, <1>4, <1>7, <1>8, <1>9, <1>10, <1>11, <1>12 DEF IInv

----------------------------------------------------------------------------
(* The theorems                                                            *)

(* What every reachable state satisfies: the order of a rotation at the    *)
(* Gateway and in Core, that decisions are taken only once they can no     *)
(* longer be wrong, and that what was seen under the row lock stays true.  *)
THEOREM Inductive == Spec => []IInv
<1>1. IInv /\ [Next]_vars => IInv'
  BY NextIInv
<1> QED BY <1>1, InitIInv, PTL DEF Spec

(* The row holds a token that the Gateway accepts, whatever is lost, late  *)
(* or crashes (compareAndSwapWithFence, inspectLocked).                    *)
THEOREM RowAlwaysAccepted == Spec => []TokenAccepted
<1>1. IInv => TokenAccepted
  <2> SUFFICES ASSUME IInv PROVE TokenAccepted
    OBVIOUS
  <2>1. TypeOK
    BY DEF IInv, CoreTypes, GatewayTypes, ProcTypes, FrameTypes, Local, TypeOK
  <2>2. row \in {active, Gone} \/ \E a \in Attempts : gw[a] = "pair" /\ row = from[a]
    BY DEF IInv, Accepted
  <2> QED BY <2>1, <2>2 DEF TokenAccepted
<1> QED BY <1>1, Inductive, PTL

(* A call of Start that ends without a handle leaves no new token in the   *)
(* row and no commit that could put it there, and a pair only when it says *)
(* that reconciliation is required (Start).                                *)
THEOREM FailureLeavesNothing == Spec => []NoOrphanPair
<1>1. IInv => NoOrphanPair
  <2> SUFFICES ASSUME IInv, NEW a \in Attempts, pc[a] = "done", res[a] \in {"failed", "unknown"}
               PROVE  /\ row # a /\ tx[a] # "committing"
                      /\ gw[a] \in {"pair", "completed"} => res[a] = "unknown"
    BY DEF NoOrphanPair
  <2>1. CASE res[a] = "unknown"
    BY <2>1, Constants DEF IInv, ResultInv, TxInv
  <2>2. CASE res[a] = "failed"
    <3>1. gw[a] \in {"none", "rolledBack"}
      BY <2>2, Constants DEF IInv, ResultInv
    <3>2. tx[a] \notin {"committing", "committed"}
      BY <3>1 DEF IInv, StartInv, DecidedInv, Spent
    <3> QED BY <3>1, <3>2 DEF IInv, TxInv
  <2> QED BY <2>1, <2>2
<1> QED BY <1>1, Inductive, PTL

(* What Start, Reconcile and Finalize report stays true (inspectLocked).   *)
THEOREM ReportsStayTrue == Spec => []ResultsTruthful
<1>1. IInv => ResultsTruthful
  <2> SUFFICES ASSUME IInv, NEW p \in Procs, pc[p] = "done"
               PROVE  /\ res[p] = "pending" => row = Gone \/ row >= fr[p].h
                      /\ res[p] = "rolledBack" => gw[fr[p].h] = "rolledBack"
                      /\ res[p] = "completed" => gw[fr[p].h] = "completed"
    BY DEF ResultsTruthful
  <2>1. /\ res[p] = "pending" => fr[p].h \in Attempts /\ tx[fr[p].h] = "committed"
        /\ res[p] \in {"rolledBack", "completed"} => gw[fr[p].h] = res[p]
    BY DEF IInv, ResultInv
  <2>2. res[p] = "pending" => row = Gone \/ row >= fr[p].h
    BY <2>1 DEF IInv, TxInv
  <2> QED BY <2>1, <2>2
<1> QED BY <1>1, Inductive, PTL

(* Every step moves one process at most; only Admit moves one from began   *)
(* to casBegin, and only CasCommit sends a commit.                         *)
LEMMA OnlyAdmitAdmits ==
    ASSUME IInv, [Next]_vars, NEW a \in Attempts, pc[a] = "began", pc'[a] = "casBegin"
    PROVE  Admit(a)
<1>1. a \in Procs /\ Attempts \subseteq Procs /\ Inspectors \subseteq Procs
  BY Constants
<1>2. ASSUME NEW q \in Procs, NEW label \in Labels \ {"casBegin"}, pc' = [pc EXCEPT ![q] = label]
      PROVE  FALSE
  BY <1>1, <1>2 DEF IInv, ProcTypes
<1>3. ASSUME NEW b \in Attempts, Start(b) PROVE Admit(a)
  <2>1. CASE \/ StartCall(b) \/ BeginRotation(b) \/ BeginUncertain(b) \/ BeginFailed(b)
             \/ CallerEnded(b)
    <3>1. \E label \in {"begin", "began", "done", "rollback"} : pc' = [pc EXCEPT ![b] = label]
      <4>1. CASE StartCall(b)
        BY <4>1 DEF StartCall, Goto
      <4>2. CASE BeginRotation(b)
        BY <4>2 DEF BeginRotation, Goto
      <4>3. CASE BeginUncertain(b) \/ BeginFailed(b)
        BY <4>3 DEF BeginUncertain, BeginFailed, Goto, Return
      <4>4. CASE CallerEnded(b)
        BY <4>4 DEF CallerEnded, Compensate, Goto, Return
      <4> QED BY <2>1, <4>1, <4>2, <4>3, <4>4
    <3> QED BY <1>1, <1>2, <3>1 DEF Labels
  <2>2. CASE Admit(b)
    BY <1>1, <2>2 DEF IInv, ProcTypes, Admit, Compensate, Goto, Return
  <2>3. CASE CasBegin(b) \/ CasLock(b) \/ CasUpdate(b) \/ CasStatementFailed(b)
    BY <1>1, <1>2, <2>3 DEF CasBegin, CasLock, CasUpdate, CasStatementFailed,
       Compensate, Goto, Return, Labels
  <2>4. CASE CasRollback(b) \/ CasCommit(b) \/ CasWait(b) \/ Quarantine(b)
    BY <1>1, <1>2, <2>4 DEF CasRollback, CasCommit, CasWait, Quarantine, ToQuarantine,
       Compensate, Goto, Return, Labels
  <2> QED BY <1>3, <2>1, <2>2, <2>3, <2>4 DEF Start
<1>4. ASSUME NEW p \in Procs, Inspect(p) \/ Crash(p) PROVE FALSE
  <2>1. CASE InspLock(p) \/ ObserveRotation(p) \/ InspRelease(p) \/ Crash(p)
    BY <1>2, <2>1 DEF InspLock, ObserveRotation, InspRelease, Crash, Goto, Return, Release, Labels
  <2>2. CASE ReconcileLocked(p)
    BY <1>2, <2>2 DEF ReconcileLocked, Goto, Release, Labels
  <2>3. CASE FinalizeLocked(p)
    BY <1>2, <2>3 DEF FinalizeLocked, Goto, Release, Labels
  <2>4. CASE RollbackRotation(p) \/ FinalizeRotation(p)
    BY <1>2, <2>4 DEF RollbackRotation, AfterRollback, FinalizeRotation, Goto, Return, Release,
       Labels
  <2> QED BY <1>4, <2>1, <2>2, <2>3, <2>4 DEF Inspect
<1>5. ASSUME NEW i \in Inspectors, InspectCall(i) PROVE FALSE
  BY <1>1, <1>2, <1>5 DEF InspectCall, Goto, Labels
<1>6. CASE UNCHANGED pc
  BY <1>6
<1> QED BY <1>3, <1>4, <1>5, <1>6 DEF Next, Environment, ServerResolve, ServerAbort,
        LateRollback, LateFinalize, SessionLost, DeleteContactMethod, Tick, vars

LEMMA OnlyCommitCommits ==
    ASSUME IInv, [Next]_vars, NEW a \in Attempts, tx[a] # "committing", tx'[a] = "committing"
    PROVE  CasCommit(a)
<1>1. ASSUME NEW b \in Attempts, NEW state, state # "committing", tx' = [tx EXCEPT ![b] = state]
      PROVE  FALSE
  BY <1>1 DEF IInv, CoreTypes
<1>2. CASE UNCHANGED tx
  BY <1>2
<1>3. ASSUME NEW b \in Attempts, Start(b) PROVE CasCommit(a)
  <2>1. CASE CasBegin(b) \/ CasLock(b) \/ CasRollback(b)
    BY <1>1, <1>2, <2>1 DEF CasBegin, CasLock, CasRollback
  <2>2. CASE CasCommit(b)
    BY <1>2, <2>2 DEF IInv, CoreTypes, CasCommit
  <2>3. CASE \/ StartCall(b) \/ BeginRotation(b) \/ BeginUncertain(b) \/ BeginFailed(b)
             \/ CallerEnded(b) \/ Admit(b) \/ CasUpdate(b) \/ CasStatementFailed(b)
             \/ CasWait(b) \/ Quarantine(b)
    <3>1. UNCHANGED tx
      <4>1. CASE StartCall(b)
        BY <4>1 DEF StartCall, core
      <4>2. CASE BeginRotation(b)
        BY <4>2 DEF BeginRotation, core
      <4>3. CASE BeginUncertain(b) \/ BeginFailed(b) \/ CallerEnded(b) \/ Admit(b)
        BY <4>3 DEF BeginUncertain, BeginFailed, CallerEnded, Admit, core
      <4>4. CASE CasUpdate(b) \/ CasStatementFailed(b) \/ CasWait(b) \/ Quarantine(b)
        BY <4>4 DEF CasUpdate, CasStatementFailed, CasWait, Quarantine, core
      <4> QED BY <2>3, <4>1, <4>2, <4>3, <4>4
    <3> QED BY <1>2, <3>1
  <2> QED BY <1>3, <2>1, <2>2, <2>3 DEF Start
<1>4. ASSUME NEW p \in Procs, Inspect(p) \/ Crash(p) PROVE FALSE
  BY <1>2, <1>4 DEF Inspect, InspLock, ObserveRotation, ReconcileLocked, FinalizeLocked,
     RollbackRotation, FinalizeRotation, InspRelease, Crash, core
<1>5. ASSUME NEW i \in Inspectors, InspectCall(i) PROVE FALSE
  BY <1>2, <1>5 DEF InspectCall, core
<1>6. ASSUME NEW b \in Attempts, ServerResolve(b) \/ ServerAbort(b) PROVE FALSE
  BY <1>1, <1>6 DEF ServerResolve, ServerAbort
<1>7. CASE \/ SessionLost \/ DeleteContactMethod \/ Tick \/ UNCHANGED vars
           \/ \E b \in Attempts : LateRollback(b) \/ LateFinalize(b)
  BY <1>2, <1>7 DEF SessionLost, DeleteContactMethod, Tick, vars, core, LateRollback, LateFinalize
<1> QED BY <1>3, <1>4, <1>5, <1>6, <1>7 DEF Next, Environment

(* A swap is admitted, and its commit sent, only while enough of the       *)
(* Gateway's own overlap is left for the swap, the discard and the         *)
(* recovery, whatever time Begin took (Start, compareAndSwapWithFence).    *)
THEOREM SwapInsideOverlap == Spec => CasInsideOverlap
<1> DEFINE Inside(a) ==
      /\ pc[a] = "began" /\ pc'[a] = "casBegin" =>
            now + CASLimit + DiscardLimit + RecoveryLimit < dl[a]
      /\ tx[a] # "committing" /\ tx'[a] = "committing" =>
            gw[a] = "pair" /\ now + DiscardLimit + RecoveryLimit < dl[a]
<1>1. ASSUME IInv, [Next]_vars, NEW a \in Attempts PROVE Inside(a)
  <2>1. /\ a \in Procs /\ now \in Nat /\ dl[a] \in Nat
        /\ fr[a].localG \in Int /\ fr[a].until \in Int
    BY <1>1, Constants DEF IInv, CoreTypes, GatewayTypes, FrameTypes, Local
  <2>2. ASSUME pc[a] = "began", pc'[a] = "casBegin" PROVE Admit(a)
    BY <1>1, <2>1, <2>2, OnlyAdmitAdmits
  <2>3. ASSUME tx[a] # "committing", tx'[a] = "committing" PROVE CasCommit(a)
    BY <1>1, <2>3, OnlyCommitCommits
  <2>4. ASSUME Admit(a), pc'[a] = "casBegin"
        PROVE  now + CASLimit + DiscardLimit + RecoveryLimit < dl[a]
    <3>1. fr[a].localG <= dl[a]
      BY <1>1, <2>4 DEF IInv, TimeInv, Admit, Working
    <3>2. ~Compensate(a)
      BY <1>1, <2>1, <2>4 DEF IInv, ProcTypes, Compensate, Goto, Return
    <3>3. ~(fr[a].localG - now <= CASLimit + DiscardLimit + RecoveryLimit)
      BY <2>4, <3>2 DEF Admit
    <3> QED BY <2>1, <3>1, <3>3, Limits
  <2>5. ASSUME CasCommit(a), tx'[a] = "committing", tx[a] # "committing"
        PROVE  gw[a] = "pair" /\ now + DiscardLimit + RecoveryLimit < dl[a]
    <3>1. pc[a] = "casCommit" /\ now < fr[a].until
      BY <1>1, <2>5 DEF CasCommit
    <3>2. gw[a] = "pair" /\ fr[a].localG <= dl[a]
          /\ fr[a].until + DiscardLimit + RecoveryLimit <= fr[a].localG
      BY <1>1, <3>1 DEF IInv, StartInv, TimeInv, Working
    <3> QED BY <2>1, <3>1, <3>2, Limits
  <2> QED BY <2>2, <2>3, <2>4, <2>5
<1> HIDE DEF Inside
<1>2. IInv /\ [Next]_vars => [\A a \in Attempts : Inside(a)]_vars
  BY <1>1
<1>3. Spec => [][\A a \in Attempts : Inside(a)]_vars
  BY <1>2, Inductive, PTL DEF Spec
<1> QED BY <1>3 DEF CasInsideOverlap, Inside
=============================================================================
