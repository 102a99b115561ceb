--------------------------- MODULE TokenRotation ---------------------------
(***************************************************************************)
(* Rotation of the token of a Gateway webhook destination                  *)
(* (notification/webhook/gateway_token_rotation.go).  Two owners that      *)
(* share no transaction have to change together: Core owns the contact     *)
(* method row, which holds one token, and the Gateway owns which tokens    *)
(* it accepts.  Start activates a new token at the Gateway (the old one    *)
(* retires at a deadline), then swaps the row with one fenced              *)
(* compare-and-swap; what could not be settled is settled later by         *)
(* Reconcile and Finalize, which decide under the row lock.                *)
(*                                                                         *)
(* Attempt a is the a-th call of Start; its new token is also called a,    *)
(* and token 0 is the one the row holds at first.  Time is counted in      *)
(* units of the code's five-second limits.  Every call may fail, every     *)
(* reply may be lost while the request still takes effect later, database  *)
(* sessions may die, and every process may crash at any step.              *)
(***************************************************************************)
EXTENDS Integers

CONSTANTS
    MaxAttempts,     \* bound on the calls of Start
    Inspectors,      \* callers of Reconcile and Finalize
    MaxTime,         \* bound on the clock
    Overlaps,        \* lengths the Gateway may give the overlap (G - A)
    BeginLimit, CASLimit, DiscardLimit, RecoveryLimit,
    Gone,            \* the contact method was deleted
    Nobody           \* no inspection holds the row lock

Attempts == 1 .. MaxAttempts
Tokens   == 0 .. MaxAttempts
Procs    == Attempts \cup Inspectors

ASSUME RotationAssumption ==
    /\ MaxAttempts \in Nat
    /\ MaxTime \in Nat
    /\ Overlaps \subseteq Nat
    /\ BeginLimit \in Nat /\ CASLimit \in Nat
    /\ DiscardLimit \in Nat /\ RecoveryLimit \in Nat
    /\ Gone \notin Int
    /\ Inspectors \cap Int = {}
    /\ Nobody \notin Procs

VARIABLES
    now,      \* the monotonic clock
    row,      \* token in the committed contact method row
    lock,     \* the inspection that holds the row lock
    tx,       \* attempt -> its compare-and-swap transaction, at the server
    gw,       \* attempt -> its state at the Gateway
    from,     \* attempt -> the token it replaces
    dl,       \* attempt -> retirement deadline G of that token
    active,   \* the token the Gateway holds active
    late,     \* mutations the Gateway may still execute for a caller that left
    pc,       \* process -> where it is
    res,      \* process -> the result it returns or returned
    fr        \* process -> its local variables

core    == <<row, lock, tx>>
gateway == <<gw, from, dl, active, late>>
vars    == <<now, core, gateway, pc, res, fr>>

(***************************************************************************)
(* The locals of a call on attempt a: why it inspects (or "compensate"),   *)
(* the token its caller expects in the row, the clock sample taken before  *)
(* a Gateway call and the local deadline derived from it, the deadline of  *)
(* the context it works under, the token it read under the row lock, and   *)
(* what ObserveRotation reported.  They end with the call.                 *)
(***************************************************************************)
Frame(a) == [h |-> a, purpose |-> "compensate", expected |-> 0, anchor |-> 0, localG |-> 0,
             until |-> 0, tok |-> 0, state |-> "none", identity |-> "neither"]

Min2(x, y) == IF x <= y THEN x ELSE y

(***************************************************************************)
(* Core's row lock is free when no inspection holds it and no              *)
(* compare-and-swap transaction that took it is unresolved.                *)
(***************************************************************************)
RowFree == lock = Nobody /\ \A a \in Attempts : tx[a] \notin {"locked", "committing"}

Goto(p, label) == pc' = [pc EXCEPT ![p] = label]

(* p returns r to its caller *)
Return(p, r) ==
    /\ Goto(p, "done")
    /\ res' = [res EXCEPT ![p] = r]
    /\ fr' = [fr EXCEPT ![p] = Frame(@.h)]

Init ==
    /\ now = 0
    /\ row = 0 /\ lock = Nobody
    /\ tx = [a \in Attempts |-> "none"]
    /\ gw = [a \in Attempts |-> "none"]
    /\ from = [a \in Attempts |-> 0]
    /\ dl = [a \in Attempts |-> 0]
    /\ active = 0 /\ late = {}
    /\ pc = [p \in Procs |-> "idle"]
    /\ res = [p \in Procs |-> "none"]
    /\ fr = [p \in Procs |-> Frame(IF p \in Attempts THEN p ELSE 0)]

----------------------------------------------------------------------------
(* Start: begin at the Gateway, then admit the compare-and-swap            *)

(* The caller names the complete URL it expects the row to hold. *)
StartCall(a) ==
    /\ pc[a] = "idle"
    /\ \A b \in 1 .. (a - 1) : pc[b] # "idle"
    /\ \E e \in 0 .. (a - 1) :
          fr' = [fr EXCEPT ![a].expected = e, ![a].anchor = now, ![a].until = now + BeginLimit]
    /\ Goto(a, "begin")
    /\ UNCHANGED <<now, core, gateway, res>>

(* The Gateway commits the pair new-active, old-retiring (external). *)
Activate(a, overlap) ==
    /\ active = fr[a].expected
    /\ \A b \in Attempts : gw[b] # "pair"
    /\ gw' = [gw EXCEPT ![a] = "pair"]
    /\ from' = [from EXCEPT ![a] = active]
    /\ dl' = [dl EXCEPT ![a] = now + overlap]
    /\ active' = a

BeginRotation(a) ==
    /\ pc[a] = "begin"
    /\ \E overlap \in Overlaps :
          /\ Activate(a, overlap)
          /\ fr' = [fr EXCEPT ![a].localG = fr[a].anchor + overlap]
    /\ Goto(a, "began")
    /\ UNCHANGED <<now, core, late, res>>

(* An error other than the six that name a refusal, or an attempt that is  *)
(* not valid: the pair may exist or not.  The result says that             *)
(* reconciliation is required, with the handle it takes ("needs") or, when *)
(* the Gateway's answer has none, without ("unknown").  A Begin that takes *)
(* effect after its caller left is one whose caller leaves later.          *)
BeginUncertain(a) ==
    /\ pc[a] = "begin"
    /\ (\E overlap \in Overlaps : Activate(a, overlap)) \/ UNCHANGED <<gw, from, dl, active>>
    /\ \E r \in {"needs", "unknown"} : Return(a, r)
    /\ UNCHANGED <<now, core, late>>

(* A named refusal without a handle: by contract the Gateway changed       *)
(* nothing.                                                                *)
BeginFailed(a) ==
    /\ pc[a] = "begin"
    /\ Return(a, "failed")
    /\ UNCHANGED <<now, core, gateway>>

(* rollbackBeforeLocalDeadline, as far as the call of RollbackRotation *)
Compensate(a) ==
    IF now < fr[a].localG
    THEN /\ Goto(a, "rollback")
         /\ fr' = [fr EXCEPT ![a].until = Min2(now + RecoveryLimit, fr[a].localG)]
         /\ UNCHANGED res
    ELSE Return(a, "needs")

(* The caller's context, or the one of Begin, has ended. *)
CallerEnded(a) ==
    /\ pc[a] = "began"
    /\ Compensate(a)
    /\ UNCHANGED <<now, core, gateway>>

\* Variant of Admit that starts the local overlap when Begin returns.
AdmitLateAnchor(a) ==
    /\ pc[a] = "began"
    /\ now < fr[a].until
    /\ LET lateG == now + (fr[a].localG - fr[a].anchor) IN
       /\ lateG - now > CASLimit + DiscardLimit + RecoveryLimit
       /\ fr' = [fr EXCEPT ![a].localG = lateG,
                           ![a].until = Min2(now + CASLimit, lateG - DiscardLimit - RecoveryLimit)]
    /\ Goto(a, "casBegin")
    /\ UNCHANGED <<now, core, gateway, res>>

Admit(a) ==
    /\ pc[a] = "began"
    /\ now < fr[a].until
    /\ IF fr[a].localG - now <= CASLimit + DiscardLimit + RecoveryLimit
       THEN Compensate(a)
       ELSE /\ fr' = [fr EXCEPT ![a].until =
                  Min2(now + CASLimit, fr[a].localG - DiscardLimit - RecoveryLimit)]
            /\ Goto(a, "casBegin")
            /\ UNCHANGED res
    /\ UNCHANGED <<now, core, gateway>>

----------------------------------------------------------------------------
(* compareAndSwapWithFence: lock the row, update it, commit, once each     *)

CasBegin(a) ==
    /\ pc[a] = "casBegin"
    /\ \/ /\ now < fr[a].until
          /\ tx' = [tx EXCEPT ![a] = "open"]
          /\ Goto(a, "casLock")
          /\ UNCHANGED <<res, fr>>
       \/ Compensate(a) /\ UNCHANGED tx
       \/ Return(a, "needs") /\ UNCHANGED tx
    /\ UNCHANGED <<now, row, lock, gateway>>

(* SELECT ... FOR UPDATE: the fence *)
CasLock(a) ==
    /\ pc[a] = "casLock"
    /\ now < fr[a].until
    /\ tx[a] = "open" /\ RowFree
    /\ IF row = Gone
       THEN Goto(a, "casRollback") /\ UNCHANGED tx
       ELSE Goto(a, "casUpdate") /\ tx' = [tx EXCEPT ![a] = "locked"]
    /\ UNCHANGED <<now, row, lock, gateway, res, fr>>

CasUpdate(a) ==
    /\ pc[a] = "casUpdate"
    /\ now < fr[a].until
    /\ tx[a] = "locked"
    /\ Goto(a, IF row = fr[a].expected THEN "casCommit" ELSE "casRollback")
    /\ UNCHANGED <<now, core, gateway, res, fr>>

(* The lock or the update failed; an uncertain topology ends the attempt. *)
CasStatementFailed(a) ==
    /\ pc[a] \in {"casLock", "casUpdate"}
    /\ \/ Goto(a, "casRollback") /\ UNCHANGED <<res, fr>>
       \/ Return(a, "needs")
    /\ UNCHANGED <<now, core, gateway>>

(* The outcome is not known: the connection is to be destroyed in time. *)
ToQuarantine(a) ==
    /\ Goto(a, "quarantine")
    /\ fr' = [fr EXCEPT ![a].until = @ + DiscardLimit]
    /\ UNCHANGED res

(* Only a confirmed rollback in time proves that nothing was written. *)
CasRollback(a) ==
    /\ pc[a] = "casRollback"
    /\ \/ /\ tx[a] \in {"open", "locked"}
          /\ tx' = [tx EXCEPT ![a] = "aborted"]
          /\ IF now < fr[a].until THEN Compensate(a) ELSE ToQuarantine(a)
       \/ ToQuarantine(a) /\ UNCHANGED tx
    /\ UNCHANGED <<now, row, lock, gateway>>

CasCommit(a) ==
    /\ pc[a] = "casCommit"
    /\ \/ /\ now < fr[a].until /\ tx[a] = "locked"
          /\ tx' = [tx EXCEPT ![a] = "committing"]
          /\ Goto(a, "casWait")
          /\ UNCHANGED <<res, fr>>
       \/ ToQuarantine(a) /\ UNCHANGED tx
    /\ UNCHANGED <<now, row, lock, gateway>>

\* Variant of CasWait that takes a failed commit for one that did nothing.
CasWaitErrorIsSafe(a) ==
    /\ pc[a] = "casWait"
    /\ \/ tx[a] = "committed" /\ now < fr[a].until /\ Return(a, "pending")
       \/ Compensate(a)
    /\ UNCHANGED <<now, core, gateway>>

(* The reply to the commit, or its loss; a success seen late is not used. *)
CasWait(a) ==
    /\ pc[a] = "casWait"
    /\ \/ /\ tx[a] = "committed" /\ now < fr[a].until
          /\ \E r \in {"pending", "needs"} : Return(a, r)
       \/ ToQuarantine(a)
    /\ UNCHANGED <<now, core, gateway>>

(* DiscardBefore, then recoverUnknownCAS if the discard was confirmed *)
Quarantine(a) ==
    /\ pc[a] = "quarantine"
    /\ \/ /\ now < fr[a].until /\ now < fr[a].localG
          /\ fr' = [fr EXCEPT ![a].purpose = "unknownCAS",
                              ![a].until = Min2(now + RecoveryLimit, fr[a].localG)]
          /\ Goto(a, "inspLock")
          /\ UNCHANGED res
       \/ Return(a, "needs")
    /\ UNCHANGED <<now, core, gateway>>

----------------------------------------------------------------------------
(* The database: a commit under way is decided at any later time, and an   *)
(* unfinished transaction may be lost with its session (external)          *)

ServerResolve(a) ==
    /\ tx[a] = "committing"
    /\ \/ tx' = [tx EXCEPT ![a] = "committed"] /\ row' = a
       \/ tx' = [tx EXCEPT ![a] = "aborted"] /\ UNCHANGED row
    /\ UNCHANGED <<now, lock, gateway, pc, res, fr>>

ServerAbort(a) ==
    /\ tx[a] \in {"open", "locked"}
    /\ tx' = [tx EXCEPT ![a] = "aborted"]
    /\ UNCHANGED <<now, row, lock, gateway, pc, res, fr>>

SessionLost ==
    /\ lock # Nobody
    /\ lock' = Nobody
    /\ UNCHANGED <<now, row, tx, gateway, pc, res, fr>>

(* DeleteContactMethod, by anybody *)
DeleteContactMethod ==
    /\ RowFree
    /\ row # Gone /\ row' = Gone
    /\ UNCHANGED <<now, lock, tx, gateway, pc, res, fr>>

----------------------------------------------------------------------------
(* inspectLocked: Reconcile, Finalize and the recovery of an unknown CAS   *)

Handles == {a \in Attempts : pc[a] = "done" /\ res[a] \in {"pending", "needs"}}

InspectCall(i) ==
    /\ pc[i] \in {"idle", "done"}
    /\ lock # i
    /\ \E a \in Handles, why \in {"reconcile", "finalize"} :
          fr' = [fr EXCEPT ![i] = [Frame(a) EXCEPT !.purpose = why, !.until = now + RecoveryLimit]]
    /\ res' = [res EXCEPT ![i] = "none"]
    /\ Goto(i, "inspLock")
    /\ UNCHANGED <<now, core, gateway>>

\* Variant of InspLock that reads with a plain SELECT, which waits for no writer.
InspLockPlainSelect(p) ==
    /\ pc[p] = "inspLock"
    /\ now < fr[p].until /\ lock = Nobody /\ row # Gone
    /\ lock' = p
    /\ fr' = [fr EXCEPT ![p].tok = row, ![p].anchor = now]
    /\ Goto(p, "observe")
    /\ UNCHANGED <<now, row, tx, gateway, res>>

(* WithLockedGatewayDestination takes the row lock and reads the token. *)
InspLock(p) ==
    /\ pc[p] = "inspLock"
    /\ \/ /\ now < fr[p].until /\ RowFree /\ row # Gone
          /\ lock' = p
          /\ fr' = [fr EXCEPT ![p].tok = row, ![p].anchor = now]
          /\ Goto(p, "observe")
          /\ UNCHANGED res
       \/ Return(p, "needs") /\ UNCHANGED lock
    /\ UNCHANGED <<now, row, tx, gateway>>

(* The callback ends with result r; the lock is still to be released. *)
Release(p, r) ==
    /\ Goto(p, "release")
    /\ res' = [res EXCEPT ![p] = r]
    /\ UNCHANGED fr

Identity(token, a) ==
    IF token = a THEN "new" ELSE IF token = from[a] THEN "old" ELSE "neither"

(* ObserveRotation, and observationLocalDeadline from the same answer *)
ObserveRotation(p) ==
    /\ pc[p] = "observe"
    /\ LET a == fr[p].h IN
       \/ /\ now < fr[p].until /\ gw[a] # "none"
          /\ fr' = [fr EXCEPT ![p].state = gw[a],
                              ![p].identity = Identity(fr[p].tok, a),
                              ![p].localG = IF gw[a] = "pair" /\ fr[p].purpose # "unknownCAS"
                                            THEN fr[p].anchor + (dl[a] - now)
                                            ELSE @]
          /\ Goto(p, "decide")
          /\ UNCHANGED res
       \/ Release(p, "needs")
    /\ UNCHANGED <<now, core, gateway>>

Sees(p, state, identity) == fr[p].state = state /\ fr[p].identity = identity

ReconcileLocked(p) ==
    /\ pc[p] = "decide" /\ fr[p].purpose # "finalize"
    /\ LET explicit == fr[p].purpose = "reconcile" IN
       CASE Sees(p, "pair", "new") -> Release(p, "pending")
         [] Sees(p, "pair", "old") /\ now < fr[p].localG ->
                Goto(p, "rollback") /\ UNCHANGED <<res, fr>>
         [] Sees(p, "rolledBack", "old") /\ explicit -> Release(p, "rolledBack")
         [] Sees(p, "completed", "new") /\ explicit -> Release(p, "completed")
         [] OTHER -> Release(p, "needs")
    /\ UNCHANGED <<now, core, gateway>>

FinalizeLocked(p) ==
    /\ pc[p] = "decide" /\ fr[p].purpose = "finalize"
    /\ CASE ~Sees(p, "pair", "new") -> Release(p, "needs")
         [] Sees(p, "pair", "new") /\ now < fr[p].localG -> Release(p, "error")  \* too early
         [] OTHER -> \/ now < fr[p].until /\ Goto(p, "finalize") /\ UNCHANGED <<res, fr>>
                     \/ Release(p, "error")                             \* context ended
    /\ UNCHANGED <<now, core, gateway>>

(* Release of the read fence: a failure hides whatever was found. *)
InspRelease(p) ==
    /\ pc[p] = "release"
    /\ \/ /\ lock = p /\ now < fr[p].until
          /\ lock' = Nobody
          /\ Return(p, res[p])
       \/ /\ lock' \in {lock, IF lock = p THEN Nobody ELSE lock}
          /\ Return(p, "needs")
    /\ UNCHANGED <<now, row, tx, gateway>>

----------------------------------------------------------------------------
(* Mutations at the Gateway, on an exact attempt                           *)

CanRollback(a) == gw[a] = "pair" /\ now < dl[a]
CanFinalize(a) == gw[a] = "pair" /\ now >= dl[a]

RollBack(a) ==
    /\ gw' = [gw EXCEPT ![a] = "rolledBack"]
    /\ active' = from[a]

\* Variant of AfterRollback that does not look at the answer.
AfterRollbackUnchecked(p, confirmed) ==
    IF fr[p].purpose = "reconcile" THEN Release(p, "rolledBack") ELSE Return(p, "failed")

(* What the caller of rollbackBeforeLocalDeadline makes of the answer *)
AfterRollback(p, confirmed) ==
    CASE fr[p].purpose = "compensate" -> Return(p, IF confirmed THEN "failed" ELSE "needs")
      [] fr[p].purpose = "unknownCAS" -> Release(p, IF confirmed THEN "failed" ELSE "needs")
      [] OTHER -> Release(p, IF confirmed THEN "rolledBack" ELSE "needs")

RollbackRotation(p) ==
    /\ pc[p] = "rollback"
    /\ \/ /\ CanRollback(fr[p].h)
          /\ now < fr[p].until /\ now < fr[p].localG
          /\ RollBack(fr[p].h)
          /\ AfterRollback(p, TRUE)
          /\ UNCHANGED late
       \/ /\ late' \in {late, late \cup {<<"rollback", fr[p].h>>}}
          /\ AfterRollback(p, FALSE)
          /\ UNCHANGED <<gw, active>>
    /\ UNCHANGED <<now, core, from, dl>>

FinalizeRotation(p) ==
    /\ pc[p] = "finalize"
    /\ \/ /\ CanFinalize(fr[p].h) /\ now < fr[p].until
          /\ gw' = [gw EXCEPT ![fr[p].h] = "completed"]
          /\ Release(p, "completed")
          /\ UNCHANGED late
       \/ /\ late' \in {late, late \cup {<<"finalize", fr[p].h>>}}
          /\ Release(p, "error")
          /\ UNCHANGED gw
    /\ UNCHANGED <<now, core, from, dl, active>>

(* The Gateway executes a request whose caller no longer waits. *)
LateRollback(a) ==
    /\ <<"rollback", a>> \in late
    /\ CanRollback(a)
    /\ RollBack(a)
    /\ late' = late \ {<<"rollback", a>>}
    /\ UNCHANGED <<now, core, from, dl, pc, res, fr>>

LateFinalize(a) ==
    /\ <<"finalize", a>> \in late
    /\ CanFinalize(a)
    /\ gw' = [gw EXCEPT ![a] = "completed"]
    /\ late' = late \ {<<"finalize", a>>}
    /\ UNCHANGED <<now, core, from, dl, active, pc, res, fr>>

----------------------------------------------------------------------------
(* A crash abandons the call in flight; the row lock goes with SessionLost *)
(* and the transaction with ServerAbort or ServerResolve.                  *)
Crash(p) ==
    /\ pc[p] \notin {"idle", "done", "crashed"}
    /\ Goto(p, "crashed")
    /\ late' \in {late, late \cup
          {<<m, fr[p].h>> : m \in {"rollback", "finalize"} \cap {pc[p]}}}
    /\ res' = [res EXCEPT ![p] = "none"]
    /\ fr' = [fr EXCEPT ![p] = Frame(@.h)]
    /\ UNCHANGED <<now, core, gw, from, dl, active>>

Tick ==
    /\ now < MaxTime
    /\ now' = now + 1
    /\ UNCHANGED <<core, gateway, pc, res, fr>>

Start(a) ==
    \/ StartCall(a) \/ BeginRotation(a) \/ BeginUncertain(a) \/ BeginFailed(a)
    \/ CallerEnded(a) \/ Admit(a)
    \/ CasBegin(a) \/ CasLock(a) \/ CasUpdate(a) \/ CasStatementFailed(a)
    \/ CasRollback(a) \/ CasCommit(a) \/ CasWait(a) \/ Quarantine(a)

Inspect(p) ==
    \/ InspLock(p) \/ ObserveRotation(p) \/ ReconcileLocked(p) \/ FinalizeLocked(p)
    \/ RollbackRotation(p) \/ FinalizeRotation(p) \/ InspRelease(p)

Environment ==
    \/ \E a \in Attempts :
          ServerResolve(a) \/ ServerAbort(a) \/ LateRollback(a) \/ LateFinalize(a)
    \/ SessionLost \/ DeleteContactMethod \/ Tick
    \/ \E p \in Procs : Crash(p)

Next ==
    \/ \E a \in Attempts : Start(a)
    \/ \E i \in Inspectors : InspectCall(i)
    \/ \E p \in Procs : Inspect(p)
    \/ Environment

Spec == Init /\ [][Next]_vars

----------------------------------------------------------------------------
(* Properties                                                              *)

Labels == {"idle", "begin", "began", "casBegin", "casLock", "casUpdate", "casRollback",
           "casCommit", "casWait", "quarantine", "inspLock", "observe", "decide",
           "rollback", "finalize", "release", "done", "crashed"}
Results == {"none", "pending", "rolledBack", "completed", "needs", "unknown", "failed", "error"}
States  == {"none", "pair", "rolledBack", "completed"}

(* Type correctness of the rotation's state. *)
TypeOK ==
    /\ now \in Nat
    /\ row \in Tokens \cup {Gone}
    /\ lock \in Procs \cup {Nobody}
    /\ tx \in [Attempts -> {"none", "open", "locked", "committing", "committed", "aborted"}]
    /\ gw \in [Attempts -> States]
    /\ from \in [Attempts -> Tokens] /\ dl \in [Attempts -> Nat]
    /\ active \in Tokens
    /\ late \subseteq {"rollback", "finalize"} \X Attempts
    /\ pc \in [Procs -> Labels]
    /\ fr \in [Procs -> [h : Tokens, purpose : {"compensate", "unknownCAS", "reconcile", "finalize"},
                         expected : Tokens, anchor : Nat, localG : Int, until : Int, tok : Tokens,
                         state : States, identity : {"new", "old", "neither"}]]
    /\ res \in [Procs -> Results]

(***************************************************************************)
(* Core never points at a token the Gateway has given up: the token in the *)
(* row is the active one, or the retiring one of the attempt that is       *)
(* under way.  It is threatened by a commit that lands after somebody read *)
(* the old token and rolled the Gateway back, and by a finalization        *)
(* executed late (compareAndSwapWithFence, inspectLocked).                 *)
(***************************************************************************)
TokenAccepted ==
    /\ TypeOK
    /\ \/ row \in {active, Gone}
       \/ \E a \in Attempts : gw[a] = "pair" /\ row = from[a]

(***************************************************************************)
(* A call of Start that ends without a handle never leaves a swap behind:  *)
(* the row does not hold the new token and no commit under way can still   *)
(* put it there.  And it leaves a pair at the Gateway only when it says    *)
(* that reconciliation is required: after any other error, of Begin, of a  *)
(* statement or of a commit, however late, no pair stands (Start,          *)
(* gatewayDestinationTokenRotationBeginError).                             *)
(***************************************************************************)
NoOrphanPair ==
    \A a \in Attempts : pc[a] = "done" /\ res[a] \in {"failed", "unknown"} =>
        /\ row # a /\ tx[a] # "committing"
        /\ gw[a] \in {"pair", "completed"} => res[a] = "unknown"

(***************************************************************************)
(* A result that is reported is true, whoever else acts meanwhile: after   *)
(* pending finalization the row never goes back to an older token, and a   *)
(* rotation reported as rolled back or completed is so at the Gateway.     *)
(***************************************************************************)
ResultsTruthful ==
    \A p \in Procs : pc[p] = "done" =>
        /\ res[p] = "pending" => row = Gone \/ row >= fr[p].h
        /\ res[p] = "rolledBack" => gw[fr[p].h] = "rolledBack"
        /\ res[p] = "completed" => gw[fr[p].h] = "completed"

(***************************************************************************)
(* Core admits a compare-and-swap, and sends its commit, only while enough *)
(* of the Gateway's own overlap is left to finish it, to discard the       *)
(* connection and to recover, although it never sees the Gateway's clock:  *)
(* time spent inside Begin is charged to the local deadline (Start).       *)
(***************************************************************************)
CasInsideOverlap ==
    [][\A a \in Attempts :
         /\ pc[a] = "began" /\ pc'[a] = "casBegin" =>
               now + CASLimit + DiscardLimit + RecoveryLimit < dl[a]
         /\ tx[a] # "committing" /\ tx'[a] = "committing" =>
               gw[a] = "pair" /\ now + DiscardLimit + RecoveryLimit < dl[a]]_vars
=============================================================================
