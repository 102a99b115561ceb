------------------------------ MODULE Lifecycle ------------------------------
(***************************************************************************)
(* The lifecycle manager of app/lifecycle/manager.go: Run, Pause, Resume    *)
(* and Shutdown are called by any number of goroutines.  The channel        *)
(* m.status, of capacity one, is both the state and the mutex: a section    *)
(* that receives the status and sends it back is one step.  Resume keeps    *)
(* the status while the wrapped Resume runs.                                *)
(*                                                                         *)
(* What the manager wraps (the startup, run and shutdown functions, the     *)
(* PauseResumer) is external: it returns whenever it likes, with any        *)
(* result, and a pause returns once its context is done.                    *)
(***************************************************************************)
EXTENDS Naturals, FiniteSets

CONSTANTS Callers,    \* goroutines that call Pause, Resume and Shutdown
          NoCaller,
          MaxCalls,   \* bound on their calls
          EarlyOverlap  \* other Pauses are called while one waits for the startup

ASSUME CallersAssumption == NoCaller \notin Callers
ASSUME MaxCallsAssumption == MaxCalls \in Nat
ASSUME EarlyOverlapAssumption == EarlyOverlap \in BOOLEAN

VARIABLES status,     \* the value of m.status
          holder,     \* the Resume that has taken it
          isPausing,  \* m.isPausing
          op,         \* the Pause that made m.pauseDone and m.pauseCancel, if still open
          waitOn,     \* the Pause whose pauseDone a caller waits for, until it is closed
          ctxDone,    \* the context of the caller's current call is done
          pc,         \* where each caller is
          run,        \* where Run is
          startupErr, \* m.startupErr is set
          closed,     \* closed channels: startupDone, runDone, shutdownDone, pauseStart
          runCancel,  \* the context of runFunc is cancelled
          panicked,   \* a channel was closed twice, or the state was unexpected
          calls       \* calls made so far

vars == <<status, holder, isPausing, op, waitOn, ctxDone, pc, run, startupErr, closed,
          runCancel, panicked, calls>>

Status == {"Unknown", "Starting", "Ready", "Shutdown", "Pausing", "Paused"}
Channels == {"startupDone", "runDone", "shutdownDone", "pauseStart"}
CallerPC == {"idle", "pCall", "pWait", "pStart", "pFunc", "pOk", "pErr", "pClose",
             "rCall", "rWait", "rFunc",
             "sCall", "sUnknown", "sStartup", "sPause", "sFunc", "sFuncRunning", "sRun", "sDone", "sEnd"}

TypeOK ==
  /\ status \in Status
  /\ holder \in Callers \cup {NoCaller} /\ op \in Callers \cup {NoCaller}
  /\ waitOn \in [Callers -> Callers \cup {NoCaller}]
  /\ ctxDone \in [Callers -> BOOLEAN]
  /\ pc \in [Callers -> CallerPC]
  /\ run \in {"none", "startup", "started", "failed", "func", "ended", "returned"}
  /\ isPausing \in BOOLEAN /\ startupErr \in BOOLEAN /\ runCancel \in BOOLEAN /\ panicked \in BOOLEAN
  /\ closed \subseteq Channels
  /\ calls \in 0 .. MaxCalls

Init ==
  /\ status = "Unknown" /\ holder = NoCaller /\ isPausing = FALSE /\ op = NoCaller
  /\ waitOn = [c \in Callers |-> NoCaller]
  /\ ctxDone = [c \in Callers |-> FALSE]
  /\ pc = [c \in Callers |-> "idle"]
  /\ run = "none" /\ startupErr = FALSE /\ closed = {} /\ runCancel = FALSE
  /\ panicked = FALSE
  /\ calls = 0

Goto(c, l) == pc' = [pc EXCEPT ![c] = l]
Free == holder = NoCaller

\* close(ch) for the channels of chs: closing a closed channel panics.
Close(chs) ==
  /\ closed' = closed \cup chs
  /\ panicked' = (panicked \/ chs \cap closed # {})
Unclosed == UNCHANGED <<closed, panicked>>

-----------------------------------------------------------------------------
(* Run *)

RunBegins ==
  /\ run = "none" /\ Free
  /\ IF status = "Unknown" THEN status' = "Starting" /\ run' = "startup"
                           ELSE run' = "returned" /\ UNCHANGED status
  /\ UNCHANGED <<holder, isPausing, op, waitOn, ctxDone, pc, startupErr, closed, runCancel, panicked, calls>>

\* startupFunc returns, without an error when there is none.
StartupReturns(err) ==
  /\ run = "startup"
  /\ startupErr' = err
  /\ run' = "started"
  /\ UNCHANGED <<status, holder, isPausing, op, waitOn, ctxDone, pc, closed, runCancel, panicked, calls>>

RunStarts ==
  /\ run = "started" /\ Free
  /\ CASE status = "Shutdown" -> Close({"startupDone"}) /\ run' = "returned" /\ UNCHANGED status
       [] status = "Starting" /\ startupErr -> run' = "failed" /\ Unclosed /\ UNCHANGED status
       [] status = "Starting" /\ ~startupErr -> Close({"startupDone"}) /\ run' = "func" /\ status' = "Ready"
       [] OTHER -> panicked' = TRUE /\ run' = "returned" /\ UNCHANGED <<status, closed>>
  /\ UNCHANGED <<holder, isPausing, op, waitOn, ctxDone, pc, startupErr, runCancel, calls>>

\* A failed startup publishes startupDone after it has given the status back.
StartupFailed ==
  /\ run = "failed"
  /\ Close({"startupDone"})
  /\ run' = "returned"
  /\ UNCHANGED <<status, holder, isPausing, op, waitOn, ctxDone, pc, startupErr, runCancel, calls>>

RunFuncReturns ==
  /\ run = "func"
  /\ Close({"runDone"})
  /\ run' = "ended"
  /\ UNCHANGED <<status, holder, isPausing, op, waitOn, ctxDone, pc, startupErr, runCancel, calls>>

RunReturns ==
  /\ run = "ended" /\ Free
  /\ status = "Shutdown" => "shutdownDone" \in closed
  /\ run' = "returned"
  /\ UNCHANGED <<status, holder, isPausing, op, waitOn, ctxDone, pc, startupErr, closed, runCancel, panicked, calls>>

-----------------------------------------------------------------------------
(* Calls and contexts *)

\* No other Pause is waiting for the startup, or will.
Alone(c) == \A d \in Callers : pc[d] # "pStart" /\ (pc[d] = "pCall" => "startupDone" \in closed)

\* A goroutine calls Pause, Resume or Shutdown with a new context.  The
\* application pauses from one goroutine, the switchover's executor.
Call(c, l) ==
  /\ pc[c] = "idle" /\ calls < MaxCalls
  /\ l = "pCall" => EarlyOverlap \/ Alone(c)
  /\ calls' = calls + 1
  /\ ctxDone' = [ctxDone EXCEPT ![c] = FALSE]
  /\ Goto(c, l)
  /\ UNCHANGED <<status, holder, isPausing, op, waitOn, run, startupErr, closed, runCancel, panicked>>

CtxExpires(c) ==
  /\ pc[c] # "idle" /\ ~ctxDone[c]
  /\ ctxDone' = [ctxDone EXCEPT ![c] = TRUE]
  /\ UNCHANGED <<status, holder, isPausing, op, waitOn, pc, run, startupErr, closed, runCancel, panicked, calls>>

\* m.pauseCancel() ends the context of that Pause; of one that has returned it
\* has no effect.
pauseCancel == ctxDone' = [c \in Callers |-> ctxDone[c] \/ c = op]

\* The channel a caller waits for, m.pauseDone of some Pause, is closed.
Woken(c) == waitOn[c] = NoCaller

-----------------------------------------------------------------------------
(* Pause *)

\* Pause receives the status.
PauseCall(c) ==
  /\ pc[c] = "pCall" /\ Free
  /\ \/ /\ status \in {"Shutdown", "Paused"}
        /\ Goto(c, "idle")
        /\ Unclosed /\ UNCHANGED <<status, isPausing, op, waitOn>>
     \/ /\ status = "Pausing" \/ (status \in {"Starting", "Unknown"} /\ isPausing)
        /\ waitOn' = [waitOn EXCEPT ![c] = op] /\ Goto(c, "pWait")
        /\ Unclosed /\ UNCHANGED <<status, isPausing, op>>
     \/ /\ status \in {"Starting", "Unknown"} /\ ~isPausing
        /\ op' = c /\ isPausing' = TRUE /\ Goto(c, "pStart")
        /\ Unclosed /\ UNCHANGED <<status, waitOn>>
     \/ /\ status = "Ready"
        /\ op' = c /\ isPausing' = TRUE /\ status' = "Pausing" /\ Goto(c, "pFunc")
        /\ Close({"pauseStart"}) /\ UNCHANGED waitOn
  /\ UNCHANGED <<holder, ctxDone, run, startupErr, runCancel, calls>>

\* The wait for another Pause ends: its end calls Pause again, the context
\* returns an error.
PauseWaited(c) ==
  /\ pc[c] = "pWait"
  /\ \/ Woken(c) /\ Goto(c, "pCall") /\ UNCHANGED waitOn
     \/ ctxDone[c] /\ Goto(c, "idle") /\ waitOn' = [waitOn EXCEPT ![c] = NoCaller]
  /\ UNCHANGED <<status, holder, isPausing, op, ctxDone, run, startupErr, closed, runCancel, panicked, calls>>

\* The wait for the startup ends.
PauseStarted(c) ==
  /\ pc[c] = "pStart" /\ Free
  /\ \/ /\ ctxDone[c]
        /\ isPausing' = FALSE /\ Goto(c, "pClose")
        /\ Unclosed /\ UNCHANGED status
     \/ /\ "startupDone" \in closed
        /\ CASE status = "Shutdown" \/ (status = "Starting" /\ startupErr) ->
                  isPausing' = FALSE /\ Goto(c, "pClose") /\ Unclosed /\ UNCHANGED status
             [] status = "Ready" ->
                  status' = "Pausing" /\ Goto(c, "pFunc") /\ Close({"pauseStart"}) /\ UNCHANGED isPausing
             [] OTHER -> panicked' = TRUE /\ Goto(c, "pClose") /\ UNCHANGED <<status, isPausing, closed>>
  /\ UNCHANGED <<holder, op, waitOn, ctxDone, run, startupErr, runCancel, calls>>

\* m.pauseResume.Pause returns; m.pauseCancel() ends the context.
PauseFuncReturns(c, ok) ==
  /\ pc[c] = "pFunc"
  /\ Goto(c, IF ok THEN "pOk" ELSE "pErr")
  /\ ctxDone' = [ctxDone EXCEPT ![c] = TRUE]
  /\ UNCHANGED <<status, holder, isPausing, op, waitOn, run, startupErr, closed, runCancel, panicked, calls>>

\* Variant of PauseFinish that does not look at the status again.
PauseFinishIgnoresShutdown(c) ==
  /\ pc[c] \in {"pOk", "pErr"} /\ Free
  /\ isPausing' = FALSE /\ Goto(c, "pClose")
  /\ status' = IF pc[c] = "pOk" THEN "Paused" ELSE "Ready"
  /\ closed' = IF pc[c] = "pOk" THEN closed ELSE closed \ {"pauseStart"}
  /\ UNCHANGED <<holder, op, waitOn, ctxDone, run, startupErr, runCancel, panicked, calls>>

\* The status is taken again; a failed pause makes a new pauseStart.
PauseFinish(c) ==
  /\ pc[c] \in {"pOk", "pErr"} /\ Free
  /\ isPausing' = FALSE /\ Goto(c, "pClose")
  /\ IF status = "Pausing"
     THEN /\ status' = IF pc[c] = "pOk" THEN "Paused" ELSE "Ready"
          /\ closed' = IF pc[c] = "pOk" THEN closed ELSE closed \ {"pauseStart"}
     ELSE UNCHANGED <<status, closed>>
  /\ panicked' = (panicked \/ status \notin {"Pausing", "Shutdown"})
  /\ UNCHANGED <<holder, op, waitOn, ctxDone, run, startupErr, runCancel, calls>>

\* Variant of PauseClose that wakes nobody.
PauseCloseWakesNobody(c) ==
  /\ pc[c] = "pClose"
  /\ op' = IF op = c THEN NoCaller ELSE op
  /\ Goto(c, "idle")
  /\ UNCHANGED <<status, holder, isPausing, waitOn, ctxDone, run, startupErr, closed, runCancel, panicked, calls>>

\* The deferred close(m.pauseDone), and the return.
PauseClose(c) ==
  /\ pc[c] = "pClose"
  /\ waitOn' = [d \in Callers |-> IF waitOn[d] = c THEN NoCaller ELSE waitOn[d]]
  /\ op' = IF op = c THEN NoCaller ELSE op
  /\ Goto(c, "idle")
  /\ UNCHANGED <<status, holder, isPausing, ctxDone, run, startupErr, closed, runCancel, panicked, calls>>

-----------------------------------------------------------------------------
(* Resume *)

\* Resume receives the status: it returns, cancels the Pause that is under way
\* and waits for it, or keeps the status and resumes.
ResumeCall(c) ==
  /\ pc[c] = "rCall" /\ Free
  /\ \/ /\ status \in {"Shutdown", "Ready"} \/ (status \in {"Unknown", "Starting"} /\ ~isPausing)
        /\ Goto(c, "idle") /\ UNCHANGED <<holder, waitOn, ctxDone, closed>>
     \/ /\ status = "Pausing" \/ (status \in {"Unknown", "Starting"} /\ isPausing)
        /\ pauseCancel
        /\ waitOn' = [waitOn EXCEPT ![c] = op]
        /\ Goto(c, "rWait") /\ UNCHANGED <<holder, closed>>
     \/ /\ status = "Paused"
        /\ holder' = c /\ closed' = closed \ {"pauseStart"}
        /\ Goto(c, "rFunc") /\ UNCHANGED <<waitOn, ctxDone>>
  /\ UNCHANGED <<status, isPausing, op, run, startupErr, runCancel, panicked, calls>>

ResumeWaited(c) ==
  /\ pc[c] = "rWait" /\ Woken(c)
  /\ Goto(c, "rCall")
  /\ UNCHANGED <<status, holder, isPausing, op, waitOn, ctxDone, run, startupErr, closed, runCancel, panicked, calls>>

\* m.pauseResume.Resume returns, and whatever it says the manager is ready.
ResumeFuncReturns(c) ==
  /\ pc[c] = "rFunc"
  /\ status' = "Ready" /\ holder' = NoCaller
  /\ Goto(c, "idle")
  /\ UNCHANGED <<isPausing, op, waitOn, ctxDone, run, startupErr, closed, runCancel, panicked, calls>>

-----------------------------------------------------------------------------
(* Shutdown *)

\* Variant of ShutdownCall that does not wait for a Pause that is under way.
ShutdownCallNoWait(c) ==
  /\ pc[c] = "sCall" /\ Free
  /\ status' = "Shutdown"
  /\ CASE status = "Shutdown" -> Goto(c, "sDone") /\ Unclosed /\ UNCHANGED ctxDone
       [] status = "Starting" -> Goto(c, "sStartup") /\ Close({"pauseStart"}) /\ UNCHANGED ctxDone
       [] status = "Unknown" -> Goto(c, "sUnknown") /\ Unclosed /\ UNCHANGED ctxDone
       [] status = "Pausing" -> /\ pauseCancel
                                /\ Goto(c, "sFuncRunning") /\ Unclosed
       [] status = "Ready" -> Goto(c, "sFuncRunning") /\ Close({"pauseStart"}) /\ UNCHANGED ctxDone
       [] status = "Paused" -> Goto(c, "sFuncRunning") /\ Unclosed /\ UNCHANGED ctxDone
  /\ UNCHANGED <<holder, isPausing, op, waitOn, run, startupErr, runCancel, calls>>

\* Variant of ShutdownCall that closes pauseStart when a Pause has done so.
ShutdownCallAlwaysCloses(c) ==
  /\ pc[c] = "sCall" /\ Free
  /\ status' = "Shutdown"
  /\ CASE status = "Shutdown" -> Goto(c, "sDone") /\ Unclosed /\ UNCHANGED <<waitOn, ctxDone>>
       [] status = "Starting" -> Goto(c, "sStartup") /\ Close({"pauseStart"}) /\ UNCHANGED <<waitOn, ctxDone>>
       [] status = "Unknown" -> Goto(c, "sUnknown") /\ Unclosed /\ UNCHANGED <<waitOn, ctxDone>>
       [] status = "Pausing" -> /\ pauseCancel
                                /\ waitOn' = [waitOn EXCEPT ![c] = op]
                                /\ Goto(c, "sPause") /\ Close({"pauseStart"})
       [] status \in {"Ready", "Paused"} -> Goto(c, "sFuncRunning") /\ Close({"pauseStart"}) /\ UNCHANGED <<waitOn, ctxDone>>
  /\ UNCHANGED <<holder, isPausing, op, run, startupErr, runCancel, calls>>

\* Shutdown receives the status.  m.startupCancel cancels the context of an
\* external function only.
ShutdownCall(c) ==
  /\ pc[c] = "sCall" /\ Free
  /\ status' = "Shutdown"
  /\ \/ /\ status = "Shutdown"
        /\ Goto(c, "sDone") /\ Unclosed /\ UNCHANGED <<waitOn, ctxDone>>
     \/ /\ status = "Starting"
        /\ Goto(c, "sStartup") /\ Close({"pauseStart"}) /\ UNCHANGED <<waitOn, ctxDone>>
     \/ /\ status = "Unknown"
        /\ Goto(c, "sUnknown") /\ Unclosed /\ UNCHANGED <<waitOn, ctxDone>>
     \/ /\ status = "Pausing"
        /\ pauseCancel
        /\ waitOn' = [waitOn EXCEPT ![c] = op]
        /\ Goto(c, "sPause") /\ Unclosed
     \/ /\ status = "Ready"
        /\ Goto(c, "sFuncRunning") /\ Close({"pauseStart"}) /\ UNCHANGED <<waitOn, ctxDone>>
     \/ /\ status = "Paused"
        /\ Goto(c, "sFuncRunning") /\ Unclosed /\ UNCHANGED <<waitOn, ctxDone>>
  /\ UNCHANGED <<holder, isPausing, op, run, startupErr, runCancel, calls>>

\* Nothing was started: the channels are closed after the status was given back.
ShutdownUnknown(c) ==
  /\ pc[c] = "sUnknown"
  /\ Close({"pauseStart", "startupDone", "shutdownDone"})
  /\ Goto(c, "idle")
  /\ UNCHANGED <<status, holder, isPausing, op, waitOn, ctxDone, run, startupErr, runCancel, calls>>

\* The wait for the startup or for a Pause ends.
ShutdownWaited(c) ==
  /\ \/ pc[c] = "sStartup" /\ "startupDone" \in closed /\ Goto(c, "sFunc")
     \/ pc[c] = "sPause" /\ Woken(c) /\ Goto(c, "sFuncRunning")
  /\ UNCHANGED <<status, holder, isPausing, op, waitOn, ctxDone, run, startupErr, closed, runCancel, panicked, calls>>

\* m.shutdownFunc returns; if runFunc was started it is cancelled and waited for.
ShutdownFuncReturns(c) ==
  /\ \/ pc[c] = "sFunc" /\ Goto(c, "sEnd") /\ UNCHANGED runCancel
     \/ pc[c] = "sFuncRunning" /\ Goto(c, "sRun") /\ runCancel' = TRUE
  /\ UNCHANGED <<status, holder, isPausing, op, waitOn, ctxDone, run, startupErr, closed, panicked, calls>>

ShutdownRunDone(c) ==
  /\ pc[c] = "sRun" /\ "runDone" \in closed
  /\ Goto(c, "sEnd")
  /\ UNCHANGED <<status, holder, isPausing, op, waitOn, ctxDone, run, startupErr, closed, runCancel, panicked, calls>>

\* The deferred close(m.shutdownDone), and the return.
ShutdownClose(c) ==
  /\ pc[c] = "sEnd"
  /\ Close({"shutdownDone"})
  /\ Goto(c, "idle")
  /\ UNCHANGED <<status, holder, isPausing, op, waitOn, ctxDone, run, startupErr, runCancel, calls>>

\* Another Shutdown is under way.
ShutdownJoined(c) ==
  /\ pc[c] = "sDone" /\ "shutdownDone" \in closed
  /\ Goto(c, "idle")
  /\ UNCHANGED <<status, holder, isPausing, op, waitOn, ctxDone, run, startupErr, closed, runCancel, panicked, calls>>

-----------------------------------------------------------------------------

\* The steps of the manager's own code.
RunSteps == RunBegins \/ RunStarts \/ StartupFailed \/ RunReturns
CallSteps(c) ==
  \/ PauseCall(c) \/ PauseWaited(c) \/ PauseStarted(c) \/ PauseFinish(c) \/ PauseClose(c)
  \/ ResumeCall(c) \/ ResumeWaited(c)
  \/ ShutdownCall(c) \/ ShutdownUnknown(c) \/ ShutdownWaited(c) \/ ShutdownRunDone(c)
  \/ ShutdownClose(c) \/ ShutdownJoined(c)
Environment ==
  \/ \E err \in BOOLEAN : StartupReturns(err)
  \/ \E c \in Callers : CtxExpires(c) \/ \E l \in {"pCall", "rCall", "sCall"} : Call(c, l)

\* The wrapped functions.
Wrapped(c) == (\E ok \in BOOLEAN : PauseFuncReturns(c, ok)) \/ ResumeFuncReturns(c) \/ ShutdownFuncReturns(c)

Next == RunSteps \/ RunFuncReturns \/ Environment \/ \E c \in Callers : CallSteps(c) \/ Wrapped(c)

Spec == Init /\ [][Next]_vars

\* Goroutines go on, the wrapped functions return, runFunc once it is cancelled.
\* Nothing is assumed of the calls and the contexts, nor that Run is called.
Fairness ==
  /\ WF_vars(RunStarts) /\ WF_vars(StartupFailed) /\ WF_vars(RunReturns)
  /\ WF_vars(\E err \in BOOLEAN : StartupReturns(err))
  /\ WF_vars(runCancel /\ RunFuncReturns)
  /\ \A c \in Callers : WF_vars(CallSteps(c)) /\ WF_vars(Wrapped(c))

FairSpec == Spec /\ Fairness

-----------------------------------------------------------------------------
(* Properties *)

\* No interleaving of the calls closes a channel twice or meets one of the
\* "unexpected lifecycle state" panics.
NoPanic == ~panicked

\* The wrapped functions never overlap: one Pause at a time, no Resume before it
\* has returned, and the shutdown function runs alone and once.
CallbacksExclusive ==
  \A c, d \in Callers :
    /\ pc[c] \in {"pFunc", "rFunc", "sFunc", "sFuncRunning", "sRun", "sEnd"}
    /\ pc[d] \in {"pFunc", "rFunc", "sFunc", "sFuncRunning", "sRun", "sEnd"}
    => c = d

\* PauseWait tells the truth: its channel is closed while the manager is pausing,
\* paused or shutting down a started run, and open in normal operation.
SignalMatchesStatus ==
  /\ status \in {"Starting", "Ready"} => "pauseStart" \notin closed
  /\ status \in {"Pausing", "Paused"} /\ Free => "pauseStart" \in closed

\* m.isPausing is up exactly while one Pause owns m.pauseDone and m.pauseCancel.
PausingHasOwner ==
  isPausing <=> \E c \in Callers : op = c /\ pc[c] \in {"pStart", "pFunc", "pOk", "pErr"}

\* A shutdown is final: from the moment its function may run the status is
\* Shutdown, whatever Pause or startup ends after it.
ShutdownIsFinal ==
  ("shutdownDone" \in closed \/ \E c \in Callers : pc[c] \in {"sFunc", "sFuncRunning", "sRun", "sEnd"})
    => status = "Shutdown"

\* What the manager tells others agrees with what it is doing, after every
\* section in which a caller held the status.
StatusConsistent == TypeOK /\ SignalMatchesStatus /\ PausingHasOwner /\ ShutdownIsFinal

\* A Pause in progress ends, cancelled or not.
PauseEnds == status = "Pausing" ~> status # "Pausing"

\* Every Shutdown returns, the ones that find another under way too.
ShutdownReturns == \A c \in Callers :
  pc[c] \in {"sCall", "sUnknown", "sStartup", "sPause", "sFunc", "sFuncRunning", "sRun", "sDone", "sEnd"}
    ~> pc[c] = "idle"

\* Every Resume returns: the Pause it waits for was cancelled.
ResumeReturns == \A c \in Callers : pc[c] \in {"rCall", "rWait", "rFunc"} ~> pc[c] = "idle"

\* No call hangs as long as the functions it wraps return, although Resume and
\* Shutdown wait for a Pause and a Shutdown for another one.
CallsReturn == PauseEnds /\ ShutdownReturns /\ ResumeReturns
===============================================================================
