------------------------- MODULE EngineLifecycleProofs -------------------------
(***************************************************************************)
(* Proofs about the lifecycle manager and about the engine under it, for    *)
(* any number of callers.  The manager's results need that no second Pause  *)
(* is called while one waits for the startup, as in the application.        *)
(***************************************************************************)
EXTENDS EngineLifecycle, TLAPS

Pausers   == {"pStart", "pFunc", "pOk", "pErr"}
Finishing == {"pFunc", "pOk", "pErr"}
Downers   == {"sUnknown", "sStartup", "sPause", "sFunc", "sFuncRunning", "sRun", "sEnd"}
Before    == {"none", "startup", "started", "failed"}   \* Run has not entered runFunc

-----------------------------------------------------------------------------
(* The inductive invariant of the manager *)

\* How far Run is, the status, and the channels that Run closes.
RunInv ==
  /\ status = "Unknown" => run = "none" /\ closed = {}
  /\ run = "none" => status \in {"Unknown", "Shutdown"}
  /\ run \in {"startup", "started", "failed"} =>
        status \in {"Starting", "Shutdown"} /\ "startupDone" \notin closed
  /\ run = "failed" => startupErr
  /\ "runDone" \in closed => run \in {"ended", "returned"}
  /\ status = "Starting" => run \in {"startup", "started", "failed"} \/ (run = "returned" /\ startupErr)
  /\ status \in {"Ready", "Pausing", "Paused"} => "startupDone" \in closed /\ run \notin Before

\* The Pause that owns the operation, and what its progress says of the status.
OwnerInv ==
  /\ \A c \in Callers : pc[c] \in Pausers => op = c
  /\ isPausing <=> \E c \in Callers : pc[c] \in Pausers
  /\ status = "Pausing" => \E c \in Callers : pc[c] \in Finishing
  /\ \A c \in Callers : pc[c] \in Finishing =>
        \/ status = "Pausing"
        \/ status = "Shutdown" /\ \E d \in Callers : pc[d] = "sPause" /\ waitOn[d] = c
  /\ \A c \in Callers : pc[c] = "pStart" => status \notin {"Pausing", "Paused"}

\* Pauses overlap with one that waits for the startup only after the startup
\* has ended without success.
AloneInv ==
  /\ \A c \in Callers : pc[c] = "pWait" => "startupDone" \in closed
  /\ \A c, d \in Callers :
        (c # d /\ pc[c] \in {"pCall", "pStart"} /\ pc[d] \in {"pCall", "pWait"}) =>
            "startupDone" \in closed /\ (pc[c] = "pStart" => status # "Ready")

\* The status is kept by the Resume whose function runs, and by nobody else.
HolderInv ==
  /\ holder # NoCaller => pc[holder] = "rFunc"
  /\ \A c \in Callers : pc[c] = "rFunc" => holder = c /\ status = "Paused" /\ "pauseStart" \notin closed

\* One Shutdown at a time, and shutdownDone is closed by the last one.
ShutInv ==
  /\ \A c \in Callers : pc[c] \in Downers => status = "Shutdown" /\ "shutdownDone" \notin closed
  /\ \A c, d \in Callers : pc[c] \in Downers /\ pc[d] \in Downers => c = d
  /\ "shutdownDone" \in closed => status = "Shutdown"
  /\ \A c \in Callers : pc[c] = "sUnknown" => closed = {} /\ run \in {"none", "returned"}

IInv ==
  /\ TypeOK /\ NoPanic
  /\ RunInv /\ SignalMatchesStatus /\ OwnerInv /\ AloneInv /\ HolderInv /\ ShutInv

-----------------------------------------------------------------------------
(* The inductive invariant of the engine *)

\* Once the loop has taken a pause request, no cycle works until the Resume.
QuietInv ==
  /\ \A c \in Callers : stage[c] # "river" => pc[c] = "pFunc"
  /\ \A c \in Callers : stage[c] \in {"wait", "resume", "resumeWait"} \/ pc[c] = "pOk" =>
        loop \notin {"off", "work"}
  /\ status = "Paused" => loop \notin {"off", "work"}

\* What has not been started, and what has been stopped for good.
StoppedInv ==
  /\ run \in Before => loop = "off"
  /\ loop = "off" => river = "off"
  /\ \A c \in Callers : pc[c] \in {"sRun", "sEnd"} => loop = "exited" /\ river # "on"
  /\ \A c \in Callers : pc[c] = "sUnknown" => loop = "off"
  /\ "shutdownDone" \in closed =>
        river # "on" /\ (loop = "exited" \/ (loop = "off" /\ run \in {"none", "returned"}))

EngineInv == IInv /\ EngineTypeOK /\ QuietInv /\ StoppedInv
-----------------------------------------------------------------------------

LEMMA RunBeginsIInv ==
  ASSUME IInv, RunBegins
  PROVE  IInv'
<1>1. TypeOK'
  BY DEF IInv, RunBegins, TypeOK, Status
<1>2. NoPanic'
  BY DEF IInv, RunBegins, NoPanic
<1>3. RunInv'
  BY DEF IInv, RunBegins, RunInv
<1>4. SignalMatchesStatus'
  BY DEF IInv, RunBegins, RunInv, SignalMatchesStatus
<1>5. OwnerInv'
  BY DEF IInv, RunBegins, OwnerInv
<1>6. AloneInv'
  BY DEF IInv, RunBegins, AloneInv
<1>7. HolderInv'
  BY DEF IInv, RunBegins, HolderInv
<1>8. ShutInv'
  BY DEF IInv, RunBegins, ShutInv, Downers
<1> QED BY <1>1, <1>2, <1>3, <1>4, <1>5, <1>6, <1>7, <1>8 DEF IInv

LEMMA StartupReturnsIInv ==
  ASSUME IInv, NEW err \in BOOLEAN, StartupReturns(err)
  PROVE  IInv'
<1>1. TypeOK'
  BY DEF IInv, StartupReturns, TypeOK
<1>2. NoPanic'
  BY DEF IInv, StartupReturns, NoPanic
<1>3. RunInv'
  BY DEF IInv, StartupReturns, RunInv
<1>4. SignalMatchesStatus'
  BY DEF IInv, StartupReturns, SignalMatchesStatus, Free
<1>5. OwnerInv'
  BY DEF IInv, StartupReturns, OwnerInv
<1>6. AloneInv'
  BY DEF IInv, StartupReturns, AloneInv
<1>7. HolderInv'
  BY DEF IInv, StartupReturns, HolderInv
<1>8. ShutInv'
  BY DEF IInv, StartupReturns, ShutInv
<1> QED BY <1>1, <1>2, <1>3, <1>4, <1>5, <1>6, <1>7, <1>8 DEF IInv

LEMMA RunStartsIInv ==
  ASSUME IInv, RunStarts
  PROVE  IInv'
<1>1. TypeOK'
  BY DEF IInv, RunStarts, TypeOK, RunInv, Status, Channels, Close, Unclosed
<1>2. NoPanic'
  BY DEF IInv, RunStarts, TypeOK, NoPanic, RunInv, Close, Unclosed
<1>3. RunInv'
  BY DEF IInv, RunStarts, RunInv, Before, Close, Unclosed
<1>4. SignalMatchesStatus'
  BY DEF IInv, RunStarts, SignalMatchesStatus, Close, Unclosed
<1>5. OwnerInv'
  BY DEF IInv, RunStarts, OwnerInv
<1>6. AloneInv'
  BY DEF IInv, RunStarts, RunInv, AloneInv
<1>7. HolderInv'
  BY DEF IInv, RunStarts, HolderInv
<1>8. ShutInv'
  BY DEF IInv, RunStarts, ShutInv, Close, Unclosed
<1> QED BY <1>1, <1>2, <1>3, <1>4, <1>5, <1>6, <1>7, <1>8 DEF IInv

LEMMA StartupFailedIInv ==
  ASSUME IInv, StartupFailed
  PROVE  IInv'
<1>1. TypeOK'
  BY DEF IInv, StartupFailed, TypeOK, Channels, Close
<1>2. NoPanic'
  BY DEF IInv, StartupFailed, TypeOK, NoPanic, RunInv, Close
<1>3. RunInv'
  BY DEF IInv, StartupFailed, RunInv
<1>4. SignalMatchesStatus'
  BY DEF IInv, StartupFailed, SignalMatchesStatus, Free, Close
<1>5. OwnerInv'
  BY DEF IInv, StartupFailed, OwnerInv
<1>6. AloneInv'
  BY DEF IInv, StartupFailed, AloneInv, Close
<1>7. HolderInv'
  BY DEF IInv, StartupFailed, HolderInv, Close
<1>8. ShutInv'
  BY DEF IInv, StartupFailed, ShutInv, Close
<1> QED BY <1>1, <1>2, <1>3, <1>4, <1>5, <1>6, <1>7, <1>8 DEF IInv

LEMMA RunFuncReturnsIInv ==
  ASSUME IInv, RunFuncReturns
  PROVE  IInv'
<1>1. TypeOK'
  BY DEF IInv, RunFuncReturns, TypeOK, Channels, Close
<1>2. NoPanic'
  BY DEF IInv, RunFuncReturns, TypeOK, NoPanic, RunInv, Close
<1>3. RunInv'
  BY DEF IInv, RunFuncReturns, RunInv, Before, Close
<1>4. SignalMatchesStatus'
  BY DEF IInv, RunFuncReturns, SignalMatchesStatus, Free, Close
<1>5. OwnerInv'
  BY DEF IInv, RunFuncReturns, OwnerInv
<1>6. AloneInv'
  BY DEF IInv, RunFuncReturns, AloneInv, Close
<1>7. HolderInv'
  BY DEF IInv, RunFuncReturns, HolderInv, Close
<1>8. ShutInv'
  BY DEF IInv, RunFuncReturns, ShutInv, Close
<1> QED BY <1>1, <1>2, <1>3, <1>4, <1>5, <1>6, <1>7, <1>8 DEF IInv

LEMMA RunReturnsIInv ==
  ASSUME IInv, RunReturns
  PROVE  IInv'
<1>1. TypeOK'
  BY DEF IInv, RunReturns, TypeOK
<1>2. NoPanic'
  BY DEF IInv, RunReturns, NoPanic
<1>3. RunInv'
  BY DEF IInv, RunReturns, RunInv, Before
<1>4. SignalMatchesStatus'
  BY DEF IInv, RunReturns, SignalMatchesStatus
<1>5. OwnerInv'
  BY DEF IInv, RunReturns, OwnerInv
<1>6. AloneInv'
  BY DEF IInv, RunReturns, AloneInv
<1>7. HolderInv'
  BY DEF IInv, RunReturns, HolderInv
<1>8. ShutInv'
  BY DEF IInv, RunReturns, ShutInv
<1> QED BY <1>1, <1>2, <1>3, <1>4, <1>5, <1>6, <1>7, <1>8 DEF IInv

LEMMA CallIInv ==
  ASSUME IInv, NEW c \in Callers, NEW l \in {"pCall", "rCall", "sCall"}, ~EarlyOverlap, Call(c, l)
  PROVE  IInv'
<1>1. TypeOK'
  BY MaxCallsAssumption DEF IInv, Call, TypeOK, CallerPC, Goto
<1>2. NoPanic'
  BY DEF IInv, Call, NoPanic
<1>3. RunInv'
  BY DEF IInv, Call, RunInv
<1>4. SignalMatchesStatus'
  BY DEF IInv, Call, SignalMatchesStatus, Free
<1>5. OwnerInv'
  BY DEF IInv, Call, OwnerInv, Pausers, Finishing, Goto
<1>6. AloneInv'
  BY DEF IInv, Call, AloneInv, Goto, Alone
<1>7. HolderInv'
  BY DEF IInv, Call, HolderInv, Goto
<1>8. ShutInv'
  BY DEF IInv, Call, ShutInv, Downers, Goto
<1> QED BY <1>1, <1>2, <1>3, <1>4, <1>5, <1>6, <1>7, <1>8 DEF IInv

LEMMA CtxExpiresIInv ==
  ASSUME IInv, NEW c \in Callers, CtxExpires(c)
  PROVE  IInv'
<1>1. TypeOK'
  BY DEF IInv, CtxExpires, TypeOK
<1>2. NoPanic'
  BY DEF IInv, CtxExpires, NoPanic
<1>3. RunInv'
  BY DEF IInv, CtxExpires, RunInv
<1>4. SignalMatchesStatus'
  BY DEF IInv, CtxExpires, SignalMatchesStatus, Free
<1>5. OwnerInv'
  BY DEF IInv, CtxExpires, OwnerInv
<1>6. AloneInv'
  BY DEF IInv, CtxExpires, AloneInv
<1>7. HolderInv'
  BY DEF IInv, CtxExpires, HolderInv
<1>8. ShutInv'
  BY DEF IInv, CtxExpires, ShutInv
<1> QED BY <1>1, <1>2, <1>3, <1>4, <1>5, <1>6, <1>7, <1>8 DEF IInv

LEMMA PauseCallIInv ==
  ASSUME IInv, NEW c \in Callers, PauseCall(c)
  PROVE  IInv'
<1>1. TypeOK'
  <2>1. pc' \in [Callers -> CallerPC]
    BY DEF IInv, PauseCall, TypeOK, CallerPC, Goto
  <2>2. status' \in Status /\ closed' \subseteq Channels
    BY DEF IInv, PauseCall, TypeOK, Status, Channels, CallerPC, Goto, Free, Close, Unclosed
  <2>3. waitOn' \in [Callers -> Callers \cup {NoCaller}]
    BY DEF IInv, PauseCall, TypeOK
  <2>4. ctxDone' \in [Callers -> BOOLEAN]
    BY DEF IInv, PauseCall, TypeOK
  <2>5. panicked' \in BOOLEAN /\ isPausing' \in BOOLEAN /\ runCancel' \in BOOLEAN
    BY DEF IInv, PauseCall, TypeOK, Status, Channels, CallerPC, Goto, Free, Close, Unclosed
  <2> QED BY <2>1, <2>2, <2>3, <2>4, <2>5 DEF IInv, PauseCall, TypeOK
<1>2. NoPanic'
  BY DEF IInv, PauseCall, TypeOK, NoPanic, SignalMatchesStatus, Close, Unclosed
<1>3. RunInv'
  BY DEF IInv, PauseCall, RunInv, Close, Unclosed
<1>4. SignalMatchesStatus'
  BY DEF IInv, PauseCall, SignalMatchesStatus, Close, Unclosed
<1>5. OwnerInv'
  BY DEF IInv, PauseCall, TypeOK, OwnerInv, AloneInv, Pausers, Finishing, Goto
<1>6. AloneInv'
  BY DEF IInv, PauseCall, TypeOK, RunInv, OwnerInv, AloneInv, Pausers, Finishing, Goto, Close,
     Unclosed
<1>7. HolderInv'
  BY DEF IInv, PauseCall, TypeOK, HolderInv, Goto, Unclosed
<1>8. ShutInv'
  <2>1. CASE status = "Ready"
    BY <2>1 DEF IInv, PauseCall, TypeOK, ShutInv, Downers, Goto, Close
  <2>2. CASE ~(status = "Ready")
    <3>1. closed' = closed /\ status' = status /\ run' = run
      BY <2>2 DEF PauseCall, ShutInv, Unclosed
    <3>2. \A d \in Callers : /\ pc'[d] \in Downers => pc[d] \in Downers
                             /\ pc'[d] = "sUnknown" => pc[d] = "sUnknown"
      BY <2>2 DEF IInv, PauseCall, TypeOK, ShutInv, Downers, Goto
    <3> QED BY <3>1, <3>2 DEF IInv, PauseCall, TypeOK, ShutInv, Downers, Goto
  <2> QED BY <2>1, <2>2 DEF ShutInv
<1> QED BY <1>1, <1>2, <1>3, <1>4, <1>5, <1>6, <1>7, <1>8 DEF IInv

LEMMA PauseWaitedIInv ==
  ASSUME IInv, NEW c \in Callers, PauseWaited(c)
  PROVE  IInv'
<1>1. TypeOK'
  BY DEF IInv, PauseWaited, TypeOK, CallerPC, Goto
<1>2. NoPanic'
  BY DEF IInv, PauseWaited, NoPanic
<1>3. RunInv'
  BY DEF IInv, PauseWaited, RunInv
<1>4. SignalMatchesStatus'
  BY DEF IInv, PauseWaited, SignalMatchesStatus, Free
<1>5. OwnerInv'
  BY DEF IInv, PauseWaited, TypeOK, OwnerInv, Pausers, Finishing, Goto
<1>6. AloneInv'
  BY DEF IInv, PauseWaited, TypeOK, AloneInv, Goto
<1>7. HolderInv'
  BY DEF IInv, PauseWaited, TypeOK, HolderInv, Goto
<1>8. ShutInv'
  BY DEF IInv, PauseWaited, TypeOK, ShutInv, Downers, Goto
<1> QED BY <1>1, <1>2, <1>3, <1>4, <1>5, <1>6, <1>7, <1>8 DEF IInv

LEMMA PauseStartedIInv ==
  ASSUME IInv, NEW c \in Callers, PauseStarted(c)
  PROVE  IInv'
<1>1. TypeOK'
  <2>1. pc' \in [Callers -> CallerPC]
    BY DEF IInv, PauseStarted, TypeOK, CallerPC, Goto
  <2>2. status' \in Status /\ closed' \subseteq Channels
    BY DEF IInv, PauseStarted, TypeOK, Status, Channels, Close, Unclosed
  <2>3. waitOn' \in [Callers -> Callers \cup {NoCaller}]
    BY DEF IInv, PauseStarted, TypeOK
  <2>4. ctxDone' \in [Callers -> BOOLEAN]
    BY DEF IInv, PauseStarted, TypeOK
  <2>5. panicked' \in BOOLEAN /\ isPausing' \in BOOLEAN /\ runCancel' \in BOOLEAN
    BY DEF IInv, PauseStarted, TypeOK, Status, Channels, CallerPC, Goto, Free, Close, Unclosed
  <2> QED BY <2>1, <2>2, <2>3, <2>4, <2>5 DEF IInv, PauseStarted, TypeOK
<1>2. NoPanic'
  BY DEF IInv, PauseStarted, TypeOK, NoPanic, RunInv, SignalMatchesStatus, OwnerInv, Status, Close,
     Unclosed
<1>3. RunInv'
  BY DEF IInv, PauseStarted, RunInv, Close, Unclosed
<1>4. SignalMatchesStatus'
  BY DEF IInv, PauseStarted, SignalMatchesStatus, Close, Unclosed
<1>5. OwnerInv'
  BY DEF IInv, PauseStarted, TypeOK, RunInv, OwnerInv, Pausers, Finishing, Status, Goto
<1>6. AloneInv'
  BY DEF IInv, PauseStarted, TypeOK, AloneInv, Goto, Unclosed
<1>7. HolderInv'
  BY DEF IInv, PauseStarted, TypeOK, HolderInv, Goto, Unclosed
<1>8. ShutInv'
  BY DEF IInv, PauseStarted, TypeOK, ShutInv, Downers, Goto, Close, Unclosed
<1> QED BY <1>1, <1>2, <1>3, <1>4, <1>5, <1>6, <1>7, <1>8 DEF IInv

LEMMA PauseFuncReturnsIInv ==
  ASSUME IInv, NEW c \in Callers, NEW ok \in BOOLEAN, PauseFuncReturns(c, ok)
  PROVE  IInv'
<1>1. TypeOK'
  BY DEF IInv, PauseFuncReturns, TypeOK, CallerPC, Goto
<1>2. NoPanic'
  BY DEF IInv, PauseFuncReturns, NoPanic
<1>3. RunInv'
  BY DEF IInv, PauseFuncReturns, RunInv
<1>4. SignalMatchesStatus'
  BY DEF IInv, PauseFuncReturns, SignalMatchesStatus, Free
<1>5. OwnerInv'
  BY DEF IInv, PauseFuncReturns, OwnerInv, Pausers, Finishing, Goto
<1>6. AloneInv'
  BY DEF IInv, PauseFuncReturns, AloneInv, Goto
<1>7. HolderInv'
  BY DEF IInv, PauseFuncReturns, HolderInv, Goto
<1>8. ShutInv'
  BY DEF IInv, PauseFuncReturns, ShutInv, Downers, Goto
<1> QED BY <1>1, <1>2, <1>3, <1>4, <1>5, <1>6, <1>7, <1>8 DEF IInv

LEMMA PauseFinishIInv ==
  ASSUME IInv, NEW c \in Callers, PauseFinish(c)
  PROVE  IInv'
<1>1. TypeOK'
  BY DEF IInv, PauseFinish, TypeOK, Status, Channels, CallerPC, Goto, Free
<1>2. NoPanic'
  BY DEF IInv, PauseFinish, TypeOK, NoPanic, OwnerInv, Finishing
<1>3. RunInv'
  BY DEF IInv, PauseFinish, RunInv
<1>4. SignalMatchesStatus'
  BY DEF IInv, PauseFinish, SignalMatchesStatus
<1>5. OwnerInv'
  BY DEF IInv, PauseFinish, TypeOK, OwnerInv, Pausers, Finishing, Goto
<1>6. AloneInv'
  BY DEF IInv, PauseFinish, OwnerInv, AloneInv, Goto
<1>7. HolderInv'
  BY DEF IInv, PauseFinish, HolderInv, Goto
<1>8. ShutInv'
  BY DEF IInv, PauseFinish, ShutInv, Downers, Goto
<1> QED BY <1>1, <1>2, <1>3, <1>4, <1>5, <1>6, <1>7, <1>8 DEF IInv

LEMMA PauseCloseIInv ==
  ASSUME IInv, NEW c \in Callers, PauseClose(c)
  PROVE  IInv'
<1>1. TypeOK'
  BY DEF IInv, PauseClose, TypeOK, CallerPC, Goto
<1>2. NoPanic'
  BY DEF IInv, PauseClose, NoPanic
<1>3. RunInv'
  BY DEF IInv, PauseClose, RunInv
<1>4. SignalMatchesStatus'
  BY DEF IInv, PauseClose, SignalMatchesStatus, Free
<1>5. OwnerInv'
  BY DEF IInv, PauseClose, OwnerInv, Pausers, Finishing, Goto
<1>6. AloneInv'
  BY DEF IInv, PauseClose, AloneInv, Goto
<1>7. HolderInv'
  BY DEF IInv, PauseClose, HolderInv, Goto
<1>8. ShutInv'
  BY DEF IInv, PauseClose, ShutInv, Downers, Goto
<1> QED BY <1>1, <1>2, <1>3, <1>4, <1>5, <1>6, <1>7, <1>8 DEF IInv

LEMMA ResumeCallIInv ==
  ASSUME IInv, NEW c \in Callers, ResumeCall(c)
  PROVE  IInv'
<1>1. TypeOK'
  <2>1. pc' \in [Callers -> CallerPC]
    BY DEF IInv, ResumeCall, TypeOK, CallerPC, Goto
  <2>2. status' \in Status /\ closed' \subseteq Channels
    BY CallersAssumption, MaxCallsAssumption DEF IInv, ResumeCall, TypeOK, NoPanic, RunInv,
       SignalMatchesStatus, OwnerInv, AloneInv, HolderInv, ShutInv, Pausers, Finishing, Downers,
          Before, Status
  <2>3. waitOn' \in [Callers -> Callers \cup {NoCaller}]
    BY DEF IInv, ResumeCall, TypeOK
  <2>4. ctxDone' \in [Callers -> BOOLEAN]
    BY DEF IInv, ResumeCall, TypeOK, OwnerInv, Pausers, Finishing, pauseCancel
  <2>5. panicked' \in BOOLEAN /\ isPausing' \in BOOLEAN /\ runCancel' \in BOOLEAN
    BY DEF IInv, ResumeCall, TypeOK
  <2> QED BY <2>1, <2>2, <2>3, <2>4, <2>5 DEF IInv, ResumeCall, TypeOK
<1>2. NoPanic'
  BY DEF IInv, ResumeCall, NoPanic
<1>3. RunInv'
  BY DEF IInv, ResumeCall, RunInv
<1>4. SignalMatchesStatus'
  BY CallersAssumption DEF IInv, ResumeCall, SignalMatchesStatus, Free
<1>5. OwnerInv'
  BY DEF IInv, ResumeCall, TypeOK, OwnerInv, Pausers, Finishing, Goto
<1>6. AloneInv'
  BY DEF IInv, ResumeCall, TypeOK, AloneInv, Goto
<1>7. HolderInv'
  BY CallersAssumption DEF IInv, ResumeCall, TypeOK, HolderInv, Goto, Free
<1>8. ShutInv'
  <2>1. CASE status = "Paused"
    BY <2>1 DEF IInv, ResumeCall, TypeOK, ShutInv, Downers, Goto
  <2>2. CASE ~(status = "Paused")
    <3>1. closed' = closed /\ status' = status /\ run' = run
      BY <2>2 DEF ResumeCall, ShutInv
    <3>2. \A d \in Callers : /\ pc'[d] \in Downers => pc[d] \in Downers
                             /\ pc'[d] = "sUnknown" => pc[d] = "sUnknown"
      BY <2>2 DEF IInv, ResumeCall, TypeOK, ShutInv, Downers, Goto
    <3> QED BY <3>1, <3>2 DEF IInv, ResumeCall, TypeOK, ShutInv, Downers, Goto
  <2> QED BY <2>1, <2>2 DEF ShutInv
<1> QED BY <1>1, <1>2, <1>3, <1>4, <1>5, <1>6, <1>7, <1>8 DEF IInv

LEMMA ResumeWaitedIInv ==
  ASSUME IInv, NEW c \in Callers, ResumeWaited(c)
  PROVE  IInv'
<1>1. TypeOK'
  BY DEF IInv, ResumeWaited, TypeOK, CallerPC, Goto
<1>2. NoPanic'
  BY DEF IInv, ResumeWaited, NoPanic
<1>3. RunInv'
  BY DEF IInv, ResumeWaited, RunInv
<1>4. SignalMatchesStatus'
  BY DEF IInv, ResumeWaited, SignalMatchesStatus, Free
<1>5. OwnerInv'
  BY DEF IInv, ResumeWaited, OwnerInv, Pausers, Finishing, Goto
<1>6. AloneInv'
  BY DEF IInv, ResumeWaited, AloneInv, Goto
<1>7. HolderInv'
  BY DEF IInv, ResumeWaited, HolderInv, Goto
<1>8. ShutInv'
  BY DEF IInv, ResumeWaited, ShutInv, Downers, Goto
<1> QED BY <1>1, <1>2, <1>3, <1>4, <1>5, <1>6, <1>7, <1>8 DEF IInv

LEMMA ResumeFuncReturnsIInv ==
  ASSUME IInv, NEW c \in Callers, ResumeFuncReturns(c)
  PROVE  IInv'
<1>1. TypeOK'
  BY DEF IInv, ResumeFuncReturns, TypeOK, Status, CallerPC, Goto
<1>2. NoPanic'
  BY DEF IInv, ResumeFuncReturns, NoPanic
<1>3. RunInv'
  BY DEF IInv, ResumeFuncReturns, RunInv, HolderInv
<1>4. SignalMatchesStatus'
  BY DEF IInv, ResumeFuncReturns, SignalMatchesStatus, HolderInv
<1>5. OwnerInv'
  BY DEF IInv, ResumeFuncReturns, OwnerInv, HolderInv, Pausers, Finishing, Goto
<1>6. AloneInv'
  BY DEF IInv, ResumeFuncReturns, OwnerInv, AloneInv, HolderInv, Goto
<1>7. HolderInv'
  BY DEF IInv, ResumeFuncReturns, TypeOK, HolderInv, Goto
<1>8. ShutInv'
  BY DEF IInv, ResumeFuncReturns, HolderInv, ShutInv, Downers, Goto
<1> QED BY <1>1, <1>2, <1>3, <1>4, <1>5, <1>6, <1>7, <1>8 DEF IInv

LEMMA ShutdownCallIInv ==
  ASSUME IInv, NEW c \in Callers, ShutdownCall(c)
  PROVE  IInv'
<1>1. TypeOK'
  <2>1. pc' \in [Callers -> CallerPC]
    BY DEF IInv, ShutdownCall, TypeOK, CallerPC, Goto
  <2>2. status' \in Status /\ closed' \subseteq Channels
    BY DEF IInv, ShutdownCall, TypeOK, Status, Channels, CallerPC, Goto, Free, Close, Unclosed,
       pauseCancel
  <2>3. waitOn' \in [Callers -> Callers \cup {NoCaller}]
    BY DEF IInv, ShutdownCall, TypeOK
  <2>4. ctxDone' \in [Callers -> BOOLEAN]
    BY DEF IInv, ShutdownCall, TypeOK, OwnerInv, Pausers, Finishing, pauseCancel
  <2>5. panicked' \in BOOLEAN /\ isPausing' \in BOOLEAN /\ runCancel' \in BOOLEAN
    BY DEF IInv, ShutdownCall, TypeOK, SignalMatchesStatus, Close, Unclosed
  <2> QED BY <2>1, <2>2, <2>3, <2>4, <2>5 DEF IInv, ShutdownCall, TypeOK
<1>2. NoPanic'
  BY DEF IInv, ShutdownCall, TypeOK, NoPanic, SignalMatchesStatus, Close, Unclosed
<1>3. RunInv'
  BY DEF IInv, ShutdownCall, RunInv, Close, Unclosed
<1>4. SignalMatchesStatus'
  BY DEF ShutdownCall, SignalMatchesStatus
<1>5. OwnerInv'
  BY DEF IInv, ShutdownCall, TypeOK, OwnerInv, Pausers, Finishing, Goto
<1>6. AloneInv'
  BY DEF IInv, ShutdownCall, TypeOK, AloneInv, Goto, Close, Unclosed
<1>7. HolderInv'
  BY CallersAssumption DEF IInv, ShutdownCall, TypeOK, HolderInv, Goto, Free
<1>8. ShutInv'
  <2>1. CASE status = "Shutdown"
    <3>1. closed' = closed /\ status' = status /\ run' = run
      BY <2>1 DEF ShutdownCall, ShutInv, Unclosed
    <3>2. \A d \in Callers : /\ pc'[d] \in Downers => pc[d] \in Downers
                             /\ pc'[d] = "sUnknown" => pc[d] = "sUnknown"
      BY <2>1 DEF IInv, ShutdownCall, TypeOK, ShutInv, Downers, Goto
    <3> QED BY <3>1, <3>2 DEF IInv, ShutdownCall, TypeOK, ShutInv, Downers, Goto
  <2>2. CASE status = "Unknown"
    <3>1. closed' = {} /\ status' = "Shutdown" /\ run' = "none"
      BY <2>2 DEF IInv, ShutdownCall, RunInv, ShutInv, Unclosed
    <3>2. \A d \in Callers : pc'[d] \in Downers => d = c
      BY <2>2 DEF IInv, ShutdownCall, TypeOK, ShutInv, Goto
    <3> QED BY <3>1, <3>2 DEF ShutInv
  <2>3. CASE status \in {"Starting", "Ready"}
    BY <2>3 DEF IInv, ShutdownCall, TypeOK, ShutInv, Downers, Goto, Close
  <2>4. CASE status \in {"Pausing", "Paused"}
    BY <2>4 DEF IInv, ShutdownCall, TypeOK, ShutInv, Downers, Goto, Unclosed
  <2> QED BY <2>1, <2>2, <2>3, <2>4 DEF ShutdownCall, ShutInv
<1> QED BY <1>1, <1>2, <1>3, <1>4, <1>5, <1>6, <1>7, <1>8 DEF IInv

LEMMA ShutdownUnknownIInv ==
  ASSUME IInv, NEW c \in Callers, ShutdownUnknown(c)
  PROVE  IInv'
<1>1. TypeOK'
  BY DEF IInv, ShutdownUnknown, TypeOK, Channels, CallerPC, Goto, Close
<1>2. NoPanic'
  BY DEF IInv, ShutdownUnknown, TypeOK, NoPanic, ShutInv, Close
<1>3. RunInv'
  BY DEF IInv, ShutdownUnknown, RunInv, ShutInv, Downers, Close
<1>4. SignalMatchesStatus'
  BY DEF IInv, ShutdownUnknown, SignalMatchesStatus, ShutInv, Downers
<1>5. OwnerInv'
  BY DEF IInv, ShutdownUnknown, OwnerInv, Pausers, Finishing, Goto
<1>6. AloneInv'
  BY DEF IInv, ShutdownUnknown, AloneInv, Goto, Close
<1>7. HolderInv'
  BY DEF IInv, ShutdownUnknown, HolderInv, ShutInv, Downers, Goto
<1>8. ShutInv'
  BY DEF IInv, ShutdownUnknown, TypeOK, ShutInv, Downers, Goto
<1> QED BY <1>1, <1>2, <1>3, <1>4, <1>5, <1>6, <1>7, <1>8 DEF IInv

LEMMA ShutdownWaitedIInv ==
  ASSUME IInv, NEW c \in Callers, ShutdownWaited(c)
  PROVE  IInv'
<1>1. TypeOK'
  BY DEF IInv, ShutdownWaited, TypeOK, CallerPC, Goto
<1>2. NoPanic'
  BY DEF IInv, ShutdownWaited, NoPanic
<1>3. RunInv'
  BY DEF IInv, ShutdownWaited, RunInv
<1>4. SignalMatchesStatus'
  BY DEF IInv, ShutdownWaited, SignalMatchesStatus, Free
<1>5. OwnerInv'
  BY CallersAssumption DEF IInv, ShutdownWaited, TypeOK, OwnerInv, Pausers, Finishing, Goto, Woken
<1>6. AloneInv'
  BY DEF IInv, ShutdownWaited, TypeOK, AloneInv, Goto
<1>7. HolderInv'
  BY DEF IInv, ShutdownWaited, TypeOK, HolderInv, Goto
<1>8. ShutInv'
  BY DEF IInv, ShutdownWaited, TypeOK, ShutInv, Downers, Goto
<1> QED BY <1>1, <1>2, <1>3, <1>4, <1>5, <1>6, <1>7, <1>8 DEF IInv

LEMMA ShutdownFuncReturnsIInv ==
  ASSUME IInv, NEW c \in Callers, ShutdownFuncReturns(c)
  PROVE  IInv'
<1>1. TypeOK'
  <2>1. pc' \in [Callers -> CallerPC]
    BY DEF IInv, ShutdownFuncReturns, TypeOK, CallerPC, Goto
  <2>2. status' \in Status /\ closed' \subseteq Channels
    BY DEF IInv, ShutdownFuncReturns, TypeOK
  <2>3. waitOn' \in [Callers -> Callers \cup {NoCaller}]
    BY DEF IInv, ShutdownFuncReturns, TypeOK
  <2>4. ctxDone' \in [Callers -> BOOLEAN]
    BY DEF IInv, ShutdownFuncReturns, TypeOK
  <2>5. panicked' \in BOOLEAN /\ isPausing' \in BOOLEAN /\ runCancel' \in BOOLEAN
    BY DEF IInv, ShutdownFuncReturns, TypeOK, Status, Channels, CallerPC, Goto
  <2> QED BY <2>1, <2>2, <2>3, <2>4, <2>5 DEF IInv, ShutdownFuncReturns, TypeOK
<1>2. NoPanic'
  BY DEF IInv, ShutdownFuncReturns, NoPanic
<1>3. RunInv'
  BY DEF IInv, ShutdownFuncReturns, RunInv
<1>4. SignalMatchesStatus'
  BY DEF IInv, ShutdownFuncReturns, SignalMatchesStatus, Free
<1>5. OwnerInv'
  BY DEF IInv, ShutdownFuncReturns, TypeOK, OwnerInv, Pausers, Finishing, Goto
<1>6. AloneInv'
  BY DEF IInv, ShutdownFuncReturns, TypeOK, AloneInv, Goto
<1>7. HolderInv'
  BY DEF IInv, ShutdownFuncReturns, TypeOK, HolderInv, Goto
<1>8. ShutInv'
  BY DEF IInv, ShutdownFuncReturns, TypeOK, ShutInv, Downers, Goto
<1> QED BY <1>1, <1>2, <1>3, <1>4, <1>5, <1>6, <1>7, <1>8 DEF IInv

LEMMA ShutdownRunDoneIInv ==
  ASSUME IInv, NEW c \in Callers, ShutdownRunDone(c)
  PROVE  IInv'
<1>1. TypeOK'
  BY DEF IInv, ShutdownRunDone, TypeOK, CallerPC, Goto
<1>2. NoPanic'
  BY DEF IInv, ShutdownRunDone, NoPanic
<1>3. RunInv'
  BY DEF IInv, ShutdownRunDone, RunInv
<1>4. SignalMatchesStatus'
  BY DEF IInv, ShutdownRunDone, SignalMatchesStatus, Free
<1>5. OwnerInv'
  BY DEF IInv, ShutdownRunDone, OwnerInv, Pausers, Finishing, Goto
<1>6. AloneInv'
  BY DEF IInv, ShutdownRunDone, AloneInv, Goto
<1>7. HolderInv'
  BY DEF IInv, ShutdownRunDone, HolderInv, Goto
<1>8. ShutInv'
  BY DEF IInv, ShutdownRunDone, ShutInv, Downers, Goto
<1> QED BY <1>1, <1>2, <1>3, <1>4, <1>5, <1>6, <1>7, <1>8 DEF IInv

LEMMA ShutdownCloseIInv ==
  ASSUME IInv, NEW c \in Callers, ShutdownClose(c)
  PROVE  IInv'
<1>1. TypeOK'
  BY DEF IInv, ShutdownClose, TypeOK, Channels, CallerPC, Goto, Close
<1>2. NoPanic'
  BY DEF IInv, ShutdownClose, TypeOK, NoPanic, ShutInv, Downers, Close
<1>3. RunInv'
  BY DEF IInv, ShutdownClose, RunInv, ShutInv, Downers, Close
<1>4. SignalMatchesStatus'
  BY DEF IInv, ShutdownClose, SignalMatchesStatus, Free, Close
<1>5. OwnerInv'
  BY DEF IInv, ShutdownClose, OwnerInv, Pausers, Finishing, Goto
<1>6. AloneInv'
  BY DEF IInv, ShutdownClose, AloneInv, Goto, Close
<1>7. HolderInv'
  BY DEF IInv, ShutdownClose, HolderInv, Goto, Close
<1>8. ShutInv'
  BY DEF IInv, ShutdownClose, TypeOK, ShutInv, Downers, Goto
<1> QED BY <1>1, <1>2, <1>3, <1>4, <1>5, <1>6, <1>7, <1>8 DEF IInv

LEMMA ShutdownJoinedIInv ==
  ASSUME IInv, NEW c \in Callers, ShutdownJoined(c)
  PROVE  IInv'
<1>1. TypeOK'
  BY DEF IInv, ShutdownJoined, TypeOK, CallerPC, Goto
<1>2. NoPanic'
  BY DEF IInv, ShutdownJoined, NoPanic
<1>3. RunInv'
  BY DEF IInv, ShutdownJoined, RunInv
<1>4. SignalMatchesStatus'
  BY DEF IInv, ShutdownJoined, SignalMatchesStatus, Free
<1>5. OwnerInv'
  BY DEF IInv, ShutdownJoined, OwnerInv, Pausers, Finishing, Goto
<1>6. AloneInv'
  BY DEF IInv, ShutdownJoined, AloneInv, Goto
<1>7. HolderInv'
  BY DEF IInv, ShutdownJoined, HolderInv, Goto
<1>8. ShutInv'
  BY DEF IInv, ShutdownJoined, ShutInv, Downers, Goto
<1> QED BY <1>1, <1>2, <1>3, <1>4, <1>5, <1>6, <1>7, <1>8 DEF IInv

-----------------------------------------------------------------------------
(* The results about the manager *)

LEMMA InitIInv == Init => IInv
<1> SUFFICES ASSUME Init PROVE IInv
  OBVIOUS
<1>1. \A c \in Callers : pc[c] = "idle"
  BY DEF Init
<1>2. TypeOK
  <2>1. waitOn \in [Callers -> Callers \cup {NoCaller}] /\ ctxDone \in [Callers -> BOOLEAN]
    BY DEF Init
  <2>2. pc \in [Callers -> CallerPC] /\ status \in Status /\ closed \subseteq Channels
    BY DEF Init, CallerPC, Status
  <2>3. calls \in 0 .. MaxCalls
    BY MaxCallsAssumption DEF Init
  <2>4. /\ run \in {"none", "startup", "started", "failed", "func", "ended", "returned"}
        /\ holder \in Callers \cup {NoCaller} /\ op \in Callers \cup {NoCaller}
        /\ isPausing \in BOOLEAN /\ startupErr \in BOOLEAN /\ runCancel \in BOOLEAN /\ panicked \in BOOLEAN
    BY DEF Init
  <2> QED BY <2>1, <2>2, <2>3, <2>4 DEF TypeOK
<1>3. RunInv /\ SignalMatchesStatus /\ NoPanic
  BY DEF Init, RunInv, SignalMatchesStatus, NoPanic, Before, Free
<1>4. OwnerInv /\ AloneInv /\ HolderInv /\ ShutInv
  BY <1>1 DEF Init, OwnerInv, AloneInv, HolderInv, ShutInv, Pausers, Finishing, Downers
<1> QED BY <1>2, <1>3, <1>4 DEF IInv

LEMMA UnchangedIInv == IInv /\ UNCHANGED vars => IInv'
BY DEF vars, IInv, TypeOK, NoPanic, RunInv, SignalMatchesStatus, OwnerInv, AloneInv, HolderInv,
       ShutInv, Free

LEMMA RunStepsIInv == ASSUME IInv, RunSteps PROVE IInv'
BY RunBeginsIInv, RunStartsIInv, StartupFailedIInv, RunReturnsIInv DEF RunSteps

LEMMA CallStepsIInv == ASSUME IInv, NEW c \in Callers, CallSteps(c) PROVE IInv'
BY PauseCallIInv, PauseWaitedIInv, PauseStartedIInv, PauseFinishIInv, PauseCloseIInv,
   ResumeCallIInv, ResumeWaitedIInv, ShutdownCallIInv, ShutdownUnknownIInv,
   ShutdownWaitedIInv, ShutdownRunDoneIInv, ShutdownCloseIInv, ShutdownJoinedIInv
   DEF CallSteps

LEMMA NextIInv ==
  ASSUME ~EarlyOverlap, IInv, [Next]_vars
  PROVE  IInv'
<1>1. ASSUME NEW c \in Callers, Wrapped(c) PROVE IInv'
  BY <1>1, PauseFuncReturnsIInv, ResumeFuncReturnsIInv, ShutdownFuncReturnsIInv DEF Wrapped
<1>2. CASE Environment
  BY <1>2, StartupReturnsIInv, CtxExpiresIInv, CallIInv DEF Environment
<1> QED
  BY <1>1, <1>2, UnchangedIInv, RunStepsIInv, RunFuncReturnsIInv, CallStepsIInv DEF Next

\* What holds of the manager after every section that held the status: who owns
\* the status, which channels are closed and which calls wait for which (manager.go).
THEOREM ManagerInductive == ASSUME ~EarlyOverlap PROVE Spec => []IInv
BY InitIInv, NextIInv, PTL DEF Spec

\* Run, Pause, Resume and Shutdown, called in any order by any number of
\* goroutines, never close a channel twice and never meet a state their switches
\* call unexpected.
THEOREM ManagerNeverPanics == ASSUME ~EarlyOverlap PROVE Spec => []NoPanic
<1>1. IInv => NoPanic
  BY DEF IInv
<1> QED BY <1>1, ManagerInductive, PTL

\* The invariant keeps the wrapped functions apart: a Pause owns the operation, a
\* Resume the status, and a Shutdown that meets a Pause waits for it.
LEMMA ExclusiveFromIInv == IInv => CallbacksExclusive
<1> SUFFICES ASSUME IInv, NEW c \in Callers, NEW d \in Callers,
                    pc[c] \in {"pFunc", "rFunc", "sFunc", "sFuncRunning", "sRun", "sEnd"},
                    pc[d] \in {"pFunc", "rFunc", "sFunc", "sFuncRunning", "sRun", "sEnd"}
             PROVE  c = d
  BY DEF CallbacksExclusive
<1>1. \A x, y \in Callers : pc[x] = "pFunc" => pc[y] \notin {"sFunc", "sFuncRunning", "sRun", "sEnd"}
  BY DEF IInv, OwnerInv, ShutInv, Finishing, Downers
<1>2. \A x, y \in Callers : pc[x] = "rFunc" => pc[y] \notin {"pFunc", "sFunc", "sFuncRunning", "sRun", "sEnd"}
  BY DEF IInv, HolderInv, OwnerInv, ShutInv, Finishing, Downers
<1>3. \A x, y \in Callers : pc[x] = "pFunc" /\ pc[y] = "pFunc" => x = y
  BY DEF IInv, OwnerInv, Pausers
<1>4. \A x, y \in Callers : pc[x] = "rFunc" /\ pc[y] = "rFunc" => x = y
  BY DEF IInv, HolderInv
<1>5. \A x, y \in Callers : pc[x] \in {"sFunc", "sFuncRunning", "sRun", "sEnd"}
                            /\ pc[y] \in {"sFunc", "sFuncRunning", "sRun", "sEnd"} => x = y
  BY DEF IInv, ShutInv, Downers
<1> QED BY <1>1, <1>2, <1>3, <1>4, <1>5

\* The functions the manager wraps never run at the same time: one Pause at a
\* time, no Resume before it returned, and the shutdown function alone and once.
THEOREM ManagerSerialises == ASSUME ~EarlyOverlap PROVE Spec => []CallbacksExclusive
BY ExclusiveFromIInv, ManagerInductive, PTL

LEMMA ConsistentFromIInv == IInv => StatusConsistent
<1> SUFFICES ASSUME IInv PROVE StatusConsistent
  OBVIOUS
<1>1. PausingHasOwner
  BY DEF IInv, OwnerInv, Pausers, PausingHasOwner
<1>2. ShutdownIsFinal
  BY DEF IInv, ShutInv, Downers, ShutdownIsFinal
<1> QED BY <1>1, <1>2 DEF IInv, StatusConsistent

\* IsPausing, Status and PauseWait tell the truth after every section that held
\* the status, and a Shutdown is final.
THEOREM ManagerTruthful == ASSUME ~EarlyOverlap PROVE Spec => []StatusConsistent
BY ConsistentFromIInv, ManagerInductive, PTL

-----------------------------------------------------------------------------
(* What the engine needs to know of the manager's steps *)

ManagerStep ==
  \/ RunSteps \/ StartupReturns(FALSE)
  \/ \E c \in Callers : CallSteps(c) \/ CtxExpires(c) \/ \E l \in {"pCall", "rCall", "sCall"} : Call(c, l)

\* The manager's own steps start no wrapped function's end: a pause function goes
\* on, the status becomes Paused only after a pause that succeeded, and
\* shutdownDone is closed only by a Shutdown that is at its end.
EngineView ==
  /\ \A c \in Callers : /\ pc[c] = "pFunc" => pc'[c] = "pFunc"
                        /\ pc'[c] = "pOk" => pc[c] = "pOk"
                        /\ pc'[c] = "sUnknown" => pc[c] = "sUnknown" \/ run = "none"
                        /\ pc'[c] \in {"sRun", "sEnd"} => pc[c] \in {"sRun", "sEnd"}
  /\ status' = "Paused" => status = "Paused" \/ \E c \in Callers : pc[c] = "pOk"
  /\ run' \in Before => run \in Before
  /\ run \in {"none", "returned"} /\ status = "Shutdown" => run' \in {"none", "returned"}
  /\ "shutdownDone" \in closed' =>
        \/ "shutdownDone" \in closed
        \/ \E c \in Callers : pc[c] = "sEnd"
        \/ \E c \in Callers : pc[c] = "sUnknown" /\ run' = run

LEMMA ManagerStepView == ASSUME IInv, ManagerStep PROVE EngineView
<1> USE DEF EngineView, Goto, Before
<1>1. pc \in [Callers -> CallerPC] /\ (status = "Unknown" => run = "none")
  BY DEF IInv, TypeOK, RunInv
<1>2. CASE RunSteps
  BY <1>1, <1>2 DEF RunSteps, RunBegins, RunStarts, StartupFailed, RunReturns, Close, Unclosed
<1>3. CASE StartupReturns(FALSE)
  BY <1>1, <1>3 DEF StartupReturns
<1>4. ASSUME NEW c \in Callers, CallSteps(c) PROVE EngineView
  <2> USE <1>1
  <2>1. CASE PauseCall(c)
    BY <2>1 DEF PauseCall, Close, Unclosed
  <2>2. CASE PauseWaited(c)
    BY <2>2 DEF PauseWaited
  <2>3. CASE PauseStarted(c)
    BY <2>3 DEF PauseStarted, Close, Unclosed
  <2>4. CASE PauseFinish(c)
    BY <2>4 DEF PauseFinish
  <2>5. CASE PauseClose(c)
    BY <2>5 DEF PauseClose
  <2>6. CASE ResumeCall(c)
    BY <2>6 DEF ResumeCall
  <2>7. CASE ResumeWaited(c)
    BY <2>7 DEF ResumeWaited
  <2>8. CASE ShutdownCall(c)
    BY <2>8 DEF ShutdownCall, Close, Unclosed
  <2>9. CASE ShutdownUnknown(c)
    BY <2>9 DEF ShutdownUnknown, Close
  <2>10. CASE ShutdownWaited(c)
    BY <2>10 DEF ShutdownWaited
  <2>11. CASE ShutdownRunDone(c)
    BY <2>11 DEF ShutdownRunDone
  <2>12. CASE ShutdownClose(c)
    BY <2>12 DEF ShutdownClose, Close
  <2>13. CASE ShutdownJoined(c)
    BY <2>13 DEF ShutdownJoined
  <2> QED BY <1>4, <2>1, <2>2, <2>3, <2>4, <2>5, <2>6, <2>7, <2>8, <2>9, <2>10, <2>11, <2>12, <2>13
          DEF CallSteps
<1>5. ASSUME NEW c \in Callers, CtxExpires(c) PROVE EngineView
  BY <1>1, <1>5 DEF CtxExpires
<1>6. ASSUME NEW c \in Callers, NEW l \in {"pCall", "rCall", "sCall"}, Call(c, l) PROVE EngineView
  BY <1>1, <1>6 DEF Call
<1> QED BY <1>2, <1>3, <1>4, <1>5, <1>6 DEF ManagerStep

LEMMA ManagerStepIInv == ASSUME ~EarlyOverlap, IInv, ManagerStep PROVE IInv'
BY RunStepsIInv, StartupReturnsIInv, CallStepsIInv, CtxExpiresIInv, CallIInv DEF ManagerStep

-----------------------------------------------------------------------------
(* The engine's steps preserve its invariant *)

LEMMA ManagerStepEngine ==
  ASSUME ~EarlyOverlap, EngineInv, ManagerStep, UNCHANGED engine
  PROVE  EngineInv'
<1>1. IInv'
  BY ManagerStepIInv DEF EngineInv
<1>2. EngineView
  BY ManagerStepView DEF EngineInv
<1>3. EngineTypeOK'
  BY <1>1 DEF EngineInv, EngineTypeOK, IInv, engine
<1>4. QuietInv'
  BY <1>2 DEF EngineInv, QuietInv, EngineView, engine
<1>5. StoppedInv'
  BY <1>2 DEF EngineInv, IInv, ShutInv, StoppedInv, EngineView, engine, Before
<1> QED BY <1>1, <1>3, <1>4, <1>5 DEF EngineInv

\* The steps of the run loop, with the manager as it is.
LEMMA LoopEngine ==
  ASSUME EngineInv, Loop, UNCHANGED vars
  PROVE  EngineInv'
<1> USE DEF EngineInv, Loop, LoopStarts, CycleBegins, CycleEnds, Tick, LoopAnswers, LoopExits, RunFuncExits
<1>1. IInv'
  BY UnchangedIInv
<1>2. EngineTypeOK'
  BY <1>1 DEF EngineTypeOK, IInv, RunFuncReturns, vars, engine
<1>3. QuietInv'
  BY DEF QuietInv, RunFuncReturns, vars, engine, IsPausing, IInv, OwnerInv, Pausers
<1>4. StoppedInv'
  BY DEF StoppedInv, RunFuncReturns, vars, engine, Before, IInv, ShutInv
<1> QED BY <1>1, <1>2, <1>3, <1>4

LEMMA RunFuncExitsEngine ==
  ASSUME EngineInv, RunFuncExits
  PROVE  EngineInv'
<1>1. IInv'
  BY RunFuncReturnsIInv DEF EngineInv, RunFuncExits
<1>2. EngineTypeOK'
  BY <1>1 DEF EngineInv, EngineTypeOK, IInv, RunFuncExits, engine
<1>3. QuietInv'
  BY DEF EngineInv, QuietInv, RunFuncExits, RunFuncReturns, engine
<1>4. StoppedInv'
  BY DEF EngineInv, StoppedInv, RunFuncExits, RunFuncReturns, engine, Before, Close
<1> QED BY <1>1, <1>2, <1>3, <1>4 DEF EngineInv

\* The end of the pause function, with success only once the loop has answered.
LEMMA PauseReturnsEngine ==
  ASSUME EngineInv, NEW c \in Callers, NEW ok \in BOOLEAN, PauseReturns(c, ok),
         ok => stage[c] = "wait"
  PROVE  EngineInv'
<1>1. IInv'
  BY PauseFuncReturnsIInv DEF EngineInv, PauseReturns
<1>2. EngineTypeOK'
  BY <1>1 DEF EngineInv, EngineTypeOK, IInv, PauseReturns, Stage
<1>3. pc \in [Callers -> CallerPC] /\ stage \in [Callers -> {"river", "offer", "wait", "resume", "resumeWait"}]
  BY DEF EngineInv, EngineTypeOK, TypeOK
<1>4. QuietInv'
  BY <1>3 DEF EngineInv, QuietInv, PauseReturns, PauseFuncReturns, Stage, Goto
<1>5. StoppedInv'
  BY <1>3 DEF EngineInv, StoppedInv, PauseReturns, PauseFuncReturns, Stage, Goto
<1> QED BY <1>1, <1>2, <1>4, <1>5 DEF EngineInv

\* The other steps of _pause move the stage, and nothing else but River, the loop
\* and, when Resume is called from within, what that Resume waits for.
LEMMA ResumeInPauseIInv ==
  ASSUME IInv, NEW c \in Callers, pc[c] = "pFunc", pauseCancel,
         waitOn' = [waitOn EXCEPT ![c] = op],
         UNCHANGED <<status, holder, isPausing, op, pc, run, startupErr, closed, runCancel, panicked, calls>>
  PROVE  IInv'
<1>1. TypeOK'
  BY DEF IInv, TypeOK, pauseCancel
<1>2. \A d \in Callers : pc[d] = "sPause" => waitOn'[d] = waitOn[d]
  BY DEF IInv, TypeOK
<1>3. OwnerInv'
  BY <1>2 DEF IInv, OwnerInv
<1> QED
  BY <1>1, <1>3 DEF IInv, NoPanic, RunInv, SignalMatchesStatus, AloneInv, HolderInv, ShutInv, Free

LEMMA StageEngine ==
  ASSUME EngineInv, NEW c \in Callers, NEW l \in {"offer", "wait", "resume", "resumeWait"},
         pc[c] = "pFunc", Stage(c, l), IInv', UNCHANGED <<pc, status, closed, run, answered, shutdownCh>>,
         \/ l = "offer" /\ river' = river /\ loop' = loop
         \/ l = "wait" /\ loop = "select" /\ loop' = "answer" /\ river' = river
         \/ stage[c] \in {"wait", "resume", "resumeWait"} /\ river' = river /\ loop' = loop
  PROVE  EngineInv'
<1>1. EngineTypeOK'
  BY DEF EngineInv, EngineTypeOK, IInv, Stage
<1>2. QuietInv'
  BY DEF EngineInv, EngineTypeOK, QuietInv, Stage
<1>3. StoppedInv'
  BY DEF EngineInv, EngineTypeOK, StoppedInv, Before, IInv, RunInv
<1> QED BY <1>1, <1>2, <1>3 DEF EngineInv

\* River is told to stop, or has stopped.
LEMMA RiverEngine ==
  ASSUME EngineInv, TellRiver \/ RiverStopped
  PROVE  EngineInv'
<1>1. IInv'
  BY UnchangedIInv DEF EngineInv, TellRiver, RiverStopped
<1>2. EngineTypeOK'
  BY <1>1 DEF EngineInv, EngineTypeOK, IInv, TellRiver, RiverStopped
<1>3. QuietInv'
  BY DEF EngineInv, QuietInv, TellRiver, RiverStopped, vars
<1>4. StoppedInv'
  BY DEF EngineInv, StoppedInv, TellRiver, RiverStopped, vars
<1> QED BY <1>1, <1>2, <1>3, <1>4 DEF EngineInv

LEMMA RunCtxEndsEngine ==
  ASSUME EngineInv, RunCtxEnds
  PROVE  EngineInv'
<1>1. IInv'
  BY DEF EngineInv, RunCtxEnds, IInv, TypeOK, NoPanic, RunInv, SignalMatchesStatus, OwnerInv, AloneInv,
         HolderInv, ShutInv, Free
<1> QED
  BY <1>1 DEF EngineInv, EngineTypeOK, QuietInv, StoppedInv, RunCtxEnds, engine, IInv

LEMMA EnginePausesInv ==
  ASSUME EngineInv, NEW c \in Callers, EnginePauses(c)
  PROVE  EngineInv'
<1>1. IInv /\ TRUE \in BOOLEAN /\ FALSE \in BOOLEAN
  BY DEF EngineInv
<1>2. ASSUME UNCHANGED vars PROVE IInv' /\ UNCHANGED <<pc, status, closed, run>>
  BY <1>1, <1>2, UnchangedIInv DEF vars
<1>3. CASE PauseReturns(c, FALSE)
  BY <1>1, <1>3, PauseReturnsEngine
<1>4. CASE StopRiver(c) /\ ~PauseReturns(c, FALSE)
  BY <1>2, <1>4, StageEngine, RiverEngine DEF StopRiver
<1>5. CASE Offer(c) /\ ~PauseReturns(c, FALSE)
  BY <1>2, <1>5, StageEngine DEF Offer
<1>6. CASE Answer(c)
  <2>1. CASE PauseReturns(c, TRUE)
    BY <1>1, <1>6, <2>1, PauseReturnsEngine DEF Answer
  <2>2. CASE ~PauseReturns(c, TRUE)
    BY <1>2, <1>6, <2>2, StageEngine DEF Answer
  <2> QED BY <2>1, <2>2
<1>7. CASE ResumeInPause(c) /\ ~PauseReturns(c, FALSE)
  <2>1. CASE stage[c] = "resume"
    <3>1. IInv'
      BY <1>1, <1>7, <2>1, ResumeInPauseIInv DEF ResumeInPause
    <3> QED BY <1>7, <2>1, <3>1, StageEngine DEF ResumeInPause
  <2>2. CASE stage[c] # "resume"
    BY <1>2, <1>7, <2>2, StageEngine DEF ResumeInPause
  <2> QED BY <2>1, <2>2
<1> QED BY <1>3, <1>4, <1>5, <1>6, <1>7 DEF EnginePauses

LEMMA EngineResumesInv ==
  ASSUME EngineInv, NEW c \in Callers, EngineResumes(c)
  PROVE  EngineInv'
<1>1. IInv'
  BY ResumeFuncReturnsIInv DEF EngineInv, EngineResumes
<1>2. EngineTypeOK'
  BY <1>1 DEF EngineInv, EngineTypeOK, IInv, EngineResumes
<1>3. pc \in [Callers -> CallerPC]
  BY DEF EngineInv, IInv, TypeOK
<1>4. QuietInv'
  BY <1>3 DEF EngineInv, QuietInv, EngineResumes, ResumeFuncReturns, Goto
<1>5. status = "Paused" /\ "shutdownDone" \notin closed /\ \A d \in Callers : pc[d] \notin Downers
  BY DEF EngineInv, IInv, HolderInv, ShutInv, EngineResumes, ResumeFuncReturns
<1>6. StoppedInv'
  BY <1>3, <1>5 DEF EngineInv, StoppedInv, QuietInv, Downers, EngineResumes, ResumeFuncReturns, Goto
<1> QED BY <1>1, <1>2, <1>4, <1>6 DEF EngineInv

LEMMA ShutdownSignalsInv ==
  ASSUME EngineInv, NEW c \in Callers, ShutdownSignals(c)
  PROVE  EngineInv'
<1>1. IInv'
  BY UnchangedIInv DEF EngineInv, ShutdownSignals
<1> QED
  BY <1>1 DEF EngineInv, EngineTypeOK, QuietInv, StoppedInv, ShutdownSignals, vars, IInv

LEMMA EngineShutsDownInv ==
  ASSUME EngineInv, NEW c \in Callers, EngineShutsDown(c)
  PROVE  EngineInv'
<1>1. IInv'
  BY ShutdownFuncReturnsIInv DEF EngineInv, EngineShutsDown
<1>2. EngineTypeOK'
  BY <1>1 DEF EngineInv, EngineTypeOK, IInv, EngineShutsDown, engine
<1>3. pc \in [Callers -> CallerPC]
  BY DEF EngineInv, IInv, TypeOK
<1>4. QuietInv'
  BY <1>3 DEF EngineInv, QuietInv, EngineShutsDown, engine, ShutdownFuncReturns, Goto
<1>5. StoppedInv'
  BY <1>3 DEF EngineInv, StoppedInv, EngineShutsDown, engine, ShutdownFuncReturns, Goto
<1> QED BY <1>1, <1>2, <1>4, <1>5 DEF EngineInv

-----------------------------------------------------------------------------
(* The results about the engine *)

LEMMA EngineNextInv ==
  ASSUME ~EarlyOverlap, EngineInv, [EngineNext]_evars
  PROVE  EngineInv'
<1>1. CASE Manager \/ Requests
  BY <1>1, ManagerStepEngine DEF Manager, Requests, ManagerStep
<1>2. CASE Loop
  <2>1. CASE RunFuncExits
    BY <2>1, RunFuncExitsEngine
  <2>2. CASE ~RunFuncExits
    <3>1. UNCHANGED vars
      BY <1>2, <2>2 DEF Loop, LoopStarts, CycleBegins, CycleEnds, Tick, LoopAnswers, LoopExits
    <3> QED BY <1>2, <3>1, LoopEngine
  <2> QED BY <2>1, <2>2
<1>3. ASSUME NEW c \in Callers, EngineWrapped(c) PROVE EngineInv'
  BY <1>3, EnginePausesInv, EngineResumesInv, ShutdownSignalsInv, RiverEngine, EngineShutsDownInv
     DEF EngineWrapped, ShutdownStopsRiver
<1>4. CASE UNCHANGED evars
  <2>1. UNCHANGED vars /\ UNCHANGED engine
    BY <1>4 DEF evars
  <2>2. IInv'
    BY <2>1, UnchangedIInv DEF EngineInv
  <2> QED BY <2>1, <2>2 DEF EngineInv, EngineTypeOK, QuietInv, StoppedInv, vars, engine, IInv
<1>5. CASE RunCtxEnds \/ River
  BY <1>5, RunCtxEndsEngine, RiverEngine DEF River, RiverCancelled
<1> QED BY <1>1, <1>2, <1>3, <1>4, <1>5 DEF EngineNext

LEMMA EngineInitInv == EngineInit => EngineInv
<1> SUFFICES ASSUME EngineInit PROVE EngineInv
  OBVIOUS
<1>1. IInv
  BY InitIInv DEF EngineInit
<1> QED
  BY <1>1 DEF EngineInit, Init, EngineInv, EngineTypeOK, QuietInv, StoppedInv, IInv

\* The same with the engine's functions: while Pause stands no request is lost,
\* and a loop that is told to end does nothing else (engine.go).
THEOREM EngineInductive == ASSUME ~EarlyOverlap PROVE EngineSpec => []EngineInv
BY EngineInitInv, EngineNextInv, PTL DEF EngineSpec

\* While the engine is paused no cycle processes modules or messages, and a
\* Shutdown that has returned leaves no run loop behind and has told River to
\* stop, whether or not River.Stop gave up waiting for its jobs (engine.go:312-319).
THEOREM EngineDoesAsTold == ASSUME ~EarlyOverlap PROVE EngineSpec => []EngineObeys
<1>1. EngineInv => EngineObeys
  BY DEF EngineInv, QuietInv, StoppedInv, EngineObeys, PausedIsQuiet, ShutdownStopsAll
<1> QED BY <1>1, EngineInductive, PTL

\* The engine's own pause function, which calls the manager back, keeps all that
\* holds of the manager with arbitrary wrapped functions.
THEOREM EngineKeepsManager ==
  ASSUME ~EarlyOverlap
  PROVE  EngineSpec => [](NoPanic /\ CallbacksExclusive /\ StatusConsistent)
<1>1. EngineInv => NoPanic /\ CallbacksExclusive /\ StatusConsistent
  BY ExclusiveFromIInv, ConsistentFromIInv DEF EngineInv, IInv
<1> QED BY <1>1, EngineInductive, PTL

=============================================================================
