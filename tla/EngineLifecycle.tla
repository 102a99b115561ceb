--------------------------- MODULE EngineLifecycle ---------------------------
(***************************************************************************)
(* The engine under its lifecycle manager: engine/engine.go gives Lifecycle *)
(* its run, shutdown, pause and resume functions.  The run loop takes pause *)
(* requests between two cycles; River, the job queue, is a client that is   *)
(* started and told to stop, and that has stopped once its jobs have ended  *)
(* (external).  DisableCycle is off, and the engine has no startup function.*)
(***************************************************************************)
EXTENDS Lifecycle

VARIABLES loop,        \* where _run is
          stage,       \* where the _pause of each caller is
          answered,    \* req.ch of the caller's request holds the answer
          river,       \* the River client is off, on, or finishing its jobs
          shutdownCh   \* p.shutdownCh is closed

engine == <<loop, stage, answered, river, shutdownCh>>
evars == <<vars, engine>>

EngineTypeOK ==
  /\ TypeOK
  /\ loop \in {"off", "check", "work", "select", "answer", "exited"}
  /\ stage \in [Callers -> {"river", "offer", "wait", "resume", "resumeWait"}]
  /\ answered \in [Callers -> BOOLEAN]
  /\ river \in {"off", "on", "stopping"} /\ shutdownCh \in BOOLEAN

EngineInit ==
  /\ Init
  /\ loop = "off"
  /\ stage = [c \in Callers |-> "river"]
  /\ answered = [c \in Callers |-> FALSE]
  /\ river = "off" /\ shutdownCh = FALSE

-----------------------------------------------------------------------------
(* _run *)

\* startRiver, then the first cycle.
LoopStarts ==
  /\ run = "func" /\ loop = "off"
  /\ river' = "on" /\ loop' = "check"
  /\ UNCHANGED <<vars, stage, answered, shutdownCh>>

IsPausing == isPausing \/ status \in {"Pausing", "Paused", "Shutdown"}

\* Variant of CycleBegins that does not ask IsPausing.
CycleBeginsAlways ==
  /\ loop = "check" /\ Free
  /\ loop' = "work"
  /\ UNCHANGED <<vars, stage, answered, river, shutdownCh>>

\* cycle: nothing is done while pausing.
CycleBegins ==
  /\ loop = "check" /\ Free
  /\ loop' = IF IsPausing THEN "select" ELSE "work"
  /\ UNCHANGED <<vars, stage, answered, river, shutdownCh>>

\* processAll and processMessages end, or give up between two modules.
CycleEnds ==
  /\ loop = "work"
  /\ loop' = "select"
  /\ UNCHANGED <<vars, stage, answered, river, shutdownCh>>

\* The ticker or a trigger starts a cycle.
Tick ==
  /\ loop = "select"
  /\ loop' = "check"
  /\ UNCHANGED <<vars, stage, answered, river, shutdownCh>>

\* handlePause answers; req.ch has room for it, should nobody receive it.
LoopAnswers ==
  /\ loop = "answer"
  /\ answered' = [c \in Callers |-> answered[c] \/ stage[c] = "wait"]
  /\ loop' = "select"
  /\ UNCHANGED <<vars, stage, river, shutdownCh>>

\* Variant of LoopExits that only a cancelled context ends.
LoopExitsOnCancel ==
  /\ loop = "select" /\ runCancel
  /\ loop' = "exited"
  /\ UNCHANGED <<vars, stage, answered, river, shutdownCh>>

\* Shutdown or a cancelled context ends the loop: close(p.runLoopExit).
LoopExits ==
  /\ loop = "select" /\ (shutdownCh \/ runCancel)
  /\ loop' = "exited"
  /\ UNCHANGED <<vars, stage, answered, river, shutdownCh>>

RunFuncExits == loop = "exited" /\ RunFuncReturns /\ UNCHANGED engine

\* The context that Run was called with, the parent of runFunc's, ends.
RunCtxEnds ==
  /\ run = "func" /\ ~runCancel
  /\ runCancel' = TRUE
  /\ UNCHANGED <<status, holder, isPausing, op, waitOn, ctxDone, pc, run, startupErr, closed,
                 panicked, calls, engine>>

-----------------------------------------------------------------------------
(* River *)

\* River is told to stop: it takes no new jobs and finishes those it has.
TellRiver ==
  /\ river = "on" /\ river' = "stopping"
  /\ UNCHANGED <<vars, loop, stage, answered, shutdownCh>>

\* River was started with runCtx, and its end tells it to stop.
RiverCancelled == runCancel /\ TellRiver

\* The last job of a River that was told to stop has ended.
RiverStopped ==
  /\ river = "stopping" /\ river' = "off"
  /\ UNCHANGED <<vars, loop, stage, answered, shutdownCh>>

-----------------------------------------------------------------------------
(* _pause *)

Stage(c, l) == stage' = [stage EXCEPT ![c] = l]

\* _pause returns to the manager.
PauseReturns(c, ok) ==
  /\ PauseFuncReturns(c, ok)
  /\ Stage(c, "river")
  /\ answered' = [answered EXCEPT ![c] = FALSE]
  /\ UNCHANGED <<loop, river, shutdownCh>>

\* River.Stop tells a running client to stop and waits until it has, or until the
\* context is done, which is an error; a client that is not running has stopped.
StopRiver(c) ==
  /\ pc[c] = "pFunc" /\ stage[c] = "river"
  /\ \/ TellRiver
     \/ /\ river = "off" /\ Stage(c, "offer")
        /\ UNCHANGED <<vars, loop, answered, river, shutdownCh>>
     \/ river = "stopping" /\ ctxDone[c] /\ PauseReturns(c, FALSE)

\* The request is offered to the run loop, on a channel without buffer.
Offer(c) ==
  /\ pc[c] = "pFunc" /\ stage[c] = "offer"
  /\ \/ shutdownCh /\ PauseReturns(c, FALSE)
     \/ ctxDone[c] /\ PauseReturns(c, FALSE)
     \/ /\ loop = "select"
        /\ loop' = "answer" /\ Stage(c, "wait")
        /\ UNCHANGED <<vars, answered, river, shutdownCh>>

\* The answer arrives, or the context is done and Resume is deferred.
Answer(c) ==
  /\ pc[c] = "pFunc" /\ stage[c] = "wait"
  /\ \/ answered[c] /\ PauseReturns(c, TRUE)
     \/ /\ ctxDone[c] /\ Stage(c, "resume")
        /\ UNCHANGED <<vars, loop, answered, river, shutdownCh>>

\* p.Resume called from within _pause, that is from within m.Pause: the manager
\* is still pausing, so Resume waits for the end of the Pause it is part of.
ResumeInPause(c) ==
  /\ pc[c] = "pFunc" /\ Free
  /\ \/ /\ stage[c] = "resume" /\ status = "Shutdown"
        /\ PauseReturns(c, FALSE)
     \/ /\ stage[c] = "resume" /\ status = "Pausing"
        /\ pauseCancel /\ waitOn' = [waitOn EXCEPT ![c] = op]
        /\ Stage(c, "resumeWait")
        /\ UNCHANGED <<status, holder, isPausing, op, pc, run, startupErr, closed, runCancel,
                       panicked, calls, loop, answered, river, shutdownCh>>
     \/ /\ stage[c] = "resumeWait" /\ Woken(c)
        /\ Stage(c, "resume")
        /\ UNCHANGED <<vars, loop, answered, river, shutdownCh>>

-----------------------------------------------------------------------------
(* _resume and _shutdown *)

\* River is started again, unless QueueResume or the start fails; the start of a
\* client that has not stopped does nothing.
EngineResumes(c) ==
  /\ ResumeFuncReturns(c)
  /\ river' = river \/ (river = "off" /\ river' = "on")
  /\ UNCHANGED <<loop, stage, answered, shutdownCh>>

\* close(p.shutdownCh)
ShutdownSignals(c) ==
  /\ pc[c] \in {"sFunc", "sFuncRunning"} /\ ~shutdownCh
  /\ shutdownCh' = TRUE
  /\ UNCHANGED <<vars, loop, stage, answered, river>>

\* <-p.runLoopExit, and River.Stop tells River to stop ...
ShutdownStopsRiver(c) ==
  /\ pc[c] \in {"sFunc", "sFuncRunning"} /\ shutdownCh /\ loop = "exited"
  /\ TellRiver

\* Variant of EngineShutsDown that does not wait for River, nor tell it to stop.
EngineShutsDownAtOnce(c) ==
  /\ shutdownCh /\ loop = "exited"
  /\ ShutdownFuncReturns(c)
  /\ UNCHANGED engine

\* ... and waits until it has, or until the context is done: the error is
\* returned with River still finishing its jobs.
EngineShutsDown(c) ==
  /\ shutdownCh /\ loop = "exited"
  /\ river = "off" \/ (river = "stopping" /\ ctxDone[c])
  /\ ShutdownFuncReturns(c)
  /\ UNCHANGED engine

-----------------------------------------------------------------------------

Loop == LoopStarts \/ CycleBegins \/ CycleEnds \/ Tick \/ LoopAnswers \/ LoopExits \/ RunFuncExits
EnginePauses(c) == StopRiver(c) \/ Offer(c) \/ Answer(c) \/ ResumeInPause(c)
EngineWrapped(c) == \/ EnginePauses(c) \/ EngineResumes(c)
                    \/ ShutdownSignals(c) \/ ShutdownStopsRiver(c) \/ EngineShutsDown(c)
River == RiverCancelled \/ RiverStopped
Manager == (RunSteps \/ StartupReturns(FALSE) \/ \E c \in Callers : CallSteps(c)) /\ UNCHANGED engine
Requests == (\E c \in Callers : CtxExpires(c) \/ \E l \in {"pCall", "rCall", "sCall"} : Call(c, l))
            /\ UNCHANGED engine

EngineNext == Manager \/ Requests \/ RunCtxEnds \/ Loop \/ River \/ \E c \in Callers : EngineWrapped(c)

EngineSpec == EngineInit /\ [][EngineNext]_evars

\* The goroutines go on, a cycle ends, and so do the jobs of a River that was
\* told to stop.  The loop's select is fair to a
\* request that is offered and to the shutdown channel, because each pass of the
\* loop asks for them before it waits for the ticker.
EngineFairness ==
  /\ WF_evars((RunStarts \/ RunReturns \/ StartupReturns(FALSE)) /\ UNCHANGED engine)
  /\ WF_evars(Loop) /\ WF_evars(River) /\ SF_evars(LoopExits) /\ WF_evars(RunFuncExits)
  /\ \A c \in Callers : /\ WF_evars(CallSteps(c) /\ UNCHANGED engine)
                        /\ WF_evars(EngineWrapped(c)) /\ SF_evars(Offer(c))

EngineFairSpec == EngineSpec /\ EngineFairness

-----------------------------------------------------------------------------
(* Properties *)

\* While the engine is paused no cycle processes modules or messages: the pause
\* was accepted between two cycles, and later ones see IsPausing.
PausedIsQuiet == status = "Paused" /\ Free => loop # "work"

\* A Shutdown that has been through _shutdown leaves no loop behind, and no River
\* that takes new jobs: one whose context ended before River's jobs did returns
\* the error of River.Stop, with River told to stop and still finishing them.
ShutdownStopsAll ==
  "shutdownDone" \in closed /\ run # "none" => loop \in {"off", "exited"} /\ river # "on"

\* The engine does what its manager says of it, in a pause and after a shutdown.
EngineObeys == EngineTypeOK /\ PausedIsQuiet /\ ShutdownStopsAll

\* The Shutdown of an engine whose loop was entered returns: the loop sees the
\* closed channel after the cycle or the answer it is at, the manager ends the run
\* and releases every waiting caller, and River ends, if not before Shutdown
\* returned with an error then after it.
EngineStops ==
  shutdownCh /\ loop # "off" ~>
    loop = "exited" /\ river = "off" /\ {"shutdownDone", "runDone"} \subseteq closed
===============================================================================
