------------------------------ MODULE SwoGroup ------------------------------
(***************************************************************************)
(* The switchover group (swo/swogrp): every node follows one log of        *)
(* messages, which a table lock keeps totally ordered (swo/swomsg), and    *)
(* derives from it the state of the cluster, its members and its leader.   *)
(* The leader runs the synchronisation, every member pauses its            *)
(* application, and only then the leader switches the database.            *)
(*                                                                         *)
(* A message is known by its position in the log.  Work runs in goroutines *)
(* that answer with a message when they end; they race with the message    *)
(* loop, which may have cancelled them meanwhile.  Nodes crash, new nodes  *)
(* join, and an append to the log may fail: then the message is lost, or   *)
(* it is in the log although its sender was told otherwise.                *)
(***************************************************************************)
EXTENDS Integers, Sequences, FiniteSets

CONSTANTS
    Nodes,        \* node identifiers; a restarted process has a new one
    CanExec,      \* the nodes that may lead
    InitialNodes, \* the nodes that run from the start
    Admins,       \* the nodes that receive the administrator's requests
    NoNode,       \* the nil identifier
    MaxLog,       \* bound on the messages
    MaxResets,    \* bound on the administrator's requests to reset
    MaxExecutes,  \* bound on the administrator's requests to execute
    MaxTroubles   \* bound on the appends that fail, the processes that crash and
                  \* the tasks that fail without being cancelled together

ASSUME GroupAssumption ==
    /\ IsFiniteSet(Nodes)
    /\ CanExec \subseteq Nodes /\ InitialNodes \subseteq Nodes
    /\ Admins \subseteq Nodes
    /\ NoNode \notin Nodes
    /\ {MaxLog, MaxResets, MaxExecutes, MaxTroubles} \subseteq Nat

VARIABLES
    log,        \* the message log
    proc,       \* node -> "off", "joining", "up", or how its process ended
    pos,        \* node -> number of messages its message loop has handled
    grp,        \* node -> state, members, paused members, leader, lastMsgID
    cancelTask, \* node -> the task that cancelTask cancels, 0 for nil
    tasks,      \* node -> its task goroutines
    appPaused,  \* node -> the application is paused
    admin,      \* node -> the cancel message its Reset waits for, 0 if it could
                \* not be sent, NoReset when there is no Reset
    execReq,    \* node -> an Execute has found the state idle
    doomed,     \* messages whose sender closed the channel of waitMsg already
    counts      \* what the bounds count, and the answers that were lost

groupVars ==
    <<log, proc, pos, grp, cancelTask, tasks, appPaused, admin, execReq, doomed, counts>>

ClusterStates == {"Unknown", "Resetting", "Idle", "Syncing", "Pausing", "Executing", "Done"}
MessageTypes  == {"hello", "reset", "reset-end", "execute", "pause", "paused", "done",
                  "error", "cancel"}
TaskFns       == {"reset-end", "pause", "paused", "done"}   \* by their success message

NoReset == -1

Message(type, n, ack) == [type |-> type, node |-> n, ack |-> ack]

GroupInit ==
    /\ log = << >>
    /\ proc = [n \in Nodes |-> IF n \in InitialNodes THEN "up" ELSE "off"]
    /\ pos = [n \in Nodes |-> 0]
    /\ grp = [n \in Nodes |-> [state |-> "Unknown", nodes |-> {}, paused |-> {},
                               leaderID |-> NoNode, lastMsgID |-> 0]]
    /\ cancelTask = [n \in Nodes |-> 0]
    /\ tasks = [n \in Nodes |-> {}]
    /\ appPaused = [n \in Nodes |-> FALSE]
    /\ admin = [n \in Nodes |-> NoReset]
    /\ execReq = [n \in Nodes |-> FALSE]
    /\ doomed = {}
    /\ counts = [resets |-> 0, executes |-> 0, troubles |-> 0, losses |-> 0]

----------------------------------------------------------------------------
(* Log.Append                                                              *)

(* sendAck: a failure is logged and otherwise ignored. *)
Append1(m) ==
    /\ \/ log' = Append(log, m) /\ UNCHANGED counts
       \/ /\ counts.troubles < MaxTroubles
          /\ counts' = [counts EXCEPT !.troubles = @ + 1, !.losses = @ + 1]
          /\ UNCHANGED log
    /\ UNCHANGED doomed

(* sendAckWait: after an error the channel is closed at once, but stays in *)
(* waitMsg; the message may be in the log all the same.                    *)
AppendWait(m, failed, was) ==
    /\ failed => counts.troubles < MaxTroubles
    /\ counts' = IF failed THEN [was EXCEPT !.troubles = @ + 1] ELSE was
    /\ \/ /\ log' = Append(log, m)
          /\ doomed' = IF failed THEN doomed \cup {Len(log) + 1} ELSE doomed
       \/ failed /\ UNCHANGED <<log, doomed>>

NoAppend == UNCHANGED <<log, doomed, counts>>

----------------------------------------------------------------------------
(* startTask and cancel                                                    *)

Cancelled(n) ==
    {[t EXCEPT !.cancelled = @ \/ t.ack = cancelTask[n]] : t \in tasks[n]}

StartTask(n, fn, ack) ==
    IF cancelTask[n] # 0
    THEN /\ proc' = [proc EXCEPT ![n] = "already running a task"]
         /\ UNCHANGED <<cancelTask, tasks>>
    ELSE /\ cancelTask' = [cancelTask EXCEPT ![n] = ack]
         /\ tasks' = [tasks EXCEPT ![n] = @ \cup
               {[fn |-> fn, ack |-> ack, cancelled |-> FALSE, phase |-> "run"]}]
         /\ UNCHANGED proc

NoTask == UNCHANGED <<proc, cancelTask, tasks>>

(* Cancels the task and the executor, and resumes the application. *)
CancelTask(n) ==
    /\ tasks' = [tasks EXCEPT ![n] = Cancelled(n)]
    /\ cancelTask' = [cancelTask EXCEPT ![n] = 0]
    /\ appPaused' = [appPaused EXCEPT ![n] = FALSE]
    /\ UNCHANGED proc

----------------------------------------------------------------------------
(* messageLoop: one action for each case of its switch                     *)

Id(n)   == pos[n] + 1
Msg(n)  == log[Id(n)]
Step(n) == pos' = [pos EXCEPT ![n] = @ + 1] /\ UNCHANGED <<admin, execReq>>

(* The message is the one the state waits for, in answer to the last one. *)
Expected(n, state, type) ==
    /\ grp[n].state = state
    /\ Msg(n).type = type
    /\ Msg(n).ack = grp[n].lastMsgID

Advance(n, state) ==
    grp' = [grp EXCEPT ![n] = [@ EXCEPT !.state = state, !.lastMsgID = Id(n)]]

HandleReset(n) ==
    /\ Msg(n).type = "reset"
    /\ CancelTask(n)
    /\ grp' = [grp EXCEPT ![n] = [state |-> "Resetting", nodes |-> {},
                                  paused |-> @.paused \ @.nodes,
                                  leaderID |-> NoNode, lastMsgID |-> Id(n)]]
    /\ Append1(Message("hello", n, Id(n)))

\* Variant of HandleHello in which a node that may lead elects itself.
HandleHelloSelf(n) ==
    /\ Expected(n, "Resetting", "hello")
    /\ LET from  == Msg(n).node
           leads == from \in CanExec /\ (grp[n].leaderID = NoNode \/ from = n)
       IN /\ grp' = [grp EXCEPT ![n] = [@ EXCEPT
                 !.nodes = grp[n].nodes \cup {from},
                 !.leaderID = IF leads THEN from ELSE grp[n].leaderID]]
          /\ IF leads /\ from = n
             THEN StartTask(n, "reset-end", grp[n].lastMsgID)
             ELSE NoTask
    /\ NoAppend /\ UNCHANGED appPaused

HandleHello(n) ==
    /\ Expected(n, "Resetting", "hello")
    /\ LET from  == Msg(n).node
           leads == grp[n].leaderID = NoNode /\ from \in CanExec
       IN /\ grp' = [grp EXCEPT ![n] = [@ EXCEPT
                 !.nodes = grp[n].nodes \cup {from},
                 !.leaderID = IF leads THEN from ELSE grp[n].leaderID]]
          /\ IF leads /\ from = n
             THEN StartTask(n, "reset-end", grp[n].lastMsgID)
             ELSE NoTask
    /\ NoAppend /\ UNCHANGED appPaused

HandleResetEnd(n) ==
    /\ Expected(n, "Resetting", "reset-end")
    /\ Advance(n, "Idle")
    /\ NoTask /\ NoAppend /\ UNCHANGED appPaused

HandleExecute(n) ==
    /\ Expected(n, "Idle", "execute")
    /\ Advance(n, "Syncing")
    /\ IF grp[n].leaderID = n THEN StartTask(n, "pause", Id(n)) ELSE NoTask
    /\ NoAppend /\ UNCHANGED appPaused

HandlePause(n) ==
    /\ Expected(n, "Syncing", "pause")
    /\ Advance(n, "Pausing")
    /\ StartTask(n, "paused", Id(n))
    /\ NoAppend /\ UNCHANGED appPaused

\* Variant of HandlePaused that goes on when the node's own pause is done.
HandlePausedOwn(n) ==
    /\ Expected(n, "Pausing", "paused")
    /\ LET paused == grp[n].paused \cup {Msg(n).node}
           all    == n \in paused
       IN /\ grp' = [grp EXCEPT ![n] = [@ EXCEPT
                 !.paused = paused,
                 !.state = IF all THEN "Executing" ELSE grp[n].state,
                 !.lastMsgID = IF all THEN Id(n) ELSE grp[n].lastMsgID]]
          /\ IF all /\ grp[n].leaderID = n THEN StartTask(n, "done", Id(n)) ELSE NoTask
    /\ NoAppend /\ UNCHANGED appPaused

\* Variant of HandlePaused that looks before it adds the node that paused.
HandlePausedEarly(n) ==
    /\ Expected(n, "Pausing", "paused")
    /\ LET paused == grp[n].paused \cup {Msg(n).node}
           all    == grp[n].nodes \subseteq grp[n].paused
       IN /\ grp' = [grp EXCEPT ![n] = [@ EXCEPT
                 !.paused = paused,
                 !.state = IF all THEN "Executing" ELSE grp[n].state,
                 !.lastMsgID = IF all THEN Id(n) ELSE grp[n].lastMsgID]]
          /\ IF all /\ grp[n].leaderID = n THEN StartTask(n, "done", Id(n)) ELSE NoTask
    /\ NoAppend /\ UNCHANGED appPaused

HandlePaused(n) ==
    /\ Expected(n, "Pausing", "paused")
    /\ LET paused == grp[n].paused \cup {Msg(n).node}
           all    == grp[n].nodes \subseteq paused
       IN /\ grp' = [grp EXCEPT ![n] = [@ EXCEPT
                 !.paused = paused,
                 !.state = IF all THEN "Executing" ELSE grp[n].state,
                 !.lastMsgID = IF all THEN Id(n) ELSE grp[n].lastMsgID]]
          /\ IF all /\ grp[n].leaderID = n THEN StartTask(n, "done", Id(n)) ELSE NoTask
    /\ NoAppend /\ UNCHANGED appPaused

HandleDone(n) ==
    /\ Expected(n, "Executing", "done")
    /\ CancelTask(n)
    /\ grp' = [grp EXCEPT ![n].state = "Done"]
    /\ NoAppend

(* A late error, of a task that is no longer the current one, is ignored. *)
HandleError(n) ==
    /\ Msg(n).type = "error"
    /\ IF Msg(n).ack = grp[n].lastMsgID
       THEN CancelTask(n) /\ grp' = [grp EXCEPT ![n].state = "Unknown"]
       ELSE NoTask /\ UNCHANGED <<grp, appPaused>>
    /\ NoAppend

HandleCancel(n) ==
    /\ Msg(n).type = "cancel"
    /\ CancelTask(n)
    /\ grp' = [grp EXCEPT ![n].state = "Unknown"]
    /\ NoAppend

HandleUnexpected(n) ==
    /\ Msg(n).type \notin {"reset", "error", "cancel"}
    /\ ~ \/ Expected(n, "Resetting", "hello") \/ Expected(n, "Resetting", "reset-end")
         \/ Expected(n, "Idle", "execute") \/ Expected(n, "Syncing", "pause")
         \/ Expected(n, "Pausing", "paused") \/ Expected(n, "Executing", "done")
    /\ CancelTask(n)
    /\ grp' = [grp EXCEPT ![n].state = "Unknown"]
    /\ IF grp[n].state # "Unknown" THEN Append1(Message("cancel", n, Id(n))) ELSE NoAppend

(* The message is one the node sent and whose channel it has closed. *)
ClosedTwice(n) == Id(n) \in doomed /\ Msg(n).node = n

Handle(n) ==
    /\ proc[n] = "up" /\ pos[n] < Len(log)
    /\ Len(log) < MaxLog
    /\ ~ClosedTwice(n)
    /\ \/ HandleReset(n) \/ HandleHello(n) \/ HandleResetEnd(n) \/ HandleExecute(n)
       \/ HandlePause(n) \/ HandlePaused(n) \/ HandleDone(n)
       \/ HandleError(n) \/ HandleCancel(n) \/ HandleUnexpected(n)
    /\ Step(n)

(* The loop closes the channel again, and the process ends. *)
HandlePanics(n) ==
    /\ proc[n] = "up" /\ pos[n] < Len(log)
    /\ ClosedTwice(n)
    /\ proc' = [proc EXCEPT ![n] = "closed twice"]
    /\ UNCHANGED <<log, pos, grp, cancelTask, tasks, appPaused, admin, execReq, doomed, counts>>

(* No message was read for 15 seconds during a reset (there is none, or    *)
(* the log cannot be read): the node gives up on its own.                  *)
ResetTimeout(n) ==
    /\ proc[n] = "up" /\ grp[n].state = "Resetting"
    /\ grp' = [grp EXCEPT ![n].state = "Unknown"]
    /\ UNCHANGED <<log, proc, pos, cancelTask, tasks, appPaused, admin, execReq, doomed, counts>>

----------------------------------------------------------------------------
(* The goroutine of a task                                                 *)

(* The function returns.  The one that pauses leaves the application       *)
(* paused when it succeeds; it may do so although it was cancelled.        *)
TaskReturns(n) ==
    /\ proc[n] = "up"
    /\ \E t \in tasks[n], phase \in {"ok", "err"} :
          /\ t.phase = "run"
          /\ phase = "err" /\ ~t.cancelled => t.fn # "reset-end" /\ counts.troubles < MaxTroubles
          /\ counts' = IF phase = "err" /\ ~t.cancelled
                       THEN [counts EXCEPT !.troubles = @ + 1] ELSE counts
          /\ tasks' = [tasks EXCEPT ![n] = (@ \ {t}) \cup {[t EXCEPT !.phase = phase]}]
          /\ appPaused' = [appPaused EXCEPT ![n] = @ \/ (t.fn = "paused" /\ phase = "ok")]
    /\ UNCHANGED <<log, proc, pos, grp, cancelTask, admin, execReq, doomed>>

(* An append under a cancelled context fails. *)
TaskAppend(n, t, type) ==
    IF t.cancelled THEN NoAppend ELSE Append1(Message(type, n, t.ack))

TaskFails(n) ==
    /\ proc[n] = "up" /\ Len(log) < MaxLog
    /\ \E t \in tasks[n] :
          /\ t.phase = "err"
          /\ TaskAppend(n, t, "error")
          /\ tasks' = [tasks EXCEPT ![n] = @ \ {t}]
    /\ UNCHANGED <<proc, pos, grp, cancelTask, appPaused, admin, execReq>>

\* Variant of TaskSucceeds that leaves cancelTask set.
TaskSucceedsKeeps(n) ==
    /\ proc[n] = "up" /\ Len(log) < MaxLog
    /\ \E t \in tasks[n] :
          /\ t.phase = "ok"
          /\ TaskAppend(n, t, t.fn)
          /\ tasks' = [tasks EXCEPT ![n] = @ \ {t}]
    /\ UNCHANGED <<proc, pos, grp, cancelTask, appPaused, admin, execReq>>

(* The answer is sent, then cancelTask is called whatever it has become.   *)
(* A task that was cancelled itself, whose append fails, may so cancel a   *)
(* later one, whose answer is then lost.                                   *)
TaskSucceeds(n) ==
    /\ proc[n] = "up" /\ Len(log) < MaxLog
    /\ \E t \in tasks[n] :
          /\ t.phase = "ok"
          /\ IF cancelTask[n] \in {0, t.ack} THEN TaskAppend(n, t, t.fn)
             ELSE counts' = [counts EXCEPT !.losses = @ + 1] /\ UNCHANGED <<log, doomed>>
          /\ tasks' = [tasks EXCEPT ![n] = Cancelled(n) \ {t, [t EXCEPT !.cancelled = TRUE]}]
    /\ proc' = IF cancelTask[n] = 0 THEN [proc EXCEPT ![n] = "nil cancelTask"] ELSE proc
    /\ cancelTask' = [cancelTask EXCEPT ![n] = 0]
    /\ UNCHANGED <<pos, grp, appPaused, admin, execReq>>

----------------------------------------------------------------------------
(* Manager.Reset and StartExecute on node n, and the life of processes     *)

(* Reset first cancels, and waits until the node has handled that; it does *)
(* not wait when the append reports an error, committed or not.            *)
ResetCancels(n) ==
    /\ n \in Admins
    /\ proc[n] = "up" /\ admin[n] = NoReset
    /\ counts.resets < MaxResets /\ Len(log) < MaxLog
    /\ \E failed \in BOOLEAN :
          /\ AppendWait(Message("cancel", n, 0), failed, [counts EXCEPT !.resets = @ + 1])
          /\ admin' = [admin EXCEPT ![n] = IF failed THEN 0 ELSE Len(log) + 1]
    /\ UNCHANGED <<proc, pos, grp, cancelTask, tasks, appPaused, execReq>>

ResetResets(n) ==
    /\ proc[n] = "up" /\ admin[n] # NoReset /\ pos[n] >= admin[n] /\ Len(log) < MaxLog
    /\ \E failed \in BOOLEAN : AppendWait(Message("reset", n, 0), failed, counts)
    /\ admin' = [admin EXCEPT ![n] = NoReset]
    /\ UNCHANGED <<proc, pos, grp, cancelTask, tasks, appPaused, execReq>>

(* Execute reads the state under the mutex and lastMsgID later without it. *)
ExecuteChecks(n) ==
    /\ n \in Admins
    /\ proc[n] = "up" /\ ~execReq[n]
    /\ grp[n].state = "Idle"
    /\ execReq' = [execReq EXCEPT ![n] = TRUE]
    /\ counts.executes < MaxExecutes
    /\ counts' = [counts EXCEPT !.executes = @ + 1]
    /\ UNCHANGED <<log, proc, pos, grp, cancelTask, tasks, appPaused, admin, doomed>>

ExecuteSends(n) ==
    /\ proc[n] = "up" /\ execReq[n] /\ Len(log) < MaxLog
    /\ \E failed \in BOOLEAN :
          AppendWait(Message("execute", n, grp[n].lastMsgID), failed, counts)
    /\ execReq' = [execReq EXCEPT ![n] = FALSE]
    /\ UNCHANGED <<proc, pos, grp, cancelTask, tasks, appPaused, admin>>

(* NewLog: the log is followed from its end. *)
NewLog(n) ==
    /\ proc[n] = "off"
    /\ proc' = [proc EXCEPT ![n] = "joining"]
    /\ pos' = [pos EXCEPT ![n] = Len(log)]
    /\ UNCHANGED <<log, grp, cancelTask, tasks, appPaused, admin, execReq, doomed, counts>>

(* NewTaskMgr sends a hello, then the message loop starts. *)
Join(n) ==
    /\ proc[n] = "joining" /\ Len(log) < MaxLog
    /\ proc' = [proc EXCEPT ![n] = "up"]
    /\ Append1(Message("hello", n, 0))
    /\ UNCHANGED <<pos, grp, cancelTask, tasks, appPaused, admin, execReq>>

NodeCrash(n) ==
    /\ proc[n] = "up" /\ counts.troubles < MaxTroubles
    /\ proc' = [proc EXCEPT ![n] = "crashed"]
    /\ counts' = [counts EXCEPT !.troubles = @ + 1]
    /\ UNCHANGED <<log, pos, grp, cancelTask, tasks, appPaused, admin, execReq, doomed>>

GroupNext ==
    \E n \in Nodes :
        \/ Handle(n) \/ HandlePanics(n) \/ ResetTimeout(n)
        \/ TaskReturns(n) \/ TaskFails(n) \/ TaskSucceeds(n)
        \/ ResetCancels(n) \/ ResetResets(n) \/ ExecuteChecks(n) \/ ExecuteSends(n)
        \/ NewLog(n) \/ Join(n) \/ NodeCrash(n)

(* The loop goes on, its timer fires when there is nothing to read, and    *)
(* tasks end, if only by their timeouts.                                   *)
GroupFairness ==
    \A n \in Nodes :
        /\ WF_groupVars(Handle(n) \/ HandlePanics(n))
        /\ WF_groupVars(pos[n] = Len(log) /\ ResetTimeout(n))
        /\ WF_groupVars(TaskReturns(n))
        /\ WF_groupVars(TaskFails(n) \/ TaskSucceeds(n))

GroupSpec == GroupInit /\ [][GroupNext]_groupVars /\ GroupFairness

----------------------------------------------------------------------------
(* Properties                                                              *)

(* Type correctness of the group's state. *)
TypeOK ==
    /\ log \in Seq([type : MessageTypes, node : Nodes, ack : Nat])
    /\ proc \in [Nodes -> {"off", "joining", "up", "crashed", "nil cancelTask",
                           "already running a task", "closed twice"}]
    /\ pos \in [Nodes -> Nat] /\ \A n \in Nodes : pos[n] <= Len(log)
    /\ grp \in [Nodes -> [state : ClusterStates, nodes : SUBSET Nodes, paused : SUBSET Nodes,
                          leaderID : Nodes \cup {NoNode}, lastMsgID : Nat]]
    /\ cancelTask \in [Nodes -> Nat]
    /\ \A n \in Nodes : \A t \in tasks[n] :
          /\ t.fn \in TaskFns /\ t.ack \in Nat
          /\ t.cancelled \in BOOLEAN /\ t.phase \in {"run", "ok", "err"}
    /\ appPaused \in [Nodes -> BOOLEAN] /\ execReq \in [Nodes -> BOOLEAN]
    /\ admin \in [Nodes -> Nat \cup {NoReset}]
    /\ doomed \subseteq Nat
    /\ counts \in [resets : Nat, executes : Nat, troubles : Nat, losses : Nat]

(***************************************************************************)
(* The log has no reset after a pause that was acknowledged by a node      *)
(* whose hello to the reset before is not in the log.  A reset forgets who *)
(* has paused for the members only, so that such a node would count as     *)
(* paused in the next switchover (taskmgr.go:122-125).                     *)
(***************************************************************************)
Since(r, i) == r < i /\ log[r].type = "reset" /\ \A k \in (r + 1)..(i - 1) : log[k].type # "reset"

SaidHello(i) ==
    \E j \in 1..(i - 1) : /\ log[j].type = "hello" /\ log[j].node = log[i].node
                          /\ log[j].ack \in 1..(i - 1) /\ Since(log[j].ack, i)

NoStrangers ==
    \A i, j \in DOMAIN log :
        (i < j /\ log[i].type = "paused" /\ log[j].type = "reset") => SaidHello(i)

(***************************************************************************)
(* The log alone determines the state: two nodes that have handled the     *)
(* same messages and have not left (state Unknown) agree on the state, the *)
(* members, who has paused, the leader and the message that is answered,   *)
(* whatever timeouts, crashes and late joins happened before.              *)
(***************************************************************************)
Agreement ==
    TypeOK /\ (NoStrangers => \A a, b \in Nodes :
        /\ proc[a] = "up" /\ proc[b] = "up" /\ pos[a] = pos[b]
        /\ grp[a].state # "Unknown" /\ grp[b].state # "Unknown"
        => grp[a] = grp[b])

Executes(n) ==
    proc[n] = "up" /\ \E t \in tasks[n] : t.fn = "done" /\ t.phase = "run" /\ ~t.cancelled

(***************************************************************************)
(* While the leader executes the switch, the application of every member   *)
(* is paused, or its process is gone, or that member has already handled a *)
(* message of the log that the leader has yet to handle (which ends or     *)
(* cancels the execution).                                                 *)
(***************************************************************************)
PausedDuringExec ==
    NoStrangers => \A n \in Nodes : Executes(n) =>
        \A m \in grp[n].nodes :
            proc[m] = "up" => appPaused[m] \/ pos[m] > pos[n]

(* The assertion of startTask holds: no task is started over another. *)
NoDoubleTask == NoStrangers => \A n \in Nodes : proc[n] # "already running a task"

(***************************************************************************)
(* Nobody waits for ever without a cause.  A reset always ends: with the   *)
(* leader's answer or, when that is lost, with the timeout.  A node that   *)
(* stays in a switchover, synchronising, pausing or executing, for which   *)
(* the code has no timeout, does so because an answer was lost (an append  *)
(* failed, or the late end of a cancelled task cancelled its successor) or *)
(* because a member's process ended or has left the group.                 *)
(***************************************************************************)
HasLeft(m) == proc[m] # "up" \/ grp[m].state = "Unknown"

Settles ==
    <>[](Len(log) = MaxLog \/ \A n \in Nodes : proc[n] = "up" =>
            /\ grp[n].state # "Resetting"
            /\ grp[n].state \in {"Syncing", "Pausing", "Executing"} =>
                  counts.losses > 0 \/ \E m \in grp[n].nodes : HasLeft(m))
=============================================================================
