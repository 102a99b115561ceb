------------------------------ MODULE SwoSync -------------------------------
(***************************************************************************)
(* How a switchover moves the data (swo/executor.go, swo/pgxpool.go,       *)
(* swo/swosync).  The leader's executor copies the old database to the new *)
(* one, then repeatedly copies the rows that the change log names, stops   *)
(* the world, copies the rest and sets switchover_state to use_next_db.    *)
(* Meanwhile the application reads and writes through connections that     *)
(* hold a shared advisory lock (4369) while they are in use.               *)
(*                                                                         *)
(* One table with a few rows stands for all: a row's value is the number   *)
(* of the write that set it, 0 when there is no such row.  PostgreSQL is   *)
(* modelled from how the code uses it: a statement reads the snapshot of   *)
(* its start, a serializable transaction that of its first statement, a    *)
(* lost session rolls back and releases its locks.                         *)
(***************************************************************************)
EXTENDS Integers, FiniteSets

CONSTANTS
    Conns,      \* the application's connections, each of its own process
    Execs,      \* the executors, one for each node that may lead
    Rows,       \* row identifiers
    Rounds,     \* logical syncs before and after the pause (10 in the code)
    MaxWrites,  \* bound on the application's writes
    MaxStarts,  \* bound on the synchronisations that begin
    MaxStalls   \* bound on executors that stall past their session's timeout

ASSUME SyncAssumption ==
    /\ Rounds \in Nat \ {0} /\ Rows # {}
    /\ {MaxWrites, MaxStarts, MaxStalls} \subseteq Nat

VARIABLES
    old, new,   \* the committed rows of the two databases
    swState,    \* switchover_state.current_state of the old database
    triggers,   \* the change_log table and its triggers exist
    changes,    \* the committed rows of change_log
    conn,       \* connection -> what it does
    ex,         \* executor -> where it stands and what it has read
    last,       \* row -> the value committed last, whichever database took it
    late,       \* the rows committed last in the old database after the switch
    stale,      \* the rows a stalled executor wrote while another synchronised or after
    used        \* what the bounds count

vars == <<old, new, swState, triggers, changes, conn, ex, last, late, stale, used>>

Values == 0..MaxWrites
NoRead == [r \in {} |-> 0]

(* A connection that is in the pool; isDone: its process saw the switch. *)
Released(isDone) ==
    [phase |-> "idle", saw |-> "idle", isDone |-> isDone,
     id |-> 0, row |-> CHOOSE r \in Rows : TRUE, val |-> 0, logged |-> FALSE]

Init ==
    /\ old = [r \in Rows |-> 0] /\ new = [r \in Rows |-> 0]
    /\ swState = "idle" /\ triggers = FALSE /\ changes = {}
    /\ conn = [c \in Conns |-> Released(FALSE)]
    /\ ex = [e \in Execs |-> [pc |-> "off", rep |-> FALSE, wait |-> {}, ids |-> {},
                              read |-> NoRead, left |-> 0]]
    /\ last = old /\ late = {} /\ stale = {}
    /\ used = [writes |-> 0, starts |-> 0, stalls |-> 0]

----------------------------------------------------------------------------
(* The advisory locks                                                      *)

HoldsExecLock(e) == ex[e].pc \notin {"off", "stalled"}              \* 4370
StopsTheWorld(e) == ex[e].pc \in {"stopped", "finalRead", "finalApplied"}
HoldsShared(c)   == conn[c].phase \in {"held", "open", "wrote"}     \* 4369
InTx(c)          == conn[c].phase \in {"open", "wrote"}

(* Creating or dropping a trigger waits for the writers of the table. *)
NoWriters == \A c \in Conns : conn[c].phase # "wrote"

----------------------------------------------------------------------------
(* The application's connections: NewAppPGXPool                            *)

ConnUnchanged == UNCHANGED <<old, new, swState, triggers, changes, last, late, stale>>

Goto(c, phase) == conn' = [conn EXCEPT ![c].phase = phase]

(* The statement or the transaction of c ends: executors that wait for it  *)
(* go on.                                                                  *)
NoLongerAwaited(c) == ex' = [e \in Execs |-> [ex[e] EXCEPT !.wait = @ \ {c}]]

(* PrepareConn: SWOConnLock is one statement, which takes its snapshot,    *)
(* then waits for the lock, then reads switchover_state.                   *)
Acquire(c) ==
    /\ conn[c].phase = "idle" /\ ~conn[c].isDone
    /\ conn' = [conn EXCEPT ![c].phase = "check", ![c].saw = swState]
    /\ ConnUnchanged /\ UNCHANGED <<ex, used>>

ConnLocked(c) ==
    /\ conn[c].phase = "check"
    /\ ~ \E e \in Execs : StopsTheWorld(e)
    /\ IF conn[c].saw = "use_next_db"
       THEN conn' = [conn EXCEPT ![c] = Released(TRUE)]
       ELSE conn' = [conn EXCEPT ![c] = [Released(FALSE) EXCEPT !.phase = "held"]]
    /\ NoLongerAwaited(c)
    /\ ConnUnchanged /\ UNCHANGED used

BeginTx(c) ==
    /\ conn[c].phase = "held"
    /\ Goto(c, "open")
    /\ ConnUnchanged /\ UNCHANGED <<ex, used>>

(* A write takes the row's lock; its trigger, fn_process_change_log, reads *)
(* switchover_state anew.                                                  *)
Write(c) ==
    /\ conn[c].phase = "open" /\ used.writes < MaxWrites
    /\ \E r \in Rows, v \in {0, used.writes + 1} :
          /\ \A d \in Conns : ~(conn[d].phase = "wrote" /\ conn[d].row = r)
          /\ conn' = [conn EXCEPT ![c] = [@ EXCEPT !.phase = "wrote", !.id = used.writes + 1,
                                            !.row = r, !.val = v,
                                            !.logged = triggers /\ swState = "in_progress"]]
    /\ used' = [used EXCEPT !.writes = @ + 1]
    /\ ConnUnchanged /\ UNCHANGED ex

(* The end of a transaction; the connection is released (AfterRelease      *)
(* unlocks it).                                                            *)
EndTx(c) ==
    /\ conn' = [conn EXCEPT ![c] = Released(FALSE)]
    /\ NoLongerAwaited(c)
    /\ UNCHANGED <<new, swState, triggers, stale, used>>

Commit(c) ==
    /\ conn[c].phase = "wrote"
    /\ LET r == conn[c].row
       IN /\ old' = [old EXCEPT ![r] = conn[c].val]
          /\ last' = [last EXCEPT ![r] = conn[c].val]
          /\ late' = IF swState = "use_next_db" THEN late \cup {r} ELSE late
          /\ changes' = IF conn[c].logged THEN changes \cup {[id |-> conn[c].id, row |-> r]}
                                          ELSE changes
    /\ EndTx(c)

Rollback(c) ==
    /\ InTx(c)
    /\ EndTx(c)
    /\ UNCHANGED <<old, last, late, changes>>

Release(c) ==
    /\ conn[c].phase = "held"
    /\ Goto(c, "idle")
    /\ ConnUnchanged /\ UNCHANGED <<ex, used>>

(* After the switch was seen, connections go to the new database. *)
WriteNew(c) ==
    /\ conn[c].isDone /\ used.writes < MaxWrites
    /\ \E r \in Rows, v \in {0, used.writes + 1} :
          /\ new' = [new EXCEPT ![r] = v]
          /\ last' = [last EXCEPT ![r] = v]
          /\ late' = late \ {r} /\ stale' = stale \ {r}
    /\ used' = [used EXCEPT !.writes = @ + 1]
    /\ UNCHANGED <<old, swState, triggers, changes, conn, ex>>

----------------------------------------------------------------------------
(* Executor.Sync                                                           *)

ExecUnchanged == UNCHANGED <<conn, last, late, stale>>

At(e, pc)   == ex[e].pc = pc
Next1(e, pc) == ex' = [ex EXCEPT ![e].pc = pc]

(* ConnLockQuery: the exec lock is tried, not waited for.  A second Sync   *)
(* over a replicator that was never executed is refused.                   *)
SyncBegins(e) ==
    /\ At(e, "off") /\ ~ex[e].rep
    /\ ~ \E d \in Execs : HoldsExecLock(d)
    /\ swState # "use_next_db"
    /\ used.starts < MaxStarts
    /\ used' = [used EXCEPT !.starts = @ + 1]
    /\ Next1(e, "locked")
    /\ ExecUnchanged /\ UNCHANGED <<old, new, swState, triggers, changes>>

DisableChangeLogTriggers ==
    swState' = IF swState = "in_progress" THEN "idle" ELSE swState

ResetDisables(e) ==
    /\ At(e, "locked")
    /\ DisableChangeLogTriggers
    /\ Next1(e, "disabled")
    /\ ExecUnchanged /\ UNCHANGED <<old, new, triggers, changes, used>>

ResetDrops(e) ==
    /\ At(e, "disabled") /\ NoWriters
    /\ triggers' = FALSE /\ changes' = {}
    /\ Next1(e, "dropped")
    /\ ExecUnchanged /\ UNCHANGED <<old, new, swState, used>>

ResetTruncates(e) ==
    /\ At(e, "dropped")
    /\ new' = [r \in Rows |-> 0] /\ stale' = {}
    /\ Next1(e, "truncated")
    /\ UNCHANGED <<old, swState, triggers, changes, conn, last, late, used>>

StartCreates(e) ==
    /\ At(e, "truncated") /\ NoWriters
    /\ triggers' = TRUE
    /\ Next1(e, "created")
    /\ ExecUnchanged /\ UNCHANGED <<old, new, swState, changes, used>>

EnableChangeLogTriggers(e) ==
    /\ At(e, "created")
    /\ swState' = IF swState = "idle" THEN "in_progress" ELSE swState
    /\ Next1(e, "enabled")
    /\ ExecUnchanged /\ UNCHANGED <<old, new, triggers, changes, used>>

(* Transactions older than now may have written without the trigger; a     *)
(* running SWOConnLock is one of them (ActiveTxCount).                     *)
StartReadsNow(e) ==
    /\ At(e, "enabled")
    /\ ex' = [ex EXCEPT ![e].pc = "waiting", ![e].wait = {c \in Conns : InTx(c) \/ conn[c].phase = "check"}]
    /\ ExecUnchanged /\ UNCHANGED <<old, new, swState, triggers, changes, used>>

\* Variant of StartWaits that does not wait for older transactions.
StartWaitsNot(e) ==
    /\ At(e, "waiting")
    /\ Next1(e, "started")
    /\ ExecUnchanged /\ UNCHANGED <<old, new, swState, triggers, changes, used>>

StartWaits(e) ==
    /\ At(e, "waiting") /\ ex[e].wait = {}
    /\ Next1(e, "started")
    /\ ExecUnchanged /\ UNCHANGED <<old, new, swState, triggers, changes, used>>

FullInitialSyncReads(e) ==
    /\ At(e, "started") /\ swState = "in_progress"
    /\ ex' = [ex EXCEPT ![e].pc = "snapshot", ![e].read = old]
    /\ ExecUnchanged /\ UNCHANGED <<old, new, swState, triggers, changes, used>>

(* AddBatchWrites: upserts and deletes, in one transaction. *)
Apply(read) == new' = [r \in Rows |-> IF r \in DOMAIN read THEN read[r] ELSE new[r]]

FullInitialSyncCopies(e) ==
    /\ At(e, "snapshot")
    /\ Apply(ex[e].read)
    /\ ex' = [ex EXCEPT ![e] = [@ EXCEPT !.pc = "sync", !.read = NoRead, !.left = Rounds]]
    /\ ExecUnchanged /\ UNCHANGED <<old, swState, triggers, changes, used>>

----------------------------------------------------------------------------
(* doSync: LogicalSync and FinalSync, and Executor.Exec                    *)

(* The change log and the rows it names, in one snapshot. *)
ReadChanges(e, pc) ==
    ex' = [ex EXCEPT ![e] = [@ EXCEPT !.pc = pc,
              !.ids = {ch.id : ch \in changes},
              !.read = [r \in {ch.row : ch \in changes} |-> old[r]]]]

LogicalSyncReads(e) ==
    /\ (At(e, "sync") \/ At(e, "exec")) /\ ex[e].left > 0 /\ swState = "in_progress"
    /\ ReadChanges(e, IF At(e, "sync") THEN "syncRead" ELSE "execRead")
    /\ ExecUnchanged /\ UNCHANGED <<old, new, swState, triggers, changes, used>>

LogicalSyncApplies(e) ==
    /\ At(e, "syncRead") \/ At(e, "execRead")
    /\ Apply(ex[e].read)
    /\ Next1(e, IF At(e, "syncRead") THEN "syncApplied" ELSE "execApplied")
    /\ ExecUnchanged /\ UNCHANGED <<old, swState, triggers, changes, used>>

\* Variant of ExecDeleteChanges that deletes up to the highest id it read.
ExecDeleteUpTo(e) ==
    changes' = {ch \in changes : \A id \in ex[e].ids : ch.id > id}

ExecDeleteChanges(e) == changes' = {ch \in changes : ch.id \notin ex[e].ids}

LogicalSyncDeletes(e) ==
    /\ At(e, "syncApplied") \/ At(e, "execApplied")
    /\ ExecDeleteChanges(e)
    /\ ex' = [ex EXCEPT ![e] = [@ EXCEPT !.pc = IF At(e, "syncApplied") THEN "sync" ELSE "exec",
                                  !.ids = {}, !.read = NoRead, !.left = ex[e].left - 1]]
    /\ ExecUnchanged /\ UNCHANGED <<old, new, swState, triggers, used>>

SyncEnds(e) ==
    /\ At(e, "sync") /\ ex[e].left = 0
    /\ ex' = [ex EXCEPT ![e].pc = "synced", ![e].rep = TRUE]
    /\ ExecUnchanged /\ UNCHANGED <<old, new, swState, triggers, changes, used>>

(* Exec is called once every member has paused. *)
ExecBegins(e) ==
    /\ At(e, "synced")
    /\ ex' = [ex EXCEPT ![e] = [@ EXCEPT !.pc = "exec", !.rep = FALSE, !.left = Rounds]]
    /\ ExecUnchanged /\ UNCHANGED <<old, new, swState, triggers, changes, used>>

(* txStopTheWorld: the exclusive lock waits for every connection in use. *)
FinalSyncStops(e) ==
    /\ At(e, "exec") /\ ex[e].left = 0 /\ swState = "in_progress"
    /\ \A c \in Conns : ~HoldsShared(c)
    /\ Next1(e, "stopped")
    /\ ExecUnchanged /\ UNCHANGED <<old, new, swState, triggers, changes, used>>

\* Variant of FinalSyncReads that first drains the connections that wait.
FinalSyncReadsDrained(e) ==
    /\ At(e, "stopped") /\ \A c \in Conns : conn[c].phase # "check"
    /\ ReadChanges(e, "finalRead")
    /\ ExecUnchanged /\ UNCHANGED <<old, new, swState, triggers, changes, used>>

FinalSyncReads(e) ==
    /\ At(e, "stopped")
    /\ ReadChanges(e, "finalRead")
    /\ ExecUnchanged /\ UNCHANGED <<old, new, swState, triggers, changes, used>>

FinalSyncApplies(e) ==
    /\ At(e, "finalRead")
    /\ Apply(ex[e].read)
    /\ Next1(e, "finalApplied")
    /\ ExecUnchanged /\ UNCHANGED <<old, swState, triggers, changes, used>>

(* The commit sets the pointer and releases the stop-the-world lock. *)
FinalSyncSwitches(e) ==
    /\ At(e, "finalApplied")
    /\ swState' = IF swState = "in_progress" THEN "use_next_db" ELSE swState
    /\ Next1(e, "switched")
    /\ ExecUnchanged /\ UNCHANGED <<old, new, triggers, changes, used>>

FinalSyncDeletes(e) ==
    /\ At(e, "switched")
    /\ ExecDeleteChanges(e)
    /\ ex' = [ex EXCEPT ![e] = [@ EXCEPT !.pc = "done", !.ids = {}, !.read = NoRead]]
    /\ ExecUnchanged /\ UNCHANGED <<old, new, swState, triggers, used>>

ExecStep(e) ==
    \/ ResetDisables(e) \/ ResetDrops(e) \/ ResetTruncates(e)
    \/ StartCreates(e) \/ EnableChangeLogTriggers(e) \/ StartReadsNow(e) \/ StartWaits(e)
    \/ FullInitialSyncReads(e) \/ FullInitialSyncCopies(e)
    \/ LogicalSyncReads(e) \/ LogicalSyncApplies(e) \/ LogicalSyncDeletes(e) \/ SyncEnds(e)
    \/ FinalSyncStops(e) \/ FinalSyncReads(e) \/ FinalSyncApplies(e)
    \/ FinalSyncSwitches(e) \/ FinalSyncDeletes(e)

----------------------------------------------------------------------------
(* Failure, cancellation and reset                                         *)

Ended(e) == [ex[e] EXCEPT !.pc = "off", !.wait = {}, !.ids = {}, !.read = NoRead, !.left = 0]

(* Any step may fail or be cancelled: WithFunc closes both connections,    *)
(* and with them go the open transaction and the locks.                    *)
Cancel(e) ==
    /\ ~At(e, "off")
    /\ ex' = [ex EXCEPT ![e] = Ended(e)]
    /\ ExecUnchanged /\ UNCHANGED <<old, new, swState, triggers, changes, used>>

(* The process ends and another one takes its place. *)
Crash(e) ==
    /\ ~At(e, "off") \/ ex[e].rep
    /\ ex' = [ex EXCEPT ![e] = [Ended(e) EXCEPT !.rep = FALSE]]
    /\ ExecUnchanged /\ UNCHANGED <<old, new, swState, triggers, changes, used>>

(* The server ends the session of an executor that stalled in its          *)
(* transaction (idle_in_transaction_session_timeout); it will still send   *)
(* to the new database what it had read.                                   *)
Stall(e) ==
    /\ ex[e].pc \in {"syncRead", "execRead", "finalRead"} /\ used.stalls < MaxStalls
    /\ used' = [used EXCEPT !.stalls = @ + 1]
    /\ Next1(e, "stalled")
    /\ ExecUnchanged /\ UNCHANGED <<old, new, swState, triggers, changes>>

StalledApplies(e) ==
    /\ At(e, "stalled")
    /\ Apply(ex[e].read)
    /\ stale' = IF swState = "use_next_db" \/ \E d \in Execs : HoldsExecLock(d)
                THEN stale \cup DOMAIN ex[e].read ELSE stale
    /\ ex' = [ex EXCEPT ![e] = Ended(e)]
    /\ UNCHANGED <<old, swState, triggers, changes, conn, last, late, used>>

(* Manager.Reset, between its cancel and its reset message: it waits for   *)
(* the exec lock (ConnWaitLockQuery).                                      *)
ManagerReset ==
    /\ ~ \E e \in Execs : HoldsExecLock(e)
    /\ swState = "in_progress"
    /\ DisableChangeLogTriggers
    /\ ExecUnchanged /\ UNCHANGED <<old, new, triggers, changes, ex, used>>

Next ==
    \/ \E c \in Conns : \/ Acquire(c) \/ ConnLocked(c) \/ BeginTx(c) \/ Write(c)
                        \/ Commit(c) \/ Rollback(c) \/ Release(c) \/ WriteNew(c)
    \/ \E e \in Execs : \/ SyncBegins(e) \/ ExecStep(e) \/ ExecBegins(e)
                        \/ Cancel(e) \/ Crash(e) \/ Stall(e) \/ StalledApplies(e)
    \/ ManagerReset

(* The statements of an executor end, if only by their timeouts. *)
Fairness ==
    /\ \A c \in Conns : WF_vars(ConnLocked(c))
    /\ \A e \in Execs : WF_vars(ExecStep(e))

Spec == Init /\ [][Next]_vars /\ Fairness

----------------------------------------------------------------------------
(* Properties                                                              *)

Phases == {"idle", "check", "held", "open", "wrote"}
PCs == {"off", "locked", "disabled", "dropped", "truncated", "created", "enabled", "waiting",
        "started", "snapshot", "sync", "syncRead", "syncApplied", "synced", "exec",
        "execRead", "execApplied", "stopped", "finalRead", "finalApplied", "switched",
        "done", "stalled"}
SwStates == {"idle", "in_progress", "use_next_db"}
Partial  == UNION {[D -> Values] : D \in SUBSET Rows}

(* Type correctness of the two databases, the connections and executors. *)
SyncTypeOK ==
    /\ old \in [Rows -> Values] /\ new \in [Rows -> Values] /\ last \in [Rows -> Values]
    /\ swState \in SwStates /\ triggers \in BOOLEAN
    /\ changes \subseteq [id : 1..MaxWrites, row : Rows]
    /\ late \subseteq Rows /\ stale \subseteq Rows
    /\ conn \in [Conns -> [phase : Phases, saw : SwStates, isDone : BOOLEAN, id : Values,
                           row : Rows, val : Values, logged : BOOLEAN]]
    /\ ex \in [Execs -> [pc : PCs, rep : BOOLEAN, wait : SUBSET Conns, ids : SUBSET (1..MaxWrites),
                         read : Partial, left : 0..Rounds]]
    /\ used \in [writes : Values, starts : 0..MaxStarts, stalls : 0..MaxStalls]

CurrentDB == IF swState = "use_next_db" THEN new ELSE old

(***************************************************************************)
(* Whatever is cancelled, crashes or fails and whenever the switch comes,  *)
(* the database in charge holds the last committed value of every row,     *)
(* except in two cases: a row last written through a connection that was   *)
(* still given out for the old database after the switch (see              *)
(* NoLostWrite), and a row that a stalled executor, whose lock the server  *)
(* took away, wrote over while another executor synchronised or after the  *)
(* switch.                                                                 *)
(***************************************************************************)
LostOnlyLate == SyncTypeOK /\ \A r \in Rows \ (late \cup stale) : CurrentDB[r] = last[r]

(***************************************************************************)
(* Once the first copy is taken, the new database differs from the old one *)
(* only in rows that the change log still names, so that a later sync will *)
(* repair them: no change falls between the trigger, the snapshot and the  *)
(* deletion of the log (doSync deletes what it read, after the apply).     *)
(* Only rows that a stalled executor wrote over meanwhile are not tracked. *)
(***************************************************************************)
RowsTracked ==
    \A e \in Execs, r \in Rows \ stale :
        /\ ex[e].pc \in {"sync", "syncRead", "syncApplied", "synced",
                         "exec", "execRead", "execApplied", "stopped", "finalRead"}
        /\ new[r] # old[r]
        => \E ch \in changes : ch.row = r

(***************************************************************************)
(* A connection that waits for the stop-the-world lock gets through, to    *)
(* the old or to the new database: the lock is always released.            *)
(***************************************************************************)
AcquireEnds ==
    \A c \in Conns : conn[c].phase = "check" ~> conn[c].phase # "check"

(***************************************************************************)
(* After the stop-the-world lock is released, all queries go to the new    *)
(* database: the last committed write of every row is in the database in   *)
(* charge (swo/README.md).                                                 *)
(***************************************************************************)
NoLostWrite == \A r \in Rows : CurrentDB[r] = last[r]
=============================================================================
