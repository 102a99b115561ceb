------------------------------ MODULE SwoProofs ------------------------------
(***************************************************************************)
(* Proofs about the switchover: about SwoSync, for any connections, rows,  *)
(* rounds and numbers of writes, synchronisations and stalls, and about    *)
(* SwoGroup, for any nodes, messages, requests, crashes and losses.  The   *)
(* two modules share no state: a theorem speaks of the one whose           *)
(* specification it names, Spec or GroupSpec.                              *)
(***************************************************************************)
EXTENDS SwoSync, SwoGroup, SequenceTheorems, TLAPS


----------------------------------------------------------------------------
(* The inductive invariant                                                 *)

(* SyncTypeOK in parts. *)
Conn == [phase : Phases, saw : SwStates, isDone : BOOLEAN, id : Values,
         row : Rows, val : Values, logged : BOOLEAN]
Exec == [pc : PCs, rep : BOOLEAN, wait : SUBSET Conns, ids : SUBSET (1..MaxWrites),
         read : Partial, left : 0..Rounds]

DataTypes ==
    /\ old \in [Rows -> Values] /\ new \in [Rows -> Values] /\ last \in [Rows -> Values]
    /\ swState \in SwStates /\ triggers \in BOOLEAN
    /\ changes \subseteq [id : 1..MaxWrites, row : Rows]
    /\ late \subseteq Rows /\ stale \subseteq Rows
    /\ used \in [writes : Values, starts : 0..MaxStarts, stalls : 0..MaxStalls]
ConnTypes == conn \in [Conns -> Conn]
ExecTypes == ex \in [Execs -> Exec]

(* One executor at most holds the exec lock, and while one does the switch *)
(* has not come, unless by itself; others may be stalled.                  *)
LockInv ==
    /\ \A d, e \in Execs : HoldsExecLock(d) /\ HoldsExecLock(e) => d = e
    /\ swState = "use_next_db" => \A e \in Execs : ex[e].pc \in {"off", "switched", "done", "stalled"}

(* The trigger and the state that it reads, by where the executor stands. *)
Resetting == {"disabled", "dropped", "truncated", "created"}
Tracking  == {"started", "snapshot", "sync", "syncRead", "syncApplied", "synced", "exec",
              "execRead", "execApplied", "stopped", "finalRead", "finalApplied"}
PhaseInv ==
    \A e \in Execs :
        /\ ex[e].pc \in Resetting => swState = "idle"
        /\ ex[e].pc \in {"enabled", "waiting"} \cup Tracking => swState = "in_progress"
        /\ ex[e].pc \in {"created", "enabled", "waiting"} \cup Tracking => triggers

(* Connections go to the new database only after the switch. *)
ConnInv == \A c \in Conns : conn[c].isDone \/ conn[c].saw = "use_next_db" => swState = "use_next_db"

(* Writes are numbered; the number of an open one is nowhere else. *)
Wrote(c) == conn[c].phase = "wrote"
IdInv ==
    /\ \A ch \in changes : ch.id <= used.writes
    /\ \A e \in Execs : \A i \in ex[e].ids : i <= used.writes
    /\ \A c \in Conns : Wrote(c) =>
          /\ conn[c].id \in 1..used.writes
          /\ \A ch \in changes : ch.id # conn[c].id
          /\ \A e \in Execs : conn[c].id \notin ex[e].ids
          /\ \A d \in Conns \ {c} : Wrote(d) => conn[d].id # conn[c].id

(* An open write without an entry is one that the executor waits for. *)
LogInv ==
    \A e \in Execs, c \in Conns :
        Wrote(c) /\ ~conn[c].logged =>
            /\ ex[e].pc \notin Tracking
            /\ ex[e].pc = "waiting" => c \in ex[e].wait

(* While the world is stopped no connection is in use. *)
StopInv == \A e \in Execs : StopsTheWorld(e) => \A c \in Conns : ~HoldsShared(c)

(* The change log names row r, in an entry that is not in ids; what the    *)
(* row will be once the executor has applied what it read.                 *)
Named(r, ids) == \E ch \in changes : ch.row = r /\ ch.id \notin ids
Applied(e, r) == IF r \in DOMAIN ex[e].read THEN ex[e].read[r] ELSE new[r]

(* Every row that differs, or will after the apply, is named by an entry   *)
(* that the executor will not delete, unless a stalled one wrote it.       *)
TrackInv ==
    \A e \in Execs, r \in Rows \ stale :
        /\ At(e, "snapshot") =>
              r \in DOMAIN ex[e].read /\ (ex[e].read[r] # old[r] => Named(r, {}))
        /\ ex[e].pc \in {"sync", "synced", "exec", "stopped", "syncApplied", "execApplied"} =>
              (new[r] # old[r] => Named(r, ex[e].ids))
        /\ ex[e].pc \in {"syncRead", "execRead", "finalRead"} =>
              (new[r] # old[r] => Named(r, {}))
        /\ ex[e].pc \in {"syncRead", "execRead"} =>
              (Applied(e, r) # old[r] => Named(r, ex[e].ids))
        /\ At(e, "finalRead") => Applied(e, r) = old[r]
        /\ At(e, "finalApplied") => new[r] = old[r]

(* A logical sync that runs is one of those that are left, and only one    *)
(* that read the change log has entries to delete.                         *)
LogicalSync == {"syncRead", "syncApplied", "execRead", "execApplied"}
ReadInv ==
    \A e \in Execs :
        /\ ex[e].pc \in LogicalSync => ex[e].left > 0
        /\ ex[e].pc \notin LogicalSync \cup {"finalRead", "finalApplied", "switched", "stalled"} =>
              ex[e].ids = {}

(* The database in charge has the last value of every row but the late and *)
(* the stale ones.                                                         *)
LastInv ==
    /\ swState # "use_next_db" => last = old /\ late = {}
    /\ swState = "use_next_db" => \A r \in Rows \ (late \cup stale) : new[r] = last[r]

IInv ==
    /\ DataTypes /\ ConnTypes /\ ExecTypes /\ LockInv /\ PhaseInv /\ ConnInv /\ IdInv
    /\ LogInv /\ StopInv /\ ReadInv /\ TrackInv /\ LastInv

----------------------------------------------------------------------------
(* Records of the right type                                               *)

LEMMA Naturals ==
    MaxWrites \in Nat /\ MaxStarts \in Nat /\ MaxStalls \in Nat /\ Rounds \in Nat \ {0}
BY SyncAssumption

LEMMA ReadTypes ==
    /\ NoRead \in Partial
    /\ \A D \in SUBSET Rows : [D -> Values] \subseteq Partial
    /\ \A f \in Partial : \A r \in DOMAIN f : f[r] \in Values
BY DEF Partial, NoRead

LEMMA ExecMoves ==
    ASSUME ExecTypes, NEW e \in Execs, NEW pc \in PCs, ex' = [ex EXCEPT ![e].pc = pc]
    PROVE  ExecTypes'
BY DEF ExecTypes, Exec

LEMMA ExecSet ==
    ASSUME ExecTypes, NEW e \in Execs, NEW x \in Exec, ex' = [ex EXCEPT ![e] = x]
    PROVE  ExecTypes'
BY DEF ExecTypes

LEMMA ConnMoves ==
    ASSUME ConnTypes, NEW c \in Conns, NEW phase \in Phases, conn' = [conn EXCEPT ![c].phase = phase]
    PROVE  ConnTypes'
BY DEF ConnTypes, Conn

LEMMA ConnSet ==
    ASSUME ConnTypes, NEW c \in Conns, NEW x \in Conn, conn' = [conn EXCEPT ![c] = x]
    PROVE  ConnTypes'
BY DEF ConnTypes

LEMMA ReleasedType == \A b \in BOOLEAN : Released(b) \in Conn
<1>1. (CHOOSE r \in Rows : TRUE) \in Rows
  BY SyncAssumption
<1>2. "idle" \in Phases /\ "idle" \in SwStates /\ 0 \in Values
  BY Naturals DEF Phases, SwStates, Values
<1> QED BY <1>1, <1>2 DEF Released, Conn

LEMMA EndedType == ASSUME ExecTypes, NEW e \in Execs PROVE Ended(e) \in Exec
<1>1. ex[e] \in Exec /\ "off" \in PCs /\ {} \in SUBSET Conns /\ {} \in SUBSET (1..MaxWrites)
  BY DEF ExecTypes, PCs
<1>2. NoRead \in Partial /\ 0 \in 0..Rounds
  BY ReadTypes, Naturals
<1> QED BY <1>1, <1>2 DEF Ended, Exec

(* What the end of a transaction does to the connection and the executors. *)
LEMMA EndTxEffect ==
    ASSUME ExecTypes, ConnTypes, NEW c \in Conns, EndTx(c)
    PROVE  /\ \A e \in Execs :
                 /\ ex'[e].pc = ex[e].pc /\ ex'[e].ids = ex[e].ids /\ ex'[e].read = ex[e].read
                 /\ ex'[e].left = ex[e].left /\ ex'[e].wait = ex[e].wait \ {c}
           /\ conn'[c].phase = "idle" /\ conn'[c].saw = "idle" /\ conn'[c].isDone = FALSE
           /\ \A d \in Conns \ {c} : conn'[d] = conn[d]
<1>1. \A e \in Execs : ex[e] \in Exec /\ ex'[e] = [ex[e] EXCEPT !.wait = ex[e].wait \ {c}]
  BY DEF ExecTypes, EndTx, NoLongerAwaited
<1>2. \A e \in Execs :
          /\ ex'[e].pc = ex[e].pc /\ ex'[e].ids = ex[e].ids /\ ex'[e].read = ex[e].read
          /\ ex'[e].left = ex[e].left /\ ex'[e].wait = ex[e].wait \ {c}
  BY <1>1 DEF Exec
<1>3. conn'[c] = Released(FALSE) /\ \A d \in Conns \ {c} : conn'[d] = conn[d]
  BY DEF ConnTypes, EndTx, NoLongerAwaited
<1> QED BY <1>2, <1>3 DEF Released

----------------------------------------------------------------------------
(* The steps preserve the invariant                                        *)

Stutter == UNCHANGED vars

LEMMA AcquireIInv ==
  ASSUME IInv, NEW c \in Conns, Acquire(c)
  PROVE  IInv'
<1>1. DataTypes'
  BY DEF IInv, Acquire, DataTypes, ConnUnchanged
<1>2. ConnTypes'
  <2>1. /\ conn[c] \in Conn /\ "check" \in Phases /\ swState \in SwStates
    BY DEF IInv, ConnTypes, DataTypes, Phases
  <2>2. [conn[c] EXCEPT !.phase = "check", !.saw = swState] \in Conn
    BY <2>1 DEF Conn
  <2>3. conn' = [conn EXCEPT ![c] = [conn[c] EXCEPT !.phase = "check", !.saw = swState]]
    BY DEF Acquire
  <2> QED BY <2>2, <2>3, ConnSet DEF IInv
<1>3. ExecTypes'
  BY DEF IInv, Acquire, ExecTypes
<1>4. LockInv'
  BY DEF IInv, Acquire, LockInv, ConnUnchanged, At, HoldsExecLock
<1>5. PhaseInv'
  BY DEF IInv, Acquire, PhaseInv, ConnUnchanged
<1>6. ConnInv'
  BY DEF IInv, Acquire, ConnTypes, ConnInv, ConnUnchanged
<1>7. IdInv'
  BY DEF IInv, Acquire, ConnTypes, IdInv, ConnUnchanged, Wrote
<1>8. LogInv'
  BY DEF IInv, Acquire, ConnTypes, LogInv, Wrote
<1>9. StopInv'
  BY DEF IInv, Acquire, ConnTypes, StopInv, StopsTheWorld, HoldsShared
<1>10. ReadInv'
  BY DEF IInv, Acquire, ReadInv
<1>11. TrackInv'
  BY DEF IInv, Acquire, TrackInv, ConnUnchanged, At, Named, Applied
<1>12. LastInv'
  BY DEF IInv, Acquire, LastInv, ConnUnchanged
<1> QED BY <1>1, <1>2, <1>3, <1>4, <1>5, <1>6, <1>7, <1>8, <1>9, <1>10, <1>11, <1>12 DEF IInv

LEMMA ConnLockedIInv ==
  ASSUME IInv, NEW c \in Conns, ConnLocked(c)
  PROVE  IInv'
<1>0. \A e \in Execs :
          /\ ex'[e].pc = ex[e].pc /\ ex'[e].ids = ex[e].ids /\ ex'[e].read = ex[e].read
          /\ ex'[e].left = ex[e].left /\ ex'[e].wait = ex[e].wait \ {c}
  <2>1. \A e \in Execs : ex[e] \in Exec /\ ex'[e] = [ex[e] EXCEPT !.wait = ex[e].wait \ {c}]
    BY DEF IInv, ExecTypes, ConnLocked, NoLongerAwaited
  <2> QED BY <2>1 DEF Exec
<1>1. DataTypes'
  BY DEF IInv, ConnLocked, DataTypes, ConnUnchanged
<1>2. ConnTypes'
  <2>1. Released(TRUE) \in Conn /\ Released(FALSE) \in Conn /\ "held" \in Phases
    BY ReleasedType DEF Phases
  <2>2. [Released(FALSE) EXCEPT !.phase = "held"] \in Conn
    BY <2>1 DEF Conn
  <2> QED BY <2>1, <2>2, ConnSet DEF IInv, ConnLocked
<1>3. ExecTypes'
  BY DEF IInv, ConnLocked, NoLongerAwaited, ExecTypes, Exec
<1>4. LockInv'
  BY <1>0 DEF IInv, ConnLocked, LockInv, ConnUnchanged, At, HoldsExecLock
<1>5. PhaseInv'
  BY <1>0 DEF IInv, ConnLocked, PhaseInv, ConnUnchanged
<1>6. ConnInv'
  <2>1. \A d \in Conns \ {c} : conn'[d] = conn[d]
    BY DEF ConnLocked, IInv, ConnTypes
  <2>2. swState' = swState
    BY DEF ConnLocked, ConnUnchanged
  <2>3. CASE conn[c].saw = "use_next_db"
    BY <2>1, <2>2, <2>3 DEF IInv, ConnInv
  <2>4. CASE conn[c].saw # "use_next_db"
    <3>1. conn'[c] = [Released(FALSE) EXCEPT !.phase = "held"]
      BY <2>4 DEF ConnLocked, IInv, ConnTypes
    <3>2. conn'[c].isDone = FALSE /\ conn'[c].saw = "idle"
      BY <3>1 DEF Released
    <3> QED BY <2>1, <2>2, <3>2 DEF IInv, ConnInv
  <2> QED BY <2>3, <2>4
<1>7. IdInv'
  <2>1. \A d \in Conns \ {c} : conn'[d] = conn[d]
    BY DEF ConnLocked, IInv, ConnTypes
  <2>2. conn'[c].phase # "wrote"
    <3>1. conn'[c] \in {Released(TRUE), [Released(FALSE) EXCEPT !.phase = "held"]}
      BY DEF ConnLocked, IInv, ConnTypes
    <3>2. /\ Released(TRUE).phase = "idle"
          /\ [Released(FALSE) EXCEPT !.phase = "held"].phase = "held"
      BY DEF Released
    <3> QED BY <3>1, <3>2
  <2>3. UNCHANGED <<changes, used>>
    BY DEF ConnLocked, ConnUnchanged
  <2> QED BY <1>0, <2>1, <2>2, <2>3 DEF IInv, IdInv, Wrote
<1>8. LogInv'
  BY <1>0 DEF IInv, ConnLocked, ConnTypes, LogInv, Released, Wrote
<1>9. StopInv'
  BY <1>0 DEF ConnLocked, StopInv, StopsTheWorld
<1>10. ReadInv'
  BY <1>0 DEF IInv, ConnLocked, ReadInv
<1>11. TrackInv'
  BY <1>0 DEF IInv, ConnLocked, TrackInv, ConnUnchanged, At, Named, Applied
<1>12. LastInv'
  BY DEF IInv, ConnLocked, LastInv, ConnUnchanged
<1> QED BY <1>1, <1>2, <1>3, <1>4, <1>5, <1>6, <1>7, <1>8, <1>9, <1>10, <1>11, <1>12 DEF IInv

LEMMA BeginTxIInv ==
  ASSUME IInv, NEW c \in Conns, BeginTx(c)
  PROVE  IInv'
<1>1. DataTypes'
  BY DEF IInv, BeginTx, DataTypes, ConnUnchanged
<1>2. ConnTypes'
  BY ConnMoves DEF IInv, BeginTx, Goto, Phases
<1>3. ExecTypes'
  BY DEF IInv, BeginTx, ExecTypes
<1>4. LockInv'
  BY DEF IInv, BeginTx, LockInv, ConnUnchanged, At, HoldsExecLock
<1>5. PhaseInv'
  BY DEF IInv, BeginTx, PhaseInv, ConnUnchanged
<1>6. ConnInv'
  BY DEF IInv, BeginTx, ConnInv, ConnUnchanged, Goto
<1>7. IdInv'
  BY DEF IInv, BeginTx, IdInv, ConnUnchanged, Goto, Wrote
<1>8. LogInv'
  BY DEF IInv, BeginTx, LogInv, Goto, Wrote
<1>9. StopInv'
  BY DEF IInv, BeginTx, StopInv, StopsTheWorld, HoldsShared
<1>10. ReadInv'
  BY DEF IInv, BeginTx, ReadInv
<1>11. TrackInv'
  BY DEF IInv, BeginTx, TrackInv, ConnUnchanged, At, Named, Applied
<1>12. LastInv'
  BY DEF IInv, BeginTx, LastInv, ConnUnchanged
<1> QED BY <1>1, <1>2, <1>3, <1>4, <1>5, <1>6, <1>7, <1>8, <1>9, <1>10, <1>11, <1>12 DEF IInv

LEMMA WriteIInv ==
  ASSUME IInv, NEW c \in Conns, Write(c)
  PROVE  IInv'
<1>1. DataTypes'
  <2>1. used' \in [writes : Values, starts : 0..MaxStarts, stalls : 0..MaxStalls]
    BY Naturals DEF IInv, DataTypes, Write, Values
  <2> QED BY <2>1 DEF IInv, DataTypes, Write, ConnUnchanged
<1>2. ConnTypes'
  <2>1. PICK r \in Rows, v \in {0, used.writes + 1} :
            conn' = [conn EXCEPT ![c] = [conn[c] EXCEPT !.phase = "wrote", !.id = used.writes + 1,
                        !.row = r, !.val = v, !.logged = triggers /\ swState = "in_progress"]]
    BY DEF Write
  <2> DEFINE logged == triggers /\ swState = "in_progress"
             x == [conn[c] EXCEPT !.phase = "wrote", !.id = used.writes + 1,
                                  !.row = r, !.val = v, !.logged = logged]
  <2>2. /\ conn[c] \in Conn /\ "wrote" \in Phases
        /\ used.writes + 1 \in Values /\ v \in Values
    BY Naturals DEF IInv, ConnTypes, DataTypes, Phases, Values, Write
  <2>3. logged \in BOOLEAN
    OBVIOUS
  <2>4. conn' = [conn EXCEPT ![c] = x]
    BY <2>1
  <2> HIDE DEF logged
  <2>5. x \in Conn
    BY <2>2, <2>3 DEF Conn
  <2> HIDE DEF x
  <2> QED BY <2>4, <2>5, ConnSet DEF IInv
<1>3. ExecTypes'
  BY DEF IInv, Write, ExecTypes
<1>4. LockInv'
  BY DEF IInv, Write, LockInv, ConnUnchanged, At, HoldsExecLock
<1>5. PhaseInv'
  BY DEF IInv, Write, PhaseInv, ConnUnchanged
<1>6. ConnInv'
  BY DEF IInv, Write, ConnInv, ConnUnchanged
<1>7. IdInv'
  <2>1. PICK r \in Rows, v \in {0, used.writes + 1} :
            conn' = [conn EXCEPT ![c] = [conn[c] EXCEPT !.phase = "wrote", !.id = used.writes + 1,
                        !.row = r, !.val = v, !.logged = triggers /\ swState = "in_progress"]]
    BY DEF Write
  <2>2. used.writes \in Nat /\ used'.writes = used.writes + 1
    BY Naturals DEF IInv, DataTypes, Values, Write
  <2>3. \A d \in Conns \ {c} : conn'[d] = conn[d]
    BY <2>1 DEF IInv, ConnTypes
  <2>4. conn'[c].id = used.writes + 1
    BY <2>1 DEF IInv, ConnTypes, Conn
  <2>5. changes' = changes /\ ex' = ex
    BY DEF Write, ConnUnchanged
  <2>6. /\ \A ch \in changes : ch.id \in Nat
        /\ \A e \in Execs : ex[e].ids \subseteq Nat
        /\ \A d \in Conns : conn[d].id \in Nat
    BY DEF IInv, DataTypes, ConnTypes, ExecTypes, Conn, Exec, Values
  <2> QED BY <2>2, <2>3, <2>4, <2>5, <2>6 DEF IInv, IdInv, Wrote
<1>8. LogInv'
  BY DEF IInv, Write, DataTypes, PhaseInv, LogInv, Wrote
<1>9. StopInv'
  BY DEF IInv, Write, StopInv, StopsTheWorld, HoldsShared
<1>10. ReadInv'
  BY DEF IInv, Write, ReadInv
<1>11. TrackInv'
  BY DEF IInv, Write, TrackInv, ConnUnchanged, At, Named, Applied
<1>12. LastInv'
  BY DEF IInv, Write, LastInv, ConnUnchanged
<1> QED BY <1>1, <1>2, <1>3, <1>4, <1>5, <1>6, <1>7, <1>8, <1>9, <1>10, <1>11, <1>12 DEF IInv

LEMMA CommitIInv ==
  ASSUME IInv, NEW c \in Conns, Commit(c)
  PROVE  IInv'
<1>1. DataTypes'
  <2> DEFINE r  == conn[c].row
             ch == [id |-> conn[c].id, row |-> r]
  <2>1. r \in Rows /\ conn[c].val \in Values
    BY DEF IInv, ConnTypes, Conn
  <2>2. used.writes \in 0..MaxWrites
    BY DEF IInv, DataTypes, Values
  <2>3. ch \in [id : 1..MaxWrites, row : Rows]
    BY <2>1, <2>2, Naturals DEF IInv, IdInv, Wrote, Commit
  <2>4. /\ old' = [old EXCEPT ![r] = conn[c].val] /\ last' = [last EXCEPT ![r] = conn[c].val]
        /\ late' \in {late, late \cup {r}} /\ changes' \in {changes, changes \cup {ch}}
        /\ UNCHANGED <<new, swState, triggers, stale, used>>
    BY DEF Commit, EndTx
  <2> HIDE DEF r, ch
  <2> QED BY <2>1, <2>3, <2>4 DEF IInv, DataTypes
<1>2. ConnTypes'
  <2>1. Released(FALSE) \in Conn
    BY ReleasedType
  <2> QED BY <2>1, ConnSet DEF IInv, Commit, EndTx, NoLongerAwaited
<1>3. ExecTypes'
  <2>1. \A e \in Execs : ex[e] \in Exec
    BY DEF IInv, ExecTypes
  <2>2. \A e \in Execs : [ex[e] EXCEPT !.wait = ex[e].wait \ {c}] \in Exec
    BY <2>1 DEF Exec
  <2>3. ex' = [e \in Execs |-> [ex[e] EXCEPT !.wait = ex[e].wait \ {c}]]
    BY DEF Commit, EndTx, NoLongerAwaited
  <2> QED BY <2>2, <2>3 DEF ExecTypes
<1>4. LockInv'
  BY DEF IInv, Commit, ExecTypes, LockInv, EndTx, NoLongerAwaited, At, HoldsExecLock, Exec
<1>5. PhaseInv'
  BY DEF IInv, Commit, ExecTypes, PhaseInv, EndTx, NoLongerAwaited, Exec
<1>6. ConnInv'
  BY DEF IInv, Commit, ConnInv, EndTx, NoLongerAwaited, Released
<1>7. IdInv'
  <2>1. /\ \A e \in Execs :
              /\ ex'[e].pc = ex[e].pc /\ ex'[e].ids = ex[e].ids /\ ex'[e].read = ex[e].read
              /\ ex'[e].left = ex[e].left /\ ex'[e].wait = ex[e].wait \ {c}
        /\ conn'[c].phase = "idle" /\ conn'[c].saw = "idle" /\ conn'[c].isDone = FALSE
        /\ \A d \in Conns \ {c} : conn'[d] = conn[d]
    BY EndTxEffect DEF IInv, Commit
  <2>2. /\ changes' \in {changes, changes \cup {[id |-> conn[c].id, row |-> conn[c].row]}}
        /\ used' = used /\ Wrote(c)
    BY DEF Commit, EndTx, NoLongerAwaited, Wrote
  <2>3. used.writes \in Nat /\ conn[c].id \in 1..used.writes
    BY <2>2, Naturals DEF IInv, DataTypes, Values, IdInv
  <2>4. \A ch \in changes' : ch \in changes \/ ch.id = conn[c].id
    BY <2>2
  <2> QED BY <2>1, <2>2, <2>3, <2>4 DEF IInv, IdInv, Wrote
<1>8. LogInv'
  BY DEF IInv, Commit, ConnTypes, ExecTypes, LogInv, EndTx, NoLongerAwaited, Released, Exec, Wrote
<1>9. StopInv'
  BY DEF IInv, Commit, ExecTypes, StopInv, EndTx, NoLongerAwaited, StopsTheWorld, HoldsShared, Exec
<1>10. ReadInv'
  <2>1. /\ \A e \in Execs :
              /\ ex'[e].pc = ex[e].pc /\ ex'[e].ids = ex[e].ids /\ ex'[e].read = ex[e].read
              /\ ex'[e].left = ex[e].left /\ ex'[e].wait = ex[e].wait \ {c}
        /\ conn'[c].phase = "idle" /\ conn'[c].saw = "idle" /\ conn'[c].isDone = FALSE
        /\ \A d \in Conns \ {c} : conn'[d] = conn[d]
    BY EndTxEffect DEF IInv, Commit
  <2> QED BY <2>1 DEF IInv, ReadInv, LogicalSync
<1>11. TrackInv'
  <2>1. /\ \A e \in Execs :
              /\ ex'[e].pc = ex[e].pc /\ ex'[e].ids = ex[e].ids /\ ex'[e].read = ex[e].read
              /\ ex'[e].left = ex[e].left /\ ex'[e].wait = ex[e].wait \ {c}
        /\ conn'[c].phase = "idle" /\ conn'[c].saw = "idle" /\ conn'[c].isDone = FALSE
        /\ \A d \in Conns \ {c} : conn'[d] = conn[d]
    BY EndTxEffect DEF IInv, Commit
  <2>2. PICK r \in Rows : r = conn[c].row
    BY DEF IInv, ConnTypes, Conn
  <2> DEFINE ch == [id |-> conn[c].id, row |-> r]
  <2>3. /\ new' = new /\ stale' = stale /\ Wrote(c)
        /\ \A q \in Rows \ {r} : old'[q] = old[q]
        /\ changes \subseteq changes' /\ (conn[c].logged => ch \in changes')
    BY <2>2 DEF Commit, EndTx, Wrote, IInv, DataTypes
  <2>4. \A e \in Execs : conn[c].id \notin ex[e].ids /\ ~StopsTheWorld(e)
    BY <2>3 DEF IInv, IdInv, StopInv, HoldsShared, Wrote
  <2>5. \A e \in Execs : ex[e].pc \in Tracking => conn[c].logged
    BY <2>3 DEF IInv, LogInv
  <2>6. ASSUME NEW e \in Execs, ex[e].pc \in Tracking
        PROVE  Named(r, {})' /\ Named(r, ex[e].ids)'
    <3>1. ch \in changes'
      BY <2>3, <2>5, <2>6
    <3>2. ch.row = r /\ ch.id = conn[c].id /\ conn[c].id \notin ex'[e].ids
      BY <2>1, <2>4
    <3> HIDE DEF ch
    <3> QED BY <3>1, <3>2 DEF Named
  <2>7. ASSUME NEW e \in Execs, NEW q \in Rows
        PROVE  /\ Named(q, {}) => Named(q, {})'
               /\ Named(q, ex[e].ids) => Named(q, ex[e].ids)'
    BY <2>1, <2>3 DEF Named
  <2> HIDE DEF ch
  <2>8. ASSUME NEW e \in Execs, NEW q \in Rows \ stale
        PROVE  /\ ex[e].pc = "snapshot" =>
                     /\ q \in DOMAIN ex[e].read
                     /\ ex[e].read[q] # old'[q] => Named(q, {})'
               /\ ex[e].pc \in {"sync", "synced", "exec", "stopped", "syncApplied", "execApplied"} =>
                     (new[q] # old'[q] => Named(q, ex[e].ids)')
               /\ ex[e].pc \in {"syncRead", "execRead", "finalRead"} =>
                     (new[q] # old'[q] => Named(q, {})')
               /\ ex[e].pc \in {"syncRead", "execRead"} =>
                     (Applied(e, q) # old'[q] => Named(q, ex[e].ids)')
    <3>1. CASE q = r
      BY <2>6, <3>1 DEF IInv, TrackInv, At, Tracking
    <3>2. CASE q # r
      BY <2>3, <2>7, <3>2 DEF IInv, TrackInv, At
    <3> QED BY <3>1, <3>2
  <2>9. \A e \in Execs, q \in Rows : Applied(e, q)' = Applied(e, q)
    BY <2>1, <2>3 DEF Applied
  <2> QED BY <2>1, <2>3, <2>4, <2>8, <2>9 DEF TrackInv, At, StopsTheWorld
<1>12. LastInv'
  <2> DEFINE r == conn[c].row
  <2>1. /\ old' = [old EXCEPT ![r] = conn[c].val] /\ last' = [last EXCEPT ![r] = conn[c].val]
        /\ late' = (IF swState = "use_next_db" THEN late \cup {r} ELSE late)
        /\ new' = new /\ swState' = swState /\ stale' = stale
    BY DEF Commit, EndTx
  <2> QED BY <2>1 DEF IInv, LastInv, DataTypes
<1> QED BY <1>1, <1>2, <1>3, <1>4, <1>5, <1>6, <1>7, <1>8, <1>9, <1>10, <1>11, <1>12 DEF IInv

LEMMA RollbackIInv ==
  ASSUME IInv, NEW c \in Conns, Rollback(c)
  PROVE  IInv'
<1>1. DataTypes'
  BY DEF IInv, Rollback, DataTypes, EndTx, NoLongerAwaited
<1>2. ConnTypes'
  <2>1. Released(FALSE) \in Conn
    BY ReleasedType
  <2> QED BY <2>1, ConnSet DEF IInv, Rollback, EndTx, NoLongerAwaited
<1>3. ExecTypes'
  <2>1. \A e \in Execs : ex[e] \in Exec
    BY DEF IInv, ExecTypes
  <2>2. \A e \in Execs : [ex[e] EXCEPT !.wait = ex[e].wait \ {c}] \in Exec
    BY <2>1 DEF Exec
  <2>3. ex' = [e \in Execs |-> [ex[e] EXCEPT !.wait = ex[e].wait \ {c}]]
    BY DEF Rollback, EndTx, NoLongerAwaited
  <2> QED BY <2>2, <2>3 DEF ExecTypes
<1>4. LockInv'
  BY DEF IInv, Rollback, ExecTypes, LockInv, EndTx, NoLongerAwaited, At, HoldsExecLock, Exec
<1>5. PhaseInv'
  BY DEF IInv, Rollback, ExecTypes, PhaseInv, EndTx, NoLongerAwaited, Exec
<1>6. ConnInv'
  BY DEF IInv, Rollback, ConnInv, EndTx, NoLongerAwaited, Released
<1>7. IdInv'
  <2>1. /\ \A e \in Execs :
              /\ ex'[e].pc = ex[e].pc /\ ex'[e].ids = ex[e].ids /\ ex'[e].read = ex[e].read
              /\ ex'[e].left = ex[e].left /\ ex'[e].wait = ex[e].wait \ {c}
        /\ conn'[c].phase = "idle" /\ conn'[c].saw = "idle" /\ conn'[c].isDone = FALSE
        /\ \A d \in Conns \ {c} : conn'[d] = conn[d]
    BY EndTxEffect DEF IInv, Rollback
  <2>2. UNCHANGED <<changes, used>>
    BY DEF Rollback, EndTx, NoLongerAwaited
  <2> QED BY <2>1, <2>2 DEF IInv, IdInv, Wrote
<1>8. LogInv'
  BY DEF IInv, Rollback, ConnTypes, ExecTypes, LogInv, EndTx, NoLongerAwaited, Released, Exec, Wrote
<1>9. StopInv'
  BY DEF IInv, Rollback, ExecTypes, StopInv, EndTx, NoLongerAwaited, StopsTheWorld, HoldsShared, Released, Exec
<1>10. ReadInv'
  BY DEF IInv, Rollback, DataTypes, ExecTypes, LockInv, ConnInv, LogInv, StopInv, ReadInv,
     TrackInv, EndTx, NoLongerAwaited, HoldsExecLock, StopsTheWorld, Released, Exec, Wrote
<1>11. TrackInv'
  <2>1. /\ \A e \in Execs :
              /\ ex'[e].pc = ex[e].pc /\ ex'[e].ids = ex[e].ids /\ ex'[e].read = ex[e].read
              /\ ex'[e].left = ex[e].left /\ ex'[e].wait = ex[e].wait \ {c}
        /\ conn'[c].phase = "idle" /\ conn'[c].saw = "idle" /\ conn'[c].isDone = FALSE
        /\ \A d \in Conns \ {c} : conn'[d] = conn[d]
    BY EndTxEffect DEF IInv, Rollback
  <2>2. UNCHANGED <<old, new, changes, stale>>
    BY DEF Rollback, EndTx
  <2> QED BY <2>1, <2>2 DEF IInv, TrackInv, At, Named, Applied
<1>12. LastInv'
  BY DEF IInv, Rollback, LastInv, EndTx, NoLongerAwaited
<1> QED BY <1>1, <1>2, <1>3, <1>4, <1>5, <1>6, <1>7, <1>8, <1>9, <1>10, <1>11, <1>12 DEF IInv

LEMMA ReleaseIInv ==
  ASSUME IInv, NEW c \in Conns, Release(c)
  PROVE  IInv'
<1>1. DataTypes'
  BY DEF IInv, Release, DataTypes, ConnUnchanged
<1>2. ConnTypes'
  BY ConnMoves DEF IInv, Release, Goto, Phases
<1>3. ExecTypes'
  BY DEF IInv, Release, ExecTypes
<1>4. LockInv'
  BY DEF IInv, Release, LockInv, ConnUnchanged, At, HoldsExecLock
<1>5. PhaseInv'
  BY DEF IInv, Release, PhaseInv, ConnUnchanged
<1>6. ConnInv'
  BY DEF IInv, Release, ConnInv, ConnUnchanged, Goto
<1>7. IdInv'
  BY DEF IInv, Release, IdInv, ConnUnchanged, Goto, Wrote
<1>8. LogInv'
  BY DEF IInv, Release, LogInv, Goto, Wrote
<1>9. StopInv'
  BY DEF IInv, Release, StopInv, StopsTheWorld, HoldsShared
<1>10. ReadInv'
  BY DEF IInv, Release, ReadInv
<1>11. TrackInv'
  BY DEF IInv, Release, TrackInv, ConnUnchanged, At, Named, Applied
<1>12. LastInv'
  BY DEF IInv, Release, LastInv, ConnUnchanged
<1> QED BY <1>1, <1>2, <1>3, <1>4, <1>5, <1>6, <1>7, <1>8, <1>9, <1>10, <1>11, <1>12 DEF IInv

LEMMA WriteNewIInv ==
  ASSUME IInv, NEW c \in Conns, WriteNew(c)
  PROVE  IInv'
<1>1. DataTypes'
  <2>1. used' \in [writes : Values, starts : 0..MaxStarts, stalls : 0..MaxStalls]
    BY Naturals DEF IInv, DataTypes, WriteNew, Values
  <2>2. {0, used.writes + 1} \subseteq Values
    BY Naturals DEF IInv, DataTypes, WriteNew, Values
  <2>3. /\ new' \in [Rows -> Values] /\ last' \in [Rows -> Values] /\ late' \subseteq Rows
    BY <2>2 DEF IInv, DataTypes, WriteNew
  <2> QED BY <2>1, <2>3 DEF IInv, DataTypes, WriteNew
<1>2. ConnTypes'
  BY DEF IInv, WriteNew, ConnTypes
<1>3. ExecTypes'
  BY DEF IInv, WriteNew, ExecTypes
<1>4. LockInv'
  BY DEF IInv, WriteNew, LockInv, At, HoldsExecLock
<1>5. PhaseInv'
  BY DEF IInv, WriteNew, PhaseInv
<1>6. ConnInv'
  BY DEF IInv, WriteNew, ConnInv
<1>7. IdInv'
  <2>1. used.writes \in Nat /\ used'.writes = used.writes + 1
    BY Naturals DEF IInv, DataTypes, Values, WriteNew
  <2>2. changes' = changes /\ ex' = ex /\ conn' = conn
    BY DEF WriteNew
  <2>3. /\ \A ch \in changes : ch.id \in Nat
        /\ \A e \in Execs : ex[e].ids \subseteq Nat
        /\ \A d \in Conns : conn[d].id \in Nat
    BY DEF IInv, DataTypes, ConnTypes, ExecTypes, Conn, Exec, Values
  <2> QED BY <2>1, <2>2, <2>3 DEF IInv, IdInv, Wrote
<1>8. LogInv'
  BY DEF IInv, WriteNew, LogInv, Wrote
<1>9. StopInv'
  BY DEF IInv, WriteNew, StopInv, StopsTheWorld, HoldsShared
<1>10. ReadInv'
  BY DEF IInv, WriteNew, ReadInv
<1>11. TrackInv'
  BY DEF IInv, WriteNew, PhaseInv, ConnInv, TrackInv, At, Tracking
<1>12. LastInv'
  BY DEF IInv, WriteNew, DataTypes, ConnInv, LastInv
<1> QED BY <1>1, <1>2, <1>3, <1>4, <1>5, <1>6, <1>7, <1>8, <1>9, <1>10, <1>11, <1>12 DEF IInv

LEMMA SyncBeginsIInv ==
  ASSUME IInv, NEW e \in Execs, SyncBegins(e)
  PROVE  IInv'
<1>1. DataTypes'
  BY Naturals DEF IInv, SyncBegins, DataTypes, ExecUnchanged
<1>2. ConnTypes'
  BY DEF IInv, SyncBegins, ConnTypes, ExecUnchanged
<1>3. ExecTypes'
  BY ExecMoves DEF IInv, SyncBegins, Next1, PCs
<1>4. LockInv'
  BY DEF IInv, SyncBegins, LockInv, At, Next1, HoldsExecLock
<1>5. PhaseInv'
  BY DEF IInv, SyncBegins, PhaseInv, Next1, Resetting, Tracking
<1>6. ConnInv'
  BY DEF IInv, SyncBegins, ConnInv, ExecUnchanged
<1>7. IdInv'
  BY DEF IInv, SyncBegins, IdInv, ExecUnchanged, Next1, Wrote
<1>8. LogInv'
  BY DEF SyncBegins, LogInv, Next1, HoldsExecLock, Tracking
<1>9. StopInv'
  BY DEF SyncBegins, StopInv, Next1, HoldsExecLock, StopsTheWorld
<1>10. ReadInv'
  BY DEF IInv, SyncBegins, ReadInv, LogicalSync, At, Next1
<1>11. TrackInv'
  BY DEF IInv, SyncBegins, TrackInv, ExecUnchanged, At, Next1, Named, Applied
<1>12. LastInv'
  BY DEF IInv, SyncBegins, LastInv, ExecUnchanged
<1> QED BY <1>1, <1>2, <1>3, <1>4, <1>5, <1>6, <1>7, <1>8, <1>9, <1>10, <1>11, <1>12 DEF IInv

LEMMA ExecBeginsIInv ==
  ASSUME IInv, NEW e \in Execs, ExecBegins(e)
  PROVE  IInv'
<1>1. DataTypes'
  BY DEF IInv, ExecBegins, DataTypes, ExecUnchanged
<1>2. ConnTypes'
  BY DEF IInv, ExecBegins, ConnTypes, ExecUnchanged
<1>3. ExecTypes'
  <2> DEFINE x == [ex[e] EXCEPT !.pc = "exec", !.rep = FALSE, !.left = Rounds]
  <2>1. ex[e] \in Exec
    BY DEF IInv, ExecTypes
  <2>2. "exec" \in PCs /\ Rounds \in 0..Rounds
    BY Naturals DEF PCs
  <2>3. x \in Exec
    BY <2>1, <2>2 DEF Exec
  <2>4. ex' = [ex EXCEPT ![e] = x]
    BY DEF ExecBegins
  <2> HIDE DEF x
  <2> QED BY <2>3, <2>4, ExecSet DEF IInv
<1>4. LockInv'
  BY DEF IInv, ExecBegins, LockInv, At, HoldsExecLock
<1>5. PhaseInv'
  BY DEF IInv, ExecBegins, PhaseInv, At, Resetting, Tracking
<1>6. ConnInv'
  BY DEF IInv, ExecBegins, ConnInv, ExecUnchanged
<1>7. IdInv'
  BY DEF IInv, ExecBegins, IdInv, ExecUnchanged, Wrote
<1>8. LogInv'
  BY DEF IInv, ExecBegins, LogInv, ExecUnchanged, At, Tracking, Wrote
<1>9. StopInv'
  BY DEF IInv, ExecBegins, StopInv, ExecUnchanged, StopsTheWorld, HoldsShared
<1>10. ReadInv'
  BY DEF IInv, ExecBegins, ReadInv, LogicalSync, At
<1>11. TrackInv'
  BY DEF IInv, ExecBegins, TrackInv, ExecUnchanged, At, Named, Applied
<1>12. LastInv'
  BY DEF IInv, ExecBegins, LastInv, ExecUnchanged
<1> QED BY <1>1, <1>2, <1>3, <1>4, <1>5, <1>6, <1>7, <1>8, <1>9, <1>10, <1>11, <1>12 DEF IInv

LEMMA CancelIInv ==
  ASSUME IInv, NEW e \in Execs, Cancel(e)
  PROVE  IInv'
<1>1. DataTypes'
  BY DEF IInv, Cancel, DataTypes, ExecUnchanged
<1>2. ConnTypes'
  BY DEF IInv, Cancel, ConnTypes, ExecUnchanged
<1>3. ExecTypes'
  <2>1. Ended(e) \in Exec
    BY EndedType DEF IInv
  <2>2. ex' = [ex EXCEPT ![e] = Ended(e)]
    BY DEF Cancel
  <2> QED BY <2>1, <2>2, ExecSet DEF IInv
<1>4. LockInv'
  BY DEF IInv, Cancel, LockInv, At, Ended, HoldsExecLock
<1>5. PhaseInv'
  BY DEF IInv, Cancel, PhaseInv, Ended, Resetting, Tracking
<1>6. ConnInv'
  BY DEF IInv, Cancel, ConnInv, ExecUnchanged
<1>7. IdInv'
  BY DEF IInv, Cancel, IdInv, ExecUnchanged, Ended, Wrote
<1>8. LogInv'
  BY DEF IInv, Cancel, LogInv, ExecUnchanged, Ended, Tracking, Wrote
<1>9. StopInv'
  BY DEF IInv, Cancel, StopInv, ExecUnchanged, Ended, StopsTheWorld, HoldsShared
<1>10. ReadInv'
  BY DEF IInv, Cancel, ReadInv, LogicalSync, Ended
<1>11. TrackInv'
  BY DEF IInv, Cancel, TrackInv, ExecUnchanged, At, Ended, Named, Applied
<1>12. LastInv'
  BY DEF IInv, Cancel, LastInv, ExecUnchanged
<1> QED BY <1>1, <1>2, <1>3, <1>4, <1>5, <1>6, <1>7, <1>8, <1>9, <1>10, <1>11, <1>12 DEF IInv

LEMMA CrashIInv ==
  ASSUME IInv, NEW e \in Execs, Crash(e)
  PROVE  IInv'
<1>1. DataTypes'
  BY DEF IInv, Crash, DataTypes, ExecUnchanged
<1>2. ConnTypes'
  BY DEF IInv, Crash, ConnTypes, ExecUnchanged
<1>3. ExecTypes'
  <2>1. [Ended(e) EXCEPT !.rep = FALSE] \in Exec
    <3>1. Ended(e) \in Exec
      BY EndedType DEF IInv
    <3> QED BY <3>1 DEF Exec
  <2>2. ex' = [ex EXCEPT ![e] = [Ended(e) EXCEPT !.rep = FALSE]]
    BY DEF Crash
  <2> QED BY <2>1, <2>2, ExecSet DEF IInv
<1>4. LockInv'
  BY DEF IInv, Crash, LockInv, At, Ended, HoldsExecLock
<1>5. PhaseInv'
  BY DEF IInv, Crash, PhaseInv, Ended, Resetting, Tracking
<1>6. ConnInv'
  BY DEF IInv, Crash, ConnInv, ExecUnchanged
<1>7. IdInv'
  BY DEF IInv, Crash, IdInv, ExecUnchanged, Ended, Wrote
<1>8. LogInv'
  BY DEF IInv, Crash, LogInv, ExecUnchanged, Ended, Tracking, Wrote
<1>9. StopInv'
  BY DEF IInv, Crash, StopInv, ExecUnchanged, Ended, StopsTheWorld, HoldsShared
<1>10. ReadInv'
  BY DEF IInv, Crash, ReadInv, LogicalSync, Ended
<1>11. TrackInv'
  BY DEF IInv, Crash, TrackInv, ExecUnchanged, At, Ended, Named, Applied
<1>12. LastInv'
  BY DEF IInv, Crash, LastInv, ExecUnchanged
<1> QED BY <1>1, <1>2, <1>3, <1>4, <1>5, <1>6, <1>7, <1>8, <1>9, <1>10, <1>11, <1>12 DEF IInv

LEMMA StallIInv ==
  ASSUME IInv, NEW e \in Execs, Stall(e)
  PROVE  IInv'
<1>1. DataTypes'
  BY Naturals DEF IInv, Stall, DataTypes, ExecUnchanged
<1>2. ConnTypes'
  BY DEF IInv, Stall, ConnTypes, ExecUnchanged
<1>3. ExecTypes'
  BY ExecMoves DEF IInv, Stall, Next1, PCs
<1>4. LockInv'
  BY DEF IInv, Stall, DataTypes, LockInv, Next1, HoldsExecLock
<1>5. PhaseInv'
  BY DEF IInv, Stall, PhaseInv, Next1, Resetting, Tracking
<1>6. ConnInv'
  BY DEF IInv, Stall, ConnInv, ExecUnchanged
<1>7. IdInv'
  BY DEF IInv, Stall, IdInv, ExecUnchanged, Next1, Wrote
<1>8. LogInv'
  BY DEF IInv, Stall, LogInv, ExecUnchanged, Tracking, Wrote
<1>9. StopInv'
  BY DEF IInv, Stall, StopInv, ExecUnchanged, Next1, StopsTheWorld, HoldsShared
<1>10. ReadInv'
  BY DEF IInv, Stall, ReadInv, LogicalSync, Next1
<1>11. TrackInv'
  BY DEF IInv, Stall, TrackInv, ExecUnchanged, At, Next1, Named, Applied
<1>12. LastInv'
  BY DEF IInv, Stall, LastInv, ExecUnchanged
<1> QED BY <1>1, <1>2, <1>3, <1>4, <1>5, <1>6, <1>7, <1>8, <1>9, <1>10, <1>11, <1>12 DEF IInv

LEMMA StalledAppliesIInv ==
  ASSUME IInv, NEW e \in Execs, StalledApplies(e)
  PROVE  IInv'
<1>1. DataTypes'
  BY ReadTypes DEF IInv, StalledApplies, DataTypes, ExecTypes, Apply, Exec, Partial
<1>2. ConnTypes'
  BY DEF IInv, StalledApplies, ConnTypes, ExecUnchanged
<1>3. ExecTypes'
  <2>1. Ended(e) \in Exec
    BY EndedType DEF IInv
  <2>2. ex' = [ex EXCEPT ![e] = Ended(e)]
    BY DEF StalledApplies
  <2> QED BY <2>1, <2>2, ExecSet DEF IInv
<1>4. LockInv'
  BY DEF IInv, StalledApplies, LockInv, Ended, HoldsExecLock
<1>5. PhaseInv'
  BY DEF IInv, StalledApplies, PhaseInv, Ended, Resetting, Tracking
<1>6. ConnInv'
  BY DEF IInv, StalledApplies, ConnInv, ExecUnchanged
<1>7. IdInv'
  BY DEF IInv, StalledApplies, IdInv, ExecUnchanged, Ended, Wrote
<1>8. LogInv'
  BY DEF IInv, StalledApplies, LogInv, ExecUnchanged, Ended, Tracking, Wrote
<1>9. StopInv'
  BY DEF IInv, StalledApplies, StopInv, ExecUnchanged, Ended, StopsTheWorld, HoldsShared
<1>10. ReadInv'
  BY DEF IInv, StalledApplies, ReadInv, LogicalSync, Ended
<1>11. TrackInv'
  <2>1. ex'[e].pc = "off" /\ \A d \in Execs \ {e} : ex'[d] = ex[d]
    BY DEF IInv, ExecTypes, Exec, StalledApplies, Ended
  <2>2. SUFFICES ASSUME NEW d \in Execs \ {e}, HoldsExecLock(d), NEW r \in Rows \ stale'
                 PROVE  new'[r] = new[r] /\ r \notin stale /\ UNCHANGED <<old, changes>>
    BY <2>1, <2>2 DEF IInv, TrackInv, At, Named, Applied, HoldsExecLock
  <2> QED BY <2>2 DEF StalledApplies, Apply
<1>12. LastInv'
  BY DEF IInv, StalledApplies, DataTypes, LastInv, Apply
<1> QED BY <1>1, <1>2, <1>3, <1>4, <1>5, <1>6, <1>7, <1>8, <1>9, <1>10, <1>11, <1>12 DEF IInv

LEMMA ResetDisablesIInv ==
  ASSUME IInv, NEW e \in Execs, ResetDisables(e)
  PROVE  IInv'
<1>1. DataTypes'
  BY DEF IInv, DataTypes, ResetDisables, DisableChangeLogTriggers, ExecUnchanged, SwStates
<1>2. ConnTypes'
  BY DEF IInv, ResetDisables, ConnTypes, ExecUnchanged
<1>3. ExecTypes'
  BY ExecMoves DEF IInv, ResetDisables, Next1, PCs
<1>4. LockInv'
  BY DEF IInv, ResetDisables, LockInv, At, Next1, DisableChangeLogTriggers, HoldsExecLock
<1>5. PhaseInv'
  <2>1. swState \in SwStates /\ swState # "use_next_db"
    BY DEF IInv, DataTypes, LockInv, ResetDisables, At
  <2>2. swState' = "idle"
    BY <2>1 DEF ResetDisables, DisableChangeLogTriggers, SwStates
  <2>3. \A d \in Execs \ {e} : ex'[d] = ex[d] /\ ~HoldsExecLock(d)
    BY DEF IInv, ExecTypes, LockInv, ResetDisables, Next1, HoldsExecLock, At
  <2>4. ex'[e].pc = "disabled"
    BY DEF IInv, ExecTypes, Exec, ResetDisables, Next1
  <2> QED BY <2>2, <2>3, <2>4 DEF PhaseInv, Resetting, Tracking, HoldsExecLock
<1>6. ConnInv'
  BY DEF IInv, ResetDisables, ConnInv, ExecUnchanged, DisableChangeLogTriggers
<1>7. IdInv'
  BY DEF IInv, ResetDisables, IdInv, ExecUnchanged, Next1, Wrote
<1>8. LogInv'
  BY DEF IInv, ResetDisables, LogInv, ExecUnchanged, Next1, Tracking, Wrote
<1>9. StopInv'
  BY DEF IInv, ResetDisables, StopInv, ExecUnchanged, Next1, StopsTheWorld, HoldsShared
<1>10. ReadInv'
  BY DEF IInv, ResetDisables, ReadInv, LogicalSync, At, Next1
<1>11. TrackInv'
  BY DEF IInv, ResetDisables, TrackInv, ExecUnchanged, At, Next1, Named, Applied
<1>12. LastInv'
  BY DEF IInv, ResetDisables, LastInv, ExecUnchanged, DisableChangeLogTriggers
<1> QED BY <1>1, <1>2, <1>3, <1>4, <1>5, <1>6, <1>7, <1>8, <1>9, <1>10, <1>11, <1>12 DEF IInv

LEMMA ResetDropsIInv ==
  ASSUME IInv, NEW e \in Execs, ResetDrops(e)
  PROVE  IInv'
<1>1. DataTypes'
  <2>1. triggers' \in BOOLEAN
    BY DEF ResetDrops
  <2> QED BY <2>1 DEF IInv, DataTypes, ResetDrops, ExecUnchanged
<1>2. ConnTypes'
  BY DEF IInv, ResetDrops, ConnTypes, ExecUnchanged
<1>3. ExecTypes'
  BY ExecMoves DEF IInv, ResetDrops, Next1, PCs
<1>4. LockInv'
  BY DEF IInv, ResetDrops, LockInv, At, Next1, HoldsExecLock
<1>5. PhaseInv'
  BY DEF IInv, ResetDrops, LockInv, PhaseInv, At, Next1, HoldsExecLock, Resetting, Tracking
<1>6. ConnInv'
  BY DEF IInv, ResetDrops, ConnInv, ExecUnchanged
<1>7. IdInv'
  BY DEF IInv, ResetDrops, IdInv, ExecUnchanged, Next1, Wrote
<1>8. LogInv'
  BY DEF ResetDrops, LogInv, ExecUnchanged, NoWriters, Wrote
<1>9. StopInv'
  BY DEF IInv, ResetDrops, StopInv, ExecUnchanged, Next1, StopsTheWorld, HoldsShared
<1>10. ReadInv'
  BY DEF IInv, ResetDrops, ReadInv, LogicalSync, At, Next1
<1>11. TrackInv'
  BY DEF IInv, ResetDrops, PhaseInv, TrackInv, ExecUnchanged, At, Next1, Resetting, Tracking
<1>12. LastInv'
  BY DEF IInv, ResetDrops, LastInv, ExecUnchanged
<1> QED BY <1>1, <1>2, <1>3, <1>4, <1>5, <1>6, <1>7, <1>8, <1>9, <1>10, <1>11, <1>12 DEF IInv

LEMMA ResetTruncatesIInv ==
  ASSUME IInv, NEW e \in Execs, ResetTruncates(e)
  PROVE  IInv'
<1>1. DataTypes'
  BY Naturals DEF IInv, DataTypes, ResetTruncates, ExecUnchanged, Values
<1>2. ConnTypes'
  BY DEF IInv, ResetTruncates, ConnTypes, ExecUnchanged
<1>3. ExecTypes'
  BY ExecMoves DEF IInv, ResetTruncates, Next1, PCs
<1>4. LockInv'
  BY DEF IInv, ResetTruncates, LockInv, At, Next1, HoldsExecLock
<1>5. PhaseInv'
  BY DEF IInv, ResetTruncates, PhaseInv, At, Next1, Resetting, Tracking
<1>6. ConnInv'
  BY DEF IInv, ResetTruncates, ConnInv, ExecUnchanged
<1>7. IdInv'
  BY DEF IInv, ResetTruncates, IdInv, ExecUnchanged, Next1, Wrote
<1>8. LogInv'
  BY DEF IInv, ResetTruncates, LogInv, ExecUnchanged, Next1, Tracking, Wrote
<1>9. StopInv'
  BY DEF IInv, ResetTruncates, StopInv, ExecUnchanged, Next1, StopsTheWorld, HoldsShared
<1>10. ReadInv'
  BY DEF IInv, ResetTruncates, ReadInv, LogicalSync, At, Next1
<1>11. TrackInv'
  BY DEF IInv, ResetTruncates, PhaseInv, TrackInv, At, Next1, Resetting, Tracking
<1>12. LastInv'
  BY DEF IInv, ResetTruncates, PhaseInv, LastInv, ExecUnchanged, At, Resetting
<1> QED BY <1>1, <1>2, <1>3, <1>4, <1>5, <1>6, <1>7, <1>8, <1>9, <1>10, <1>11, <1>12 DEF IInv

LEMMA StartCreatesIInv ==
  ASSUME IInv, NEW e \in Execs, StartCreates(e)
  PROVE  IInv'
<1>1. DataTypes'
  BY DEF IInv, StartCreates, DataTypes, ExecUnchanged
<1>2. ConnTypes'
  BY DEF IInv, StartCreates, ConnTypes, ExecUnchanged
<1>3. ExecTypes'
  BY ExecMoves DEF IInv, StartCreates, Next1, PCs
<1>4. LockInv'
  BY DEF IInv, StartCreates, LockInv, At, Next1, HoldsExecLock
<1>5. PhaseInv'
  BY DEF IInv, StartCreates, PhaseInv, At, Next1, Resetting, Tracking
<1>6. ConnInv'
  BY DEF IInv, StartCreates, ConnInv, ExecUnchanged
<1>7. IdInv'
  BY DEF IInv, StartCreates, IdInv, ExecUnchanged, Next1, Wrote
<1>8. LogInv'
  BY DEF StartCreates, LogInv, ExecUnchanged, NoWriters, Wrote
<1>9. StopInv'
  BY DEF IInv, StartCreates, StopInv, ExecUnchanged, Next1, StopsTheWorld, HoldsShared
<1>10. ReadInv'
  BY DEF IInv, StartCreates, ReadInv, LogicalSync, At, Next1
<1>11. TrackInv'
  BY DEF IInv, StartCreates, TrackInv, ExecUnchanged, At, Next1, Named, Applied
<1>12. LastInv'
  BY DEF IInv, StartCreates, LastInv, ExecUnchanged
<1> QED BY <1>1, <1>2, <1>3, <1>4, <1>5, <1>6, <1>7, <1>8, <1>9, <1>10, <1>11, <1>12 DEF IInv

LEMMA EnableChangeLogTriggersIInv ==
  ASSUME IInv, NEW e \in Execs, EnableChangeLogTriggers(e)
  PROVE  IInv'
<1>1. DataTypes'
  BY DEF IInv, DataTypes, EnableChangeLogTriggers, ExecUnchanged, SwStates
<1>2. ConnTypes'
  BY DEF IInv, EnableChangeLogTriggers, ConnTypes, ExecUnchanged
<1>3. ExecTypes'
  BY ExecMoves DEF IInv, EnableChangeLogTriggers, Next1, PCs
<1>4. LockInv'
  BY DEF IInv, EnableChangeLogTriggers, LockInv, At, Next1, HoldsExecLock
<1>5. PhaseInv'
  BY DEF IInv, EnableChangeLogTriggers, ExecTypes, LockInv, PhaseInv, At, Next1, HoldsExecLock,
     Resetting
<1>6. ConnInv'
  BY DEF IInv, EnableChangeLogTriggers, ConnInv, ExecUnchanged
<1>7. IdInv'
  BY DEF IInv, EnableChangeLogTriggers, IdInv, ExecUnchanged, Next1, Wrote
<1>8. LogInv'
  BY DEF IInv, EnableChangeLogTriggers, LogInv, ExecUnchanged, Next1, Tracking, Wrote
<1>9. StopInv'
  BY DEF IInv, EnableChangeLogTriggers, StopInv, ExecUnchanged, Next1, StopsTheWorld, HoldsShared
<1>10. ReadInv'
  BY DEF IInv, EnableChangeLogTriggers, ReadInv, LogicalSync, At, Next1
<1>11. TrackInv'
  BY DEF IInv, EnableChangeLogTriggers, TrackInv, ExecUnchanged, At, Next1, Named, Applied
<1>12. LastInv'
  BY DEF IInv, EnableChangeLogTriggers, LastInv, ExecUnchanged
<1> QED BY <1>1, <1>2, <1>3, <1>4, <1>5, <1>6, <1>7, <1>8, <1>9, <1>10, <1>11, <1>12 DEF IInv

LEMMA StartReadsNowIInv ==
  ASSUME IInv, NEW e \in Execs, StartReadsNow(e)
  PROVE  IInv'
<1>1. DataTypes'
  BY DEF IInv, StartReadsNow, DataTypes, ExecUnchanged
<1>2. ConnTypes'
  BY DEF IInv, StartReadsNow, ConnTypes, ExecUnchanged
<1>3. ExecTypes'
  <2> DEFINE w == {c \in Conns : InTx(c) \/ conn[c].phase = "check"}
             x == [ex[e] EXCEPT !.pc = "waiting", !.wait = w]
  <2>1. ex[e] \in Exec /\ w \in SUBSET Conns
    BY DEF IInv, ExecTypes
  <2>2. "waiting" \in PCs
    BY DEF PCs
  <2>3. ex' = [ex EXCEPT ![e] = x]
    BY DEF StartReadsNow
  <2> HIDE DEF w
  <2>4. x \in Exec
    BY <2>1, <2>2 DEF Exec
  <2> HIDE DEF x
  <2> QED BY <2>3, <2>4, ExecSet DEF IInv
<1>4. LockInv'
  BY DEF IInv, StartReadsNow, ExecTypes, LockInv, At, HoldsExecLock
<1>5. PhaseInv'
  BY DEF IInv, StartReadsNow, ExecTypes, PhaseInv, At, Resetting
<1>6. ConnInv'
  BY DEF IInv, StartReadsNow, ConnInv, ExecUnchanged
<1>7. IdInv'
  BY DEF IInv, StartReadsNow, ExecTypes, IdInv, ExecUnchanged, Wrote
<1>8. LogInv'
  BY DEF IInv, StartReadsNow, ExecTypes, LogInv, ExecUnchanged, InTx, Tracking, Wrote
<1>9. StopInv'
  BY DEF IInv, StartReadsNow, ExecTypes, StopInv, ExecUnchanged, StopsTheWorld, HoldsShared
<1>10. ReadInv'
  BY DEF IInv, StartReadsNow, ExecTypes, ReadInv, LogicalSync, At
<1>11. TrackInv'
  BY DEF IInv, StartReadsNow, ExecTypes, TrackInv, ExecUnchanged, At, Named, Applied
<1>12. LastInv'
  BY DEF IInv, StartReadsNow, LastInv, ExecUnchanged
<1> QED BY <1>1, <1>2, <1>3, <1>4, <1>5, <1>6, <1>7, <1>8, <1>9, <1>10, <1>11, <1>12 DEF IInv

LEMMA StartWaitsIInv ==
  ASSUME IInv, NEW e \in Execs, StartWaits(e)
  PROVE  IInv'
<1>1. DataTypes'
  BY DEF IInv, StartWaits, DataTypes, ExecUnchanged
<1>2. ConnTypes'
  BY DEF IInv, StartWaits, ConnTypes, ExecUnchanged
<1>3. ExecTypes'
  BY ExecMoves DEF IInv, StartWaits, Next1, PCs
<1>4. LockInv'
  BY DEF IInv, StartWaits, LockInv, At, Next1, HoldsExecLock
<1>5. PhaseInv'
  BY DEF IInv, StartWaits, PhaseInv, At, Next1, Resetting
<1>6. ConnInv'
  BY DEF IInv, StartWaits, ConnInv, ExecUnchanged
<1>7. IdInv'
  BY DEF IInv, StartWaits, IdInv, ExecUnchanged, Next1, Wrote
<1>8. LogInv'
  BY DEF IInv, StartWaits, LogInv, ExecUnchanged, At, Wrote
<1>9. StopInv'
  BY DEF IInv, StartWaits, StopInv, ExecUnchanged, Next1, StopsTheWorld, HoldsShared
<1>10. ReadInv'
  BY DEF IInv, StartWaits, ReadInv, LogicalSync, At, Next1
<1>11. TrackInv'
  BY DEF IInv, StartWaits, TrackInv, ExecUnchanged, At, Next1, Named, Applied
<1>12. LastInv'
  BY DEF IInv, StartWaits, LastInv, ExecUnchanged
<1> QED BY <1>1, <1>2, <1>3, <1>4, <1>5, <1>6, <1>7, <1>8, <1>9, <1>10, <1>11, <1>12 DEF IInv

LEMMA FullInitialSyncReadsIInv ==
  ASSUME IInv, NEW e \in Execs, FullInitialSyncReads(e)
  PROVE  IInv'
<1>1. DataTypes'
  BY DEF IInv, FullInitialSyncReads, DataTypes, ExecUnchanged
<1>2. ConnTypes'
  BY DEF IInv, FullInitialSyncReads, ConnTypes, ExecUnchanged
<1>3. ExecTypes'
  <2> DEFINE x == [ex[e] EXCEPT !.pc = "snapshot", !.read = old]
  <2>1. ex[e] \in Exec
    BY DEF IInv, ExecTypes
  <2>2. "snapshot" \in PCs /\ old \in Partial
    BY ReadTypes DEF IInv, DataTypes, PCs
  <2>3. x \in Exec
    BY <2>1, <2>2 DEF Exec
  <2>4. ex' = [ex EXCEPT ![e] = x]
    BY DEF FullInitialSyncReads
  <2> HIDE DEF x
  <2> QED BY <2>3, <2>4, ExecSet DEF IInv
<1>4. LockInv'
  BY DEF IInv, FullInitialSyncReads, ExecTypes, LockInv, At, HoldsExecLock
<1>5. PhaseInv'
  BY DEF IInv, FullInitialSyncReads, ExecTypes, PhaseInv, At, Resetting, Tracking
<1>6. ConnInv'
  BY DEF IInv, FullInitialSyncReads, ConnInv, ExecUnchanged
<1>7. IdInv'
  BY DEF IInv, FullInitialSyncReads, ExecTypes, IdInv, ExecUnchanged, Wrote
<1>8. LogInv'
  BY DEF IInv, FullInitialSyncReads, LogInv, ExecUnchanged, At, Tracking, Wrote
<1>9. StopInv'
  BY DEF IInv, FullInitialSyncReads, ExecTypes, StopInv, ExecUnchanged, StopsTheWorld, HoldsShared
<1>10. ReadInv'
  BY DEF IInv, FullInitialSyncReads, ExecTypes, ReadInv, LogicalSync, At
<1>11. TrackInv'
  BY DEF IInv, FullInitialSyncReads, DataTypes, ExecTypes, TrackInv, ExecUnchanged, At, Named, Applied
<1>12. LastInv'
  BY DEF IInv, FullInitialSyncReads, LastInv, ExecUnchanged
<1> QED BY <1>1, <1>2, <1>3, <1>4, <1>5, <1>6, <1>7, <1>8, <1>9, <1>10, <1>11, <1>12 DEF IInv

LEMMA FullInitialSyncCopiesIInv ==
  ASSUME IInv, NEW e \in Execs, FullInitialSyncCopies(e)
  PROVE  IInv'
<1>1. DataTypes'
  BY ReadTypes DEF IInv, FullInitialSyncCopies, DataTypes, ExecTypes, ExecUnchanged, Apply, Exec
<1>2. ConnTypes'
  BY DEF IInv, FullInitialSyncCopies, ConnTypes, ExecUnchanged
<1>3. ExecTypes'
  <2> DEFINE x == [ex[e] EXCEPT !.pc = "sync", !.read = NoRead, !.left = Rounds]
  <2>1. ex[e] \in Exec
    BY DEF IInv, ExecTypes
  <2>2. "sync" \in PCs /\ NoRead \in Partial /\ Rounds \in 0..Rounds
    BY ReadTypes, Naturals DEF PCs
  <2>3. x \in Exec
    BY <2>1, <2>2 DEF Exec
  <2>4. ex' = [ex EXCEPT ![e] = x]
    BY DEF FullInitialSyncCopies
  <2> HIDE DEF x
  <2> QED BY <2>3, <2>4, ExecSet DEF IInv
<1>4. LockInv'
  BY DEF IInv, FullInitialSyncCopies, LockInv, At, HoldsExecLock
<1>5. PhaseInv'
  BY DEF IInv, FullInitialSyncCopies, PhaseInv, At, Resetting, Tracking
<1>6. ConnInv'
  BY DEF IInv, FullInitialSyncCopies, ConnInv, ExecUnchanged
<1>7. IdInv'
  BY DEF IInv, FullInitialSyncCopies, IdInv, ExecUnchanged, Wrote
<1>8. LogInv'
  BY DEF IInv, FullInitialSyncCopies, LogInv, ExecUnchanged, At, Tracking, Wrote
<1>9. StopInv'
  BY DEF IInv, FullInitialSyncCopies, StopInv, ExecUnchanged, StopsTheWorld, HoldsShared
<1>10. ReadInv'
  BY DEF IInv, FullInitialSyncCopies, ReadInv, LogicalSync, At
<1>11. TrackInv'
  <2>1. \A d \in Execs \ {e} : ex'[d] = ex[d] /\ ~HoldsExecLock(d)
    BY DEF IInv, ExecTypes, LockInv, FullInitialSyncCopies, HoldsExecLock, At
  <2>2. ex'[e].pc = "sync" /\ ex'[e].ids = ex[e].ids
    BY DEF IInv, ExecTypes, Exec, FullInitialSyncCopies
  <2>3. \A r \in Rows \ stale :
            r \in DOMAIN ex[e].read /\ (ex[e].read[r] # old[r] => Named(r, {}))
    BY DEF IInv, TrackInv, FullInitialSyncCopies
  <2>4. \A r \in Rows \ stale : new'[r] = ex[e].read[r]
    BY <2>3 DEF FullInitialSyncCopies, Apply
  <2>5. ex[e].ids = {}
    BY DEF IInv, ReadInv, LogicalSync, FullInitialSyncCopies, At
  <2>6. \A r \in Rows : Named(r, {}) => Named(r, ex[e].ids)'
    BY <2>2, <2>5 DEF Named, FullInitialSyncCopies
  <2>7. UNCHANGED <<old, stale>>
    BY DEF FullInitialSyncCopies, ExecUnchanged
  <2> QED BY <2>1, <2>2, <2>3, <2>4, <2>6, <2>7 DEF TrackInv, At, HoldsExecLock
<1>12. LastInv'
  BY DEF IInv, FullInitialSyncCopies, PhaseInv, LastInv, ExecUnchanged, At, Tracking
<1> QED BY <1>1, <1>2, <1>3, <1>4, <1>5, <1>6, <1>7, <1>8, <1>9, <1>10, <1>11, <1>12 DEF IInv

LEMMA LogicalSyncReadsIInv ==
  ASSUME IInv, NEW e \in Execs, LogicalSyncReads(e)
  PROVE  IInv'
<1>1. DataTypes'
  BY DEF IInv, LogicalSyncReads, DataTypes, ExecUnchanged
<1>2. ConnTypes'
  BY DEF IInv, LogicalSyncReads, ConnTypes, ExecUnchanged
<1>3. ExecTypes'
  <2> DEFINE pc   == IF At(e, "sync") THEN "syncRead" ELSE "execRead"
             ids  == {ch.id : ch \in changes}
             read == [r \in {ch.row : ch \in changes} |-> old[r]]
             x    == [ex[e] EXCEPT !.pc = pc, !.ids = ids, !.read = read]
  <2>1. ex[e] \in Exec /\ pc \in PCs
    BY DEF IInv, ExecTypes, PCs
  <2>2. ids \in SUBSET (1..MaxWrites) /\ {ch.row : ch \in changes} \in SUBSET Rows
    BY DEF IInv, DataTypes
  <2>3. read \in [{ch.row : ch \in changes} -> Values]
    BY <2>2 DEF IInv, DataTypes
  <2>4. read \in Partial
    BY <2>2, <2>3, ReadTypes
  <2>5. ex' = [ex EXCEPT ![e] = x]
    BY DEF LogicalSyncReads, ReadChanges
  <2> HIDE DEF pc, ids, read
  <2>6. x \in Exec
    BY <2>1, <2>2, <2>4 DEF Exec
  <2> HIDE DEF x
  <2> QED BY <2>5, <2>6, ExecSet DEF IInv
<1>4. LockInv'
  BY DEF IInv, LogicalSyncReads, LockInv, At, ReadChanges, HoldsExecLock
<1>5. PhaseInv'
  BY DEF IInv, LogicalSyncReads, PhaseInv, At, ReadChanges, Resetting, Tracking
<1>6. ConnInv'
  BY DEF IInv, LogicalSyncReads, ConnInv, ExecUnchanged
<1>7. IdInv'
  BY DEF IInv, LogicalSyncReads, IdInv, ExecUnchanged, ReadChanges, Wrote
<1>8. LogInv'
  BY DEF IInv, LogicalSyncReads, LogInv, ExecUnchanged, At, Tracking, Wrote
<1>9. StopInv'
  BY DEF IInv, LogicalSyncReads, StopInv, ExecUnchanged, ReadChanges, StopsTheWorld, HoldsShared
<1>10. ReadInv'
  BY DEF IInv, LogicalSyncReads, ReadInv, LogicalSync, ReadChanges
<1>11. TrackInv'
  BY DEF IInv, LogicalSyncReads, TrackInv, ExecUnchanged, At, ReadChanges, Named, Applied
<1>12. LastInv'
  BY DEF IInv, LogicalSyncReads, LastInv, ExecUnchanged
<1> QED BY <1>1, <1>2, <1>3, <1>4, <1>5, <1>6, <1>7, <1>8, <1>9, <1>10, <1>11, <1>12 DEF IInv

LEMMA LogicalSyncAppliesIInv ==
  ASSUME IInv, NEW e \in Execs, LogicalSyncApplies(e)
  PROVE  IInv'
<1>1. DataTypes'
  BY ReadTypes DEF IInv, LogicalSyncApplies, DataTypes, ExecTypes, ExecUnchanged, Apply, Exec
<1>2. ConnTypes'
  BY DEF IInv, LogicalSyncApplies, ConnTypes, ExecUnchanged
<1>3. ExecTypes'
  <2>1. PICK pc \in {"syncApplied", "execApplied"} : ex' = [ex EXCEPT ![e].pc = pc]
    BY DEF LogicalSyncApplies, Next1
  <2> QED BY <2>1, ExecMoves DEF IInv, PCs
<1>4. LockInv'
  BY DEF IInv, LogicalSyncApplies, LockInv, At, Next1, HoldsExecLock
<1>5. PhaseInv'
  BY DEF IInv, LogicalSyncApplies, PhaseInv, At, Next1, Resetting, Tracking
<1>6. ConnInv'
  BY DEF IInv, LogicalSyncApplies, ConnInv, ExecUnchanged
<1>7. IdInv'
  BY DEF IInv, LogicalSyncApplies, IdInv, ExecUnchanged, Next1, Wrote
<1>8. LogInv'
  BY DEF IInv, LogicalSyncApplies, LogInv, ExecUnchanged, At, Tracking, Wrote
<1>9. StopInv'
  BY DEF IInv, LogicalSyncApplies, StopInv, ExecUnchanged, Next1, StopsTheWorld, HoldsShared
<1>10. ReadInv'
  BY DEF IInv, LogicalSyncApplies, ReadInv, LogicalSync, At, Next1
<1>11. TrackInv'
  BY DEF IInv, LogicalSyncApplies, LockInv, TrackInv, ExecUnchanged, At, Next1, Apply, HoldsExecLock, Named,
     Applied
<1>12. LastInv'
  BY DEF IInv, LogicalSyncApplies, PhaseInv, LastInv, ExecUnchanged, At, Tracking
<1> QED BY <1>1, <1>2, <1>3, <1>4, <1>5, <1>6, <1>7, <1>8, <1>9, <1>10, <1>11, <1>12 DEF IInv

LEMMA LogicalSyncDeletesIInv ==
  ASSUME IInv, NEW e \in Execs, LogicalSyncDeletes(e)
  PROVE  IInv'
<1>1. DataTypes'
  BY DEF IInv, LogicalSyncDeletes, DataTypes, ExecUnchanged, ExecDeleteChanges
<1>2. ConnTypes'
  BY DEF IInv, LogicalSyncDeletes, ConnTypes, ExecUnchanged
<1>3. ExecTypes'
  <2> DEFINE pc == IF At(e, "syncApplied") THEN "sync" ELSE "exec"
             x  == [ex[e] EXCEPT !.pc = pc, !.ids = {}, !.read = NoRead, !.left = ex[e].left - 1]
  <2>1. ex[e] \in Exec /\ pc \in PCs
    BY DEF IInv, ExecTypes, PCs
  <2>2. ex[e].left - 1 \in 0..Rounds
    BY <2>1, Naturals DEF Exec, IInv, ReadInv, LogicalSync, LogicalSyncDeletes, At
  <2>3. ex' = [ex EXCEPT ![e] = x]
    BY DEF LogicalSyncDeletes
  <2> HIDE DEF pc
  <2>4. x \in Exec
    BY <2>1, <2>2, ReadTypes DEF Exec
  <2> HIDE DEF x
  <2> QED BY <2>3, <2>4, ExecSet DEF IInv
<1>4. LockInv'
  BY DEF IInv, LogicalSyncDeletes, LockInv, At, HoldsExecLock
<1>5. PhaseInv'
  BY DEF IInv, LogicalSyncDeletes, PhaseInv, At, Resetting, Tracking
<1>6. ConnInv'
  BY DEF IInv, LogicalSyncDeletes, ConnInv, ExecUnchanged
<1>7. IdInv'
  BY DEF IInv, LogicalSyncDeletes, IdInv, ExecUnchanged, ExecDeleteChanges, Wrote
<1>8. LogInv'
  BY DEF IInv, LogicalSyncDeletes, LogInv, ExecUnchanged, At, Tracking, Wrote
<1>9. StopInv'
  BY DEF IInv, LogicalSyncDeletes, StopInv, ExecUnchanged, StopsTheWorld, HoldsShared
<1>10. ReadInv'
  BY DEF IInv, LogicalSyncDeletes, ReadInv, LogicalSync
<1>11. TrackInv'
  BY DEF IInv, LogicalSyncDeletes, LockInv, TrackInv, ExecUnchanged, At, ExecDeleteChanges, HoldsExecLock, Named
<1>12. LastInv'
  BY DEF IInv, LogicalSyncDeletes, LastInv, ExecUnchanged
<1> QED BY <1>1, <1>2, <1>3, <1>4, <1>5, <1>6, <1>7, <1>8, <1>9, <1>10, <1>11, <1>12 DEF IInv

LEMMA SyncEndsIInv ==
  ASSUME IInv, NEW e \in Execs, SyncEnds(e)
  PROVE  IInv'
<1>1. DataTypes'
  BY DEF IInv, SyncEnds, DataTypes, ExecUnchanged
<1>2. ConnTypes'
  BY DEF IInv, SyncEnds, ConnTypes, ExecUnchanged
<1>3. ExecTypes'
  <2> DEFINE x == [ex[e] EXCEPT !.pc = "synced", !.rep = TRUE]
  <2>1. ex[e] \in Exec
    BY DEF IInv, ExecTypes
  <2>2. "synced" \in PCs
    BY DEF PCs
  <2>3. x \in Exec
    BY <2>1, <2>2 DEF Exec
  <2>4. ex' = [ex EXCEPT ![e] = x]
    BY DEF SyncEnds
  <2> HIDE DEF x
  <2> QED BY <2>3, <2>4, ExecSet DEF IInv
<1>4. LockInv'
  BY DEF IInv, SyncEnds, ExecTypes, LockInv, At, HoldsExecLock
<1>5. PhaseInv'
  BY DEF IInv, SyncEnds, ExecTypes, PhaseInv, At, Resetting, Tracking
<1>6. ConnInv'
  BY DEF IInv, SyncEnds, ConnInv, ExecUnchanged
<1>7. IdInv'
  BY DEF IInv, SyncEnds, ExecTypes, IdInv, ExecUnchanged, Wrote
<1>8. LogInv'
  BY DEF IInv, SyncEnds, LogInv, ExecUnchanged, At, Tracking, Wrote
<1>9. StopInv'
  BY DEF IInv, SyncEnds, ExecTypes, StopInv, ExecUnchanged, StopsTheWorld, HoldsShared
<1>10. ReadInv'
  BY DEF IInv, SyncEnds, ExecTypes, ReadInv, LogicalSync, At
<1>11. TrackInv'
  BY DEF IInv, SyncEnds, ExecTypes, TrackInv, ExecUnchanged, At, Named, Applied
<1>12. LastInv'
  BY DEF IInv, SyncEnds, LastInv, ExecUnchanged
<1> QED BY <1>1, <1>2, <1>3, <1>4, <1>5, <1>6, <1>7, <1>8, <1>9, <1>10, <1>11, <1>12 DEF IInv

LEMMA FinalSyncStopsIInv ==
  ASSUME IInv, NEW e \in Execs, FinalSyncStops(e)
  PROVE  IInv'
<1>1. DataTypes'
  BY DEF IInv, FinalSyncStops, DataTypes, ExecUnchanged
<1>2. ConnTypes'
  BY DEF IInv, FinalSyncStops, ConnTypes, ExecUnchanged
<1>3. ExecTypes'
  BY ExecMoves DEF IInv, FinalSyncStops, Next1, PCs
<1>4. LockInv'
  BY DEF IInv, FinalSyncStops, LockInv, At, Next1, HoldsExecLock
<1>5. PhaseInv'
  BY DEF IInv, FinalSyncStops, PhaseInv, At, Next1, Resetting, Tracking
<1>6. ConnInv'
  BY DEF IInv, FinalSyncStops, ConnInv, ExecUnchanged
<1>7. IdInv'
  BY DEF IInv, FinalSyncStops, IdInv, ExecUnchanged, Next1, Wrote
<1>8. LogInv'
  BY DEF FinalSyncStops, LogInv, ExecUnchanged, HoldsShared, Wrote
<1>9. StopInv'
  BY DEF FinalSyncStops, StopInv, ExecUnchanged, HoldsShared
<1>10. ReadInv'
  BY DEF IInv, FinalSyncStops, ReadInv, LogicalSync, At, Next1
<1>11. TrackInv'
  BY DEF IInv, FinalSyncStops, TrackInv, ExecUnchanged, At, Next1, Named, Applied
<1>12. LastInv'
  BY DEF IInv, FinalSyncStops, LastInv, ExecUnchanged
<1> QED BY <1>1, <1>2, <1>3, <1>4, <1>5, <1>6, <1>7, <1>8, <1>9, <1>10, <1>11, <1>12 DEF IInv

LEMMA FinalSyncReadsIInv ==
  ASSUME IInv, NEW e \in Execs, FinalSyncReads(e)
  PROVE  IInv'
<1>1. DataTypes'
  BY DEF IInv, FinalSyncReads, DataTypes, ExecUnchanged
<1>2. ConnTypes'
  BY DEF IInv, FinalSyncReads, ConnTypes, ExecUnchanged
<1>3. ExecTypes'
  <2> DEFINE pc   == "finalRead"
             ids  == {ch.id : ch \in changes}
             read == [r \in {ch.row : ch \in changes} |-> old[r]]
             x    == [ex[e] EXCEPT !.pc = pc, !.ids = ids, !.read = read]
  <2>1. ex[e] \in Exec /\ pc \in PCs
    BY DEF IInv, ExecTypes, PCs
  <2>2. ids \in SUBSET (1..MaxWrites) /\ {ch.row : ch \in changes} \in SUBSET Rows
    BY DEF IInv, DataTypes
  <2>3. read \in [{ch.row : ch \in changes} -> Values]
    BY <2>2 DEF IInv, DataTypes
  <2>4. read \in Partial
    BY <2>2, <2>3, ReadTypes
  <2>5. ex' = [ex EXCEPT ![e] = x]
    BY DEF FinalSyncReads, ReadChanges
  <2> HIDE DEF pc, ids, read
  <2>6. x \in Exec
    BY <2>1, <2>2, <2>4 DEF Exec
  <2> HIDE DEF x
  <2> QED BY <2>5, <2>6, ExecSet DEF IInv
<1>4. LockInv'
  BY DEF IInv, FinalSyncReads, LockInv, At, ReadChanges, HoldsExecLock
<1>5. PhaseInv'
  BY DEF IInv, FinalSyncReads, PhaseInv, At, ReadChanges, Resetting, Tracking
<1>6. ConnInv'
  BY DEF IInv, FinalSyncReads, ConnInv, ExecUnchanged
<1>7. IdInv'
  BY DEF IInv, FinalSyncReads, IdInv, ExecUnchanged, ReadChanges, Wrote
<1>8. LogInv'
  BY DEF IInv, FinalSyncReads, LogInv, ExecUnchanged, At, Tracking, Wrote
<1>9. StopInv'
  BY DEF IInv, FinalSyncReads, StopInv, ExecUnchanged, At, StopsTheWorld, HoldsShared
<1>10. ReadInv'
  BY DEF IInv, FinalSyncReads, ReadInv, LogicalSync, ReadChanges
<1>11. TrackInv'
  BY DEF IInv, FinalSyncReads, TrackInv, ExecUnchanged, At, ReadChanges, Named, Applied
<1>12. LastInv'
  BY DEF IInv, FinalSyncReads, LastInv, ExecUnchanged
<1> QED BY <1>1, <1>2, <1>3, <1>4, <1>5, <1>6, <1>7, <1>8, <1>9, <1>10, <1>11, <1>12 DEF IInv

LEMMA FinalSyncAppliesIInv ==
  ASSUME IInv, NEW e \in Execs, FinalSyncApplies(e)
  PROVE  IInv'
<1>1. DataTypes'
  BY ReadTypes DEF IInv, FinalSyncApplies, DataTypes, ExecTypes, ExecUnchanged, Apply, Exec
<1>2. ConnTypes'
  BY DEF IInv, FinalSyncApplies, ConnTypes, ExecUnchanged
<1>3. ExecTypes'
  BY ExecMoves DEF IInv, FinalSyncApplies, Next1, PCs
<1>4. LockInv'
  BY DEF IInv, FinalSyncApplies, LockInv, At, Next1, HoldsExecLock
<1>5. PhaseInv'
  BY DEF IInv, FinalSyncApplies, PhaseInv, At, Next1, Resetting, Tracking
<1>6. ConnInv'
  BY DEF IInv, FinalSyncApplies, ConnInv, ExecUnchanged
<1>7. IdInv'
  BY DEF IInv, FinalSyncApplies, IdInv, ExecUnchanged, Next1, Wrote
<1>8. LogInv'
  BY DEF IInv, FinalSyncApplies, LogInv, ExecUnchanged, At, Tracking, Wrote
<1>9. StopInv'
  BY DEF IInv, FinalSyncApplies, StopInv, ExecUnchanged, At, StopsTheWorld, HoldsShared
<1>10. ReadInv'
  BY DEF IInv, FinalSyncApplies, ReadInv, LogicalSync, Next1
<1>11. TrackInv'
  BY DEF IInv, FinalSyncApplies, TrackInv, ExecUnchanged, At, Next1, Apply, Named, Applied
<1>12. LastInv'
  BY DEF IInv, FinalSyncApplies, PhaseInv, LastInv, ExecUnchanged, At, Tracking
<1> QED BY <1>1, <1>2, <1>3, <1>4, <1>5, <1>6, <1>7, <1>8, <1>9, <1>10, <1>11, <1>12 DEF IInv

LEMMA FinalSyncSwitchesIInv ==
  ASSUME IInv, NEW e \in Execs, FinalSyncSwitches(e)
  PROVE  IInv'
<1>1. DataTypes'
  BY DEF IInv, DataTypes, FinalSyncSwitches, ExecUnchanged, SwStates
<1>2. ConnTypes'
  BY DEF IInv, FinalSyncSwitches, ConnTypes, ExecUnchanged
<1>3. ExecTypes'
  BY ExecMoves DEF IInv, FinalSyncSwitches, Next1, PCs
<1>4. LockInv'
  <2>1. \A d \in Execs \ {e} : ex'[d] = ex[d] /\ ~HoldsExecLock(d)
    BY DEF IInv, ExecTypes, LockInv, FinalSyncSwitches, Next1, HoldsExecLock, At
  <2>2. ex'[e].pc = "switched" /\ ex[e].pc = "finalApplied"
    BY DEF IInv, ExecTypes, Exec, FinalSyncSwitches, Next1, At
  <2>3. \A d \in Execs \ {e} : ex'[d].pc \in {"off", "stalled"}
    BY <2>1, <2>2 DEF HoldsExecLock
  <2> QED BY <2>1, <2>2, <2>3 DEF LockInv, HoldsExecLock, At
<1>5. PhaseInv'
  BY DEF IInv, FinalSyncSwitches, ExecTypes, LockInv, PhaseInv, At, Next1, HoldsExecLock,
     Resetting, Tracking
<1>6. ConnInv'
  BY DEF IInv, FinalSyncSwitches, ConnInv, ExecUnchanged
<1>7. IdInv'
  BY DEF IInv, FinalSyncSwitches, IdInv, ExecUnchanged, Next1, Wrote
<1>8. LogInv'
  BY DEF IInv, FinalSyncSwitches, LogInv, ExecUnchanged, Next1, Tracking, Wrote
<1>9. StopInv'
  BY DEF IInv, FinalSyncSwitches, StopInv, ExecUnchanged, Next1, StopsTheWorld, HoldsShared
<1>10. ReadInv'
  BY DEF IInv, FinalSyncSwitches, ReadInv, LogicalSync, Next1
<1>11. TrackInv'
  BY DEF IInv, FinalSyncSwitches, TrackInv, ExecUnchanged, At, Next1, Named, Applied
<1>12. LastInv'
  BY DEF IInv, FinalSyncSwitches, TrackInv, LastInv, ExecUnchanged
<1> QED BY <1>1, <1>2, <1>3, <1>4, <1>5, <1>6, <1>7, <1>8, <1>9, <1>10, <1>11, <1>12 DEF IInv

LEMMA FinalSyncDeletesIInv ==
  ASSUME IInv, NEW e \in Execs, FinalSyncDeletes(e)
  PROVE  IInv'
<1>1. DataTypes'
  BY DEF IInv, FinalSyncDeletes, DataTypes, ExecUnchanged, ExecDeleteChanges
<1>2. ConnTypes'
  BY DEF IInv, FinalSyncDeletes, ConnTypes, ExecUnchanged
<1>3. ExecTypes'
  <2> DEFINE x == [ex[e] EXCEPT !.pc = "done", !.ids = {}, !.read = NoRead]
  <2>1. ex[e] \in Exec
    BY DEF IInv, ExecTypes
  <2>2. "done" \in PCs /\ NoRead \in Partial
    BY ReadTypes DEF PCs
  <2>3. x \in Exec
    BY <2>1, <2>2 DEF Exec
  <2>4. ex' = [ex EXCEPT ![e] = x]
    BY DEF FinalSyncDeletes
  <2> HIDE DEF x
  <2> QED BY <2>3, <2>4, ExecSet DEF IInv
<1>4. LockInv'
  BY DEF IInv, FinalSyncDeletes, LockInv, At, HoldsExecLock
<1>5. PhaseInv'
  BY DEF IInv, FinalSyncDeletes, PhaseInv, Resetting, Tracking
<1>6. ConnInv'
  BY DEF IInv, FinalSyncDeletes, ConnInv, ExecUnchanged
<1>7. IdInv'
  BY DEF IInv, FinalSyncDeletes, IdInv, ExecUnchanged, ExecDeleteChanges, Wrote
<1>8. LogInv'
  BY DEF IInv, FinalSyncDeletes, LogInv, ExecUnchanged, Tracking, Wrote
<1>9. StopInv'
  BY DEF IInv, FinalSyncDeletes, StopInv, ExecUnchanged, StopsTheWorld, HoldsShared
<1>10. ReadInv'
  BY DEF IInv, FinalSyncDeletes, ReadInv, LogicalSync
<1>11. TrackInv'
  <2>1. \A d \in Execs \ {e} : ex'[d] = ex[d] /\ ~HoldsExecLock(d)
    BY DEF IInv, ExecTypes, LockInv, FinalSyncDeletes, HoldsExecLock, At
  <2>2. ex'[e].pc = "done"
    BY DEF IInv, ExecTypes, Exec, FinalSyncDeletes
  <2> QED BY <2>1, <2>2 DEF TrackInv, At, HoldsExecLock
<1>12. LastInv'
  BY DEF IInv, FinalSyncDeletes, LastInv, ExecUnchanged
<1> QED BY <1>1, <1>2, <1>3, <1>4, <1>5, <1>6, <1>7, <1>8, <1>9, <1>10, <1>11, <1>12 DEF IInv

LEMMA ManagerResetIInv ==
  ASSUME IInv, ManagerReset
  PROVE  IInv'
<1>1. DataTypes'
  BY DEF IInv, DataTypes, ManagerReset, DisableChangeLogTriggers, ExecUnchanged, SwStates
<1>2. ConnTypes'
  BY DEF IInv, ManagerReset, ConnTypes, ExecUnchanged
<1>3. ExecTypes'
  BY DEF IInv, ManagerReset, ExecTypes
<1>4. LockInv'
  BY DEF IInv, ManagerReset, LockInv, At, DisableChangeLogTriggers, HoldsExecLock
<1>5. PhaseInv'
  BY DEF IInv, ManagerReset, PhaseInv, HoldsExecLock, Tracking
<1>6. ConnInv'
  BY DEF IInv, ManagerReset, ConnInv, ExecUnchanged
<1>7. IdInv'
  BY DEF IInv, ManagerReset, IdInv, ExecUnchanged, Wrote
<1>8. LogInv'
  BY DEF ManagerReset, LogInv, HoldsExecLock, Tracking
<1>9. StopInv'
  BY DEF ManagerReset, StopInv, HoldsExecLock, StopsTheWorld
<1>10. ReadInv'
  BY DEF IInv, ManagerReset, ReadInv
<1>11. TrackInv'
  BY DEF IInv, ManagerReset, TrackInv, ExecUnchanged, At, Named, Applied
<1>12. LastInv'
  BY DEF IInv, ManagerReset, LastInv, ExecUnchanged, DisableChangeLogTriggers
<1> QED BY <1>1, <1>2, <1>3, <1>4, <1>5, <1>6, <1>7, <1>8, <1>9, <1>10, <1>11, <1>12 DEF IInv

LEMMA StutterIInv ==
  ASSUME IInv, Stutter
  PROVE  IInv'
<1>1. DataTypes'
  BY DEF IInv, Stutter, DataTypes, vars
<1>2. ConnTypes'
  BY DEF IInv, Stutter, ConnTypes, vars
<1>3. ExecTypes'
  BY DEF IInv, Stutter, ExecTypes, vars
<1>4. LockInv'
  BY DEF IInv, Stutter, LockInv, vars, At, HoldsExecLock
<1>5. PhaseInv'
  BY DEF IInv, Stutter, PhaseInv, vars
<1>6. ConnInv'
  BY DEF IInv, Stutter, ConnInv, vars
<1>7. IdInv'
  BY DEF IInv, Stutter, IdInv, vars, Wrote
<1>8. LogInv'
  BY DEF IInv, Stutter, LogInv, vars, Wrote
<1>9. StopInv'
  BY DEF IInv, Stutter, StopInv, vars, StopsTheWorld, HoldsShared
<1>10. ReadInv'
  BY DEF IInv, Stutter, ReadInv, vars
<1>11. TrackInv'
  BY DEF IInv, Stutter, TrackInv, ExecUnchanged, vars, At, Named, Applied
<1>12. LastInv'
  BY DEF IInv, Stutter, LastInv, vars
<1> QED BY <1>1, <1>2, <1>3, <1>4, <1>5, <1>6, <1>7, <1>8, <1>9, <1>10, <1>11, <1>12 DEF IInv

LEMMA ExecStepIInv == ASSUME IInv, NEW e \in Execs, ExecStep(e) PROVE IInv'
<1>1. CASE \/ ResetDisables(e) \/ ResetDrops(e) \/ ResetTruncates(e)
           \/ StartCreates(e) \/ EnableChangeLogTriggers(e) \/ StartReadsNow(e) \/ StartWaits(e)
  BY <1>1, ResetDisablesIInv, ResetDropsIInv, ResetTruncatesIInv, StartCreatesIInv,
     EnableChangeLogTriggersIInv, StartReadsNowIInv, StartWaitsIInv
<1>2. CASE \/ FullInitialSyncReads(e) \/ FullInitialSyncCopies(e)
           \/ LogicalSyncReads(e) \/ LogicalSyncApplies(e) \/ LogicalSyncDeletes(e) \/ SyncEnds(e)
  BY <1>2, FullInitialSyncReadsIInv, FullInitialSyncCopiesIInv, LogicalSyncReadsIInv,
     LogicalSyncAppliesIInv, LogicalSyncDeletesIInv, SyncEndsIInv
<1>3. CASE \/ FinalSyncStops(e) \/ FinalSyncReads(e) \/ FinalSyncApplies(e)
           \/ FinalSyncSwitches(e) \/ FinalSyncDeletes(e)
  BY <1>3, FinalSyncStopsIInv, FinalSyncReadsIInv, FinalSyncAppliesIInv,
     FinalSyncSwitchesIInv, FinalSyncDeletesIInv
<1> QED BY <1>1, <1>2, <1>3 DEF ExecStep

LEMMA NextIInv == ASSUME IInv, [Next]_vars PROVE IInv'
<1>1. ASSUME NEW c \in Conns,
             \/ Acquire(c) \/ ConnLocked(c) \/ BeginTx(c) \/ Write(c)
             \/ Commit(c) \/ Rollback(c) \/ Release(c) \/ WriteNew(c)
      PROVE  IInv'
  BY <1>1, AcquireIInv, ConnLockedIInv, BeginTxIInv, WriteIInv, CommitIInv, RollbackIInv,
     ReleaseIInv, WriteNewIInv
<1>2. ASSUME NEW e \in Execs,
             \/ SyncBegins(e) \/ ExecStep(e) \/ ExecBegins(e)
             \/ Cancel(e) \/ Crash(e) \/ Stall(e) \/ StalledApplies(e)
      PROVE  IInv'
  BY <1>2, SyncBeginsIInv, ExecStepIInv, ExecBeginsIInv, CancelIInv, CrashIInv, StallIInv,
     StalledAppliesIInv
<1>3. CASE ManagerReset
  BY <1>3, ManagerResetIInv
<1>4. CASE UNCHANGED vars
  BY <1>4, StutterIInv DEF Stutter
<1> QED BY <1>1, <1>2, <1>3, <1>4 DEF Next

LEMMA InitIInv == Init => IInv
<1> SUFFICES ASSUME Init PROVE IInv
  OBVIOUS
<1>1. 0 \in Values /\ "idle" \in SwStates
  BY Naturals DEF Values, SwStates
<1>2. DataTypes
  <2>1. old \in [Rows -> Values] /\ new \in [Rows -> Values] /\ last \in [Rows -> Values]
    BY <1>1 DEF Init
  <2>2. swState \in SwStates /\ triggers \in BOOLEAN /\ changes = {} /\ late = {} /\ stale = {}
    BY <1>1 DEF Init
  <2>3. used \in [writes : Values, starts : 0..MaxStarts, stalls : 0..MaxStalls]
    BY <1>1, Naturals DEF Init
  <2> QED BY <2>1, <2>2, <2>3 DEF DataTypes
<1>3. ConnTypes
  BY ReleasedType DEF Init, ConnTypes
<1>4. ExecTypes
  <2> DEFINE x == [pc |-> "off", rep |-> FALSE, wait |-> {}, ids |-> {}, read |-> NoRead, left |-> 0]
  <2>1. x \in Exec
    BY Naturals, ReadTypes DEF Exec, PCs
  <2> QED BY <2>1 DEF Init, ExecTypes
<1>5. \A e \in Execs : ex[e].pc = "off" /\ ex[e].ids = {}
  BY DEF Init
<1>6. \A c \in Conns : conn[c].phase = "idle" /\ conn[c].saw = "idle" /\ ~conn[c].isDone
  BY DEF Init, Released
<1>7. LockInv /\ PhaseInv /\ LogInv /\ StopInv
  BY <1>5, <1>6 DEF Init, LockInv, PhaseInv, LogInv, StopInv, HoldsExecLock, At, Resetting,
     Tracking, Wrote, StopsTheWorld
<1>8. ConnInv /\ IdInv
  BY <1>5, <1>6 DEF Init, ConnInv, IdInv, Wrote
<1>9. ReadInv /\ TrackInv
  BY <1>5 DEF ReadInv, TrackInv, LogicalSync, At
<1>10. LastInv
  BY DEF Init, LastInv
<1> QED BY <1>2, <1>3, <1>4, <1>7, <1>8, <1>9, <1>10 DEF IInv

----------------------------------------------------------------------------
(* The theorems                                                            *)

(* What every reachable state satisfies, whoever stalls and writes over    *)
(* the work of others: the trigger is in place before the snapshot, open   *)
(* writes are logged or waited for, every row that differs is named by an  *)
(* entry that will outlive the deletion, or was written over.              *)
THEOREM Inductive == Spec => []IInv
<1>1. IInv /\ [Next]_vars => IInv'
  BY NextIInv
<1> QED BY <1>1, InitIInv, PTL DEF Spec

(* The database in charge holds the last committed value of every row but  *)
(* the late ones and those a stalled executor wrote over, whenever a step  *)
(* of the synchronisation fails and whenever the switch comes              *)
(* (Executor.Sync, Executor.Exec, FinalSync).                              *)
THEOREM OnlyLateWritesLost == Spec => []LostOnlyLate
<1>1. IInv => LostOnlyLate
  <2> SUFFICES ASSUME IInv PROVE LostOnlyLate
    OBVIOUS
  <2>1. SyncTypeOK
    BY DEF IInv, DataTypes, ConnTypes, ExecTypes, Conn, Exec, SyncTypeOK
  <2>2. \A r \in Rows \ (late \cup stale) : CurrentDB[r] = last[r]
    BY DEF IInv, LastInv, CurrentDB
  <2> QED BY <2>1, <2>2 DEF LostOnlyLate
<1> QED BY <1>1, Inductive, PTL

(* From the first copy on, a row in which the databases differ is named by *)
(* the change log, unless a stalled executor wrote over it (doSync,        *)
(* ExecDeleteChanges).                                                     *)
THEOREM RowsStayTracked == Spec => []RowsTracked
<1>1. IInv => RowsTracked
  BY DEF IInv, TrackInv, RowsTracked, Named
<1> QED BY <1>1, Inductive, PTL

----------------------------------------------------------------------------
(***************************************************************************)
(* The views                                                               *)
(*                                                                         *)
(* What the message loop makes of a log, whoever runs it: the view after a *)
(* message is a function of the message and the view before it.  V is the  *)
(* sequence of views of a log L; it is extended by one view whenever a     *)
(* message is appended, so that no recursion is needed to speak of it.     *)
(***************************************************************************)

Messages == [type : MessageTypes, node : Nodes, ack : Nat]
Views == [state : ClusterStates, nodes : SUBSET Nodes, paused : SUBSET Nodes,
          leaderID : Nodes \cup {NoNode}, lastMsgID : Nat]
Tasks == [fn : TaskFns, ack : Nat, cancelled : BOOLEAN, phase : {"run", "ok", "err"}]

Blank == [state |-> "Unknown", nodes |-> {}, paused |-> {}, leaderID |-> NoNode, lastMsgID |-> 0]

(* The views that the messages make. *)
Fresh(i) ==
    [state |-> "Resetting", nodes |-> {}, paused |-> {}, leaderID |-> NoNode, lastMsgID |-> i]

Moved(v, state, i) == [v EXCEPT !.state = state, !.lastMsgID = i]

Greeted(v, from) ==
    LET leads == v.leaderID = NoNode /\ from \in CanExec
    IN  [v EXCEPT !.nodes = @ \cup {from}, !.leaderID = IF leads THEN from ELSE @]

Halted(v, from, i) ==
    LET paused == v.paused \cup {from}
        all    == v.nodes \subseteq paused
    IN  [v EXCEPT !.paused = paused, !.state = IF all THEN "Executing" ELSE @,
                  !.lastMsgID = IF all THEN i ELSE @]

AllPaused(v, from) == v.nodes \subseteq v.paused \cup {from}

Left(v) == [v EXCEPT !.state = "Unknown"]

Fits(v, m, state, type) == v.state = state /\ m.type = type /\ m.ack = v.lastMsgID

Folded(v, m, i) ==
    IF m.type = "reset" THEN Fresh(i)
    ELSE IF Fits(v, m, "Resetting", "hello") THEN Greeted(v, m.node)
    ELSE IF Fits(v, m, "Resetting", "reset-end") THEN Moved(v, "Idle", i)
    ELSE IF Fits(v, m, "Idle", "execute") THEN Moved(v, "Syncing", i)
    ELSE IF Fits(v, m, "Syncing", "pause") THEN Moved(v, "Pausing", i)
    ELSE IF Fits(v, m, "Pausing", "paused") THEN Halted(v, m.node, i)
    ELSE IF Fits(v, m, "Executing", "done") THEN [v EXCEPT !.state = "Done"]
    ELSE IF m.type = "error" /\ m.ack # v.lastMsgID THEN v
    ELSE Left(v)

InSwitch == {"Pausing", "Executing"}

(* The last reset before position i, and a pause that x has acknowledged. *)
ResetAt(L, r, i) == r < i /\ L[r].type = "reset" /\ \A k \in (r + 1)..(i - 1) : L[k].type # "reset"

PausedFrom(L, x, p, i) ==
    \E j \in 1..i : L[j].type = "paused" /\ L[j].node = x /\ L[j].ack = p

(* Who said hello since the last reset is a member. *)
Members(L, V, i) ==
    V[i].state # "Unknown" =>
        \E r \in 1..i : /\ ResetAt(L, r, i + 1)
                        /\ \A j \in (r + 1)..i : L[j].type = "hello" => L[j].node \in V[i].nodes

(* Who counts as paused has acknowledged the pause that is under way, and  *)
(* the execution begins when all members have.                             *)
Halting(L, V, i) ==
    /\ V[i].state \in {"Resetting", "Idle", "Syncing"} => V[i].paused = {}
    /\ V[i].state = "Pausing" =>
          /\ V[i].lastMsgID \in 1..i
          /\ \A x \in V[i].paused : PausedFrom(L, x, V[i].lastMsgID, i)
          /\ \A k \in V[i].lastMsgID..i : V[k].state = "Pausing"
    /\ V[i].state = "Executing" =>
          /\ V[i].nodes \subseteq V[i].paused
          /\ \E p \in 1..i : /\ \A x \in V[i].paused : PausedFrom(L, x, p, i)
                             /\ \A k \in p..i : V[k].state \in InSwitch

(* The leader is a member. *)
Simple(V, i) == V[i].lastMsgID <= i /\ V[i].leaderID \in V[i].nodes \cup {NoNode}

(* A reset answers to its own message. *)
Opened(V, i) ==
    V[i].state = "Resetting" =>
        V[i].lastMsgID \in 1..i /\ V[V[i].lastMsgID] = Fresh(V[i].lastMsgID)

(* While the last message is the same the leader does not change. *)
Steady(V, i) ==
    \A h \in 0..i : V[h].lastMsgID = V[i].lastMsgID /\ V[h].leaderID # NoNode
                        => V[i].leaderID = V[h].leaderID

(* Each view is made from the one before, and no message answers a later one. *)
Linked(L, V, i) == V[i] = Folded(V[i - 1], L[i], i) /\ L[i].ack < i

ViewsInv(L, V) ==
    /\ V[0] = Blank
    /\ \A i \in 1..Len(L) : Linked(L, V, i)
    /\ \A i \in 0..Len(L) : /\ Simple(V, i) /\ Members(L, V, i) /\ Halting(L, V, i)
                            /\ Opened(V, i) /\ Steady(V, i)

----------------------------------------------------------------------------

(* The fields of the views that a message makes. *)
LEMMA MovedFields ==
  ASSUME NEW v \in Views, NEW s \in ClusterStates, NEW i \in Nat
  PROVE  /\ Moved(v, s, i) \in Views /\ Moved(v, s, i).state = s
         /\ Moved(v, s, i).lastMsgID = i /\ Moved(v, s, i).nodes = v.nodes
         /\ Moved(v, s, i).paused = v.paused /\ Moved(v, s, i).leaderID = v.leaderID
BY DEF Moved, Views

LEMMA GreetedFields ==
  ASSUME NEW v \in Views, NEW x \in Nodes
  PROVE  /\ Greeted(v, x) \in Views /\ Greeted(v, x).state = v.state
         /\ Greeted(v, x).lastMsgID = v.lastMsgID
         /\ Greeted(v, x).nodes = v.nodes \cup {x} /\ Greeted(v, x).paused = v.paused
         /\ Greeted(v, x).leaderID =
                IF v.leaderID = NoNode /\ x \in CanExec THEN x ELSE v.leaderID
BY DEF Greeted, Views

LEMMA HaltedFields ==
  ASSUME NEW v \in Views, NEW x \in Nodes, NEW i \in Nat
  PROVE  /\ Halted(v, x, i) \in Views /\ Halted(v, x, i).nodes = v.nodes
         /\ Halted(v, x, i).paused = v.paused \cup {x}
         /\ Halted(v, x, i).leaderID = v.leaderID
         /\ Halted(v, x, i).state = IF AllPaused(v, x) THEN "Executing" ELSE v.state
         /\ Halted(v, x, i).lastMsgID = IF AllPaused(v, x) THEN i ELSE v.lastMsgID
BY DEF Halted, AllPaused, Views, ClusterStates

LEMMA StateFields ==
  ASSUME NEW v \in Views, NEW s \in ClusterStates, NEW w, w = [v EXCEPT !.state = s]
  PROVE  /\ w \in Views /\ w.state = s /\ w.lastMsgID = v.lastMsgID
         /\ w.nodes = v.nodes /\ w.paused = v.paused /\ w.leaderID = v.leaderID
BY DEF Views

LEMMA FoldedType ==
  ASSUME NEW v \in Views, NEW m \in Messages, NEW i \in Nat
  PROVE  Folded(v, m, i) \in Views
<1>1. /\ m.node \in Nodes
      /\ "Unknown" \in ClusterStates /\ "Resetting" \in ClusterStates
      /\ "Idle" \in ClusterStates /\ "Syncing" \in ClusterStates
      /\ "Pausing" \in ClusterStates /\ "Done" \in ClusterStates
  BY DEF Messages, ClusterStates
<1>2. Fresh(i) \in Views
  BY <1>1 DEF Fresh, Views
<1>3. /\ Moved(v, "Idle", i) \in Views /\ Moved(v, "Syncing", i) \in Views
      /\ Moved(v, "Pausing", i) \in Views /\ Greeted(v, m.node) \in Views
      /\ Halted(v, m.node, i) \in Views /\ [v EXCEPT !.state = "Done"] \in Views
      /\ Left(v) \in Views
  BY <1>1, MovedFields, GreetedFields, HaltedFields, StateFields DEF Left
<1> QED BY <1>2, <1>3 DEF Folded

(* What can become of a view. *)
LEMMA FoldedCases ==
  ASSUME NEW v \in Views, NEW m \in Messages, NEW i \in Nat, NEW w, w = Folded(v, m, i)
  PROVE  \/ m.type = "reset" /\ w = Fresh(i)
         \/ Fits(v, m, "Resetting", "hello") /\ w = Greeted(v, m.node)
         \/ Fits(v, m, "Resetting", "reset-end") /\ w = Moved(v, "Idle", i)
         \/ Fits(v, m, "Idle", "execute") /\ w = Moved(v, "Syncing", i)
         \/ Fits(v, m, "Syncing", "pause") /\ w = Moved(v, "Pausing", i)
         \/ Fits(v, m, "Pausing", "paused") /\ w = Halted(v, m.node, i)
         \/ Fits(v, m, "Executing", "done") /\ w = [v EXCEPT !.state = "Done"]
         \/ m.type = "error" /\ w = v
         \/ m.type \notin {"reset", "error"} /\ w = Left(v)
         \/ m.type = "error" /\ w = Left(v)
BY DEF Folded

(* What every message leaves of a view. *)
LEMMA FoldedFacts ==
  ASSUME NEW v \in Views, NEW m \in Messages, NEW i \in Nat, NEW w, w = Folded(v, m, i)
  PROVE  /\ \/ w.lastMsgID = i
            \/ /\ w.lastMsgID = v.lastMsgID
               /\ v.leaderID # NoNode => w.leaderID = v.leaderID
         /\ v.leaderID \in v.nodes \cup {NoNode} => w.leaderID \in w.nodes \cup {NoNode}
         /\ w.state # "Unknown" /\ m.type # "reset" =>
              /\ v.state # "Unknown" /\ v.nodes \subseteq w.nodes
              /\ m.type = "hello" => m.node \in w.nodes
<1>1. CASE m.type = "reset" /\ w = Fresh(i)
  BY <1>1 DEF Fresh
<1>2. CASE Fits(v, m, "Resetting", "hello") /\ w = Greeted(v, m.node)
  BY <1>2 DEF Fits, Greeted
<1>3. CASE Fits(v, m, "Resetting", "reset-end") /\ w = Moved(v, "Idle", i)
  BY <1>3 DEF Fits, Moved
<1>4. CASE Fits(v, m, "Idle", "execute") /\ w = Moved(v, "Syncing", i)
  BY <1>4 DEF Fits, Moved
<1>5. CASE Fits(v, m, "Syncing", "pause") /\ w = Moved(v, "Pausing", i)
  BY <1>5 DEF Fits, Moved
<1>6. CASE Fits(v, m, "Pausing", "paused") /\ w = Halted(v, m.node, i)
  BY <1>6 DEF Fits, Halted
<1>7. CASE Fits(v, m, "Executing", "done") /\ w = [v EXCEPT !.state = "Done"]
  BY <1>7 DEF Fits, Moved
<1>8. CASE m.type = "error" /\ w = v
  BY <1>8
<1>9. CASE w = Left(v)
  BY <1>9 DEF Left
<1> QED BY <1>1, <1>2, <1>3, <1>4, <1>5, <1>6, <1>7, <1>8, <1>9, FoldedCases

LEMMA SimpleStep ==
  ASSUME NEW L \in Seq(Messages), NEW V \in [Nat -> Views], NEW i \in 1..Len(L),
         Linked(L, V, i), Simple(V, i - 1)
  PROVE  Simple(V, i)
<1>1. i \in Nat /\ i - 1 \in Nat /\ L[i] \in Messages /\ V[i - 1] \in Views
  BY ElementOfSeq, LenProperties
<1>2. V[i] = Folded(V[i - 1], L[i], i)
  BY DEF Linked
<1>3. V[i].lastMsgID = i \/ V[i].lastMsgID = V[i - 1].lastMsgID
  BY <1>1, <1>2, FoldedFacts
<1>4. V[i].lastMsgID <= i
  <2>1. V[i - 1].lastMsgID \in Nat /\ V[i - 1].lastMsgID <= i - 1
    BY <1>1 DEF Simple, Views
  <2> QED BY <1>1, <1>3, <2>1
<1>5. V[i].leaderID \in V[i].nodes \cup {NoNode}
  BY <1>1, <1>2, FoldedFacts DEF Simple
<1> QED BY <1>4, <1>5 DEF Simple

LEMMA OpenedStep ==
  ASSUME NEW L \in Seq(Messages), NEW V \in [Nat -> Views], NEW i \in 1..Len(L),
         Linked(L, V, i), Opened(V, i - 1)
  PROVE  Opened(V, i)
<1>1. /\ i \in Nat /\ i - 1 \in Nat /\ L[i] \in Messages /\ V[i - 1] \in Views
      /\ L[i].node \in Nodes
  <2>1. i \in Nat /\ i - 1 \in Nat /\ L[i] \in Messages /\ V[i - 1] \in Views
    BY ElementOfSeq, LenProperties
  <2> QED BY <2>1 DEF Messages
<1>2. V[i] = Folded(V[i - 1], L[i], i)
  BY DEF Linked
<1> DEFINE v == V[i - 1]
           m == L[i]
<1>3. \A a \in 1..(i - 1) : a \in 1..i
  BY <1>1
<1>4. CASE V[i] = Fresh(i)
  <2>1. i \in 1..i /\ V[i].lastMsgID = i
    BY <1>1, <1>4 DEF Fresh
  <2> QED BY <1>4, <2>1 DEF Opened
<1>5. CASE v.state = "Resetting" /\ V[i] = Greeted(v, m.node)
  <2>1. V[i].lastMsgID = v.lastMsgID
    BY <1>1, <1>5, GreetedFields
  <2> QED BY <1>3, <1>5, <2>1 DEF Opened
<1>6. CASE V[i] = v
  BY <1>3, <1>6 DEF Opened
<1>7. CASE V[i].state # "Resetting"
  BY <1>7 DEF Opened
<1>8. V[i] = Fresh(i) \/ V[i] = v \/ V[i].state # "Resetting"
      \/ (v.state = "Resetting" /\ V[i] = Greeted(v, m.node))
  <2>1. /\ "Unknown" \in ClusterStates /\ "Idle" \in ClusterStates /\ "Syncing" \in ClusterStates
        /\ "Pausing" \in ClusterStates /\ "Done" \in ClusterStates
    BY DEF ClusterStates
  <2>2. CASE Fits(v, m, "Pausing", "paused") /\ V[i] = Halted(v, m.node, i)
    BY <1>1, <2>2, HaltedFields DEF Fits
  <2>3. CASE V[i] = Moved(v, "Idle", i)
    <3>1. "Idle" \in ClusterStates
      BY <2>1
    <3> QED BY <1>1, <2>3, <3>1, MovedFields
  <2>4. CASE V[i] = Moved(v, "Syncing", i)
    <3>1. "Syncing" \in ClusterStates
      BY <2>1
    <3> QED BY <1>1, <2>4, <3>1, MovedFields
  <2>5. CASE V[i] = Moved(v, "Pausing", i)
    <3>1. "Pausing" \in ClusterStates
      BY <2>1
    <3> QED BY <1>1, <2>5, <3>1, MovedFields
  <2>6. CASE V[i] = [v EXCEPT !.state = "Done"]
    BY <1>1, <2>1, <2>6, StateFields
  <2>7. CASE V[i] = Left(v)
    BY <1>1, <2>1, <2>7, StateFields DEF Left
  <2> QED BY <1>1, <1>2, <2>2, <2>3, <2>4, <2>5, <2>6, <2>7, FoldedCases DEF Fits
<1> QED BY <1>4, <1>5, <1>6, <1>7, <1>8

LEMMA MembersStep ==
  ASSUME NEW L \in Seq(Messages), NEW V \in [Nat -> Views], NEW i \in 1..Len(L),
         Linked(L, V, i), Members(L, V, i - 1)
  PROVE  Members(L, V, i)
<1>1. i \in Nat /\ i - 1 \in Nat /\ L[i] \in Messages /\ V[i - 1] \in Views
  BY ElementOfSeq, LenProperties
<1>2. V[i] = Folded(V[i - 1], L[i], i)
  BY DEF Linked
<1>3. CASE L[i].type = "reset"
  BY <1>1, <1>3 DEF Members, ResetAt
<1>4. CASE V[i].state # "Unknown" /\ L[i].type # "reset"
  <2>1. /\ V[i - 1].state # "Unknown" /\ V[i - 1].nodes \subseteq V[i].nodes
        /\ L[i].type = "hello" => L[i].node \in V[i].nodes
    BY <1>1, <1>2, <1>4, FoldedFacts
  <2>2. PICK r \in 1..(i - 1) :
           /\ ResetAt(L, r, i)
           /\ \A j \in (r + 1)..(i - 1) : L[j].type = "hello" => L[j].node \in V[i - 1].nodes
    <3>1. (i - 1) + 1 = i
      BY <1>1
    <3> QED BY <2>1, <3>1 DEF Members
  <2>3. r \in 1..i /\ ResetAt(L, r, i + 1)
    BY <1>1, <1>4, <2>2 DEF ResetAt
  <2>4. \A j \in (r + 1)..i : L[j].type = "hello" => L[j].node \in V[i].nodes
    BY <1>1, <2>1, <2>2
  <2> QED BY <2>3, <2>4 DEF Members
<1> QED BY <1>3, <1>4 DEF Members

LEMMA SteadyStep ==
  ASSUME NEW L \in Seq(Messages), NEW V \in [Nat -> Views], NEW i \in 1..Len(L),
         Linked(L, V, i), Steady(V, i - 1), \A h \in 0..(i - 1) : Simple(V, h)
  PROVE  Steady(V, i)
<1>1. i \in Nat /\ i - 1 \in Nat /\ L[i] \in Messages /\ V[i - 1] \in Views
  BY ElementOfSeq, LenProperties
<1>2. V[i] = Folded(V[i - 1], L[i], i)
  BY DEF Linked
<1>3. \/ V[i].lastMsgID = i
      \/ /\ V[i].lastMsgID = V[i - 1].lastMsgID
         /\ V[i - 1].leaderID # NoNode => V[i].leaderID = V[i - 1].leaderID
  BY <1>1, <1>2, FoldedFacts
<1>4. \A h \in 0..(i - 1) : V[h].lastMsgID # i
  BY <1>1 DEF Simple, Views
<1>5. \A h \in 0..i : h = i \/ h \in 0..(i - 1)
  BY <1>1
<1> QED BY <1>1, <1>3, <1>4, <1>5 DEF Steady

LEMMA HaltingStep ==
  ASSUME NEW L \in Seq(Messages), NEW V \in [Nat -> Views], NEW i \in 1..Len(L),
         Linked(L, V, i), Halting(L, V, i - 1)
  PROVE  Halting(L, V, i)
<1>1. i \in Nat /\ i - 1 \in Nat /\ L[i] \in Messages /\ V[i - 1] \in Views /\ V[i] \in Views
  BY ElementOfSeq, LenProperties
<1>2. V[i] = Folded(V[i - 1], L[i], i)
  BY DEF Linked
<1> DEFINE v == V[i - 1]
           m == L[i]
<1>3. CASE m.type = "reset" /\ V[i] = Fresh(i)
  BY <1>3 DEF Fresh, Halting
<1>4. CASE Fits(v, m, "Resetting", "hello") /\ V[i] = Greeted(v, m.node)
  BY <1>4 DEF Fits, Greeted, Halting
<1>5. CASE Fits(v, m, "Resetting", "reset-end") /\ V[i] = Moved(v, "Idle", i)
  BY <1>5 DEF Fits, Moved, Halting
<1>6. CASE Fits(v, m, "Idle", "execute") /\ V[i] = Moved(v, "Syncing", i)
  BY <1>6 DEF Fits, Moved, Halting
<1>7. CASE Fits(v, m, "Syncing", "pause") /\ V[i] = Moved(v, "Pausing", i)
  <2>1. /\ V[i].state = "Pausing" /\ V[i].lastMsgID = i /\ V[i].paused = v.paused
        /\ v.state = "Syncing"
    <3>1. "Pausing" \in ClusterStates /\ v.state = "Syncing"
      BY <1>7 DEF ClusterStates, Fits
    <3> QED BY <1>1, <1>7, <3>1, MovedFields
  <2>2. i \in 1..i /\ \A k \in i..i : k = i
    BY <1>1
  <2> QED BY <2>1, <2>2 DEF Halting
<1>8. CASE Fits(v, m, "Pausing", "paused") /\ V[i] = Halted(v, m.node, i)
  <2> DEFINE p == v.lastMsgID
  <2>1. /\ p \in 1..(i - 1)
        /\ \A x \in v.paused : PausedFrom(L, x, p, i - 1)
        /\ \A k \in p..(i - 1) : V[k].state = "Pausing"
    BY <1>8 DEF Fits, Halting
  <2>2. p \in 1..i /\ \A k \in p..i : k = i \/ k \in p..(i - 1)
    BY <1>1, <2>1
  <2>3. PausedFrom(L, m.node, p, i)
    BY <1>1, <1>8 DEF Fits, PausedFrom
  <2>4. \A x \in v.paused \cup {m.node} : PausedFrom(L, x, p, i)
    <3>1. \A j \in 1..(i - 1) : j \in 1..i
      BY <1>1
    <3> QED BY <2>1, <2>3, <3>1 DEF PausedFrom
  <2> HIDE DEF p
  <2>5. CASE AllPaused(v, m.node)
    <3>1. V[i].state = "Executing" /\ V[i].nodes \subseteq V[i].paused
          /\ V[i].paused = v.paused \cup {m.node}
      BY <1>8, <2>5 DEF Halted, AllPaused
    <3>2. \A k \in p..i : V[k].state \in InSwitch
      BY <2>1, <2>2, <3>1 DEF InSwitch
    <3> QED BY <2>2, <2>4, <3>1, <3>2 DEF Halting
  <2>6. CASE ~AllPaused(v, m.node)
    <3>1. /\ V[i].state = "Pausing" /\ V[i].lastMsgID = p
          /\ V[i].paused = v.paused \cup {m.node}
      <4>1. m.node \in Nodes /\ v.state = "Pausing"
        BY <1>1, <1>8 DEF Messages, Fits
      <4>2. V[i] = Halted(v, m.node, i) /\ v \in Views /\ i \in Nat
        BY <1>1, <1>8
      <4>3. /\ Halted(v, m.node, i).state = IF AllPaused(v, m.node) THEN "Executing" ELSE v.state
            /\ Halted(v, m.node, i).lastMsgID = IF AllPaused(v, m.node) THEN i ELSE v.lastMsgID
            /\ Halted(v, m.node, i).paused = v.paused \cup {m.node}
        BY <4>1, <4>2, HaltedFields
      <4> QED BY <2>6, <4>1, <4>2, <4>3 DEF p
    <3>2. \A k \in p..i : V[k].state = "Pausing"
      BY <2>1, <2>2, <3>1
    <3> QED BY <2>2, <2>4, <3>1, <3>2 DEF Halting
  <2> QED BY <2>5, <2>6
<1>9. CASE Fits(v, m, "Executing", "done") /\ V[i] = [v EXCEPT !.state = "Done"]
  BY <1>9 DEF Moved, Halting
<1>10. CASE m.type = "error" /\ V[i] = v
  <2>1. \A j \in 1..(i - 1) : j \in 1..i
    BY <1>1
  <2>2. \A x, p : PausedFrom(L, x, p, i - 1) => PausedFrom(L, x, p, i)
    BY <2>1 DEF PausedFrom
  <2>3. \A p \in 1..(i - 1) : \A k \in p..i : k = i \/ k \in p..(i - 1)
    BY <1>1
  <2>4. CASE v.state = "Pausing"
    BY <1>10, <2>1, <2>2, <2>3, <2>4 DEF Halting
  <2>5. CASE v.state = "Executing"
    <3>1. PICK p \in 1..(i - 1) : /\ \A x \in v.paused : PausedFrom(L, x, p, i - 1)
                                  /\ \A k \in p..(i - 1) : V[k].state \in InSwitch
      BY <2>5 DEF Halting
    <3>2. p \in 1..i /\ \A k \in p..i : V[k].state \in InSwitch
      BY <1>10, <2>1, <2>3, <2>5, <3>1 DEF InSwitch
    <3> QED BY <1>10, <2>2, <2>5, <3>1, <3>2 DEF Halting
  <2> QED BY <1>10, <2>4, <2>5 DEF Halting
<1>11. CASE V[i] = Left(v)
  BY <1>11 DEF Left, Halting
<1> QED BY <1>1, <1>2, <1>3, <1>4, <1>5, <1>6, <1>7, <1>8, <1>9, <1>10, <1>11, FoldedCases

(* A message more extends the views by one. *)
LEMMA Extends ==
  ASSUME NEW L \in Seq(Messages), NEW V \in [Nat -> Views], ViewsInv(L, V),
         NEW m \in Messages, m.ack <= Len(L)
  PROVE  \E W \in [Nat -> Views] :
            ViewsInv(Append(L, m), W) /\ \A i \in 0..Len(L) : W[i] = V[i]
<1> DEFINE N == Len(L)
           M == Append(L, m)
           W == [V EXCEPT ![N + 1] = Folded(V[N], m, N + 1)]
<1>1. /\ M \in Seq(Messages) /\ Len(M) = N + 1 /\ N \in Nat
      /\ M[N + 1] = m /\ \A i \in 1..N : M[i] = L[i]
  BY AppendProperties, LenProperties
<1>2. Folded(V[N], m, N + 1) \in Views
  BY <1>1, FoldedType
<1>3. /\ W \in [Nat -> Views] /\ W[N + 1] = Folded(V[N], m, N + 1)
      /\ \A i \in 0..N : W[i] = V[i]
  BY <1>1, <1>2
<1> HIDE DEF M, W
<1>4. /\ \A i \in 0..(N + 1) : i \in 0..N \/ i = N + 1
      /\ \A i \in 1..(N + 1) : i \in 1..N \/ i = N + 1
      /\ \A i \in 1..N : i \in 0..N /\ i - 1 \in 0..N
  BY <1>1
<1>5. W[0] = Blank
  BY <1>1, <1>3 DEF ViewsInv
<1>6. \A i \in 1..(N + 1) : Linked(M, W, i)
  <2>1. \A i \in 1..N : Linked(M, W, i)
    BY <1>1, <1>3, <1>4 DEF ViewsInv, Linked
  <2>2. Linked(M, W, N + 1)
    <3>1. (N + 1) - 1 = N /\ N \in 0..N /\ m.ack \in Nat /\ m.ack < N + 1
      BY <1>1 DEF Messages
    <3> QED BY <1>1, <1>3, <3>1 DEF Linked
  <2> QED BY <1>4, <2>1, <2>2
<1>7. \A i \in 0..N : /\ Simple(W, i) /\ Members(M, W, i) /\ Halting(M, W, i)
                      /\ Opened(W, i) /\ Steady(W, i)
  <2> TAKE i \in 0..N
  <2>1. Simple(V, i) /\ Members(L, V, i) /\ Halting(L, V, i) /\ Opened(V, i) /\ Steady(V, i)
    BY DEF ViewsInv
  <2>2. /\ W[i] = V[i] /\ i \in Nat /\ i <= N
        /\ \A h \in 0..i : W[h] = V[h]
        /\ \A j \in 1..i : M[j] = L[j]
    BY <1>1, <1>3
  <2>3. Simple(W, i) /\ Opened(W, i) /\ Steady(W, i)
    <3>1. \A h \in 1..i : h \in 0..i
      BY <2>2
    <3> QED BY <2>1, <2>2, <3>1 DEF Simple, Opened, Steady
  <2>4. Members(M, W, i)
    <3>1. \A r \in 1..i : ResetAt(L, r, i + 1) => ResetAt(M, r, i + 1)
      <4> TAKE r \in 1..i
      <4>1. \A k \in (r + 1)..((i + 1) - 1) : k \in 1..i
        BY <2>2
      <4> QED BY <2>2, <4>1 DEF ResetAt
    <3>2. \A r \in 1..i : \A j \in (r + 1)..i : j \in 1..i
      BY <2>2
    <3> QED BY <2>1, <2>2, <3>1, <3>2 DEF Members
  <2>5. Halting(M, W, i)
    <3>1. \A x, p : PausedFrom(L, x, p, i) => PausedFrom(M, x, p, i)
      BY <2>2 DEF PausedFrom
    <3>2. \A p \in 1..i : \A k \in p..i : k \in 0..i
      BY <2>2
    <3> QED BY <2>1, <2>2, <3>1, <3>2 DEF Halting
  <2> QED BY <2>3, <2>4, <2>5
<1>8. /\ Simple(W, N + 1) /\ Members(M, W, N + 1) /\ Halting(M, W, N + 1)
      /\ Opened(W, N + 1) /\ Steady(W, N + 1)
  <2>1. N + 1 \in 1..Len(M) /\ (N + 1) - 1 = N /\ N \in 0..N
    BY <1>1
  <2> QED BY <1>1, <1>3, <1>6, <1>7, <2>1, SimpleStep, MembersStep, HaltingStep, OpenedStep,
            SteadyStep
<1>9. ViewsInv(M, W)
  BY <1>1, <1>4, <1>5, <1>6, <1>7, <1>8 DEF ViewsInv
<1> QED BY <1>3, <1>9 DEF M

(* The views of a log are those of its beginnings. *)
LEMMA Begins ==
  ASSUME NEW L \in Seq(Messages), NEW V \in [Nat -> Views], ViewsInv(L, V),
         NEW W \in [Nat -> Views], \A i \in 0..Len(L) : W[i] = V[i]
  PROVE  ViewsInv(L, W)
<1> DEFINE N == Len(L)
<1>1. /\ N \in Nat /\ \A i \in 1..N : i \in 0..N /\ i - 1 \in 0..N
      /\ \A i \in 0..N : \A h \in 0..i : h \in 0..N
  BY LenProperties
<1>2. \A i \in 1..N : Linked(L, W, i)
  BY <1>1 DEF ViewsInv, Linked
<1>3. W[0] = Blank
  BY <1>1 DEF ViewsInv
<1>4. \A i \in 0..N : Simple(W, i) /\ Members(L, W, i) /\ Steady(W, i) /\ Opened(W, i)
  <2>1. \A i \in 0..N : \A h \in 1..i : h \in 0..N
    BY <1>1
  <2> QED BY <1>1, <2>1 DEF ViewsInv, Simple, Members, Steady, Opened
<1>5. \A i \in 0..N : Halting(L, W, i)
  <2> TAKE i \in 0..N
  <2>1. Halting(L, V, i) /\ W[i] = V[i]
    BY DEF ViewsInv
  <2>2. \A p \in 1..i : \A k \in p..i : W[k] = V[k]
    BY <1>1
  <2> QED BY <2>1, <2>2 DEF Halting
<1> QED BY <1>2, <1>3, <1>4, <1>5 DEF ViewsInv

(* Two views with the same last message have one leader, if they have any. *)
LEMMA OneLeader ==
  ASSUME NEW L \in Seq(Messages), NEW V \in [Nat -> Views], ViewsInv(L, V),
         NEW i \in 0..Len(L), NEW k \in 0..Len(L), V[i].lastMsgID = V[k].lastMsgID,
         V[i].leaderID # NoNode, V[k].leaderID # NoNode
  PROVE  V[i].leaderID = V[k].leaderID
<1>1. i \in 0..k \/ k \in 0..i
  BY LenProperties
<1> QED BY <1>1 DEF ViewsInv, Steady

----------------------------------------------------------------------------
(* The invariant of the nodes                                              *)

ProcStates == {"off", "joining", "up", "crashed", "nil cancelTask", "already running a task",
               "closed twice"}
Counters == [resets : Nat, executes : Nat, troubles : Nat, losses : Nat]

(* Types, and the order of positions and messages. *)
Kinds ==
    /\ log \in Seq(Messages)
    /\ proc \in [Nodes -> ProcStates]
    /\ pos \in [Nodes -> Nat] /\ grp \in [Nodes -> Views] /\ cancelTask \in [Nodes -> Nat]
    /\ tasks \in [Nodes -> SUBSET Tasks]
    /\ appPaused \in [Nodes -> BOOLEAN] /\ execReq \in [Nodes -> BOOLEAN]
    /\ admin \in [Nodes -> Nat \cup {NoReset}]
    /\ doomed \subseteq Nat /\ counts \in Counters
    /\ \A n \in Nodes : /\ pos[n] <= Len(log) /\ grp[n].lastMsgID <= pos[n]
                        /\ \A t \in tasks[n] : t.ack <= pos[n]

(* The state in which a task of each kind is started, and what makes a     *)
(* node start one: it has handled message a, which led to that state, and  *)
(* it is the leader, unless it pauses.                                     *)
Stage(fn) == IF fn = "reset-end" THEN "Resetting" ELSE IF fn = "pause" THEN "Syncing"
             ELSE IF fn = "paused" THEN "Pausing" ELSE "Executing"

Duty(V, p, x, fn, a) ==
    /\ a \in 1..p /\ V[a].state = Stage(fn) /\ V[a].lastMsgID = a
    /\ fn # "paused" => \E e \in a..p : V[e].lastMsgID = a /\ V[e].leaderID = x

(* A node at position p has handled a message that ended the pause at a. *)
PauseEnded(V, p, a) == \E k \in (a + 1)..p : V[k].state \notin InSwitch

(* The state of a node, apart from the log: its position p, its view v,    *)
(* cancelTask c and whether its application is paused, b.                  *)

(* The task that cancelTask stands for is that of the current state. *)
CancelsCurrent(n, v, c) ==
    c # 0 =>
        /\ v.state # "Idle"
        /\ v.state \in {"Resetting", "Syncing"} => v.leaderID = n
        /\ v.state \in {"Resetting", "Syncing", "Pausing"} => c = v.lastMsgID

OnDuty(V, n, p, v, c, b, t) ==
    /\ Duty(V, p, n, t.fn, t.ack)
    /\ ~t.cancelled => c = t.ack
    /\ ~t.cancelled /\ t.fn = "done" => v.state = "Executing"
    /\ ~t.cancelled /\ t.fn = "paused" /\ t.phase = "ok" => b
    /\ t.fn = "paused" => PauseEnded(V, p, t.ack) \/ v.state # "Unknown"

(* Who has answered for message a no longer runs that task, and who has    *)
(* acknowledged a pause is paused until it is over.                        *)
Answered(V, n, p, v, c, b, up, fn, a) ==
    /\ Duty(V, p, n, fn, a)
    /\ c # a
    /\ fn = "paused" => /\ PauseEnded(V, p, a) \/ v.state # "Unknown"
                        /\ up => PauseEnded(V, p, a) \/ b

(* A node that has not left has the view of its position. *)
Follows(V, p, v) == v.state = "Unknown" \/ v = V[p]

(* Only members have paused, or the log has a stranger. *)
KnowsPaused(n) ==
    \/ grp[n].paused \subseteq grp[n].nodes
    \/ \E i \in 1..pos[n] : log[i].type = "paused" /\ ~SaidHello(i)

OnDuties(V, n) ==
    \A t \in tasks[n] : OnDuty(V, n, pos[n], grp[n], cancelTask[n], appPaused[n], t)

Runs(s) == s \in {"joining", "up"}

Answers(V, n) ==
    \A j \in 1..Len(log) :
        log[j].type \in TaskFns /\ log[j].node = n =>
            Answered(V, n, pos[n], grp[n], cancelTask[n], appPaused[n], Runs(proc[n]),
                     log[j].type, log[j].ack)

(* What holds of node n when the views are V. *)
NodeInv(V, n) ==
    /\ Follows(V, pos[n], grp[n]) /\ KnowsPaused(n)
    /\ CancelsCurrent(n, grp[n], cancelTask[n])
    /\ OnDuties(V, n) /\ Answers(V, n)
    /\ proc[n] = "off" => pos[n] = 0
    /\ proc[n] # "already running a task"

(* The inductive invariant. *)
GroupInv ==
    /\ Kinds
    /\ NoStrangers =>
          \E V \in [Nat -> Views] :
              ViewsInv(log, V) /\ \A n \in Nodes : NodeInv(V, n)

----------------------------------------------------------------------------
(* Types and the effect of the handlers on a view                          *)

LEMMA KindsTypeOK == Kinds => TypeOK
<1> SUFFICES ASSUME Kinds PROVE TypeOK
  OBVIOUS
<1>1. \A n \in Nodes : \A t \in tasks[n] :
          /\ t.fn \in TaskFns /\ t.ack \in Nat
          /\ t.cancelled \in BOOLEAN /\ t.phase \in {"run", "ok", "err"}
  <2>1. tasks \in [Nodes -> SUBSET Tasks]
    BY DEF Kinds
  <2> QED BY <2>1 DEF Tasks
<1>2. \A n \in Nodes : pos[n] <= Len(log)
  BY DEF Kinds
<1>3. /\ log \in Seq([type : MessageTypes, node : Nodes, ack : Nat])
      /\ grp \in [Nodes -> [state : ClusterStates, nodes : SUBSET Nodes, paused : SUBSET Nodes,
                            leaderID : Nodes \cup {NoNode}, lastMsgID : Nat]]
  BY DEF Kinds, Messages, Views
<1>4. /\ proc \in [Nodes -> ProcStates]
      /\ pos \in [Nodes -> Nat] /\ cancelTask \in [Nodes -> Nat]
      /\ appPaused \in [Nodes -> BOOLEAN] /\ execReq \in [Nodes -> BOOLEAN]
      /\ admin \in [Nodes -> Nat \cup {NoReset}]
      /\ doomed \subseteq Nat /\ counts \in Counters
  BY DEF Kinds
<1> QED BY <1>1, <1>2, <1>3, <1>4, Zenon DEF TypeOK, ProcStates, Counters

(* The counters count. *)
LEMMA Counted ==
  ASSUME NEW c \in Counters
  PROVE  /\ [c EXCEPT !.troubles = @ + 1] \in Counters
         /\ [c EXCEPT !.resets = @ + 1] \in Counters
         /\ [c EXCEPT !.losses = @ + 1] \in Counters
         /\ [c EXCEPT !.troubles = @ + 1, !.losses = @ + 1] \in Counters
<1>1. c.troubles + 1 \in Nat /\ c.resets + 1 \in Nat /\ c.losses + 1 \in Nat
  BY DEF Counters
<1> QED BY <1>1 DEF Counters

(* What a message more, or one that was lost, does. *)
LEMMA Append1Kinds ==
  ASSUME Kinds, NEW m \in Messages, Append1(m)
  PROVE  /\ log' = log \/ log' = Append(log, m)
         /\ log' \in Seq(Messages) /\ Len(log') \in Nat /\ Len(log) <= Len(log')
         /\ counts' \in Counters /\ doomed' = doomed
<1>1. log \in Seq(Messages) /\ counts \in Counters
  BY DEF Kinds
<1>2. Len(log) \in Nat /\ Append(log, m) \in Seq(Messages) /\ Len(Append(log, m)) = Len(log) + 1
  BY <1>1, AppendProperties, LenProperties
<1>3. log' = log \/ log' = Append(log, m)
  BY DEF Append1
<1>4. log' \in Seq(Messages) /\ Len(log') \in Nat /\ Len(log) <= Len(log')
  BY <1>1, <1>2, <1>3
<1>5. /\ doomed' = doomed
      /\ \/ counts' = counts
         \/ counts' = [counts EXCEPT !.troubles = @ + 1, !.losses = @ + 1]
  BY DEF Append1
<1>6. counts' \in Counters
  BY <1>1, <1>5, Counted
<1> QED BY <1>3, <1>4, <1>5, <1>6

(* The same of a message whose sender waits for it. *)
LEMMA AppendWaitKinds ==
  ASSUME Kinds, NEW m \in Messages, NEW failed \in BOOLEAN, NEW was \in Counters,
         AppendWait(m, failed, was)
  PROVE  /\ log' = log \/ log' = Append(log, m)
         /\ counts' \in Counters /\ doomed' \in SUBSET Nat
<1>1. doomed \in SUBSET Nat /\ Len(log) + 1 \in Nat
  <2>1. log \in Seq(Messages) /\ doomed \in SUBSET Nat
    BY DEF Kinds
  <2> QED BY <2>1, LenProperties
<1>2. log' = log \/ log' = Append(log, m)
  BY DEF AppendWait
<1>3. doomed' = doomed \/ doomed' = doomed \cup {Len(log) + 1}
  BY DEF AppendWait
<1>4. counts' = was \/ counts' = [was EXCEPT !.troubles = @ + 1]
  BY DEF AppendWait
<1>5. counts' \in Counters
  BY <1>4 DEF Counters
<1>6. doomed' \in SUBSET Nat
  BY <1>1, <1>3
<1> QED BY <1>2, <1>5, <1>6

(* The message that node n handles next. *)
LEMMA NextMessage ==
  ASSUME Kinds, NEW n \in Nodes, pos[n] < Len(log)
  PROVE  /\ pos[n] \in Nat /\ Id(n) \in Nat /\ Id(n) \in 1..Len(log) /\ Id(n) = pos[n] + 1
         /\ Msg(n) \in Messages /\ Msg(n) = log[Id(n)]
         /\ Msg(n).type \in MessageTypes /\ Msg(n).node \in Nodes /\ Msg(n).ack \in Nat
         /\ grp[n] \in Views
<1>1. log \in Seq(Messages) /\ pos \in [Nodes -> Nat] /\ grp \in [Nodes -> Views]
  BY DEF Kinds
<1>2. Len(log) \in Nat /\ pos[n] \in Nat
  BY <1>1, LenProperties
<1>3. Id(n) \in 1..Len(log) /\ Id(n) = pos[n] + 1
  BY <1>2 DEF Id
<1>4. Msg(n) \in Messages
  BY <1>1, <1>3, ElementOfSeq DEF Msg
<1> QED BY <1>1, <1>2, <1>3, <1>4 DEF Msg, Messages

(* What the handlers do to the node's view. *)
Handled(n) ==
    \/ HandleReset(n) \/ HandleHello(n) \/ HandleResetEnd(n) \/ HandleExecute(n)
    \/ HandlePause(n) \/ HandlePaused(n) \/ HandleDone(n)
    \/ HandleError(n) \/ HandleCancel(n) \/ HandleUnexpected(n)

Kept(v, i) == [state |-> "Resetting", nodes |-> {}, paused |-> v.paused \ v.nodes,
               leaderID |-> NoNode, lastMsgID |-> i]

(* The view of a node after it has handled message i with view v. *)
Seen(v, m, i, w) ==
    \/ m.type = "reset" /\ w = Kept(v, i)
    \/ Fits(v, m, "Resetting", "hello") /\ w = Greeted(v, m.node)
    \/ Fits(v, m, "Resetting", "reset-end") /\ w = Moved(v, "Idle", i)
    \/ Fits(v, m, "Idle", "execute") /\ w = Moved(v, "Syncing", i)
    \/ Fits(v, m, "Syncing", "pause") /\ w = Moved(v, "Pausing", i)
    \/ Fits(v, m, "Pausing", "paused") /\ w = Halted(v, m.node, i)
    \/ Fits(v, m, "Executing", "done") /\ w = [v EXCEPT !.state = "Done"]
    \/ m.type = "error" /\ m.ack # v.lastMsgID /\ w = v
    \/ m.type = "error" /\ m.ack = v.lastMsgID /\ w = Left(v)
    \/ m.type = "cancel" /\ w = Left(v)
    \/ /\ m.type \notin {"reset", "error", "cancel"}
       /\ ~ \/ Fits(v, m, "Resetting", "hello") \/ Fits(v, m, "Resetting", "reset-end")
            \/ Fits(v, m, "Idle", "execute") \/ Fits(v, m, "Syncing", "pause")
            \/ Fits(v, m, "Pausing", "paused") \/ Fits(v, m, "Executing", "done")
       /\ w = Left(v)

(* A message that starts a task on node n, and one that starts none. *)
Starts(n, v, m, i, w, fn, a) ==
    \/ /\ fn = "reset-end" /\ a = v.lastMsgID
       /\ Fits(v, m, "Resetting", "hello") /\ w = Greeted(v, m.node)
       /\ v.leaderID = NoNode /\ m.node \in CanExec /\ m.node = n
    \/ /\ fn = "pause" /\ a = i
       /\ Fits(v, m, "Idle", "execute") /\ w = Moved(v, "Syncing", i) /\ v.leaderID = n
    \/ /\ fn = "paused" /\ a = i
       /\ Fits(v, m, "Syncing", "pause") /\ w = Moved(v, "Pausing", i)
    \/ /\ fn = "done" /\ a = i
       /\ Fits(v, m, "Pausing", "paused") /\ w = Halted(v, m.node, i)
       /\ AllPaused(v, m.node) /\ v.leaderID = n

Quietly(v, m, i, w) ==
    \/ Fits(v, m, "Resetting", "hello") /\ w = Greeted(v, m.node)
    \/ Fits(v, m, "Resetting", "reset-end") /\ w = Moved(v, "Idle", i)
    \/ Fits(v, m, "Idle", "execute") /\ w = Moved(v, "Syncing", i)
    \/ Fits(v, m, "Pausing", "paused") /\ w = Halted(v, m.node, i)
    \/ m.type = "error" /\ w = v

Cancels(n) == CancelTask(n) /\ grp'[n].state \in {"Resetting", "Done", "Unknown"}

Works(n) ==
    \/ Cancels(n)
    \/ NoTask /\ UNCHANGED appPaused /\ Quietly(grp[n], Msg(n), Id(n), grp'[n])
    \/ \E fn \in TaskFns, a \in Nat :
          /\ StartTask(n, fn, a) /\ UNCHANGED appPaused
          /\ Starts(n, grp[n], Msg(n), Id(n), grp'[n], fn, a)

(* The log after a step of node n: its new messages are at most one. *)
QuietLog ==
    \/ log' = log
    \/ \E m \in Messages : log' = Append(log, m) /\ m.ack <= Len(log) /\ m.type \notin TaskFns

LogStep(n) ==
    \/ log' = log
    \/ \E m \in Messages : /\ log' = Append(log, m) /\ m.ack <= Len(log)
                           /\ m.type \in TaskFns => m.node = n

LEMMA HandledView ==
  ASSUME Kinds, NEW n \in Nodes, pos[n] < Len(log), Handled(n)
  PROVE  /\ grp' = [grp EXCEPT ![n] = grp'[n]] /\ Seen(grp[n], Msg(n), Id(n), grp'[n])
         /\ Works(n)
<1>0. /\ grp = [grp EXCEPT ![n] = grp[n]]
      /\ \A w : grp' = [grp EXCEPT ![n] = w] => grp'[n] = w
      /\ grp[n] \in Views /\ grp[n].lastMsgID \in Nat /\ Id(n) \in Nat
  <2>1. grp \in [Nodes -> Views]
    BY DEF Kinds
  <2>2. grp[n] \in Views /\ Id(n) \in Nat
    BY NextMessage
  <2> QED BY <2>1, <2>2 DEF Views
<1>1. CASE HandleReset(n)
  <2>1. grp' = [grp EXCEPT ![n] = Kept(grp[n], Id(n))]
    BY <1>1 DEF HandleReset, Kept
  <2>2. Msg(n).type = "reset" /\ CancelTask(n)
    BY <1>1 DEF HandleReset
  <2>3. grp'[n] = Kept(grp[n], Id(n)) /\ grp'[n].state = "Resetting"
    BY <1>0, <2>1 DEF Kept
  <2> QED BY <2>1, <2>2, <2>3 DEF Seen, Works, Cancels
<1>2. CASE HandleHello(n)
  <2>1. grp' = [grp EXCEPT ![n] = Greeted(grp[n], Msg(n).node)]
    BY <1>2 DEF HandleHello, Greeted
  <2>2. Fits(grp[n], Msg(n), "Resetting", "hello")
    BY <1>2 DEF HandleHello, Expected, Fits
  <2>3. grp'[n] = Greeted(grp[n], Msg(n).node)
    BY <1>0, <2>1
  <2>4. CASE grp[n].leaderID = NoNode /\ Msg(n).node \in CanExec /\ Msg(n).node = n
    <3>1. StartTask(n, "reset-end", grp[n].lastMsgID) /\ UNCHANGED appPaused
      BY <1>2, <2>4 DEF HandleHello
    <3>2. Starts(n, grp[n], Msg(n), Id(n), grp'[n], "reset-end", grp[n].lastMsgID)
      BY <2>2, <2>3, <2>4 DEF Starts
    <3>3. Works(n)
      BY <1>0, <3>1, <3>2 DEF Works, TaskFns
    <3> QED BY <2>1, <2>2, <2>3, <3>3 DEF Seen
  <2>5. CASE ~(grp[n].leaderID = NoNode /\ Msg(n).node \in CanExec /\ Msg(n).node = n)
    <3>1. NoTask /\ UNCHANGED appPaused
      BY <1>2, <2>5 DEF HandleHello
    <3> QED BY <2>1, <2>2, <2>3, <3>1 DEF Seen, Works, Quietly
  <2> QED BY <2>4, <2>5
<1>3. CASE HandleResetEnd(n)
  <2>1. grp' = [grp EXCEPT ![n] = Moved(grp[n], "Idle", Id(n))]
    BY <1>3 DEF HandleResetEnd, Advance, Moved
  <2>2. Fits(grp[n], Msg(n), "Resetting", "reset-end") /\ NoTask /\ UNCHANGED appPaused
    BY <1>3 DEF HandleResetEnd, Expected, Fits
  <2>3. grp'[n] = Moved(grp[n], "Idle", Id(n))
    BY <1>0, <2>1
  <2> QED BY <2>1, <2>2, <2>3 DEF Seen, Works, Quietly
<1>4. CASE HandleExecute(n)
  <2>1. grp' = [grp EXCEPT ![n] = Moved(grp[n], "Syncing", Id(n))]
    BY <1>4 DEF HandleExecute, Advance, Moved
  <2>2. Fits(grp[n], Msg(n), "Idle", "execute")
    BY <1>4 DEF HandleExecute, Expected, Fits
  <2>3. grp'[n] = Moved(grp[n], "Syncing", Id(n))
    BY <1>0, <2>1
  <2>4. CASE grp[n].leaderID = n
    <3>1. StartTask(n, "pause", Id(n)) /\ UNCHANGED appPaused
      BY <1>4, <2>4 DEF HandleExecute
    <3>2. Starts(n, grp[n], Msg(n), Id(n), grp'[n], "pause", Id(n))
      BY <2>2, <2>3, <2>4 DEF Starts
    <3>3. Works(n)
      BY <1>0, <3>1, <3>2 DEF Works, TaskFns
    <3> QED BY <2>1, <2>2, <2>3, <3>3 DEF Seen
  <2>5. CASE grp[n].leaderID # n
    <3>1. NoTask /\ UNCHANGED appPaused
      BY <1>4, <2>5 DEF HandleExecute
    <3> QED BY <2>1, <2>2, <2>3, <3>1 DEF Seen, Works, Quietly
  <2> QED BY <2>4, <2>5
<1>5. CASE HandlePause(n)
  <2>1. grp' = [grp EXCEPT ![n] = Moved(grp[n], "Pausing", Id(n))]
    BY <1>5 DEF HandlePause, Advance, Moved
  <2>2. /\ Fits(grp[n], Msg(n), "Syncing", "pause")
        /\ StartTask(n, "paused", Id(n)) /\ UNCHANGED appPaused
    BY <1>5 DEF HandlePause, Expected, Fits
  <2>3. grp'[n] = Moved(grp[n], "Pausing", Id(n))
    BY <1>0, <2>1
  <2>4. Starts(n, grp[n], Msg(n), Id(n), grp'[n], "paused", Id(n))
    BY <2>2, <2>3 DEF Starts
  <2>5. Works(n)
    BY <1>0, <2>2, <2>4 DEF Works, TaskFns
  <2> QED BY <2>1, <2>2, <2>3, <2>5 DEF Seen
<1>6. CASE HandlePaused(n)
  <2>1. grp' = [grp EXCEPT ![n] = Halted(grp[n], Msg(n).node, Id(n))]
    BY <1>6 DEF HandlePaused, Halted
  <2>2. Fits(grp[n], Msg(n), "Pausing", "paused")
    BY <1>6 DEF HandlePaused, Expected, Fits
  <2>3. grp'[n] = Halted(grp[n], Msg(n).node, Id(n))
    BY <1>0, <2>1
  <2>4. CASE AllPaused(grp[n], Msg(n).node) /\ grp[n].leaderID = n
    <3>1. StartTask(n, "done", Id(n)) /\ UNCHANGED appPaused
      BY <1>6, <2>4 DEF HandlePaused, AllPaused
    <3>2. Starts(n, grp[n], Msg(n), Id(n), grp'[n], "done", Id(n))
      BY <2>2, <2>3, <2>4 DEF Starts
    <3>3. Works(n)
      BY <1>0, <3>1, <3>2 DEF Works, TaskFns
    <3> QED BY <2>1, <2>2, <2>3, <3>3 DEF Seen
  <2>5. CASE ~(AllPaused(grp[n], Msg(n).node) /\ grp[n].leaderID = n)
    <3>1. NoTask /\ UNCHANGED appPaused
      BY <1>6, <2>5 DEF HandlePaused, AllPaused
    <3> QED BY <2>1, <2>2, <2>3, <3>1 DEF Seen, Works, Quietly
  <2> QED BY <2>4, <2>5
<1>7. CASE HandleDone(n)
  <2>1. grp' = [grp EXCEPT ![n] = [grp[n] EXCEPT !.state = "Done"]]
    BY <1>7 DEF HandleDone
  <2>2. Fits(grp[n], Msg(n), "Executing", "done") /\ CancelTask(n)
    BY <1>7 DEF HandleDone, Expected, Fits
  <2>3. grp'[n] = [grp[n] EXCEPT !.state = "Done"]
    BY <1>0, <2>1
  <2>4. grp'[n].state = "Done"
    BY <1>0, <2>3, StateFields DEF ClusterStates
  <2> QED BY <2>1, <2>2, <2>3, <2>4 DEF Seen, Works, Cancels
<1>8. CASE HandleError(n) /\ Msg(n).ack # grp[n].lastMsgID
  <2>1. grp' = [grp EXCEPT ![n] = grp[n]] /\ grp'[n] = grp[n]
    BY <1>0, <1>8 DEF HandleError
  <2>2. Msg(n).type = "error" /\ NoTask /\ UNCHANGED appPaused
    BY <1>8 DEF HandleError
  <2> QED BY <1>8, <2>1, <2>2 DEF Seen, Works, Quietly
<1>9. ASSUME grp' = [grp EXCEPT ![n].state = "Unknown"], CancelTask(n),
             Seen(grp[n], Msg(n), Id(n), Left(grp[n]))
      PROVE  /\ grp' = [grp EXCEPT ![n] = grp'[n]] /\ Seen(grp[n], Msg(n), Id(n), grp'[n])
             /\ Works(n)
  <2>1. grp' = [grp EXCEPT ![n] = Left(grp[n])]
    BY <1>9 DEF Left
  <2>2. grp'[n] = Left(grp[n])
    BY <1>0, <2>1
  <2>3. grp'[n].state = "Unknown"
    BY <1>0, <2>2, StateFields DEF ClusterStates, Left
  <2> QED BY <1>9, <2>1, <2>2, <2>3 DEF Works, Cancels
<1>10. CASE HandleError(n) /\ Msg(n).ack = grp[n].lastMsgID
  <2>1. /\ grp' = [grp EXCEPT ![n].state = "Unknown"] /\ CancelTask(n)
        /\ Seen(grp[n], Msg(n), Id(n), Left(grp[n]))
    BY <1>10 DEF HandleError, Seen
  <2> QED BY <1>9, <2>1
<1>11. CASE HandleCancel(n)
  <2>1. /\ grp' = [grp EXCEPT ![n].state = "Unknown"] /\ CancelTask(n)
        /\ Seen(grp[n], Msg(n), Id(n), Left(grp[n]))
    BY <1>11 DEF HandleCancel, Seen
  <2> QED BY <1>9, <2>1
<1>12. CASE HandleUnexpected(n)
  <2>1. /\ grp' = [grp EXCEPT ![n].state = "Unknown"] /\ CancelTask(n)
        /\ Seen(grp[n], Msg(n), Id(n), Left(grp[n]))
    BY <1>12 DEF HandleUnexpected, Expected, Fits, Seen
  <2> QED BY <1>9, <2>1
<1> QED BY <1>1, <1>2, <1>3, <1>4, <1>5, <1>6, <1>7, <1>8, <1>10, <1>11, <1>12 DEF Handled

(* What is said while a message is handled. *)
LEMMA HandledLog ==
  ASSUME Kinds, NEW n \in Nodes, pos[n] < Len(log), Handled(n)
  PROVE  QuietLog /\ counts' \in Counters /\ doomed' = doomed
<1>1. /\ Id(n) \in Nat /\ Id(n) <= Len(log) /\ Len(log) \in Nat
  <2>1. log \in Seq(Messages) /\ Id(n) \in 1..Len(log) /\ Id(n) \in Nat
    BY NextMessage DEF Kinds
  <2> QED BY <2>1, LenProperties
<1>2. /\ Message("hello", n, Id(n)) \in Messages /\ Message("cancel", n, Id(n)) \in Messages
      /\ Message("hello", n, Id(n)).ack = Id(n) /\ Message("cancel", n, Id(n)).ack = Id(n)
      /\ Message("hello", n, Id(n)).type \notin TaskFns
      /\ Message("cancel", n, Id(n)).type \notin TaskFns
  BY <1>1 DEF Message, Messages, MessageTypes, TaskFns
<1>3. CASE Append1(Message("hello", n, Id(n)))
  BY <1>1, <1>2, <1>3, Append1Kinds DEF QuietLog
<1>4. CASE Append1(Message("cancel", n, Id(n)))
  BY <1>1, <1>2, <1>4, Append1Kinds DEF QuietLog
<1>5. CASE NoAppend
  BY <1>5 DEF NoAppend, QuietLog, Kinds
<1>6. Append1(Message("hello", n, Id(n))) \/ Append1(Message("cancel", n, Id(n))) \/ NoAppend
  BY DEF Handled, HandleReset, HandleHello, HandleResetEnd, HandleExecute, HandlePause,
         HandlePaused, HandleDone, HandleError, HandleCancel, HandleUnexpected
<1> QED BY <1>3, <1>4, <1>5, <1>6

(* A view after a message; of one that has not left, only the members can  *)
(* have paused, it is the folded one.                                      *)
LEMMA SeenType ==
  ASSUME NEW v \in Views, NEW m \in Messages, NEW i \in Nat, NEW w, Seen(v, m, i, w)
  PROVE  /\ w \in Views
         /\ w.lastMsgID = i \/ w.lastMsgID = v.lastMsgID
         /\ w.state # "Unknown" => v.state # "Unknown" \/ m.type = "reset"
         /\ v.state # "Unknown" /\ m.type # "reset" => w = Folded(v, m, i)
         /\ m.type = "reset" /\ v.paused \subseteq v.nodes => w = Fresh(i)
         /\ m.type # "reset" => v.nodes \subseteq w.nodes /\ v.paused \subseteq w.paused
         /\ w.paused \subseteq v.paused
            \/ (Fits(v, m, "Pausing", "paused") /\ w.paused = v.paused \cup {m.node})
<1>1. /\ m.node \in Nodes /\ m.ack \in Nat
      /\ "Unknown" \in ClusterStates /\ "Resetting" \in ClusterStates
      /\ "Idle" \in ClusterStates /\ "Syncing" \in ClusterStates
      /\ "Pausing" \in ClusterStates /\ "Done" \in ClusterStates
  BY DEF Messages, ClusterStates
<1> DEFINE P == /\ w \in Views
                /\ w.lastMsgID = i \/ w.lastMsgID = v.lastMsgID
                /\ w.state # "Unknown" => v.state # "Unknown" \/ m.type = "reset"
                /\ m.type # "reset" => v.nodes \subseteq w.nodes /\ v.paused \subseteq w.paused
                /\ \/ w.paused \subseteq v.paused
                   \/ (Fits(v, m, "Pausing", "paused") /\ w.paused = v.paused \cup {m.node})
<1>2. P
  <2>1. CASE m.type = "reset" /\ w = Kept(v, i)
    BY <1>1, <2>1 DEF Kept, Views
  <2>2. CASE Fits(v, m, "Resetting", "hello") /\ w = Greeted(v, m.node)
    <3>1. m.type = "hello" /\ v.state = "Resetting"
      BY <2>2 DEF Fits
    <3>2. /\ w \in Views /\ w.state = v.state /\ w.lastMsgID = v.lastMsgID
          /\ w.nodes = v.nodes \cup {m.node} /\ w.paused = v.paused
      BY <1>1, <2>2, GreetedFields
    <3> QED BY <2>2, <3>1, <3>2
  <2>3. CASE Fits(v, m, "Resetting", "reset-end") /\ w = Moved(v, "Idle", i)
    <3>1. m.type = "reset-end" /\ v.state = "Resetting"
      BY <2>3 DEF Fits
    <3>2. /\ w \in Views /\ w.nodes = v.nodes /\ w.paused = v.paused /\ w.lastMsgID = i
      <4>1. w = Moved(v, "Idle", i) /\ "Idle" \in ClusterStates
        BY <1>1, <2>3
      <4> QED BY <4>1, MovedFields
    <3> QED BY <2>3, <3>1, <3>2
  <2>4. CASE Fits(v, m, "Idle", "execute") /\ w = Moved(v, "Syncing", i)
    <3>1. m.type = "execute" /\ v.state = "Idle"
      BY <2>4 DEF Fits
    <3>2. /\ w \in Views /\ w.nodes = v.nodes /\ w.paused = v.paused /\ w.lastMsgID = i
      <4>1. w = Moved(v, "Syncing", i) /\ "Syncing" \in ClusterStates
        BY <1>1, <2>4
      <4> QED BY <4>1, MovedFields
    <3> QED BY <2>4, <3>1, <3>2
  <2>5. CASE Fits(v, m, "Syncing", "pause") /\ w = Moved(v, "Pausing", i)
    <3>1. m.type = "pause" /\ v.state = "Syncing"
      BY <2>5 DEF Fits
    <3>2. /\ w \in Views /\ w.nodes = v.nodes /\ w.paused = v.paused /\ w.lastMsgID = i
      <4>1. w = Moved(v, "Pausing", i) /\ "Pausing" \in ClusterStates
        BY <1>1, <2>5
      <4> QED BY <4>1, MovedFields
    <3> QED BY <2>5, <3>1, <3>2
  <2>6. CASE Fits(v, m, "Pausing", "paused") /\ w = Halted(v, m.node, i)
    <3>1. m.type = "paused" /\ v.state = "Pausing"
      BY <2>6 DEF Fits
    <3>2. /\ w \in Views /\ w.nodes = v.nodes /\ w.paused = v.paused \cup {m.node}
          /\ w.lastMsgID \in {i, v.lastMsgID}
      BY <1>1, <2>6, HaltedFields
    <3> QED BY <2>6, <3>1, <3>2
  <2>7. CASE Fits(v, m, "Executing", "done") /\ w = [v EXCEPT !.state = "Done"]
    BY <1>1, <2>7, StateFields DEF Fits
  <2>8. CASE w = v
    BY <2>8
  <2>9. CASE w = Left(v)
    BY <1>1, <2>9, StateFields DEF Left
  <2> QED BY <2>1, <2>2, <2>3, <2>4, <2>5, <2>6, <2>7, <2>8, <2>9 DEF Seen
<1>3. ASSUME m.type = "reset", v.paused \subseteq v.nodes PROVE w = Fresh(i)
  <2>1. w = Kept(v, i)
    BY <1>3 DEF Seen, Fits
  <2>2. v.paused \ v.nodes = {}
    BY <1>3
  <2> QED BY <2>1, <2>2 DEF Kept, Fresh
<1>4. ASSUME v.state # "Unknown", m.type # "reset" PROVE w = Folded(v, m, i)
  BY <1>4 DEF Seen, Folded, Fits
<1> QED BY <1>2, <1>3, <1>4

----------------------------------------------------------------------------
(* Types are preserved                                                     *)

(* The types of what the tasks are about. *)
TaskKinds ==
    /\ proc \in [Nodes -> ProcStates] /\ cancelTask \in [Nodes -> Nat]
    /\ tasks \in [Nodes -> SUBSET Tasks] /\ appPaused \in [Nodes -> BOOLEAN]
    /\ \A n \in Nodes : \A t \in tasks[n] : t.ack <= pos[n]

LogKinds ==
    /\ log \in Seq(Messages) /\ pos \in [Nodes -> Nat] /\ grp \in [Nodes -> Views]
    /\ \A n \in Nodes : pos[n] <= Len(log) /\ grp[n].lastMsgID <= pos[n]

OtherKinds ==
    /\ execReq \in [Nodes -> BOOLEAN] /\ admin \in [Nodes -> Nat \cup {NoReset}]
    /\ doomed \subseteq Nat /\ counts \in Counters

LEMMA KindsParts == Kinds <=> TaskKinds /\ LogKinds /\ OtherKinds
BY DEF Kinds, TaskKinds, LogKinds, OtherKinds, ProcStates

LEMMA KindsInit == GroupInit => Kinds
<1> SUFFICES ASSUME GroupInit PROVE Kinds
  OBVIOUS
<1>1. TaskKinds
  BY DEF GroupInit, TaskKinds, ProcStates
<1>2. LogKinds
  <2>1. Blank \in Views
    BY DEF Blank, Views, ClusterStates
  <2>2. /\ log = << >> /\ pos = [n \in Nodes |-> 0] /\ grp = [n \in Nodes |-> Blank]
    BY DEF GroupInit, Blank
  <2>3. log \in Seq(Messages) /\ Len(log) = 0
    BY <2>2, EmptySeq
  <2>4. Blank.lastMsgID = 0
    BY DEF Blank
  <2> QED BY <2>1, <2>2, <2>3, <2>4 DEF LogKinds
<1>3. OtherKinds
  BY DEF GroupInit, OtherKinds, Counters
<1> QED BY <1>1, <1>2, <1>3, KindsParts

(* The tasks that cancelTask leaves. *)
LEMMA CancelledTasks ==
  ASSUME Kinds, NEW n \in Nodes
  PROVE  /\ Cancelled(n) \in SUBSET Tasks
         /\ \A s \in Cancelled(n) : \E t \in tasks[n] :
               /\ s.fn = t.fn /\ s.ack = t.ack /\ s.phase = t.phase
               /\ s.cancelled <=> (t.cancelled \/ t.ack = cancelTask[n])
<1>1. tasks[n] \in SUBSET Tasks
  BY DEF Kinds
<1>2. ASSUME NEW t \in Tasks, NEW b \in BOOLEAN, NEW s, s = [t EXCEPT !.cancelled = b]
      PROVE  s \in Tasks /\ s.fn = t.fn /\ s.ack = t.ack /\ s.phase = t.phase /\ s.cancelled = b
  BY <1>2 DEF Tasks
<1>3. ASSUME NEW s \in Cancelled(n)
      PROVE  /\ s \in Tasks
             /\ \E t \in tasks[n] :
                   /\ s.fn = t.fn /\ s.ack = t.ack /\ s.phase = t.phase
                   /\ s.cancelled <=> (t.cancelled \/ t.ack = cancelTask[n])
  <2>1. PICK t \in tasks[n] : s = [t EXCEPT !.cancelled = @ \/ t.ack = cancelTask[n]]
    BY <1>3 DEF Cancelled
  <2> DEFINE b == t.cancelled \/ t.ack = cancelTask[n]
  <2>2. t \in Tasks /\ b \in BOOLEAN
    BY <1>1
  <2>3. s = [t EXCEPT !.cancelled = b]
    BY <2>1
  <2> HIDE DEF b
  <2>4. s \in Tasks /\ s.fn = t.fn /\ s.ack = t.ack /\ s.phase = t.phase /\ s.cancelled = b
    BY <1>2, <2>2, <2>3
  <2> QED BY <2>4 DEF b
<1> QED BY <1>3

LEMMA CancelTaskKinds ==
  ASSUME Kinds, NEW n \in Nodes, CancelTask(n), pos' \in [Nodes -> Nat],
         \A x \in Nodes : pos[x] <= pos'[x]
  PROVE  TaskKinds'
<1>1. TaskKinds /\ pos \in [Nodes -> Nat]
  BY KindsParts DEF Kinds
<1>2. Cancelled(n) \in SUBSET Tasks /\ \A s \in Cancelled(n) : s.ack <= pos[n]
  BY <1>1, CancelledTasks DEF TaskKinds
<1>3. /\ proc' \in [Nodes -> ProcStates] /\ cancelTask' \in [Nodes -> Nat]
      /\ tasks' \in [Nodes -> SUBSET Tasks] /\ appPaused' \in [Nodes -> BOOLEAN]
  BY <1>1, <1>2 DEF TaskKinds, CancelTask
<1>4. \A x \in Nodes : \A t \in tasks'[x] : t \in Tasks /\ t.ack <= pos[x]
  BY <1>1, <1>2 DEF TaskKinds, CancelTask
<1>5. \A x \in Nodes : \A t \in tasks'[x] : t.ack <= pos'[x]
  BY <1>1, <1>4 DEF Tasks
<1> QED BY <1>3, <1>5 DEF TaskKinds

LEMMA StartTaskKinds ==
  ASSUME Kinds, NEW n \in Nodes, NEW fn \in TaskFns, NEW a \in Nat, StartTask(n, fn, a),
         pos' \in [Nodes -> Nat], \A x \in Nodes : pos[x] <= pos'[x], a <= pos'[n],
         UNCHANGED appPaused
  PROVE  TaskKinds'
<1> DEFINE t0 == [fn |-> fn, ack |-> a, cancelled |-> FALSE, phase |-> "run"]
<1>1. TaskKinds /\ pos \in [Nodes -> Nat]
  BY KindsParts DEF Kinds
<1>2. t0 \in Tasks /\ t0.ack = a
  BY DEF Tasks
<1>3. \/ proc' = [proc EXCEPT ![n] = "already running a task"] /\ UNCHANGED <<cancelTask, tasks>>
      \/ /\ cancelTask' = [cancelTask EXCEPT ![n] = a]
         /\ tasks' = [tasks EXCEPT ![n] = @ \cup {t0}] /\ UNCHANGED proc
  BY DEF StartTask
<1> HIDE DEF t0
<1>4. /\ proc \in [Nodes -> ProcStates] /\ cancelTask \in [Nodes -> Nat]
      /\ tasks \in [Nodes -> SUBSET Tasks] /\ appPaused \in [Nodes -> BOOLEAN]
      /\ \A x \in Nodes : \A t \in tasks[x] : t.ack <= pos[x]
      /\ "already running a task" \in ProcStates
  BY <1>1 DEF TaskKinds, ProcStates
<1>5. /\ proc' \in [Nodes -> ProcStates] /\ cancelTask' \in [Nodes -> Nat]
      /\ appPaused' \in [Nodes -> BOOLEAN]
  BY <1>3, <1>4
<1>6. tasks' \in [Nodes -> SUBSET Tasks]
  <2>1. CASE tasks' = tasks
    BY <1>4, <2>1
  <2>2. CASE tasks' = [tasks EXCEPT ![n] = @ \cup {t0}]
    BY <1>2, <1>4, <2>2
  <2> QED BY <1>3, <2>1, <2>2
<1>7. \A x \in Nodes : \A t \in tasks'[x] : t \in tasks[x] \/ (x = n /\ t = t0)
  <2>1. CASE tasks' = tasks
    BY <2>1
  <2>2. CASE tasks' = [tasks EXCEPT ![n] = @ \cup {t0}]
    BY <1>4, <2>2
  <2> QED BY <1>3, <2>1, <2>2
<1>8. \A x \in Nodes : \A t \in tasks'[x] : t.ack <= pos'[x]
  <2> SUFFICES ASSUME NEW x \in Nodes, NEW t \in tasks'[x]
               PROVE  t.ack <= pos'[x]
    OBVIOUS
  <2>1. t \in Tasks /\ t.ack \in Nat
    BY <1>6 DEF Tasks
  <2>2. CASE t \in tasks[x]
    <3>1. t.ack <= pos[x] /\ pos[x] <= pos'[x] /\ pos[x] \in Nat /\ pos'[x] \in Nat
      BY <1>1, <1>4, <2>2
    <3> QED BY <2>1, <3>1
  <2>3. CASE x = n /\ t = t0
    BY <1>2, <2>3
  <2> QED BY <1>7, <2>2, <2>3
<1> QED BY <1>5, <1>6, <1>8 DEF TaskKinds

(* The tasks when none is started, replaced or cancelled. *)
LEMMA SubTaskKinds ==
  ASSUME Kinds, proc' \in [Nodes -> ProcStates], cancelTask' \in [Nodes -> Nat],
         appPaused' \in [Nodes -> BOOLEAN],
         pos' \in [Nodes -> Nat], \A x \in Nodes : pos[x] <= pos'[x],
         tasks' \in [Nodes -> SUBSET Tasks], \A x \in Nodes : tasks'[x] \subseteq tasks[x]
  PROVE  TaskKinds'
<1>1. TaskKinds /\ pos \in [Nodes -> Nat]
  BY KindsParts DEF Kinds
<1>2. \A x \in Nodes : \A t \in tasks'[x] : t \in Tasks /\ t.ack <= pos[x]
  BY <1>1 DEF TaskKinds
<1>3. \A x \in Nodes : \A t \in tasks'[x] : t.ack <= pos'[x]
  BY <1>1, <1>2 DEF Tasks
<1> QED BY <1>3 DEF TaskKinds

(* What the log has, it keeps. *)
LEMMA LogGrows ==
  ASSUME Kinds, NEW n, LogStep(n)
  PROVE  /\ log' \in Seq(Messages) /\ Len(log) \in Nat /\ Len(log') \in Nat
         /\ Len(log) <= Len(log') /\ Len(log') <= Len(log) + 1
         /\ \A i \in 1..Len(log) : log'[i] = log[i]
<1>1. log \in Seq(Messages)
  BY DEF Kinds
<1>2. CASE log' = log
  BY <1>1, <1>2, LenProperties
<1>3. CASE \E m \in Messages : log' = Append(log, m)
  <2>1. PICK m \in Messages : log' = Append(log, m)
    BY <1>3
  <2> QED BY <1>1, <2>1, AppendProperties, LenProperties
<1> QED BY <1>2, <1>3 DEF LogStep

LEMMA HandleKinds ==
  ASSUME Kinds, NEW n \in Nodes, Handle(n)
  PROVE  /\ Kinds' /\ QuietLog /\ Handled(n) /\ pos[n] < Len(log) /\ proc[n] = "up"
         /\ pos' = [pos EXCEPT ![n] = Id(n)] /\ pos'[n] = Id(n)
<1>1. /\ Handled(n) /\ pos[n] < Len(log) /\ proc[n] = "up"
      /\ pos' = [pos EXCEPT ![n] = @ + 1] /\ UNCHANGED <<admin, execReq>>
  BY DEF Handle, Handled, Step
<1>2. QuietLog /\ counts' \in Counters /\ doomed' = doomed
  BY <1>1, HandledLog
<1>3. /\ Seen(grp[n], Msg(n), Id(n), grp'[n]) /\ Works(n)
      /\ grp' = [grp EXCEPT ![n] = grp'[n]]
  BY <1>1, HandledView
<1>4. /\ Id(n) \in Nat /\ Id(n) = pos[n] + 1 /\ Msg(n) \in Messages /\ grp[n] \in Views
      /\ pos \in [Nodes -> Nat] /\ pos[n] \in Nat /\ Id(n) <= Len(log)
  <2>1. log \in Seq(Messages) /\ pos \in [Nodes -> Nat]
    BY DEF Kinds
  <2>2. Len(log) \in Nat
    BY <2>1, LenProperties
  <2> QED BY <1>1, <2>1, <2>2, NextMessage
<1>5. /\ pos' \in [Nodes -> Nat] /\ pos'[n] = Id(n) /\ pos' = [pos EXCEPT ![n] = Id(n)]
      /\ \A x \in Nodes : pos[x] <= pos'[x] /\ (x # n => pos'[x] = pos[x])
  BY <1>1, <1>4
<1>6. grp[n].lastMsgID \in Nat /\ grp[n].lastMsgID <= pos[n]
  BY <1>4 DEF Kinds, Views
<1>7. TaskKinds'
  <2>1. CASE Cancels(n)
    BY <1>5, <2>1, CancelTaskKinds DEF Cancels
  <2>2. CASE NoTask /\ UNCHANGED appPaused
    <3>1. /\ proc' \in [Nodes -> ProcStates] /\ cancelTask' \in [Nodes -> Nat]
          /\ appPaused' \in [Nodes -> BOOLEAN] /\ tasks' \in [Nodes -> SUBSET Tasks]
          /\ \A x \in Nodes : tasks'[x] \subseteq tasks[x]
      BY <2>2, KindsParts DEF NoTask, TaskKinds
    <3> QED BY <1>5, <3>1, SubTaskKinds
  <2>3. ASSUME NEW fn \in TaskFns, NEW a \in Nat, StartTask(n, fn, a), UNCHANGED appPaused,
               Starts(n, grp[n], Msg(n), Id(n), grp'[n], fn, a)
        PROVE  TaskKinds'
    <3>1. a = Id(n) \/ a = grp[n].lastMsgID
      BY <2>3 DEF Starts
    <3>2. a <= pos'[n]
      BY <1>4, <1>5, <1>6, <3>1
    <3> QED BY <1>5, <2>3, <3>2, StartTaskKinds
  <2> QED BY <1>3, <2>1, <2>2, <2>3 DEF Works
<1>8. LogKinds'
  <2>1. LogStep(n)
    BY <1>2 DEF QuietLog, LogStep
  <2>2. grp'[n] \in Views /\ (grp'[n].lastMsgID = Id(n) \/ grp'[n].lastMsgID = grp[n].lastMsgID)
    BY <1>3, <1>4, SeenType
  <2>3. grp \in [Nodes -> Views]
    BY DEF Kinds
  <2>4. /\ grp' \in [Nodes -> Views] /\ \A x \in Nodes : x # n => grp'[x] = grp[x]
    BY <1>3, <2>2, <2>3
  <2>5. \A x \in Nodes : pos'[x] <= Len(log) /\ grp'[x].lastMsgID <= pos'[x]
    <3> TAKE x \in Nodes
    <3>1. CASE x = n
      BY <1>4, <1>5, <1>6, <2>2, <3>1
    <3>2. CASE x # n
      BY <1>5, <2>4, <3>2 DEF Kinds
    <3> QED BY <3>1, <3>2
  <2>6. \A x \in Nodes : pos'[x] <= Len(log')
    BY <1>5, <2>1, <2>5, LogGrows
  <2> QED BY <1>5, <2>1, <2>4, <2>5, <2>6, LogGrows DEF LogKinds
<1>9. OtherKinds'
  BY <1>1, <1>2, KindsParts DEF OtherKinds
<1>10. Kinds'
  BY <1>7, <1>8, <1>9 DEF Kinds, TaskKinds, LogKinds, OtherKinds, ProcStates
<1> QED BY <1>1, <1>2, <1>5, <1>10

(* The steps that move no message loop, and start and end no task that     *)
(* succeeds: at most a task is given up, a process crashes or a message    *)
(* that is no task's answer is sent.                                       *)
Passes(s, r) == r = s \/ r \in {"crashed", "closed twice"} \/ (s = "joining" /\ r = "up")

Calm ==
    /\ UNCHANGED <<pos, grp, cancelTask, appPaused>>
    /\ tasks' \in [Nodes -> SUBSET Tasks] /\ \A x \in Nodes : tasks'[x] \subseteq tasks[x]
    /\ proc' \in [Nodes -> ProcStates]
    /\ \A x \in Nodes : Passes(proc[x], proc'[x])
    /\ QuietLog
    /\ OtherKinds'

(* The parts of the types that the other actions leave alone. *)
LEMMA StillKinds ==
  ASSUME Kinds, NEW n, LogStep(n), UNCHANGED <<pos, grp>>, TaskKinds', OtherKinds'
  PROVE  Kinds'
<1>1. LogKinds
  BY KindsParts
<1>2. log' \in Seq(Messages) /\ Len(log) <= Len(log') /\ Len(log) \in Nat /\ Len(log') \in Nat
  BY LogGrows
<1>3. pos' = pos /\ grp' = grp
  OBVIOUS
<1>4. \A x \in Nodes : pos'[x] \in Nat /\ pos'[x] <= Len(log')
  BY <1>1, <1>2, <1>3 DEF LogKinds
<1>5. LogKinds'
  BY <1>1, <1>2, <1>3, <1>4 DEF LogKinds
<1> QED BY <1>5 DEF Kinds, TaskKinds, LogKinds, OtherKinds, ProcStates

LEMMA CalmKinds == ASSUME Kinds, Calm PROVE Kinds'
<1>1. /\ UNCHANGED <<pos, grp, cancelTask, appPaused>>
      /\ tasks' \in [Nodes -> SUBSET Tasks] /\ \A x \in Nodes : tasks'[x] \subseteq tasks[x]
      /\ proc' \in [Nodes -> ProcStates] /\ OtherKinds' /\ QuietLog
  BY DEF Calm
<1>2. /\ pos' = pos /\ pos' \in [Nodes -> Nat] /\ cancelTask' \in [Nodes -> Nat]
      /\ appPaused' \in [Nodes -> BOOLEAN]
  BY <1>1 DEF Kinds
<1>3. \A x \in Nodes : pos[x] <= pos'[x]
  BY <1>2
<1>4. TaskKinds'
  BY <1>1, <1>2, <1>3, SubTaskKinds
<1>5. ASSUME NEW n PROVE LogStep(n)
  BY <1>1 DEF QuietLog, LogStep
<1> QED BY <1>1, <1>4, <1>5, StillKinds

LEMMA CalmStutter == ASSUME Kinds, UNCHANGED groupVars PROVE Calm
BY DEF Kinds, groupVars, Calm, QuietLog, OtherKinds, Passes

LEMMA SentQuietly ==
  ASSUME Kinds, NEW n \in Nodes, NEW type \in MessageTypes \ TaskFns, NEW a \in Nat,
         a <= Len(log), log' = log \/ log' = Append(log, Message(type, n, a))
  PROVE  QuietLog
<1> DEFINE m == Message(type, n, a)
<1>1. m \in Messages /\ m.ack = a /\ m.type = type
  BY DEF Message, Messages
<1> HIDE DEF m
<1> QED BY <1>1 DEF QuietLog, m

LEMMA Numbers ==
  ASSUME Kinds, NEW n \in Nodes
  PROVE  /\ Len(log) \in Nat /\ 0 <= Len(log) /\ pos[n] \in Nat /\ pos[n] <= Len(log)
         /\ grp[n] \in Views /\ grp[n].lastMsgID \in Nat /\ grp[n].lastMsgID <= Len(log)
         /\ grp[n].lastMsgID <= pos[n] /\ cancelTask[n] \in Nat /\ appPaused[n] \in BOOLEAN
         /\ \A t \in tasks[n] : /\ t \in Tasks /\ t.ack \in Nat /\ t.ack <= Len(log)
                                /\ t.ack <= pos[n] /\ t.cancelled \in BOOLEAN
                                /\ t.fn \in TaskFns
<1>1. /\ log \in Seq(Messages) /\ pos[n] \in Nat /\ grp[n] \in Views /\ pos[n] <= Len(log)
      /\ grp[n].lastMsgID <= pos[n] /\ cancelTask[n] \in Nat /\ appPaused[n] \in BOOLEAN
      /\ tasks[n] \in SUBSET Tasks /\ \A t \in tasks[n] : t.ack <= pos[n]
  BY DEF Kinds
<1>2. Len(log) \in Nat
  BY <1>1, LenProperties
<1>3. grp[n].lastMsgID \in Nat
  BY <1>1 DEF Views
<1>4. \A t \in tasks[n] : /\ t \in Tasks /\ t.ack \in Nat /\ t.cancelled \in BOOLEAN
                          /\ t.fn \in TaskFns
  BY <1>1 DEF Tasks
<1>5. \A t \in tasks[n] : t.ack <= Len(log)
  BY <1>1, <1>2, <1>4
<1> QED BY <1>1, <1>2, <1>3, <1>4, <1>5

(* The tasks that a task's end leaves. *)
LEMMA TaskFailsCalm == ASSUME Kinds, NEW n \in Nodes, TaskFails(n) PROVE Calm
<1>1. PICK t \in tasks[n] : /\ TaskAppend(n, t, "error")
                            /\ tasks' = [tasks EXCEPT ![n] = @ \ {t}]
  BY DEF TaskFails
<1>2. UNCHANGED <<proc, pos, grp, cancelTask, appPaused, admin, execReq>>
  BY DEF TaskFails
<1>3. t.ack \in Nat /\ t.ack <= Len(log)
  BY Numbers
<1>4. NoAppend \/ Append1(Message("error", n, t.ack))
  BY <1>1 DEF TaskAppend
<1>5. "error" \in MessageTypes \ TaskFns /\ Message("error", n, t.ack) \in Messages
  BY <1>3 DEF MessageTypes, TaskFns, Message, Messages
<1>6. /\ log' = log \/ log' = Append(log, Message("error", n, t.ack))
      /\ counts' \in Counters /\ doomed' = doomed
  BY <1>4, <1>5, Append1Kinds DEF NoAppend, Kinds
<1>7. QuietLog
  BY <1>3, <1>5, <1>6, SentQuietly
<1>8. tasks \in [Nodes -> SUBSET Tasks] /\ proc \in [Nodes -> ProcStates]
  BY DEF Kinds, ProcStates
<1>9. tasks' \in [Nodes -> SUBSET Tasks] /\ \A x \in Nodes : tasks'[x] \subseteq tasks[x]
  BY <1>1, <1>8
<1>10. OtherKinds'
  BY <1>2, <1>6 DEF Kinds, OtherKinds
<1> QED BY <1>2, <1>7, <1>8, <1>9, <1>10 DEF Calm, Passes

LEMMA ResetCancelsCalm == ASSUME Kinds, NEW n \in Nodes, ResetCancels(n) PROVE Calm
<1> DEFINE was == [counts EXCEPT !.resets = @ + 1]
<1>1. UNCHANGED <<proc, pos, grp, cancelTask, tasks, appPaused, execReq>>
  BY DEF ResetCancels
<1>2. PICK failed \in BOOLEAN :
          /\ AppendWait(Message("cancel", n, 0), failed, was)
          /\ admin' = [admin EXCEPT ![n] = IF failed THEN 0 ELSE Len(log) + 1]
  BY DEF ResetCancels
<1>3. Message("cancel", n, 0) \in Messages /\ "cancel" \in MessageTypes \ TaskFns
  BY DEF Message, Messages, MessageTypes, TaskFns
<1>4. was \in Counters
  BY Counted DEF Kinds
<1> HIDE DEF was
<1>5. /\ log' = log \/ log' = Append(log, Message("cancel", n, 0))
      /\ counts' \in Counters /\ doomed' \in SUBSET Nat
  BY <1>2, <1>3, <1>4, AppendWaitKinds
<1>6. QuietLog
  BY <1>3, <1>5, SentQuietly, Numbers
<1>7. admin' \in [Nodes -> Nat \cup {NoReset}]
  <2>1. admin \in [Nodes -> Nat \cup {NoReset}] /\ Len(log) + 1 \in Nat
    BY Numbers DEF Kinds
  <2> QED BY <1>2, <2>1
<1>8. OtherKinds'
  BY <1>1, <1>5, <1>7 DEF Kinds, OtherKinds
<1>9. tasks \in [Nodes -> SUBSET Tasks] /\ proc \in [Nodes -> ProcStates]
  BY DEF Kinds
<1> QED BY <1>1, <1>6, <1>8, <1>9 DEF Calm, Passes

LEMMA ResetResetsCalm == ASSUME Kinds, NEW n \in Nodes, ResetResets(n) PROVE Calm
<1>1. /\ UNCHANGED <<proc, pos, grp, cancelTask, tasks, appPaused, execReq>>
      /\ admin' = [admin EXCEPT ![n] = NoReset]
  BY DEF ResetResets
<1>2. PICK failed \in BOOLEAN : AppendWait(Message("reset", n, 0), failed, counts)
  BY DEF ResetResets
<1>3. Message("reset", n, 0) \in Messages /\ "reset" \in MessageTypes \ TaskFns
  BY DEF Message, Messages, MessageTypes, TaskFns
<1>4. counts \in Counters
  BY DEF Kinds
<1>5. /\ log' = log \/ log' = Append(log, Message("reset", n, 0))
      /\ counts' \in Counters /\ doomed' \in SUBSET Nat
  BY <1>2, <1>3, <1>4, AppendWaitKinds
<1>6. QuietLog
  BY <1>3, <1>5, SentQuietly, Numbers
<1>7. OtherKinds'
  BY <1>1, <1>5 DEF Kinds, OtherKinds
<1>8. tasks \in [Nodes -> SUBSET Tasks] /\ proc \in [Nodes -> ProcStates]
  BY DEF Kinds
<1> QED BY <1>1, <1>6, <1>7, <1>8 DEF Calm, Passes

LEMMA ExecuteChecksCalm == ASSUME Kinds, NEW n \in Nodes, ExecuteChecks(n) PROVE Calm
<1>1. /\ UNCHANGED <<log, proc, pos, grp, cancelTask, tasks, appPaused, admin, doomed>>
      /\ execReq' = [execReq EXCEPT ![n] = TRUE]
      /\ counts' = [counts EXCEPT !.executes = @ + 1]
  BY DEF ExecuteChecks
<1>2. counts \in Counters /\ admin \in [Nodes -> Nat \cup {NoReset}]
      /\ execReq \in [Nodes -> BOOLEAN] /\ doomed \subseteq Nat
  BY DEF Kinds
<1>3. counts' \in Counters /\ execReq' \in [Nodes -> BOOLEAN]
  BY <1>1, <1>2 DEF Counters
<1>4. OtherKinds'
  BY <1>1, <1>2, <1>3 DEF OtherKinds
<1>5. tasks \in [Nodes -> SUBSET Tasks] /\ proc \in [Nodes -> ProcStates]
  BY DEF Kinds, ProcStates
<1> QED BY <1>1, <1>4, <1>5 DEF Calm, Passes, QuietLog

LEMMA ExecuteSendsCalm == ASSUME Kinds, NEW n \in Nodes, ExecuteSends(n) PROVE Calm
<1> DEFINE a == grp[n].lastMsgID
<1>1. /\ UNCHANGED <<proc, pos, grp, cancelTask, tasks, appPaused, admin>>
      /\ execReq' = [execReq EXCEPT ![n] = FALSE]
  BY DEF ExecuteSends
<1>2. PICK failed \in BOOLEAN : AppendWait(Message("execute", n, a), failed, counts)
  BY DEF ExecuteSends
<1>3. a \in Nat /\ a <= Len(log)
  BY Numbers
<1> HIDE DEF a
<1>4. Message("execute", n, a) \in Messages /\ "execute" \in MessageTypes \ TaskFns
  BY <1>3 DEF Message, Messages, MessageTypes, TaskFns
<1>5. counts \in Counters
  BY DEF Kinds
<1>6. /\ log' = log \/ log' = Append(log, Message("execute", n, a))
      /\ counts' \in Counters /\ doomed' \in SUBSET Nat
  BY <1>2, <1>4, <1>5, AppendWaitKinds
<1>7. QuietLog
  BY <1>3, <1>4, <1>6, SentQuietly
<1>8. OtherKinds'
  BY <1>1, <1>6 DEF Kinds, OtherKinds
<1>9. tasks \in [Nodes -> SUBSET Tasks] /\ proc \in [Nodes -> ProcStates]
  BY DEF Kinds
<1> QED BY <1>1, <1>7, <1>8, <1>9 DEF Calm, Passes

(* A process ends, by a crash or by the second close of a channel. *)
LEMMA EndsCalm ==
  ASSUME Kinds, NEW n \in Nodes, NodeCrash(n) \/ HandlePanics(n)
  PROVE  Calm
<1>1. UNCHANGED <<log, pos, grp, cancelTask, tasks, appPaused, admin, execReq, doomed>>
  BY DEF NodeCrash, HandlePanics
<1>2. /\ \E r \in {"crashed", "closed twice"} : proc' = [proc EXCEPT ![n] = r]
      /\ counts' = counts \/ counts' = [counts EXCEPT !.troubles = @ + 1]
  BY DEF NodeCrash, HandlePanics
<1>3. /\ counts \in Counters /\ admin \in [Nodes -> Nat \cup {NoReset}]
      /\ execReq \in [Nodes -> BOOLEAN] /\ proc \in [Nodes -> ProcStates]
      /\ tasks \in [Nodes -> SUBSET Tasks] /\ doomed \subseteq Nat
  BY DEF Kinds
<1>4. counts' \in Counters
  BY <1>2, <1>3, Counted
<1>5. OtherKinds'
  BY <1>1, <1>3, <1>4 DEF OtherKinds
<1>6. proc' \in [Nodes -> ProcStates] /\ \A x \in Nodes : Passes(proc[x], proc'[x])
  BY <1>2, <1>3 DEF Passes, ProcStates
<1> QED BY <1>1, <1>3, <1>5, <1>6 DEF Calm, QuietLog

(* A node that follows the log says hello. *)
LEMMA JoinCalm == ASSUME Kinds, NEW n \in Nodes, Join(n) PROVE Calm
<1>1. /\ UNCHANGED <<pos, grp, cancelTask, tasks, appPaused, admin, execReq>>
      /\ proc[n] = "joining" /\ proc' = [proc EXCEPT ![n] = "up"]
      /\ Append1(Message("hello", n, 0))
  BY DEF Join
<1>2. Message("hello", n, 0) \in Messages /\ "hello" \in MessageTypes \ TaskFns
  BY DEF Message, Messages, MessageTypes, TaskFns
<1>3. /\ log' = log \/ log' = Append(log, Message("hello", n, 0))
      /\ counts' \in Counters /\ doomed' = doomed
  BY <1>1, <1>2, Append1Kinds
<1>4. QuietLog
  BY <1>2, <1>3, SentQuietly, Numbers
<1>5. OtherKinds'
  BY <1>1, <1>3 DEF Kinds, OtherKinds
<1>6. tasks \in [Nodes -> SUBSET Tasks] /\ proc \in [Nodes -> ProcStates]
  BY DEF Kinds
<1>7. proc' \in [Nodes -> ProcStates] /\ \A x \in Nodes : Passes(proc[x], proc'[x])
  BY <1>1, <1>6 DEF Passes, ProcStates
<1> QED BY <1>1, <1>4, <1>5, <1>6, <1>7 DEF Calm

LEMMA ResetTimeoutKinds ==
  ASSUME Kinds, NEW n \in Nodes, ResetTimeout(n)
  PROVE  /\ Kinds' /\ grp' = [grp EXCEPT ![n] = Left(grp[n])] /\ grp'[n] = Left(grp[n])
         /\ grp[n].state = "Resetting"
         /\ UNCHANGED <<log, proc, pos, cancelTask, tasks, appPaused>>
<1>1. /\ grp' = [grp EXCEPT ![n] = Left(grp[n])] /\ grp[n].state = "Resetting"
      /\ UNCHANGED <<log, proc, pos, cancelTask, tasks, appPaused, admin, execReq, doomed, counts>>
  BY DEF ResetTimeout, Left
<1>2. TaskKinds /\ LogKinds /\ OtherKinds
  BY KindsParts
<1>3. TaskKinds' /\ OtherKinds'
  BY <1>1, <1>2 DEF TaskKinds, OtherKinds
<1>4. grp \in [Nodes -> Views] /\ grp[n] \in Views
  BY DEF Kinds
<1>5. Left(grp[n]) \in Views /\ Left(grp[n]).lastMsgID = grp[n].lastMsgID
  BY <1>4, StateFields DEF Left, ClusterStates
<1>6. /\ grp' \in [Nodes -> Views] /\ grp'[n] = Left(grp[n])
      /\ \A x \in Nodes : grp'[x].lastMsgID = grp[x].lastMsgID
  BY <1>1, <1>4, <1>5
<1>7. LogKinds'
  BY <1>1, <1>2, <1>6 DEF LogKinds
<1>8. Kinds'
  BY <1>3, <1>7 DEF Kinds, TaskKinds, LogKinds, OtherKinds, ProcStates
<1> QED BY <1>1, <1>6, <1>8

LEMMA TaskReturnsKinds ==
  ASSUME Kinds, NEW n \in Nodes, TaskReturns(n)
  PROVE  /\ Kinds' /\ proc[n] = "up" /\ UNCHANGED <<log, proc, pos, grp, cancelTask>>
         /\ \E t \in tasks[n], s \in Tasks :
               /\ s.fn = t.fn /\ s.ack = t.ack /\ s.cancelled = t.cancelled
               /\ tasks' = [tasks EXCEPT ![n] = (@ \ {t}) \cup {s}]
               /\ appPaused' = [appPaused EXCEPT ![n] = @ \/ (s.fn = "paused" /\ s.phase = "ok")]
<1>1. PICK t \in tasks[n], phase \in {"ok", "err"} :
          /\ counts' = IF phase = "err" /\ ~t.cancelled THEN [counts EXCEPT !.troubles = @ + 1]
                                                        ELSE counts
          /\ tasks' = [tasks EXCEPT ![n] = (@ \ {t}) \cup {[t EXCEPT !.phase = phase]}]
          /\ appPaused' = [appPaused EXCEPT ![n] = @ \/ (t.fn = "paused" /\ phase = "ok")]
  BY DEF TaskReturns
<1>2. proc[n] = "up" /\ UNCHANGED <<log, proc, pos, grp, cancelTask, admin, execReq, doomed>>
  BY DEF TaskReturns
<1> DEFINE s == [t EXCEPT !.phase = phase]
<1>3. t \in Tasks /\ t.ack <= pos[n]
  BY Numbers
<1>4. /\ s \in Tasks /\ s.fn = t.fn /\ s.ack = t.ack /\ s.cancelled = t.cancelled
      /\ s.phase = phase
  BY <1>3 DEF Tasks
<1> HIDE DEF s
<1>5. /\ tasks' = [tasks EXCEPT ![n] = (@ \ {t}) \cup {s}]
      /\ appPaused' = [appPaused EXCEPT ![n] = @ \/ (s.fn = "paused" /\ s.phase = "ok")]
  BY <1>1, <1>4 DEF s
<1>6. TaskKinds /\ OtherKinds
  BY KindsParts
<1>7. tasks' \in [Nodes -> SUBSET Tasks]
  BY <1>4, <1>5, <1>6 DEF TaskKinds
<1>8. appPaused' \in [Nodes -> BOOLEAN]
  BY <1>5, <1>6 DEF TaskKinds
<1>9. \A x \in Nodes : \A u \in tasks'[x] : u.ack <= pos'[x]
  <2>1. \A x \in Nodes : \A u \in tasks'[x] : u \in tasks[x] \/ (x = n /\ u = s)
    BY <1>5, <1>6 DEF TaskKinds
  <2> QED BY <1>2, <1>3, <1>4, <1>6, <2>1 DEF TaskKinds
<1>10. TaskKinds'
  BY <1>2, <1>6, <1>7, <1>8, <1>9 DEF TaskKinds
<1>11. counts' \in Counters
  BY <1>1, <1>6 DEF OtherKinds, Counters
<1>12. OtherKinds'
  BY <1>2, <1>6, <1>11 DEF OtherKinds, Counters
<1>13. LogStep(n)
  BY <1>2 DEF LogStep
<1>14. Kinds'
  BY <1>2, <1>10, <1>12, <1>13, StillKinds
<1> QED BY <1>2, <1>4, <1>5, <1>14

LEMMA TaskSucceedsKinds ==
  ASSUME Kinds, NEW n \in Nodes, TaskSucceeds(n)
  PROVE  /\ Kinds' /\ LogStep(n) /\ proc[n] = "up" /\ UNCHANGED <<pos, grp, appPaused>>
         /\ proc' = proc \/ proc' = [proc EXCEPT ![n] = "nil cancelTask"]
         /\ cancelTask' = [cancelTask EXCEPT ![n] = 0]
         /\ \E T : /\ tasks' = [tasks EXCEPT ![n] = T] /\ T \subseteq Cancelled(n)
         /\ \/ log' = log
            \/ \E t \in tasks[n] : /\ t.phase = "ok" /\ ~t.cancelled
                                   /\ log' = Append(log, Message(t.fn, n, t.ack))
<1>1. PICK t \in tasks[n] :
          /\ t.phase = "ok"
          /\ IF cancelTask[n] \in {0, t.ack} THEN TaskAppend(n, t, t.fn)
             ELSE counts' = [counts EXCEPT !.losses = @ + 1] /\ UNCHANGED <<log, doomed>>
          /\ tasks' = [tasks EXCEPT ![n] = Cancelled(n) \ {t, [t EXCEPT !.cancelled = TRUE]}]
  BY DEF TaskSucceeds
<1>2. /\ proc[n] = "up" /\ UNCHANGED <<pos, grp, appPaused, admin, execReq>>
      /\ proc' = IF cancelTask[n] = 0 THEN [proc EXCEPT ![n] = "nil cancelTask"] ELSE proc
      /\ cancelTask' = [cancelTask EXCEPT ![n] = 0]
  BY DEF TaskSucceeds
<1> DEFINE T == Cancelled(n) \ {t, [t EXCEPT !.cancelled = TRUE]}
<1>3. tasks' = [tasks EXCEPT ![n] = T] /\ T \subseteq Cancelled(n)
  BY <1>1
<1> HIDE DEF T
<1>4. t \in Tasks /\ t.ack \in Nat /\ t.ack <= Len(log) /\ t.fn \in TaskFns
  BY Numbers
<1> DEFINE m == Message(t.fn, n, t.ack)
<1>5. m \in Messages /\ m.node = n /\ m.ack = t.ack
  BY <1>4 DEF Message, Messages, MessageTypes, TaskFns
<1> HIDE DEF m
<1>6. \/ ~t.cancelled /\ Append1(m)
      \/ /\ UNCHANGED <<log, doomed>>
         /\ counts' = counts \/ counts' = [counts EXCEPT !.losses = @ + 1]
  BY <1>1 DEF TaskAppend, m, NoAppend
<1>7. /\ log' = log \/ (~t.cancelled /\ log' = Append(log, m))
      /\ counts' \in Counters /\ doomed' = doomed
  <2>1. counts \in Counters
    BY DEF Kinds
  <2>2. ASSUME counts' = [counts EXCEPT !.losses = @ + 1] PROVE counts' \in Counters
    BY <2>1, <2>2 DEF Counters
  <2> QED BY <1>5, <1>6, <2>1, <2>2, Append1Kinds
<1>8. LogStep(n)
  BY <1>4, <1>5, <1>7 DEF LogStep
<1>9. TaskKinds /\ OtherKinds
  BY KindsParts
<1>10. Cancelled(n) \in SUBSET Tasks /\ \A u \in Cancelled(n) : u.ack <= pos[n]
  BY <1>9, CancelledTasks DEF TaskKinds
<1>11. tasks' \in [Nodes -> SUBSET Tasks] /\ \A x \in Nodes : \A u \in tasks'[x] : u.ack <= pos[x]
  BY <1>3, <1>9, <1>10 DEF TaskKinds
<1>12. cancelTask' \in [Nodes -> Nat] /\ proc' \in [Nodes -> ProcStates]
  BY <1>2, <1>9 DEF TaskKinds, ProcStates
<1>13. TaskKinds'
  BY <1>2, <1>9, <1>11, <1>12 DEF TaskKinds
<1>14. OtherKinds'
  BY <1>2, <1>7, <1>9 DEF OtherKinds, Counters
<1>15. Kinds'
  BY <1>2, <1>8, <1>13, <1>14, StillKinds
<1>16. proc' = proc \/ proc' = [proc EXCEPT ![n] = "nil cancelTask"]
  BY <1>2
<1> QED BY <1>1, <1>2, <1>3, <1>7, <1>8, <1>15, <1>16 DEF m

LEMMA NewLogKinds ==
  ASSUME Kinds, NEW n \in Nodes, NewLog(n)
  PROVE  /\ Kinds' /\ UNCHANGED <<log, grp, cancelTask, tasks, appPaused>>
         /\ proc[n] = "off" /\ proc' = [proc EXCEPT ![n] = "joining"]
         /\ pos' = [pos EXCEPT ![n] = Len(log)]
<1>1. /\ UNCHANGED <<log, grp, cancelTask, tasks, appPaused, admin, execReq, doomed, counts>>
      /\ proc[n] = "off" /\ proc' = [proc EXCEPT ![n] = "joining"]
      /\ pos' = [pos EXCEPT ![n] = Len(log)]
  BY DEF NewLog
<1>2. TaskKinds /\ LogKinds /\ OtherKinds
  BY KindsParts
<1>3. /\ pos \in [Nodes -> Nat] /\ Len(log) \in Nat
      /\ \A x \in Nodes : pos[x] <= Len(log)
  BY Numbers DEF Kinds
<1>4. /\ pos' \in [Nodes -> Nat]
      /\ \A x \in Nodes : pos[x] <= pos'[x] /\ pos'[x] <= Len(log)
  BY <1>1, <1>3
<1>5. proc' \in [Nodes -> ProcStates]
  BY <1>1, <1>2 DEF TaskKinds, ProcStates
<1>6. /\ cancelTask' \in [Nodes -> Nat] /\ appPaused' \in [Nodes -> BOOLEAN]
      /\ tasks' \in [Nodes -> SUBSET Tasks] /\ \A x \in Nodes : tasks'[x] \subseteq tasks[x]
  BY <1>1, <1>2 DEF TaskKinds
<1>7. TaskKinds'
  BY <1>4, <1>5, <1>6, SubTaskKinds
<1>8. LogKinds'
  <2>1. \A x \in Nodes : grp[x].lastMsgID \in Nat /\ grp[x].lastMsgID <= pos[x]
    BY Numbers
  <2>2. \A x \in Nodes : grp'[x].lastMsgID <= pos'[x] /\ pos'[x] <= Len(log')
    BY <1>1, <1>3, <1>4, <2>1
  <2> QED BY <1>1, <1>2, <1>4, <2>2 DEF LogKinds
<1>9. OtherKinds'
  BY <1>1, <1>2 DEF OtherKinds
<1>10. Kinds'
  BY <1>7, <1>8, <1>9 DEF Kinds, TaskKinds, LogKinds, OtherKinds
<1> QED BY <1>1, <1>10

----------------------------------------------------------------------------
(* The log grows                                                           *)

LEMMA SaidHelloKept ==
  ASSUME Kinds, NEW n, LogStep(n)
  PROVE  /\ \A i \in 1..Len(log) : SaidHello(i)' <=> SaidHello(i)
         /\ NoStrangers' => NoStrangers
<1>1. /\ Len(log) \in Nat /\ Len(log') \in Nat /\ Len(log) <= Len(log')
      /\ \A i \in 1..Len(log) : log'[i] = log[i]
  BY LogGrows
<1>2. ASSUME NEW i \in 1..Len(log) PROVE SaidHello(i)' <=> SaidHello(i)
  <2>1. /\ log'[i] = log[i] /\ i \in Nat
        /\ \A k \in 1..(i - 1) : log'[k] = log[k]
    BY <1>1
  <2>2. \A r \in 1..(i - 1) : Since(r, i)' <=> Since(r, i)
    <3> TAKE r \in 1..(i - 1)
    <3>1. \A k \in (r + 1)..(i - 1) : k \in 1..(i - 1)
      BY <2>1
    <3> QED BY <2>1, <3>1 DEF Since
  <2> QED BY <2>1, <2>2 DEF SaidHello
<1>3. ASSUME NoStrangers' PROVE NoStrangers
  <2>1. DOMAIN log = 1..Len(log) /\ DOMAIN log' = 1..Len(log')
    BY LenProperties, LogGrows DEF Kinds
  <2>2. \A i \in 1..Len(log) : i \in 1..Len(log')
    BY <1>1
  <2> QED BY <1>1, <1>2, <1>3, <2>1, <2>2 DEF NoStrangers
<1> QED BY <1>2, <1>3

(* The messages of node x that are answers of a task, after a step. *)
LEMMA NewAnswers ==
  ASSUME Kinds, NEW n \in Nodes, LogStep(n), NEW x \in Nodes, x # n \/ QuietLog
  PROVE  \A j \in 1..Len(log') :
             log'[j].type \in TaskFns /\ log'[j].node = x => j \in 1..Len(log) /\ log'[j] = log[j]
<1>1. /\ log \in Seq(Messages) /\ Len(log) \in Nat
      /\ \A i \in 1..Len(log) : log'[i] = log[i]
  BY LogGrows DEF Kinds
<1>2. CASE log' = log
  BY <1>2
<1>3. ASSUME NEW m \in Messages, log' = Append(log, m), m.type \in TaskFns => m.node # x
      PROVE  \A j \in 1..Len(log') :
                log'[j].type \in TaskFns /\ log'[j].node = x => j \in 1..Len(log)
  <2>1. Len(log') = Len(log) + 1 /\ log'[Len(log) + 1] = m
    BY <1>1, <1>3, AppendProperties
  <2>2. \A j \in 1..Len(log') : j \in 1..Len(log) \/ j = Len(log) + 1
    BY <1>1, <2>1
  <2> QED BY <1>3, <2>1, <2>2
<1>4. CASE x # n
  BY <1>1, <1>2, <1>3, <1>4 DEF LogStep
<1>5. CASE QuietLog
  BY <1>1, <1>2, <1>3, <1>5 DEF QuietLog
<1> QED BY <1>4, <1>5

LEMMA DutyGrows ==
  ASSUME NEW V, NEW p \in Nat, NEW q \in Nat, p <= q
  PROVE  /\ \A x, fn, a : Duty(V, p, x, fn, a) => Duty(V, q, x, fn, a)
         /\ \A a \in Nat : PauseEnded(V, p, a) => PauseEnded(V, q, a)
<1>1. \A a \in 1..p : a \in 1..q /\ \A e \in a..p : e \in a..q
  OBVIOUS
<1>2. \A a \in Nat : \A k \in (a + 1)..p : k \in (a + 1)..q
  OBVIOUS
<1> QED BY <1>1, <1>2 DEF Duty, PauseEnded

(* What a node knows depends on the views up to its position only. *)
LEMMA NodeViews ==
  ASSUME Kinds, NEW n \in Nodes, NEW V, NEW W, NodeInv(V, n),
         \A i \in 0..Len(log) : W[i] = V[i]
  PROVE  NodeInv(W, n)
<1>1. pos[n] \in Nat /\ Len(log) \in Nat /\ pos[n] <= Len(log)
  BY Numbers
<1> DEFINE p == pos[n]
<1>2. \A i \in 0..p : W[i] = V[i]
  BY <1>1
<1>3. \A x, fn, a : Duty(V, p, x, fn, a) => Duty(W, p, x, fn, a)
  <2>1. \A a \in 1..p : a \in 0..p /\ \A e \in a..p : e \in 0..p
    BY <1>1
  <2> QED BY <1>2, <2>1 DEF Duty
<1>4. \A a \in Nat : PauseEnded(V, p, a) => PauseEnded(W, p, a)
  <2>1. \A a \in Nat : \A k \in (a + 1)..p : k \in 0..p
    BY <1>1
  <2> QED BY <1>2, <2>1 DEF PauseEnded
<1>5. \A x, fn, a : Duty(V, p, x, fn, a) => a \in Nat
  BY <1>1 DEF Duty
<1>6. Follows(W, pos[n], grp[n])
  <2>1. W[p] = V[p]
    BY <1>1, <1>2
  <2> QED BY <2>1 DEF NodeInv, Follows
<1>7. OnDuties(W, n)
  BY <1>3, <1>4, <1>5 DEF NodeInv, OnDuties, OnDuty
<1>8. Answers(W, n)
  BY <1>3, <1>4, <1>5 DEF NodeInv, Answers, Answered
<1> QED BY <1>6, <1>7, <1>8 DEF NodeInv

(* A node that takes no part in a step. *)
LEMMA NodeFrame ==
  ASSUME Kinds, NEW V, NEW n \in Nodes, NEW x \in Nodes, NodeInv(V, x), LogStep(n),
         x # n \/ QuietLog,
         pos'[x] = pos[x], grp'[x] = grp[x], cancelTask'[x] = cancelTask[x],
         appPaused'[x] = appPaused[x], tasks'[x] \subseteq tasks[x],
         Passes(proc[x], proc'[x])
  PROVE  NodeInv(V, x)'
<1>1. Follows(V, pos[x], grp[x])' /\ CancelsCurrent(x, grp[x], cancelTask[x])'
  BY DEF NodeInv, Follows, CancelsCurrent
<1>2. KnowsPaused(x)'
  <2>1. \A i \in 1..pos[x] : i \in 1..Len(log)
    BY Numbers
  <2>2. \A i \in 1..pos[x] : log'[i] = log[i] /\ (SaidHello(i)' <=> SaidHello(i))
    BY <2>1, LogGrows, SaidHelloKept
  <2>3. KnowsPaused(x)
    BY DEF NodeInv
  <2> QED BY <2>2, <2>3 DEF KnowsPaused
<1>3. OnDuties(V, x)'
  BY DEF NodeInv, OnDuties, OnDuty
<1>4. Answers(V, x)'
  <2>1. Answers(V, x)
    BY DEF NodeInv
  <2>2. Runs(proc'[x]) => Runs(proc[x])
    BY DEF Runs, Passes
  <2> QED BY <2>1, <2>2, NewAnswers DEF Answers, Answered
<1>5. (proc'[x] = "off" => pos'[x] = 0) /\ proc'[x] # "already running a task"
  BY DEF NodeInv, Passes
<1> QED BY <1>1, <1>2, <1>3, <1>4, <1>5 DEF NodeInv

----------------------------------------------------------------------------
(* A node handles a message                                                *)

(* The position, the views and the message of a node that handles one. *)
LEMMA Followed ==
  ASSUME Kinds, NoStrangers, NEW V \in [Nat -> Views], ViewsInv(log, V), NEW n \in Nodes,
         NodeInv(V, n), pos[n] < Len(log), NEW w, Seen(grp[n], Msg(n), Id(n), w)
  PROVE  /\ grp[n].state # "Unknown" => grp[n] = V[pos[n]] /\ w = V[Id(n)]
         /\ Follows(V, Id(n), w)
<1>1. /\ Id(n) \in 1..Len(log) /\ Id(n) \in Nat /\ Id(n) - 1 = pos[n] /\ pos[n] \in Nat
      /\ Msg(n) \in Messages /\ Msg(n) = log[Id(n)] /\ grp[n] \in Views
  BY NextMessage
<1>2. V[Id(n)] = Folded(V[pos[n]], Msg(n), Id(n))
  BY <1>1 DEF ViewsInv, Linked
<1>3. Follows(V, pos[n], grp[n]) /\ KnowsPaused(n)
  BY DEF NodeInv
<1>4. ASSUME Msg(n).type = "reset" PROVE w = V[Id(n)]
  <2>1. \A i \in 1..pos[n] : i \in DOMAIN log /\ Id(n) \in DOMAIN log /\ i < Id(n)
    <3>1. DOMAIN log = 1..Len(log) /\ Len(log) \in Nat
      BY LenProperties DEF Kinds
    <3> QED BY <1>1, <3>1
  <2>2. \A i \in 1..pos[n] : log[i].type = "paused" => SaidHello(i)
    BY <1>1, <1>4, <2>1 DEF NoStrangers
  <2>3. grp[n].paused \subseteq grp[n].nodes
    BY <1>3, <2>2 DEF KnowsPaused
  <2>4. w = Fresh(Id(n))
    BY <1>1, <1>4, <2>3, SeenType
  <2> QED BY <1>2, <1>4, <2>4 DEF Folded
<1>5. CASE grp[n].state # "Unknown"
  <2>1. grp[n] = V[pos[n]]
    BY <1>3, <1>5 DEF Follows
  <2>2. CASE Msg(n).type # "reset"
    BY <1>1, <1>2, <1>5, <2>1, <2>2, SeenType DEF Follows
  <2> QED BY <1>4, <2>1, <2>2 DEF Follows
<1>6. CASE grp[n].state = "Unknown" /\ w.state # "Unknown"
  <2>1. Msg(n).type = "reset"
    BY <1>1, <1>6, SeenType
  <2> QED BY <1>4, <1>6, <2>1 DEF Follows
<1> QED BY <1>5, <1>6 DEF Follows

LEMMA KnowsHandled ==
  ASSUME Kinds, Kinds', NEW V \in [Nat -> Views], ViewsInv(log, V), NEW n \in Nodes,
         NodeInv(V, n), pos[n] < Len(log), Seen(grp[n], Msg(n), Id(n), grp'[n]),
         pos'[n] = Id(n), LogStep(n)
  PROVE  KnowsPaused(n)'
<1>1. /\ Id(n) \in 1..Len(log) /\ Id(n) \in Nat /\ Id(n) = pos[n] + 1 /\ pos[n] \in Nat
      /\ Msg(n) \in Messages /\ Msg(n) = log[Id(n)] /\ grp[n] \in Views /\ Len(log) \in Nat
  BY NextMessage, Numbers
<1>2. \A i \in 1..pos'[n] : i \in 1..Len(log) /\ log'[i] = log[i] /\ (SaidHello(i)' <=> SaidHello(i))
  BY <1>1, LogGrows, SaidHelloKept
<1>3. CASE \E i \in 1..pos[n] : log[i].type = "paused" /\ ~SaidHello(i)
  <2>1. \A i \in 1..pos[n] : i \in 1..pos'[n]
    BY <1>1
  <2> QED BY <1>2, <1>3, <2>1 DEF KnowsPaused
<1>4. CASE grp[n].paused \subseteq grp[n].nodes
  <2> DEFINE v == grp[n]
             w == grp'[n]
             m == Msg(n)
  <2>1. CASE m.type = "reset"
    <3>1. w.paused = {}
      BY <1>1, <1>4, <2>1, SeenType DEF Fresh
    <3> QED BY <3>1 DEF KnowsPaused
  <2>2. CASE m.type # "reset" /\ w.paused \subseteq v.paused
    <3>1. v.nodes \subseteq w.nodes
      BY <1>1, <2>2, SeenType
    <3> QED BY <1>4, <2>2, <3>1 DEF KnowsPaused
  <2>3. CASE m.type # "reset" /\ Fits(v, m, "Pausing", "paused")
             /\ w.paused = v.paused \cup {m.node}
    <3>1. v.nodes \subseteq w.nodes
      BY <1>1, <2>3, SeenType
    <3>2. v.state = "Pausing" /\ m.type = "paused"
      BY <2>3 DEF Fits
    <3>3. CASE ~SaidHello(Id(n))
      <4>1. Id(n) \in 1..pos'[n]
        BY <1>1
      <4> QED BY <1>1, <1>2, <3>2, <3>3, <4>1 DEF KnowsPaused
    <3>4. CASE SaidHello(Id(n))
      <4>1. PICK j \in 1..(Id(n) - 1) :
                /\ log[j].type = "hello" /\ log[j].node = m.node
                /\ log[j].ack \in 1..(Id(n) - 1) /\ Since(log[j].ack, Id(n))
        BY <1>1, <3>4 DEF SaidHello
      <4>2. v = V[pos[n]]
        BY <3>2 DEF NodeInv, Follows
      <4>3. pos[n] \in 0..Len(log) /\ Id(n) - 1 = pos[n]
        BY <1>1
      <4>4. Members(log, V, pos[n])
        BY <4>3 DEF ViewsInv
      <4>5. PICK r \in 1..pos[n] :
                /\ ResetAt(log, r, Id(n))
                /\ \A k \in (r + 1)..pos[n] : log[k].type = "hello" => log[k].node \in v.nodes
        BY <1>1, <3>2, <4>2, <4>4 DEF Members
      <4>6. log[j].ack < j
        <5>1. j \in 1..Len(log)
          BY <1>1
        <5> QED BY <5>1 DEF ViewsInv, Linked
      <4>7. log[j].ack = r
        <5> DEFINE s == log[j].ack
        <5>1. /\ s \in 1..(Id(n) - 1) /\ r \in 1..(Id(n) - 1)
              /\ log[s].type = "reset" /\ log[r].type = "reset"
              /\ \A k \in (s + 1)..(Id(n) - 1) : log[k].type # "reset"
              /\ \A k \in (r + 1)..(Id(n) - 1) : log[k].type # "reset"
          BY <4>1, <4>3, <4>5 DEF Since, ResetAt
        <5> HIDE DEF s
        <5>2. ~(s < r) /\ ~(r < s)
          BY <1>1, <5>1
        <5>3. s = r
          BY <1>1, <5>1, <5>2
        <5> QED BY <5>3 DEF s
      <4>8. j \in (r + 1)..pos[n]
        BY <1>1, <4>1, <4>3, <4>6, <4>7
      <4>9. m.node \in v.nodes
        BY <4>1, <4>5, <4>8
      <4>10. w.paused \subseteq w.nodes
        BY <1>4, <2>3, <3>1, <4>9
      <4> QED BY <4>10 DEF KnowsPaused
    <3> QED BY <3>3, <3>4
  <2> QED BY <1>1, <2>1, <2>2, <2>3, SeenType
<1> QED BY <1>3, <1>4 DEF NodeInv, KnowsPaused

(* The answers of a node that sends none. *)
LEMMA AnswersMove ==
  ASSUME Kinds, NEW V, NEW n \in Nodes, LogStep(n), QuietLog, Answers(V, n),
         \A fn \in TaskFns, a \in Nat :
             Answered(V, n, pos[n], grp[n], cancelTask[n], appPaused[n], Runs(proc[n]), fn, a)
             => Answered(V, n, pos'[n], grp'[n], cancelTask'[n], appPaused'[n], Runs(proc'[n]),
                         fn, a)
  PROVE  Answers(V, n)'
<1>1. \A j \in 1..Len(log') :
         log'[j].type \in TaskFns /\ log'[j].node = n =>
             Answered(V, n, pos'[n], grp'[n], cancelTask'[n], appPaused'[n], Runs(proc'[n]),
                      log'[j].type, log'[j].ack)
  <2> TAKE j \in 1..Len(log')
  <2> HAVE log'[j].type \in TaskFns /\ log'[j].node = n
  <2>1. j \in 1..Len(log) /\ log'[j] = log[j]
    BY NewAnswers
  <2>2. log[j] \in Messages /\ log[j].ack \in Nat
    <3>1. log \in Seq(Messages)
      BY DEF Kinds
    <3>2. log[j] \in Messages
      BY <2>1, <3>1, ElementOfSeq
    <3> QED BY <3>2 DEF Messages
  <2>3. Answered(V, n, pos[n], grp[n], cancelTask[n], appPaused[n], Runs(proc[n]),
                 log[j].type, log[j].ack)
    BY <2>1 DEF Answers
  <2> QED BY <2>1, <2>2, <2>3
<1> QED BY <1>1 DEF Answers

(* A message that ends the switchover ends every pause before it. *)
LEMMA EndsPause ==
  ASSUME NEW V, NEW p \in Nat, NEW a \in 1..p, V[p + 1].state \notin InSwitch
  PROVE  PauseEnded(V, p + 1, a)
<1>1. p + 1 \in (a + 1)..(p + 1)
  OBVIOUS
<1> QED BY <1>1 DEF PauseEnded

LEMMA CancelsNode ==
  ASSUME Kinds, Kinds', NEW V \in [Nat -> Views], NEW n \in Nodes, NodeInv(V, n),
         pos[n] < Len(log), pos'[n] = Id(n), LogStep(n), QuietLog, Cancels(n),
         grp[n].state # "Unknown" => grp[n] = V[pos[n]] /\ grp'[n] = V[Id(n)]
  PROVE  /\ CancelsCurrent(n, grp[n], cancelTask[n])' /\ OnDuties(V, n)' /\ Answers(V, n)'
         /\ proc'[n] = proc[n]
<1>1. /\ Id(n) \in Nat /\ Id(n) = pos[n] + 1 /\ pos[n] \in Nat /\ pos[n] <= Id(n)
  BY NextMessage
<1>2. /\ tasks'[n] = Cancelled(n) /\ cancelTask'[n] = 0 /\ appPaused'[n] = FALSE
      /\ proc' = proc /\ grp'[n].state \notin InSwitch
  BY DEF Kinds, Cancels, CancelTask, InSwitch
<1>3. \A x, fn, a : Duty(V, pos[n], x, fn, a) => Duty(V, Id(n), x, fn, a) /\ a \in 1..pos[n]
  BY <1>1, DutyGrows DEF Duty
<1>4. \A a \in 1..pos[n] :
         PauseEnded(V, pos[n], a) \/ grp[n].state # "Unknown" => PauseEnded(V, Id(n), a)
  <2>1. \A a \in 1..pos[n] : a \in Nat
    BY <1>1
  <2>2. \A a \in 1..pos[n] : PauseEnded(V, pos[n], a) => PauseEnded(V, Id(n), a)
    BY <1>1, <2>1, DutyGrows
  <2>3. ASSUME NEW a \in 1..pos[n], grp[n].state # "Unknown" PROVE PauseEnded(V, Id(n), a)
    BY <1>1, <1>2, <2>3, EndsPause
  <2> QED BY <2>2, <2>3
<1>5. CancelsCurrent(n, grp[n], cancelTask[n])'
  BY <1>2 DEF CancelsCurrent
<1>6. OnDuties(V, n)'
  <2>1. ASSUME NEW s \in Cancelled(n)
        PROVE  OnDuty(V, n, Id(n), grp'[n], cancelTask'[n], appPaused'[n], s)
    <3>1. PICK t \in tasks[n] : /\ s.fn = t.fn /\ s.ack = t.ack /\ s.phase = t.phase
                                /\ s.cancelled <=> (t.cancelled \/ t.ack = cancelTask[n])
      BY <2>1, CancelledTasks
    <3>2. OnDuty(V, n, pos[n], grp[n], cancelTask[n], appPaused[n], t)
      BY DEF NodeInv, OnDuties
    <3>3. s.cancelled
      BY <3>1, <3>2 DEF OnDuty
    <3> QED BY <1>3, <1>4, <3>1, <3>2, <3>3 DEF OnDuty
  <2> QED BY <1>2, <2>1 DEF OnDuties
<1>7. Answers(V, n)'
  <2>1. ASSUME NEW fn \in TaskFns, NEW a \in Nat,
               Answered(V, n, pos[n], grp[n], cancelTask[n], appPaused[n], Runs(proc[n]), fn, a)
        PROVE  Answered(V, n, pos'[n], grp'[n], cancelTask'[n], appPaused'[n], Runs(proc'[n]),
                        fn, a)
    <3>1. Duty(V, Id(n), n, fn, a) /\ a \in 1..pos[n]
      BY <1>3, <2>1 DEF Answered
    <3>2. fn = "paused" => PauseEnded(V, Id(n), a)
      BY <1>4, <2>1, <3>1 DEF Answered
    <3> QED BY <1>1, <1>2, <3>1, <3>2 DEF Answered
  <2> QED BY <2>1, AnswersMove DEF NodeInv
<1> QED BY <1>2, <1>5, <1>6, <1>7

(* The end of a reset and of a synchronisation is announced by the leader, *)
(* whose task is over then.                                                *)
LEMMA LeaderEnds ==
  ASSUME Kinds, NEW V \in [Nat -> Views], ViewsInv(log, V), \A x \in Nodes : NodeInv(V, x),
         NEW n \in Nodes, pos[n] < Len(log), NEW fn \in {"reset-end", "pause"},
         Fits(grp[n], Msg(n), Stage(fn), fn)
  PROVE  cancelTask[n] = 0
<1> SUFFICES ASSUME cancelTask[n] # 0 PROVE FALSE
  OBVIOUS
<1> DEFINE y == Msg(n).node
           s == grp[n].lastMsgID
<1>1. /\ Id(n) \in 1..Len(log) /\ Msg(n) = log[Id(n)] /\ y \in Nodes
      /\ pos[n] \in 0..Len(log) /\ pos[y] \in Nat /\ pos[y] <= Len(log) /\ Len(log) \in Nat
      /\ log \in Seq(Messages) /\ n # NoNode /\ y # NoNode
  <2>1. /\ Id(n) \in 1..Len(log) /\ Msg(n) = log[Id(n)] /\ y \in Nodes
    BY NextMessage
  <2>2. /\ pos[n] \in Nat /\ pos[n] <= Len(log) /\ pos[y] \in Nat /\ pos[y] <= Len(log)
        /\ Len(log) \in Nat
    BY <2>1, Numbers
  <2>3. log \in Seq(Messages)
    BY DEF Kinds
  <2> QED BY <2>1, <2>2, <2>3, GroupAssumption
<1>2. /\ Msg(n).type = fn /\ Msg(n).ack = s /\ grp[n].state = Stage(fn)
      /\ grp[n].state \in {"Resetting", "Syncing"} /\ fn \in TaskFns /\ fn # "paused"
  BY DEF Fits, Stage, TaskFns
<1>3. /\ CancelsCurrent(n, grp[n], cancelTask[n]) /\ Follows(V, pos[n], grp[n]) /\ Answers(V, y)
  BY <1>1 DEF NodeInv
<1>4. grp[n].leaderID = n /\ cancelTask[n] = s
  BY <1>2, <1>3 DEF CancelsCurrent
<1>5. grp[n] = V[pos[n]]
  BY <1>2, <1>3 DEF Follows
<1>6. /\ Duty(V, pos[y], y, fn, s) /\ cancelTask[y] # s
  BY <1>1, <1>2, <1>3 DEF Answers, Answered
<1>7. PICK e \in s..pos[y] : V[e].lastMsgID = s /\ V[e].leaderID = y
  BY <1>2, <1>6 DEF Duty
<1>8. e \in 0..Len(log)
  BY <1>1, <1>6, <1>7 DEF Duty
<1>9. y = n
  BY <1>1, <1>4, <1>5, <1>7, <1>8, OneLeader
<1> QED BY <1>4, <1>6, <1>9

(* When all members have paused the leader's own pause is over too. *)
LEMMA LeaderPaused ==
  ASSUME Kinds, NEW V \in [Nat -> Views], ViewsInv(log, V), NEW n \in Nodes, NodeInv(V, n),
         pos[n] < Len(log), Fits(grp[n], Msg(n), "Pausing", "paused"),
         AllPaused(grp[n], Msg(n).node), grp[n].leaderID = n
  PROVE  cancelTask[n] = 0
<1> SUFFICES ASSUME cancelTask[n] # 0 PROVE FALSE
  OBVIOUS
<1> DEFINE s == grp[n].lastMsgID
<1>1. /\ Id(n) \in 1..Len(log) /\ Msg(n) = log[Id(n)] /\ pos[n] \in 0..Len(log)
      /\ pos[n] \in Nat /\ Len(log) \in Nat /\ pos[n] <= Len(log)
  BY NextMessage, Numbers
<1>2. grp[n].state = "Pausing" /\ Msg(n).type = "paused" /\ Msg(n).ack = s
  BY DEF Fits
<1>3. CancelsCurrent(n, grp[n], cancelTask[n]) /\ Follows(V, pos[n], grp[n]) /\ Answers(V, n)
  BY DEF NodeInv
<1>4. cancelTask[n] = s
  BY <1>2, <1>3 DEF CancelsCurrent
<1>5. grp[n] = V[pos[n]]
  BY <1>2, <1>3 DEF Follows
<1>6. Simple(V, pos[n]) /\ Halting(log, V, pos[n])
  BY <1>1 DEF ViewsInv
<1>7. n \in grp[n].paused \cup {Msg(n).node}
  BY <1>5, <1>6, GroupAssumption DEF Simple, AllPaused
<1>8. \E j \in 1..Len(log) : log[j].type = "paused" /\ log[j].node = n /\ log[j].ack = s
  <2>1. CASE n = Msg(n).node
    BY <1>1, <1>2, <2>1
  <2>2. CASE n \in grp[n].paused
    <3>1. PausedFrom(log, n, s, pos[n])
      BY <1>2, <1>5, <1>6, <2>2 DEF Halting
    <3>2. \A j \in 1..pos[n] : j \in 1..Len(log)
      BY <1>1
    <3> QED BY <3>1, <3>2 DEF PausedFrom
  <2> QED BY <1>7, <2>1, <2>2
<1>9. cancelTask[n] # s
  BY <1>3, <1>8 DEF Answers, Answered, TaskFns
<1> QED BY <1>4, <1>9

(* A message that starts no task. *)
LEMMA QuietNode ==
  ASSUME Kinds, Kinds', NEW V \in [Nat -> Views], ViewsInv(log, V), \A x \in Nodes : NodeInv(V, x),
         NEW n \in Nodes, pos[n] < Len(log), pos'[n] = Id(n), LogStep(n), QuietLog,
         NoTask, UNCHANGED appPaused, Quietly(grp[n], Msg(n), Id(n), grp'[n])
  PROVE  /\ CancelsCurrent(n, grp[n], cancelTask[n])' /\ OnDuties(V, n)' /\ Answers(V, n)'
         /\ proc'[n] = proc[n]
<1> DEFINE v == grp[n]
           w == grp'[n]
           m == Msg(n)
<1>1. /\ Id(n) \in Nat /\ Id(n) = pos[n] + 1 /\ pos[n] \in Nat /\ pos[n] <= Id(n)
      /\ v \in Views /\ m.node \in Nodes
  BY NextMessage
<1>2. /\ tasks' = tasks /\ cancelTask' = cancelTask /\ appPaused' = appPaused /\ proc' = proc
  BY DEF NoTask
<1>3. NodeInv(V, n)
  OBVIOUS
<1>4. CancelsCurrent(n, v, cancelTask[n])
  BY <1>3 DEF NodeInv
<1>5. /\ CancelsCurrent(n, w, cancelTask[n])
      /\ v.state # "Unknown" => w.state # "Unknown"
      /\ v.state = "Executing" => w.state = "Executing"
  <2>1. CASE Fits(v, m, "Resetting", "hello") /\ w = Greeted(v, m.node)
    <3>1. v.state = "Resetting"
      BY <2>1 DEF Fits
    <3>2. /\ w.state = v.state /\ w.lastMsgID = v.lastMsgID
          /\ v.leaderID # NoNode => w.leaderID = v.leaderID
      BY <1>1, <2>1, GreetedFields
    <3> QED BY <1>4, <3>1, <3>2, GroupAssumption DEF CancelsCurrent
  <2>2. CASE Fits(v, m, "Resetting", "reset-end") /\ w = Moved(v, "Idle", Id(n))
    <3>1. cancelTask[n] = 0
      <4>1. Fits(grp[n], Msg(n), Stage("reset-end"), "reset-end")
        BY <2>2 DEF Stage
      <4> QED BY <4>1, LeaderEnds
    <3>2. v.state = "Resetting" /\ "Idle" \in ClusterStates
      BY <2>2 DEF Fits, ClusterStates
    <3>3. w.state = "Idle"
      <4>1. /\ w = Moved(v, "Idle", Id(n)) /\ "Idle" \in ClusterStates
            /\ v \in Views /\ Id(n) \in Nat
        BY <1>1, <2>2, <3>2
      <4> QED BY <4>1, MovedFields
    <3> QED BY <3>1, <3>2, <3>3 DEF CancelsCurrent
  <2>3. CASE Fits(v, m, "Idle", "execute") /\ w = Moved(v, "Syncing", Id(n))
    <3>1. v.state = "Idle" /\ "Syncing" \in ClusterStates
      BY <2>3 DEF Fits, ClusterStates
    <3>2. cancelTask[n] = 0
      BY <1>4, <3>1 DEF CancelsCurrent
    <3>3. w.state = "Syncing"
      <4>1. /\ w = Moved(v, "Syncing", Id(n)) /\ "Syncing" \in ClusterStates
            /\ v \in Views /\ Id(n) \in Nat
        BY <1>1, <2>3, <3>1
      <4> QED BY <4>1, MovedFields
    <3> QED BY <3>1, <3>2, <3>3 DEF CancelsCurrent
  <2>4. CASE Fits(v, m, "Pausing", "paused") /\ w = Halted(v, m.node, Id(n))
    <3>1. v.state = "Pausing"
      BY <2>4 DEF Fits
    <3>2. w.state = "Executing" \/ (w.state = "Pausing" /\ w.lastMsgID = v.lastMsgID)
      <4>1. /\ w = Halted(v, m.node, Id(n))
            /\ v \in Views /\ Id(n) \in Nat /\ m.node \in Nodes
        BY <1>1, <2>4
      <4> DEFINE h == Halted(v, m.node, Id(n))
      <4>2. /\ h.state = IF AllPaused(v, m.node) THEN "Executing" ELSE v.state
            /\ h.lastMsgID = IF AllPaused(v, m.node) THEN Id(n) ELSE v.lastMsgID
        BY <4>1, HaltedFields
      <4> HIDE DEF h
      <4>3. w = h
        BY <4>1 DEF h
      <4> QED BY <3>1, <4>2, <4>3
    <3> QED BY <1>4, <3>1, <3>2 DEF CancelsCurrent
  <2>5. CASE w = v
    BY <1>4, <2>5
  <2> QED BY <2>1, <2>2, <2>3, <2>4, <2>5 DEF Quietly
<1>6. \A x, fn, a : Duty(V, pos[n], x, fn, a) => Duty(V, Id(n), x, fn, a) /\ a \in Nat
  BY <1>1, DutyGrows DEF Duty
<1>7. \A a \in Nat : PauseEnded(V, pos[n], a) => PauseEnded(V, Id(n), a)
  BY <1>1, DutyGrows
<1>8. CancelsCurrent(n, grp[n], cancelTask[n])'
  BY <1>2, <1>5
<1>9. OnDuties(V, n)'
  <2>1. ASSUME NEW t \in tasks[n],
               OnDuty(V, n, pos[n], grp[n], cancelTask[n], appPaused[n], t)
        PROVE  OnDuty(V, n, Id(n), grp'[n], cancelTask[n], appPaused[n], t)
    BY <1>5, <1>6, <1>7, <2>1 DEF OnDuty
  <2> QED BY <1>2, <1>3, <2>1 DEF NodeInv, OnDuties
<1>10. Answers(V, n)'
  <2>1. ASSUME NEW fn \in TaskFns, NEW a \in Nat,
               Answered(V, n, pos[n], grp[n], cancelTask[n], appPaused[n], Runs(proc[n]), fn, a)
        PROVE  Answered(V, n, pos'[n], grp'[n], cancelTask'[n], appPaused'[n], Runs(proc'[n]),
                        fn, a)
    BY <1>2, <1>5, <1>6, <1>7, <2>1 DEF Answered
  <2> QED BY <1>3, <2>1, AnswersMove DEF NodeInv
<1> QED BY <1>2, <1>8, <1>9, <1>10

(* A message that starts a task: no task is started over another. *)
LEMMA StartsFree ==
  ASSUME Kinds, NEW V \in [Nat -> Views], ViewsInv(log, V), \A x \in Nodes : NodeInv(V, x),
         NEW n \in Nodes, pos[n] < Len(log), NEW fn, NEW a, NEW w,
         Starts(n, grp[n], Msg(n), Id(n), w, fn, a)
  PROVE  cancelTask[n] = 0
<1>1. CancelsCurrent(n, grp[n], cancelTask[n]) /\ NodeInv(V, n)
  BY DEF NodeInv
<1>2. CASE Fits(grp[n], Msg(n), "Resetting", "hello") /\ grp[n].leaderID = NoNode
  <2>1. grp[n].state = "Resetting"
    BY <1>2 DEF Fits
  <2> QED BY <1>1, <1>2, <2>1, GroupAssumption DEF CancelsCurrent
<1>3. CASE Fits(grp[n], Msg(n), "Idle", "execute")
  BY <1>1, <1>3 DEF Fits, CancelsCurrent
<1>4. CASE Fits(grp[n], Msg(n), "Syncing", "pause")
  <2>1. Fits(grp[n], Msg(n), Stage("pause"), "pause")
    BY <1>4 DEF Stage
  <2> QED BY <2>1, LeaderEnds
<1>5. CASE /\ Fits(grp[n], Msg(n), "Pausing", "paused")
           /\ AllPaused(grp[n], Msg(n).node) /\ grp[n].leaderID = n
  BY <1>1, <1>5, LeaderPaused
<1> QED BY <1>2, <1>3, <1>4, <1>5 DEF Starts

(* The started task is the node's duty, and nobody has answered for it. *)
LEMMA StartsDuty ==
  ASSUME Kinds, NEW V \in [Nat -> Views], ViewsInv(log, V), NEW n \in Nodes, NodeInv(V, n),
         pos[n] < Len(log), NEW fn, NEW a, NEW w, Starts(n, grp[n], Msg(n), Id(n), w, fn, a),
         w = V[Id(n)], grp[n] = V[pos[n]]
  PROVE  /\ Duty(V, Id(n), n, fn, a) /\ CancelsCurrent(n, w, a) /\ w.state # "Unknown"
         /\ fn = "done" => w.state = "Executing"
         /\ a \in Nat /\ a # 0
         /\ \A f : ~Duty(V, pos[n], n, f, a)
<1> DEFINE v == grp[n]
           m == Msg(n)
           p == pos[n]
           q == Id(n)
<1>1. /\ q \in Nat /\ q = p + 1 /\ p \in Nat /\ p \in 0..Len(log) /\ v \in Views
      /\ m.node \in Nodes /\ n # NoNode
  BY NextMessage, Numbers, GroupAssumption
<1>2. Simple(V, p) /\ Opened(V, p) /\ Steady(V, p)
  BY <1>1 DEF ViewsInv
<1>3. q \in 1..q /\ q \in q..q /\ q # 0 /\ \A f : ~Duty(V, p, n, f, q)
  BY <1>1 DEF Duty
<1> HIDE DEF v, m, p, q
<1>4. CASE /\ fn = "reset-end" /\ a = v.lastMsgID
           /\ Fits(v, m, "Resetting", "hello") /\ w = Greeted(v, m.node)
           /\ v.leaderID = NoNode /\ m.node \in CanExec /\ m.node = n
  <2>1. v.state = "Resetting" /\ v = V[p] /\ w = V[q]
    BY <1>4 DEF Fits, v, p, q
  <2>2. a \in 1..p /\ V[a] = Fresh(a)
    BY <1>2, <1>4, <2>1 DEF Opened
  <2>3. V[a].state = "Resetting" /\ V[a].lastMsgID = a
    BY <2>2 DEF Fresh
  <2>4. w.state = "Resetting" /\ w.lastMsgID = a /\ w.leaderID = n
    BY <1>1, <1>4, <2>1, GreetedFields
  <2>5. a \in 1..q /\ q \in a..q /\ a \in Nat /\ a # 0
    BY <1>1, <2>2
  <2>6. Duty(V, q, n, fn, a)
    BY <1>4, <2>1, <2>3, <2>4, <2>5 DEF Duty, Stage
  <2>7. CancelsCurrent(n, w, a)
    BY <2>4 DEF CancelsCurrent
  <2>8. ASSUME NEW f, Duty(V, p, n, f, a) PROVE FALSE
    <3>1. f # "paused"
      BY <2>3, <2>8 DEF Duty, Stage
    <3>2. PICK e \in a..p : V[e].lastMsgID = a /\ V[e].leaderID = n
      BY <2>8, <3>1 DEF Duty
    <3>3. e \in 0..p
      BY <1>1, <2>2
    <3> QED BY <1>1, <1>2, <1>4, <2>1, <3>2, <3>3 DEF Steady
  <2> QED BY <1>4, <2>4, <2>5, <2>6, <2>7, <2>8 DEF p, q
<1>5. CASE /\ fn = "pause" /\ a = q /\ w = Moved(v, "Syncing", q) /\ v.leaderID = n
  <2>1. "Syncing" \in ClusterStates
    BY DEF ClusterStates
  <2>2. w.state = "Syncing" /\ w.lastMsgID = a /\ w.leaderID = n /\ w = V[q]
    <3>1. w = Moved(v, "Syncing", q) /\ v \in Views /\ q \in Nat
      BY <1>1, <1>5
    <3>2. /\ Moved(v, "Syncing", q).state = "Syncing"
          /\ Moved(v, "Syncing", q).lastMsgID = q
          /\ Moved(v, "Syncing", q).leaderID = v.leaderID
      <4>1. v \in Views /\ q \in Nat
        BY <3>1
      <4> QED BY <2>1, <4>1, MovedFields
    <3> QED BY <1>5, <3>1, <3>2 DEF q
  <2>3. Duty(V, q, n, fn, a)
    BY <1>3, <1>5, <2>2 DEF Duty, Stage
  <2>4. CancelsCurrent(n, w, a)
    BY <2>2 DEF CancelsCurrent
  <2> QED BY <1>1, <1>3, <1>5, <2>2, <2>3, <2>4 DEF p, q
<1>6. CASE /\ fn = "paused" /\ a = q /\ w = Moved(v, "Pausing", q)
  <2>1. "Pausing" \in ClusterStates
    BY DEF ClusterStates
  <2>2. w.state = "Pausing" /\ w.lastMsgID = a /\ w = V[q]
    <3>1. w = Moved(v, "Pausing", q) /\ v \in Views /\ q \in Nat
      BY <1>1, <1>6
    <3>2. /\ Moved(v, "Pausing", q).state = "Pausing"
          /\ Moved(v, "Pausing", q).lastMsgID = q
      BY <2>1, <3>1, MovedFields
    <3> QED BY <1>6, <3>1, <3>2 DEF q
  <2>3. Duty(V, q, n, fn, a)
    BY <1>3, <1>6, <2>2 DEF Duty, Stage
  <2>4. CancelsCurrent(n, w, a)
    BY <2>2 DEF CancelsCurrent
  <2> QED BY <1>1, <1>3, <1>6, <2>2, <2>3, <2>4 DEF p, q
<1>7. CASE /\ fn = "done" /\ a = q /\ w = Halted(v, m.node, q) /\ AllPaused(v, m.node)
           /\ v.leaderID = n
  <2>1. w.state = "Executing" /\ w.lastMsgID = a /\ w.leaderID = n /\ w = V[q]
    BY <1>1, <1>7, HaltedFields DEF q
  <2>2. Duty(V, q, n, fn, a)
    BY <1>3, <1>7, <2>1 DEF Duty, Stage
  <2>3. CancelsCurrent(n, w, a)
    BY <2>1 DEF CancelsCurrent
  <2> QED BY <1>1, <1>3, <1>7, <2>1, <2>2, <2>3 DEF p, q
<1> QED BY <1>4, <1>5, <1>6, <1>7 DEF Starts, v, m, q

LEMMA StartsNode ==
  ASSUME Kinds, Kinds', NEW V \in [Nat -> Views], ViewsInv(log, V), \A x \in Nodes : NodeInv(V, x),
         NEW n \in Nodes, pos[n] < Len(log), pos'[n] = Id(n), LogStep(n), QuietLog,
         UNCHANGED appPaused, NEW fn \in TaskFns, NEW a \in Nat, StartTask(n, fn, a),
         Starts(n, grp[n], Msg(n), Id(n), grp'[n], fn, a),
         grp[n].state # "Unknown" => grp[n] = V[pos[n]] /\ grp'[n] = V[Id(n)]
  PROVE  /\ CancelsCurrent(n, grp[n], cancelTask[n])' /\ OnDuties(V, n)' /\ Answers(V, n)'
         /\ proc'[n] = proc[n]
<1> DEFINE t0 == [fn |-> fn, ack |-> a, cancelled |-> FALSE, phase |-> "run"]
<1>1. cancelTask[n] = 0 /\ NodeInv(V, n)
  BY StartsFree
<1>2. grp[n].state # "Unknown"
  BY DEF Starts, Fits
<1>3. /\ Duty(V, Id(n), n, fn, a) /\ CancelsCurrent(n, grp'[n], a) /\ grp'[n].state # "Unknown"
      /\ fn = "done" => grp'[n].state = "Executing"
      /\ a \in Nat /\ a # 0 /\ \A f : ~Duty(V, pos[n], n, f, a)
  BY <1>1, <1>2, StartsDuty
<1>4. /\ cancelTask'[n] = a /\ tasks'[n] = tasks[n] \cup {t0} /\ proc' = proc
      /\ appPaused' = appPaused
  <2>1. cancelTask \in [Nodes -> Nat] /\ tasks \in [Nodes -> SUBSET Tasks]
    BY DEF Kinds
  <2> QED BY <1>1, <2>1 DEF StartTask
<1>5. /\ Id(n) \in Nat /\ pos[n] \in Nat /\ pos[n] <= Id(n)
  BY NextMessage
<1>6. \A x, f, d : Duty(V, pos[n], x, f, d) => Duty(V, Id(n), x, f, d) /\ d \in Nat /\ d # 0
  BY <1>5, DutyGrows DEF Duty
<1>7. \A d \in Nat : PauseEnded(V, pos[n], d) => PauseEnded(V, Id(n), d)
  BY <1>5, DutyGrows
<1>8. CancelsCurrent(n, grp[n], cancelTask[n])'
  BY <1>3, <1>4
<1>9. OnDuties(V, n)'
  <2>1. t0.fn = fn /\ t0.ack = a /\ ~t0.cancelled /\ t0.phase = "run"
    OBVIOUS
  <2> HIDE DEF t0
  <2>2. OnDuty(V, n, Id(n), grp'[n], a, appPaused[n], t0)
    BY <1>3, <2>1 DEF OnDuty
  <2>3. ASSUME NEW t \in tasks[n]
        PROVE  OnDuty(V, n, Id(n), grp'[n], a, appPaused[n], t)
    <3>1. OnDuty(V, n, pos[n], grp[n], 0, appPaused[n], t)
      BY <1>1 DEF NodeInv, OnDuties
    <3> QED BY <1>3, <1>6, <1>7, <3>1 DEF OnDuty
  <2> QED BY <1>4, <2>2, <2>3 DEF OnDuties
<1>10. Answers(V, n)'
  <2>1. ASSUME NEW f \in TaskFns, NEW d \in Nat,
               Answered(V, n, pos[n], grp[n], cancelTask[n], appPaused[n], Runs(proc[n]), f, d)
        PROVE  Answered(V, n, pos'[n], grp'[n], cancelTask'[n], appPaused'[n], Runs(proc'[n]),
                        f, d)
    BY <1>3, <1>4, <1>6, <1>7, <2>1 DEF Answered
  <2> QED BY <1>1, <2>1, AnswersMove DEF NodeInv
<1> QED BY <1>4, <1>8, <1>9, <1>10

(* Handling a message keeps what the node knows. *)
LEMMA HandleNode ==
  ASSUME Kinds, NoStrangers, NEW V \in [Nat -> Views], ViewsInv(log, V),
         \A x \in Nodes : NodeInv(V, x), NEW n \in Nodes, Handle(n)
  PROVE  \A x \in Nodes : NodeInv(V, x)'
<1>1. /\ Kinds' /\ QuietLog /\ Handled(n) /\ pos[n] < Len(log) /\ proc[n] = "up"
      /\ pos' = [pos EXCEPT ![n] = Id(n)] /\ pos'[n] = Id(n)
  BY HandleKinds
<1>2. LogStep(n)
  BY <1>1 DEF QuietLog, LogStep
<1>3. /\ grp' = [grp EXCEPT ![n] = grp'[n]] /\ Seen(grp[n], Msg(n), Id(n), grp'[n])
      /\ Works(n)
  BY <1>1, HandledView
<1>4. /\ grp[n].state # "Unknown" => grp[n] = V[pos[n]] /\ grp'[n] = V[Id(n)]
      /\ Follows(V, Id(n), grp'[n])
  BY <1>1, <1>3, Followed
<1>5. KnowsPaused(n)'
  BY <1>1, <1>2, <1>3, KnowsHandled
<1>6. /\ CancelsCurrent(n, grp[n], cancelTask[n])' /\ OnDuties(V, n)' /\ Answers(V, n)'
      /\ proc'[n] = proc[n]
  <2>1. CASE Cancels(n)
    BY <1>1, <1>2, <1>4, <2>1, CancelsNode
  <2>2. CASE NoTask /\ UNCHANGED appPaused /\ Quietly(grp[n], Msg(n), Id(n), grp'[n])
    BY <1>1, <1>2, <2>2, QuietNode
  <2>3. CASE \E fn \in TaskFns, a \in Nat :
                /\ StartTask(n, fn, a) /\ UNCHANGED appPaused
                /\ Starts(n, grp[n], Msg(n), Id(n), grp'[n], fn, a)
    BY <1>1, <1>2, <1>4, <2>3, StartsNode
  <2> QED BY <1>3, <2>1, <2>2, <2>3 DEF Works
<1>7. NodeInv(V, n)'
  BY <1>1, <1>4, <1>5, <1>6 DEF NodeInv
<1>8. ASSUME NEW x \in Nodes, x # n PROVE NodeInv(V, x)'
  <2>1. /\ pos'[x] = pos[x] /\ grp'[x] = grp[x]
    <3>1. pos \in [Nodes -> Nat] /\ grp \in [Nodes -> Views]
      BY DEF Kinds
    <3> QED BY <1>1, <1>3, <1>8, <3>1
  <2>2. /\ cancelTask'[x] = cancelTask[x] /\ tasks'[x] = tasks[x] /\ proc'[x] = proc[x]
        /\ appPaused'[x] = appPaused[x]
    <3>1. /\ cancelTask \in [Nodes -> Nat] /\ tasks \in [Nodes -> SUBSET Tasks]
          /\ proc \in [Nodes -> ProcStates] /\ appPaused \in [Nodes -> BOOLEAN]
      BY DEF Kinds, ProcStates
    <3>2. CASE Cancels(n)
      BY <1>8, <3>1, <3>2 DEF Cancels, CancelTask
    <3>3. CASE NoTask /\ UNCHANGED appPaused
      BY <3>3 DEF NoTask
    <3>4. ASSUME NEW fn, NEW a, StartTask(n, fn, a), UNCHANGED appPaused
          PROVE  /\ cancelTask'[x] = cancelTask[x] /\ tasks'[x] = tasks[x]
                 /\ proc'[x] = proc[x] /\ appPaused'[x] = appPaused[x]
      <4>1. CASE cancelTask[n] # 0
        BY <1>8, <3>1, <3>4, <4>1 DEF StartTask
      <4>2. CASE cancelTask[n] = 0
        BY <1>8, <3>1, <3>4, <4>2 DEF StartTask
      <4> QED BY <4>1, <4>2
    <3> QED BY <1>3, <3>2, <3>3, <3>4 DEF Works
  <2> QED BY <1>2, <1>8, <2>1, <2>2, NodeFrame DEF Passes
<1> QED BY <1>7, <1>8

----------------------------------------------------------------------------
(* The other steps                                                         *)

LEMMA CalmNode ==
  ASSUME Kinds, NEW V, \A x \in Nodes : NodeInv(V, x), Calm
  PROVE  \A x \in Nodes : NodeInv(V, x)'
<1> TAKE x \in Nodes
<1>1. /\ UNCHANGED <<pos, grp, cancelTask, appPaused>> /\ tasks'[x] \subseteq tasks[x]
      /\ Passes(proc[x], proc'[x]) /\ QuietLog
  BY DEF Calm
<1>2. LogStep(x)
  BY <1>1 DEF QuietLog, LogStep
<1> QED BY <1>1, <1>2, NodeFrame

LEMMA ResetTimeoutNode ==
  ASSUME Kinds, NEW V, \A x \in Nodes : NodeInv(V, x), NEW n \in Nodes, ResetTimeout(n)
  PROVE  \A x \in Nodes : NodeInv(V, x)'
<1>1. /\ Kinds' /\ grp' = [grp EXCEPT ![n] = Left(grp[n])] /\ grp'[n] = Left(grp[n])
      /\ grp[n].state = "Resetting"
      /\ UNCHANGED <<log, proc, pos, cancelTask, tasks, appPaused>>
  BY ResetTimeoutKinds
<1>2. LogStep(n) /\ QuietLog
  BY <1>1 DEF LogStep, QuietLog
<1>3. ASSUME NEW x \in Nodes, x # n PROVE NodeInv(V, x)'
  <2>1. grp'[x] = grp[x]
    BY <1>1, <1>3 DEF Kinds
  <2> QED BY <1>1, <1>2, <1>3, <2>1, NodeFrame DEF Passes
<1>4. /\ grp'[n].state = "Unknown" /\ grp'[n].paused = grp[n].paused
      /\ grp'[n].nodes = grp[n].nodes
  <2>1. grp[n] \in Views /\ "Unknown" \in ClusterStates
    BY DEF Kinds, ClusterStates
  <2> QED BY <1>1, <2>1, StateFields DEF Left
<1>5. NodeInv(V, n) /\ V[pos[n]].state = "Resetting" /\ pos[n] \in Nat
  <2>1. NodeInv(V, n)
    OBVIOUS
  <2>2. V[pos[n]].state = "Resetting"
    BY <1>1, <2>1 DEF NodeInv, Follows
  <2> QED BY <2>1, <2>2, Numbers
<1>6. \A x, a : Duty(V, pos[n], x, "paused", a) => PauseEnded(V, pos[n], a)
  <2> SUFFICES ASSUME NEW x, NEW a, Duty(V, pos[n], x, "paused", a) PROVE PauseEnded(V, pos[n], a)
    OBVIOUS
  <2>1. a \in 1..pos[n] /\ V[a].state = "Pausing"
    BY DEF Duty, Stage
  <2>2. a # pos[n]
    BY <1>5, <2>1
  <2>3. pos[n] \in (a + 1)..pos[n]
    BY <1>5, <2>1, <2>2
  <2> QED BY <1>5, <2>3 DEF PauseEnded, InSwitch
<1>7. Follows(V, pos[n], grp[n])' /\ CancelsCurrent(n, grp[n], cancelTask[n])'
  BY <1>4 DEF Follows, CancelsCurrent
<1>8. KnowsPaused(n)'
  <2>1. \A i \in 1..pos[n] : SaidHello(i)' <=> SaidHello(i)
    BY <1>1 DEF SaidHello, Since
  <2>2. KnowsPaused(n)
    BY <1>5 DEF NodeInv
  <2> QED BY <1>1, <1>4, <2>1, <2>2 DEF KnowsPaused
<1>9. OnDuties(V, n)'
  <2>1. ASSUME NEW t \in tasks[n]
        PROVE  OnDuty(V, n, pos[n], grp'[n], cancelTask[n], appPaused[n], t)
    <3>1. OnDuty(V, n, pos[n], grp[n], cancelTask[n], appPaused[n], t)
      BY <1>5 DEF NodeInv, OnDuties
    <3>2. ~(~t.cancelled /\ t.fn = "done")
      BY <1>1, <3>1 DEF OnDuty
    <3> QED BY <1>6, <3>1, <3>2 DEF OnDuty
  <2> QED BY <1>1, <2>1 DEF OnDuties
<1>10. Answers(V, n)'
  <2>1. ASSUME NEW fn \in TaskFns, NEW a \in Nat,
               Answered(V, n, pos[n], grp[n], cancelTask[n], appPaused[n], Runs(proc[n]), fn, a)
        PROVE  Answered(V, n, pos'[n], grp'[n], cancelTask'[n], appPaused'[n], Runs(proc'[n]),
                        fn, a)
    BY <1>1, <1>6, <2>1 DEF Answered
  <2> QED BY <1>2, <1>5, <2>1, AnswersMove DEF NodeInv
<1>11. NodeInv(V, n)'
  BY <1>1, <1>5, <1>7, <1>8, <1>9, <1>10 DEF NodeInv
<1> QED BY <1>3, <1>11

LEMMA TaskReturnsNode ==
  ASSUME Kinds, NEW V, \A x \in Nodes : NodeInv(V, x), NEW n \in Nodes, TaskReturns(n)
  PROVE  \A x \in Nodes : NodeInv(V, x)'
<1>1. /\ Kinds' /\ proc[n] = "up" /\ UNCHANGED <<log, proc, pos, grp, cancelTask>>
  BY TaskReturnsKinds
<1>2. PICK t \in tasks[n], s \in Tasks :
               /\ s.fn = t.fn /\ s.ack = t.ack /\ s.cancelled = t.cancelled
               /\ tasks' = [tasks EXCEPT ![n] = (@ \ {t}) \cup {s}]
               /\ appPaused' = [appPaused EXCEPT ![n] = @ \/ (s.fn = "paused" /\ s.phase = "ok")]
  BY TaskReturnsKinds
<1>3. LogStep(n) /\ QuietLog
  BY <1>1 DEF LogStep, QuietLog
<1>4. tasks \in [Nodes -> SUBSET Tasks] /\ appPaused \in [Nodes -> BOOLEAN]
  BY DEF Kinds
<1>5. ASSUME NEW x \in Nodes, x # n PROVE NodeInv(V, x)'
  <2>1. tasks'[x] = tasks[x] /\ appPaused'[x] = appPaused[x]
    BY <1>2, <1>4, <1>5
  <2> QED BY <1>1, <1>3, <1>5, <2>1, NodeFrame DEF Passes
<1>6. NodeInv(V, n)
  OBVIOUS
<1>7. /\ tasks'[n] = (tasks[n] \ {t}) \cup {s}
      /\ appPaused[n] => appPaused'[n]
      /\ s.fn = "paused" /\ s.phase = "ok" => appPaused'[n]
  BY <1>2, <1>4
<1>8. Follows(V, pos[n], grp[n])' /\ CancelsCurrent(n, grp[n], cancelTask[n])'
  BY <1>1, <1>6 DEF NodeInv
<1>9. KnowsPaused(n)'
  <2>1. \A i \in 1..pos[n] : SaidHello(i)' <=> SaidHello(i)
    BY <1>1 DEF SaidHello, Since
  <2>2. KnowsPaused(n)
    BY <1>6 DEF NodeInv
  <2> QED BY <1>1, <2>1, <2>2 DEF KnowsPaused
<1>10. OnDuties(V, n)'
  <2>1. \A u \in tasks[n] : OnDuty(V, n, pos[n], grp[n], cancelTask[n], appPaused[n], u)
    BY <1>6 DEF NodeInv, OnDuties
  <2>2. \A u \in tasks[n] : OnDuty(V, n, pos[n], grp[n], cancelTask[n], appPaused'[n], u)
    BY <1>7, <2>1 DEF OnDuty
  <2>3. OnDuty(V, n, pos[n], grp[n], cancelTask[n], appPaused'[n], s)
    BY <1>2, <1>7, <2>1 DEF OnDuty
  <2>4. \A u \in tasks'[n] : OnDuty(V, n, pos[n], grp[n], cancelTask[n], appPaused'[n], u)
    BY <1>7, <2>2, <2>3
  <2> QED BY <1>1, <2>4 DEF OnDuties
<1>11. Answers(V, n)'
  <2>1. ASSUME NEW fn \in TaskFns, NEW a \in Nat,
               Answered(V, n, pos[n], grp[n], cancelTask[n], appPaused[n], Runs(proc[n]), fn, a)
        PROVE  Answered(V, n, pos'[n], grp'[n], cancelTask'[n], appPaused'[n], Runs(proc'[n]),
                        fn, a)
    BY <1>1, <1>7, <2>1 DEF Answered
  <2> QED BY <1>3, <1>6, <2>1, AnswersMove DEF NodeInv
<1>12. NodeInv(V, n)'
  BY <1>1, <1>6, <1>8, <1>9, <1>10, <1>11 DEF NodeInv
<1> QED BY <1>5, <1>12

LEMMA TaskSucceedsNode ==
  ASSUME Kinds, NEW V, \A x \in Nodes : NodeInv(V, x), NEW n \in Nodes, TaskSucceeds(n)
  PROVE  \A x \in Nodes : NodeInv(V, x)'
<1>1. /\ Kinds' /\ LogStep(n) /\ proc[n] = "up" /\ UNCHANGED <<pos, grp, appPaused>>
      /\ proc' = proc \/ proc' = [proc EXCEPT ![n] = "nil cancelTask"]
      /\ cancelTask' = [cancelTask EXCEPT ![n] = 0]
  BY TaskSucceedsKinds
<1>2. PICK T : tasks' = [tasks EXCEPT ![n] = T] /\ T \subseteq Cancelled(n)
  BY TaskSucceedsKinds
<1>3. \/ log' = log
      \/ \E t \in tasks[n] : /\ t.phase = "ok" /\ ~t.cancelled
                             /\ log' = Append(log, Message(t.fn, n, t.ack))
  BY TaskSucceedsKinds
<1>4. /\ tasks \in [Nodes -> SUBSET Tasks] /\ cancelTask \in [Nodes -> Nat]
      /\ proc \in [Nodes -> ProcStates]
  BY DEF Kinds, ProcStates
<1>5. ASSUME NEW x \in Nodes, x # n PROVE NodeInv(V, x)'
  <2>1. tasks'[x] = tasks[x] /\ cancelTask'[x] = cancelTask[x] /\ proc'[x] = proc[x]
    BY <1>1, <1>2, <1>4, <1>5
  <2> QED BY <1>1, <1>5, <2>1, NodeFrame DEF Passes
<1>6. NodeInv(V, n)
  OBVIOUS
<1>7. /\ tasks'[n] \subseteq Cancelled(n) /\ cancelTask'[n] = 0
      /\ proc'[n] \in {"up", "nil cancelTask"}
  BY <1>1, <1>2, <1>4
<1>8. \A u \in tasks[n] : OnDuty(V, n, pos[n], grp[n], cancelTask[n], appPaused[n], u)
  BY <1>6 DEF NodeInv, OnDuties
<1>9. \A x, f, a : Duty(V, pos[n], x, f, a) => a \in Nat /\ a # 0
  BY Numbers DEF Duty
<1>10. Follows(V, pos[n], grp[n])' /\ CancelsCurrent(n, grp[n], cancelTask[n])'
  BY <1>1, <1>6, <1>7 DEF NodeInv, CancelsCurrent
<1>11. KnowsPaused(n)'
  <2>1. \A i \in 1..pos[n] : i \in 1..Len(log)
    BY Numbers
  <2>2. \A i \in 1..pos[n] : log'[i] = log[i] /\ (SaidHello(i)' <=> SaidHello(i))
    BY <1>1, <2>1, LogGrows, SaidHelloKept
  <2>3. KnowsPaused(n)
    BY <1>6 DEF NodeInv
  <2> QED BY <1>1, <2>2, <2>3 DEF KnowsPaused
<1>12. OnDuties(V, n)'
  <2>1. ASSUME NEW s \in tasks'[n]
        PROVE  OnDuty(V, n, pos[n], grp[n], 0, appPaused[n], s)
    <3>1. PICK t \in tasks[n] : /\ s.fn = t.fn /\ s.ack = t.ack /\ s.phase = t.phase
                                /\ s.cancelled <=> (t.cancelled \/ t.ack = cancelTask[n])
      BY <1>7, <2>1, CancelledTasks
    <3>2. OnDuty(V, n, pos[n], grp[n], cancelTask[n], appPaused[n], t)
      BY <1>8
    <3>3. s.cancelled
      BY <3>1, <3>2 DEF OnDuty
    <3> QED BY <3>1, <3>2, <3>3 DEF OnDuty
  <2> QED BY <1>1, <1>7, <2>1 DEF OnDuties
<1>13. Answers(V, n)'
  <2> DEFINE A(fn, a) == Answered(V, n, pos[n], grp[n], 0, appPaused[n], Runs(proc'[n]), fn, a)
  <2>1. ASSUME NEW fn, NEW a,
               Answered(V, n, pos[n], grp[n], cancelTask[n], appPaused[n], Runs(proc[n]), fn, a)
        PROVE  A(fn, a)
    BY <1>1, <1>9, <2>1 DEF Answered, Runs
  <2>2. ASSUME NEW t \in tasks[n], t.phase = "ok", ~t.cancelled PROVE A(t.fn, t.ack)
    BY <1>8, <1>9, <2>2 DEF Answered, OnDuty
  <2> HIDE DEF A
  <2>3. log \in Seq(Messages) /\ Len(log) \in Nat
    BY LogGrows, <1>1 DEF Kinds
  <2>4. \A j \in 1..Len(log) : log[j].type \in TaskFns /\ log[j].node = n
                                  => A(log[j].type, log[j].ack)
    BY <1>6, <2>1 DEF NodeInv, Answers
  <2>5. \A j \in 1..Len(log') : log'[j].type \in TaskFns /\ log'[j].node = n
                                   => A(log'[j].type, log'[j].ack)
    <3>1. CASE log' = log
      BY <2>4, <3>1
    <3>2. ASSUME NEW t \in tasks[n], t.phase = "ok", ~t.cancelled,
                 log' = Append(log, Message(t.fn, n, t.ack))
          PROVE  \A j \in 1..Len(log') : log'[j].type \in TaskFns /\ log'[j].node = n
                                            => A(log'[j].type, log'[j].ack)
      <4> DEFINE m == Message(t.fn, n, t.ack)
      <4>1. m \in Messages /\ m.type = t.fn /\ m.ack = t.ack
        <5>1. t.fn \in TaskFns /\ t.ack \in Nat
          BY Numbers
        <5> QED BY <5>1 DEF Message, Messages, MessageTypes, TaskFns
      <4> HIDE DEF m
      <4>2. log' = Append(log, m)
        BY <3>2 DEF m
      <4>3. /\ Len(log') = Len(log) + 1 /\ log'[Len(log) + 1] = m
            /\ \A j \in 1..Len(log) : log'[j] = log[j]
        BY <2>3, <4>1, <4>2, AppendProperties
      <4>4. \A j \in 1..Len(log') : j \in 1..Len(log) \/ j = Len(log) + 1
        BY <2>3, <4>3
      <4>5. A(m.type, m.ack)
        BY <2>2, <3>2, <4>1
      <4> QED BY <2>4, <4>3, <4>4, <4>5
    <3> QED BY <1>3, <3>1, <3>2
  <2> QED BY <1>1, <1>7, <2>5 DEF Answers, A
<1>14. NodeInv(V, n)'
  BY <1>7, <1>10, <1>11, <1>12, <1>13 DEF NodeInv
<1> QED BY <1>5, <1>14

LEMMA NewLogNode ==
  ASSUME Kinds, NEW V, V[0] = Blank, \A x \in Nodes : NodeInv(V, x), NEW n \in Nodes, NewLog(n)
  PROVE  \A x \in Nodes : NodeInv(V, x)'
<1>1. /\ Kinds' /\ UNCHANGED <<log, grp, cancelTask, tasks, appPaused>>
      /\ proc[n] = "off" /\ proc' = [proc EXCEPT ![n] = "joining"]
      /\ pos' = [pos EXCEPT ![n] = Len(log)]
  BY NewLogKinds
<1>2. LogStep(n) /\ QuietLog
  BY <1>1 DEF QuietLog, LogStep
<1>3. pos \in [Nodes -> Nat] /\ proc \in [Nodes -> ProcStates]
  BY DEF Kinds, ProcStates
<1>4. ASSUME NEW x \in Nodes, x # n PROVE NodeInv(V, x)'
  <2>1. pos'[x] = pos[x] /\ proc'[x] = proc[x]
    BY <1>1, <1>3, <1>4
  <2> QED BY <1>1, <1>2, <1>4, <2>1, NodeFrame DEF Passes
<1>5. NodeInv(V, n) /\ pos[n] = 0 /\ proc'[n] = "joining"
  <2>1. NodeInv(V, n)
    OBVIOUS
  <2> QED BY <1>1, <1>3, <2>1 DEF NodeInv
<1>6. \A x, f, a : ~Duty(V, pos[n], x, f, a)
  BY <1>5 DEF Duty
<1>7. grp[n].state = "Unknown"
  <2>1. Follows(V, 0, grp[n])
    BY <1>5 DEF NodeInv
  <2>2. Blank.state = "Unknown"
    BY DEF Blank
  <2> QED BY <2>1, <2>2 DEF Follows
<1>8. tasks[n] = {}
  BY <1>5, <1>6 DEF NodeInv, OnDuties, OnDuty
<1>9. Follows(V, pos[n], grp[n])' /\ CancelsCurrent(n, grp[n], cancelTask[n])' /\ OnDuties(V, n)'
  BY <1>1, <1>5, <1>7, <1>8 DEF NodeInv, Follows, OnDuties
<1>10. KnowsPaused(n)'
  <2>1. grp[n].paused \subseteq grp[n].nodes
    <3>1. KnowsPaused(n)
      BY <1>5 DEF NodeInv
    <3>2. \A i \in 1..pos[n] : FALSE
      BY <1>5
    <3> QED BY <3>1, <3>2 DEF KnowsPaused
  <2> QED BY <1>1, <2>1 DEF KnowsPaused
<1>11. Answers(V, n)'
  <2>1. \A fn \in TaskFns, a \in Nat :
          ~Answered(V, n, pos[n], grp[n], cancelTask[n], appPaused[n], Runs(proc[n]), fn, a)
    BY <1>6 DEF Answered
  <2> QED BY <1>1, <1>2, <1>5, <2>1, AnswersMove DEF NodeInv
<1>12. NodeInv(V, n)'
  BY <1>5, <1>9, <1>10, <1>11 DEF NodeInv
<1> QED BY <1>4, <1>12

----------------------------------------------------------------------------
(* The theorems                                                            *)

LEMMA GroupStepKinds ==
  ASSUME Kinds, [GroupNext]_groupVars
  PROVE  Kinds' /\ \E n : LogStep(n)
<1>1. ASSUME Calm PROVE Kinds' /\ \E n : LogStep(n)
  BY <1>1, CalmKinds DEF Calm, QuietLog, LogStep
<1>2. CASE UNCHANGED groupVars
  BY <1>1, <1>2, CalmStutter
<1>3. CASE GroupNext
  <2>1. PICK n \in Nodes :
           \/ Handle(n) \/ HandlePanics(n) \/ ResetTimeout(n)
           \/ TaskReturns(n) \/ TaskFails(n) \/ TaskSucceeds(n)
           \/ ResetCancels(n) \/ ResetResets(n) \/ ExecuteChecks(n) \/ ExecuteSends(n)
           \/ NewLog(n) \/ Join(n) \/ NodeCrash(n)
    BY <1>3 DEF GroupNext
  <2>2. CASE Handle(n)
    BY <2>2, HandleKinds DEF QuietLog, LogStep
  <2>3. CASE ResetTimeout(n)
    BY <2>3, ResetTimeoutKinds DEF LogStep
  <2>4. CASE TaskReturns(n)
    BY <2>4, TaskReturnsKinds DEF LogStep
  <2>5. CASE TaskSucceeds(n)
    BY <2>5, TaskSucceedsKinds
  <2>6. CASE NewLog(n)
    BY <2>6, NewLogKinds DEF LogStep
  <2>7. CASE \/ TaskFails(n) \/ ResetCancels(n) \/ ResetResets(n) \/ ExecuteChecks(n)
             \/ ExecuteSends(n) \/ Join(n) \/ NodeCrash(n) \/ HandlePanics(n)
    BY <1>1, <2>7, TaskFailsCalm, ResetCancelsCalm, ResetResetsCalm, ExecuteChecksCalm,
       ExecuteSendsCalm, JoinCalm, EndsCalm
  <2> QED BY <2>1, <2>2, <2>3, <2>4, <2>5, <2>6, <2>7
<1> QED BY <1>2, <1>3

LEMMA GroupStepNodes ==
  ASSUME Kinds, NoStrangers, NEW V \in [Nat -> Views], ViewsInv(log, V),
         \A x \in Nodes : NodeInv(V, x), [GroupNext]_groupVars
  PROVE  \A x \in Nodes : NodeInv(V, x)'
<1>1. V[0] = Blank
  BY DEF ViewsInv
<1>2. CASE UNCHANGED groupVars
  BY <1>2, CalmStutter, CalmNode
<1>3. CASE GroupNext
  <2>1. PICK n \in Nodes :
           \/ Handle(n) \/ HandlePanics(n) \/ ResetTimeout(n)
           \/ TaskReturns(n) \/ TaskFails(n) \/ TaskSucceeds(n)
           \/ ResetCancels(n) \/ ResetResets(n) \/ ExecuteChecks(n) \/ ExecuteSends(n)
           \/ NewLog(n) \/ Join(n) \/ NodeCrash(n)
    BY <1>3 DEF GroupNext
  <2>2. CASE Handle(n)
    BY <2>2, HandleNode
  <2>3. CASE ResetTimeout(n)
    BY <2>3, ResetTimeoutNode
  <2>4. CASE TaskReturns(n)
    BY <2>4, TaskReturnsNode
  <2>5. CASE TaskSucceeds(n)
    BY <2>5, TaskSucceedsNode
  <2>6. CASE NewLog(n)
    BY <1>1, <2>6, NewLogNode
  <2>7. CASE \/ TaskFails(n) \/ ResetCancels(n) \/ ResetResets(n) \/ ExecuteChecks(n)
             \/ ExecuteSends(n) \/ Join(n) \/ NodeCrash(n) \/ HandlePanics(n)
    <3>1. Calm
      BY <2>7, TaskFailsCalm, ResetCancelsCalm, ResetResetsCalm, ExecuteChecksCalm,
         ExecuteSendsCalm, JoinCalm, EndsCalm
    <3> QED BY <3>1, CalmNode
  <2> QED BY <2>1, <2>2, <2>3, <2>4, <2>5, <2>6, <2>7
<1> QED BY <1>2, <1>3

LEMMA GroupInitInv == GroupInit => GroupInv
<1> SUFFICES ASSUME GroupInit PROVE GroupInv
  OBVIOUS
<1>1. Kinds
  BY KindsInit
<1> DEFINE V == [i \in Nat |-> Blank]
<1>2. Blank \in Views /\ V \in [Nat -> Views] /\ V[0] = Blank
  BY DEF Blank, Views, ClusterStates
<1> HIDE DEF V
<1>3. log = << >> /\ Len(log) = 0
  BY DEF GroupInit
<1>4. ViewsInv(log, V)
  <2>1. /\ Simple(V, 0) /\ Members(log, V, 0) /\ Halting(log, V, 0) /\ Opened(V, 0)
    BY <1>2 DEF Simple, Members, Halting, Opened, Blank
  <2>2. Steady(V, 0)
    BY <1>2 DEF Steady, Blank
  <2>3. \A i \in 0..0 : i = 0
    OBVIOUS
  <2>4. \A i \in 1..0 : FALSE
    OBVIOUS
  <2> QED BY <1>2, <1>3, <2>1, <2>2, <2>3, <2>4 DEF ViewsInv
<1>5. ASSUME NEW n \in Nodes PROVE NodeInv(V, n)
  <2>1. /\ grp[n] = Blank /\ pos[n] = 0 /\ tasks[n] = {} /\ cancelTask[n] = 0
        /\ proc[n] \in {"up", "off"}
    BY DEF GroupInit, Blank
  <2>2. Follows(V, pos[n], grp[n]) /\ CancelsCurrent(n, grp[n], cancelTask[n])
    BY <1>2, <2>1 DEF Follows, CancelsCurrent
  <2>3. KnowsPaused(n)
    BY <2>1 DEF KnowsPaused, Blank
  <2>4. OnDuties(V, n) /\ Answers(V, n)
    BY <1>3, <2>1 DEF OnDuties, Answers
  <2> QED BY <2>1, <2>2, <2>3, <2>4 DEF NodeInv
<1> QED BY <1>1, <1>2, <1>4, <1>5 DEF GroupInv

LEMMA GroupStepInv == GroupInv /\ [GroupNext]_groupVars => GroupInv'
<1> SUFFICES ASSUME GroupInv, [GroupNext]_groupVars PROVE GroupInv'
  OBVIOUS
<1>1. Kinds /\ Kinds'
  BY GroupStepKinds DEF GroupInv
<1>2. ASSUME NoStrangers'
      PROVE  \E W \in [Nat -> Views] : ViewsInv(log', W) /\ \A x \in Nodes : NodeInv(W, x)'
  <2>1. PICK n : LogStep(n)
    BY <1>1, GroupStepKinds
  <2>2. NoStrangers
    BY <1>1, <1>2, <2>1, SaidHelloKept
  <2>3. PICK V \in [Nat -> Views] : ViewsInv(log, V) /\ \A x \in Nodes : NodeInv(V, x)
    BY <2>2 DEF GroupInv
  <2>4. log \in Seq(Messages)
    BY <1>1 DEF Kinds
  <2>5. PICK W \in [Nat -> Views] : ViewsInv(log', W) /\ \A i \in 0..Len(log) : W[i] = V[i]
    <3>1. CASE log' = log
      BY <2>3, <3>1
    <3>2. ASSUME NEW m \in Messages, log' = Append(log, m), m.ack <= Len(log)
          PROVE  \E W \in [Nat -> Views] :
                    ViewsInv(log', W) /\ \A i \in 0..Len(log) : W[i] = V[i]
      BY <2>3, <2>4, <3>2, Extends
    <3> QED BY <2>1, <3>1, <3>2 DEF LogStep
  <2>6. ViewsInv(log, W)
    BY <2>3, <2>4, <2>5, Begins
  <2>7. \A x \in Nodes : NodeInv(W, x)
    BY <1>1, <2>3, <2>5, NodeViews
  <2>8. \A x \in Nodes : NodeInv(W, x)'
    BY <1>1, <2>2, <2>6, <2>7, GroupStepNodes
  <2> QED BY <2>5, <2>8
<1> QED BY <1>1, <1>2 DEF GroupInv

(***************************************************************************)
(* The invariant of the switchover group: while no stranger has paused,    *)
(* the log has a sequence of views such that every node that takes part    *)
(* has the view of its position, cancelTask stands for the task of the     *)
(* current state, every task is one that its node was due to run, and      *)
(* every answer in the log comes from the node that was due to give it     *)
(* (messageLoop, startTask and their goroutines in taskmgr.go).            *)
(***************************************************************************)
THEOREM GroupInductive == GroupSpec => []GroupInv
BY GroupInitInv, GroupStepInv, PTL DEF GroupSpec

LEMMA GroupInvAgreement == GroupInv => Agreement
<1> SUFFICES ASSUME GroupInv PROVE Agreement
  OBVIOUS
<1>1. Kinds /\ TypeOK
  BY KindsTypeOK DEF GroupInv
<1>2. ASSUME NoStrangers, NEW a \in Nodes, NEW b \in Nodes, pos[a] = pos[b],
             grp[a].state # "Unknown", grp[b].state # "Unknown"
      PROVE  grp[a] = grp[b]
  <2>1. PICK V \in [Nat -> Views] : \A x \in Nodes : NodeInv(V, x)
    BY <1>2 DEF GroupInv
  <2> QED BY <1>2, <2>1 DEF NodeInv, Follows
<1> QED BY <1>1, <1>2 DEF Agreement

(***************************************************************************)
(* Nodes that have handled the same messages and have not left agree on    *)
(* the state of the cluster, its members, who has paused and who leads,    *)
(* for every number of nodes, whatever crashes, losses, timeouts and late  *)
(* joins happened (the state that messageLoop keeps, taskmgr.go).          *)
(***************************************************************************)
THEOREM GroupAgreement == GroupSpec => []Agreement
BY GroupInductive, GroupInvAgreement, PTL

LEMMA GroupInvNoDouble == GroupInv => NoDoubleTask
<1> SUFFICES ASSUME GroupInv, NoStrangers, NEW n \in Nodes
             PROVE  proc[n] # "already running a task"
  BY DEF NoDoubleTask
<1>1. PICK V \in [Nat -> Views] : \A x \in Nodes : NodeInv(V, x)
  BY DEF GroupInv
<1> QED BY <1>1 DEF NodeInv

(***************************************************************************)
(* The panic of startTask is out of reach: the messages of the log never   *)
(* start a task on a node whose task before has neither ended nor been     *)
(* cancelled (startTask, taskmgr.go).                                      *)
(***************************************************************************)
THEOREM GroupNoDoubleTask == GroupSpec => []NoDoubleTask
BY GroupInductive, GroupInvNoDouble, PTL

LEMMA GroupInvPaused == GroupInv => PausedDuringExec
<1> SUFFICES ASSUME GroupInv, NoStrangers, NEW n \in Nodes, Executes(n),
                    NEW m \in grp[n].nodes, proc[m] = "up"
             PROVE  appPaused[m] \/ pos[m] > pos[n]
  BY DEF PausedDuringExec
<1>1. Kinds
  BY DEF GroupInv
<1>2. PICK V \in [Nat -> Views] : ViewsInv(log, V) /\ \A x \in Nodes : NodeInv(V, x)
  BY DEF GroupInv
<1>3. PICK t \in tasks[n] : t.fn = "done" /\ ~t.cancelled
  BY DEF Executes
<1>4. /\ pos[n] \in Nat /\ pos[n] <= Len(log) /\ Len(log) \in Nat /\ grp[n] \in Views
  BY <1>1, Numbers
<1>5. m \in Nodes
  BY <1>4 DEF Views
<1>6. pos[m] \in Nat
  BY <1>1, <1>5, Numbers
<1>7. grp[n].state = "Executing" /\ grp[n] = V[pos[n]]
  <2>1. grp[n].state = "Executing"
    BY <1>2, <1>3 DEF NodeInv, OnDuties, OnDuty
  <2> QED BY <1>2, <2>1 DEF NodeInv, Follows
<1>8. Halting(log, V, pos[n])
  BY <1>2, <1>4 DEF ViewsInv
<1>9. PICK p \in 1..pos[n] : /\ \A x \in grp[n].paused : PausedFrom(log, x, p, pos[n])
                             /\ \A k \in p..pos[n] : V[k].state \in InSwitch
  BY <1>7, <1>8 DEF Halting
<1>10. PausedFrom(log, m, p, pos[n])
  BY <1>7, <1>8, <1>9 DEF Halting
<1>11. PICK j \in 1..pos[n] : log[j].type = "paused" /\ log[j].node = m /\ log[j].ack = p
  BY <1>10 DEF PausedFrom
<1>12. j \in 1..Len(log)
  BY <1>4
<1>13. PauseEnded(V, pos[m], p) \/ appPaused[m]
  BY <1>2, <1>5, <1>11, <1>12 DEF NodeInv, Answers, Answered, TaskFns, Runs
<1>14. ASSUME PauseEnded(V, pos[m], p) PROVE pos[m] > pos[n]
  <2>1. PICK k \in (p + 1)..pos[m] : V[k].state \notin InSwitch
    BY <1>14 DEF PauseEnded
  <2>2. ~(k \in p..pos[n])
    BY <1>9, <2>1
  <2> QED BY <1>4, <1>6, <1>9, <2>1, <2>2
<1> QED BY <1>13, <1>14

(***************************************************************************)
(* While the leader switches the database, every member whose process runs *)
(* is paused or has already handled a message that the leader has not      *)
(* (the tasks of "paused" and "done", taskmgr.go).                         *)
(***************************************************************************)
THEOREM GroupPausedDuringExec == GroupSpec => []PausedDuringExec
BY GroupInductive, GroupInvPaused, PTL
=============================================================================
