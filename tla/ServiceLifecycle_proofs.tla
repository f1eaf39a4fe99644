---------------------- MODULE ServiceLifecycle_proofs ----------------------
(***************************************************************************)
(* Proofs about ServiceLifecycle, for every set of handlers, names, paths, *)
(* ports and revisions and every value of the bounds.                      *)
(***************************************************************************)
EXTENDS ServiceLifecycle, TLAPS

-----------------------------------------------------------------------------
(***************************************************************************)
(* Where a call leaves the handler.                                        *)
(***************************************************************************)

\* The operations a job can be in.
LEMMA OpsAre ==
  Ops = {"create", "undoCreate", "update", "undoUpdate", "archive", "restore",
         "delete", "start", "stop", "restart", "sync", "refresh"}
BY DEF Ops, Flow

\* Every operation makes at least one call.
LEMMA StepsAre == ASSUME NEW op \in Ops PROVE Len(Flow[op]) \in Nat \ {0}
<1> DEFINE AllSteps ==
      {CreateSteps, UndoCreateSteps, UpdateSteps, UndoUpdateSteps, ArchiveSteps,
       RestoreSteps, DeleteSteps, StartSteps, StopSteps, SyncSteps, RefreshSteps}
<1>1. \A s \in AllSteps : Len(s) \in Nat \ {0}
  <2>1. /\ Len(CreateSteps) \in Nat \ {0}  /\ Len(UndoCreateSteps) \in Nat \ {0}
        /\ Len(UpdateSteps) \in Nat \ {0}  /\ Len(UndoUpdateSteps) \in Nat \ {0}
        /\ Len(ArchiveSteps) \in Nat \ {0} /\ Len(RestoreSteps) \in Nat \ {0}
        /\ Len(DeleteSteps) \in Nat \ {0}  /\ Len(StartSteps) \in Nat \ {0}
        /\ Len(StopSteps) \in Nat \ {0}    /\ Len(SyncSteps) \in Nat \ {0}
        /\ Len(RefreshSteps) \in Nat \ {0}
    BY DEF CreateSteps, UndoCreateSteps, UpdateSteps, UndoUpdateSteps, ArchiveSteps,
           RestoreSteps, DeleteSteps, StartSteps, StopSteps, SyncSteps, RefreshSteps
  <2> QED BY <2>1, Zenon
<1>2. /\ Flow["create"] = CreateSteps   /\ Flow["undoCreate"] = UndoCreateSteps
      /\ Flow["update"] = UpdateSteps   /\ Flow["undoUpdate"] = UndoUpdateSteps
      /\ Flow["archive"] = ArchiveSteps /\ Flow["restore"] = RestoreSteps
      /\ Flow["delete"] = DeleteSteps   /\ Flow["start"] = StartSteps
      /\ Flow["restart"] = StartSteps   /\ Flow["stop"] = StopSteps
      /\ Flow["sync"] = SyncSteps       /\ Flow["refresh"] = RefreshSteps
  BY DEF Flow
<1>3. Flow[op] \in AllSteps
  BY <1>2, OpsAre, Zenon
<1> HIDE DEF AllSteps
<1> QED BY <1>1, <1>3

\* The calls that use the row the handler loaded, those that use the target it
\* rendered, and the operations that hold one.
CallsOnRow    == {"read", "stop", "start", "status", "backup", "copyBack", "rmOld", "rmBackup",
                  "rmFile", "readCurrent", "readBackup", "markArchived", "dropRow",
                  "saveSync"}
CallsOnTarget == {"checkRows", "recheckRows", "checkTarget", "checkPort", "write",
                  "rmTarget", "insert", "save"}

LEMMA CallersOnRow ==
  ASSUME NEW op \in Ops, op \notin OfRow, NEW k \in 1..Len(Flow[op])
  PROVE  Flow[op][k] \notin CallsOnRow
<1>1. op \in {"create", "undoCreate", "refresh"}
  BY OpsAre DEF OfRow
<1>2. \A n \in 1..Len(CreateSteps) : CreateSteps[n] \notin CallsOnRow
  BY DEF CreateSteps, CallsOnRow
<1>3. \A n \in 1..Len(UndoCreateSteps) : UndoCreateSteps[n] \notin CallsOnRow
  BY DEF UndoCreateSteps, CallsOnRow
<1>4. \A n \in 1..Len(RefreshSteps) : RefreshSteps[n] \notin CallsOnRow
  BY DEF RefreshSteps, CallsOnRow
<1>5. CASE op = "create"     BY <1>2, <1>5 DEF Flow
<1>6. CASE op = "undoCreate" BY <1>3, <1>6 DEF Flow
<1>7. CASE op = "refresh"    BY <1>4, <1>7 DEF Flow
<1> QED BY <1>1, <1>5, <1>6, <1>7

LEMMA CallersOnTarget ==
  ASSUME NEW op \in Ops, op \notin OfTarget, NEW k \in 1..Len(Flow[op])
  PROVE  Flow[op][k] \notin CallsOnTarget
<1>1. op \in {"archive", "restore", "delete", "start", "restart", "stop", "sync", "refresh"}
  BY OpsAre DEF OfTarget
<1>2. \A n \in 1..Len(ArchiveSteps) : ArchiveSteps[n] \notin CallsOnTarget
  BY DEF ArchiveSteps, CallsOnTarget
<1>3. \A n \in 1..Len(RestoreSteps) : RestoreSteps[n] \notin CallsOnTarget
  BY DEF RestoreSteps, CallsOnTarget
<1>4. \A n \in 1..Len(DeleteSteps) : DeleteSteps[n] \notin CallsOnTarget
  BY DEF DeleteSteps, CallsOnTarget
<1>5. \A n \in 1..Len(StartSteps) : StartSteps[n] \notin CallsOnTarget
  BY DEF StartSteps, CallsOnTarget
<1>6. \A n \in 1..Len(StopSteps) : StopSteps[n] \notin CallsOnTarget
  BY DEF StopSteps, CallsOnTarget
<1>7. \A n \in 1..Len(SyncSteps) : SyncSteps[n] \notin CallsOnTarget
  BY DEF SyncSteps, CallsOnTarget
<1>8. \A n \in 1..Len(RefreshSteps) : RefreshSteps[n] \notin CallsOnTarget
  BY DEF RefreshSteps, CallsOnTarget
<1>9. CASE op = "archive"  BY <1>2, <1>9 DEF Flow
<1>10. CASE op = "restore" BY <1>3, <1>10 DEF Flow
<1>11. CASE op = "delete"  BY <1>4, <1>11 DEF Flow
<1>12. CASE op \in {"start", "restart"} BY <1>5, <1>12 DEF Flow
<1>13. CASE op = "stop"    BY <1>6, <1>13 DEF Flow
<1>14. CASE op = "sync"    BY <1>7, <1>14 DEF Flow
<1>15. CASE op = "refresh" BY <1>8, <1>15 DEF Flow
<1> QED BY <1>1, <1>9, <1>10, <1>11, <1>12, <1>13, <1>14, <1>15

\* A handler at a call on a row holds the row; at one on a target, the target.
LEMMA HeldRow ==
  ASSUME TypeOK, NEW h \in Handlers, NEW s \in CallsOnRow, At(h, s)
  PROVE  job[h].row \in Row /\ job[h].id \in Ids
<1>1. job[h] \in Job /\ job[h].op \in Ops /\ Flow[job[h].op][job[h].pc] = s
  BY DEF TypeOK, At, Busy
<1>2. job[h].op \in OfRow
  BY <1>1, CallersOnRow DEF Job
<1> QED BY <1>1, <1>2 DEF Job, Locals

LEMMA HeldTarget ==
  ASSUME TypeOK, NEW h \in Handlers, NEW s \in CallsOnTarget, At(h, s)
  PROVE  job[h].want \in Target
<1>1. job[h] \in Job /\ job[h].op \in Ops /\ Flow[job[h].op][job[h].pc] = s
  BY DEF TypeOK, At, Busy
<1>2. job[h].op \in OfTarget
  BY <1>1, CallersOnTarget DEF Job
<1> QED BY <1>1, <1>2 DEF Job, Locals

\* A handler with no request is a job.
LEMMA IdleType == Idle \in Job /\ Idle.op \notin Ops
<1>1. Idle \in Locals
  BY DEF Idle, Started, Locals
<1>2. Idle.op \notin Ops /\ Idle.op \notin OfTarget /\ Idle.op \notin OfRow
  BY OpsAre DEF Idle, Started, OfTarget, OfRow
<1> QED BY <1>1, <1>2 DEF Job

\* The call succeeded: the next call of the operation, or the end of it.
LEMMA AfterType == ASSUME NEW j \in Job, j.op \in Ops PROVE After(j) \in Job
<1>1. CASE j.pc = Len(Flow[j.op])
  BY <1>1, IdleType DEF After
<1>2. CASE j.pc # Len(Flow[j.op])
  <2>1. j.pc + 1 \in 1..Len(Flow[j.op])
    BY <1>2, StepsAre DEF Job
  <2>2. After(j) = [j EXCEPT !.pc = j.pc + 1]
    BY <1>2 DEF After, Job, Locals
  <2> QED BY <2>1, <2>2 DEF Job, Locals
<1> QED BY <1>1, <1>2

\* Undoing a create keeps its target, undoing an update its row and its target.
LEMMA UndoType ==
  ASSUME NEW j \in Job, j.op \in {"create", "update"}
  PROVE  Undo(j) \in Job
<1>1. ASSUME NEW o \in {"undoCreate", "undoUpdate"}, o = "undoUpdate" => j.op = "update"
      PROVE  [j EXCEPT !.op = o, !.pc = 1] \in Job
  <2> DEFINE k == [j EXCEPT !.op = o, !.pc = 1]
  <2>1. k \in Locals
    BY OpsAre DEF Job, Locals
  <2>2. k.op = o /\ k.pc = 1 /\ k.want = j.want /\ k.row = j.row /\ k.id = j.id
    BY DEF Job, Locals
  <2>3. 1 \in 1..Len(Flow[o])
    BY StepsAre, OpsAre
  <2>4. j.want # None /\ (j.op = "update" => j.row # None /\ j.id # 0)
    BY OpsAre DEF Job, OfTarget, OfRow
  <2> HIDE DEF k
  <2>5. k.op \in OfRow => j.op = "update"
    BY <1>1, <2>2 DEF OfRow
  <2>6. k \in Job
    BY <2>1, <2>2, <2>3, <2>4, <2>5 DEF Job
  <2> QED BY <2>6 DEF k
<1>2. CASE j.op = "create"
  <2>1. Undo(j) = [j EXCEPT !.op = "undoCreate", !.pc = 1]
    BY <1>2 DEF Undo, Job, Locals
  <2> QED BY <1>1, <1>2, <2>1
<1>3. CASE j.op = "update"
  <2>1. Undo(j) = [j EXCEPT !.op = "undoUpdate", !.pc = 1]
    BY <1>3 DEF Undo, Job, Locals
  <2> QED BY <1>1, <1>3, <2>1
<1> QED BY <1>2, <1>3

\* The call raised: the compensation, the next call or the end.
LEMMA FailedType == ASSUME NEW j \in Job, j.op \in Ops PROVE Failed(j) \in Job
<1>1. \/ j.op \in {"create", "update"} /\ Failed(j) = Undo(j)
      \/ Failed(j) \in {After(j), Idle}
  BY DEF Failed
<1> QED BY <1>1, UndoType, AfterType, IdleType

\* Faults are counted and never exceed their bound.
LEMMA FaultType ==
  ASSUME TypeOK, Fault
  PROVE  faults' \in 0..MaxFaults
BY BoundsAssumption DEF TypeOK, Fault

\* However the current call ends, jobs and faults keep their shape.
LEMMA EndOfCallType ==
  ASSUME TypeOK, NEW h \in Handlers, Busy(h),
         Proceed(h) \/ Refuse(h) \/ Reported(h)
  PROVE  job' \in [Handlers -> Job] /\ faults' \in 0..MaxFaults
<1>1. After(job[h]) \in Job /\ Failed(job[h]) \in Job
  BY AfterType, FailedType DEF TypeOK, Busy
<1> QED BY <1>1, FaultType DEF TypeOK, Proceed, Refuse, Reported

\* The rows of a name are rows.
LEMMA NamedRows ==
  ASSUME TypeOK, NEW n
  PROVE  /\ \A i \in Named(n) : rows[i] \in Row
         /\ \A i \in Ids : rows[i] \in Row \cup {None}
BY DEF TypeOK, Named, Live

-----------------------------------------------------------------------------
(***************************************************************************)
(* Type correctness.                                                       *)
(***************************************************************************)

\* What the host and the table look like before the first request.
LEMMA TypeInit == Init => TypeOK
<1> SUFFICES ASSUME Init PROVE TypeOK
  OBVIOUS
<1>1. job \in [Handlers -> Job]
  BY IdleType DEF Init
<1>2. nextId \in 1..(MaxRows + 1) /\ faults \in 0..MaxFaults
  BY BoundsAssumption DEF Init
<1> QED BY <1>1, <1>2 DEF Init, TypeOK

\* A request that is accepted becomes a well-formed job.
LEMMA TypeBegin ==
  ASSUME TypeOK, NEW h \in Handlers, Begin(h)
  PROVE  TypeOK'
<1>1. ASSUME NEW j \in Job, Accept(h, j) PROVE TypeOK'
  BY <1>1 DEF Accept, TypeOK, db, files
<1>2. ASSUME NEW op \in Ops, NEW i \in Ids \cup {0}, NEW r \in Row \cup {None},
             NEW w \in Target \cup {None},
             op \in OfTarget => w # None, op \in OfRow => r # None /\ i # 0
      PROVE  Started(op, i, r, w) \in Job
  <2> DEFINE k == Started(op, i, r, w)
  <2>1. k \in Locals
    BY DEF Started, Locals
  <2>2. k.op = op /\ k.pc = 1 /\ k.id = i /\ k.row = r /\ k.want = w
    BY DEF Started
  <2>3. 1 \in 1..Len(Flow[op])
    BY StepsAre
  <2> HIDE DEF k
  <2>4. k \in Job
    BY <1>2, <2>1, <2>2, <2>3 DEF Job
  <2> QED BY <2>4 DEF k
<1>3. ASSUME NEW i \in Live PROVE i \in Ids /\ i # 0 /\ rows[i] \in Row /\ rows[i] # None
  BY DEF Live, Ids, TypeOK
<1>4. CASE BeginCreate(h)
  <2>1. PICK w \in Target : Accept(h, Started("create", 0, None, w))
    BY <1>4 DEF BeginCreate
  <2>2. "create" \in Ops \ OfRow /\ w # None
    BY OpsAre, NoneAssumption DEF OfRow
  <2> QED BY <1>1, <1>2, <2>1, <2>2
<1>5. CASE BeginUpdate(h)
  <2>1. PICK i \in Live, w \in Target : Accept(h, Started("update", i, rows[i], w))
    BY <1>5 DEF BeginUpdate
  <2>2. "update" \in Ops /\ w # None
    BY OpsAre, NoneAssumption
  <2> QED BY <1>1, <1>2, <1>3, <2>1, <2>2
<1>6. CASE BeginOnActive(h)
  <2>1. RuntimeOps \cup {"archive", "sync"} \subseteq Ops \ OfTarget
    BY OpsAre DEF RuntimeOps, OfTarget
  <2>2. PICK i \in Live, op \in Ops \ OfTarget : Accept(h, Started(op, i, rows[i], None))
    BY <1>6, <2>1 DEF BeginOnActive
  <2> QED BY <1>1, <1>2, <1>3, <2>2
<1>7. CASE BeginOnArchived(h)
  <2>1. {"restore", "delete"} \subseteq Ops \ OfTarget
    BY OpsAre DEF OfTarget
  <2>2. PICK i \in Live, op \in Ops \ OfTarget : Accept(h, Started(op, i, rows[i], None))
    BY <1>7, <2>1 DEF BeginOnArchived
  <2> QED BY <1>1, <1>2, <1>3, <2>2
<1>8. CASE BeginRefresh(h)
  <2>1. "refresh" \in Ops /\ "refresh" \notin OfRow /\ "refresh" \notin OfTarget
    BY OpsAre DEF OfRow, OfTarget
  <2> QED BY <1>1, <1>2, <1>8, <2>1 DEF BeginRefresh
<1> QED BY <1>4, <1>5, <1>6, <1>7, <1>8 DEF Begin

\* The checks change nothing but the job.
LEMMA TypeCheck ==
  ASSUME TypeOK, NEW h \in Handlers, Check(h)
  PROVE  TypeOK'
<1>1. Proceed(h) \/ Refuse(h)
  BY DEF Check, ReadConfig, CheckRows, CheckTarget, CheckPort
<1>2. UNCHANGED <<db, files, procs>>
  BY DEF Check, ReadConfig, CheckRows, CheckTarget, CheckPort
<1>3. job' \in [Handlers -> Job] /\ faults' \in 0..MaxFaults
  BY <1>1, EndOfCallType DEF Check, ReadConfig, CheckRows, CheckTarget, CheckPort, At
<1> QED BY <1>2, <1>3 DEF TypeOK, db, files

\* File commands change the conf dir alone, and keep configs in it.
LEMMA TypeFileCmd ==
  ASSUME TypeOK, NEW h \in Handlers, FileCmd(h)
  PROVE  TypeOK'
<1> DEFINE Dir == [Paths -> Config \cup {None}]
<1>1. job' \in [Handlers -> Job] /\ faults' \in 0..MaxFaults
  <2>1. Busy(h)
    BY DEF FileCmd, Write, Backup, CopyBack, RemoveOld, RemoveTarget, RemoveBackup,
           RemoveFile, At
  <2>2. \/ Proceed(h) \/ Refuse(h) \/ Reported(h)
        \/ Fault /\ job' = [job EXCEPT ![h] = Failed(@)]
        \/ job' = [job EXCEPT ![h] = Idle] /\ UNCHANGED faults
    BY DEF FileCmd, Write, Backup, CopyBack, RemoveOld, RemoveTarget, RemoveBackup,
           RemoveFile
  <2>3. Failed(job[h]) \in Job /\ Idle \in Job
    BY <2>1, FailedType, IdleType DEF TypeOK, Busy
  <2> QED BY <2>1, <2>2, <2>3, EndOfCallType, FaultType DEF TypeOK
<1>2. CASE Write(h)
  <2>1. job[h].want \in Target
    BY <1>2, HeldTarget DEF Write, CallsOnTarget
  <2>2. ini' \in Dir
    BY <1>2, <2>1 DEF Write, TypeOK, Target
  <2> QED BY <1>1, <1>2, <2>2 DEF Write, TypeOK, db
<1>3. CASE Backup(h)
  <2>1. job[h].row \in Row
    BY <1>3, HeldRow DEF Backup, CallsOnRow
  <2>2. bak' \in Dir
    BY <1>3, <2>1 DEF Backup, TypeOK, Row
  <2>3. shelf' \in [Paths -> SUBSET Config]
    BY <1>3, <2>1 DEF Backup, TypeOK, Row
  <2> QED BY <1>1, <1>3, <2>2, <2>3 DEF Backup, TypeOK, db
<1>4. CASE CopyBack(h)
  <2>1. job[h].row \in Row
    BY <1>4, HeldRow DEF CopyBack, CallsOnRow
  <2>2. ini' \in Dir
    BY <1>4, <2>1 DEF CopyBack, TypeOK, Row
  <2> QED BY <1>1, <1>4, <2>2 DEF CopyBack, TypeOK, db
<1>5. CASE RemoveOld(h)
  <2>1. ini' \in Dir
    BY <1>5 DEF RemoveOld, TypeOK
  <2> QED BY <1>1, <1>5, <2>1 DEF RemoveOld, TypeOK, db
<1>6. CASE RemoveTarget(h)
  <2>1. ini' \in Dir
    BY <1>6 DEF RemoveTarget, TypeOK
  <2> QED BY <1>1, <1>6, <2>1 DEF RemoveTarget, TypeOK, db
<1>7. CASE RemoveBackup(h)
  BY <1>1, <1>7 DEF RemoveBackup, TypeOK, db
<1>8. CASE RemoveFile(h)
  <2>1. ini' \in Dir
    BY <1>8 DEF RemoveFile, TypeOK
  <2> QED BY <1>1, <1>8, <2>1 DEF RemoveFile, TypeOK, db
<1> QED BY <1>2, <1>3, <1>4, <1>5, <1>6, <1>7, <1>8 DEF FileCmd

\* supervisorctl commands change the loaded programs alone.
LEMMA TypeControl ==
  ASSUME TypeOK, NEW h \in Handlers, Control(h)
  PROVE  TypeOK'
<1>1. job' \in [Handlers -> Job] /\ faults' \in 0..MaxFaults
  <2>1. Busy(h)
    BY DEF Control, Apply, Stop, Start, At
  <2>2. Proceed(h) \/ Refuse(h) \/ Reported(h)
    BY DEF Control, Apply, Stop, Start
  <2> QED BY <2>1, <2>2, EndOfCallType
<1>2. procs' \in [Names -> Proc \cup {None}]
  <2>1. CASE Apply(h)
    <3>1. ASSUME NEW n \in Names PROVE Outcomes(n) \subseteq Proc \cup {None}
      <4>1. Declared(n) \subseteq Config
        BY DEF Declared, TypeOK
      <4>2. ASSUME NEW c \in Config PROVE Reloaded(n, c) \in Proc
        BY DEF Reloaded, Proc, TypeOK
      <4> QED BY <4>1, <4>2 DEF Outcomes
    <3> QED BY <2>1, <3>1 DEF Apply
  <2>2. CASE Stop(h)
    BY <2>2 DEF Stop, TypeOK, Proc
  <2>3. CASE Start(h)
    BY <2>3 DEF Start, TypeOK, Proc
  <2> QED BY <2>1, <2>2, <2>3 DEF Control
<1>3. UNCHANGED <<db, files>>
  BY DEF Control, Apply, Stop, Start
<1> QED BY <1>1, <1>2, <1>3 DEF TypeOK, db, files

\* A job that stores what a read brought back is still a job.
LEMMA SeenType ==
  ASSUME NEW j \in Job, j.op \in Ops, NEW E \in SUBSET (Names \X Statuses),
         NEW b \in BOOLEAN, NEW f \in Config \cup {None}
  PROVE  /\ [j EXCEPT !.seen = E] \in Job
         /\ After([j EXCEPT !.seen = E, !.hasBak = b]) \in Job
         /\ After([j EXCEPT !.file = f]) \in Job
<1>1. ASSUME NEW k \in Locals, k.op = j.op, k.pc = j.pc, k.want = j.want, k.row = j.row,
             k.id = j.id
      PROVE  k \in Job /\ After(k) \in Job
  BY <1>1, AfterType DEF Job
<1>2. /\ [j EXCEPT !.seen = E] \in Locals
      /\ [j EXCEPT !.seen = E, !.hasBak = b] \in Locals
      /\ [j EXCEPT !.file = f] \in Locals
  BY DEF Job, Locals
<1>3. ASSUME NEW k \in {[j EXCEPT !.seen = E], [j EXCEPT !.seen = E, !.hasBak = b],
                        [j EXCEPT !.file = f]}
      PROVE  k.op = j.op /\ k.pc = j.pc /\ k.want = j.want /\ k.row = j.row /\ k.id = j.id
  BY DEF Job, Locals
<1> QED BY <1>1, <1>2, <1>3

\* Reads of the host change the job alone.
LEMMA TypeObserve ==
  ASSUME TypeOK, NEW h \in Handlers, Observe(h)
  PROVE  TypeOK'
<1> DEFINE j == job[h]
<1>1. UNCHANGED <<db, files, procs>>
  BY DEF Observe, Status, StatusAll, ReadCurrent, ReadBackup
<1>2. j \in Job /\ j.op \in Ops /\ j.seen \in SUBSET (Names \X Statuses) /\ j.hasBak \in BOOLEAN
  BY DEF Observe, Status, StatusAll, ReadCurrent, ReadBackup, At, Busy, TypeOK, Job, Locals
<1>3. \A n : StatusOf(n) \in Statuses
  BY DEF StatusOf, Statuses
<1>4. faults' \in 0..MaxFaults
  BY FaultType DEF Observe, Status, StatusAll, ReadCurrent, ReadBackup, Refuse, TypeOK
<1>5. job' \in [Handlers -> Job]
  <2>1. ASSUME NEW k \in Job, job' = [job EXCEPT ![h] = k] PROVE job' \in [Handlers -> Job]
    BY <2>1 DEF TypeOK
  <2>2. CASE Status(h)
    <3>1. j.row \in Row
      BY <2>2, HeldRow DEF Status, CallsOnRow
    <3>2. j.op = "update" => j.want \in Target
      BY <1>2 DEF Job, Locals, OfTarget
    <3>3. Subject(j) \in Names
      BY <3>1, <3>2 DEF Subject, Row, Target, Config
    <3>4. Fallback(j) \in Statuses
      BY <3>1 DEF Fallback, Row, Statuses
    <3>5. PICK s \in Statuses : See(h, {<<Subject(j), s>>}, FALSE)
      BY <2>2, <1>3, <3>4 DEF Status
    <3> DEFINE E == {<<Subject(j), s>>}
    <3>6. E \in SUBSET (Names \X Statuses)
      BY <3>3
    <3>7. See(h, E, FALSE)
      BY <3>5
    <3> HIDE DEF E
    <3>8. After([j EXCEPT !.seen = E, !.hasBak = FALSE]) \in Job
      BY <1>2, <3>6, SeenType
    <3> QED BY <2>1, <3>7, <3>8 DEF See
  <2>3. CASE StatusAll(h)
    <3> DEFINE E == {<<n, StatusOf(n)>> : n \in {m \in Names : procs[m] # None}}
    <3>1. E \in SUBSET (Names \X Statuses)
      BY <1>3
    <3>2. See(h, E, FALSE) \/ Refuse(h)
      BY <2>3 DEF StatusAll
    <3> HIDE DEF E
    <3>3. After([j EXCEPT !.seen = E, !.hasBak = FALSE]) \in Job
      BY <1>2, <3>1, SeenType
    <3>4. CASE See(h, E, FALSE)
      BY <2>1, <3>3, <3>4 DEF See
    <3>5. CASE Refuse(h)
      BY <1>2, <3>5, EndOfCallType DEF Busy
    <3> QED BY <3>2, <3>4, <3>5
  <2>4. CASE ReadCurrent(h)
    <3>1. j.row \in Row
      BY <2>4, HeldRow DEF ReadCurrent, CallsOnRow
    <3>2. ini[j.row.path] \in Config \cup {None}
      BY <3>1 DEF TypeOK, Row
    <3>3. After([j EXCEPT !.file = ini[j.row.path]]) \in Job /\ After(j) \in Job
      BY <1>2, <3>2, SeenType, AfterType
    <3> QED BY <2>1, <2>4, <3>3 DEF ReadCurrent
  <2>5. CASE ReadBackup(h)
    <3>1. j.row.hasBackup \in BOOLEAN
      BY <2>5, HeldRow DEF ReadBackup, CallsOnRow, Row
    <3>2. PICK b \in BOOLEAN : See(h, j.seen, b)
      BY <2>5, <3>1 DEF ReadBackup
    <3>3. After([j EXCEPT !.seen = j.seen, !.hasBak = b]) \in Job
      BY <1>2, SeenType
    <3> QED BY <2>1, <3>2, <3>3 DEF See
  <2> QED BY <2>2, <2>3, <2>4, <2>5 DEF Observe
<1> QED BY <1>1, <1>4, <1>5 DEF TypeOK, db, files

\* Database writes keep the shape of the rows.
LEMMA TypeStore ==
  ASSUME TypeOK, NEW h \in Handlers, Store(h)
  PROVE  TypeOK'
<1> DEFINE j == job[h]
           Table == [Ids -> Row \cup {None}]
<1>1. UNCHANGED <<files, procs>>
  BY DEF Store, Insert, SaveUpdate, MarkArchived, MarkRestored, DropRow, SaveStatus, SaveSync
<1>2. Busy(h) /\ j \in Job /\ j.op \in Ops /\ j.hasBak \in BOOLEAN /\ j.file \in Config \cup {None}
  BY DEF Store, Insert, SaveUpdate, MarkArchived, MarkRestored, DropRow, SaveStatus, SaveSync,
         At, Busy, TypeOK, Job, Locals
<1>3. ASSUME NEW e \in j.seen PROVE e[2] \in Statuses
  BY <1>2, <1>3 DEF Job, Locals
<1>4. job' \in [Handlers -> Job] /\ faults' \in 0..MaxFaults
  <2>1. CASE Proceed(h) \/ Refuse(h)
    BY <2>1, <1>2, EndOfCallType
  <2>2. CASE SaveStatus(h)
    <3>1. CASE j.seen = {}
      BY <3>1, <2>1, <2>2 DEF SaveStatus
    <3>2. CASE j.seen # {}
      <4>1. PICK e \in j.seen :
              /\ job' = [job EXCEPT ![h] = IF j.seen = {e} THEN After(j)
                                           ELSE [j EXCEPT !.seen = j.seen \ {e}]]
              /\ faults' = faults
        BY <3>2, <2>2 DEF SaveStatus
      <4> DEFINE E == j.seen \ {e}
      <4>2. E \in SUBSET (Names \X Statuses)
        BY <1>2 DEF Job, Locals
      <4>3. job' = [job EXCEPT ![h] = IF j.seen = {e} THEN After(j)
                                      ELSE [j EXCEPT !.seen = E]]
        BY <4>1
      <4> HIDE DEF E
      <4>4. [j EXCEPT !.seen = E] \in Job /\ After(j) \in Job
        BY <1>2, <4>2, SeenType, AfterType
      <4> QED BY <4>1, <4>3, <4>4 DEF TypeOK
    <3> QED BY <3>1, <3>2
  <2> QED BY <2>1, <2>2 DEF Store, Insert, SaveUpdate, MarkArchived, MarkRestored, DropRow,
                            SaveSync
<1>5. rows' \in Table /\ nextId' \in 1..(MaxRows + 1)
  <2>1. CASE Insert(h)
    <3>1. j.want \in Target
      BY <2>1, HeldTarget DEF Insert, CallsOnTarget
    <3>2. NewRow(j.want) \in Row
      BY <3>1 DEF NewRow, Target, Config, Row, Statuses
    <3> QED BY <2>1, <3>2, BoundsAssumption DEF Insert, TypeOK, Ids, db
  <2>2. CASE SaveUpdate(h)
    <3>1. j.want \in Target
      BY <2>2, HeldTarget DEF SaveUpdate, CallsOnTarget
    <3>2. ASSUME NEW r \in Row, NEW e \in j.seen
          PROVE  [r EXCEPT !.path = j.want.path, !.baseline = j.want.conf,
                           !.port = j.want.conf.port, !.status = e[2],
                           !.hasBackup = TRUE] \in Row
      BY <3>1, <1>3 DEF Target, Config, Row
    <3>3. nextId' = nextId /\ rows \in Table
      BY <2>2 DEF SaveUpdate, TypeOK
    <3>4. CASE rows' = rows
      BY <3>3, <3>4 DEF TypeOK
    <3>5. CASE rows' # rows
      <4>1. rows[j.id] # None
        BY <2>2, <3>5 DEF SaveUpdate
      <4>2. PICK e \in j.seen :
              rows' = [rows EXCEPT ![j.id] =
                        [rows[j.id] EXCEPT !.path = j.want.path, !.baseline = j.want.conf,
                           !.port = j.want.conf.port, !.status = e[2],
                           !.hasBackup = TRUE]]
        BY <2>2, <3>5 DEF SaveUpdate
      <4>3. j.id \in Ids => rows[j.id] \in Row
        BY <3>3, <4>1
      <4> QED BY <3>2, <3>3, <4>2, <4>3 DEF TypeOK
    <3> QED BY <3>4, <3>5
  <2>3. CASE MarkArchived(h)
    <3>1. ASSUME NEW r \in Row PROVE [r EXCEPT !.archived = TRUE, !.status = "STOPPED"] \in Row
      BY DEF Row, Statuses
    <3>2. /\ nextId' = nextId
          /\ rows' = [i \in Ids |-> IF i \in Named(j.row.baseline.name)
                                    THEN [rows[i] EXCEPT !.archived = TRUE, !.status = "STOPPED"]
                                    ELSE rows[i]]
      BY <2>3 DEF MarkArchived, UpdateNamed
    <3> QED BY <3>1, <3>2, NamedRows DEF TypeOK
  <2>4. CASE MarkRestored(h)
    <3>1. PICK e \in j.seen :
            rows' = [i \in Ids |-> IF i \in Named(e[1])
                                  THEN [rows[i] EXCEPT !.archived = FALSE, !.status = e[2]]
                                  ELSE rows[i]]
      BY <2>4 DEF MarkRestored, UpdateNamed
    <3>2. ASSUME NEW r \in Row PROVE [r EXCEPT !.archived = FALSE, !.status = e[2]] \in Row
      BY <1>3 DEF Row
    <3> QED BY <2>4, <3>1, <3>2, NamedRows DEF MarkRestored, TypeOK
  <2>5. CASE DropRow(h)
    BY <2>5 DEF DropRow, TypeOK
  <2>6. CASE SaveStatus(h)
    <3>1. nextId' = nextId
      BY <2>6 DEF SaveStatus
    <3>2. CASE j.seen = {}
      BY <2>6, <3>1, <3>2 DEF SaveStatus, TypeOK
    <3>3. CASE j.seen # {}
      <4>1. PICK e \in j.seen :
              rows' = [i \in Ids |-> IF i \in Named(e[1]) THEN [rows[i] EXCEPT !.status = e[2]]
                                                        ELSE rows[i]]
        BY <2>6, <3>3 DEF SaveStatus, UpdateNamed
      <4>2. ASSUME NEW r \in Row PROVE [r EXCEPT !.status = e[2]] \in Row
        BY <1>3 DEF Row
      <4> QED BY <3>1, <4>1, <4>2, NamedRows DEF TypeOK
    <3> QED BY <3>2, <3>3
  <2>7. CASE SaveSync(h)
    <3> DEFINE x == IF j.file = None THEN j.row.port ELSE j.file.port
    <3>1. j.row \in Row
      BY <2>7, HeldRow DEF SaveSync, CallsOnRow
    <3>2. x \in Ports
      BY <3>1, <1>2 DEF Row, Config
    <3>3. PICK e \in j.seen :
            rows' = [i \in Ids |-> IF i \in Named(e[1])
                                  THEN [rows[i] EXCEPT !.status = e[2], !.hasBackup = j.hasBak,
                                                       !.port = x]
                                  ELSE rows[i]]
      BY <2>7 DEF SaveSync, UpdateNamed
    <3> HIDE DEF x
    <3>4. ASSUME NEW r \in Row
          PROVE  [r EXCEPT !.status = e[2], !.hasBackup = j.hasBak, !.port = x] \in Row
      BY <1>2, <1>3, <3>2 DEF Row
    <3> QED BY <2>7, <3>3, <3>4, NamedRows DEF SaveSync, TypeOK
  <2> QED BY <2>1, <2>2, <2>3, <2>4, <2>5, <2>6, <2>7 DEF Store
<1> QED BY <1>1, <1>4, <1>5 DEF TypeOK, files

LEMMA TypeCallFails ==
  ASSUME TypeOK, NEW h \in Handlers, CallFails(h)
  PROVE  TypeOK'
<1>1. UNCHANGED <<db, files, procs>> /\ Fault /\ Busy(h)
  BY DEF CallFails
<1>2. Failed(job[h]) \in Job
  BY <1>1, FailedType DEF TypeOK, Busy
<1>3. job' \in [Handlers -> Job]
  BY <1>2 DEF CallFails, TypeOK
<1> QED BY <1>1, <1>3, FaultType DEF TypeOK, db, files

LEMMA TypeCrash == ASSUME TypeOK, Crash PROVE TypeOK'
<1>1. job' \in [Handlers -> Job]
  BY IdleType DEF Crash
<1> QED BY <1>1, FaultType DEF Crash, TypeOK, db, files

LEMMA TypeNext == ASSUME TypeOK, [Next]_vars PROVE TypeOK'
<1>1. CASE UNCHANGED vars
  BY <1>1 DEF vars, TypeOK
<1>2. CASE Crash
  BY <1>2, TypeCrash
<1>3. ASSUME NEW h \in Handlers,
             \/ Begin(h) \/ Check(h) \/ FileCmd(h) \/ Control(h)
             \/ Observe(h) \/ Store(h) \/ CallFails(h)
      PROVE  TypeOK'
  BY <1>3, TypeBegin, TypeCheck, TypeFileCmd, TypeControl, TypeObserve, TypeStore,
     TypeCallFails
<1> QED BY <1>1, <1>2, <1>3 DEF Next, Continue

\* Every variable keeps its shape in every behaviour; above all a handler never
\* reaches a call that reads a row or a target it does not hold.
THEOREM TypeCorrect == Spec => []TypeOK
<1> QED BY TypeInit, TypeNext, PTL DEF Spec

-----------------------------------------------------------------------------
(***************************************************************************)
(* Paths stay unique.  Only an insert and an update write a path, and the  *)
(* unique key refuses one that another row has.  ids are handed out in     *)
(* order, so an insert never replaces another row's id.                    *)
(***************************************************************************)

\* Steps that leave every row where it is, or remove it.
LEMMA SamePaths ==
  ASSUME PathsUnique,
         \A i \in Ids : rows'[i] # None => rows[i] # None /\ rows'[i].path = rows[i].path
  PROVE  PathsUnique'
BY DEF PathsUnique, Live

\* A row changed by name keeps its path.
LEMMA StorePaths ==
  ASSUME TypeOK, NEW h \in Handlers,
         MarkArchived(h) \/ MarkRestored(h) \/ SaveStatus(h) \/ SaveSync(h)
  PROVE  \A i \in Ids : /\ rows'[i] # None => rows[i] # None
                        /\ rows[i] # None => rows'[i].path = rows[i].path
<1> SUFFICES ASSUME NEW i \in Ids
             PROVE  /\ rows'[i] # None => rows[i] # None
                    /\ rows[i] # None => rows'[i].path = rows[i].path
  OBVIOUS
<1> DEFINE j == job[h]
<1>2. rows[i] # None => rows[i] \in Row
  BY DEF TypeOK
<1>3. CASE MarkArchived(h)
  <2>1. rows'[i] = IF i \in Named(j.row.baseline.name)
                   THEN [rows[i] EXCEPT !.archived = TRUE, !.status = "STOPPED"] ELSE rows[i]
    BY <1>3 DEF MarkArchived, UpdateNamed
  <2> QED BY <1>2, <2>1 DEF Row, Named, Live
<1>4. CASE MarkRestored(h)
  <2>1. PICK e \in j.seen :
          rows'[i] = IF i \in Named(e[1])
                     THEN [rows[i] EXCEPT !.archived = FALSE, !.status = e[2]] ELSE rows[i]
    BY <1>4 DEF MarkRestored, UpdateNamed
  <2> QED BY <1>2, <2>1 DEF Row, Named, Live
<1>5. CASE SaveStatus(h)
  <2>1. CASE j.seen = {}
    BY <1>5, <2>1 DEF SaveStatus
  <2>2. CASE j.seen # {}
    <3>1. PICK e \in j.seen :
            rows'[i] = IF i \in Named(e[1]) THEN [rows[i] EXCEPT !.status = e[2]] ELSE rows[i]
      BY <1>5, <2>2 DEF SaveStatus, UpdateNamed
    <3> QED BY <1>2, <3>1 DEF Row, Named, Live
  <2> QED BY <2>1, <2>2
<1>6. CASE SaveSync(h)
  <2> DEFINE x == IF j.file = None THEN j.row.port ELSE j.file.port
  <2>1. PICK e \in j.seen :
          rows'[i] = IF i \in Named(e[1])
                     THEN [rows[i] EXCEPT !.status = e[2], !.hasBackup = j.hasBak, !.port = x]
                     ELSE rows[i]
    BY <1>6 DEF SaveSync, UpdateNamed
  <2> HIDE DEF x
  <2> QED BY <1>2, <2>1 DEF Row, Named, Live
<1> QED BY <1>3, <1>4, <1>5, <1>6

\* Nothing but a database write touches the rows.
LEMMA OnlyStoreWrites ==
  ASSUME NEW h \in Handlers,
         Begin(h) \/ Check(h) \/ FileCmd(h) \/ Control(h) \/ Observe(h) \/ CallFails(h)
  PROVE  UNCHANGED db
<1>1. CASE Begin(h)
  BY <1>1 DEF Begin, BeginCreate, BeginUpdate, BeginOnActive, BeginOnArchived, BeginRefresh,
              Accept
<1>2. CASE Check(h)
  BY <1>2 DEF Check, ReadConfig, CheckRows, CheckTarget, CheckPort
<1>3. CASE FileCmd(h)
  BY <1>3 DEF FileCmd, Write, Backup, CopyBack, RemoveOld, RemoveTarget, RemoveBackup,
              RemoveFile
<1>4. CASE Control(h)
  BY <1>4 DEF Control, Apply, Stop, Start
<1>5. CASE Observe(h)
  BY <1>5 DEF Observe, Status, StatusAll, ReadCurrent, ReadBackup
<1>6. CASE CallFails(h)
  BY <1>6 DEF CallFails
<1> QED BY <1>1, <1>2, <1>3, <1>4, <1>5, <1>6

LEMMA InsertPaths ==
  ASSUME TypeOK, PathsUnique, NEW h \in Handlers, Insert(h)
  PROVE  PathsUnique'
<1> DEFINE w == job[h].want
<1>1. CASE rows' = rows
  BY <1>1, SamePaths
<1>2. CASE rows' # rows
  <2>1. rows' = [rows EXCEPT ![nextId] = NewRow(w)] /\ nextId \in Ids /\ ~PathTaken(w.path, 0)
    BY <1>2 DEF Insert, db
  <2>2. \A i \in Live : rows[i].path # w.path
    BY <2>1 DEF PathTaken, Live, Ids
  <2>3. rows'[nextId].path = w.path
    BY <2>1 DEF TypeOK, NewRow
  <2>4. \A i \in Ids : i # nextId => rows'[i] = rows[i]
    BY <2>1 DEF TypeOK
  <2> QED BY <2>2, <2>3, <2>4 DEF PathsUnique, Live
<1> QED BY <1>1, <1>2

LEMMA SaveUpdatePaths ==
  ASSUME TypeOK, PathsUnique, NEW h \in Handlers, SaveUpdate(h)
  PROVE  PathsUnique'
<1> DEFINE j == job[h]
<1>1. CASE rows' = rows
  BY <1>1, SamePaths
<1>2. CASE rows' # rows
  <2>1. rows[j.id] # None /\ ~PathTaken(j.want.path, j.id)
    BY <1>2 DEF SaveUpdate
  <2>2. PICK e \in j.seen :
          rows' = [rows EXCEPT ![j.id] =
                    [rows[j.id] EXCEPT !.path = j.want.path, !.baseline = j.want.conf,
                       !.port = j.want.conf.port, !.status = e[2], !.hasBackup = TRUE]]
    BY <1>2 DEF SaveUpdate
  <2>3. \A i \in Live : i # j.id => rows[i].path # j.want.path
    BY <2>1 DEF PathTaken
  <2>4. j.id \in Ids => rows'[j.id].path = j.want.path
    <3>1. j.id \in Ids => rows[j.id] \in Row
      BY <2>1 DEF TypeOK
    <3> QED BY <2>2, <3>1 DEF TypeOK, Row
  <2>5. \A i \in Ids : i # j.id => rows'[i] = rows[i]
    BY <2>2 DEF TypeOK
  <2> QED BY <2>3, <2>4, <2>5 DEF PathsUnique, Live
<1> QED BY <1>1, <1>2

LEMMA PathsNext == ASSUME TypeOK, PathsUnique, [Next]_vars PROVE PathsUnique'
<1>1. CASE UNCHANGED vars
  BY <1>1, SamePaths DEF vars
<1>2. CASE Crash
  BY <1>2, SamePaths DEF Crash, db
<1>3. ASSUME NEW h \in Handlers, Store(h) PROVE PathsUnique'
  <2>1. CASE Insert(h)
    BY <2>1, InsertPaths
  <2>2. CASE SaveUpdate(h)
    BY <2>2, SaveUpdatePaths
  <2>3. CASE DropRow(h)
    BY <2>3, SamePaths DEF DropRow, TypeOK
  <2>4. CASE MarkArchived(h) \/ MarkRestored(h) \/ SaveStatus(h) \/ SaveSync(h)
    <3>1. \A i \in Ids : /\ rows'[i] # None => rows[i] # None
                         /\ rows[i] # None => rows'[i].path = rows[i].path
      BY <2>4, StorePaths, Zenon
    <3>2. \A i \in Ids : rows'[i] # None => rows[i] # None /\ rows'[i].path = rows[i].path
      BY <3>1, Zenon
    <3> QED BY <3>2, SamePaths, Zenon
  <2> QED BY <1>3, <2>1, <2>2, <2>3, <2>4 DEF Store
<1>4. ASSUME NEW h \in Handlers,
             \/ Begin(h) \/ Check(h) \/ FileCmd(h) \/ Control(h)
             \/ Observe(h) \/ CallFails(h)
      PROVE  PathsUnique'
  BY <1>4, OnlyStoreWrites, SamePaths DEF db
<1> QED BY <1>1, <1>2, <1>3, <1>4 DEF Next, Continue

\* No two rows ever claim one config path, for any number of concurrent
\* requests, failures and crashes.
THEOREM PathsAreUnique == Spec => []PathsUnique
<1>1. Init => PathsUnique
  BY DEF Init, PathsUnique, Live
<1> QED BY <1>1, TypeCorrect, PathsNext, PTL DEF Spec

-----------------------------------------------------------------------------
(***************************************************************************)
(* A deleted service stays deleted.  An id below nextId is never handed    *)
(* out again, and every other write is an UPDATE whose WHERE clause a      *)
(* missing row does not match.                                             *)
(***************************************************************************)
LEMMA NoRevival ==
  ASSUME TypeOK, [Next]_vars, NEW i \in Ids, i < nextId, rows[i] = None
  PROVE  rows'[i] = None
<1>1. CASE UNCHANGED vars
  BY <1>1 DEF vars
<1>2. CASE Crash
  BY <1>2 DEF Crash, db
<1>3. ASSUME NEW h \in Handlers, Store(h) PROVE rows'[i] = None
  <2>1. CASE Insert(h)
    <3>1. CASE rows' = rows
      BY <3>1
    <3>2. CASE rows' # rows
      <4>1. rows' = [rows EXCEPT ![nextId] = NewRow(job[h].want)]
        BY <2>1, <3>2 DEF Insert, db
      <4>2. i # nextId
        BY DEF Ids, TypeOK
      <4> QED BY <4>1, <4>2 DEF TypeOK
    <3> QED BY <3>1, <3>2
  <2>2. CASE SaveUpdate(h)
    <3>1. CASE rows' = rows
      BY <3>1
    <3>2. CASE rows' # rows
      <4>1. rows[job[h].id] # None
        BY <2>2, <3>2 DEF SaveUpdate
      <4>2. PICK r : rows' = [rows EXCEPT ![job[h].id] = r]
        BY <2>2, <3>2 DEF SaveUpdate
      <4> QED BY <4>1, <4>2 DEF TypeOK
    <3> QED BY <3>1, <3>2
  <2>3. CASE DropRow(h)
    BY <2>3 DEF DropRow, TypeOK
  <2>4. CASE MarkArchived(h) \/ MarkRestored(h) \/ SaveStatus(h) \/ SaveSync(h)
    <3>1. \A k \in Ids : /\ rows'[k] # None => rows[k] # None
                         /\ rows[k] # None => rows'[k].path = rows[k].path
      BY <2>4, StorePaths, Zenon
    <3> QED BY <3>1, Zenon
  <2> QED BY <1>3, <2>1, <2>2, <2>3, <2>4 DEF Store
<1>4. ASSUME NEW h \in Handlers,
             \/ Begin(h) \/ Check(h) \/ FileCmd(h) \/ Control(h)
             \/ Observe(h) \/ CallFails(h)
      PROVE  rows'[i] = None
  BY <1>4, OnlyStoreWrites DEF db
<1> QED BY <1>1, <1>2, <1>3, <1>4 DEF Next, Continue

\* A deleted service never comes back, whatever was in flight for it when its
\* row went.
THEOREM DeletedStayDeleted == Spec => DeletedStaysDeleted
<1>1. TypeOK /\ [Next]_vars
        => [\A i \in Ids : i < nextId /\ rows[i] = None => rows'[i] = None]_vars
  BY NoRevival
<1> QED BY <1>1, TypeCorrect, PTL DEF Spec, DeletedStaysDeleted
=============================================================================
