----------------------- MODULE ServiceRecovery_proofs -----------------------
(***************************************************************************)
(* No config is lost and every archived service can be restored, for any   *)
(* number of requests in flight on distinct services, any requests, and    *)
(* any number of failed, half-done or unacknowledged calls and crashes.    *)
(***************************************************************************)
EXTENDS ServiceLifecycle_proofs

-----------------------------------------------------------------------------
(***************************************************************************)
(* The inductive invariant.                                                *)
(***************************************************************************)

\* The calls a handler has behind it.
Past(h, s) == \E k \in 1..Len(Flow[job[h].op]) : k < job[h].pc /\ Flow[job[h].op][k] = s

Undone(h) == job[h].op \in {"undoCreate", "undoUpdate"}

\* Config c is in a backup of path p.
Backed(p, c) == c \in ({bak[p]} \ {None}) \cup shelf[p]

\* The row a handler works on is as the handler loaded it, until it drops it.
Held(h) == job[h].op \in OfRow /\ ~Past(h, "dropRow") =>
             /\ rows[job[h].id] # None
             /\ rows[job[h].id].path = job[h].row.path
             /\ rows[job[h].id].baseline = job[h].row.baseline

Gone(h) == Past(h, "dropRow") => \A i \in Live : rows[i].path # job[h].row.path

\* A create has no row; who updates or archives has one that is not archived.
Rowless(h) == job[h].op \in {"create", "undoCreate"} => job[h].id = 0
Open(h)    == job[h].op \in {"update", "archive"} => ~rows[job[h].id].archived

\* What checkRows found stays so: no other row has the target's path or name.
Free(h) == Past(h, "checkRows") \/ Undone(h) =>
             \A i \in Live \ {job[h].id} : /\ rows[i].path # job[h].want.path
                                           /\ rows[i].baseline.name # job[h].want.conf.name

\* Before the .ini is touched a backup holds what the row records, and what was
\* written is in place when the row is.
Copied(h) == /\ Past(h, "backup") \/ job[h].op \in {"restore", "undoUpdate"} =>
                  Backed(job[h].row.path, job[h].row.baseline)
             /\ Past(h, "backup") => bak[job[h].row.path] # None

InPlace(h) == Past(h, "write") => ini[job[h].want.path] = job[h].want.conf

Secured(h) == /\ Held(h) /\ Gone(h) /\ Rowless(h) /\ Open(h) /\ Free(h)
              /\ Copied(h) /\ InPlace(h)

Unused      == \A i \in Ids : i >= nextId => rows[i] = None
NamesUnique == \A i, k \in Live : i # k => rows[i].baseline.name # rows[k].baseline.name
AllApart    == \A g, h \in Handlers : g # h /\ Busy(g) /\ Busy(h) => Apart(job[g], job[h])

\* Both promises for one row.
Sheltered(i) == /\ rows[i].baseline \in ConfigsAt(rows[i].path)
                /\ rows[i].archived => /\ Backed(rows[i].path, rows[i].baseline)
                                       /\ bak[rows[i].path] # None

Table == Unused /\ NamesUnique /\ \A i \in Live : Sheltered(i)

Safe == Table /\ AllApart /\ \A h \in Handlers : Busy(h) => Secured(h)

-----------------------------------------------------------------------------
(***************************************************************************)
(* Which operations make a call, and what they have behind them then.      *)
(***************************************************************************)
Callers(s) ==
  CASE s \in {"checkRows", "checkTarget", "checkPort", "write"} -> {"create", "update"}
    [] s = "read"                    -> {"update"}
    [] s = "stop"                    -> {"update", "archive", "stop"}
    [] s \in {"backup", "rmOld"}     -> {"update", "archive"}
    [] s = "copyBack"                -> {"restore", "undoUpdate"}
    [] s = "rmTarget"                -> {"undoCreate", "undoUpdate"}
    [] s \in {"dropRow", "rmBackup", "rmFile"} -> {"delete"}
    [] s = "apply"                   -> OfTarget \cup {"archive", "restore", "delete"}
    [] s = "status"                  -> RuntimeOps \cup {"update", "restore", "sync"}
    [] s \in {"recheckRows", "insert"} -> {"create"}
    [] s = "save"                    -> {"update"}
    [] s = "markArchived"            -> {"archive"}
    [] s = "markRestored"            -> {"restore"}
    [] s = "start"                   -> {"start", "restart"}
    [] s = "saveStatus"              -> RuntimeOps \cup {"refresh"}
    [] s = "statusAll"               -> {"refresh"}
    [] s \in {"readCurrent", "readBackup", "saveSync"} -> {"sync"}
    [] OTHER                         -> {}

LEMMA CallersAre ==
  ASSUME NEW op \in Ops, NEW k \in 1..Len(Flow[op])
  PROVE  op \in Callers(Flow[op][k])
<1>1. \A n \in 1..Len(CreateSteps) : "create" \in Callers(CreateSteps[n])
  BY OpsAre DEF CreateSteps, Callers, OfTarget, RuntimeOps
<1>2. \A n \in 1..Len(UpdateSteps) : "update" \in Callers(UpdateSteps[n])
  BY OpsAre DEF UpdateSteps, Callers, OfTarget, RuntimeOps
<1>3. \A n \in 1..Len(ArchiveSteps) : "archive" \in Callers(ArchiveSteps[n])
  BY OpsAre DEF ArchiveSteps, Callers, OfTarget, RuntimeOps
<1>4. \A n \in 1..Len(RestoreSteps) : "restore" \in Callers(RestoreSteps[n])
  BY OpsAre DEF RestoreSteps, Callers, OfTarget, RuntimeOps
<1>5. \A n \in 1..Len(DeleteSteps) : "delete" \in Callers(DeleteSteps[n])
  BY OpsAre DEF DeleteSteps, Callers, OfTarget, RuntimeOps
<1>6. \A n \in 1..Len(UndoCreateSteps) : "undoCreate" \in Callers(UndoCreateSteps[n])
  BY OpsAre DEF UndoCreateSteps, Callers, OfTarget, RuntimeOps
<1>7. \A n \in 1..Len(UndoUpdateSteps) : "undoUpdate" \in Callers(UndoUpdateSteps[n])
  BY OpsAre DEF UndoUpdateSteps, Callers, OfTarget, RuntimeOps
<1>8. \A o \in {"start", "restart"} : \A n \in 1..Len(StartSteps) : o \in Callers(StartSteps[n])
  BY OpsAre DEF StartSteps, Callers, RuntimeOps
<1>9. \A n \in 1..Len(StopSteps) : "stop" \in Callers(StopSteps[n])
  BY OpsAre DEF StopSteps, Callers, RuntimeOps
<1>10. \A n \in 1..Len(SyncSteps) : "sync" \in Callers(SyncSteps[n])
  BY OpsAre DEF SyncSteps, Callers, RuntimeOps
<1>11. \A n \in 1..Len(RefreshSteps) : "refresh" \in Callers(RefreshSteps[n])
  BY OpsAre DEF RefreshSteps, Callers, RuntimeOps
<1> HIDE DEF Callers
<1>12. CASE op \in {"create", "update", "archive"}
  BY <1>1, <1>2, <1>3, <1>12 DEF Flow
<1>13. CASE op \in {"restore", "delete", "undoCreate", "undoUpdate"}
  BY <1>4, <1>5, <1>6, <1>7, <1>13 DEF Flow
<1>14. CASE op \in {"start", "restart", "stop", "sync", "refresh"}
  BY <1>8, <1>9, <1>10, <1>11, <1>14 DEF Flow
<1> QED BY <1>12, <1>13, <1>14, OpsAre

\* The same for the handlers.
LEMMA CallsOf ==
  ASSUME TypeOK, NEW h \in Handlers, NEW s, At(h, s) \/ (Busy(h) /\ Past(h, s))
  PROVE  job[h].op \in Callers(s)
<1>1. Busy(h) /\ job[h].op \in Ops /\ job[h] \in Job
  BY DEF At, Busy, TypeOK
<1>2. PICK k \in 1..Len(Flow[job[h].op]) : Flow[job[h].op][k] = s
  BY <1>1 DEF At, Past, Job
<1> QED BY <1>1, <1>2, CallersAre

\* What a call has behind it, and which calls are the last of their operation.
Behind(s) ==
  CASE s \in {"rmBackup", "rmFile"} -> {"dropRow"}
    [] s \in {"recheckRows", "write"} -> {"checkRows", "checkPort"}
    [] s = "insert" -> {"checkRows", "checkPort", "write"}
    [] s \in {"rmOld", "markArchived"} -> {"backup"}
    [] s = "save" -> {"checkRows", "checkPort", "backup", "write"}
    [] OTHER -> {}

LEMMA OrderOfCalls ==
  ASSUME TypeOK, NEW h \in Handlers, NEW s, At(h, s)
  PROVE  /\ \A t \in Behind(s) : Past(h, t)
         /\ s = "write" /\ job[h].op = "update" => Past(h, "backup")
         /\ s \in {"insert", "save", "markArchived", "markRestored"}
              => After(job[h]) = Idle
<1> DEFINE op == job[h].op
           k  == job[h].pc
<1>1. op \in Ops /\ k \in 1..Len(Flow[op]) /\ Flow[op][k] = s
  BY DEF At, Busy, TypeOK, Job
<1>2. op \in Callers(s)
  BY CallsOf
<1>3. CASE op = "create"
  <2>1. Flow[op] = CreateSteps
    BY <1>3 DEF Flow
  <2>2. /\ CreateSteps[1] = "checkRows" /\ CreateSteps[3] = "checkPort" /\ CreateSteps[4] = "write" /\ Len(CreateSteps) = 7
        /\ s = "write" => k = 4
        /\ s = "recheckRows" => k = 6
        /\ s = "insert" => k = 7
    BY <1>1, <2>1 DEF CreateSteps
  <2>3. s \notin {"rmBackup", "rmFile", "rmOld", "markArchived", "save", "markRestored"}
    BY <1>2, <1>3 DEF Callers
  <2> QED BY <1>1, <1>3, <2>1, <2>2, <2>3 DEF Past, Behind, After
<1>4. CASE op = "update"
  <2>1. Flow[op] = UpdateSteps
    BY <1>4 DEF Flow
  <2>2. /\ UpdateSteps[2] = "checkRows" /\ UpdateSteps[4] = "checkPort" /\ UpdateSteps[6] = "backup"
        /\ UpdateSteps[7] = "write" /\ Len(UpdateSteps) = 11
        /\ s = "write" => k = 7
        /\ s = "rmOld" => k = 8
        /\ s = "save" => k = 11
    BY <1>1, <2>1 DEF UpdateSteps
  <2>3. s \notin {"rmBackup", "rmFile", "recheckRows", "insert", "markArchived", "markRestored"}
    BY <1>2, <1>4 DEF Callers
  <2> QED BY <1>1, <1>4, <2>1, <2>2, <2>3 DEF Past, Behind, After
<1>5. CASE op = "archive"
  <2>1. Flow[op] = ArchiveSteps
    BY <1>5 DEF Flow
  <2>2. /\ ArchiveSteps[2] = "backup" /\ Len(ArchiveSteps) = 5
        /\ s = "rmOld" => k = 3
        /\ s = "markArchived" => k = 5
    BY <1>1, <2>1 DEF ArchiveSteps
  <2>3. s \notin {"rmBackup", "rmFile", "recheckRows", "insert", "write", "save", "markRestored"}
    BY <1>2, <1>5 DEF Callers
  <2> QED BY <1>1, <1>5, <2>1, <2>2, <2>3 DEF Past, Behind, After
<1>6. CASE op = "delete"
  <2>1. Flow[op] = DeleteSteps
    BY <1>6 DEF Flow
  <2>2. /\ DeleteSteps[1] = "dropRow" /\ Len(DeleteSteps) = 4
        /\ s = "rmBackup" => k = 2
        /\ s = "rmFile" => k = 3
    BY <1>1, <2>1 DEF DeleteSteps
  <2>3. s \notin {"recheckRows", "insert", "write", "save", "rmOld", "markArchived",
                  "markRestored"}
    BY <1>2, <1>6 DEF Callers
  <2> QED BY <1>1, <1>6, <2>1, <2>2, <2>3 DEF Past, Behind
<1>7. CASE op = "restore"
  <2>1. Flow[op] = RestoreSteps
    BY <1>7 DEF Flow
  <2>2. Len(RestoreSteps) = 4 /\ (s = "markRestored" => k = 4)
    BY <1>1, <2>1 DEF RestoreSteps
  <2>3. s \notin {"recheckRows", "insert", "write", "save", "rmOld", "markArchived",
                  "rmBackup", "rmFile"}
    BY <1>2, <1>7 DEF Callers
  <2> QED BY <1>1, <1>7, <2>1, <2>2, <2>3 DEF Past, Behind, After
<1>8. CASE op \notin {"create", "update", "archive", "delete", "restore"}
  <2>1. s \notin {"recheckRows", "insert", "write", "save", "rmOld", "markArchived",
                  "rmBackup", "rmFile", "markRestored"}
    BY <1>2, <1>8 DEF Callers
  <2> QED BY <2>1 DEF Behind
<1> QED BY <1>3, <1>4, <1>5, <1>6, <1>7, <1>8

-----------------------------------------------------------------------------
(***************************************************************************)
(* Where a call leaves its handler.                                        *)
(***************************************************************************)
SameJob(h) == /\ job'[h].op = job[h].op /\ job'[h].id = job[h].id
              /\ job'[h].row = job[h].row /\ job'[h].want = job[h].want

Onward(h)  == SameJob(h) /\ job'[h].pc = job[h].pc + 1
Pauses(h)  == SameJob(h) /\ job'[h].pc = job[h].pc /\ At(h, "saveStatus")
Undoes(h)  == /\ job'[h] = Undo(job[h])
              /\ At(h, "recheckRows") \/ At(h, "insert") \/ At(h, "save")
Others(h)  == \A g \in Handlers \ {h} : job'[g] = job[g]

\* A call that raised ends the request, is compensated, or is passed over.
Falls(h) == \/ job'[h] = Idle
            \/ Onward(h) /\ (At(h, "rmBackup") \/ At(h, "apply"))
            \/ Undoes(h)

LEMMA AfterLeads ==
  ASSUME TypeOK, NEW h \in Handlers, Busy(h), NEW k \in Job,
         k.op = job[h].op, k.pc = job[h].pc, k.id = job[h].id, k.row = job[h].row,
         k.want = job[h].want, job'[h] = After(k)
  PROVE  job'[h] = Idle \/ Onward(h)
<1>1. CASE k.pc = Len(Flow[k.op])
  BY <1>1 DEF After
<1>2. CASE k.pc # Len(Flow[k.op])
  <2>1. job'[h] = [k EXCEPT !.pc = k.pc + 1]
    BY <1>2 DEF After, Job, Locals
  <2> QED BY <2>1 DEF Onward, SameJob, Job, Locals
<1> QED BY <1>1, <1>2

LEMMA FailedLeads ==
  ASSUME TypeOK, NEW h \in Handlers, Busy(h), job'[h] = Failed(job[h])
  PROVE  Falls(h)
<1> DEFINE j == job[h]
           s == Flow[job[h].op][job[h].pc]
<1>1. \/ j.op = "create" /\ s \in {"recheckRows", "insert"} /\ Failed(j) = Undo(j)
      \/ j.op = "update" /\ s = "save" /\ Failed(j) = Undo(j)
      \/ j.op = "delete" /\ s \in {"rmBackup", "apply"} /\ Failed(j) = After(j)
      \/ Failed(j) = Idle
  BY DEF Failed
<1>2. CASE Failed(j) = Undo(j) /\ s \in {"recheckRows", "insert", "save"}
  BY <1>2 DEF Falls, Undoes, At
<1>3. CASE s \in {"rmBackup", "apply"} /\ Failed(j) = After(j)
  <2>1. job[h] \in Job
    BY DEF TypeOK
  <2>2. job'[h] = Idle \/ Onward(h)
    BY <1>3, <2>1, AfterLeads
  <2> QED BY <1>3, <2>2 DEF Falls, At
<1> QED BY <1>1, <1>2, <1>3 DEF Falls

LEMMA CallLeads ==
  ASSUME TypeOK, NEW h \in Handlers, Busy(h)
  PROVE  /\ Proceed(h)  => Others(h) /\ (job'[h] = Idle \/ Onward(h))
         /\ Refuse(h)   => Others(h) /\ Falls(h)
         /\ Reported(h) => Others(h) /\ (Onward(h) \/ Falls(h))
         /\ job' = [job EXCEPT ![h] = Failed(@)] => Others(h) /\ Falls(h)
<1>1. job[h] \in Job /\ job \in [Handlers -> Job]
  BY DEF TypeOK
<1>2. job' = [job EXCEPT ![h] = After(@)] => Others(h) /\ (job'[h] = Idle \/ Onward(h))
  <2> SUFFICES ASSUME job' = [job EXCEPT ![h] = After(job[h])]
               PROVE  Others(h) /\ (job'[h] = Idle \/ Onward(h))
    OBVIOUS
  <2>1. Others(h) /\ job'[h] = After(job[h])
    BY <1>1 DEF Others
  <2> QED BY <1>1, <2>1, AfterLeads
<1>3. job' = [job EXCEPT ![h] = Failed(@)] => Others(h) /\ Falls(h)
  <2> SUFFICES ASSUME job' = [job EXCEPT ![h] = Failed(job[h])] PROVE Others(h) /\ Falls(h)
    OBVIOUS
  <2>1. Others(h) /\ job'[h] = Failed(job[h])
    BY <1>1 DEF Others
  <2> QED BY <2>1, FailedLeads
<1> QED BY <1>2, <1>3 DEF Proceed, Refuse, Reported, Falls

\* The reads of the host go on, with what they saw.
LEMMA ObserveLeads ==
  ASSUME TypeOK, NEW h \in Handlers, Observe(h)
  PROVE  Others(h) /\ (job'[h] = Idle \/ Onward(h))
<1> DEFINE j == job[h]
<1>1. Busy(h) /\ j \in Job /\ job \in [Handlers -> Job]
  BY DEF Observe, Status, StatusAll, ReadCurrent, ReadBackup, At, TypeOK
<1>2. ASSUME NEW E, NEW b, NEW f,
             NEW k \in {j, [j EXCEPT !.file = f], [j EXCEPT !.seen = E, !.hasBak = b]},
             job' = [job EXCEPT ![h] = After(k)]
      PROVE  Others(h) /\ (job'[h] = Idle \/ Onward(h))
  <2>1. /\ k.op = j.op /\ k.pc = j.pc /\ k.id = j.id /\ k.row = j.row /\ k.want = j.want
        /\ [k EXCEPT !.pc = k.pc + 1].op = j.op /\ [k EXCEPT !.pc = k.pc + 1].pc = j.pc + 1
        /\ [k EXCEPT !.pc = k.pc + 1].id = j.id /\ [k EXCEPT !.pc = k.pc + 1].row = j.row
        /\ [k EXCEPT !.pc = k.pc + 1].want = j.want
    BY <1>1, <1>2 DEF Job, Locals
  <2>2. Others(h) /\ job'[h] = After(k)
    BY <1>1, <1>2 DEF Others
  <2> QED BY <2>1, <2>2 DEF After, Onward, SameJob
<1>3. CASE Status(h) \/ StatusAll(h)
  <2>1. (\E E : See(h, E, FALSE)) \/ (At(h, "statusAll") /\ Refuse(h))
    BY <1>3 DEF Status, StatusAll
  <2>2. CASE \E E : See(h, E, FALSE)
    <3>1. PICK E : See(h, E, FALSE)
      BY <2>2
    <3> QED BY <1>2, <3>1 DEF See
  <2>3. CASE At(h, "statusAll") /\ Refuse(h)
    <3>1. Failed(j) = Idle
      BY <2>3 DEF At, Failed
    <3> QED BY <1>1, <2>3, <3>1 DEF Refuse, Others
  <2> QED BY <2>1, <2>2, <2>3
<1>4. CASE ReadCurrent(h)
  BY <1>2, <1>4 DEF ReadCurrent
<1>5. CASE ReadBackup(h)
  <2>1. PICK b : See(h, j.seen, b)
    BY <1>5 DEF ReadBackup
  <2> QED BY <1>2, <2>1 DEF See
<1> QED BY <1>3, <1>4, <1>5 DEF Observe

LEMMA SaveStatusLeads ==
  ASSUME TypeOK, NEW h \in Handlers, SaveStatus(h)
  PROVE  Others(h) /\ (job'[h] = Idle \/ Onward(h) \/ Pauses(h))
<1> DEFINE j == job[h]
<1>1. Busy(h) /\ j \in Job /\ job \in [Handlers -> Job] /\ At(h, "saveStatus")
  BY DEF SaveStatus, At, TypeOK
<1>2. CASE j.seen = {}
  BY <1>1, <1>2, CallLeads DEF SaveStatus
<1>3. CASE j.seen # {}
  <2>1. PICK e \in j.seen :
          job' = [job EXCEPT ![h] = IF j.seen = {e} THEN After(j)
                                    ELSE [j EXCEPT !.seen = j.seen \ {e}]]
    BY <1>3 DEF SaveStatus
  <2>2. CASE j.seen = {e}
    <3>1. Others(h) /\ job'[h] = After(j)
      BY <1>1, <2>1, <2>2 DEF Others
    <3> QED BY <1>1, <3>1, AfterLeads
  <2>3. CASE j.seen # {e}
    <3>1. Others(h) /\ job'[h] = [j EXCEPT !.seen = j.seen \ {e}]
      BY <1>1, <2>1, <2>3 DEF Others
    <3> QED BY <1>1, <3>1 DEF Pauses, SameJob, Job, Locals
  <2> QED BY <2>2, <2>3
<1> QED BY <1>2, <1>3

\* What a handler has behind it grows by the call it made.
LEMMA PastGrows ==
  ASSUME TypeOK, NEW h \in Handlers, Busy(h)
  PROVE  /\ Onward(h) => Busy(h)' /\ \A s : Past(h, s)' <=> (Past(h, s) \/ At(h, s))
         /\ Pauses(h) => Busy(h)' /\ \A s : Past(h, s)' <=> Past(h, s)
         /\ Undoes(h) => Busy(h)' /\ \A s : ~Past(h, s)'
<1>1. job[h] \in Job /\ job[h].pc \in 1..Len(Flow[job[h].op]) /\ job[h].op \in Ops
  BY DEF TypeOK, Busy, Job
<1>2. ASSUME Onward(h) PROVE Busy(h)' /\ \A s : Past(h, s)' <=> (Past(h, s) \/ At(h, s))
  BY <1>1, <1>2, StepsAre DEF Onward, SameJob, Past, At, Busy
<1>3. ASSUME Pauses(h) PROVE Busy(h)' /\ \A s : Past(h, s)' <=> Past(h, s)
  BY <1>1, <1>3 DEF Pauses, SameJob, Past, Busy
<1>4. ASSUME Undoes(h) PROVE Busy(h)' /\ \A s : ~Past(h, s)'
  <2>1. job'[h].op \in {"undoCreate", "undoUpdate"} /\ job'[h].pc = 1
    BY <1>1, <1>4 DEF Undoes, Undo, Job, Locals
  <2> QED BY <2>1, OpsAre DEF Past, Busy
<1> QED BY <1>2, <1>3, <1>4

\* An undo keeps what its operation held.
LEMMA UndoKeeps ==
  ASSUME TypeOK, NEW h \in Handlers, Busy(h), Undoes(h)
  PROVE  /\ job'[h].id = job[h].id /\ job'[h].row = job[h].row /\ job'[h].want = job[h].want
         /\ \/ job[h].op = "create" /\ job'[h].op = "undoCreate"
            \/ job[h].op = "update" /\ job'[h].op = "undoUpdate"
<1>1. job[h] \in Job
  BY DEF TypeOK
<1>2. job[h].op \in {"create", "update"}
  BY CallsOf DEF Undoes, Callers
<1> QED BY <1>1, <1>2 DEF Undoes, Undo, Job, Locals

-----------------------------------------------------------------------------
(***************************************************************************)
(* What one handler does leaves the others' services alone.                *)
(***************************************************************************)

\* Files and rows change at what the handler claims; a row that appears or
\* moves comes under a path and a name it claims.
Frame(h) ==
  /\ Others(h)
  /\ \A p \in Paths \ Claims(job[h]) :
       ini'[p] = ini[p] /\ bak'[p] = bak[p] /\ shelf'[p] = shelf[p]
  /\ \A i \in Ids : rows[i] # None /\ rows[i].path \notin Claims(job[h]) =>
       /\ rows'[i] # None /\ rows'[i].path = rows[i].path
       /\ rows'[i].baseline = rows[i].baseline
       /\ rows'[i].archived => rows[i].archived
  /\ \A i \in Ids : rows'[i] # None =>
       \/ /\ rows[i] # None /\ rows'[i].path = rows[i].path
          /\ rows'[i].baseline = rows[i].baseline
       \/ /\ rows'[i].path \in Claims(job[h])
          /\ rows'[i].baseline.name \in Claims(job[h])

\* Rows keep path and baseline, and none is archived.
RowsCalm ==
  \A i \in Ids : /\ rows'[i] # None <=> rows[i] # None
                 /\ rows[i] # None => /\ rows'[i].path = rows[i].path
                                      /\ rows'[i].baseline = rows[i].baseline
                                      /\ rows'[i].archived => rows[i].archived

\* What a handler claims.
LEMMA ClaimsOf ==
  ASSUME TypeOK, NEW h \in Handlers, Busy(h)
  PROVE  /\ job[h].op \in OfRow => /\ job[h].row \in Row /\ job[h].id \in Ids
                                   /\ job[h].row.path \in Claims(job[h])
                                   /\ job[h].row.baseline.name \in Claims(job[h])
         /\ job[h].op \in OfTarget => /\ job[h].want \in Target
                                      /\ job[h].want.path \in Claims(job[h])
                                      /\ job[h].want.conf.name \in Claims(job[h])
<1>1. job[h] \in Job /\ job[h].op \in Ops
  BY DEF TypeOK, Busy
<1> QED BY <1>1 DEF Job, Locals, Claims

\* Where rows and targets are held.
LEMMA Holders ==
  /\ {"update", "undoUpdate", "archive", "restore", "delete"} \subseteq OfRow
  /\ {"create", "undoCreate", "update", "undoUpdate"} = OfTarget
BY OpsAre DEF OfRow, OfTarget

LEMMA OthersSecured ==
  ASSUME TypeOK, Safe, NEW h \in Handlers, NEW g \in Handlers \ {h},
         Busy(h), Busy(g), Frame(h)
  PROVE  Secured(g)'
<1> DEFINE j == job[g]
<1>1. /\ job'[g] = job[g] /\ Secured(g)
      /\ \A x \in Claims(job[g]) : x \notin Claims(job[h])
  BY DEF Frame, Others, Safe, AllApart, Apart
<1>2. \A s : Past(g, s)' <=> Past(g, s)
  BY <1>1 DEF Past
<1>3. /\ Past(g, "dropRow") => j.op = "delete"
      /\ Past(g, "checkRows") => j.op \in {"create", "update"}
      /\ Past(g, "backup") => j.op \in {"update", "archive"}
      /\ Past(g, "write") => j.op \in {"create", "update"}
  BY CallsOf DEF Callers
<1>4. Held(g)'
  BY <1>1, <1>2, ClaimsOf DEF Held, Secured, Frame
<1>5. Gone(g)'
  <2> SUFFICES ASSUME Past(g, "dropRow"), NEW i \in Ids, rows'[i] # None
               PROVE  rows'[i].path # j.row.path
    BY <1>1, <1>2 DEF Gone, Live
  <2>1. j.row.path \in Claims(j)
    BY <1>3, ClaimsOf, Holders
  <2> QED BY <1>1, <2>1 DEF Frame, Gone, Secured, Live
<1>6. Rowless(g)'
  BY <1>1 DEF Rowless, Secured
<1>7. Open(g)'
  <2> SUFFICES ASSUME j.op \in {"update", "archive"} PROVE ~rows'[j.id].archived
    BY <1>1 DEF Open
  <2>1. j.row.path \in Claims(j) /\ j.id \in Ids /\ j.op \in OfRow /\ ~Past(g, "dropRow")
    BY <1>3, ClaimsOf, Holders
  <2> QED BY <1>1, <2>1 DEF Frame, Open, Held, Secured
<1>8. Free(g)'
  <2> SUFFICES ASSUME Past(g, "checkRows") \/ Undone(g),
                      NEW i \in Ids, i # j.id, rows'[i] # None
               PROVE  rows'[i].path # j.want.path /\ rows'[i].baseline.name # j.want.conf.name
    BY <1>1, <1>2 DEF Free, Live, Undone
  <2>1. j.want.path \in Claims(j) /\ j.want.conf.name \in Claims(j)
    BY <1>3, ClaimsOf, Holders DEF Undone
  <2> QED BY <1>1, <2>1 DEF Frame, Free, Secured, Live
<1>9. Copied(g)'
  <2> SUFFICES ASSUME Past(g, "backup") \/ j.op \in {"restore", "undoUpdate"}
               PROVE  /\ Backed(j.row.path, j.row.baseline)'
                      /\ Past(g, "backup") => bak'[j.row.path] # None
    BY <1>1, <1>2 DEF Copied, Backed
  <2>1. j.row.path \in Claims(j) /\ j.row.path \in Paths
    BY <1>3, ClaimsOf, Holders DEF Row
  <2> QED BY <1>1, <2>1 DEF Frame, Copied, Secured, Backed
<1>10. InPlace(g)'
  <2> SUFFICES ASSUME Past(g, "write") PROVE ini'[j.want.path] = j.want.conf
    BY <1>1, <1>2 DEF InPlace
  <2>1. j.want.path \in Claims(j) /\ j.want.path \in Paths
    BY <1>3, ClaimsOf, Holders DEF Target
  <2> QED BY <1>1, <2>1 DEF Frame, InPlace, Secured
<1> QED BY <1>4, <1>5, <1>6, <1>7, <1>8, <1>9, <1>10 DEF Secured

\* So it is enough to look at the rows under the paths a handler claims, and
\* at the handler itself.
LEMMA SafeBy ==
  ASSUME TypeOK, Safe, NEW h \in Handlers, Busy(h), Frame(h), Unused', NamesUnique',
         \A i \in Ids : rows'[i] # None /\ rows'[i].path \in Claims(job[h]) => Sheltered(i)',
         \/ job'[h] = Idle
         \/ job'[h].row = job[h].row /\ job'[h].want = job[h].want /\ Secured(h)'
  PROVE  Safe'
<1>1. ASSUME NEW i \in Ids, rows'[i] # None, rows'[i].path \notin Claims(job[h])
      PROVE  Sheltered(i)'
  <2>1. /\ rows[i] # None /\ rows'[i].path = rows[i].path
        /\ rows'[i].baseline = rows[i].baseline /\ (rows'[i].archived => rows[i].archived)
        /\ rows[i].path \in Paths
    BY <1>1 DEF Frame, TypeOK, Row
  <2> DEFINE p == rows[i].path
  <2>2. ini'[p] = ini[p] /\ bak'[p] = bak[p] /\ shelf'[p] = shelf[p]
    BY <1>1, <2>1 DEF Frame
  <2>3. Sheltered(i)
    BY <2>1 DEF Safe, Table, Live
  <2> QED BY <2>1, <2>2, <2>3 DEF Sheltered, ConfigsAt, Backed
<1>2. Table'
  BY <1>1 DEF Table, Live
<1>3. AllApart'
  <2>1. \A g \in Handlers : Busy(g)' => Busy(g) /\ Claims(job'[g]) = Claims(job[g])
    <3>1. ASSUME NEW g \in Handlers \ {h} PROVE job'[g] = job[g]
      BY DEF Frame, Others
    <3>2. Busy(h)' => Claims(job'[h]) = Claims(job[h])
      BY IdleType DEF Busy, Claims
    <3> QED BY <3>1, <3>2 DEF Busy
  <2>2. \A g, k \in Handlers : g # k /\ Busy(g) /\ Busy(k) => Claims(job[g]) \cap Claims(job[k]) = {}
    BY DEF AllApart, Apart, Safe
  <2> QED BY <2>1, <2>2 DEF AllApart, Apart
<1>4. ASSUME NEW g \in Handlers, Busy(g)' PROVE Secured(g)'
  BY <1>4, OthersSecured, IdleType DEF Frame, Others, Busy
<1> QED BY <1>2, <1>3, <1>4 DEF Safe

-----------------------------------------------------------------------------
(***************************************************************************)
(* What a handler secures for itself.                                      *)
(***************************************************************************)

\* The calls after which a handler relies on something new.
Marks == {"checkRows", "dropRow", "backup", "write"}

LEMMA PastKept ==
  ASSUME TypeOK, NEW h \in Handlers, NEW t, At(h, t), Onward(h) \/ Pauses(h)
  PROVE  /\ \A s \in Marks \ {t} : Past(h, s)' <=> Past(h, s)
         /\ Onward(h) => Past(h, t)'
<1>1. Busy(h) /\ \A s : At(h, s) => s = t
  BY DEF At
<1> QED BY <1>1, PastGrows

LEMMA OwnRows ==
  ASSUME TypeOK, NEW h \in Handlers, Busy(h), Secured(h), RowsCalm, SameJob(h),
         Past(h, "checkRows")' <=> Past(h, "checkRows"),
         Past(h, "dropRow")' <=> Past(h, "dropRow")
  PROVE  (Held(h) /\ Gone(h) /\ Rowless(h) /\ Open(h) /\ Free(h))'
<1> DEFINE j == job[h]
<1>1. Past(h, "dropRow") => j.op = "delete"
  BY CallsOf DEF Callers
<1>2. j.op \in OfRow => j.id \in Ids
  BY ClaimsOf
<1>3. Held(h)' /\ Rowless(h)'
  BY <1>2 DEF Held, Rowless, Secured, SameJob, RowsCalm
<1>4. Gone(h)'
  BY DEF Gone, Secured, SameJob, RowsCalm, Live
<1>5. Open(h)'
  BY <1>1, <1>2, Holders DEF Open, Held, Secured, SameJob, RowsCalm
<1>6. Free(h)'
  BY DEF Free, Undone, Secured, SameJob, RowsCalm, Live
<1> QED BY <1>3, <1>4, <1>5, <1>6

LEMMA OwnFiles ==
  ASSUME NEW h \in Handlers, Secured(h), SameJob(h), UNCHANGED <<bak, shelf>>,
         Past(h, "backup")' <=> Past(h, "backup"),
         Past(h, "write")' <=> Past(h, "write"),
         Past(h, "write") => ini'[job[h].want.path] = ini[job[h].want.path]
  PROVE  (Copied(h) /\ InPlace(h))'
BY DEF Copied, InPlace, Backed, Secured, SameJob

\* The compensation starts from what its operation had secured.
LEMMA UndoSecured ==
  ASSUME TypeOK, NEW h \in Handlers, Busy(h), Secured(h), Undoes(h), RowsCalm, UNCHANGED files
  PROVE  /\ job'[h].row = job[h].row /\ job'[h].want = job[h].want
         /\ Secured(h)'
<1> DEFINE j == job[h]
<1>1. /\ job'[h].id = j.id /\ job'[h].row = j.row /\ job'[h].want = j.want
      /\ \/ j.op = "create" /\ job'[h].op = "undoCreate"
         \/ j.op = "update" /\ job'[h].op = "undoUpdate"
  BY UndoKeeps
<1>2. Past(h, "checkRows") /\ (j.op = "update" => Past(h, "backup"))
  <2>1. At(h, "save") => Past(h, "checkRows") /\ Past(h, "backup")
    BY OrderOfCalls DEF Behind
  <2>2. At(h, "insert") \/ At(h, "recheckRows") => Past(h, "checkRows") /\ j.op = "create"
    BY OrderOfCalls, CallsOf DEF Behind, Callers
  <2> QED BY <2>1, <2>2 DEF Undoes
<1>3. \A s : ~Past(h, s)'
  BY PastGrows
<1>4. Past(h, "dropRow") => j.op = "delete"
  BY CallsOf DEF Callers
<1>5. Held(h)'
  <2>1. j.op = "update" => j.op \in OfRow /\ j.id \in Ids
    BY ClaimsOf, Holders
  <2>2. "undoCreate" \notin OfRow
    BY DEF OfRow
  <2> QED BY <1>1, <1>4, <2>1, <2>2 DEF Held, Secured, RowsCalm
<1>6. Gone(h)' /\ InPlace(h)'
  BY <1>3 DEF Gone, InPlace
<1>7. Rowless(h)' /\ Open(h)'
  BY <1>1 DEF Rowless, Open, Secured
<1>8. Free(h)'
  BY <1>1, <1>2 DEF Free, Secured, RowsCalm, Live
<1>9. Copied(h)'
  BY <1>1, <1>2, <1>3 DEF Copied, Backed, Secured, files
<1> QED BY <1>1, <1>5, <1>6, <1>7, <1>8, <1>9 DEF Secured

-----------------------------------------------------------------------------
(***************************************************************************)
(* Steps that keep the rows as they are.                                   *)
(***************************************************************************)

\* A step that touches the files of one path at most.
LEMMA FileSafe ==
  ASSUME TypeOK, Safe, NEW h \in Handlers, Busy(h), Others(h), RowsCalm, nextId' = nextId,
         NEW p \in Claims(job[h]),
         \A q \in Paths \ {p} : ini'[q] = ini[q] /\ bak'[q] = bak[q] /\ shelf'[q] = shelf[q],
         \A i \in Live : rows[i].path = p => Sheltered(i)',
         \/ job'[h] = Idle
         \/ job'[h].row = job[h].row /\ job'[h].want = job[h].want /\ Secured(h)'
  PROVE  Safe'
<1>1. Frame(h)
  BY DEF Frame, RowsCalm
<1>2. Unused' /\ NamesUnique'
  BY DEF Unused, NamesUnique, RowsCalm, Live, Safe, Table
<1>3. ASSUME NEW i \in Ids, rows'[i] # None PROVE Sheltered(i)'
  <2>1. CASE rows[i].path = p
    BY <1>3, <2>1 DEF RowsCalm, Live
  <2>2. CASE rows[i].path # p
    <3>1. /\ rows[i] # None /\ rows'[i].path = rows[i].path /\ rows[i].path \in Paths \ {p}
          /\ rows'[i].baseline = rows[i].baseline /\ (rows'[i].archived => rows[i].archived)
      BY <1>3, <2>2 DEF RowsCalm, TypeOK, Row
    <3>2. Sheltered(i)
      BY <3>1 DEF Safe, Table, Live
    <3> QED BY <3>1, <3>2 DEF Sheltered, ConfigsAt, Backed
  <2> QED BY <2>1, <2>2
<1> QED BY <1>1, <1>2, <1>3, SafeBy

\* A step that touches no file.
LEMMA StillSafe ==
  ASSUME TypeOK, Safe, NEW h \in Handlers, Busy(h), Others(h), RowsCalm,
         UNCHANGED files, nextId' = nextId,
         \/ job'[h] = Idle
         \/ job'[h].row = job[h].row /\ job'[h].want = job[h].want /\ Secured(h)'
  PROVE  Safe'
<1>1. Frame(h)
  BY DEF Frame, RowsCalm, files
<1>2. Unused' /\ NamesUnique'
  BY DEF Unused, NamesUnique, RowsCalm, Live, Safe, Table
<1>3. ASSUME NEW i \in Ids, rows'[i] # None PROVE Sheltered(i)'
  <2>1. /\ rows[i] # None /\ rows'[i].path = rows[i].path
        /\ rows'[i].baseline = rows[i].baseline /\ (rows'[i].archived => rows[i].archived)
    BY <1>3 DEF RowsCalm
  <2>2. Sheltered(i)
    BY <2>1 DEF Safe, Table, Live
  <2> QED BY <2>1, <2>2 DEF Sheltered, ConfigsAt, Backed, files
<1> QED BY <1>1, <1>2, <1>3, SafeBy

LEMMA CalmSafe ==
  ASSUME TypeOK, Safe, NEW h \in Handlers, Busy(h), Others(h), RowsCalm,
         UNCHANGED files, nextId' = nextId,
         \/ Falls(h)
         \/ (Onward(h) \/ Pauses(h)) /\ \A s \in Marks : ~At(h, s)
  PROVE  Safe'
<1>1. Secured(h)
  BY DEF Safe
<1>2. CASE job'[h] = Idle
  BY <1>2, StillSafe
<1>3. CASE Undoes(h)
  BY <1>1, <1>3, UndoSecured, StillSafe
<1>4. CASE (Onward(h) \/ Pauses(h)) /\ \A s \in Marks : ~At(h, s)
  <2>1. SameJob(h) /\ \A s \in Marks : Past(h, s)' <=> Past(h, s)
    BY <1>4, PastGrows DEF Onward, Pauses
  <2>2. (Held(h) /\ Gone(h) /\ Rowless(h) /\ Open(h) /\ Free(h))'
    BY <1>1, <2>1, OwnRows DEF Marks
  <2>3. (Copied(h) /\ InPlace(h))'
    BY <1>1, <2>1, OwnFiles DEF Marks, files
  <2>4. Secured(h)'
    BY <2>2, <2>3 DEF Secured
  <2> QED BY <2>1, <2>4, StillSafe DEF SameJob
<1>5. Onward(h) /\ (At(h, "rmBackup") \/ At(h, "apply")) => \A s \in Marks : ~At(h, s)
  BY DEF At, Marks
<1> QED BY <1>2, <1>3, <1>4, <1>5 DEF Falls

\* A write by name that is not about where a config is.
LEMMA NamedCalm ==
  ASSUME TypeOK, NEW F,
         \A i \in Ids : rows[i] \in Row =>
           /\ F[i] \in Row /\ F[i].path = rows[i].path /\ F[i].baseline = rows[i].baseline
           /\ F[i].archived => rows[i].archived,
         NEW n, \A i \in Ids : rows'[i] = IF i \in Named(n) THEN F[i] ELSE rows[i]
  PROVE  RowsCalm
<1> SUFFICES ASSUME NEW i \in Ids
             PROVE  /\ rows'[i] # None <=> rows[i] # None
                    /\ rows[i] # None => /\ rows'[i].path = rows[i].path
                                         /\ rows'[i].baseline = rows[i].baseline
                                         /\ rows'[i].archived => rows[i].archived
  BY DEF RowsCalm
<1>1. rows[i] \in Row \/ rows[i] = None
  BY DEF TypeOK
<1> QED BY <1>1, NoneAssumption DEF Named, Live

LEMMA StatusCalm ==
  ASSUME TypeOK, NEW h \in Handlers, MarkRestored(h) \/ SaveStatus(h) \/ SaveSync(h)
  PROVE  RowsCalm
<1> DEFINE j == job[h]
<1>1. j \in Job /\ \A e \in j.seen : e[2] \in Statuses
  <2>1. j \in Job
    BY DEF TypeOK
  <2>2. j.seen \subseteq Names \X Statuses
    BY <2>1 DEF Job, Locals
  <2> QED BY <2>1, <2>2
<1>2. CASE MarkRestored(h)
  <2>1. PICK e \in j.seen :
          rows' = [i \in Ids |-> IF i \in Named(e[1])
                                THEN [rows[i] EXCEPT !.archived = FALSE, !.status = e[2]]
                                ELSE rows[i]]
    BY <1>2 DEF MarkRestored, UpdateNamed
  <2> DEFINE F == [i \in Ids |-> [rows[i] EXCEPT !.archived = FALSE, !.status = e[2]]]
  <2>2. \A i \in Ids : rows[i] \in Row =>
           /\ F[i] \in Row /\ F[i].path = rows[i].path /\ F[i].baseline = rows[i].baseline
           /\ F[i].archived => rows[i].archived
    BY <1>1 DEF Row
  <2>3. \A i \in Ids : rows'[i] = IF i \in Named(e[1]) THEN F[i] ELSE rows[i]
    BY <2>1
  <2> HIDE DEF F
  <2> QED BY <2>2, <2>3, NamedCalm
<1>3. CASE SaveStatus(h)
  <2>1. CASE j.seen = {}
    BY <1>3, <2>1 DEF SaveStatus, RowsCalm
  <2>2. CASE j.seen # {}
    <3>1. PICK e \in j.seen :
            rows' = [i \in Ids |-> IF i \in Named(e[1]) THEN [rows[i] EXCEPT !.status = e[2]]
                                                      ELSE rows[i]]
      BY <1>3, <2>2 DEF SaveStatus, UpdateNamed
    <3> DEFINE F == [i \in Ids |-> [rows[i] EXCEPT !.status = e[2]]]
    <3>2. \A i \in Ids : rows[i] \in Row =>
             /\ F[i] \in Row /\ F[i].path = rows[i].path /\ F[i].baseline = rows[i].baseline
             /\ F[i].archived => rows[i].archived
      BY <1>1 DEF Row
    <3>3. \A i \in Ids : rows'[i] = IF i \in Named(e[1]) THEN F[i] ELSE rows[i]
      BY <3>1
    <3> HIDE DEF F
    <3> QED BY <3>2, <3>3, NamedCalm
  <2> QED BY <2>1, <2>2
<1>4. CASE SaveSync(h)
  <2> DEFINE x == IF j.file = None THEN j.row.port ELSE j.file.port
  <2>1. x \in Ports /\ j.hasBak \in BOOLEAN
    <3>1. j.row \in Row
      BY <1>4, HeldRow DEF SaveSync, CallsOnRow
    <3> QED BY <3>1, <1>1 DEF Row, Config, Job, Locals
  <2>2. PICK e \in j.seen :
          rows' = [i \in Ids |-> IF i \in Named(e[1])
                                THEN [rows[i] EXCEPT !.status = e[2], !.hasBackup = j.hasBak,
                                                     !.port = x]
                                ELSE rows[i]]
    BY <1>4 DEF SaveSync, UpdateNamed
  <2> HIDE DEF x
  <2> DEFINE F == [i \in Ids |-> [rows[i] EXCEPT !.status = e[2], !.hasBackup = j.hasBak,
                                                 !.port = x]]
  <2>3. \A i \in Ids : rows[i] \in Row =>
           /\ F[i] \in Row /\ F[i].path = rows[i].path /\ F[i].baseline = rows[i].baseline
           /\ F[i].archived => rows[i].archived
    BY <1>1, <2>1 DEF Row
  <2>4. \A i \in Ids : rows'[i] = IF i \in Named(e[1]) THEN F[i] ELSE rows[i]
    BY <2>2
  <2> HIDE DEF F
  <2> QED BY <2>3, <2>4, NamedCalm
<1> QED BY <1>2, <1>3, <1>4

\* Checks, supervisorctl, reads, status writes and calls that fail: nothing
\* that a config depends on.
LEMMA CheckSafe ==
  ASSUME TypeOK, Safe, NEW h \in Handlers, Check(h), ~(CheckRows(h) /\ At(h, "checkRows"))
  PROVE  Safe'
<1>1. PICK t \in {"read", "recheckRows", "checkTarget", "checkPort"} :
        At(h, t) /\ (Proceed(h) \/ Refuse(h))
  BY DEF Check, ReadConfig, CheckRows, CheckTarget, CheckPort
<1>2. UNCHANGED <<db, files>>
  BY DEF Check, ReadConfig, CheckRows, CheckTarget, CheckPort
<1>3. Busy(h) /\ RowsCalm /\ nextId' = nextId /\ UNCHANGED files /\ \A s \in Marks : ~At(h, s)
  BY <1>1, <1>2 DEF At, RowsCalm, db, Marks
<1> QED BY <1>1, <1>3, CallLeads, CalmSafe DEF Falls

LEMMA ControlSafe ==
  ASSUME TypeOK, Safe, NEW h \in Handlers, Control(h)
  PROVE  Safe'
<1>1. PICK t \in {"apply", "stop", "start"} :
        At(h, t) /\ (Proceed(h) \/ Refuse(h) \/ Reported(h))
  BY DEF Control, Apply, Stop, Start
<1>2. UNCHANGED <<db, files>>
  BY DEF Control, Apply, Stop, Start
<1>3. Busy(h) /\ RowsCalm /\ nextId' = nextId /\ UNCHANGED files /\ \A s \in Marks : ~At(h, s)
  BY <1>1, <1>2 DEF At, RowsCalm, db, Marks
<1> QED BY <1>1, <1>3, CallLeads, CalmSafe DEF Falls

LEMMA ObserveSafe ==
  ASSUME TypeOK, Safe, NEW h \in Handlers, Observe(h)
  PROVE  Safe'
<1>1. PICK t \in {"status", "statusAll", "readCurrent", "readBackup"} : At(h, t)
  BY DEF Observe, Status, StatusAll, ReadCurrent, ReadBackup
<1>2. UNCHANGED <<db, files>>
  BY DEF Observe, Status, StatusAll, ReadCurrent, ReadBackup
<1>3. Busy(h) /\ RowsCalm /\ nextId' = nextId /\ UNCHANGED files /\ \A s \in Marks : ~At(h, s)
  BY <1>1, <1>2 DEF At, RowsCalm, db, Marks
<1> QED BY <1>3, ObserveLeads, CalmSafe DEF Falls

LEMMA StatusSafe ==
  ASSUME TypeOK, Safe, NEW h \in Handlers, MarkRestored(h) \/ SaveStatus(h) \/ SaveSync(h)
  PROVE  Safe'
<1>1. PICK t \in {"markRestored", "saveStatus", "saveSync"} : At(h, t)
  BY DEF MarkRestored, SaveStatus, SaveSync
<1>2. UNCHANGED files /\ nextId' = nextId
  BY DEF MarkRestored, SaveStatus, SaveSync, files
<1>3. Busy(h) /\ RowsCalm /\ \A s \in Marks : ~At(h, s)
  BY <1>1, StatusCalm DEF At, Marks
<1>4. Others(h) /\ (job'[h] = Idle \/ Onward(h) \/ Pauses(h))
  BY <1>3, CallLeads, SaveStatusLeads DEF MarkRestored, SaveSync
<1> QED BY <1>2, <1>3, <1>4, CalmSafe DEF Falls

LEMMA CallFailsSafe ==
  ASSUME TypeOK, Safe, NEW h \in Handlers, CallFails(h)
  PROVE  Safe'
<1>1. Busy(h) /\ UNCHANGED <<db, files>> /\ Others(h) /\ Falls(h)
  BY CallLeads DEF CallFails
<1>2. RowsCalm /\ nextId' = nextId /\ UNCHANGED files
  BY <1>1 DEF RowsCalm, db
<1> QED BY <1>1, <1>2, CalmSafe

\* No other row has the name or the path of a target that passed its check.
LEMMA CheckRowsSafe ==
  ASSUME TypeOK, Safe, NEW h \in Handlers, CheckRows(h), At(h, "checkRows")
  PROVE  Safe'
<1> DEFINE j == job[h]
<1>1. Busy(h) /\ RowsCalm /\ nextId' = nextId /\ UNCHANGED files
  BY DEF CheckRows, At, RowsCalm, db, files
<1>2. CASE Refuse(h)
  BY <1>1, <1>2, CallLeads, CalmSafe
<1>3. CASE NoConflictSeen(j.want, j.id) /\ Proceed(h)
  <2>1. Others(h) /\ (job'[h] = Idle \/ Onward(h))
    BY <1>1, <1>3, CallLeads
  <2>2. CASE job'[h] = Idle
    BY <1>1, <2>1, <2>2, StillSafe
  <2>3. CASE Onward(h)
    <3>1. /\ SameJob(h) /\ Secured(h)
          /\ \A s \in Marks \ {"checkRows"} : Past(h, s)' <=> Past(h, s)
      BY <1>1, <2>3, PastKept DEF Onward, Safe
    <3>2. j.op \in {"create", "update"}
      BY CallsOf DEF Callers
    <3>3. ~Past(h, "dropRow") /\ (j.op \in OfRow => j.id \in Ids)
      BY <1>1, <3>2, CallsOf, ClaimsOf DEF Callers
    <3>4. Held(h)' /\ Gone(h)' /\ Rowless(h)' /\ Open(h)'
      BY <3>1, <3>2, <3>3, Holders DEF Marks, Secured, SameJob, CheckRows, db,
             Held, Gone, Rowless, Open
    <3>5. Free(h)'
      <4> SUFFICES ASSUME NEW i \in Live, i # j.id
                   PROVE  /\ rows[i].path # j.want.path
                          /\ rows[i].baseline.name # j.want.conf.name
        BY <3>1 DEF Free, CheckRows, db, SameJob, Live
      <4>1. rows[i].path # j.want.path
        BY <1>3 DEF NoConflictSeen, PathTaken
      <4>2. \A k \in Live : k # i => rows[k].baseline.name # rows[i].baseline.name
        BY DEF Safe, Table, NamesUnique
      <4> QED BY <1>3, <4>1, <4>2 DEF NoConflictSeen, Named
    <3>6. (Copied(h) /\ InPlace(h))'
      BY <1>1, <3>1, OwnFiles DEF Marks, files
    <3>7. Secured(h)'
      BY <3>4, <3>5, <3>6 DEF Secured
    <3> QED BY <1>1, <2>1, <3>1, <3>7, StillSafe DEF SameJob
  <2> QED BY <2>1, <2>2, <2>3
<1> QED BY <1>2, <1>3 DEF CheckRows

-----------------------------------------------------------------------------
(***************************************************************************)
(* File commands.                                                          *)
(***************************************************************************)

\* The row at the path a handler loaded is the handler's, and as it loaded it.
LEMMA RowAtPath ==
  ASSUME TypeOK, PathsUnique, Safe, NEW h \in Handlers, Busy(h),
         job[h].op \in OfRow, ~Past(h, "dropRow"),
         NEW i \in Live, rows[i].path = job[h].row.path
  PROVE  i = job[h].id /\ rows[i].baseline = job[h].row.baseline
<1>1. /\ rows[job[h].id] # None /\ rows[job[h].id].path = job[h].row.path
      /\ rows[job[h].id].baseline = job[h].row.baseline /\ job[h].id \in Ids
  BY ClaimsOf DEF Safe, Secured, Held
<1> QED BY <1>1 DEF PathsUnique, Live

\* The rows are as they were.
LEMMA FileCalm ==
  ASSUME NEW h \in Handlers, FileCmd(h)
  PROVE  RowsCalm /\ nextId' = nextId /\ rows' = rows
BY DEF FileCmd, Write, Backup, CopyBack, RemoveOld, RemoveTarget, RemoveBackup, RemoveFile,
       db, RowsCalm

\* What a file command that is no backup and no write leaves its own handler.
LEMMA FileOwn ==
  ASSUME TypeOK, Safe, NEW h \in Handlers, NEW t, At(h, t), t \notin Marks,
         RowsCalm, UNCHANGED <<bak, shelf>> \/ job[h].op = "delete",
         job'[h] = Idle \/ Onward(h),
         Past(h, "write") => ini'[job[h].want.path] = ini[job[h].want.path]
  PROVE  \/ job'[h] = Idle
         \/ job'[h].row = job[h].row /\ job'[h].want = job[h].want /\ Secured(h)'
<1> SUFFICES ASSUME Onward(h) PROVE SameJob(h) /\ Secured(h)'
  BY DEF SameJob
<1>1. Busy(h) /\ Secured(h) /\ SameJob(h)
  BY DEF At, Safe, Onward
<1>2. \A s \in Marks : Past(h, s)' <=> Past(h, s)
  BY PastKept
<1>3. (Held(h) /\ Gone(h) /\ Rowless(h) /\ Open(h) /\ Free(h))'
  BY <1>1, <1>2, OwnRows DEF Marks
<1>4. (Copied(h) /\ InPlace(h))'
  <2>1. CASE UNCHANGED <<bak, shelf>>
    BY <1>1, <1>2, <2>1, OwnFiles DEF Marks
  <2>2. CASE job[h].op = "delete"
    <3>1. ~Past(h, "backup") /\ ~Past(h, "write")
      BY <1>1, <2>2, CallsOf DEF Callers
    <3> QED BY <1>1, <1>2, <2>2, <3>1 DEF Copied, InPlace, SameJob, Marks
  <2> QED BY <2>1, <2>2
<1> QED BY <1>1, <1>3, <1>4 DEF Secured

\* What is written over has a backup.
LEMMA WriteSafe ==
  ASSUME TypeOK, PathsUnique, Safe, NEW h \in Handlers, Write(h)
  PROVE  Safe'
<1> DEFINE j == job[h]
           p == j.want.path
<1>1. /\ At(h, "write") /\ Busy(h) /\ Secured(h) /\ UNCHANGED <<bak, shelf>>
      /\ ini' = [ini EXCEPT ![p] = j.want.conf]
  BY DEF Write, At, Safe
<1>2. j.op \in {"create", "update"} /\ Past(h, "checkRows")
      /\ (j.op = "update" => Past(h, "backup"))
  BY <1>1, CallsOf, OrderOfCalls DEF Callers, Behind
<1>3. j.want \in Target /\ p \in Claims(j) /\ p \in Paths
  BY <1>1, <1>2, ClaimsOf, Holders DEF Target
<1>4. RowsCalm /\ nextId' = nextId /\ rows' = rows
  BY FileCalm DEF FileCmd
<1>5. Others(h) /\ (job'[h] = Idle \/ Onward(h))
  <2>1. ~Undoes(h) /\ ~At(h, "rmBackup") /\ ~At(h, "apply")
    BY <1>1 DEF Undoes, At
  <2> QED BY <1>1, <2>1, CallLeads DEF Write, Falls
<1>6. ASSUME NEW i \in Live, rows[i].path = p PROVE Sheltered(i)'
  <2>1. i = j.id
    BY <1>1, <1>2, <1>6 DEF Secured, Free
  <2>2. j.op = "update" /\ ~Past(h, "dropRow")
    BY <1>1, <1>2, <2>1, CallsOf DEF Secured, Rowless, Live, Ids, Callers
  <2>3. /\ rows[i].path = j.row.path /\ rows[i].baseline = j.row.baseline
        /\ ~rows[i].archived
    BY <1>1, <2>1, <2>2, Holders DEF Secured, Held, Open
  <2>4. Backed(rows[i].path, rows[i].baseline)
    BY <1>1, <1>2, <2>2, <2>3 DEF Secured, Copied
  <2> QED BY <1>1, <1>4, <2>3, <2>4 DEF Sheltered, Backed, ConfigsAt
<1>7. ASSUME Onward(h) PROVE SameJob(h) /\ Secured(h)'
  <2>1. /\ SameJob(h) /\ \A s \in Marks \ {"write"} : Past(h, s)' <=> Past(h, s)
    BY <1>1, <1>7, PastKept DEF Onward
  <2>2. (Held(h) /\ Gone(h) /\ Rowless(h) /\ Open(h) /\ Free(h))'
    BY <1>1, <1>4, <2>1, OwnRows DEF Marks
  <2>3. Copied(h)'
    BY <1>1, <2>1 DEF Copied, Backed, Secured, SameJob, Marks
  <2>4. InPlace(h)'
    BY <1>1, <1>3, <2>1 DEF InPlace, SameJob, TypeOK
  <2> QED BY <2>1, <2>2, <2>3, <2>4 DEF Secured
<1>8. \A q \in Paths \ {p} : ini'[q] = ini[q] /\ bak'[q] = bak[q] /\ shelf'[q] = shelf[q]
  BY <1>1 DEF TypeOK
<1> QED BY <1>1, <1>3, <1>4, <1>5, <1>6, <1>7, <1>8, FileSafe DEF SameJob

\* A backup drops nothing, and copies what the .ini says.
LEMMA BackupSafe ==
  ASSUME TypeOK, PathsUnique, Safe, NEW h \in Handlers, Backup(h),
         NEW p, p = job[h].row.path
  PROVE  Safe'
<1> DEFINE j == job[h]
<1>1. At(h, "backup") /\ Busy(h) /\ Secured(h) /\ UNCHANGED ini
  BY DEF Backup, At, Safe
<1>2. j.op \in {"update", "archive"} /\ ~Past(h, "dropRow") /\ j.op \in OfRow
  BY <1>1, CallsOf, Holders DEF Callers
<1>3. j.row \in Row /\ p \in Claims(j) /\ p \in Paths
  BY <1>1, <1>2, ClaimsOf DEF Row
<1>4. RowsCalm /\ nextId' = nextId /\ rows' = rows
  BY FileCalm DEF FileCmd
<1>5. ~Undoes(h) /\ ~At(h, "rmBackup") /\ ~At(h, "apply")
  BY <1>1 DEF Undoes, At
<1>6. CASE ini[p] = None
  <2>1. UNCHANGED files /\ Refuse(h)
    BY <1>6 DEF Backup, files
  <2> QED BY <1>1, <1>4, <2>1, CallLeads, CalmSafe
<1>7. CASE ini[p] # None
  <2>1. shelf' = [shelf EXCEPT ![p] = shelf[p] \cup ({bak[p]} \ {None})]
    BY <1>7 DEF Backup
  <2>2. \/ /\ bak' = [bak EXCEPT ![p] = ini[p]]
           /\ Others(h) /\ (job'[h] = Idle \/ Onward(h))
        \/ /\ bak' = [bak EXCEPT ![p] = None]
           /\ Others(h) /\ job'[h] = Idle
    BY <1>1, <1>5, <1>7, CallLeads DEF Backup, Falls
  <2>3. ConfigsAt(p) \subseteq ConfigsAt(p)'
    BY <1>1, <1>3, <2>1, <2>2 DEF ConfigsAt, TypeOK
  <2>4. ASSUME NEW i \in Live, rows[i].path = p PROVE Sheltered(i)'
    <3>1. i = j.id /\ Sheltered(i)
      BY <1>1, <1>2, <2>4, RowAtPath DEF Safe, Table
    <3>2. ~rows[i].archived
      BY <1>1, <1>2, <3>1 DEF Secured, Open
    <3> QED BY <1>4, <2>3, <2>4, <3>1, <3>2 DEF Sheltered
  <2>5. ASSUME Onward(h) PROVE SameJob(h) /\ Secured(h)'
    <3>1. /\ SameJob(h) /\ \A s \in Marks \ {"backup"} : Past(h, s)' <=> Past(h, s)
      BY <1>1, <2>5, PastKept DEF Onward
    <3>2. (Held(h) /\ Gone(h) /\ Rowless(h) /\ Open(h) /\ Free(h))'
      BY <1>1, <1>4, <3>1, OwnRows DEF Marks
    <3>3. bak' = [bak EXCEPT ![p] = ini[p]]
      BY <2>2, <2>5, <1>1, <1>2, OpsAre DEF Onward, SameJob, Idle, Started
    <3>4. j.row.baseline \in ConfigsAt(p)
      <4>1. j.id \in Live /\ rows[j.id].path = p /\ rows[j.id].baseline = j.row.baseline
        BY <1>1, <1>2, ClaimsOf DEF Secured, Held, Live
      <4> QED BY <4>1 DEF Safe, Table, Sheltered
    <3>5. j.row.baseline \in ({bak'[p]} \ {None}) \cup shelf'[p] /\ bak'[p] # None
      BY <1>3, <1>7, <2>1, <3>3, <3>4 DEF ConfigsAt, TypeOK
    <3>6. Copied(h)'
      BY <3>1, <3>5 DEF Copied, Backed, SameJob
    <3>7. InPlace(h)'
      BY <1>1, <3>1 DEF InPlace, Secured, SameJob, Marks
    <3> QED BY <3>1, <3>2, <3>6, <3>7 DEF Secured
  <2>6. \A q \in Paths \ {p} : ini'[q] = ini[q] /\ bak'[q] = bak[q] /\ shelf'[q] = shelf[q]
    BY <1>1, <2>1, <2>2 DEF TypeOK
  <2> QED BY <1>1, <1>3, <1>4, <2>2, <2>4, <2>5, <2>6, FileSafe DEF SameJob
<1> QED BY <1>6, <1>7

\* The .ini of an archived or undone service goes only where a backup stands.
LEMMA CopyBackSafe ==
  ASSUME TypeOK, PathsUnique, Safe, NEW h \in Handlers, CopyBack(h)
  PROVE  Safe'
<1> DEFINE j == job[h]
           p == j.row.path
<1>1. At(h, "copyBack") /\ Busy(h) /\ Secured(h) /\ UNCHANGED <<bak, shelf>>
  BY DEF CopyBack, At, Safe
<1>2. /\ j.op \in {"restore", "undoUpdate"} /\ j.op \in OfRow
      /\ ~Past(h, "dropRow") /\ ~Past(h, "write")
  BY <1>1, CallsOf, Holders DEF Callers
<1>3. p \in Claims(j) /\ p \in Paths
  BY <1>1, <1>2, ClaimsOf DEF Row
<1>4. RowsCalm /\ nextId' = nextId /\ rows' = rows
  BY FileCalm DEF FileCmd
<1>5. Others(h) /\ (job'[h] = Idle \/ Onward(h))
  <2>1. ~Undoes(h)
    BY <1>1 DEF Undoes, At
  <2> QED BY <1>1, <2>1, CallLeads DEF CopyBack, Falls
<1>6. ASSUME NEW i \in Live, rows[i].path = p PROVE Sheltered(i)'
  <2>1. Backed(p, j.row.baseline) /\ rows[i].baseline = j.row.baseline
    BY <1>1, <1>2, <1>6, RowAtPath DEF Secured, Copied
  <2>2. Sheltered(i)
    BY DEF Safe, Table
  <2> QED BY <1>1, <1>4, <1>6, <2>1, <2>2 DEF Sheltered, Backed, ConfigsAt
<1>7. \A q \in Paths \ {p} : ini'[q] = ini[q] /\ bak'[q] = bak[q] /\ shelf'[q] = shelf[q]
  BY <1>1 DEF CopyBack, TypeOK
<1>8. \/ job'[h] = Idle
      \/ job'[h].row = job[h].row /\ job'[h].want = job[h].want /\ Secured(h)'
  BY <1>1, <1>2, <1>4, <1>5, FileOwn DEF Marks
<1> QED BY <1>1, <1>3, <1>4, <1>5, <1>6, <1>7, <1>8, FileSafe

LEMMA RemoveOldSafe ==
  ASSUME TypeOK, PathsUnique, Safe, NEW h \in Handlers, RemoveOld(h)
  PROVE  Safe'
<1> DEFINE j == job[h]
           p == j.row.path
<1>1. At(h, "rmOld") /\ Busy(h) /\ Secured(h) /\ UNCHANGED <<bak, shelf>>
  BY DEF RemoveOld, At, Safe
<1>2. /\ j.op \in {"update", "archive"} /\ j.op \in OfRow
      /\ ~Past(h, "dropRow") /\ Past(h, "backup")
      /\ Past(h, "write") => j.op = "update"
  BY <1>1, CallsOf, OrderOfCalls, Holders DEF Callers, Behind
<1>3. p \in Claims(j) /\ p \in Paths
  BY <1>1, <1>2, ClaimsOf DEF Row
<1>4. RowsCalm /\ nextId' = nextId /\ rows' = rows
  BY FileCalm DEF FileCmd
<1>5. Others(h) /\ (job'[h] = Idle \/ Onward(h))
  <2>1. ~Undoes(h)
    BY <1>1 DEF Undoes, At
  <2> QED BY <1>1, <2>1, CallLeads DEF RemoveOld, Falls
<1>6. ASSUME NEW i \in Live, rows[i].path = p PROVE Sheltered(i)'
  <2>1. Backed(p, j.row.baseline) /\ rows[i].baseline = j.row.baseline
    BY <1>1, <1>2, <1>6, RowAtPath DEF Secured, Copied
  <2>2. Sheltered(i)
    BY DEF Safe, Table
  <2> QED BY <1>1, <1>4, <1>6, <2>1, <2>2 DEF Sheltered, Backed, ConfigsAt
<1>7. \A q \in Paths \ {p} : ini'[q] = ini[q] /\ bak'[q] = bak[q] /\ shelf'[q] = shelf[q]
  BY <1>1 DEF RemoveOld, TypeOK
<1>8. Past(h, "write") => ini'[j.want.path] = ini[j.want.path]
  <2>1. CASE ini' = ini
    BY <2>1
  <2>2. CASE ini' # ini
    <3>1. Past(h, "write") => j.want.path # p /\ j.want.path \in Paths
      BY <1>1, <1>2, <2>2, ClaimsOf, Holders DEF RemoveOld, Moves, Target
    <3> QED BY <1>7, <3>1
  <2> QED BY <2>1, <2>2
<1>9. \/ job'[h] = Idle
      \/ job'[h].row = job[h].row /\ job'[h].want = job[h].want /\ Secured(h)'
  BY <1>1, <1>4, <1>5, <1>8, FileOwn DEF Marks
<1> QED BY <1>1, <1>3, <1>4, <1>5, <1>6, <1>7, <1>9, FileSafe

\* A compensation removes a target that is no row's.
LEMMA RemoveTargetSafe ==
  ASSUME TypeOK, PathsUnique, Safe, NEW h \in Handlers, RemoveTarget(h)
  PROVE  Safe'
<1> DEFINE j == job[h]
           p == j.want.path
<1>1. At(h, "rmTarget") /\ Busy(h) /\ Secured(h) /\ UNCHANGED <<bak, shelf>>
  BY DEF RemoveTarget, At, Safe
<1>2. /\ j.op \in {"undoCreate", "undoUpdate"} /\ Undone(h)
      /\ ~Past(h, "dropRow") /\ ~Past(h, "write")
  BY <1>1, CallsOf DEF Callers, Undone
<1>3. p \in Claims(j) /\ p \in Paths
  BY <1>1, <1>2, ClaimsOf, Holders DEF Target
<1>4. RowsCalm /\ nextId' = nextId /\ rows' = rows
  BY FileCalm DEF FileCmd
<1>5. Others(h) /\ (job'[h] = Idle \/ Onward(h))
  <2>1. ~Undoes(h)
    BY <1>1 DEF Undoes, At
  <2> QED BY <1>1, <2>1, CallLeads DEF RemoveTarget, Falls
<1>6. ASSUME NEW i \in Live, rows[i].path = p PROVE Sheltered(i)'
  <2>1. i = j.id
    BY <1>1, <1>2, <1>6 DEF Secured, Free
  <2>2. j.op = "undoUpdate"
    BY <1>1, <1>2, <2>1 DEF Secured, Rowless, Live, Ids
  <2>3. rows[i].path = j.row.path
    BY <1>1, <1>2, <2>1, <2>2, Holders DEF Secured, Held
  <2>4. ini' = ini
    BY <1>6, <2>2, <2>3 DEF RemoveTarget, Moves
  <2>5. Sheltered(i)
    BY DEF Safe, Table
  <2> QED BY <1>1, <1>4, <2>4, <2>5 DEF Sheltered, Backed, ConfigsAt
<1>7. \A q \in Paths \ {p} : ini'[q] = ini[q] /\ bak'[q] = bak[q] /\ shelf'[q] = shelf[q]
  BY <1>1 DEF RemoveTarget, TypeOK
<1>8. \/ job'[h] = Idle
      \/ job'[h].row = job[h].row /\ job'[h].want = job[h].want /\ Secured(h)'
  BY <1>1, <1>2, <1>4, <1>5, FileOwn DEF Marks
<1> QED BY <1>1, <1>3, <1>4, <1>5, <1>6, <1>7, <1>8, FileSafe

\* A delete cleans up where there is no row any more.
LEMMA CleanUpSafe ==
  ASSUME TypeOK, PathsUnique, Safe, NEW h \in Handlers, RemoveBackup(h) \/ RemoveFile(h)
  PROVE  Safe'
<1> DEFINE j == job[h]
           p == j.row.path
<1>1. PICK t \in {"rmBackup", "rmFile"} : At(h, t)
  BY DEF RemoveBackup, RemoveFile
<1>2. Busy(h) /\ Secured(h)
  BY <1>1 DEF At, Safe
<1>3. j.op = "delete" /\ j.op \in OfRow /\ Past(h, "dropRow") /\ ~Past(h, "write")
  BY <1>1, <1>2, CallsOf, OrderOfCalls, Holders DEF Callers, Behind
<1>4. p \in Claims(j) /\ p \in Paths
  BY <1>2, <1>3, ClaimsOf DEF Row
<1>5. RowsCalm /\ nextId' = nextId /\ rows' = rows
  BY FileCalm DEF FileCmd
<1>6. Others(h) /\ (job'[h] = Idle \/ Onward(h))
  <2>1. ~Undoes(h)
    BY <1>1 DEF Undoes, At
  <2>2. \/ Reported(h)
        \/ job' = [job EXCEPT ![h] = Idle]
    BY DEF RemoveBackup, RemoveFile
  <2>3. job' = [job EXCEPT ![h] = Idle] => Others(h) /\ job'[h] = Idle
    BY DEF Others, TypeOK
  <2> QED BY <1>2, <2>1, <2>2, <2>3, CallLeads DEF Falls
<1>7. \A i \in Live : rows[i].path # p
  BY <1>2, <1>3 DEF Secured, Gone
<1>8. \A q \in Paths \ {p} : ini'[q] = ini[q] /\ bak'[q] = bak[q] /\ shelf'[q] = shelf[q]
  BY DEF RemoveBackup, RemoveFile, TypeOK
<1>9. \/ job'[h] = Idle
      \/ job'[h].row = job[h].row /\ job'[h].want = job[h].want /\ Secured(h)'
  BY <1>1, <1>3, <1>5, <1>6, FileOwn DEF Marks
<1> QED BY <1>2, <1>4, <1>5, <1>6, <1>7, <1>8, <1>9, FileSafe

-----------------------------------------------------------------------------
(***************************************************************************)
(* Database writes that are about where a config is.                       *)
(***************************************************************************)

\* What each of them does to the table.
LEMMA DropRowDoes ==
  ASSUME TypeOK, Safe, NEW h \in Handlers, DropRow(h), NEW k, k = job[h].id
  PROVE  /\ Busy(h) /\ job[h].op = "delete" /\ job[h].op \in OfRow /\ ~Past(h, "dropRow")
         /\ k \in Live /\ k \in Ids /\ rows[k].path = job[h].row.path
         /\ rows[k].path \in Claims(job[h])
         /\ rows'[k] = None /\ \A i \in Ids \ {k} : rows'[i] = rows[i]
         /\ UNCHANGED files /\ nextId' = nextId
         /\ Others(h) /\ (job'[h] = Idle \/ Onward(h))
<1> DEFINE j == job[h]
<1>1. /\ At(h, "dropRow") /\ Busy(h) /\ Secured(h) /\ UNCHANGED files /\ nextId' = nextId
      /\ rows' = [rows EXCEPT ![k] = None]
  BY DEF DropRow, At, Safe
<1>2. j.op = "delete" /\ j.op \in OfRow
  BY <1>1, CallsOf, Holders DEF Callers
<1>3. ~Past(h, "dropRow")
  <2>1. \A n \in 1..Len(DeleteSteps) : DeleteSteps[n] = "dropRow" => n = 1
    BY DEF DeleteSteps
  <2>2. j.pc \in 1..Len(DeleteSteps) /\ Flow[j.op] = DeleteSteps
    BY <1>1, <1>2 DEF TypeOK, Job, Busy, Flow
  <2>3. j.pc = 1
    BY <1>1, <2>1, <2>2 DEF At
  <2> QED BY <2>3 DEF Past
<1>4. k \in Live /\ k \in Ids /\ rows[k].path = j.row.path /\ rows[k].path \in Claims(j)
  BY <1>1, <1>2, <1>3, ClaimsOf DEF Secured, Held, Live
<1>5. rows'[k] = None /\ \A i \in Ids \ {k} : rows'[i] = rows[i]
  BY <1>1, <1>4 DEF TypeOK
<1>6. Others(h) /\ (job'[h] = Idle \/ Onward(h))
  BY <1>1, CallLeads DEF DropRow
<1> QED BY <1>1, <1>2, <1>3, <1>4, <1>5, <1>6

LEMMA MarkArchivedDoes ==
  ASSUME TypeOK, Safe, NEW h \in Handlers, MarkArchived(h), NEW k, k = job[h].id
  PROVE  /\ Busy(h) /\ job[h].op = "archive" /\ job[h].op \in OfRow
         /\ Past(h, "backup") /\ ~Past(h, "dropRow")
         /\ k \in Live /\ k \in Ids /\ rows[k] \in Row /\ rows[k].path = job[h].row.path
         /\ rows[k].baseline = job[h].row.baseline /\ rows[k].path \in Claims(job[h])
         /\ rows'[k] = [rows[k] EXCEPT !.archived = TRUE, !.status = "STOPPED"]
         /\ \A i \in Ids \ {k} : rows'[i] = rows[i]
         /\ UNCHANGED files /\ nextId' = nextId /\ Others(h) /\ job'[h] = Idle
<1> DEFINE j == job[h]
           n == j.row.baseline.name
<1>1. /\ At(h, "markArchived") /\ Busy(h) /\ Secured(h) /\ UNCHANGED files /\ nextId' = nextId
      /\ rows' = [i \in Ids |-> IF i \in Named(n)
                                THEN [rows[i] EXCEPT !.archived = TRUE, !.status = "STOPPED"]
                                ELSE rows[i]]
  BY DEF MarkArchived, At, Safe, UpdateNamed
<1>2. j.op = "archive" /\ j.op \in OfRow /\ Past(h, "backup")
  <2>1. j.op \in Callers("markArchived")
    BY <1>1, CallsOf
  <2>2. Past(h, "backup")
    BY <1>1, OrderOfCalls DEF Behind
  <2> QED BY <2>1, <2>2, Holders DEF Callers
<1>3. ~Past(h, "dropRow")
  <2>1. Past(h, "dropRow") => j.op \in Callers("dropRow")
    BY <1>1, CallsOf
  <2> QED BY <1>2, <2>1 DEF Callers
<1>4. /\ k \in Live /\ k \in Ids /\ rows[k].path = j.row.path
      /\ rows[k].baseline = j.row.baseline /\ rows[k].path \in Claims(j) /\ rows[k] \in Row
  BY <1>1, <1>2, <1>3, ClaimsOf DEF Secured, Held, Live, TypeOK
<1>5. \A i \in Ids : i \in Named(n) <=> i = k
  BY <1>4 DEF Named, Safe, Table, NamesUnique
<1>6. /\ rows'[k] = [rows[k] EXCEPT !.archived = TRUE, !.status = "STOPPED"]
      /\ \A i \in Ids \ {k} : rows'[i] = rows[i]
  BY <1>1, <1>4, <1>5
<1>7. Others(h) /\ job'[h] = Idle
  <2>1. After(job[h]) = Idle
    BY <1>1, OrderOfCalls
  <2> QED BY <1>1, <2>1 DEF MarkArchived, Proceed, Others, TypeOK
<1> QED BY <1>1, <1>2, <1>3, <1>4, <1>6, <1>7

LEMMA InsertDoes ==
  ASSUME TypeOK, Safe, NEW h \in Handlers, Insert(h), ~PathTaken(job[h].want.path, 0),
         NEW w, w = job[h].want
  PROVE  /\ Busy(h) /\ job[h].op = "create" /\ job[h].id = 0
         /\ Past(h, "checkRows") /\ Past(h, "checkPort") /\ Past(h, "write")
         /\ w \in Target /\ w.path \in Claims(job[h]) /\ w.conf.name \in Claims(job[h])
         /\ ini[w.path] = w.conf
         /\ nextId \in Ids /\ rows[nextId] = None /\ nextId' = nextId + 1
         /\ rows'[nextId] = NewRow(w) /\ NewRow(w) \in Row
         /\ \A i \in Ids \ {nextId} : rows'[i] = rows[i]
         /\ UNCHANGED files /\ Others(h) /\ job'[h] = Idle
<1>1. /\ At(h, "insert") /\ Busy(h) /\ Secured(h) /\ UNCHANGED files /\ nextId \in Ids
      /\ rows' = [rows EXCEPT ![nextId] = NewRow(w)] /\ nextId' = nextId + 1 /\ Proceed(h)
  BY DEF Insert, At, Safe
<1>2. /\ job[h].op = "create" /\ job[h].id = 0 /\ job[h].op \in OfTarget
      /\ Past(h, "checkRows") /\ Past(h, "checkPort") /\ Past(h, "write")
  BY <1>1, CallsOf, OrderOfCalls, Holders DEF Callers, Behind, Secured, Rowless
<1>3. w \in Target /\ w.path \in Claims(job[h]) /\ w.conf.name \in Claims(job[h])
  BY <1>1, <1>2, ClaimsOf
<1>4. ini[w.path] = w.conf
  BY <1>1, <1>2 DEF Secured, InPlace
<1>5. rows[nextId] = None
  BY <1>1 DEF Safe, Table, Unused, Ids
<1>6. rows'[nextId] = NewRow(w) /\ \A i \in Ids \ {nextId} : rows'[i] = rows[i]
  BY <1>1 DEF TypeOK
<1>7. NewRow(w) \in Row
  BY <1>3 DEF NewRow, Row, Target, Config, Statuses
<1>8. Others(h) /\ job'[h] = Idle
  <2>1. After(job[h]) = Idle
    BY <1>1, OrderOfCalls
  <2> QED BY <1>1, <2>1 DEF Proceed, Others, TypeOK
<1> QED BY <1>1, <1>2, <1>3, <1>4, <1>5, <1>6, <1>7, <1>8

LEMMA SaveUpdateDoes ==
  ASSUME TypeOK, Safe, NEW h \in Handlers, SaveUpdate(h),
         NEW w, w = job[h].want, NEW k, k = job[h].id, ~PathTaken(w.path, k)
  PROVE  /\ Busy(h) /\ job[h].op = "update" /\ job[h].op \in OfRow
         /\ Past(h, "checkRows") /\ Past(h, "checkPort") /\ Past(h, "write")
         /\ w \in Target /\ w.path \in Claims(job[h]) /\ w.conf.name \in Claims(job[h])
         /\ ini[w.path] = w.conf
         /\ k \in Ids /\ rows[k] # None /\ rows[k].path \in Claims(job[h]) /\ ~rows[k].archived
         /\ rows'[k] \in Row /\ rows'[k].path = w.path /\ rows'[k].baseline = w.conf
         /\ rows'[k].port = w.conf.port /\ ~rows'[k].archived
         /\ \A i \in Ids \ {k} : rows'[i] = rows[i]
         /\ UNCHANGED files /\ nextId' = nextId /\ Others(h) /\ job'[h] = Idle
<1> DEFINE j == job[h]
<1>1. At(h, "save") /\ Busy(h) /\ Secured(h) /\ UNCHANGED files /\ nextId' = nextId
  BY DEF SaveUpdate, At, Safe
<1>2. /\ j.op = "update" /\ j.op \in OfTarget /\ j.op \in OfRow
      /\ Past(h, "checkRows") /\ Past(h, "checkPort") /\ Past(h, "write")
  BY <1>1, CallsOf, OrderOfCalls, Holders DEF Callers, Behind
<1>3. ~Past(h, "dropRow")
  BY <1>1, <1>2, CallsOf DEF Callers
<1>4. /\ k \in Ids /\ rows[k] # None /\ rows[k].path \in Claims(j) /\ ~rows[k].archived
      /\ rows[k] \in Row
  BY <1>1, <1>2, <1>3, ClaimsOf DEF Secured, Held, Open, TypeOK
<1>5. /\ Proceed(h)
      /\ \E e \in j.seen :
           rows' = [rows EXCEPT ![k] =
             [@ EXCEPT !.path = w.path, !.baseline = w.conf, !.port = w.conf.port,
                       !.status = e[2], !.hasBackup = TRUE]]
  BY <1>4 DEF SaveUpdate
<1>6. PICK e \in j.seen :
        rows' = [rows EXCEPT ![k] =
          [rows[k] EXCEPT !.path = w.path, !.baseline = w.conf, !.port = w.conf.port,
                          !.status = e[2], !.hasBackup = TRUE]]
  BY <1>5
<1>7. w \in Target /\ w.path \in Claims(j) /\ w.conf.name \in Claims(j)
  BY <1>1, <1>2, ClaimsOf
<1>8. ini[w.path] = w.conf
  BY <1>1, <1>2 DEF Secured, InPlace
<1>9. e[2] \in Statuses
  <2>1. j.seen \subseteq Names \X Statuses
    BY DEF TypeOK, Job, Locals
  <2> QED BY <2>1
<1> DEFINE r == [rows[k] EXCEPT !.path = w.path, !.baseline = w.conf, !.port = w.conf.port,
                                !.status = e[2], !.hasBackup = TRUE]
<1>10. /\ r \in Row /\ r.path = w.path /\ r.baseline = w.conf /\ r.port = w.conf.port
       /\ ~r.archived
  BY <1>4, <1>7, <1>9 DEF Row, Target, Config
<1>11. rows'[k] = r /\ \A i \in Ids \ {k} : rows'[i] = rows[i]
  BY <1>4, <1>6 DEF TypeOK
<1> HIDE DEF r
<1>12. Others(h) /\ job'[h] = Idle
  <2>1. After(job[h]) = Idle
    BY <1>1, OrderOfCalls
  <2> QED BY <1>1, <1>5, <2>1 DEF Proceed, Others, TypeOK
<1> QED BY <1>1, <1>2, <1>4, <1>7, <1>8, <1>10, <1>11, <1>12

\* A row that goes takes no other with it.
LEMMA DropRowSafe ==
  ASSUME TypeOK, PathsUnique, Safe, NEW h \in Handlers, DropRow(h), NEW k, k = job[h].id
  PROVE  Safe'
<1> DEFINE j == job[h]
<1>1. /\ At(h, "dropRow") /\ Busy(h) /\ j.op = "delete" /\ j.op \in OfRow
      /\ k \in Live /\ rows[k].path = j.row.path /\ rows[k].path \in Claims(j)
      /\ rows'[k] = None /\ \A i \in Ids \ {k} : rows'[i] = rows[i]
      /\ UNCHANGED files /\ nextId' = nextId
      /\ Others(h) /\ (job'[h] = Idle \/ Onward(h))
  BY DropRowDoes DEF DropRow
<1>2. Frame(h)
  BY <1>1 DEF Frame, files
<1>3. Unused' /\ NamesUnique'
  BY <1>1 DEF Unused, NamesUnique, Live, Safe, Table
<1>4. ASSUME NEW i \in Ids, rows'[i] # None PROVE Sheltered(i)'
  <2>1. rows'[i] = rows[i] /\ Sheltered(i)
    BY <1>1, <1>4 DEF Safe, Table, Live
  <2> QED BY <1>1, <2>1 DEF Sheltered, ConfigsAt, Backed, files
<1>5. ASSUME Onward(h) PROVE SameJob(h) /\ Secured(h)'
  <2>1. SameJob(h) /\ Past(h, "dropRow")' /\ \A s \in Marks \ {"dropRow"} : Past(h, s)' <=> Past(h, s)
    BY <1>1, <1>5, PastKept DEF Onward
  <2>2. ~Past(h, "checkRows")' /\ ~Past(h, "backup")' /\ ~Past(h, "write")'
    BY <1>1, <2>1, CallsOf DEF Callers, Marks
  <2>3. Gone(h)'
    <3> SUFFICES ASSUME NEW i \in Ids, rows'[i] # None PROVE rows'[i].path # j.row.path
      BY <2>1 DEF Gone, Live, SameJob
    <3> QED BY <1>1 DEF PathsUnique, Live
  <2>4. Held(h)' /\ Rowless(h)' /\ Open(h)' /\ Free(h)' /\ Copied(h)' /\ InPlace(h)'
    BY <1>1, <2>1, <2>2 DEF Held, Rowless, Open, Free, Undone, Copied, InPlace, SameJob
  <2> QED BY <2>1, <2>3, <2>4 DEF Secured
<1> QED BY <1>1, <1>2, <1>3, <1>4, <1>5, SafeBy DEF SameJob

\* A service is archived with its backup in place.
LEMMA MarkArchivedSafe ==
  ASSUME TypeOK, Safe, NEW h \in Handlers, MarkArchived(h), NEW k, k = job[h].id
  PROVE  Safe'
<1> DEFINE j == job[h]
<1>1. /\ Busy(h) /\ j.op = "archive" /\ Past(h, "backup")
      /\ k \in Live /\ rows[k] \in Row /\ rows[k].path = j.row.path
      /\ rows[k].baseline = j.row.baseline /\ rows[k].path \in Claims(j)
      /\ rows'[k] = [rows[k] EXCEPT !.archived = TRUE, !.status = "STOPPED"]
      /\ \A i \in Ids \ {k} : rows'[i] = rows[i]
      /\ UNCHANGED files /\ nextId' = nextId /\ Others(h) /\ job'[h] = Idle
  BY MarkArchivedDoes
<1>2. rows'[k] # None /\ rows'[k].path = rows[k].path /\ rows'[k].baseline = rows[k].baseline
  <2>1. rows'[k] \in Row
    BY <1>1 DEF Row, Statuses
  <2> QED BY <1>1, <2>1, NoneAssumption DEF Row
<1>3. Frame(h)
  BY <1>1, <1>2 DEF Frame, files, Live
<1>4. Unused'
  BY <1>1 DEF Unused, Safe, Table, Live
<1>5. NamesUnique'
  <2>1. \A i \in Ids : rows'[i] # None => rows[i] # None /\ rows'[i].baseline = rows[i].baseline
    BY <1>1, <1>2 DEF Live
  <2> QED BY <2>1 DEF NamesUnique, Live, Safe, Table
<1>6. ASSUME NEW i \in Ids, rows'[i] # None PROVE Sheltered(i)'
  <2>1. Sheltered(i) /\ rows'[i].path = rows[i].path /\ rows'[i].baseline = rows[i].baseline
    BY <1>1, <1>2, <1>6 DEF Safe, Table, Live
  <2>2. CASE i # k
    BY <1>1, <2>1, <2>2 DEF Sheltered, ConfigsAt, Backed, files
  <2>3. CASE i = k
    <3>1. Secured(h)
      BY <1>1 DEF Safe
    <3>2. Backed(rows[i].path, rows[i].baseline) /\ bak[rows[i].path] # None
      BY <1>1, <2>3, <3>1 DEF Secured, Copied
    <3> QED BY <1>1, <2>1, <3>2 DEF Sheltered, ConfigsAt, Backed, files
  <2> QED BY <2>2, <2>3
<1> QED BY <1>1, <1>3, <1>4, <1>5, <1>6, SafeBy

\* A new or a moved row finds its config where it was written.
LEMMA PlacedSafe ==
  ASSUME TypeOK, Safe, NEW h \in Handlers, Busy(h), Others(h), job'[h] = Idle,
         UNCHANGED files, NEW w \in Target,
         w.path \in Claims(job[h]), w.conf.name \in Claims(job[h]), ini[w.path] = w.conf,
         NEW k \in Ids, \A i \in Ids \ {k} : rows'[i] = rows[i],
         rows'[k] # None, rows'[k].path = w.path, rows'[k].baseline = w.conf,
         ~rows'[k].archived,
         rows[k] # None => rows[k].path \in Claims(job[h]),
         \A i \in Live \ {k} : rows[i].baseline.name # w.conf.name,
         Unused'
  PROVE  Safe'
<1>1. Frame(h)
  BY DEF Frame, files
<1>2. NamesUnique'
  <2> SUFFICES ASSUME NEW a \in Ids, NEW b \in Ids, rows'[a] # None, rows'[b] # None, a # b
               PROVE  rows'[a].baseline.name # rows'[b].baseline.name
    BY DEF NamesUnique, Live
  <2>1. \A i \in Ids : i # k /\ rows'[i] # None => i \in Live /\ rows'[i] = rows[i]
    BY DEF Live
  <2>2. \A i, l \in Live : i # l => rows[i].baseline.name # rows[l].baseline.name
    BY DEF Safe, Table, NamesUnique
  <2>3. CASE a # k /\ b # k
    BY <2>1, <2>2, <2>3
  <2>4. CASE a = k
    BY <2>1, <2>4
  <2>5. CASE b = k
    BY <2>1, <2>5
  <2> QED BY <2>3, <2>4, <2>5
<1>3. ASSUME NEW i \in Ids, rows'[i] # None PROVE Sheltered(i)'
  <2>1. CASE i = k
    <3>1. w.conf # None
      BY NoneAssumption DEF Target
    <3> QED BY <2>1, <3>1 DEF Sheltered, ConfigsAt, files
  <2>2. CASE i # k
    <3>1. rows'[i] = rows[i] /\ Sheltered(i)
      BY <1>3, <2>2 DEF Safe, Table, Live
    <3> QED BY <3>1 DEF Sheltered, ConfigsAt, Backed, files
  <2> QED BY <2>1, <2>2
<1> QED BY <1>1, <1>2, <1>3, SafeBy

LEMMA InsertSafe ==
  ASSUME TypeOK, Safe, NEW h \in Handlers, Insert(h), NEW w, w = job[h].want
  PROVE  Safe'
<1>1. Busy(h) /\ Secured(h) /\ UNCHANGED files
  BY DEF Insert, At, Safe
<1>2. CASE PathTaken(w.path, 0)
  <2>1. Refuse(h) /\ UNCHANGED db
    BY <1>2 DEF Insert
  <2> QED BY <1>1, <2>1, CallLeads, CalmSafe DEF RowsCalm, db
<1>3. CASE ~PathTaken(w.path, 0)
  <2>1. /\ job[h].id = 0 /\ Past(h, "checkRows")
        /\ w \in Target /\ w.path \in Claims(job[h]) /\ w.conf.name \in Claims(job[h])
        /\ ini[w.path] = w.conf
        /\ nextId \in Ids /\ rows[nextId] = None /\ nextId' = nextId + 1
        /\ rows'[nextId] = NewRow(w) /\ NewRow(w) \in Row
        /\ \A i \in Ids \ {nextId} : rows'[i] = rows[i]
        /\ Others(h) /\ job'[h] = Idle
    BY <1>3, InsertDoes
  <2>2. \A i \in Live \ {nextId} : rows[i].baseline.name # w.conf.name
    <3>1. 0 \notin Live
      BY DEF Live, Ids
    <3> QED BY <1>1, <2>1, <3>1 DEF Secured, Free
  <2>3. /\ rows'[nextId] # None /\ rows'[nextId].path = w.path
        /\ rows'[nextId].baseline = w.conf /\ ~rows'[nextId].archived
    <3>1. /\ NewRow(w).path = w.path /\ NewRow(w).baseline = w.conf /\ ~NewRow(w).archived
      BY DEF NewRow
    <3> QED BY <2>1, <3>1, NoneAssumption
  <2>4. Unused'
    <3> SUFFICES ASSUME NEW i \in Ids, i >= nextId + 1 PROVE rows'[i] = None
      BY <2>1 DEF Unused
    <3>1. i # nextId /\ i >= nextId
      BY <2>1 DEF Ids
    <3> QED BY <2>1, <3>1 DEF Safe, Table, Unused
  <2> QED BY <1>1, <2>1, <2>2, <2>3, <2>4, PlacedSafe
<1> QED BY <1>2, <1>3

LEMMA SaveUpdateSafe ==
  ASSUME TypeOK, Safe, NEW h \in Handlers, SaveUpdate(h),
         NEW w, w = job[h].want, NEW k, k = job[h].id
  PROVE  Safe'
<1>1. Busy(h) /\ Secured(h) /\ UNCHANGED files /\ nextId' = nextId
  BY DEF SaveUpdate, At, Safe
<1>2. CASE PathTaken(w.path, k)
  <2>1. (Refuse(h) \/ Proceed(h)) /\ UNCHANGED rows /\ At(h, "save")
    BY <1>2 DEF SaveUpdate
  <2>2. \A s \in Marks : ~At(h, s)
    BY <2>1 DEF At, Marks
  <2> QED BY <1>1, <2>1, <2>2, CallLeads, CalmSafe DEF RowsCalm, Falls
<1>3. CASE ~PathTaken(w.path, k)
  <2>1. /\ Past(h, "checkRows")
        /\ w \in Target /\ w.path \in Claims(job[h]) /\ w.conf.name \in Claims(job[h])
        /\ ini[w.path] = w.conf
        /\ k \in Ids /\ rows[k] # None /\ rows[k].path \in Claims(job[h])
        /\ rows'[k] \in Row /\ rows'[k].path = w.path /\ rows'[k].baseline = w.conf
        /\ ~rows'[k].archived /\ \A i \in Ids \ {k} : rows'[i] = rows[i]
        /\ Others(h) /\ job'[h] = Idle
    BY <1>3, SaveUpdateDoes
  <2>2. \A i \in Live \ {k} : rows[i].baseline.name # w.conf.name
    BY <1>1, <2>1 DEF Secured, Free
  <2>3. rows'[k] # None
    BY <2>1, NoneAssumption
  <2>4. Unused'
    BY <1>1, <2>1 DEF Safe, Table, Unused
  <2> QED BY <1>1, <2>1, <2>2, <2>3, <2>4, PlacedSafe
<1> QED BY <1>2, <1>3

-----------------------------------------------------------------------------
(***************************************************************************)
(* Every step, and the theorems.                                           *)
(***************************************************************************)

\* A request that is accepted shares nothing with those in flight.
LEMMA BeginSafe ==
  ASSUME Exclusive, TypeOK, Safe, NEW h \in Handlers, Begin(h)
  PROVE  Safe'
<1> DEFINE Row0    == Row \cup {None}
           Target0 == Target \cup {None}
           Sound(op, i, r) == /\ op \notin {"undoCreate", "undoUpdate"}
                              /\ op = "create" => i = 0
                              /\ op \in OfRow => i \in Live /\ r = rows[i]
                              /\ op \in {"update", "archive"} => ~rows[i].archived
                              /\ op = "restore" => rows[i].archived
<1>1. \E op \in Ops, i \in Ids \cup {0}, r \in Row0, w \in Target0 :
        Accept(h, Started(op, i, r, w)) /\ Sound(op, i, r)
  <2>1. CASE BeginCreate(h)
    BY <2>1, OpsAre DEF BeginCreate, OfRow
  <2>2. \A i \in Live : i \in Ids /\ rows[i] \in Row0
    BY DEF Live, TypeOK
  <2>3. CASE BeginUpdate(h)
    <3>1. PICK i \in Live, w \in Target :
            ~rows[i].archived /\ Accept(h, Started("update", i, rows[i], w))
      BY <2>3 DEF BeginUpdate
    <3>2. Sound("update", i, rows[i])
      BY <3>1
    <3> QED BY <2>2, <3>1, <3>2, OpsAre
  <2>4. CASE BeginOnActive(h)
    <3>1. PICK i \in Live, op \in RuntimeOps \cup {"archive", "sync"} :
            ~rows[i].archived /\ Accept(h, Started(op, i, rows[i], None))
      BY <2>4 DEF BeginOnActive
    <3>2. op \in Ops /\ Sound(op, i, rows[i])
      BY <3>1, OpsAre DEF RuntimeOps
    <3> QED BY <2>2, <3>1, <3>2
  <2>5. CASE BeginOnArchived(h)
    <3>1. PICK i \in Live, op \in {"restore", "delete"} :
            rows[i].archived /\ Accept(h, Started(op, i, rows[i], None))
      BY <2>5 DEF BeginOnArchived
    <3>2. op \in Ops /\ Sound(op, i, rows[i])
      BY <3>1, OpsAre
    <3> QED BY <2>2, <3>1, <3>2
  <2>6. CASE BeginRefresh(h)
    BY <2>6, OpsAre DEF BeginRefresh, OfRow
  <2> QED BY <2>1, <2>3, <2>4, <2>5, <2>6 DEF Begin
<1>2. PICK op \in Ops, i \in Ids \cup {0}, r \in Row0, w \in Target0 :
        Accept(h, Started(op, i, r, w)) /\ Sound(op, i, r)
  BY <1>1
<1>3. /\ job'[h] = Started(op, i, r, w)
      /\ \A g \in Handlers \ {h} : job'[g] = job[g]
      /\ \A g \in Handlers : Busy(g) => Apart(job'[h], job[g])
  BY <1>2 DEF Accept, TypeOK
<1>4. UNCHANGED <<rows, nextId, ini, bak, shelf>> /\ ~Busy(h)
  BY <1>2 DEF Accept, Begin, db, files
<1>5. Table'
  BY <1>4 DEF Safe, Table, Unused, NamesUnique, Sheltered, ConfigsAt, Backed, Live
<1>6. AllApart'
  BY <1>3, <1>4 DEF AllApart, Apart, Safe, Busy
<1>7. ASSUME NEW g \in Handlers \ {h}, Busy(g)' PROVE Secured(g)'
  <2>1. Secured(g) /\ job'[g] = job[g]
    BY <1>3, <1>7 DEF Safe, Busy
  <2> QED BY <1>4, <2>1 DEF Secured, Held, Gone, Rowless, Open, Free, Undone, Copied, InPlace,
             Past, Backed, Live
<1>8. Secured(h)'
  <2>1. \A s : ~Past(h, s)'
    BY <1>3 DEF Past, Started
  <2>2. job'[h].op = op /\ job'[h].id = i /\ job'[h].row = r
    BY <1>3 DEF Started
  <2>3. Held(h)'
    BY <1>2, <1>4, <2>2 DEF Held, Live
  <2>4. Gone(h)' /\ InPlace(h)' /\ Free(h)'
    BY <1>2, <2>1, <2>2 DEF Gone, InPlace, Free, Undone
  <2>5. Rowless(h)' /\ Open(h)'
    BY <1>2, <1>4, <2>2 DEF Rowless, Open
  <2>6. Copied(h)'
    <3> SUFFICES ASSUME op = "restore" PROVE Backed(r.path, r.baseline)'
      BY <1>2, <2>1, <2>2 DEF Copied, Backed
    <3>1. i \in Live /\ r = rows[i] /\ rows[i].archived
      BY <1>2, Holders
    <3> QED BY <1>4, <3>1 DEF Safe, Table, Sheltered, Backed
  <2> QED BY <2>3, <2>4, <2>5, <2>6 DEF Secured
<1> QED BY <1>5, <1>6, <1>7, <1>8 DEF Safe

LEMMA CrashSafe == ASSUME Safe, Crash PROVE Safe'
<1>1. UNCHANGED <<rows, nextId, ini, bak, shelf>> /\ \A h \in Handlers : job'[h] = Idle
  BY DEF Crash, db, files
<1>2. Table'
  BY <1>1 DEF Safe, Table, Unused, NamesUnique, Sheltered, ConfigsAt, Backed, Live
<1>3. \A h \in Handlers : ~Busy(h)'
  BY <1>1, IdleType DEF Busy
<1> QED BY <1>2, <1>3 DEF Safe, AllApart

LEMMA InitSafe == Init => Safe
<1> SUFFICES ASSUME Init PROVE Safe
  OBVIOUS
<1>1. Live = {} /\ Unused
  BY DEF Init, Live, Unused
<1>2. \A h \in Handlers : ~Busy(h)
  BY IdleType DEF Init, Busy
<1> QED BY <1>1, <1>2 DEF Safe, Table, NamesUnique, AllApart

LEMMA SafeNext ==
  ASSUME Exclusive, TypeOK, PathsUnique, Safe, [Next]_vars
  PROVE  Safe'
<1>1. CASE UNCHANGED vars
  <2>1. UNCHANGED <<rows, nextId, ini, bak, shelf, job>>
    BY <1>1 DEF vars
  <2>2. Table'
    BY <2>1 DEF Safe, Table, Unused, NamesUnique, Sheltered, ConfigsAt, Backed, Live
  <2>3. AllApart'
    BY <2>1 DEF Safe, AllApart, Busy
  <2>4. ASSUME NEW h \in Handlers, Busy(h)' PROVE Secured(h)'
    <3>1. Secured(h) /\ job'[h] = job[h]
      BY <2>1, <2>4 DEF Safe, Busy
    <3> QED BY <2>1, <3>1 DEF Secured, Held, Gone, Rowless, Open, Free, Undone, Copied, InPlace,
               Past, Backed, Live
  <2> QED BY <2>2, <2>3, <2>4 DEF Safe
<1>2. ASSUME NEW h \in Handlers, FileCmd(h) PROVE Safe'
  BY <1>2, WriteSafe, BackupSafe, CopyBackSafe, RemoveOldSafe, RemoveTargetSafe, CleanUpSafe
     DEF FileCmd
<1>3. ASSUME NEW h \in Handlers, Store(h) PROVE Safe'
  BY <1>3, InsertSafe, SaveUpdateSafe, MarkArchivedSafe, DropRowSafe, StatusSafe DEF Store
<1>4. ASSUME NEW h \in Handlers,
             Begin(h) \/ Check(h) \/ Control(h) \/ Observe(h) \/ CallFails(h)
      PROVE  Safe'
  BY <1>4, BeginSafe, CheckSafe, CheckRowsSafe, ControlSafe, ObserveSafe, CallFailsSafe
<1> QED BY <1>1, <1>2, <1>3, <1>4, CrashSafe DEF Next, Continue

\* Safe is an invariant when operators do not work on the same service at once.
LEMMA AlwaysSafe == ASSUME Exclusive PROVE Spec => []Safe
<1>1. TypeOK /\ PathsUnique /\ Safe /\ [Next]_vars => Safe'
  BY SafeNext
<1> QED BY <1>1, InitSafe, TypeCorrect, PathsAreUnique, PTL DEF Spec

\* No call that fails, is lost or is done by half, and no crash of the process
\* at any point of create, update, archive, restore or delete, loses the config
\* a row stands for: it is still in the row's .ini or in one of its backups.
THEOREM NothingIsLost == ASSUME Exclusive PROVE Spec => []Recoverable
<1>1. Safe => Recoverable
  BY DEF Safe, Table, Sheltered, Recoverable
<1> QED BY <1>1, AlwaysSafe, PTL

\* The restore of an archived service finds its .bak, whatever failed before and
\* whatever other services' requests do meanwhile.
THEOREM ArchiveStaysRestorable == ASSUME Exclusive PROVE Spec => []Restorable
<1>1. Safe => Restorable
  BY DEF Safe, Table, Sheltered, Restorable
<1> QED BY <1>1, AlwaysSafe, PTL
=============================================================================
