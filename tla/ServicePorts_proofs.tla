------------------------- MODULE ServicePorts_proofs -------------------------
(***************************************************************************)
(* The table behaves like the catalogue of ServiceCatalog.  Names and      *)
(* paths are what ServiceRecovery_proofs secures; ports are what this      *)
(* module adds: they are checked against the rows, the files and the       *)
(* processes many calls before they are recorded.                          *)
(***************************************************************************)
EXTENDS ServiceRecovery_proofs

-----------------------------------------------------------------------------
(***************************************************************************)
(* The inductive invariant.                                                *)
(***************************************************************************)
Copies(p)     == ({bak[p]} \ {None}) \cup shelf[p]
HasPort(S, x) == \E c \in S : c.port = x

\* A handler that may bring back what it copied to .bak.
Copying(h) == Past(h, "backup") \/ job[h].op = "undoUpdate"

\* Port and archive mark of a row are as the handler loaded them.
Entry(h) == job[h].op \in OfRow /\ ~Past(h, "dropRow") =>
              /\ rows[job[h].id].port = job[h].row.port
              /\ rows[job[h].id].archived = (job[h].op \in {"restore", "delete"})

\* Status entries are about the handler's service; a sync has read its .ini.
About(h)  == job[h].op \in RuntimeOps \cup {"restore", "sync"} =>
               \A e \in job[h].seen : e[1] = job[h].row.baseline.name
FileRead(h) == job[h].op = "sync" /\ job[h].file # None =>
                 job[h].file = ini[job[h].row.path]

\* The paths a create or an update may leave a config at.
Own(h) == {job[h].want.path} \cup (IF job[h].op = "update" THEN {job[h].row.path} ELSE {})

\* What checkPort found stays so: no file elsewhere has the target's port.
Cleared(h) == Past(h, "checkPort") =>
                \A q \in Paths \ Own(h) : ~HasPort(ConfigsAt(q), job[h].want.conf.port)

PortCopied(h) == Copying(h) \/ job[h].op = "restore" =>
                   HasPort(Copies(job[h].row.path), job[h].row.port)

Minded(h) == Entry(h) /\ About(h) /\ FileRead(h) /\ Cleared(h) /\ PortCopied(h)

\* The port of a row is in its files, that of an archived one in its backups.
PortKept(i) == /\ HasPort(ConfigsAt(rows[i].path), rows[i].port)
               /\ rows[i].archived => HasPort(Copies(rows[i].path), rows[i].port)

\* A service takes the port of its row and of its .ini, and of its .bak while
\* that may be copied back.
Returns(i) == \/ rows[i].archived
              \/ \E h \in Handlers : Busy(h) /\ job[h].id = i /\ Copying(h)

Takes(i, x) == \/ rows[i].port = x
               \/ ini[rows[i].path] # None /\ ini[rows[i].path].port = x
               \/ Returns(i) /\ bak[rows[i].path] # None /\ bak[rows[i].path].port = x

PortsApart == \A i, k \in Live, x \in Ports : i # k => ~(Takes(i, x) /\ Takes(k, x))

Orderly == /\ \A i \in Live : PortKept(i)
           /\ PortsApart
           /\ \A h \in Handlers : Busy(h) => Minded(h)

-----------------------------------------------------------------------------
(***************************************************************************)
(* How the local variables move.                                           *)
(***************************************************************************)

\* A call that reads nothing keeps what was read.
SameReads(h) == job'[h].file = job[h].file /\ job'[h].seen \subseteq job[h].seen

LEMMA ReadsKept ==
  ASSUME TypeOK, NEW h \in Handlers, Busy(h), Onward(h),
         \/ Proceed(h) \/ Refuse(h) \/ Reported(h)
         \/ job' = [job EXCEPT ![h] = Failed(@)]
  PROVE  SameReads(h)
<1> DEFINE j == job[h]
<1>1. j \in Job /\ job \in [Handlers -> Job] /\ j.op \in Ops
  BY DEF TypeOK, Busy
<1>2. \/ job' = [job EXCEPT ![h] = After(j)]
      \/ job' = [job EXCEPT ![h] = Failed(j)]
  BY DEF Proceed, Refuse, Reported
<1>3. job'[h] \in {After(j), Failed(j)}
  BY <1>1, <1>2
<1>4. job'[h] # Idle
  BY <1>1, IdleType DEF Onward, SameJob
<1>5. job'[h] # Undo(j)
  <2>1. Undo(j).pc = 1
    BY <1>1 DEF Undo, Job, Locals
  <2>2. j.pc \in 1..Len(Flow[j.op])
    BY <1>1 DEF Job
  <2> QED BY <1>1, <2>1, <2>2, StepsAre DEF Onward
<1>6. Failed(j) \in {After(j), Undo(j), Idle}
  BY DEF Failed
<1>7. job'[h] = [j EXCEPT !.pc = @ + 1]
  BY <1>3, <1>4, <1>5, <1>6 DEF After
<1>8. job'[h].file = j.file /\ job'[h].seen = j.seen
  BY <1>1, <1>7 DEF Job, Locals
<1> QED BY <1>8 DEF SameReads

\* Only a backup makes a handler rely on .bak.
LEMMA CopyingKept ==
  ASSUME TypeOK, NEW h \in Handlers, Busy(h), ~At(h, "backup"), Busy(h)', Copying(h)',
         Falls(h) \/ Onward(h) \/ Pauses(h)
  PROVE  Copying(h) /\ job'[h].id = job[h].id /\ job'[h].row = job[h].row
<1>1. CASE Onward(h) \/ Pauses(h)
  BY <1>1, PastGrows DEF Copying, Onward, Pauses, SameJob
<1>2. CASE job'[h] = Idle
  BY <1>2, IdleType DEF Busy
<1>3. CASE Undoes(h)
  <2>1. /\ job'[h].id = job[h].id /\ job'[h].row = job[h].row
        /\ \/ job[h].op = "create" /\ job'[h].op = "undoCreate"
           \/ job[h].op = "update" /\ job'[h].op = "undoUpdate"
    BY <1>3, UndoKeeps
  <2>2. ~Past(h, "backup")'
    BY <1>3, PastGrows
  <2>3. job[h].op = "update"
    BY <2>1, <2>2 DEF Copying
  <2>4. At(h, "save")
    BY <1>3, <2>3, CallsOf DEF Undoes, Callers
  <2>5. Past(h, "backup")
    BY <2>4, OrderOfCalls DEF Behind
  <2> QED BY <2>1, <2>5 DEF Copying
<1> QED BY <1>1, <1>2, <1>3 DEF Falls

\* Two handlers never work on one row.
LEMMA OneHandlerEach ==
  ASSUME TypeOK, Safe, NEW h \in Handlers, Busy(h), NEW g \in Handlers, Busy(g),
         job[h].op \in OfRow, ~Past(h, "dropRow"), job[g].op \in OfRow, ~Past(g, "dropRow"),
         job[g].id = job[h].id
  PROVE  g = h
<1>1. job[g].row.path = job[h].row.path
  BY DEF Safe, Secured, Held
<1>2. job[g].row.path \in Claims(job[g]) /\ job[h].row.path \in Claims(job[h])
  BY ClaimsOf
<1> QED BY <1>1, <1>2 DEF Safe, AllApart, Apart

-----------------------------------------------------------------------------
(***************************************************************************)
(* What one handler does leaves the others' ports alone.                   *)
(***************************************************************************)
PortFrame(h) ==
  /\ \A i \in Ids : rows[i] # None /\ rows[i].path \notin Claims(job[h]) =>
       rows'[i].port = rows[i].port /\ rows'[i].archived = rows[i].archived
  /\ \A q \in Paths : \A c : c \in ConfigsAt(q)' =>
       c \in ConfigsAt(q) \/ c.port \in Claims(job[h])

LEMMA PortClaimed ==
  ASSUME TypeOK, NEW h \in Handlers, Busy(h), job[h].op \in OfTarget
  PROVE  job[h].want.conf.port \in Claims(job[h]) /\ job[h].want.conf.port \in Ports
<1>1. job[h].want \in Target /\ job[h].want # None
  BY ClaimsOf, NoneAssumption
<1> QED BY <1>1 DEF Claims, Target, Config

LEMMA OthersMinded ==
  ASSUME TypeOK, Safe, Orderly, NEW h \in Handlers, NEW g \in Handlers \ {h},
         Busy(h), Busy(g), Frame(h), PortFrame(h)
  PROVE  Minded(g)'
<1> DEFINE j == job[g]
<1>1. /\ job'[g] = job[g] /\ Minded(g) /\ Secured(g)
      /\ \A x \in Claims(job[g]) : x \notin Claims(job[h])
  BY DEF Frame, Others, Safe, Orderly, AllApart, Apart
<1>2. \A s : Past(g, s)' <=> Past(g, s)
  BY <1>1 DEF Past
<1>3. Entry(g)'
  <2> SUFFICES ASSUME j.op \in OfRow, ~Past(g, "dropRow")
               PROVE  rows'[j.id].port = j.row.port
                      /\ rows'[j.id].archived = (j.op \in {"restore", "delete"})
    BY <1>1, <1>2 DEF Entry
  <2>1. /\ j.id \in Ids /\ rows[j.id] # None /\ rows[j.id].path = j.row.path
        /\ j.row.path \in Claims(j)
    BY <1>1, ClaimsOf DEF Secured, Held
  <2> QED BY <1>1, <2>1 DEF PortFrame, Minded, Entry
<1>4. About(g)'
  BY <1>1 DEF About, Minded
<1>5. FileRead(g)'
  <2> SUFFICES ASSUME j.op = "sync", j.file # None PROVE j.file = ini'[j.row.path]
    BY <1>1 DEF FileRead
  <2>1. j.row.path \in Claims(j) /\ j.row.path \in Paths
    BY ClaimsOf, OpsAre DEF Row, OfRow
  <2> QED BY <1>1, <2>1 DEF Frame, Minded, FileRead
<1>6. Cleared(g)'
  <2> SUFFICES ASSUME Past(g, "checkPort"), NEW q \in Paths \ Own(g)
               PROVE  ~HasPort(ConfigsAt(q)', j.want.conf.port)
    BY <1>1, <1>2 DEF Cleared, Own
  <2>1. j.op \in OfTarget
    BY CallsOf, Holders DEF Callers
  <2>2. j.want.conf.port \notin Claims(job[h])
    BY <1>1, <2>1, PortClaimed
  <2>3. ~HasPort(ConfigsAt(q), j.want.conf.port)
    BY <1>1 DEF Minded, Cleared
  <2> QED BY <2>2, <2>3 DEF HasPort, PortFrame
<1>7. PortCopied(g)'
  <2> SUFFICES ASSUME Copying(g) \/ j.op = "restore"
               PROVE  HasPort(({bak'[j.row.path]} \ {None}) \cup shelf'[j.row.path], j.row.port)
    BY <1>1, <1>2 DEF PortCopied, Copying, Copies
  <2>1. j.op \in OfRow
    BY CallsOf, Holders DEF Callers, Copying
  <2>2. j.row.path \in Claims(j) /\ j.row.path \in Paths
    BY <2>1, ClaimsOf DEF Row
  <2> QED BY <1>1, <2>2 DEF Frame, Minded, PortCopied, Copies
<1> QED BY <1>3, <1>4, <1>5, <1>6, <1>7 DEF Minded

\* It is enough to look at the rows under the paths a handler claims, at the
\* ports taken, and at the handler itself.
LEMMA OrderlyBy ==
  ASSUME TypeOK, Safe, Orderly, NEW h \in Handlers, Busy(h), Frame(h), PortFrame(h),
         \A i \in Ids : rows'[i] # None /\ rows'[i].path \in Claims(job[h]) => PortKept(i)',
         PortsApart', job'[h] = Idle \/ Minded(h)'
  PROVE  Orderly'
<1>1. ASSUME NEW i \in Ids, rows'[i] # None, rows'[i].path \notin Claims(job[h])
      PROVE  PortKept(i)'
  <2>1. /\ rows[i] # None /\ rows'[i].path = rows[i].path
        /\ rows'[i].port = rows[i].port /\ rows'[i].archived = rows[i].archived
        /\ rows[i].path \in Paths
    BY <1>1 DEF Frame, PortFrame, TypeOK, Row
  <2> DEFINE p == rows[i].path
  <2>2. ini'[p] = ini[p] /\ bak'[p] = bak[p] /\ shelf'[p] = shelf[p]
    BY <1>1, <2>1 DEF Frame
  <2>3. PortKept(i)
    BY <2>1 DEF Orderly, Live
  <2> QED BY <2>1, <2>2, <2>3 DEF PortKept, ConfigsAt, Copies
<1>2. \A i \in Live' : PortKept(i)'
  BY <1>1 DEF Live
<1>3. ASSUME NEW g \in Handlers, Busy(g)' PROVE Minded(g)'
  BY <1>3, OthersMinded, IdleType DEF Frame, Others, Busy
<1> QED BY <1>2, <1>3 DEF Orderly

\* Who comes back with .bak, after a step of one handler.
LEMMA ReturnsKept ==
  ASSUME TypeOK, NEW h \in Handlers, Busy(h), Others(h),
         Busy(h)' /\ Copying(h)' => Copying(h) /\ job'[h].id = job[h].id,
         NEW i, Returns(i)', ~rows'[i].archived
  PROVE  Returns(i)
<1>1. PICK g \in Handlers : Busy(g)' /\ job'[g].id = i /\ Copying(g)'
  BY DEF Returns
<1>2. CASE g = h
  BY <1>1, <1>2 DEF Returns
<1>3. CASE g # h
  <2>1. job'[g] = job[g]
    BY <1>3 DEF Others
  <2> QED BY <1>1, <2>1 DEF Returns, Busy, Copying, Past
<1> QED BY <1>2, <1>3

\* Ports stay apart where no service takes a new one but k, and k a free one.
LEMMA ApartBy ==
  ASSUME PortsApart, NEW k,
         \A i \in Live' \ {k}, x \in Ports : i \in Live /\ (Takes(i, x)' => Takes(i, x)),
         \A i \in Live \ {k}, x \in Ports : k \in Live' /\ Takes(k, x)' => ~Takes(i, x)
  PROVE  PortsApart'
BY DEF PortsApart

\* What a service takes is in its files.
LEMMA TakenPorts ==
  ASSUME TypeOK, NEW i \in Live, PortKept(i), NEW x, Takes(i, x)
  PROVE  HasPort(ConfigsAt(rows[i].path), x)
BY DEF PortKept, Takes, HasPort, ConfigsAt

\* The port a create or an update was cleared for is nobody else's.
LEMMA TargetPortFree ==
  ASSUME TypeOK, PathsUnique, Safe, Orderly, NEW h \in Handlers, Busy(h),
         Past(h, "checkRows"), Past(h, "checkPort"),
         NEW i \in Live \ {job[h].id}
  PROVE  ~Takes(i, job[h].want.conf.port)
<1> DEFINE j == job[h]
<1>1. j.op \in {"create", "update"} /\ Secured(h) /\ Minded(h) /\ ~Past(h, "dropRow")
  BY CallsOf DEF Callers, Safe, Orderly
<1>2. rows[i].path \in Paths /\ rows[i].path # j.want.path
  BY <1>1 DEF Live, TypeOK, Row, Secured, Free
<1>3. j.op = "update" => rows[i].path # j.row.path
  BY <1>1, Holders, RowAtPath
<1>4. ~HasPort(ConfigsAt(rows[i].path), j.want.conf.port)
  BY <1>1, <1>2, <1>3 DEF Minded, Cleared, Own
<1>5. PortKept(i)
  BY DEF Orderly
<1> QED BY <1>4, <1>5, TakenPorts

-----------------------------------------------------------------------------
(***************************************************************************)
(* What a handler keeps for itself.                                        *)
(***************************************************************************)

\* Rows keep path, port and archive mark.
PortsCalm ==
  \A i \in Ids : /\ rows'[i] # None <=> rows[i] # None
                 /\ rows[i] # None => /\ rows'[i].path = rows[i].path
                                      /\ rows'[i].port = rows[i].port
                                      /\ rows'[i].archived = rows[i].archived

Moved(h) == Onward(h) \/ Pauses(h) \/ Undoes(h)

LEMMA MovedKeeps ==
  ASSUME TypeOK, NEW h \in Handlers, Busy(h), Moved(h)
  PROVE  /\ job'[h].id = job[h].id /\ job'[h].row = job[h].row /\ job'[h].want = job[h].want
         /\ Busy(h)'
         /\ \/ job'[h].op = job[h].op /\ (Onward(h) \/ Pauses(h))
            \/ job[h].op = "create" /\ job'[h].op = "undoCreate" /\ Undoes(h)
            \/ job[h].op = "update" /\ job'[h].op = "undoUpdate" /\ Undoes(h)
BY UndoKeeps, PastGrows DEF Moved, Onward, Pauses, SameJob

LEMMA EntryKept ==
  ASSUME TypeOK, NEW h \in Handlers, Busy(h), Entry(h), Moved(h), ~At(h, "dropRow"),
         job[h].op \in OfRow => /\ rows'[job[h].id].port = rows[job[h].id].port
                                /\ rows'[job[h].id].archived = rows[job[h].id].archived
  PROVE  Entry(h)'
<1>1. /\ job'[h].id = job[h].id /\ job'[h].row = job[h].row
      /\ \/ job'[h].op = job[h].op /\ (Onward(h) \/ Pauses(h))
         \/ job[h].op = "create" /\ job'[h].op = "undoCreate"
         \/ job[h].op = "update" /\ job'[h].op = "undoUpdate"
  BY MovedKeeps
<1>2. CASE job'[h].op = job[h].op /\ (Onward(h) \/ Pauses(h))
  <2>1. Past(h, "dropRow")' <=> Past(h, "dropRow")
    BY <1>2, PastGrows
  <2> QED BY <1>1, <1>2, <2>1 DEF Entry
<1>3. CASE job'[h].op = "undoCreate"
  BY <1>3 DEF Entry, OfRow
<1>4. CASE job[h].op = "update" /\ job'[h].op = "undoUpdate"
  <2>1. ~Past(h, "dropRow")
    BY <1>4, CallsOf DEF Callers
  <2> QED BY <1>1, <1>4, <2>1, Holders DEF Entry
<1> QED BY <1>1, <1>2, <1>3, <1>4

LEMMA ReadingsKept ==
  ASSUME TypeOK, NEW h \in Handlers, Busy(h), About(h), FileRead(h), Moved(h),
         SameReads(h) \/ Undoes(h), job[h].op = "sync" => ini' = ini
  PROVE  (About(h) /\ FileRead(h))'
<1>1. CASE Undoes(h)
  <2>1. job'[h].op \in {"undoCreate", "undoUpdate"}
    BY <1>1, UndoKeeps
  <2> QED BY <2>1 DEF About, FileRead, RuntimeOps
<1>2. CASE SameReads(h) /\ ~Undoes(h)
  <2>1. job'[h].op = job[h].op /\ job'[h].row = job[h].row
    BY <1>2, MovedKeeps
  <2> QED BY <1>2, <2>1 DEF About, FileRead, SameReads
<1> QED BY <1>1, <1>2

LEMMA ClearedKept ==
  ASSUME TypeOK, NEW h \in Handlers, Busy(h), Cleared(h), Moved(h), ~At(h, "checkPort"),
         \A q \in Paths \ Own(h) : ConfigsAt(q)' \subseteq ConfigsAt(q)
  PROVE  Cleared(h)'
<1>1. CASE Undoes(h)
  BY <1>1, PastGrows DEF Cleared
<1>2. CASE Onward(h) \/ Pauses(h)
  <2>1. Past(h, "checkPort")' <=> Past(h, "checkPort")
    BY <1>2, PastGrows
  <2>2. job'[h].op = job[h].op /\ job'[h].row = job[h].row /\ job'[h].want = job[h].want
    BY <1>2 DEF Onward, Pauses, SameJob
  <2>3. Own(h)' = Own(h)
    BY <2>2 DEF Own
  <2> SUFFICES ASSUME Past(h, "checkPort"), NEW q \in Paths \ Own(h)
               PROVE  ~HasPort(ConfigsAt(q)', job[h].want.conf.port)
    BY <2>1, <2>2, <2>3 DEF Cleared
  <2> QED BY DEF Cleared, HasPort
<1> QED BY <1>1, <1>2 DEF Moved

LEMMA PortCopiedKept ==
  ASSUME TypeOK, NEW h \in Handlers, Busy(h), PortCopied(h), Moved(h), ~At(h, "backup"),
         NEW p, p = job[h].row.path,
         Copying(h) \/ job[h].op = "restore" => Copies(p)' = Copies(p)
  PROVE  PortCopied(h)'
<1>1. job'[h].row = job[h].row /\ (job'[h].op = "restore" => job[h].op = "restore") /\ Busy(h)'
  BY MovedKeeps
<1>2. Copying(h)' => Copying(h)
  BY <1>1, CopyingKept DEF Moved, Falls
<1>3. Copying(h)' \/ job'[h].op = "restore" =>
        HasPort(Copies(p)', job[h].row.port)
  BY <1>1, <1>2 DEF PortCopied
<1> QED BY <1>1, <1>3 DEF PortCopied, Copies

-----------------------------------------------------------------------------
(***************************************************************************)
(* Steps that touch neither files nor what a row says of its port.         *)
(***************************************************************************)
LEMMA CalmOrderly ==
  ASSUME TypeOK, Safe, Orderly, NEW h \in Handlers, Busy(h), Frame(h), PortsCalm,
         UNCHANGED files, Falls(h) \/ Onward(h) \/ Pauses(h),
         job'[h] = Idle \/ ~At(h, "backup"), job'[h] = Idle \/ Minded(h)'
  PROVE  Orderly'
<1>1. \A q : ConfigsAt(q)' = ConfigsAt(q) /\ Copies(q)' = Copies(q)
  BY DEF ConfigsAt, Copies, files
<1>2. PortFrame(h)
  BY <1>1 DEF PortFrame, PortsCalm
<1>3. ASSUME NEW i \in Ids, rows'[i] # None PROVE PortKept(i)'
  <2>1. /\ rows'[i].path = rows[i].path /\ rows'[i].port = rows[i].port
        /\ rows'[i].archived = rows[i].archived /\ i \in Live
    BY <1>3 DEF PortsCalm, Live
  <2> QED BY <1>1, <2>1 DEF PortKept, Orderly
<1>4. Busy(h)' /\ Copying(h)' => Copying(h) /\ job'[h].id = job[h].id
  BY CopyingKept, IdleType DEF Busy
<1>5. ASSUME NEW i \in Live', NEW x \in Ports, Takes(i, x)' PROVE i \in Live /\ Takes(i, x)
  <2>1. /\ rows'[i].path = rows[i].path /\ rows'[i].port = rows[i].port
        /\ rows'[i].archived = rows[i].archived /\ i \in Live
    BY <1>5 DEF PortsCalm, Live
  <2>2. Returns(i)' => Returns(i)
    BY <1>4, <2>1, ReturnsKept DEF Frame, Returns
  <2> QED BY <1>5, <2>1, <2>2 DEF Takes, files
<1>6. PortsApart'
  BY <1>5 DEF PortsApart, Orderly
<1> QED BY <1>2, <1>3, <1>6, OrderlyBy

LEMMA CallRuns ==
  ASSUME TypeOK, NEW h \in Handlers, Busy(h),
         \/ Proceed(h) \/ Refuse(h) \/ Reported(h)
         \/ job' = [job EXCEPT ![h] = Failed(@)]
  PROVE  Others(h) /\ (job'[h] = Idle \/ Undoes(h) \/ (Onward(h) /\ SameReads(h)))
<1>1. Others(h) /\ (Onward(h) \/ Falls(h))
  BY CallLeads DEF Falls
<1>2. Onward(h) => SameReads(h)
  BY ReadsKept
<1> QED BY <1>1, <1>2 DEF Falls

LEMMA CalmCall ==
  ASSUME TypeOK, Safe, Orderly, NEW h \in Handlers, Busy(h), Others(h), RowsCalm, PortsCalm,
         UNCHANGED files,
         \/ job'[h] = Idle
         \/ Undoes(h)
         \/ /\ (Onward(h) \/ Pauses(h)) /\ SameReads(h)
            /\ \A s \in {"backup", "dropRow", "checkPort"} : ~At(h, s)
  PROVE  Orderly'
<1>1. Frame(h)
  BY DEF Frame, RowsCalm, files
<1>2. ASSUME job'[h] # Idle PROVE Minded(h)' /\ ~At(h, "backup")
  <2>1. Minded(h) /\ Moved(h) /\ (SameReads(h) \/ Undoes(h))
    BY <1>2 DEF Moved, Orderly
  <2>2. \A s \in {"backup", "dropRow", "checkPort"} : ~At(h, s)
    BY <1>2 DEF Undoes, At
  <2>3. \A q : ConfigsAt(q)' = ConfigsAt(q) /\ Copies(q)' = Copies(q)
    BY DEF ConfigsAt, Copies, files
  <2>4. Entry(h)'
    <3>1. ASSUME job[h].op \in OfRow, ~Past(h, "dropRow")
          PROVE  /\ rows'[job[h].id].port = rows[job[h].id].port
                 /\ rows'[job[h].id].archived = rows[job[h].id].archived
      BY <3>1, ClaimsOf DEF PortsCalm, Safe, Secured, Held
    <3>2. CASE job[h].op \in OfRow /\ Past(h, "dropRow")
      <4>1. Past(h, "dropRow")' \/ Undoes(h)
        BY <2>1, <3>2, PastGrows DEF Moved
      <4>2. ~Undoes(h)
        BY <3>2, CallsOf, UndoKeeps DEF Callers
      <4> QED BY <4>1, <4>2 DEF Entry
    <3> QED BY <2>1, <2>2, <3>1, <3>2, EntryKept DEF Minded, Entry
  <2>5. (About(h) /\ FileRead(h))'
    BY <2>1, ReadingsKept DEF Minded, files
  <2>6. Cleared(h)'
    BY <2>1, <2>2, <2>3, ClearedKept DEF Minded
  <2>7. PortCopied(h)'
    BY <2>1, <2>2, <2>3, PortCopiedKept DEF Minded
  <2> QED BY <2>2, <2>4, <2>5, <2>6, <2>7 DEF Minded
<1>3. Falls(h) \/ Onward(h) \/ Pauses(h)
  BY DEF Falls
<1> QED BY <1>1, <1>2, <1>3, CalmOrderly

LEMMA CalmStepsOrderly ==
  ASSUME TypeOK, Safe, Orderly, NEW h \in Handlers,
         (Check(h) /\ ~At(h, "checkPort")) \/ Control(h) \/ CallFails(h)
  PROVE  Orderly'
<1>1. /\ Busy(h) /\ UNCHANGED <<db, files>>
      /\ \/ Proceed(h) \/ Refuse(h) \/ Reported(h)
         \/ job' = [job EXCEPT ![h] = Failed(@)]
      /\ CallFails(h) \/ \A s \in {"backup", "dropRow", "checkPort"} : ~At(h, s)
  BY DEF Check, ReadConfig, CheckRows, CheckTarget, CheckPort, Control, Apply, Stop, Start,
         CallFails, At
<1>2. Others(h) /\ (job'[h] = Idle \/ Undoes(h) \/ (Onward(h) /\ SameReads(h)))
  BY <1>1, CallRuns
<1>3. CallFails(h) /\ Onward(h) /\ job'[h] # Idle /\ ~Undoes(h)
        => \A s \in {"backup", "dropRow", "checkPort"} : ~At(h, s)
  BY <1>1, CallLeads DEF CallFails, Falls, At
<1>4. RowsCalm /\ PortsCalm /\ UNCHANGED files
  BY <1>1 DEF RowsCalm, PortsCalm, db
<1> QED BY <1>1, <1>2, <1>3, <1>4, CalmCall

LEMMA SaveStatusPorts ==
  ASSUME TypeOK, NEW h \in Handlers, SaveStatus(h)
  PROVE  PortsCalm
<1>1. CASE job[h].seen = {}
  BY <1>1 DEF SaveStatus, PortsCalm
<1>2. CASE job[h].seen # {}
  <2>1. PICK e \in job[h].seen :
          rows' = [i \in Ids |-> IF i \in Named(e[1]) THEN [rows[i] EXCEPT !.status = e[2]]
                                                    ELSE rows[i]]
    BY <1>2 DEF SaveStatus, UpdateNamed
  <2> SUFFICES ASSUME NEW i \in Ids, rows[i] # None
               PROVE  rows'[i].port = rows[i].port /\ rows'[i].archived = rows[i].archived
    BY StatusCalm DEF PortsCalm, RowsCalm
  <2>2. rows[i] \in Row
    BY DEF TypeOK
  <2> QED BY <2>1, <2>2 DEF Row
<1> QED BY <1>1, <1>2

LEMMA SaveStatusReads ==
  ASSUME TypeOK, NEW h \in Handlers, SaveStatus(h)
  PROVE  job'[h] = Idle \/ SameReads(h)
<1> DEFINE j == job[h]
<1>1. Busy(h) /\ At(h, "saveStatus") /\ j \in Job /\ job \in [Handlers -> Job]
  BY DEF SaveStatus, At, TypeOK
<1>2. job'[h] = Idle \/ Onward(h) \/ Pauses(h)
  BY SaveStatusLeads
<1>3. CASE j.seen = {}
  BY <1>1, <1>2, <1>3, ReadsKept, CallRuns DEF SaveStatus, Undoes, At
<1>4. CASE j.seen # {}
  <2>1. PICK e \in j.seen :
          job' = [job EXCEPT ![h] = IF j.seen = {e} THEN After(j)
                                    ELSE [j EXCEPT !.seen = j.seen \ {e}]]
    BY <1>4 DEF SaveStatus
  <2>2. \/ job'[h] = Idle
        \/ job'[h] = [j EXCEPT !.pc = j.pc + 1]
        \/ job'[h] = [j EXCEPT !.seen = j.seen \ {e}]
    BY <1>1, <2>1 DEF After
  <2> QED BY <1>1, <2>2 DEF SameReads, Job, Locals
<1> QED BY <1>3, <1>4

LEMMA SaveStatusOrderly ==
  ASSUME TypeOK, Safe, Orderly, NEW h \in Handlers, SaveStatus(h)
  PROVE  Orderly'
<1>1. Busy(h) /\ At(h, "saveStatus") /\ UNCHANGED files
  BY DEF SaveStatus, At, files
<1>2. Others(h) /\ (job'[h] = Idle \/ Onward(h) \/ Pauses(h)) /\ RowsCalm
  BY SaveStatusLeads, StatusCalm
<1>3. PortsCalm
  BY SaveStatusPorts
<1>4. job'[h] = Idle \/ SameReads(h)
  BY SaveStatusReads
<1>5. \A s \in {"backup", "dropRow", "checkPort"} : ~At(h, s)
  BY <1>1 DEF At
<1> QED BY <1>1, <1>2, <1>3, <1>4, <1>5, CalmCall

\* A port that passed its check is in no file but the handler's own.
LEMMA CheckPortOrderly ==
  ASSUME TypeOK, Safe, Orderly, NEW h \in Handlers, CheckPort(h)
  PROVE  Orderly'
<1> DEFINE j == job[h]
<1>1. /\ Busy(h) /\ At(h, "checkPort") /\ UNCHANGED <<db, files>> /\ Secured(h) /\ Minded(h)
      /\ Refuse(h) \/ (~PortRefused(j) /\ Proceed(h))
  BY DEF CheckPort, At, Safe, Orderly
<1>2. RowsCalm /\ PortsCalm /\ UNCHANGED files
  BY <1>1 DEF RowsCalm, PortsCalm, db
<1>3. ~Undoes(h) /\ ~At(h, "backup") /\ ~At(h, "dropRow") /\ ~At(h, "rmBackup") /\ ~At(h, "apply")
  BY <1>1 DEF Undoes, At
<1>4. CASE Refuse(h)
  <2>1. Others(h) /\ job'[h] = Idle
    BY <1>1, <1>3, <1>4, CallLeads DEF Falls
  <2> QED BY <1>1, <1>2, <2>1, CalmCall
<1>5. CASE ~PortRefused(j) /\ Proceed(h)
  <2>1. Others(h) /\ (job'[h] = Idle \/ (Onward(h) /\ SameReads(h)))
    BY <1>1, <1>3, <1>5, CallRuns
  <2>2. CASE job'[h] = Idle
    BY <1>1, <1>2, <2>1, <2>2, CalmCall
  <2>3. CASE Onward(h) /\ SameReads(h)
    <3>1. /\ Moved(h) /\ j.op \in {"create", "update"} /\ ~Past(h, "dropRow")
          /\ job'[h].op = j.op /\ job'[h].row = j.row /\ job'[h].want = j.want
      BY <1>1, <2>3, CallsOf DEF Moved, Callers, Onward, SameJob
    <3>2. Entry(h)'
      <4>1. j.op \in OfRow => /\ rows'[j.id].port = rows[j.id].port
                              /\ rows'[j.id].archived = rows[j.id].archived
        BY <1>1 DEF db
      <4> QED BY <1>1, <1>3, <3>1, <4>1, EntryKept DEF Minded
    <3>3. (About(h) /\ FileRead(h))'
      BY <1>1, <2>3, <3>1, ReadingsKept DEF Minded
    <3>4. Cleared(h)'
      <4>1. \A q \in Paths \ Own(h) : ~HasPort(ConfigsAt(q), j.want.conf.port)
        BY <1>5, <3>1 DEF Own, PortRefused, PortInFiles, HasPort
      <4>2. Own(h)' = Own(h) /\ \A q : ConfigsAt(q)' = ConfigsAt(q)
        BY <1>1, <3>1 DEF Own, ConfigsAt, files
      <4> QED BY <3>1, <4>1, <4>2 DEF Cleared
    <3>5. PortCopied(h)'
      BY <1>1, <1>3, <3>1, PortCopiedKept DEF Minded, Copies, files
    <3>6. Minded(h)'
      BY <3>2, <3>3, <3>4, <3>5 DEF Minded
    <3>7. Frame(h)
      BY <1>2, <2>1 DEF Frame, RowsCalm, files
    <3> QED BY <1>1, <1>2, <1>3, <2>3, <3>6, <3>7, CalmOrderly
  <2> QED BY <2>1, <2>2, <2>3
<1> QED BY <1>1, <1>4, <1>5

\* What the calls that read the host keep of it.
LEMMA ObserveReads ==
  ASSUME TypeOK, NEW h \in Handlers, Observe(h), Onward(h)
  PROVE  \/ /\ At(h, "status") /\ job'[h].file = job[h].file
            /\ \A e \in job'[h].seen : e[1] = Subject(job[h])
         \/ At(h, "statusAll")
         \/ /\ At(h, "readCurrent") /\ job'[h].seen = job[h].seen
            /\ job'[h].file = job[h].file \/ job'[h].file = ini[job[h].row.path]
         \/ At(h, "readBackup") /\ job'[h].seen = job[h].seen /\ job'[h].file = job[h].file
<1> DEFINE j == job[h]
<1>1. Busy(h) /\ j \in Job /\ job \in [Handlers -> Job] /\ j.op \in Ops
  BY DEF Observe, Status, StatusAll, ReadCurrent, ReadBackup, At, TypeOK, Busy
<1>2. job'[h] # Idle
  BY <1>1, IdleType DEF Onward, SameJob
<1>3. ASSUME NEW E, NEW b, See(h, E, b)
      PROVE  job'[h].seen = E /\ job'[h].file = j.file
  <2>1. job'[h] = After([j EXCEPT !.seen = E, !.hasBak = b])
    BY <1>1, <1>3 DEF See
  <2> QED BY <1>1, <1>2, <2>1 DEF After, Job, Locals
<1>4. CASE Status(h)
  <2>1. PICK v : See(h, {<<Subject(j), v>>}, FALSE)
    BY <1>4 DEF Status
  <2>2. job'[h].seen = {<<Subject(j), v>>} /\ job'[h].file = j.file
    BY <1>3, <2>1
  <2> QED BY <1>4, <2>2 DEF Status
<1>5. CASE ReadCurrent(h)
  <2>1. PICK f \in {j.file, ini[j.row.path]} :
          \/ job' = [job EXCEPT ![h] = After([j EXCEPT !.file = f])]
          \/ f = j.file /\ job' = [job EXCEPT ![h] = After(j)]
    BY <1>5 DEF ReadCurrent
  <2>2. job'[h] = After([j EXCEPT !.file = f]) \/ (f = j.file /\ job'[h] = After(j))
    BY <1>1, <2>1
  <2>3. job'[h].seen = j.seen /\ job'[h].file = f
    BY <1>1, <1>2, <2>2 DEF After, Job, Locals
  <2> QED BY <1>5, <2>3 DEF ReadCurrent
<1>6. CASE ReadBackup(h)
  <2>1. PICK b : See(h, j.seen, b)
    BY <1>6 DEF ReadBackup
  <2> QED BY <1>3, <1>6, <2>1 DEF ReadBackup
<1> QED BY <1>4, <1>5, <1>6 DEF Observe, StatusAll

LEMMA ObserveOrderly ==
  ASSUME TypeOK, Safe, Orderly, NEW h \in Handlers, Observe(h)
  PROVE  Orderly'
<1> DEFINE j == job[h]
<1>1. /\ Busy(h) /\ UNCHANGED <<db, files>> /\ Minded(h) /\ Secured(h)
      /\ \A s \in {"backup", "dropRow", "checkPort"} : ~At(h, s)
  BY DEF Observe, Status, StatusAll, ReadCurrent, ReadBackup, At, Orderly, Safe
<1>2. RowsCalm /\ PortsCalm /\ UNCHANGED files
  BY <1>1 DEF RowsCalm, PortsCalm, db
<1>3. Others(h) /\ (job'[h] = Idle \/ Onward(h))
  BY ObserveLeads
<1>4. CASE job'[h] = Idle
  BY <1>1, <1>2, <1>3, <1>4, CalmCall
<1>5. CASE Onward(h)
  <2>1. Moved(h) /\ job'[h].op = j.op /\ job'[h].row = j.row
    BY <1>5 DEF Moved, Onward, SameJob
  <2>2. CASE SameReads(h)
    BY <1>1, <1>2, <1>3, <1>5, <2>2, CalmCall
  <2>3. CASE ~SameReads(h)
    <3>1. Entry(h)'
      <4>1. j.op \in OfRow => /\ rows'[j.id].port = rows[j.id].port
                              /\ rows'[j.id].archived = rows[j.id].archived
        BY <1>1 DEF db
      <4> QED BY <1>1, <2>1, <4>1, EntryKept DEF Minded
    <3>2. (About(h) /\ FileRead(h))'
      <4>1. CASE At(h, "status") /\ job'[h].file = j.file
                 /\ \A e \in job'[h].seen : e[1] = Subject(j)
        BY <1>1, <2>1, <4>1 DEF About, FileRead, Minded, Subject, RuntimeOps, files
      <4>2. CASE At(h, "statusAll")
        <5>1. j.op = "refresh"
          BY <1>1, <4>2, CallsOf DEF Callers
        <5> QED BY <2>1, <5>1 DEF About, FileRead, RuntimeOps
      <4>3. CASE job'[h].seen = j.seen
                 /\ (job'[h].file = j.file \/ job'[h].file = ini[j.row.path])
        BY <1>1, <2>1, <4>3 DEF About, FileRead, Minded, files
      <4> QED BY <1>5, <4>1, <4>2, <4>3, ObserveReads
    <3>3. Cleared(h)'
      <4>1. \A q : ConfigsAt(q)' = ConfigsAt(q)
        BY <1>1 DEF ConfigsAt, files
      <4> QED BY <1>1, <2>1, <4>1, ClearedKept DEF Minded
    <3>4. PortCopied(h)'
      BY <1>1, <2>1, PortCopiedKept DEF Minded, Copies, files
    <3>5. Minded(h)'
      BY <3>1, <3>2, <3>3, <3>4 DEF Minded
    <3>6. Frame(h)
      BY <1>2, <1>3 DEF Frame, RowsCalm, files
    <3> QED BY <1>1, <1>2, <1>5, <3>5, <3>6, CalmOrderly
  <2> QED BY <2>2, <2>3
<1> QED BY <1>3, <1>4, <1>5

-----------------------------------------------------------------------------
(***************************************************************************)
(* File commands.                                                          *)
(***************************************************************************)
LEMMA FileCallRuns ==
  ASSUME TypeOK, NEW h \in Handlers, FileCmd(h)
  PROVE  /\ Busy(h) /\ job[h].op \in {"create", "undoCreate", "update", "undoUpdate",
                                      "archive", "restore", "delete"}
         /\ \A s \in {"dropRow", "checkPort"} : ~At(h, s)
         /\ Others(h) /\ (job'[h] = Idle \/ (Onward(h) /\ SameReads(h)))
<1>1. PICK t \in {"write", "backup", "copyBack", "rmOld", "rmTarget", "rmBackup", "rmFile"} :
        At(h, t)
  BY DEF FileCmd, Write, Backup, CopyBack, RemoveOld, RemoveTarget, RemoveBackup, RemoveFile
<1>2. Busy(h) /\ ~Undoes(h) /\ \A s \in {"dropRow", "checkPort"} : ~At(h, s)
  BY <1>1 DEF At, Undoes
<1>3. job[h].op \in {"create", "undoCreate", "update", "undoUpdate", "archive", "restore",
                     "delete"}
  BY <1>1, CallsOf DEF Callers
<1>4. \/ Proceed(h) \/ Refuse(h) \/ Reported(h)
      \/ job' = [job EXCEPT ![h] = Failed(@)]
      \/ job' = [job EXCEPT ![h] = Idle]
  BY DEF FileCmd, Write, Backup, CopyBack, RemoveOld, RemoveTarget, RemoveBackup, RemoveFile
<1>5. job' = [job EXCEPT ![h] = Idle] => Others(h) /\ job'[h] = Idle
  BY DEF Others, TypeOK
<1> QED BY <1>2, <1>3, <1>4, <1>5, CallRuns

\* It is enough to look at the path a command touches.
LEMMA FileOrderly ==
  ASSUME TypeOK, PathsUnique, Safe, Orderly, NEW h \in Handlers, FileCmd(h),
         NEW p \in Paths, p \in Claims(job[h]),
         NEW w, w = job[h].want, NEW k, k = job[h].id,
         \A q \in Paths \ {p} : ini'[q] = ini[q] /\ bak'[q] = bak[q] /\ shelf'[q] = shelf[q],
         \A c \in ConfigsAt(p)' : c \in ConfigsAt(p) \/ (At(h, "write") /\ p = w.path /\ c = w.conf),
         \A i \in Live : rows[i].path = p => PortKept(i)',
         \A i \in Live, x \in Ports : rows[i].path = p /\ Takes(i, x)' =>
           Takes(i, x) \/ (At(h, "write") /\ i = k /\ x = w.conf.port),
         \A i \in Live : rows[i].path # p /\ Returns(i)' => Returns(i),
         Onward(h) => PortCopied(h)'
  PROVE  Orderly'
<1>1. /\ Busy(h) /\ Others(h) /\ (job'[h] = Idle \/ (Onward(h) /\ SameReads(h)))
      /\ ~At(h, "dropRow") /\ ~At(h, "checkPort") /\ job[h].op # "sync"
      /\ Secured(h) /\ Minded(h)
  BY FileCallRuns DEF Safe, Orderly
<1>2. rows' = rows /\ RowsCalm
  BY FileCalm
<1>3. Frame(h)
  BY <1>1, <1>2 DEF Frame, RowsCalm
<1>4. \A q \in Paths \ {p} : ConfigsAt(q)' = ConfigsAt(q) /\ Copies(q)' = Copies(q)
  BY DEF ConfigsAt, Copies
<1>5. PortFrame(h)
  <2> SUFFICES ASSUME NEW q \in Paths, NEW c, c \in ConfigsAt(q)'
               PROVE  c \in ConfigsAt(q) \/ c.port \in Claims(job[h])
    BY <1>2 DEF PortFrame
  <2>1. At(h, "write") => w.conf.port \in Claims(job[h])
    BY <1>1, CallsOf, PortClaimed, Holders DEF Callers
  <2> QED BY <1>4, <2>1
<1>6. \A i \in Ids : rows'[i] # None /\ rows'[i].path \in Claims(job[h]) => PortKept(i)'
  <2> SUFFICES ASSUME NEW i \in Live PROVE PortKept(i)'
    BY <1>2 DEF Live
  <2>1. CASE rows[i].path = p
    BY <2>1
  <2>2. CASE rows[i].path # p
    <3>1. rows[i].path \in Paths \ {p} /\ PortKept(i)
      BY <2>2 DEF Live, TypeOK, Row, Orderly
    <3> QED BY <1>2, <1>4, <3>1 DEF PortKept
  <2> QED BY <2>1, <2>2
<1>7. \A i \in Live, x \in Ports : Takes(i, x)' =>
        Takes(i, x) \/ (At(h, "write") /\ i = k /\ x = w.conf.port)
  <2> SUFFICES ASSUME NEW i \in Live, NEW x \in Ports, rows[i].path # p, Takes(i, x)'
               PROVE  Takes(i, x)
    OBVIOUS
  <2>1. rows[i].path \in Paths \ {p} /\ (Returns(i)' => Returns(i))
    BY DEF Live, TypeOK, Row
  <2> QED BY <1>2, <2>1 DEF Takes
<1>8. PortsApart'
  <2>1. Live' = Live
    BY <1>2 DEF Live
  <2>2. \A i \in Live \ {k}, x \in Ports : k \in Live /\ Takes(k, x)' => ~Takes(i, x)
    <3> SUFFICES ASSUME NEW i \in Live \ {k}, NEW x \in Ports, k \in Live, Takes(k, x)'
                 PROVE  ~Takes(i, x)
      OBVIOUS
    <3>1. CASE Takes(k, x)
      BY <3>1 DEF Orderly, PortsApart
    <3>2. CASE At(h, "write") /\ x = w.conf.port
      <4>1. Past(h, "checkRows") /\ Past(h, "checkPort")
        BY <3>2, OrderOfCalls DEF Behind
      <4> QED BY <1>1, <3>2, <4>1, TargetPortFree
    <3> QED BY <1>7, <3>1, <3>2
  <2> QED BY <1>7, <2>1, <2>2, ApartBy DEF Orderly
<1>9. ASSUME Onward(h), SameReads(h) PROVE Minded(h)'
  <2>1. Moved(h)
    BY <1>9 DEF Moved
  <2>2. Entry(h)'
    BY <1>1, <1>2, <2>1, EntryKept DEF Minded
  <2>3. (About(h) /\ FileRead(h))'
    BY <1>1, <1>9, <2>1, ReadingsKept DEF Minded
  <2>4. Cleared(h)'
    <3>1. \A q \in Paths \ Own(h) : ConfigsAt(q)' \subseteq ConfigsAt(q)
      BY <1>4 DEF Own
    <3> QED BY <1>1, <2>1, <3>1, ClearedKept DEF Minded
  <2> QED BY <1>9, <2>2, <2>3, <2>4 DEF Minded
<1> QED BY <1>1, <1>3, <1>5, <1>6, <1>8, <1>9, OrderlyBy

LEMMA ReturnsStay ==
  ASSUME TypeOK, NEW h \in Handlers, FileCmd(h), ~At(h, "backup"), NEW i, Returns(i)'
  PROVE  Returns(i)
<1>1. Busy(h) /\ Others(h) /\ (job'[h] = Idle \/ Onward(h)) /\ rows' = rows
  BY FileCallRuns, FileCalm
<1>2. Busy(h)' /\ Copying(h)' => Copying(h) /\ job'[h].id = job[h].id
  BY <1>1, CopyingKept, IdleType DEF Busy, Falls
<1>3. CASE rows[i].archived
  BY <1>3 DEF Returns
<1>4. CASE ~rows[i].archived
  BY <1>1, <1>2, <1>4, ReturnsKept
<1> QED BY <1>3, <1>4

\* Who has a backup behind it keeps the port there.
LEMMA CopiesKept ==
  ASSUME TypeOK, NEW h \in Handlers, Busy(h), Minded(h), Onward(h), ~At(h, "backup"),
         UNCHANGED <<bak, shelf>>
  PROVE  PortCopied(h)'
BY PortCopiedKept DEF Minded, Moved, Copies

\* A config is written where no row, or the updated one, keeps its own.
LEMMA WriteOrderly ==
  ASSUME TypeOK, PathsUnique, Safe, Orderly, NEW h \in Handlers, Write(h),
         NEW w, w = job[h].want, NEW k, k = job[h].id, NEW p, p = w.path
  PROVE  Orderly'
<1> DEFINE j == job[h]
<1>1. /\ At(h, "write") /\ ~At(h, "backup") /\ Busy(h) /\ Secured(h) /\ Minded(h)
      /\ UNCHANGED <<bak, shelf>> /\ ini' = [ini EXCEPT ![p] = w.conf] /\ FileCmd(h)
  BY DEF Write, At, Safe, Orderly, FileCmd
<1>2. j.op \in {"create", "update"} /\ Past(h, "checkRows")
      /\ (j.op = "update" => Past(h, "backup"))
  BY <1>1, CallsOf, OrderOfCalls DEF Callers, Behind
<1>3. w \in Target /\ p \in Claims(j) /\ p \in Paths
  BY <1>1, <1>2, ClaimsOf, Holders DEF Target
<1>4. rows' = rows
  BY <1>1, FileCalm
<1>5. \A q \in Paths \ {p} : ini'[q] = ini[q] /\ bak'[q] = bak[q] /\ shelf'[q] = shelf[q]
  BY <1>1 DEF TypeOK
<1>6. ini'[p] = w.conf
  BY <1>1, <1>3 DEF TypeOK
<1>7. \A c \in ConfigsAt(p)' : c \in ConfigsAt(p) \/ c = w.conf
  BY <1>1, <1>6 DEF ConfigsAt
<1>8. ASSUME NEW i \in Live, rows[i].path = p PROVE PortKept(i)' /\ i = k
  <2>1. i = k
    BY <1>1, <1>2, <1>8 DEF Secured, Free
  <2>2. j.op = "update" /\ ~Past(h, "dropRow")
    BY <1>1, <1>2, <2>1, CallsOf DEF Secured, Rowless, Live, Ids, Callers
  <2>3. rows[i].path = j.row.path /\ rows[i].port = j.row.port
    BY <1>1, <2>1, <2>2, Holders DEF Secured, Held, Minded, Entry
  <2>4. HasPort(Copies(p), rows[i].port)
    BY <1>1, <1>2, <1>8, <2>2, <2>3 DEF Minded, PortCopied, Copying
  <2>5. Copies(p)' = Copies(p) /\ Copies(p) \subseteq ConfigsAt(p)'
    BY <1>1 DEF Copies, ConfigsAt
  <2> QED BY <1>4, <1>8, <2>1, <2>4, <2>5 DEF PortKept, HasPort
<1>9. ASSUME NEW i \in Live, NEW x \in Ports, rows[i].path = p, Takes(i, x)'
      PROVE  Takes(i, x) \/ x = w.conf.port
  <2>1. Returns(i)' => Returns(i)
    BY <1>1, ReturnsStay
  <2> QED BY <1>1, <1>4, <1>6, <1>9, <2>1 DEF Takes
<1>10. \A i \in Live : Returns(i)' => Returns(i)
  BY <1>1, ReturnsStay
<1>11. Onward(h) => PortCopied(h)'
  BY <1>1, CopiesKept
<1> QED BY <1>1, <1>3, <1>5, <1>7, <1>8, <1>9, <1>10, <1>11, FileOrderly

\* A backup drops nothing.
LEMMA BackupOrderly ==
  ASSUME TypeOK, PathsUnique, Safe, Orderly, NEW h \in Handlers, Backup(h),
         NEW k, k = job[h].id, NEW p, p = job[h].row.path
  PROVE  Orderly'
<1> DEFINE j == job[h]
<1>1. At(h, "backup") /\ Busy(h) /\ Secured(h) /\ Minded(h) /\ UNCHANGED ini /\ FileCmd(h)
  BY DEF Backup, At, Safe, Orderly, FileCmd
<1>2. j.op \in {"update", "archive"} /\ ~Past(h, "dropRow") /\ j.op \in OfRow
  BY <1>1, CallsOf, Holders DEF Callers
<1>3. j.row \in Row /\ p \in Claims(j) /\ p \in Paths /\ k \in Live /\ rows[k].path = p
      /\ rows[k].port = j.row.port /\ ~rows[k].archived
  BY <1>1, <1>2, ClaimsOf DEF Row, Secured, Held, Open, Minded, Entry, Live
<1>4. rows' = rows /\ RowsCalm /\ PortsCalm
  BY <1>1, FileCalm DEF PortsCalm
<1>5. CASE ini[p] = None
  <2>1. UNCHANGED files /\ Refuse(h) /\ ~Undoes(h) /\ ~At(h, "rmBackup") /\ ~At(h, "apply")
    BY <1>1, <1>5 DEF Backup, files, Undoes, At
  <2>2. Others(h) /\ job'[h] = Idle
    BY <1>1, <2>1, CallLeads DEF Falls
  <2> QED BY <1>1, <1>4, <2>1, <2>2, CalmCall
<1>6. CASE ini[p] # None
  <2>1. /\ shelf' = [shelf EXCEPT ![p] = shelf[p] \cup ({bak[p]} \ {None})]
        /\ \/ bak' = [bak EXCEPT ![p] = ini[p]]
           \/ bak' = [bak EXCEPT ![p] = None] /\ job' = [job EXCEPT ![h] = Failed(@)]
    BY <1>6 DEF Backup
  <2>2. /\ shelf'[p] = shelf[p] \cup ({bak[p]} \ {None}) /\ ini'[p] = ini[p]
        /\ bak'[p] \in {ini[p], None}
        /\ bak'[p] = None => job' = [job EXCEPT ![h] = Failed(@)]
        /\ \A q \in Paths \ {p} : ini'[q] = ini[q] /\ bak'[q] = bak[q] /\ shelf'[q] = shelf[q]
    BY <1>1, <1>3, <1>6, <2>1 DEF TypeOK
  <2>3. \A c \in ConfigsAt(p)' : c \in ConfigsAt(p)
    BY <2>2 DEF ConfigsAt
  <2>4. ASSUME NEW i \in Live, rows[i].path = p PROVE PortKept(i)'
    <3>1. i = k
      BY <1>3, <2>4 DEF PathsUnique
    <3>2. ConfigsAt(p) \subseteq ConfigsAt(p)'
      BY <2>2 DEF ConfigsAt
    <3>3. PortKept(i)
      BY DEF Orderly
    <3> QED BY <1>3, <1>4, <2>4, <3>1, <3>2, <3>3 DEF PortKept, HasPort
  <2>5. \A i \in Live, x \in Ports : rows[i].path = p /\ Takes(i, x)' => Takes(i, x)
    BY <1>4, <2>2 DEF Takes
  <2>6. ASSUME NEW i \in Live, rows[i].path # p, Returns(i)' PROVE Returns(i)
    <3>1. i # k
      BY <1>3, <2>6
    <3>2. CASE rows[i].archived
      BY <3>2 DEF Returns
    <3>3. CASE ~rows[i].archived
      <4>1. PICK g \in Handlers : Busy(g)' /\ job'[g].id = i /\ Copying(g)'
        BY <1>4, <2>6, <3>3 DEF Returns
      <4>2. g # h
        BY <1>1, <3>1, <4>1, FileCallRuns, IdleType DEF Busy, Onward, SameJob
      <4>3. job'[g] = job[g]
        BY <1>1, <4>2, FileCallRuns DEF Others
      <4> QED BY <4>1, <4>3 DEF Returns, Busy, Copying, Past
    <3> QED BY <3>2, <3>3
  <2>7. ASSUME Onward(h) PROVE PortCopied(h)'
    <3>1. job'[h].row = j.row /\ ~Undoes(h) /\ ~At(h, "rmBackup") /\ ~At(h, "apply")
      BY <1>1, <2>7 DEF Onward, SameJob, Undoes, At
    <3>2. bak'[p] = ini[p]
      <4>1. job'[h] # Idle
        BY <1>1, <2>7, IdleType DEF Onward, SameJob, Busy
      <4> QED BY <1>1, <2>2, <3>1, <4>1, CallLeads DEF Falls
    <3>3. Copies(p)' = ConfigsAt(p)
      BY <2>2, <3>2 DEF Copies, ConfigsAt
    <3>4. HasPort(ConfigsAt(p), j.row.port)
      BY <1>3 DEF Orderly, PortKept
    <3> QED BY <3>1, <3>3, <3>4 DEF PortCopied, Copies
  <2> QED BY <1>1, <1>3, <2>2, <2>3, <2>4, <2>5, <2>6, <2>7, FileOrderly
<1> QED BY <1>5, <1>6

\* An .ini goes, or gives way to its .bak, where the backups hold the port.
LEMMA IniOrderly ==
  ASSUME TypeOK, PathsUnique, Safe, Orderly, NEW h \in Handlers, FileCmd(h),
         ~At(h, "backup"), ~At(h, "write"), UNCHANGED <<bak, shelf>>,
         NEW p \in Paths, p \in Claims(job[h]),
         \A q \in Paths \ {p} : ini'[q] = ini[q], ini'[p] \in {ini[p], None, bak[p]},
         \A i \in Live : rows[i].path = p =>
           ini'[p] = ini[p] \/ (HasPort(Copies(p), rows[i].port) /\ Returns(i))
  PROVE  Orderly'
<1>1. rows' = rows /\ Busy(h) /\ Minded(h)
  BY FileCalm, FileCallRuns DEF Orderly
<1>2. \A c \in ConfigsAt(p)' : c \in ConfigsAt(p)
  BY DEF ConfigsAt
<1>3. Copies(p)' = Copies(p) /\ Copies(p) \subseteq ConfigsAt(p)'
  BY DEF Copies, ConfigsAt
<1>4. ASSUME NEW i \in Live, rows[i].path = p PROVE PortKept(i)'
  <2>1. PortKept(i)
    BY DEF Orderly
  <2>2. CASE ini'[p] = ini[p]
    <3>1. ConfigsAt(p)' = ConfigsAt(p)
      BY <2>2 DEF ConfigsAt
    <3> QED BY <1>1, <1>3, <1>4, <2>1, <3>1 DEF PortKept
  <2>3. CASE HasPort(Copies(p), rows[i].port)
    BY <1>1, <1>3, <1>4, <2>3 DEF PortKept, HasPort
  <2> QED BY <1>4, <2>2, <2>3
<1>5. ASSUME NEW i \in Live, NEW x \in Ports, rows[i].path = p, Takes(i, x)'
      PROVE  Takes(i, x)
  <2>1. Returns(i)' => Returns(i)
    BY ReturnsStay
  <2> QED BY <1>1, <1>5, <2>1 DEF Takes
<1>6. \A i \in Live : Returns(i)' => Returns(i)
  BY ReturnsStay
<1>7. Onward(h) => PortCopied(h)'
  BY <1>1, CopiesKept
<1> QED BY <1>2, <1>4, <1>5, <1>6, <1>7, FileOrderly

LEMMA OwnIniOrderly ==
  ASSUME TypeOK, PathsUnique, Safe, Orderly, NEW h \in Handlers, CopyBack(h) \/ RemoveOld(h),
         NEW p, p = job[h].row.path
  PROVE  Orderly'
<1> DEFINE j == job[h]
<1>1. /\ FileCmd(h) /\ Busy(h) /\ Secured(h) /\ Minded(h) /\ UNCHANGED <<bak, shelf>>
      /\ ~At(h, "backup") /\ ~At(h, "write")
      /\ At(h, "copyBack") \/ At(h, "rmOld")
  BY DEF CopyBack, RemoveOld, At, FileCmd, Safe, Orderly
<1>2. /\ j.op \in OfRow /\ ~Past(h, "dropRow") /\ (Copying(h) \/ j.op = "restore")
  <2>1. At(h, "copyBack") => j.op \in {"restore", "undoUpdate"}
    BY CallsOf DEF Callers
  <2>2. At(h, "rmOld") => j.op \in {"update", "archive"} /\ Past(h, "backup")
    BY CallsOf, OrderOfCalls DEF Callers, Behind
  <2>3. ~Past(h, "dropRow")
    BY <1>1, <2>1, <2>2, CallsOf DEF Callers
  <2> QED BY <1>1, <2>1, <2>2, <2>3, Holders DEF Copying
<1>3. p \in Claims(j) /\ p \in Paths
  BY <1>1, <1>2, ClaimsOf DEF Row
<1>4. /\ \A q \in Paths \ {p} : ini'[q] = ini[q]
      /\ ini'[p] \in {ini[p], None, bak[p]}
  BY <1>3 DEF CopyBack, RemoveOld, TypeOK
<1>5. ASSUME NEW i \in Live, rows[i].path = p
      PROVE  HasPort(Copies(p), rows[i].port) /\ Returns(i)
  <2>1. i = j.id
    BY <1>1, <1>2, <1>5, RowAtPath
  <2>2. rows[i].port = j.row.port /\ rows[i].archived = (j.op \in {"restore", "delete"})
    BY <1>1, <1>2, <2>1 DEF Minded, Entry
  <2> QED BY <1>1, <1>2, <2>1, <2>2 DEF Minded, PortCopied, Returns
<1> QED BY <1>1, <1>3, <1>4, <1>5, IniOrderly

LEMMA RemoveTargetOrderly ==
  ASSUME TypeOK, PathsUnique, Safe, Orderly, NEW h \in Handlers, RemoveTarget(h),
         NEW p, p = job[h].want.path
  PROVE  Orderly'
<1> DEFINE j == job[h]
<1>1. /\ At(h, "rmTarget") /\ FileCmd(h) /\ Busy(h) /\ Secured(h) /\ UNCHANGED <<bak, shelf>>
      /\ ~At(h, "backup") /\ ~At(h, "write")
  BY DEF RemoveTarget, At, FileCmd, Safe
<1>2. j.op \in {"undoCreate", "undoUpdate"} /\ Undone(h) /\ ~Past(h, "dropRow")
  BY <1>1, CallsOf DEF Callers, Undone
<1>3. p \in Claims(j) /\ p \in Paths
  BY <1>1, <1>2, ClaimsOf, Holders DEF Target
<1>4. /\ \A q \in Paths \ {p} : ini'[q] = ini[q]
      /\ ini'[p] \in {ini[p], None}
  BY <1>3 DEF RemoveTarget, TypeOK
<1>5. ASSUME NEW i \in Live, rows[i].path = p PROVE ini' = ini
  <2>1. i = j.id
    BY <1>1, <1>2, <1>5 DEF Secured, Free
  <2>2. j.op = "undoUpdate"
    BY <1>1, <1>2, <2>1 DEF Secured, Rowless, Live, Ids
  <2>3. rows[i].path = j.row.path
    BY <1>1, <1>2, <2>1, <2>2, Holders DEF Secured, Held
  <2> QED BY <1>5, <2>2, <2>3 DEF RemoveTarget, Moves
<1> QED BY <1>1, <1>3, <1>4, <1>5, IniOrderly

\* A delete cleans up where there is no row any more.
LEMMA CleanUpOrderly ==
  ASSUME TypeOK, PathsUnique, Safe, Orderly, NEW h \in Handlers,
         RemoveBackup(h) \/ RemoveFile(h), NEW p, p = job[h].row.path
  PROVE  Orderly'
<1> DEFINE j == job[h]
<1>1. /\ FileCmd(h) /\ Busy(h) /\ Secured(h) /\ ~At(h, "backup") /\ ~At(h, "write")
      /\ At(h, "rmBackup") \/ At(h, "rmFile")
  BY DEF RemoveBackup, RemoveFile, At, FileCmd, Safe
<1>2. j.op = "delete" /\ j.op \in OfRow /\ Past(h, "dropRow") /\ ~Past(h, "backup")
  BY <1>1, CallsOf, OrderOfCalls, Holders DEF Callers, Behind
<1>3. p \in Claims(j) /\ p \in Paths
  BY <1>1, <1>2, ClaimsOf DEF Row
<1>4. \A i \in Live : rows[i].path # p
  BY <1>1, <1>2 DEF Secured, Gone
<1>5. \A q \in Paths \ {p} : ini'[q] = ini[q] /\ bak'[q] = bak[q] /\ shelf'[q] = shelf[q]
  BY DEF RemoveBackup, RemoveFile, TypeOK
<1>6. \A c \in ConfigsAt(p)' : c \in ConfigsAt(p)
  BY <1>3 DEF RemoveBackup, RemoveFile, ConfigsAt, TypeOK
<1>7. \A i \in Live : Returns(i)' => Returns(i)
  BY <1>1, ReturnsStay
<1>8. ASSUME Onward(h) PROVE PortCopied(h)'
  <2>1. Moved(h) /\ Minded(h)
    BY <1>1, <1>8 DEF Moved, Orderly
  <2> QED BY <1>1, <1>2, <2>1, PortCopiedKept DEF Minded, Copying
<1> QED BY <1>1, <1>3, <1>4, <1>5, <1>6, <1>7, <1>8, FileOrderly

-----------------------------------------------------------------------------
(***************************************************************************)
(* Database writes.                                                        *)
(***************************************************************************)

\* A write that changes one row.
LEMMA RowOrderly ==
  ASSUME TypeOK, Safe, Orderly, NEW h \in Handlers, Busy(h), Frame(h), UNCHANGED files,
         ~At(h, "backup"), job'[h] = Idle \/ (Onward(h) /\ Minded(h)'),
         NEW k \in Ids, \A i \in Ids \ {k} : rows'[i] = rows[i],
         rows[k] # None => rows[k].path \in Claims(job[h]),
         rows'[k] # None => PortKept(k)',
         rows'[k] # None => \A i \in Live \ {k}, x \in Ports : Takes(k, x)' => ~Takes(i, x)
  PROVE  Orderly'
<1>1. \A q : ConfigsAt(q)' = ConfigsAt(q) /\ Copies(q)' = Copies(q)
  BY DEF ConfigsAt, Copies, files
<1>2. PortFrame(h)
  BY <1>1 DEF PortFrame
<1>3. ASSUME NEW i \in Ids, rows'[i] # None PROVE PortKept(i)'
  <2>1. CASE i = k
    BY <1>3, <2>1
  <2>2. CASE i # k
    <3>1. rows'[i] = rows[i] /\ PortKept(i)
      BY <1>3, <2>2 DEF Orderly, Live
    <3> QED BY <1>1, <3>1 DEF PortKept
  <2> QED BY <2>1, <2>2
<1>4. Others(h) /\ (Busy(h)' /\ Copying(h)' => Copying(h) /\ job'[h].id = job[h].id)
  BY CopyingKept, IdleType DEF Busy, Frame
<1>5. \A i \in Live' \ {k}, x \in Ports : i \in Live /\ (Takes(i, x)' => Takes(i, x))
  <2> SUFFICES ASSUME NEW i \in Live' \ {k}, NEW x \in Ports
               PROVE  i \in Live /\ (Takes(i, x)' => Takes(i, x))
    OBVIOUS
  <2>1. rows'[i] = rows[i] /\ i \in Live
    BY DEF Live
  <2>2. Returns(i)' => Returns(i)
    <3>1. CASE rows[i].archived
      BY <3>1 DEF Returns
    <3>2. CASE ~rows[i].archived
      BY <1>4, <2>1, <3>2, ReturnsKept
    <3> QED BY <3>1, <3>2
  <2> QED BY <2>1, <2>2 DEF Takes, files
<1>6. \A i \in Live \ {k}, x \in Ports : k \in Live' /\ Takes(k, x)' => ~Takes(i, x)
  BY DEF Live
<1>7. PortsApart'
  BY <1>5, <1>6, ApartBy DEF Orderly
<1> QED BY <1>2, <1>3, <1>7, OrderlyBy

\* A write that leaves the port and the path of a row: what it takes it took.
LEMMA KeptApart ==
  ASSUME Orderly, NEW k \in Live, \A x \in Ports : Takes(k, x)' => Takes(k, x)
  PROVE  \A i \in Live \ {k}, x \in Ports : Takes(k, x)' => ~Takes(i, x)
BY DEF Orderly, PortsApart

LEMMA DropRowOrderly ==
  ASSUME TypeOK, Safe, Orderly, NEW h \in Handlers, DropRow(h), NEW k, k = job[h].id
  PROVE  Orderly'
<1> DEFINE j == job[h]
<1>1. /\ Busy(h) /\ j.op = "delete" /\ k \in Ids /\ rows[k].path \in Claims(j)
      /\ rows'[k] = None /\ \A i \in Ids \ {k} : rows'[i] = rows[i]
      /\ UNCHANGED files /\ Others(h) /\ (job'[h] = Idle \/ Onward(h))
  BY DropRowDoes
<1>2. At(h, "dropRow") /\ ~At(h, "backup") /\ ~At(h, "checkPort") /\ Proceed(h)
  BY DEF DropRow, At
<1>3. Frame(h)
  BY <1>1 DEF Frame, files
<1>4. ASSUME Onward(h) PROVE Minded(h)'
  <2>1. Moved(h) /\ Minded(h) /\ SameReads(h)
    BY <1>1, <1>2, <1>4, ReadsKept DEF Moved, Orderly
  <2>2. Past(h, "dropRow")' /\ \A q : ConfigsAt(q)' = ConfigsAt(q)
    BY <1>1, <1>2, <1>4, PastGrows DEF ConfigsAt, files
  <2>3. (About(h) /\ FileRead(h))' /\ Cleared(h)'
    BY <1>1, <1>2, <2>1, <2>2, ReadingsKept, ClearedKept DEF Minded
  <2>4. PortCopied(h)'
    BY <1>1, <1>2, <2>1, PortCopiedKept DEF Minded, Copies, files
  <2> QED BY <2>2, <2>3, <2>4 DEF Minded, Entry
<1> QED BY <1>1, <1>2, <1>3, <1>4, RowOrderly

LEMMA MarkArchivedOrderly ==
  ASSUME TypeOK, Safe, Orderly, NEW h \in Handlers, MarkArchived(h), NEW k, k = job[h].id
  PROVE  Orderly'
<1> DEFINE j == job[h]
<1>1. /\ Busy(h) /\ j.op = "archive" /\ j.op \in OfRow /\ Past(h, "backup") /\ ~Past(h, "dropRow")
      /\ k \in Live /\ k \in Ids /\ rows[k] \in Row /\ rows[k].path = j.row.path
      /\ rows[k].path \in Claims(j)
      /\ rows'[k] = [rows[k] EXCEPT !.archived = TRUE, !.status = "STOPPED"]
      /\ \A i \in Ids \ {k} : rows'[i] = rows[i]
      /\ UNCHANGED files /\ Others(h) /\ job'[h] = Idle
  BY MarkArchivedDoes
<1>2. /\ rows'[k] # None /\ rows'[k].path = rows[k].path /\ rows'[k].port = rows[k].port
      /\ rows'[k].baseline = rows[k].baseline
  <2>1. rows'[k] \in Row
    BY <1>1 DEF Row, Statuses
  <2> QED BY <1>1, <2>1, NoneAssumption DEF Row
<1>3. Frame(h) /\ ~At(h, "backup")
  BY <1>1, <1>2 DEF Frame, files, Live, MarkArchived, At
<1>4. Minded(h) /\ rows[k].port = j.row.port
  BY <1>1 DEF Orderly, Minded, Entry
<1>5. PortKept(k)'
  <2>1. HasPort(Copies(rows[k].path), rows[k].port)
    BY <1>1, <1>4 DEF Minded, PortCopied, Copying
  <2>2. \A q : ConfigsAt(q)' = ConfigsAt(q) /\ Copies(q)' = Copies(q)
               /\ Copies(q) \subseteq ConfigsAt(q)
    BY <1>1 DEF ConfigsAt, Copies, files
  <2> QED BY <1>2, <2>1, <2>2 DEF PortKept, HasPort
<1>6. \A x \in Ports : Takes(k, x)' => Takes(k, x)
  <2>1. Returns(k)
    BY <1>1 DEF Returns, Copying
  <2> QED BY <1>1, <1>2, <2>1 DEF Takes, files
<1>7. \A i \in Live \ {k}, x \in Ports : Takes(k, x)' => ~Takes(i, x)
  BY <1>1, <1>6, KeptApart
<1> QED BY <1>1, <1>3, <1>5, <1>7, RowOrderly

\* A write by the handler's own name meets its row alone.
LEMMA OwnName ==
  ASSUME TypeOK, Safe, NEW h \in Handlers, Busy(h), job[h].op \in OfRow, ~Past(h, "dropRow"),
         NEW k, k = job[h].id
  PROVE  /\ k \in Live /\ k \in Ids /\ rows[k] \in Row /\ rows[k].path = job[h].row.path
         /\ rows[k].path \in Claims(job[h])
         /\ \A i \in Ids : i \in Named(job[h].row.baseline.name) <=> i = k
<1>1. /\ k \in Live /\ k \in Ids /\ rows[k].path = job[h].row.path
      /\ rows[k].baseline = job[h].row.baseline /\ rows[k].path \in Claims(job[h])
      /\ rows[k] \in Row
  BY ClaimsOf DEF Safe, Secured, Held, Live, TypeOK
<1> QED BY <1>1 DEF Named, Safe, Table, NamesUnique

LEMMA SyncEnds ==
  ASSUME TypeOK, NEW h \in Handlers, At(h, "saveSync")
  PROVE  After(job[h]) = Idle /\ job[h].op = "sync"
<1>1. job[h].op = "sync" /\ job[h].pc \in 1..Len(Flow[job[h].op])
  BY CallsOf DEF Callers, At, Busy, TypeOK, Job
<1>2. Flow[job[h].op] = SyncSteps
  BY <1>1 DEF Flow
<1>3. job[h].pc = 4 /\ Len(SyncSteps) = 4
  BY <1>1, <1>2 DEF At, SyncSteps
<1> QED BY <1>1, <1>2, <1>3 DEF After

LEMMA MarkRestoredDoes ==
  ASSUME TypeOK, Safe, Orderly, NEW h \in Handlers, MarkRestored(h), NEW k, k = job[h].id
  PROVE  /\ Busy(h) /\ k \in Live /\ k \in Ids /\ rows[k] \in Row /\ rows[k].archived
         /\ rows[k].path \in Claims(job[h])
         /\ rows'[k] \in Row /\ rows'[k].path = rows[k].path /\ rows'[k].port = rows[k].port
         /\ rows'[k].baseline = rows[k].baseline /\ ~rows'[k].archived
         /\ \A i \in Ids \ {k} : rows'[i] = rows[i]
         /\ UNCHANGED files /\ nextId' = nextId /\ Others(h) /\ job'[h] = Idle
<1> DEFINE j == job[h]
<1>1. /\ At(h, "markRestored") /\ Busy(h) /\ Minded(h) /\ UNCHANGED files /\ nextId' = nextId
      /\ Proceed(h)
  BY DEF MarkRestored, At, Orderly
<1>2. j.op = "restore" /\ j.op \in OfRow /\ ~Past(h, "dropRow")
  BY <1>1, CallsOf, Holders DEF Callers
<1>3. /\ k \in Live /\ k \in Ids /\ rows[k] \in Row /\ rows[k].path \in Claims(j)
      /\ \A i \in Ids : i \in Named(j.row.baseline.name) <=> i = k
  BY <1>1, <1>2, OwnName
<1>4. rows[k].archived
  BY <1>1, <1>2 DEF Minded, Entry
<1>5. PICK e \in j.seen :
        rows' = [i \in Ids |-> IF i \in Named(e[1])
                               THEN [rows[i] EXCEPT !.archived = FALSE, !.status = e[2]]
                               ELSE rows[i]]
  BY DEF MarkRestored, UpdateNamed
<1>6. e[1] = j.row.baseline.name /\ e[2] \in Statuses
  <2>1. j.seen \subseteq Names \X Statuses
    BY DEF TypeOK, Job, Locals
  <2> QED BY <1>1, <1>2, <2>1 DEF Minded, About
<1> DEFINE r == [rows[k] EXCEPT !.archived = FALSE, !.status = e[2]]
<1>7. /\ r \in Row /\ r.path = rows[k].path /\ r.port = rows[k].port
      /\ r.baseline = rows[k].baseline /\ ~r.archived
  BY <1>3, <1>6 DEF Row
<1>8. rows'[k] = r /\ \A i \in Ids \ {k} : rows'[i] = rows[i]
  BY <1>3, <1>5, <1>6
<1> HIDE DEF r
<1>9. Others(h) /\ job'[h] = Idle
  <2>1. After(job[h]) = Idle
    BY <1>1, OrderOfCalls
  <2> QED BY <1>1, <2>1 DEF Proceed, Others, TypeOK
<1> QED BY <1>1, <1>3, <1>4, <1>7, <1>8, <1>9

LEMMA SaveSyncDoes ==
  ASSUME TypeOK, Safe, Orderly, NEW h \in Handlers, SaveSync(h), NEW k, k = job[h].id
  PROVE  /\ Busy(h) /\ k \in Live /\ k \in Ids /\ rows[k] \in Row /\ ~rows[k].archived
         /\ rows[k].path \in Claims(job[h])
         /\ rows'[k] \in Row /\ rows'[k].path = rows[k].path
         /\ rows'[k].baseline = rows[k].baseline /\ ~rows'[k].archived
         /\ \/ rows'[k].port = rows[k].port
            \/ ini[rows[k].path] # None /\ rows'[k].port = ini[rows[k].path].port
         /\ \A i \in Ids \ {k} : rows'[i] = rows[i]
         /\ UNCHANGED files /\ nextId' = nextId /\ Others(h) /\ job'[h] = Idle
<1> DEFINE j == job[h]
           x == IF j.file = None THEN j.row.port ELSE j.file.port
<1>1. /\ At(h, "saveSync") /\ Busy(h) /\ Minded(h) /\ UNCHANGED files /\ nextId' = nextId
      /\ Proceed(h) /\ j \in Job
  BY DEF SaveSync, At, Orderly, TypeOK
<1>2. j.op = "sync" /\ j.op \in OfRow /\ ~Past(h, "dropRow") /\ After(j) = Idle
  <2>1. j.op = "sync" /\ After(j) = Idle
    BY <1>1, SyncEnds
  <2> QED BY <1>1, <2>1, CallsOf, OpsAre DEF Callers, OfRow
<1>3. /\ k \in Live /\ k \in Ids /\ rows[k] \in Row /\ rows[k].path = j.row.path
      /\ rows[k].path \in Claims(j)
      /\ \A i \in Ids : i \in Named(j.row.baseline.name) <=> i = k
  BY <1>1, <1>2, OwnName
<1>4. ~rows[k].archived /\ rows[k].port = j.row.port
  BY <1>1, <1>2 DEF Minded, Entry
<1>5. /\ x \in Ports /\ j.hasBak \in BOOLEAN
      /\ x = rows[k].port \/ (ini[rows[k].path] # None /\ x = ini[rows[k].path].port)
  <2>1. j.row \in Row
    BY <1>1, <1>2, ClaimsOf
  <2> QED BY <1>1, <1>2, <1>3, <1>4, <2>1 DEF Minded, FileRead, Row, Config, Job, Locals
<1>6. PICK e \in j.seen :
        rows' = [i \in Ids |-> IF i \in Named(e[1])
                               THEN [rows[i] EXCEPT !.status = e[2], !.hasBackup = j.hasBak,
                                                    !.port = x]
                               ELSE rows[i]]
  BY DEF SaveSync, UpdateNamed
<1> HIDE DEF x
<1>7. e[1] = j.row.baseline.name /\ e[2] \in Statuses
  <2>1. j.seen \subseteq Names \X Statuses
    BY <1>1 DEF Job, Locals
  <2> QED BY <1>1, <1>2, <2>1 DEF Minded, About
<1> DEFINE r == [rows[k] EXCEPT !.status = e[2], !.hasBackup = j.hasBak, !.port = x]
<1>8. /\ r \in Row /\ r.path = rows[k].path /\ r.port = x
      /\ r.baseline = rows[k].baseline /\ r.archived = rows[k].archived
  BY <1>3, <1>5, <1>7 DEF Row
<1>9. rows'[k] = r /\ \A i \in Ids \ {k} : rows'[i] = rows[i]
  BY <1>3, <1>6, <1>7
<1> HIDE DEF r
<1>10. Others(h) /\ job'[h] = Idle
  BY <1>1, <1>2 DEF Proceed, Others, TypeOK
<1> QED BY <1>1, <1>3, <1>4, <1>5, <1>8, <1>9, <1>10

\* A row that stays under its path, with the port it or its .ini has.
LEMMA KeptRowOrderly ==
  ASSUME TypeOK, Safe, Orderly, NEW h \in Handlers, MarkRestored(h) \/ SaveSync(h),
         NEW k, k = job[h].id
  PROVE  Orderly'
<1>1. /\ Busy(h) /\ k \in Live /\ k \in Ids /\ rows[k].path \in Claims(job[h])
      /\ rows'[k] \in Row /\ rows'[k].path = rows[k].path
      /\ rows'[k].baseline = rows[k].baseline /\ ~rows'[k].archived
      /\ \/ rows'[k].port = rows[k].port
         \/ ini[rows[k].path] # None /\ rows'[k].port = ini[rows[k].path].port
      /\ \A i \in Ids \ {k} : rows'[i] = rows[i]
      /\ UNCHANGED files /\ Others(h) /\ job'[h] = Idle
  <2>1. CASE MarkRestored(h)
    BY <2>1, MarkRestoredDoes
  <2>2. CASE SaveSync(h)
    BY <2>2, SaveSyncDoes
  <2> QED BY <2>1, <2>2
<1>2. ~At(h, "backup") /\ rows'[k] # None /\ rows[k] # None
  BY <1>1, NoneAssumption DEF MarkRestored, SaveSync, At, Live
<1>3. Frame(h)
  BY <1>1, <1>2 DEF Frame, files
<1>4. PortKept(k)'
  <2>1. HasPort(ConfigsAt(rows[k].path), rows'[k].port)
    <3>1. PortKept(k)
      BY <1>1 DEF Orderly
    <3> QED BY <1>1, <3>1 DEF PortKept, HasPort, ConfigsAt
  <2>2. \A q : ConfigsAt(q)' = ConfigsAt(q)
    BY <1>1 DEF ConfigsAt, files
  <2> QED BY <1>1, <2>1, <2>2 DEF PortKept
<1>5. ASSUME NEW x \in Ports, Takes(k, x)' PROVE Takes(k, x)
  <2>1. Returns(k)' => Returns(k)
    <3>1. ~Busy(h)'
      BY <1>1, IdleType DEF Busy
    <3> QED BY <1>1, <3>1, ReturnsKept
  <2> QED BY <1>1, <1>5, <2>1 DEF Takes, files
<1>6. \A i \in Live \ {k}, x \in Ports : Takes(k, x)' => ~Takes(i, x)
  BY <1>1, <1>5, KeptApart
<1> QED BY <1>1, <1>2, <1>3, <1>4, <1>6, RowOrderly

\* A new or a moved row takes the port its target was cleared for.
LEMMA PlacedOrderly ==
  ASSUME TypeOK, PathsUnique, Safe, Orderly, NEW h \in Handlers, Busy(h), Frame(h),
         UNCHANGED files, job'[h] = Idle, ~At(h, "backup"),
         Past(h, "checkRows"), Past(h, "checkPort"),
         NEW w, w = job[h].want, w \in Target, ini[w.path] = w.conf,
         NEW k \in Ids, job[h].id = k \/ (job[h].id = 0 /\ rows[k] = None),
         \A i \in Ids \ {k} : rows'[i] = rows[i],
         rows[k] # None => rows[k].path \in Claims(job[h]),
         rows'[k].path = w.path, rows'[k].port = w.conf.port, ~rows'[k].archived
  PROVE  Orderly'
<1>1. PortKept(k)'
  <2>1. w.conf # None
    BY NoneAssumption DEF Target
  <2>2. HasPort(ConfigsAt(w.path)', w.conf.port)
    BY <2>1 DEF HasPort, ConfigsAt, files
  <2> QED BY <2>2 DEF PortKept
<1>2. ~Returns(k)'
  <2> SUFFICES ASSUME NEW g \in Handlers, Busy(g)', job'[g].id = k, Copying(g)' PROVE FALSE
    BY DEF Returns
  <2>1. g # h
    BY IdleType DEF Busy
  <2>2. job'[g] = job[g]
    BY <2>1 DEF Frame, Others
  <2>3. Busy(g) /\ job[g].id = k /\ Copying(g)
    BY <2>2 DEF Busy, Copying, Past
  <2>4. job[g].op \in OfRow /\ ~Past(g, "dropRow")
    <3>1. job[g].op \in {"update", "undoUpdate", "archive"}
      BY <2>3, CallsOf DEF Copying, Callers
    <3> QED BY <2>3, <3>1, CallsOf, Holders DEF Callers
  <2>5. rows[k] # None
    BY <2>3, <2>4 DEF Safe, Secured, Held
  <2>6. job[h].id = k /\ job[h].op = "update"
    <3>1. job[h].id = k /\ job[h].op \in {"create", "update"}
      BY <2>5, CallsOf DEF Callers
    <3>2. job[h].op # "create"
      BY <3>1 DEF Safe, Secured, Rowless, Ids
    <3> QED BY <3>1, <3>2
  <2>7. job[h].op \in OfRow /\ ~Past(h, "dropRow")
    BY <2>6, CallsOf, Holders DEF Callers
  <2> QED BY <2>1, <2>3, <2>4, <2>6, <2>7, OneHandlerEach
<1>3. ASSUME NEW i \in Live \ {k}, NEW x \in Ports, Takes(k, x)' PROVE ~Takes(i, x)
  <2>1. x = w.conf.port
    BY <1>2, <1>3 DEF Takes, files
  <2>2. i # job[h].id
    <3>1. 0 \notin Live
      BY DEF Live, Ids
    <3> QED BY <3>1
  <2> QED BY <2>1, <2>2, TargetPortFree
<1> QED BY <1>1, <1>3, RowOrderly

LEMMA InsertOrderly ==
  ASSUME TypeOK, PathsUnique, Safe, Orderly, NEW h \in Handlers, Insert(h),
         NEW w, w = job[h].want
  PROVE  Orderly'
<1>1. Busy(h) /\ UNCHANGED files /\ ~At(h, "backup")
  BY DEF Insert, At
<1>2. CASE PathTaken(w.path, 0)
  <2>1. Refuse(h) /\ UNCHANGED db /\ ~At(h, "rmBackup") /\ ~At(h, "apply")
    BY <1>2 DEF Insert, At
  <2>2. Others(h) /\ (job'[h] = Idle \/ Undoes(h)) /\ RowsCalm /\ PortsCalm
    BY <1>1, <2>1, CallLeads DEF Falls, RowsCalm, PortsCalm, db
  <2> QED BY <1>1, <2>2, CalmCall
<1>3. CASE ~PathTaken(w.path, 0)
  <2>1. /\ job[h].id = 0 /\ Past(h, "checkRows") /\ Past(h, "checkPort")
        /\ w \in Target /\ w.path \in Claims(job[h]) /\ w.conf.name \in Claims(job[h])
        /\ ini[w.path] = w.conf
        /\ nextId \in Ids /\ rows[nextId] = None
        /\ rows'[nextId] = NewRow(w) /\ NewRow(w) \in Row
        /\ \A i \in Ids \ {nextId} : rows'[i] = rows[i]
        /\ Others(h) /\ job'[h] = Idle
    BY <1>3, InsertDoes
  <2>2. /\ rows'[nextId].path = w.path /\ rows'[nextId].baseline = w.conf
        /\ rows'[nextId].port = w.conf.port /\ ~rows'[nextId].archived
    BY <2>1 DEF NewRow
  <2>3. Frame(h)
    BY <1>1, <2>1, <2>2 DEF Frame, files
  <2> QED BY <1>1, <2>1, <2>2, <2>3, PlacedOrderly
<1> QED BY <1>2, <1>3

LEMMA SaveUpdateOrderly ==
  ASSUME TypeOK, PathsUnique, Safe, Orderly, NEW h \in Handlers, SaveUpdate(h),
         NEW w, w = job[h].want, NEW k, k = job[h].id
  PROVE  Orderly'
<1>1. Busy(h) /\ UNCHANGED files /\ \A s \in {"backup", "dropRow", "checkPort"} : ~At(h, s)
  BY DEF SaveUpdate, At
<1>2. CASE PathTaken(w.path, k)
  <2>1. (Refuse(h) \/ Proceed(h)) /\ UNCHANGED rows
    BY <1>2 DEF SaveUpdate
  <2>2. Others(h) /\ (job'[h] = Idle \/ Undoes(h) \/ (Onward(h) /\ SameReads(h)))
    BY <1>1, <2>1, CallRuns
  <2>3. RowsCalm /\ PortsCalm
    BY <2>1 DEF RowsCalm, PortsCalm
  <2> QED BY <1>1, <2>2, <2>3, CalmCall
<1>3. CASE ~PathTaken(w.path, k)
  <2>1. /\ Past(h, "checkRows") /\ Past(h, "checkPort")
        /\ w \in Target /\ w.path \in Claims(job[h]) /\ w.conf.name \in Claims(job[h])
        /\ ini[w.path] = w.conf
        /\ k \in Ids /\ rows[k].path \in Claims(job[h])
        /\ rows'[k] \in Row /\ rows'[k].path = w.path /\ rows'[k].baseline = w.conf
        /\ rows'[k].port = w.conf.port /\ ~rows'[k].archived
        /\ \A i \in Ids \ {k} : rows'[i] = rows[i]
        /\ Others(h) /\ job'[h] = Idle
    BY <1>3, SaveUpdateDoes
  <2>2. Frame(h)
    BY <1>1, <2>1 DEF Frame, files
  <2> QED BY <1>1, <2>1, <2>2, PlacedOrderly
<1> QED BY <1>2, <1>3

-----------------------------------------------------------------------------
(***************************************************************************)
(* Every step.                                                             *)
(***************************************************************************)

\* Steps that change nothing but which requests are in flight.
LEMMA TableOrderly ==
  ASSUME Orderly, UNCHANGED <<rows, ini, bak, shelf>>,
         \A g \in Handlers : Busy(g)' => (job'[g] = job[g] \/ ~Copying(g)')
  PROVE  (\A i \in Live : PortKept(i))' /\ PortsApart'
<1>1. \A i : PortKept(i)' <=> PortKept(i)
  BY DEF PortKept, ConfigsAt, Copies
<1>2. Live' = Live
  BY DEF Live
<1>3. ASSUME NEW i \in Live, Returns(i)' PROVE Returns(i)
  <2>1. CASE rows[i].archived
    BY <2>1 DEF Returns
  <2>2. CASE ~rows[i].archived
    <3>1. PICK g \in Handlers : Busy(g)' /\ job'[g].id = i /\ Copying(g)'
      BY <1>3, <2>2 DEF Returns
    <3>2. job'[g] = job[g]
      BY <3>1
    <3> QED BY <3>1, <3>2 DEF Returns, Busy, Copying, Past
  <2> QED BY <2>1, <2>2
<1>4. \A i \in Live, x \in Ports : Takes(i, x)' => Takes(i, x)
  BY <1>3 DEF Takes
<1> QED BY <1>1, <1>2, <1>4 DEF Orderly, PortsApart

LEMMA SameMinded ==
  ASSUME NEW g \in Handlers, Minded(g), job'[g] = job[g], UNCHANGED <<rows, ini, bak, shelf>>
  PROVE  Minded(g)'
<1>1. \A s : Past(g, s)' <=> Past(g, s)
  BY DEF Past
<1>2. Copying(g)' <=> Copying(g)
  BY <1>1 DEF Copying
<1>3. \A q : ConfigsAt(q)' = ConfigsAt(q) /\ Copies(q)' = Copies(q)
  BY DEF ConfigsAt, Copies
<1>4. Own(g)' = Own(g)
  BY DEF Own
<1>5. Cleared(g)'
  BY <1>1, <1>3, <1>4 DEF Cleared, Minded
<1>6. PortCopied(g)'
  BY <1>2, <1>3 DEF PortCopied, Minded
<1>7. Entry(g)' /\ About(g)' /\ FileRead(g)'
  BY <1>1 DEF Entry, About, FileRead, Minded
<1> QED BY <1>5, <1>6, <1>7 DEF Minded

\* A request loads an active row, or an archived one for restore and delete.
LEMMA BeginLoads ==
  ASSUME TypeOK, NEW h \in Handlers, Begin(h)
  PROVE  \E op \in Ops \ {"undoCreate", "undoUpdate"}, i \in Ids \cup {0},
            r \in Row \cup {None}, w \in Target \cup {None} :
           /\ Accept(h, Started(op, i, r, w))
           /\ op \in OfRow => /\ i \in Live /\ r = rows[i]
                              /\ rows[i].archived = (op \in {"restore", "delete"})
<1>1. CASE BeginCreate(h)
  BY <1>1, OpsAre DEF BeginCreate, OfRow
<1>2. \A i \in Live : i \in Ids /\ rows[i] \in Row /\ rows[i].archived \in BOOLEAN
  BY DEF Live, TypeOK, Row
<1>3. CASE BeginUpdate(h)
  <2>1. PICK i \in Live, w \in Target :
          ~rows[i].archived /\ Accept(h, Started("update", i, rows[i], w))
    BY <1>3 DEF BeginUpdate
  <2>2. "update" \in Ops \ {"undoCreate", "undoUpdate"} /\ rows[i].archived = FALSE
    BY <1>2, <2>1, OpsAre
  <2> QED BY <1>2, <2>1, <2>2
<1>4. CASE BeginOnActive(h)
  <2>1. PICK i \in Live, op \in RuntimeOps \cup {"archive", "sync"} :
          ~rows[i].archived /\ Accept(h, Started(op, i, rows[i], None))
    BY <1>4 DEF BeginOnActive
  <2>2. /\ op \in Ops \ {"undoCreate", "undoUpdate"} /\ rows[i].archived = FALSE
        /\ op \notin {"restore", "delete"}
    BY <1>2, <2>1, OpsAre DEF RuntimeOps
  <2> QED BY <1>2, <2>1, <2>2
<1>5. CASE BeginOnArchived(h)
  <2>1. PICK i \in Live, op \in {"restore", "delete"} :
          rows[i].archived /\ Accept(h, Started(op, i, rows[i], None))
    BY <1>5 DEF BeginOnArchived
  <2>2. op \in Ops \ {"undoCreate", "undoUpdate"} /\ rows[i].archived = TRUE
    BY <1>2, <2>1, OpsAre
  <2> QED BY <1>2, <2>1, <2>2
<1>6. CASE BeginRefresh(h)
  BY <1>6, OpsAre DEF BeginRefresh, OfRow
<1> QED BY <1>1, <1>3, <1>4, <1>5, <1>6 DEF Begin

LEMMA BeginOrderly ==
  ASSUME TypeOK, Orderly, NEW h \in Handlers, Begin(h)
  PROVE  Orderly'
<1>1. PICK op \in Ops \ {"undoCreate", "undoUpdate"}, i \in Ids \cup {0},
           r \in Row \cup {None}, w \in Target \cup {None} :
        /\ Accept(h, Started(op, i, r, w))
        /\ op \in OfRow => /\ i \in Live /\ r = rows[i]
                           /\ rows[i].archived = (op \in {"restore", "delete"})
  BY BeginLoads
<1>2. /\ job'[h] = Started(op, i, r, w)
      /\ \A g \in Handlers \ {h} : job'[g] = job[g]
  BY <1>1 DEF Accept, TypeOK
<1>3. UNCHANGED <<rows, ini, bak, shelf>>
  BY <1>1 DEF Accept, db, files
<1>4. \A s : ~Past(h, s)'
  BY <1>2 DEF Past, Started
<1>5. /\ job'[h].op = op /\ job'[h].id = i /\ job'[h].row = r /\ job'[h].seen = {}
      /\ job'[h].file = None
  BY <1>2 DEF Started
<1>6. ~Copying(h)'
  BY <1>4, <1>5 DEF Copying
<1>7. (\A n \in Live : PortKept(n))' /\ PortsApart'
  BY <1>2, <1>3, <1>6, TableOrderly
<1>8. Minded(h)'
  <2>1. Entry(h)'
    BY <1>1, <1>3, <1>5 DEF Entry
  <2>2. About(h)' /\ FileRead(h)'
    BY <1>5 DEF About, FileRead
  <2>3. Cleared(h)'
    BY <1>4 DEF Cleared
  <2>4. PortCopied(h)'
    <3> SUFFICES ASSUME op = "restore" PROVE HasPort(Copies(r.path)', r.port)
      BY <1>5, <1>6 DEF PortCopied, Copies
    <3>1. i \in Live /\ r = rows[i] /\ rows[i].archived
      BY <1>1, Holders
    <3>2. PortKept(i)
      BY <3>1 DEF Orderly
    <3> QED BY <1>3, <3>1, <3>2 DEF PortKept, Copies
  <2> QED BY <2>1, <2>2, <2>3, <2>4 DEF Minded
<1>9. ASSUME NEW g \in Handlers \ {h}, Busy(g)' PROVE Minded(g)'
  <2>1. job'[g] = job[g] /\ Busy(g)
    BY <1>2, <1>9 DEF Busy
  <2> QED BY <1>3, <2>1, SameMinded DEF Orderly
<1> QED BY <1>7, <1>8, <1>9 DEF Orderly

LEMMA CrashOrderly == ASSUME Orderly, Crash PROVE Orderly'
<1>1. UNCHANGED <<rows, ini, bak, shelf>> /\ \A h \in Handlers : job'[h] = Idle
  BY DEF Crash, db, files
<1>2. \A h \in Handlers : ~Busy(h)'
  BY <1>1, IdleType DEF Busy
<1> QED BY <1>1, <1>2, TableOrderly DEF Orderly

LEMMA InitOrderly == Init => Orderly
<1> SUFFICES ASSUME Init PROVE Orderly
  OBVIOUS
<1>1. Live = {}
  BY DEF Init, Live
<1>2. \A h \in Handlers : ~Busy(h)
  BY IdleType DEF Init, Busy
<1> QED BY <1>1, <1>2 DEF Orderly, PortsApart

LEMMA OrderlyNext ==
  ASSUME TypeOK, PathsUnique, Safe, Orderly, [Next]_vars
  PROVE  Orderly'
<1>1. CASE UNCHANGED vars
  <2>1. UNCHANGED <<rows, ini, bak, shelf, job>>
    BY <1>1 DEF vars
  <2>2. ASSUME NEW h \in Handlers, Busy(h)' PROVE Minded(h)'
    <3>1. Busy(h) /\ job'[h] = job[h]
      BY <2>1, <2>2 DEF Busy
    <3> QED BY <2>1, <3>1, SameMinded DEF Orderly
  <2> QED BY <2>1, <2>2, TableOrderly DEF Orderly
<1>2. ASSUME NEW h \in Handlers, FileCmd(h) PROVE Orderly'
  BY <1>2, WriteOrderly, BackupOrderly, OwnIniOrderly, RemoveTargetOrderly, CleanUpOrderly
     DEF FileCmd
<1>3. ASSUME NEW h \in Handlers, Store(h) PROVE Orderly'
  BY <1>3, InsertOrderly, SaveUpdateOrderly, MarkArchivedOrderly, KeptRowOrderly,
     DropRowOrderly, SaveStatusOrderly DEF Store
<1>4. ASSUME NEW h \in Handlers, Check(h) PROVE Orderly'
  <2>1. CASE At(h, "checkPort")
    <3>1. CheckPort(h)
      BY <1>4, <2>1 DEF Check, ReadConfig, CheckRows, CheckTarget, At
    <3> QED BY <3>1, CheckPortOrderly
  <2> QED BY <1>4, <2>1, CalmStepsOrderly
<1>5. ASSUME NEW h \in Handlers, Begin(h) \/ Control(h) \/ Observe(h) \/ CallFails(h)
      PROVE  Orderly'
  BY <1>5, BeginOrderly, CalmStepsOrderly, ObserveOrderly
<1> QED BY <1>1, <1>2, <1>3, <1>4, <1>5, CrashOrderly DEF Next, Continue

LEMMA AlwaysOrderly == ASSUME Exclusive PROVE Spec => []Orderly
<1>1. TypeOK /\ PathsUnique /\ Safe /\ Orderly /\ [Next]_vars => Orderly'
  BY OrderlyNext
<1> QED BY <1>1, InitOrderly, TypeCorrect, PathsAreUnique, AlwaysSafe, PTL DEF Spec

-----------------------------------------------------------------------------
(***************************************************************************)
(* The table implements the catalogue.                                     *)
(***************************************************************************)

\* What the catalogue sees of a row.
View(r) == [name |-> r.baseline.name, path |-> r.path, port |-> r.port,
            archived |-> r.archived]

LEMMA ViewMarked ==
  ASSUME NEW r, NEW s \in Row, s.baseline = r.baseline, s.path = r.path, s.port = r.port
  PROVE  /\ s.archived => View(s) = [View(r) EXCEPT !.archived = TRUE]
         /\ ~s.archived => View(s) = [View(r) EXCEPT !.archived = FALSE]
<1>1. View(s) = [View(r) EXCEPT !.archived = s.archived]
  BY DEF View
<1>2. s.archived \in BOOLEAN
  BY DEF Row
<1> QED BY <1>1, <1>2

LEMMA ListingIs ==
  ASSUME TypeOK
  PROVE  /\ \A i \in Live : /\ Listing[i] = View(rows[i]) /\ Listing[i] # None
                            /\ View(rows[i]) \in Catalog!Entry
         /\ \A i \in Ids : i \notin Live => Listing[i] = None
         /\ Catalog!Listed = Live /\ Catalog!Active = Active
<1>1. ASSUME NEW i \in Live
      PROVE  /\ Listing[i] = View(rows[i]) /\ Listing[i] # None
             /\ View(rows[i]) \in Catalog!Entry
  <2>1. rows[i] \in Row /\ rows[i] # None /\ i \in Ids
    BY DEF TypeOK, Live
  <2>2. View(rows[i]) \in Catalog!Entry
    BY <2>1 DEF View, Catalog!Entry, Row, Config
  <2>3. Listing[i] = View(rows[i])
    BY <2>1 DEF Listing, View
  <2> QED BY <2>2, <2>3, EntryAssumption
<1>2. \A i \in Ids : i \notin Live => Listing[i] = None
  BY DEF Listing, Live
<1>3. Catalog!Listed = Live
  BY <1>1, <1>2 DEF Catalog!Listed, Live
<1>4. ASSUME NEW i \in Live PROVE Listing[i].archived = rows[i].archived
  <2>1. Listing[i] = View(rows[i])
    BY <1>1
  <2> QED BY <2>1 DEF View
<1>5. Catalog!Active = Active
  BY <1>3, <1>4 DEF Catalog!Active, Active
<1> QED BY <1>1, <1>2, <1>3, <1>5

\* A write to one row is a write to one entry.
LEMMA ListingMoves ==
  ASSUME TypeOK, NEW k \in Ids, \A i \in Ids \ {k} : rows'[i] = rows[i]
  PROVE  /\ rows'[k] # None => Catalog!Put(k, View(rows'[k]))
         /\ rows'[k] = None => Catalog!Put(k, None)
<1>1. \A i \in Ids \ {k} : Listing'[i] = Listing[i]
  BY DEF Listing
<1>2. rows'[k] # None => Listing'[k] = View(rows'[k])
  BY DEF Listing, View
<1>3. rows'[k] = None => Listing'[k] = None
  BY DEF Listing
<1>4. DOMAIN Listing = Ids /\ DOMAIN Listing' = Ids
      /\ Listing = [i \in Ids |-> Listing[i]] /\ Listing' = [i \in Ids |-> Listing'[i]]
  BY DEF Listing
<1> HIDE DEF Listing
<1>5. ASSUME NEW e, Listing'[k] = e PROVE Listing' = [Listing EXCEPT ![k] = e]
  BY <1>1, <1>4, <1>5
<1> QED BY <1>2, <1>3, <1>5 DEF Catalog!Put

LEMMA FreeBy ==
  ASSUME TypeOK, NEW k \in Ids, NEW e,
         \A i \in Live \ {k} : /\ rows[i].baseline.name # e.name /\ rows[i].path # e.path
                               /\ ~rows[i].archived => rows[i].port # e.port
  PROVE  Catalog!Free(e, k)
<1>1. ASSUME NEW i \in Live
      PROVE  /\ Listing[i].name = rows[i].baseline.name
             /\ Listing[i].path = rows[i].path /\ Listing[i].port = rows[i].port
  <2>1. Listing[i] = View(rows[i])
    BY ListingIs
  <2> QED BY <2>1 DEF View
<1>2. Catalog!Listed = Live /\ Catalog!Active = Active
  BY ListingIs
<1> QED BY <1>1, <1>2 DEF Catalog!Free, Active

\* Rows that keep what the catalogue sees.
LEMMA ListingStays ==
  ASSUME \/ rows' = rows
         \/ RowsCalm /\ PortsCalm
  PROVE  Listing' = Listing
BY DEF Listing, RowsCalm, PortsCalm

\* Which calls write what the catalogue sees, and as what.
LEMMA InsertRegisters ==
  ASSUME TypeOK, TypeOK', PathsUnique, Safe, Orderly, NEW h \in Handlers, Insert(h),
         NEW w, w = job[h].want
  PROVE  \/ Listing' = Listing
         \/ \E k \in Ids, e \in Catalog!Entry : Catalog!Register(k, e)
<1>1. CASE PathTaken(w.path, 0)
  <2>1. rows' = rows
    BY <1>1 DEF Insert, db
  <2> QED BY <2>1, ListingStays
<1>2. CASE ~PathTaken(w.path, 0)
  <2>1. /\ Busy(h) /\ job[h].id = 0 /\ job[h].op = "create"
        /\ Past(h, "checkRows") /\ Past(h, "checkPort")
        /\ nextId \in Ids /\ rows[nextId] = None
        /\ rows'[nextId] = NewRow(w) /\ NewRow(w) \in Row
        /\ \A i \in Ids \ {nextId} : rows'[i] = rows[i]
    BY <1>2, InsertDoes
  <2> DEFINE e == View(NewRow(w))
  <2>2. NewRow(w) # None /\ e \in Catalog!Entry
    BY <2>1, NoneAssumption DEF View, Row, Config, Catalog!Entry
  <2>3. e.name = w.conf.name /\ e.path = w.path /\ e.port = w.conf.port /\ ~e.archived
    BY DEF View, NewRow
  <2>4. Catalog!Put(nextId, e)
    BY <2>1, <2>2, ListingMoves
  <2> HIDE DEF e
  <2>5. 0 \notin Live /\ nextId \notin Live
    BY <2>1 DEF Live, Ids
  <2>6. ASSUME NEW i \in Live \ {nextId}
        PROVE  /\ rows[i].baseline.name # e.name /\ rows[i].path # e.path
               /\ rows[i].port # e.port
    <3>1. rows[i].path # w.path /\ rows[i].baseline.name # w.conf.name
      BY <2>1, <2>5 DEF Safe, Secured, Free
    <3>2. ~Takes(i, w.conf.port)
      BY <2>1, <2>5, TargetPortFree
    <3> QED BY <2>3, <3>1, <3>2 DEF Takes
  <2>7. Catalog!Free(e, nextId)
    BY <2>1, <2>6, FreeBy
  <2>8. nextId \notin Catalog!Listed
    BY <2>5, ListingIs
  <2> QED BY <2>1, <2>2, <2>3, <2>4, <2>7, <2>8 DEF Catalog!Register
<1> QED BY <1>1, <1>2

\* An active row that stays active, with a name, a path and a port of its own.
LEMMA Replaces ==
  ASSUME TypeOK, NEW k \in Live, ~rows[k].archived, rows'[k] \in Row, ~rows'[k].archived,
         \A i \in Ids \ {k} : rows'[i] = rows[i],
         \A i \in Live \ {k} : /\ rows[i].baseline.name # rows'[k].baseline.name
                               /\ rows[i].path # rows'[k].path
                               /\ rows[i].port # rows'[k].port
  PROVE  \E e \in Catalog!Entry : Catalog!Replace(k, e)
<1> DEFINE e == View(rows'[k])
<1>1. rows'[k] # None /\ e \in Catalog!Entry /\ k \in Ids
  BY NoneAssumption DEF View, Row, Config, Catalog!Entry, Live
<1>2. /\ e.name = rows'[k].baseline.name /\ e.path = rows'[k].path
      /\ e.port = rows'[k].port /\ ~e.archived
  BY DEF View
<1>3. Catalog!Put(k, e)
  BY <1>1, ListingMoves
<1> HIDE DEF e
<1>4. Catalog!Free(e, k)
  BY <1>1, <1>2, FreeBy
<1>5. k \in Catalog!Active
  BY ListingIs DEF Active
<1> QED BY <1>1, <1>2, <1>3, <1>4, <1>5 DEF Catalog!Replace

LEMMA SaveUpdateReplaces ==
  ASSUME TypeOK, PathsUnique, Safe, Orderly, NEW h \in Handlers, SaveUpdate(h),
         NEW w, w = job[h].want, NEW k, k = job[h].id
  PROVE  \/ Listing' = Listing
         \/ \E i \in Ids : \E e \in Catalog!Entry : Catalog!Replace(i, e)
<1>1. CASE PathTaken(w.path, k)
  <2>1. rows' = rows
    BY <1>1 DEF SaveUpdate
  <2> QED BY <2>1, ListingStays
<1>2. CASE ~PathTaken(w.path, k)
  <2>1. /\ Busy(h) /\ Past(h, "checkRows") /\ Past(h, "checkPort")
        /\ k \in Ids /\ rows[k] # None /\ ~rows[k].archived
        /\ rows'[k] \in Row /\ rows'[k].path = w.path /\ rows'[k].baseline = w.conf
        /\ rows'[k].port = w.conf.port /\ ~rows'[k].archived
        /\ \A i \in Ids \ {k} : rows'[i] = rows[i]
    BY <1>2, SaveUpdateDoes
  <2>2. ASSUME NEW i \in Live \ {k}
        PROVE  /\ rows[i].baseline.name # rows'[k].baseline.name
               /\ rows[i].path # rows'[k].path /\ rows[i].port # rows'[k].port
    <3>1. rows[i].path # w.path /\ rows[i].baseline.name # w.conf.name
      BY <2>1 DEF Safe, Secured, Free
    <3>2. ~Takes(i, w.conf.port)
      BY <2>1, TargetPortFree
    <3> QED BY <2>1, <3>1, <3>2 DEF Takes
  <2>3. k \in Live
    BY <2>1 DEF Live
  <2> QED BY <2>1, <2>2, <2>3, Replaces
<1> QED BY <1>1, <1>2

LEMMA SaveSyncReplaces ==
  ASSUME TypeOK, PathsUnique, Safe, Orderly, NEW h \in Handlers, SaveSync(h),
         NEW k, k = job[h].id
  PROVE  \E i \in Ids : \E e \in Catalog!Entry : Catalog!Replace(i, e)
<1>1. /\ k \in Live /\ k \in Ids /\ ~rows[k].archived
      /\ rows'[k] \in Row /\ rows'[k].path = rows[k].path
      /\ rows'[k].baseline = rows[k].baseline /\ ~rows'[k].archived
      /\ \/ rows'[k].port = rows[k].port
         \/ ini[rows[k].path] # None /\ rows'[k].port = ini[rows[k].path].port
      /\ \A i \in Ids \ {k} : rows'[i] = rows[i]
  BY SaveSyncDoes
<1>2. Takes(k, rows'[k].port) /\ rows'[k].port \in Ports
  BY <1>1 DEF Takes, Row
<1>3. ASSUME NEW i \in Live \ {k}
      PROVE  /\ rows[i].baseline.name # rows'[k].baseline.name
             /\ rows[i].path # rows'[k].path /\ rows[i].port # rows'[k].port
  <2>1. rows[i].baseline.name # rows[k].baseline.name /\ rows[i].path # rows[k].path
    BY <1>1 DEF Safe, Table, NamesUnique, PathsUnique
  <2>2. ~Takes(i, rows'[k].port)
    BY <1>1, <1>2 DEF Orderly, PortsApart
  <2> QED BY <1>1, <2>1, <2>2 DEF Takes
<1> QED BY <1>1, <1>3, Replaces

LEMMA MarkArchivedArchives ==
  ASSUME TypeOK, Safe, NEW h \in Handlers, MarkArchived(h), NEW k, k = job[h].id
  PROVE  k \in Ids /\ Catalog!Archive(k)
<1>1. /\ Busy(h) /\ job[h].op = "archive" /\ k \in Live /\ k \in Ids /\ rows[k] \in Row
      /\ rows'[k] = [rows[k] EXCEPT !.archived = TRUE, !.status = "STOPPED"]
      /\ \A i \in Ids \ {k} : rows'[i] = rows[i]
  BY MarkArchivedDoes
<1>2. ~rows[k].archived
  BY <1>1 DEF Safe, Secured, Open
<1>3. /\ rows'[k].baseline = rows[k].baseline /\ rows'[k].path = rows[k].path
      /\ rows'[k].port = rows[k].port /\ rows'[k].archived = TRUE /\ rows'[k] \in Row
  BY <1>1 DEF Row, Statuses
<1>4. Listing[k] = View(rows[k]) /\ k \in Catalog!Active
  BY <1>1, <1>2, ListingIs DEF Active
<1>5. View(rows'[k]) = [View(rows[k]) EXCEPT !.archived = TRUE]
  BY <1>3, ViewMarked
<1>6. Catalog!Put(k, View(rows'[k]))
  BY <1>1, <1>3, NoneAssumption, ListingMoves
<1> QED BY <1>1, <1>4, <1>5, <1>6 DEF Catalog!Archive

LEMMA MarkRestoredRestores ==
  ASSUME TypeOK, PathsUnique, Safe, Orderly, NEW h \in Handlers, MarkRestored(h),
         NEW k, k = job[h].id
  PROVE  k \in Ids /\ Catalog!Restore(k)
<1>1. /\ k \in Live /\ k \in Ids /\ rows[k] \in Row /\ rows[k].archived
      /\ rows'[k] \in Row /\ rows'[k].path = rows[k].path /\ rows'[k].port = rows[k].port
      /\ rows'[k].baseline = rows[k].baseline /\ ~rows'[k].archived
      /\ \A i \in Ids \ {k} : rows'[i] = rows[i]
  BY MarkRestoredDoes
<1>2. Listing[k] = View(rows[k]) /\ k \in Catalog!Listed \ Catalog!Active
  BY <1>1, ListingIs DEF Active
<1>3. rows'[k].archived = FALSE
  BY <1>1 DEF Row
<1>4. View(rows'[k]) = [View(rows[k]) EXCEPT !.archived = FALSE]
  BY <1>1, <1>3, ViewMarked
<1>5. Catalog!Put(k, View(rows'[k]))
  BY <1>1, NoneAssumption, ListingMoves
<1>6. ASSUME NEW i \in Live \ {k}
      PROVE  /\ rows[i].baseline.name # rows[k].baseline.name
             /\ rows[i].path # rows[k].path /\ rows[i].port # rows[k].port
  <2>1. rows[i].baseline.name # rows[k].baseline.name /\ rows[i].path # rows[k].path
    BY <1>1 DEF Safe, Table, NamesUnique, PathsUnique
  <2>2. Takes(k, rows[k].port) /\ rows[k].port \in Ports
    BY <1>1 DEF Takes, Row
  <2>3. ~Takes(i, rows[k].port)
    BY <1>1, <2>2 DEF Orderly, PortsApart
  <2> QED BY <2>1, <2>3 DEF Takes
<1>7. Catalog!Free(View(rows[k]), k)
  <2>1. /\ View(rows[k]).name = rows[k].baseline.name /\ View(rows[k]).path = rows[k].path
        /\ View(rows[k]).port = rows[k].port
    BY DEF View
  <2> QED BY <1>1, <1>6, <2>1, FreeBy
<1> QED BY <1>1, <1>2, <1>4, <1>5, <1>7 DEF Catalog!Restore

LEMMA DropRowRemoves ==
  ASSUME TypeOK, Safe, Orderly, NEW h \in Handlers, DropRow(h), NEW k, k = job[h].id
  PROVE  k \in Ids /\ Catalog!Remove(k)
<1>1. /\ Busy(h) /\ job[h].op = "delete" /\ job[h].op \in OfRow /\ ~Past(h, "dropRow")
      /\ k \in Live /\ k \in Ids /\ rows'[k] = None
      /\ \A i \in Ids \ {k} : rows'[i] = rows[i]
  BY DropRowDoes
<1>2. rows[k].archived
  BY <1>1 DEF Orderly, Minded, Entry
<1>3. k \in Catalog!Listed \ Catalog!Active
  BY <1>1, <1>2, ListingIs DEF Active
<1>4. Catalog!Put(k, None)
  BY <1>1, ListingMoves
<1> QED BY <1>1, <1>3, <1>4 DEF Catalog!Remove

\* No other step changes what the catalogue sees.
LEMMA ElseListingStays ==
  ASSUME TypeOK, NEW h \in Handlers,
         Begin(h) \/ Check(h) \/ FileCmd(h) \/ Control(h) \/ Observe(h) \/ CallFails(h)
  PROVE  Listing' = Listing
<1>1. CASE Begin(h)
  BY <1>1, ListingStays DEF Begin, BeginCreate, BeginUpdate, BeginOnActive, BeginOnArchived,
     BeginRefresh, Accept, db
<1>2. CASE Check(h)
  BY <1>2, ListingStays DEF Check, ReadConfig, CheckRows, CheckTarget, CheckPort, db
<1>3. CASE FileCmd(h)
  BY <1>3, FileCalm, ListingStays
<1>4. CASE Control(h)
  BY <1>4, ListingStays DEF Control, Apply, Stop, Start, db
<1>5. CASE Observe(h)
  BY <1>5, ListingStays DEF Observe, Status, StatusAll, ReadCurrent, ReadBackup, db
<1>6. CASE CallFails(h)
  BY <1>6, ListingStays DEF CallFails, db
<1> QED BY <1>1, <1>2, <1>3, <1>4, <1>5, <1>6

LEMMA SaveStatusListing ==
  ASSUME TypeOK, NEW h \in Handlers, SaveStatus(h)
  PROVE  Listing' = Listing
BY StatusCalm, SaveStatusPorts, ListingStays

LEMMA CatalogNext ==
  ASSUME TypeOK, TypeOK', PathsUnique, Safe, Orderly, [Next]_vars
  PROVE  [Catalog!Next]_Listing
<1>1. CASE UNCHANGED vars
  BY <1>1, ListingStays DEF vars
<1>2. CASE Crash
  BY <1>2, ListingStays DEF Crash, db
<1>3. ASSUME NEW h \in Handlers, Store(h) PROVE [Catalog!Next]_Listing
  <2> SUFFICES ASSUME Listing' # Listing PROVE Catalog!Next
    OBVIOUS
  <2>1. CASE Insert(h)
    BY <2>1, InsertRegisters DEF Catalog!Next
  <2>2. CASE SaveUpdate(h)
    BY <2>2, SaveUpdateReplaces DEF Catalog!Next
  <2>3. CASE MarkArchived(h)
    BY <2>3, MarkArchivedArchives DEF Catalog!Next
  <2>4. CASE MarkRestored(h)
    BY <2>4, MarkRestoredRestores DEF Catalog!Next
  <2>5. CASE DropRow(h)
    BY <2>5, DropRowRemoves DEF Catalog!Next
  <2>6. CASE SaveStatus(h)
    BY <2>6, SaveStatusListing
  <2>7. CASE SaveSync(h)
    BY <2>7, SaveSyncReplaces DEF Catalog!Next
  <2> QED BY <1>3, <2>1, <2>2, <2>3, <2>4, <2>5, <2>6, <2>7 DEF Store
<1>4. ASSUME NEW h \in Handlers, Begin(h) \/ Continue(h) PROVE [Catalog!Next]_Listing
  BY <1>3, <1>4, ElseListingStays DEF Continue
<1> QED BY <1>1, <1>2, <1>4 DEF Next

LEMMA CatalogInit == Init => Catalog!Init
<1> SUFFICES ASSUME Init PROVE Catalog!Init
  OBVIOUS
<1>1. Listing = [i \in Ids |-> None]
  BY DEF Init, Listing
<1>2. Catalog!Listed = {}
  BY <1>1 DEF Catalog!Listed
<1>3. Listing \in [Ids -> Catalog!Entry \cup {None}]
  BY <1>1
<1> QED BY <1>2, <1>3 DEF Catalog!Init

\* The table implements the catalogue: whatever the handlers interleave, fail
\* at or crash in, each change of the table keeps names, paths and active ports
\* distinct in the step that writes, goes from active to archived to removed,
\* and is one entry's.
THEOREM CatalogImplemented == ASSUME Exclusive PROVE Spec => ImplementsCatalog
<1>1. TypeOK /\ TypeOK' /\ PathsUnique /\ Safe /\ Orderly /\ [Next]_vars
        => [Catalog!Next]_Listing
  BY CatalogNext
<1> QED BY <1>1, CatalogInit, TypeCorrect, PathsAreUnique, AlwaysSafe, AlwaysOrderly, PTL
        DEF Spec, ImplementsCatalog, Catalog!Spec
=============================================================================
