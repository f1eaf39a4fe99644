-------------------------- MODULE ServiceLifecycle --------------------------
(***************************************************************************)
(* The life of the Supervisor services of ONE host: create, update,        *)
(* archive, restore, hard delete, start/stop/restart, detail sync and the  *)
(* refresh of all statuses.                                                *)
(*                                                                         *)
(* Three stores are kept in step by request handlers that share no lock,   *)
(* no row version and no transaction:                                      *)
(*   rows       the table sys_supervisor_service;                          *)
(*   ini, bak   the files <path> and <path>.bak of the host's conf dir,    *)
(*   shelf      and the timestamped <path>.bak.<ts> copies;                *)
(*   procs      what the host's supervisord has loaded and runs.           *)
(*                                                                         *)
(* A handler is a coroutine: every awaited query and every remote command  *)
(* is one action, and any other handler may run between two of them.  The  *)
(* order of the awaited calls of an operation is its row of Flow.          *)
(***************************************************************************)
EXTENDS Naturals, FiniteSets, Sequences

CONSTANTS
  Handlers,   \* requests that can be in flight together
  Names,      \* program names ([program:<name>] and contentProgramName)
  Paths,      \* config paths, all in one directory of the conf dir
  Ports,
  Revs,       \* everything else a config says (jvm options, profile, user)
  MaxRows,    \* bound: ids the table ever hands out
  MaxFaults,  \* bound: failed or lost calls and crashes in a behaviour
  Requests,   \* kinds of requests the operators send
  Exclusive,  \* TRUE: operators never work on the same name, path or port
  None        \* "no row", "no file", "no program"

Ids      == 1..MaxRows
Config   == [name : Names, port : Ports, rev : Revs]
Target   == [path : Paths, conf : Config]

\* What the code may store: a state supervisorctl reports, or the word it says
\* instead of one ("<n>: ERROR (no such process)"), or a substitute for it.
Statuses == {"RUNNING", "STOPPED", "UNKNOWN", "ERROR"}

\* What the status of a row is declared to be; of the eight states those that
\* are not told apart here are left out.
AllowedStatuses == {"RUNNING", "STOPPED", "UNKNOWN"}

ASSUME HandlersAssumption == Handlers # {} /\ IsFiniteSet(Handlers)
ASSUME BoundsAssumption   == MaxRows \in Nat /\ MaxFaults \in Nat
ASSUME FlagAssumption     == Exclusive \in BOOLEAN

VARIABLES rows, nextId, ini, bak, shelf, procs, job, faults

files == <<ini, bak, shelf>>
db    == <<rows, nextId>>
vars  == <<rows, nextId, ini, bak, shelf, procs, job, faults>>

(***************************************************************************)
(* A row keeps what the operations read back: baseline stands for          *)
(* content_program_name and baseline_content, which are always written     *)
(* together; port is a column of its own because the detail sync writes it *)
(* alone.                                                                  *)
(***************************************************************************)
Row == [path : Paths, baseline : Config, port : Ports, archived : BOOLEAN,
        status : Statuses, hasBackup : BOOLEAN]

Proc == [conf : Config, up : BOOLEAN]

ASSUME NoneAssumption == /\ None \notin Names /\ None \notin Config
                         /\ None \notin Target /\ None \notin Row
                         /\ None \notin Proc

(***************************************************************************)
(* The awaited calls of each operation, in program order.  "apply" is the  *)
(* pair reread, update: reread alone changes nothing that runs.            *)
(***************************************************************************)
CreateSteps  == <<"checkRows", "checkTarget", "checkPort", "write", "apply",
                  "recheckRows", "insert">>
UpdateSteps  == <<"read", "checkRows", "checkTarget", "checkPort", "stop", "backup",
                  "write", "rmOld", "apply", "status", "save">>

\* mutant: the old config is deleted without a copy
ArchiveStepsNoBackup == <<"stop", "rmOld", "apply", "markArchived">>
ArchiveSteps == <<"stop", "backup", "rmOld", "apply", "markArchived">>
RestoreSteps == <<"copyBack", "apply", "status", "markRestored">>

\* mutant: the host is cleaned before the row is gone
DeleteStepsFilesFirst == <<"rmBackup", "dropRow", "rmFile", "apply">>
DeleteSteps  == <<"dropRow", "rmBackup", "rmFile", "apply">>

\* mutant: the file of a create that failed goes, its program stays loaded
UndoCreateStepsFileOnly == <<"rmTarget">>
UndoCreateSteps == <<"rmTarget", "apply">>
UndoUpdateSteps == <<"rmTarget", "copyBack", "apply">>

StartSteps   == <<"start", "status", "saveStatus">>   \* also restart
StopSteps    == <<"stop", "status", "saveStatus">>
SyncSteps    == <<"status", "readCurrent", "readBackup", "saveSync">>
RefreshSteps == <<"statusAll", "saveStatus">>

Flow ==
  [create  |-> CreateSteps,  undoCreate |-> UndoCreateSteps,
   update  |-> UpdateSteps,  undoUpdate |-> UndoUpdateSteps,
   archive |-> ArchiveSteps, restore |-> RestoreSteps, delete |-> DeleteSteps,
   start   |-> StartSteps,   stop |-> StopSteps,       restart |-> StartSteps,
   sync    |-> SyncSteps,    refresh |-> RefreshSteps]

Ops        == DOMAIN Flow
RuntimeOps == {"start", "stop", "restart"}

(***************************************************************************)
(* A handler in flight: its operation, the call it is about to make, and   *)
(* the local variables it keeps across awaits: the row it loaded at the    *)
(* start (and its id), the target it rendered, the status entries it read  *)
(* and has not stored yet, the .ini and .bak a sync read.                  *)
(***************************************************************************)
OfTarget == {"create", "undoCreate", "update", "undoUpdate"}
OfRow    == Ops \ {"create", "undoCreate", "refresh"}

Locals == [op : Ops \cup {"idle"}, pc : Nat, id : Ids \cup {0},
           row : Row \cup {None}, want : Target \cup {None},
           seen : SUBSET (Names \X Statuses),
           file : Config \cup {None}, hasBak : BOOLEAN]

Job == {j \in Locals : /\ j.op \in Ops      => j.pc \in 1..Len(Flow[j.op])
                       /\ j.op \in OfTarget => j.want # None
                       /\ j.op \in OfRow    => j.row # None /\ j.id # 0}

Started(op, i, r, w) ==
  [op |-> op, pc |-> 1, id |-> i, row |-> r, want |-> w, seen |-> {}, file |-> None,
   hasBak |-> FALSE]

Idle == [Started("idle", 0, None, None) EXCEPT !.pc = 0]

Busy(h)  == job[h].op \in Ops
At(h, s) == Busy(h) /\ Flow[job[h].op][job[h].pc] = s

After(j) == IF j.pc = Len(Flow[j.op]) THEN Idle ELSE [j EXCEPT !.pc = @ + 1]

(***************************************************************************)
(* Where an exception raised by the current call sends the handler.  Only  *)
(* the database write of create and of update stands in a try block with a *)
(* compensation; the clean-up of a hard delete turns errors into warnings  *)
(* (and runs reread/update only after a config was really removed);        *)
(* anywhere else the request just ends.                                    *)
(***************************************************************************)
Undo(j) == [j EXCEPT !.op = IF @ = "create" THEN "undoCreate" ELSE "undoUpdate",
                     !.pc = 1]

Failed(j) ==
  LET s == Flow[j.op][j.pc] IN
  CASE j.op = "create" /\ s \in {"recheckRows", "insert"} -> Undo(j)
    [] j.op = "update" /\ s = "save"                      -> Undo(j)
    [] j.op = "delete" /\ s \in {"rmBackup", "apply"}     -> After(j)
    [] OTHER                                              -> Idle

Fault == faults < MaxFaults /\ faults' = faults + 1

Proceed(h) == job' = [job EXCEPT ![h] = After(@)] /\ UNCHANGED faults
Refuse(h)  == job' = [job EXCEPT ![h] = Failed(@)] /\ UNCHANGED faults

\* A remote command that took effect may still be reported as failed: the
\* executor turns a timeout of the transport into an error.
Reported(h) ==
  \/ Proceed(h)
  \/ Fault /\ job' = [job EXCEPT ![h] = Failed(@)]

-----------------------------------------------------------------------------
(***************************************************************************)
(* The table.  find_by_content_program_name takes any one row of the name: *)
(* only (host, config_path) is a unique key.                               *)
(***************************************************************************)
Live     == {i \in Ids : rows[i] # None}
Named(n) == {i \in Live : rows[i].baseline.name = n}

PathTaken(p, id) == \E i \in Live \ {id} : rows[i].path = p
PortTaken(x, id) == \E i \in Live \ {id} : ~rows[i].archived /\ rows[i].port = x

Conflict(w, id) ==
  \/ Named(w.conf.name) \ {id} # {}
  \/ PathTaken(w.path, id)
  \/ PortTaken(w.conf.port, id)

\* Of several rows with the name the query may return the caller's own.
NoConflictSeen(w, id) ==
  /\ Named(w.conf.name) = {} \/ id \in Named(w.conf.name)
  /\ ~PathTaken(w.path, id)
  /\ ~PortTaken(w.conf.port, id)

\* UPDATE ... WHERE host_ip AND content_program_name: every row of the name.
UpdateNamed(n, F(_)) ==
  rows' = [i \in Ids |-> IF i \in Named(n) THEN F(rows[i]) ELSE rows[i]]

NewRow(w) ==
  [path |-> w.path, baseline |-> w.conf, port |-> w.conf.port,
   archived |-> FALSE, status |-> "UNKNOWN", hasBackup |-> FALSE]

-----------------------------------------------------------------------------
(***************************************************************************)
(* The conf dir, as the port scan reads it: .ini, .ini.bak, .ini.bak.<ts>. *)
(***************************************************************************)
\* mutant: the scan leaves the backups out (include_backups=False)
ConfigsAtLiveOnly(p) == {ini[p]} \ {None}
ConfigsAt(p) == ({ini[p], bak[p]} \ {None}) \cup shelf[p]

PortInFiles(x, except) ==
  \E p \in Paths \ except : \E c \in ConfigsAt(p) : c.port = x

Listening(x) == \E n \in Names : procs[n] # None /\ procs[n].up
                                                 /\ procs[n].conf.port = x

(***************************************************************************)
(* supervisord (external): update re-reads every .ini, drops programs that *)
(* no file declares, and (re)starts the ones that are new or changed, for  *)
(* the template sets autostart=true.  Of two files that declare one        *)
(* program either may win.                                                 *)
(***************************************************************************)
Declared(n) == {ini[p] : p \in {q \in Paths : ini[q] # None /\ ini[q].name = n}}

Reloaded(n, c) ==
  IF procs[n] # None /\ procs[n].conf = c THEN procs[n]
                                          ELSE [conf |-> c, up |-> TRUE]

Outcomes(n) == IF Declared(n) = {} THEN {None}
                                   ELSE {Reloaded(n, c) : c \in Declared(n)}

\* mutant: the third word of "<n> RUNNING pid 7, uptime ..." is taken, not the second
StatusOfDetail(n) == IF procs[n] # None /\ procs[n].up THEN "pid" ELSE "STOPPED"
StatusOf(n) ==
  IF procs[n] = None THEN "ERROR"                \* "<n>: ERROR (no such process)"
  ELSE IF procs[n].up THEN "RUNNING" ELSE "STOPPED"

-----------------------------------------------------------------------------
Init ==
  /\ rows = [i \in Ids |-> None]
  /\ nextId = 1
  /\ ini = [p \in Paths |-> None]
  /\ bak = [p \in Paths |-> None]
  /\ shelf = [p \in Paths |-> {}]
  /\ procs = [n \in Names |-> None]
  /\ job = [h \in Handlers |-> Idle]
  /\ faults = 0

(***************************************************************************)
(* A request arrives.  The handler loads the row by name and its gate on   *)
(* is_archived lets it through; a request refused here changes nothing.    *)
(***************************************************************************)
Claims(j) ==
  (IF j.row = None THEN {}
   ELSE {j.row.baseline.name, j.row.path, j.row.port, j.row.baseline.port})
    \cup (IF j.want = None THEN {}
          ELSE {j.want.conf.name, j.want.path, j.want.conf.port})

Apart(a, b) == Claims(a) \cap Claims(b) = {}

Accept(h, j) ==
  /\ j.op \in Requests
  /\ Exclusive => \A g \in Handlers : Busy(g) => Apart(j, job[g])
  /\ job' = [job EXCEPT ![h] = j]
  /\ UNCHANGED <<db, files, procs, faults>>

Creating == {h \in Handlers : job[h].op = "create"}

BeginCreate(h) ==
  /\ nextId + Cardinality(Creating) <= MaxRows    \* bound
  /\ \E w \in Target :
       Accept(h, Started("create", 0, None, w))

BeginUpdate(h) ==
  \E i \in Live, w \in Target :
    /\ ~rows[i].archived
    /\ Accept(h, Started("update", i, rows[i], w))

BeginOnActive(h) ==
  \E i \in Live, op \in RuntimeOps \cup {"archive", "sync"} :
    /\ ~rows[i].archived
    /\ Accept(h, Started(op, i, rows[i], None))

\* mutant: delete without its gate on is_archived
BeginOnAny(h) ==
  \E i \in Live, op \in {"restore", "delete"} : Accept(h, Started(op, i, rows[i], None))

BeginOnArchived(h) ==
  \E i \in Live, op \in {"restore", "delete"} :
    /\ rows[i].archived
    /\ Accept(h, Started(op, i, rows[i], None))

BeginRefresh(h) == Accept(h, Started("refresh", 0, None, None))

-----------------------------------------------------------------------------
(***************************************************************************)
(* The checks before the first write.                                      *)
(***************************************************************************)
\* mutant: a file is taken for moved only when the program is renamed
MovesByName(j) == j.want.conf.name # j.row.baseline.name
Moves(j)   == j.want.path # j.row.path
Renames(j) == Moves(j) \/ j.want.conf.name # j.row.baseline.name

\* update reads the current .ini first: without one it answers 404.
ReadConfig(h) ==
  /\ At(h, "read")
  /\ IF ini[job[h].row.path] # None THEN Proceed(h) ELSE Refuse(h)
  /\ UNCHANGED <<db, files, procs>>

\* ensure_can_save, and once more inside registry.create before the INSERT.
CheckRows(h) ==
  /\ At(h, "checkRows") \/ At(h, "recheckRows")
  /\ \/ Conflict(job[h].want, job[h].id) /\ Refuse(h)
     \/ NoConflictSeen(job[h].want, job[h].id) /\ Proceed(h)
  /\ UNCHANGED <<db, files, procs>>

CheckTarget(h) ==
  /\ At(h, "checkTarget")
  /\ IF /\ job[h].op = "update" => Moves(job[h])
        /\ ini[job[h].want.path] # None
     THEN Refuse(h) ELSE Proceed(h)
  /\ UNCHANGED <<db, files, procs>>

\* The scan skips the row's own .ini and .bak*; the running processes count
\* only when the port is new to the service.  A file that another handler
\* removes between the listing and the reading fails the scan.
PortRefused(j) ==
  LET x == j.want.conf.port IN
  IF j.op = "create" THEN PortInFiles(x, {}) \/ Listening(x)
  ELSE PortInFiles(x, {j.row.path}) \/ (j.row.port # x /\ Listening(x))

CheckPort(h) ==
  /\ At(h, "checkPort")
  /\ \/ PortRefused(job[h]) /\ Refuse(h)
     \/ ~PortRefused(job[h]) /\ Proceed(h)
     \/ (\E g \in Handlers \ {h} : Busy(g)) /\ Refuse(h)
  /\ UNCHANGED <<db, files, procs>>

-----------------------------------------------------------------------------
(***************************************************************************)
(* Remote file commands.                                                   *)
(***************************************************************************)
Write(h) ==
  /\ At(h, "write")
  /\ ini' = [ini EXCEPT ![job[h].want.path] = job[h].want.conf]
  /\ Reported(h)
  /\ UNCHANGED <<db, bak, shelf, procs>>

\* mutant: the copy overwrites the .bak of before
BackupOverwriting(h) ==
  LET p == job[h].row.path IN
  /\ At(h, "backup")
  /\ IF ini[p] = None THEN Refuse(h) /\ UNCHANGED bak
                      ELSE bak' = [bak EXCEPT ![p] = ini[p]] /\ Reported(h)
  /\ UNCHANGED <<db, ini, shelf, procs>>

\* .bak moves aside under a timestamp, then .ini is copied to .bak; the copy
\* may fail after the move.
Backup(h) ==
  LET p == job[h].row.path IN
  /\ At(h, "backup")
  /\ IF ini[p] = None
     THEN Refuse(h) /\ UNCHANGED <<bak, shelf>>
     ELSE /\ shelf' = [shelf EXCEPT ![p] = @ \cup ({bak[p]} \ {None})]
          /\ \/ bak' = [bak EXCEPT ![p] = ini[p]] /\ Reported(h)
             \/ /\ bak' = [bak EXCEPT ![p] = None]
                /\ Fault
                /\ job' = [job EXCEPT ![h] = Failed(@)]
  /\ UNCHANGED <<db, ini, procs>>

\* .ini moves aside (no code reads it again), then .bak is copied to .ini.
CopyBack(h) ==
  LET p == job[h].row.path IN
  /\ At(h, "copyBack")
  /\ IF bak[p] = None
     THEN Refuse(h) /\ UNCHANGED ini
     ELSE \/ ini' = [ini EXCEPT ![p] = bak[p]] /\ Reported(h)
          \/ /\ ini' = [ini EXCEPT ![p] = None]
             /\ Fault
             /\ job' = [job EXCEPT ![h] = Failed(@)]
  /\ UNCHANGED <<db, bak, shelf, procs>>

\* mutant: an update leaves the file of the old path behind
RemoveOldOnArchive(h) ==
  LET p == job[h].row.path IN
  /\ At(h, "rmOld")
  /\ IF job[h].op = "update" THEN Proceed(h) /\ UNCHANGED ini
                             ELSE ini' = [ini EXCEPT ![p] = None] /\ Reported(h)
  /\ UNCHANGED <<db, bak, shelf, procs>>

\* mutant: delete_backup=True, the .bak goes with the .ini
RemoveOldWithBackup(h) ==
  LET p == job[h].row.path IN
  /\ At(h, "rmOld")
  /\ ini' = [ini EXCEPT ![p] = None]
  /\ bak' = [bak EXCEPT ![p] = None]
  /\ Reported(h)
  /\ UNCHANGED <<db, shelf, procs>>

\* archive, and an update that moves the file, remove the old .ini.
RemoveOld(h) ==
  LET p == job[h].row.path IN
  /\ At(h, "rmOld")
  /\ IF job[h].op = "update" /\ ~Moves(job[h])
     THEN Proceed(h) /\ UNCHANGED ini
     ELSE IF ini[p] = None
          THEN Refuse(h) /\ UNCHANGED ini
          ELSE ini' = [ini EXCEPT ![p] = None] /\ Reported(h)
  /\ UNCHANGED <<db, bak, shelf, procs>>

\* The compensations remove the target, if there is one, before going on.
RemoveTarget(h) ==
  LET p == job[h].want.path IN
  /\ At(h, "rmTarget")
  /\ IF ini[p] = None \/ (job[h].op = "undoUpdate" /\ ~Moves(job[h]))
     THEN Proceed(h) /\ UNCHANGED ini
     ELSE ini' = [ini EXCEPT ![p] = None] /\ Reported(h)
  /\ UNCHANGED <<db, bak, shelf, procs>>

RemoveBackup(h) ==
  /\ At(h, "rmBackup")
  /\ bak' = [bak EXCEPT ![job[h].row.path] = None]
  /\ Reported(h)
  /\ UNCHANGED <<db, ini, shelf, procs>>

RemoveFile(h) ==
  LET p == job[h].row.path IN
  /\ At(h, "rmFile")
  /\ IF ini[p] = None
     THEN job' = [job EXCEPT ![h] = Idle] /\ UNCHANGED <<ini, faults>>
     ELSE ini' = [ini EXCEPT ![p] = None] /\ Reported(h)
  /\ UNCHANGED <<db, bak, shelf, procs>>

-----------------------------------------------------------------------------
(***************************************************************************)
(* supervisorctl commands.                                                 *)
(***************************************************************************)
Apply(h) ==
  /\ At(h, "apply")
  /\ \E f \in [Names -> UNION {Outcomes(n) : n \in Names}] :
       (\A n \in Names : f[n] \in Outcomes(n)) /\ procs' = f
  /\ Reported(h)
  /\ UNCHANGED <<db, files>>

\* archive and update tolerate a program that is gone, stop does not; an
\* update that keeps name and path does not stop at all.
Stop(h) ==
  LET n == job[h].row.baseline.name IN
  /\ At(h, "stop")
  /\ IF (job[h].op = "update" /\ ~Renames(job[h])) \/ procs[n] = None
     THEN /\ IF job[h].op = "stop" THEN Refuse(h) ELSE Proceed(h)
          /\ UNCHANGED procs
     ELSE procs' = [procs EXCEPT ![n].up = FALSE] /\ Reported(h)
  /\ UNCHANGED <<db, files>>

Start(h) ==
  LET n == job[h].row.baseline.name IN
  /\ At(h, "start")
  /\ IF procs[n] = None
     THEN Refuse(h) /\ UNCHANGED procs
     ELSE procs' = [procs EXCEPT ![n].up = TRUE] /\ Reported(h)
  /\ UNCHANGED <<db, files>>

\* The status of one program; when the query itself fails each operation has
\* a value of its own to store instead.
Subject(j)  == IF j.op = "update" THEN j.want.conf.name ELSE j.row.baseline.name

Fallback(j) == CASE j.op = "stop" -> "STOPPED"
                 [] j.op = "sync" -> j.row.status
                 [] OTHER         -> "UNKNOWN"

See(h, entries, b) ==
  job' = [job EXCEPT ![h] = After([job[h] EXCEPT !.seen = entries, !.hasBak = b])]

Status(h) ==
  LET n == Subject(job[h]) IN
  /\ At(h, "status")
  /\ \/ See(h, {<<n, StatusOf(n)>>}, FALSE) /\ UNCHANGED faults
     \/ Fault /\ See(h, {<<n, Fallback(job[h])>>}, FALSE)
  /\ UNCHANGED <<db, files, procs>>

\* supervisorctl may exit with an error when not every program runs; the
\* refresh, which names no program, takes that for a failure of the command.
AnyDown == \E n \in Names : procs[n] # None /\ ~procs[n].up

StatusAll(h) ==
  /\ At(h, "statusAll")
  /\ \/ /\ See(h, {<<n, StatusOf(n)>> : n \in {m \in Names : procs[m] # None}}, FALSE)
        /\ UNCHANGED faults
     \/ AnyDown /\ Refuse(h)
  /\ UNCHANGED <<db, files, procs>>

\* The detail sync reads .ini and .bak; an unreadable .ini leaves the columns
\* as the handler loaded them, and so does an unreadable .bak.
ReadCurrent(h) ==
  LET j == job[h] IN
  /\ At(h, "readCurrent")
  /\ \/ /\ job' = [job EXCEPT ![h] = After([j EXCEPT !.file = ini[j.row.path]])]
        /\ UNCHANGED faults
     \/ Fault /\ job' = [job EXCEPT ![h] = After(j)]
  /\ UNCHANGED <<db, files, procs>>

ReadBackup(h) ==
  LET j == job[h] IN
  /\ At(h, "readBackup")
  /\ \/ /\ See(h, j.seen, bak[j.row.path] # None)
        /\ UNCHANGED faults
     \/ Fault /\ See(h, j.seen, j.row.hasBackup)
  /\ UNCHANGED <<db, files, procs>>

-----------------------------------------------------------------------------
(***************************************************************************)
(* Database writes.                                                        *)
(***************************************************************************)
\* mutant: a table without the unique key
InsertUnchecked(h) ==
  /\ At(h, "insert")
  /\ nextId \in Ids
  /\ rows' = [rows EXCEPT ![nextId] = NewRow(job[h].want)]
  /\ nextId' = nextId + 1
  /\ Proceed(h)
  /\ UNCHANGED <<files, procs>>

Insert(h) ==
  LET w == job[h].want IN
  /\ At(h, "insert")
  /\ nextId \in Ids                              \* bound, see BeginCreate
  /\ IF PathTaken(w.path, 0)                     \* the unique key
     THEN Refuse(h) /\ UNCHANGED db
     ELSE /\ rows' = [rows EXCEPT ![nextId] = NewRow(w)]
          /\ nextId' = nextId + 1
          /\ Proceed(h)
  /\ UNCHANGED <<files, procs>>

\* mutant: the update saves a whole object (insert or update)
SaveUpdateUpsert(h) ==
  LET j == job[h] IN
  /\ At(h, "save")
  /\ IF PathTaken(j.want.path, j.id)
     THEN Refuse(h) /\ UNCHANGED rows
     ELSE /\ rows' = [rows EXCEPT ![j.id] = NewRow(j.want)]
          /\ Proceed(h)
  /\ UNCHANGED <<nextId, files, procs>>

\* UPDATE ... WHERE id: nobody looks at the number of rows it changed.
SaveUpdate(h) ==
  LET j == job[h] IN
  /\ At(h, "save")
  /\ IF rows[j.id] = None
     THEN Proceed(h) /\ UNCHANGED rows
     ELSE IF PathTaken(j.want.path, j.id)
     THEN Refuse(h) /\ UNCHANGED rows
     ELSE /\ \E e \in j.seen :
               rows' = [rows EXCEPT ![j.id] =
                 [@ EXCEPT !.path = j.want.path, !.baseline = j.want.conf,
                           !.port = j.want.conf.port, !.status = e[2],
                           !.hasBackup = TRUE]]
          /\ Proceed(h)
  /\ UNCHANGED <<nextId, files, procs>>

\* mutant: archiving keeps the last status
MarkArchivedOnly(h) ==
  /\ At(h, "markArchived")
  /\ UpdateNamed(job[h].row.baseline.name, LAMBDA r : [r EXCEPT !.archived = TRUE])
  /\ Proceed(h)
  /\ UNCHANGED <<nextId, files, procs>>

MarkArchived(h) ==
  /\ At(h, "markArchived")
  /\ UpdateNamed(job[h].row.baseline.name,
       LAMBDA r : [r EXCEPT !.archived = TRUE, !.status = "STOPPED"])
  /\ Proceed(h)
  /\ UNCHANGED <<nextId, files, procs>>

MarkRestored(h) ==
  /\ At(h, "markRestored")
  /\ \E e \in job[h].seen :
       UpdateNamed(e[1], LAMBDA r : [r EXCEPT !.archived = FALSE, !.status = e[2]])
  /\ Proceed(h)
  /\ UNCHANGED <<nextId, files, procs>>

DropRow(h) ==
  /\ At(h, "dropRow")
  /\ rows' = [rows EXCEPT ![job[h].id] = None]
  /\ Proceed(h)
  /\ UNCHANGED <<nextId, files, procs>>

\* start, stop and restart store one entry; a refresh stores one per awaited
\* UPDATE, in any order.
SaveStatus(h) ==
  LET j == job[h] IN
  /\ At(h, "saveStatus")
  /\ IF j.seen = {}
     THEN Proceed(h) /\ UNCHANGED rows
     ELSE \E e \in j.seen :
            /\ UpdateNamed(e[1], LAMBDA r : [r EXCEPT !.status = e[2]])
            /\ job' = [job EXCEPT ![h] = IF j.seen = {e} THEN After(j)
                                         ELSE [j EXCEPT !.seen = j.seen \ {e}]]
            /\ UNCHANGED faults
  /\ UNCHANGED <<nextId, files, procs>>

SaveSync(h) ==
  LET j == job[h] IN
  /\ At(h, "saveSync")
  /\ \E e \in j.seen :
       UpdateNamed(e[1], LAMBDA r :
         [r EXCEPT !.status = e[2], !.hasBackup = j.hasBak,
                   !.port = IF j.file = None THEN j.row.port ELSE j.file.port])
  /\ Proceed(h)
  /\ UNCHANGED <<nextId, files, procs>>

-----------------------------------------------------------------------------
(***************************************************************************)
(* Faults.                                                                 *)
(***************************************************************************)
\* The call of the current step never took effect and raised; the status
\* query of one program and the reads of a sync swallow that themselves.
CallFails(h) ==
  /\ Busy(h)
  /\ ~(At(h, "status") \/ At(h, "readCurrent") \/ At(h, "readBackup"))
  /\ Fault
  /\ job' = [job EXCEPT ![h] = Failed(@)]
  /\ UNCHANGED <<db, files, procs>>

\* The process dies: every request in flight is forgotten, nothing is
\* compensated and nothing is repaired at start-up.
Crash ==
  /\ \E h \in Handlers : Busy(h)
  /\ Fault
  /\ job' = [h \in Handlers |-> Idle]
  /\ UNCHANGED <<db, files, procs>>

Begin(h)   == /\ ~Busy(h)
              /\ \/ BeginCreate(h) \/ BeginUpdate(h) \/ BeginOnActive(h)
                 \/ BeginOnArchived(h) \/ BeginRefresh(h)
Check(h)   == ReadConfig(h) \/ CheckRows(h) \/ CheckTarget(h) \/ CheckPort(h)
FileCmd(h) == \/ Write(h) \/ Backup(h) \/ CopyBack(h) \/ RemoveOld(h)
              \/ RemoveTarget(h) \/ RemoveBackup(h) \/ RemoveFile(h)
Control(h) == Apply(h) \/ Stop(h) \/ Start(h)
Observe(h) == Status(h) \/ StatusAll(h) \/ ReadCurrent(h) \/ ReadBackup(h)
Store(h)   == \/ Insert(h) \/ SaveUpdate(h) \/ MarkArchived(h) \/ MarkRestored(h)
              \/ DropRow(h) \/ SaveStatus(h) \/ SaveSync(h)

Continue(h) ==
  /\ Busy(h)
  /\ \/ Check(h) \/ FileCmd(h) \/ Control(h) \/ Observe(h) \/ Store(h) \/ CallFails(h)

Next == \/ \E h \in Handlers : Begin(h) \/ Continue(h)
        \/ Crash

Spec == Init /\ [][Next]_vars

\* asyncio resumes every ready task, a supervisorctl run ends or times out, and
\* so a request in flight makes its next call; nobody has to send or to fail one.
FairSpec == Spec /\ \A h \in Handlers : WF_vars(Continue(h))

-----------------------------------------------------------------------------
(***************************************************************************)
(* Properties.                                                             *)
(***************************************************************************)

\* Every variable keeps its shape; a handler holds the row and the target its
\* operation works on, and is always at one of the operation's calls.
TypeOK ==
  /\ rows \in [Ids -> Row \cup {None}]
  /\ nextId \in 1..(MaxRows + 1)
  /\ ini \in [Paths -> Config \cup {None}]
  /\ bak \in [Paths -> Config \cup {None}]
  /\ shelf \in [Paths -> SUBSET Config]
  /\ procs \in [Names -> Proc \cup {None}]
  /\ job \in [Handlers -> Job]
  /\ faults \in 0..MaxFaults

\* No two rows claim one config path, whatever the handlers in flight do: the
\* one conflict the code leaves to the database, and the one that survives
\* every race between a check and the write it was made for.
PathsUnique ==
  \A i, k \in Live : i # k => rows[i].path # rows[k].path

\* A deleted service never comes back: whatever update, archive, restore or
\* sync was in flight for it when its row went, its late write changes nothing.
DeletedStaysDeleted ==
  [][\A i \in Ids : i < nextId /\ rows[i] = None => rows'[i] = None]_vars

Quiet == \A h \in Handlers : ~Busy(h)

Settled(i) ==
  LET r == rows[i] IN
  IF r.archived
  THEN /\ ini[r.path] = None
       /\ bak[r.path] = r.baseline
       /\ procs[r.baseline.name] = None
  ELSE /\ ini[r.path] = r.baseline
       /\ r.port = r.baseline.port
       /\ procs[r.baseline.name] # None
       /\ procs[r.baseline.name].conf = r.baseline

InHand(x) == \E h \in Handlers : Busy(h) /\ x \in Claims(job[h])

Active == {i \in Live : ~rows[i].archived}

\* Whatever no request in flight works on agrees with the table.
Agree ==
  /\ \A i \in Live : ~InHand(rows[i].path) => Settled(i)
  /\ \A p \in Paths : ini[p] # None /\ ~InHand(p) => \E i \in Active : rows[i].path = p
  /\ \A n \in Names : procs[n] # None /\ ~InHand(n) =>
       \E i \in Active : rows[i].baseline.name = n

\* Table, files and supervisord agree at every step about each service nobody
\* works on, as long as nothing failed: an active one runs the config its row
\* records, an archived one is only a .bak, and no .ini and no program belongs
\* to nobody, although every request reloads the host for all services.
\* Docs/12 states the aim ("keep database and remote site consistent").
InStep == faults = 0 => Agree

Undoing(h) == job[h].op \in {"undoCreate", "undoUpdate"}

\* A create or update whose database write fails is undone in the end: once
\* nothing more fails, host and supervisord agree with the table again,
\* whether or not the update had stopped, renamed or moved the service.
WriteFailureUndone ==
  \A h \in Handlers : Undoing(h) /\ faults = MaxFaults ~> ~Busy(h) /\ Agree

\* Whatever fails or crashes, and wherever, the config a row stands for is
\* still on the host: as .ini, as .bak or as a timestamped .bak.
Recoverable ==
  \A i \in Live : rows[i].baseline \in ConfigsAt(rows[i].path)

\* An archived service can be restored: its .bak is there, at every step of
\* every other request and after any failure of its own.
Restorable ==
  \A i \in Live : rows[i].archived => bak[rows[i].path] # None

\* As long as nothing failed, an archived service is never listed as running:
\* neither a start, a stop, a sync nor a refresh leaves another status on its
\* row.  (A restore whose last UPDATE fails leaves a running one archived.)
ArchivedLooksStopped ==
  faults = 0 => \A i \in Live : rows[i].archived => rows[i].status = "STOPPED"

\* What the table says of the services, without content and status.
Listing ==
  [i \in Ids |->
    IF rows[i] = None THEN None
    ELSE [name |-> rows[i].baseline.name, path |-> rows[i].path,
          port |-> rows[i].port, archived |-> rows[i].archived]]

Catalog == INSTANCE ServiceCatalog WITH services <- Listing

ASSUME EntryAssumption == None \notin Catalog!Entry

\* The table, read alone, behaves like the catalogue the API promises: names,
\* paths and active ports stay distinct in the step that writes, although
\* they were checked many steps before, and a service is removed only from
\* the archive.  The port of an archived service is kept for it by its .bak.
ImplementsCatalog == Catalog!Spec

(***************************************************************************)
(* What the documents promise and the code does not keep.                  *)
(***************************************************************************)

\* "Only archived records may be deleted" (docs/01): is_archived is read when
\* the request is accepted, and the DELETE names the id alone.
OnlyArchivedDeleted ==
  [][\A i \in Live : ~rows[i].archived => rows'[i] # None]_vars

\* "On failure the old config is restored" (docs/12): an update that fails
\* leaves the .ini of the service as its row records it.
FailedUpdateRestores ==
  [][\A h \in Handlers : CallFails(h) /\ job[h].op = "update" /\ job'[h] = Idle
       => ini[job[h].row.path] = job[h].row.baseline]_vars

\* "An active record may be archived" (docs/10), after a failed attempt too:
\* backup refuses a service whose .ini is gone.
ActiveCanBeArchived ==
  Quiet => \A i \in Live : ~rows[i].archived => ini[rows[i].path] # None

\* "An update may change name, file and port" (docs/12): the port check never
\* refuses one when neither another row, nor another row's files, nor another
\* running program has the port.
PortUsedByOthers(j) ==
  LET x == j.want.conf.port IN
  \/ \E i \in Live \ {j.id} : rows[i].port = x \/ \E c \in ConfigsAt(rows[i].path) : c.port = x
  \/ \E n \in Names \ {j.row.baseline.name} : procs[n] # None /\ procs[n].conf.port = x

PortRefusalJustified ==
  [][\A h \in Handlers :
       CheckPort(h) /\ job[h].op = "update" /\ job'[h] = Idle
         => PortUsedByOthers(job[h])]_vars

\* A row's status is one of the states its column is declared with and a
\* search may ask for (migration 001, search_page): every word the parser takes
\* from supervisorctl is stored, also the one for a program that is not there.
StatusesDocumented == \A i \in Live : rows[i].status \in AllowedStatuses
=============================================================================
