# A verification model of be-supervisor-model

The repository is a FastAPI back end that manages Supervisor services on a set
of hosts: a database table records every service, the host's `conf` directory
holds one `.ini` (or, once archived, one `.ini.bak`) per service, and the host's
`supervisord` runs what the `.ini` files declare. Commands reach a host through
Ansible or a local executor. Nothing ties the three stores together but the
order in which the request handlers write to them: there is no lock, no row
version, and no transaction outside the import's COMMIT. What can go wrong
between two awaited calls is what this project models.

All paths below are relative to `src/`; `docs/NN` is the document whose file
name starts with NN.

## 1. Inventory

| Component | State it keeps | Operations | Correct when |
|---|---|---|---|
| Mutations (`app/services/supervisor_mutation_service.py`) | rows, `.ini`, supervisord | create, update, hard delete, two compensations, clean-up of a delete | table, files and supervisord agree afterwards; names, paths, ports stay distinct; no config is lost when a step fails |
| Archive (`supervisor_archive_service.py`) | rows, `.ini`, `.bak` | archive, restore | an archived service can always be restored |
| Runtime (`supervisor_runtime_service.py`) | supervisord, row status | start, stop, restart | archived services are refused; the row shows the state reached |
| Detail sync (`supervisor_sync_service.py`) | row columns | sync one service | the row shows what is on the host |
| Status refresh (`app/api/supervisor.py`) | row status | refresh all statuses | the same, for all services |
| Supervisorctl (`supervisor_service.py`) | none | start, stop, restart, reread/update, status, parsing | a failed command is an error; "no such process" is tolerated only where asked; a stored status is a declared one |
| Config files (`config_file_service.py`) | conf dir | write, backup, restore, delete, list, read | each operation leaves a state the next one can start from, also when half done |
| Port check (`port_check_service.py`) | none | scan of files and processes | a port in use by somebody else is refused, a free one is not |
| Registry and repository (`supervisor_registry_service.py`, `database/repositories/supervisor.py`) | `sys_supervisor_service`, import staging | writes, conflict checks, `commit_batch` | unique paths; a batch is written whole or not at all |
| Import (`supervisor_import_service.py`) | import staging, rows | PRECHECK, GET staging, COMMIT, expiry | one batch per operator and host; a batch with a SKIPPED file never commits |
| Templates (`template_service.py`) | none | render, parse | pure functions |
| Executors (`app/executor`) | none | run a command locally or through Ansible | an error means the command may or may not have taken effect |
| Login (`auth_service.py`, `token_service.py`, `user_service.py`) | `sys_login_token`, `sys_user`, `sys_login_log` | login, logout, authenticate | an ended token is refused, a live one is not; the three tables agree |
| Overview, detail, hosts | none | queries | read only |
| Bootstrap (`database/bootstrap.py`) | schema | runs once at start-up | before any request |
| Input safety (`core/security.py`), config, logging, schemas | none | | pure functions, settings, formats |

**Interactions.** A handler is an `async` function. Blocking work
(`run_blocking`) and every query is awaited, so other handlers run between any
two calls. The handlers communicate only through the table, the conf dir and
supervisord: `supervisorctl update` applies *every* file in the directory, also
one that another handler has just written; the port check reads *every* file;
conflict checks read the table long before the write they are made for.

**Hard behaviours.** Interleaving of requests at every await; a remote command
that took effect but is reported as failed (timeout in `ansible.py`); file
commands made of two shell commands of which the second fails; a process that
dies with requests in flight and repairs nothing at start-up; compensation for
the last step of an operation only; batches staged row by row; a COMMIT whose
reads see a snapshot and whose writes meet the rows as they are; a login
that writes three tables in three calls while tokens expire, are revoked, or
lose their user.
`PROJECT.json` lists each hazard at the line where it bites, with the
properties that watch it, or the reason why none does.

## 2. Modules

| Module | What it is |
|---|---|
| `ServiceLifecycle.tla` | every operation on services of one host, call by call |
| `ServiceCatalog.tla` | what the API promises of the table alone: entries with distinct names, paths and active ports that go active, archived, removed |
| `ServiceLifecycle_proofs.tla` | theorems about `ServiceLifecycle`: types, unique paths, no revival |
| `ServiceRecovery_proofs.tla` | theorems about `ServiceLifecycle`: no config is lost, every archived service can be restored |
| `ServicePorts_proofs.tla` | theorem about `ServiceLifecycle`: it implements `ServiceCatalog` |
| `ServiceAgreement_proofs.tla` | theorems about `ServiceLifecycle`: table, files and supervisord agree, and archived services are listed as stopped |
| `ImportStaging.tla` | PRECHECK, GET staging and COMMIT of one host, with other requests changing files and rows |
| `ImportStaging_proofs.tla` | theorems about `ImportStaging`: types, one batch per operator, whole commits |
| `ImportCommit_proofs.tla` | theorems about `ImportStaging`: what was planned commits, and mirrors the host |
| `LoginTokens.tla` | login, authentication and logout, with administrators and the clock |
| `TokenLedger.tla` | what the login promises of a token: stored, audited, held, closed, in this order |
| `LoginTokens_proofs.tla` | theorems about `LoginTokens` |
| `MCServiceLifecycle.tla`, `MCImportStaging.tla`, `MCLoginTokens.tla` | the symmetry sets (and the file contents) of the TLC runs |

Hosts share nothing: every query names the host, every command goes to one. The
models of services and imports are therefore of one host; logins know no host.
The three components meet only in the table of services, which the import's
`Elsewhere` and the lifecycle's own writes change under each other, and in the
operator's identity, which a login establishes before any handler runs.

### ServiceLifecycle

State: `rows` and `nextId` are the table `sys_supervisor_service` (a row keeps
the columns that operations read back); `ini[p]`, `bak[p]` and `shelf[p]` are
the files `<p>`, `<p>.bak` and `<p>.bak.<ts>`; `procs[n]` is what supervisord has
loaded for program `n` and whether it is up; `job[h]` is the handler in flight:
its operation, the call it is at, and the locals it keeps across awaits.

An operation is a sequence of named calls (`CreateSteps`, `UpdateSteps`, ...) in
program order, and each call is one action used by every operation that makes
it: `checkRows` is `ensure_can_save`, `checkTarget` and `checkPort` the two
checks on the host, `write`, `backup`, `copyBack`, `rmOld`, `rmTarget`,
`rmBackup`, `rmFile` the file commands, `apply` the pair `reread`/`update`,
`stop`, `start`, `status`, `statusAll` the other supervisorctl commands, and
`insert`, `save`, `markArchived`, `markRestored`, `dropRow`, `saveStatus`,
`saveSync` the database writes. `Failed` says where an exception sends each
operation: to its compensation, past the step (clean-up of a delete), or to the
end. The two compensations are operations of their own, `undoCreate` and
`undoUpdate`, and may themselves fail.

The program text of a service is a `Config`: its name, its port and a revision
for everything else. Rendering and parsing appear as "a file holds this Config".

Faults, at most `MaxFaults` in a behaviour: `CallFails` (a call raises and did
nothing), `Reported` (a remote command worked and is reported as failed),
the half-done branches of `Backup` and `CopyBack`, `Status`, `ReadCurrent` and
`ReadBackup` (which swallow their errors and store a substitute), and `Crash`.

supervisord is external and modelled from how the code uses it: `update` makes
the loaded programs those of the `.ini` files, restarts what changed, and starts
what is new, because the template sets `autostart=true`; of two files declaring
one program either may win. The process states STARTING, BACKOFF, FATAL and EXITED are
folded into up and down. Programs do not stop by themselves. `Statuses` is what the parser
may return for such a program, and `ERROR` for one that is not loaded (the parser takes any word at the place of
the state); `AllowedStatuses` is what the code and the column declare, folded likewise. `supervisorctl status`
without a program may exit with an error when some program is not up, and a refresh then ends there
(`AnyDown`); for a single program the handlers accept any exit code.

Granularity. An action is one awaited call. A call that reads several files or
runs two commands is one action; where its halves leave different states they
are separate outcomes, and where a concurrent removal can make it fail
(`CheckPort`) it may fail. `reread` alone changes nothing that runs, so the pair is
one action. A request that its gate refuses changes nothing and is not accepted in
the model.

`Exclusive` is a discipline of the *operators*, not of the code: no two
requests in flight name the same program, path or port. Nothing in the code
enforces it. The properties that need it are checked with it, and
`LifecycleRaces` shows what remains without it.

### ImportStaging

State: `ini` (the `[program:*]` sections of each file in the conf dir, or no
file), `rows` (a set of records) and `nextId`, `staging` (the staged rows, with ids
that give their order), `nextBatch`, `known` (the batch ids each operator was given), `job`.
A job keeps the paths still to read, the items built and not staged, and for a COMMIT the
staged rows it read (`read`), those not checked yet (`left`) and its snapshot of the
table (`base`). `Texts` is what files may contain: `Parsed` is configparser's rule that a
file has exactly one program; any other text is a SKIPPED file. `fresh` (batches
whose PRECHECK began to look after the table last changed) and `skipped` (batches whose PRECHECK
skipped a file) are history variables for the properties; no guard reads them.

PRECHECK: `DeleteExpired`, `Clear`, `Scan`, one `Plan` per file, one `Insert`
per staged row. GET staging: `DeleteExpired`, `ShowLatest`. COMMIT: `CommitRead`
(the batch, its SKIPPED rows, its duplicates, and the start of the snapshot),
`CommitItem` per staged row (the name check), `CommitEnd`.

COMMIT runs inside `in_transaction()`, which sets no isolation level; the model
takes the default of InnoDB, REPEATABLE READ. Plain reads see the snapshot of the first
read and the transaction's own writes (`Before` removes rows the transaction has
already overwritten from what the name check sees). An UPDATE or INSERT acts on
the current row and holds its lock until the end, so nobody sees the writes
before the commit and the model applies them in `CommitEnd`: an UPDATE of a row
deleted meanwhile changes nothing, and a unique key that another row took
meanwhile fails the whole transaction. Lock waits and deadlocks, which the database ends
with an error, are `CallFails`.

Rows expire by `create_time`, which grows with the id: `DeleteExpired` removes
any beginning of `staging` that no PRECHECK is still writing. `Elsewhere` is everybody else:
a file appears, changes or goes, a service is created, changed or deleted.
`Alone` is again a discipline: an operator waits for the answer before the next
request.

### LoginTokens

State: `users`, `tokens` and `log` are the three tables; `nextJti` numbers the tokens
signed; `held` the JWTs clients were answered with; `now` the clock; `job[h]` the
request in flight with its locals: the user record it read, whether the password was
right, the JWT it signed or carries. `dead` is a history field for the properties.

A login is `FindUser`, `Verify` (bcrypt in a thread, then the status check and
the signing without another await), and the three writes of `LoginSteps`:
`CreateToken`, `UpdateLoginInfo`, `LogSuccess`; or `LogFailure`. After the last one the
client holds the token, unless the answer is lost. A request with a token is decoded on
arrival (an expired one is refused there), then `FindToken` and `Admit` or `TurnAway`
are its two queries; a logout goes on to `Revoke` its own row. `CallFails` and `Crash`
end requests anywhere. `Tick` and `Administer` (disable, enable, delete a user) are
external: the code never writes `status` or `is_deleted` of a user.

`TokenLedger` abstracts the three tables and the clients to one line per token:
stored, audited, held, closed. `Lines` is the refinement mapping.

## 3. Runs

Every run takes seconds to about four minutes with two workers.

| Run | Instance | Shows |
|---|---|---|
| `LifecycleSequential` | 1 handler, all ten kinds of requests, no fault | `TypeOK`; `InStep`: at every step of every sequence of requests the table, the files and supervisord agree about each service nobody is working on; `ArchivedLooksStopped`; the table implements `ServiceCatalog` |
| `LifecycleFaults` | 1 handler, 1 fault anywhere, with sync, fair handlers | `Recoverable`: the config of every row is on the host at every moment; `Restorable`: an archived service has its `.bak`; `WriteFailureUndone`: a failed database write is compensated in the end |
| `LifecycleExclusive` | 2 handlers, `Exclusive`, 1 fault | `InStep`, `Recoverable`, `Restorable` and `ServiceCatalog` with two requests interleaved at every await, although reload, port scan and table are shared |
| `LifecycleRaces` | 2 handlers on anything | `PathsUnique`, `DeletedStaysDeleted`: what survives every race |
| `ImportOperators` | 2 operators, 2 requests in flight, 2 batches, 1 change elsewhere, 1 fault | `TypeOK`, `OneBatch`, `AllOrNothing`, `ImportMirrorsHost`, `PlannedCommits` |
| `LoginRaces` | 2 requests in flight, 2 users, 2 tokens, 2 ticks, 1 fault, 1 change by an administrator | `TypeOK`, `EndedStaysOut`, `RefusalJustified`, `LastLoginHasToken`, the tables implement `TokenLedger` |
| six `Doc...` runs | | sentences of the documents that the code does not keep, section 4 |

**Bounds and why they are enough.** Two names, two paths, two ports, and two
ids (`MaxRows`): conflicts, moves, renames, swaps and the reuse of a deleted
service's path are relations between two services. `Revs` has one element: a change of the config
shows as a change of name or port. `LifecycleFaults` is about the files and programs of one
service as an update moves, renames and edits it: one row and one port, but two names, two paths and
two revisions. `MaxFaults` is one: each property speaks of what a
single failure may do to a sequence that is otherwise right; two failures in a
row are the next thing to try where the state space allows it. `LifecycleRaces` has one port
and no fault: the port check then refuses more often, and a failed call ends a
handler at a place where it can also be idle forever, which the interleavings already
contain. `MaxBatches` is two, the least with an old and a new batch or with two
operators; `MaxChanges` is one, for one change suffices to make a plan stale.
`Texts` of that run are the files of one program and the file that declares all, so
that files are planned, unreadable, and in conflict over a name.
`LoginRaces` has two tokens, so that two logins of one user or of two users overlap, and a
lifetime of one tick, so that a token can expire before, between and after the two queries of
a request that carries it.
Both bound counters only; none of the bounds disables a path of a handler.

**Symmetry.** Handlers, names, paths, ports, operators and users are permuted. No
action or property distinguishes them, and
the order in which PRECHECK reads files is left open for this reason. `LifecycleFaults`
uses none, because it checks a liveness property.

**Deadlock.** `LifecycleSequential` checks it. The other runs stop when the
bounded supply of ids, batches or of the admitted kinds of requests is used up;
that is the end of the instance, not of the system.

**Fairness.** `FairSpec` adds weak fairness of `Continue(h)` for each handler: asyncio
resumes a task whose awaited call is done, and every remote command either ends or runs into
the executor's timeout, so a request in flight makes its next call. Nothing obliges an
operator to send a request (`Begin`), a call to fail, or the process to crash. Since
`CallFails` is among the steps of `Continue`, fairness does not promise success:
`WriteFailureUndone` therefore speaks of a compensation that runs once the faults are spent.
Only `LifecycleFaults` needs fairness; the safety runs use `Spec`.

### The properties

* `InStep` relates all three stores, at every step of every handler, for each service, path
  and program that no request in flight has in hand, as long as nothing has failed.
  It fails if an update forgets the file of the old path, if one request's reload disturbs
  another's service, for two interleaved requests as for one.
* `ArchivedLooksStopped` holds only without faults: a restore whose last UPDATE fails leaves a
  running service archived.
* `WriteFailureUndone` is the one promise the code makes after a failure: the compensation of a
  failed create or update ends, and then the stores agree again, also when the update had stopped,
  renamed and moved the service.
* `StatusesDocumented`, of `DocStatusWords`, compares what is stored with what is declared; `TypeOK` has the
  words that are really stored.
* `Recoverable` and `Restorable` are the crash-safety of the file protocol: backup
  before removal, rename before copy, row deleted before the files.
  They hold in every intermediate state. They speak of rows: of an `.ini` or program without a row
  (a create that crashed) and of backups without a row (a delete whose clean-up failed) they say nothing.
* `ImplementsCatalog` is refinement: `services[i]` is the row read as an entry.
  Every step of every handler is a step of the catalogue or none. It holds across the
  gap between check and write only because archived services keep their port through
  the `.bak` that the port scan reads; the mutant that leaves `.bak` out of the
  scan breaks it.
* `PathsUnique` and `DeletedStaysDeleted` need no discipline. The second is about rows that are gone; an update
  that was in flight when its service was archived does write the archived row, and keeps it archived.
* `EndedStaysOut`, `RefusalJustified`: both directions of authentication, with logins, logouts,
  expiry and administrators between its two queries. What ended before a request
  arrived is never let through; what is refused was revoked, by a logout that carries that very token,
  or has lost its user.
* `LastLoginHasToken` and `ImplementsLedger`: a login writes three tables without a transaction, and
  yet the order of its calls keeps them telling one story after any failure: no last login without
  its token, no token handed out that is not stored and audited.
* `OneBatch`: failed and crashed PRECHECKs, expiry and other operators never
  leave an operator who waits for each answer (`Alone`) with rows of two batches. Two overlapping PRECHECKs
  of one operator do: each clears, then both insert. A batch that expiry cut in two is still one batch.
* `AllOrNothing`: COMMIT changes the table only in the step that clears its batch, and then
  for every staged file, whatever happened to the table since its snapshot.
* `ImportMirrorsHost`: what the import is for; a batch that commits undisturbed leaves a row for every
  file, with the program that file declares.
* `PlannedCommits`: COMMIT repeats PRECHECK's checks in another order, against its own
  writes; neither they nor the unique key refuse a batch whose table did not change since PRECHECK looked.

## 4. Where code and documents differ

| Run | Document | Code |
|---|---|---|
| `DocDeleteGate` | docs/01:162, only archived records may be deleted | the gate is read at the start; a restore in between, and the DELETE by id removes an active service |
| `DocUpdateRollback` | docs/12:35, on failure the old config is restored | only the final database write is inside the `try`; a failure before it leaves the host as it is |
| `DocArchiveRetry` | docs/10:13, an unarchived record may be archived | after an archive that failed once its `.ini` was removed, every retry fails in `backup`, which wants the `.ini` |
| `DocPortChange` | docs/12:34, an update may change name, file and port | the `.bak` left under the old path makes the scan refuse a port nobody uses |
| `DocStatusWords` | `app/database/migrations/001_init_schema.sql:103`, the status is one of eight words | the parser stores the word supervisorctl says; a sync of an active service whose program is gone stores `ERROR`, which a search refuses as a filter |
| `DocSkippedBlocks` | docs/07:61, with a SKIPPED file COMMIT answers 409 | a PRECHECK that died between its inserts leaves a batch without its SKIPPED row, which GET staging offers and COMMIT accepts |

A seventh difference has no run of its own: docs/10:38 and docs/01:158 say that restoring does not start
the service, but the `reread`/`update` of a restore starts a program whose template says
`autostart=true` (`Apply`).

Further behaviour that no document contradicts: with two requests on the *same*
service, `InStep`, `Recoverable` and `ArchivedLooksStopped` fail (a refresh or a
sync writes what it read before an archive; the compensation of a create removes a file that
another create recorded). `Restorable` fails too: of two archives of one service the second may
move the `.bak` of the first aside and then fail to copy, while the first removes the `.ini`
and marks the row; only a `.bak.<ts>` is left, which restore does not look at.

## 5. What is proved

`ServiceLifecycle_proofs.tla`, for all values of the constants, under the five
assumptions in `ServiceLifecycle`, and for any number of handlers, faults and crashes:

* **TypeCorrect**, `Spec => []TypeOK`. `TypeOK` is inductive because it contains
  the shape of a job: an operation in `OfRow` holds a row and its id, one in
  `OfTarget` holds a target, and the position is one of the operation's calls.
  Lemmas say which operations make which calls (`CallersOnRow`, `CallersOnTarget`), so that
  no action reads a row or a target its handler does not hold, and that `After`
  and `Failed` lead to a job again. One lemma per group of actions follows.
* **PathsAreUnique**, `Spec => []PathsUnique`. Inductive relative to `TypeOK`: only
  `Insert` and `SaveUpdate` give a row another path, and both meet the unique key in the step
  that writes. The checks made earlier play no part in the proof, which is the
  point: they would not hold under interleaving.
* **DeletedStayDeleted**, `Spec => DeletedStaysDeleted`. Every UPDATE leaves a
  missing row missing, and `Insert` writes at `nextId`, which is above every id
  used before.

`ServiceRecovery_proofs.tla`, for all values of the other constants when `Exclusive` is TRUE (operators
do not work on the same name, path or port at once), for any number of handlers and of faults:

* **NothingIsLost**, `Spec => []Recoverable`, and **ArchiveStaysRestorable**, `Spec => []Restorable`.
  Neither is inductive: that a step of `RemoveOld` loses nothing follows from a backup made
  several calls earlier. The invariant `Safe` says, for each handler, what the calls it has behind
  it (`Past`) have established. `Held`: its row is as it loaded it. `Gone`: after a delete
  dropped the row nobody has the path. `Free`: after `checkRows` no other row has the target's path or name.
  `Copied`: after `backup`, and all through a restore or an undone update, a backup holds the config
  of the row. `InPlace`: after `write` the target holds the new config. `Sheltered` is what both
  promises need of one row.
  The argument has three parts. `CallsOf` and `OrderOfCalls` read off `Flow` which operations make a call
  and what is then behind it. `Frame` says that a step changes files and rows only under what its
  handler claims, so `OthersSecured` and `SafeBy` leave to each action only its own handler
  and the rows under its own paths. Then one lemma per action (`WriteSafe` ... `BeginSafe`), where a failed
  call needs nothing of its own: an idle handler promises nothing, and a compensation starts
  from what its operation had secured (`UndoSecured`).
  Without `Exclusive` the theorems are false: see section 4.

`ServicePorts_proofs.tla`, again when `Exclusive` is TRUE:

* **CatalogImplemented**, `Spec => ImplementsCatalog`. Names and paths come from `Safe` (`Free`, `Held`).
  Ports are the difficult part: `checkPort` reads files and processes, and the row is written
  many calls later. The invariant `Orderly` says where a port can be found in between.
  `PortKept`: the port of a row is in its files, that of an archived row in its backups.
  `PortsApart`: no two rows lay hold of one port, where a service takes the port of its row and of its
  `.ini`, and of its `.bak` while that may still be copied back (`Takes`, `Returns`). `Cleared`: after `checkPort` no file
  outside the handler's own paths has the target's port, because every other handler writes only ports
  it claims itself. `Entry`, `About`, `FileRead`: what a restore or a sync writes over
  its row was read from its own row, its own program and its own `.ini`.
  `TargetPortFree` draws from these what the write needs: no other active row has the port.
  The refinement maps `Insert` to `Register`, `SaveUpdate` and `SaveSync` to `Replace`,
  `MarkArchived` to `Archive`, `MarkRestored` to `Restore`, `DropRow` to `Remove`, and every other step
  to a stutter, one lemma each. `EntryAssumption` says that "no row" is not an entry, as
  `NoneAssumption` says it for the other sets.

`ServiceAgreement_proofs.tla`, when `Exclusive` is TRUE, on top of `Safe` and `Orderly`:

* **AgreementKept**, `Spec => []InStep`. The invariant is `Steady`, claimed while `faults = 0`. It differs from
  `Agree` in two ways. A service is out of step only from the first file its handler changes (`Works`), not
  from the moment a request claims it, so that a request that ends early, or at a check, leaves nothing behind
  (`Tended` in place of `InHand`). And it says how far each handler at work has brought host and
  supervisord: `Placed`, by the file commands behind it, and `Running`, once `apply` is behind it.
  Three lemmas about whole steps carry the proof. `QuietSteady`: the same services are worked on before and after.
  `MovingSteady`: a handler at work changes its own files. `EndingSteady`: a handler writes its row and lets go
  of it, and what it leaves is settled. Each action is then one of the three.
  The step that reaches everybody is `apply`. `UntendedRuns` shows that a reload changes no program
  nobody works on, because the only file that declares it is the one its active row records; `AppliedRuns`
  shows that for a handler's own programs it brings up what that handler wrote, also when
  another handler's reload does it first.
  `faults = 0` rules out crashes and failed calls, and so the compensations; refusals by the checks remain.
* **ArchivedStaysListedStopped**, `ASSUME Exclusive, RefreshAlone PROVE Spec => []ArchivedLooksStopped`.
  A start, stop or sync stores a status for its own, active, row (`Entry`, `About`). A refresh stores what it read about
  all services, so the invariant `Fresh` says that none of that is about an archived one, which holds when it
  reads because `Steady` leaves an archived service no program. `RefreshAlone` is that refreshes do not
  overlap other requests: there are none, or there is one handler. Without it the statement is false, see section 4.

`LoginTokens_proofs.tla`, for all values of the constants:

* **TypeCorrect**. `TypeOK` again contains the shape of a job: a request that carries a token or
  writes one has it, one that verifies or writes has a user.
* **LastLoginsHaveTokens**, `Spec => []LastLoginHasToken`, and the basis of all the rest: the
  invariant `Record`. It says what the position of every login in flight implies for the
  tables: the token it writes about is no other login's and no client's, stored from `touch` on
  and not audited yet, while every token a client holds is stored as it was signed, and audited.
* **EndedTokensStayOut**, `Spec => EndedStaysOut`, needs `DeadEnd` besides: a request that
  arrived with an ended token finds it revoked or its user deleted, and gets past `FindToken` only
  when the user is deleted, because no UPDATE clears `revoked_time` and nobody undeletes a user.
* **TokensWork**, `Spec => RefusalJustified`. `FindToken` can only fail on a revoked row,
  because `Record` makes the row of every held token exist with that very JWT.
* **LedgerImplemented**, `Spec => ImplementsLedger`: initial states map to the initial state, and
  each step to a move of one token or to a stutter, one lemma per write that moves a line.

`ImportStaging_proofs.tla`, for all values of the constants:

* **TypeCorrect**, with `Counted` (staging and what a COMMIT read are finite sets) beside `TypeOK`,
  because the ids a COMMIT hands out are counted from them.
* **OneBatchEach**, `ASSUME Alone PROVE Spec => []OneBatch`. The invariant `Exclusive` has three parts:
  one request in flight per operator, the rows of a PRECHECK at work are the only
  ones of its operator, and `OneBatch` itself. `Onward` states how a job may move on, so that
  one lemma serves every step that leaves `staging` alone.
* **CommitWhole**, `Spec => AllOrNothing`, with or without `Alone`. The invariant is `Sound`:
  paths are unique in the table and in every snapshot, and no COMMIT at work holds two staged rows of one
  path. Then what `CommitEnd` writes for a staged row is not overwritten by another, and a row that
  appeared meanwhile is caught by the unique key.

`ImportCommit_proofs.tla`, on top of these. Both properties compare a COMMIT with what its
PRECHECK saw many calls earlier, so both invariants follow the items on their way: built by a
PRECHECK, staged one by one, read by a COMMIT.

* **PlannedAccepted**, `Spec => PlannedCommits`, with or without `Alone`, in three layers. `OwnBatches`: a
  batch has one PRECHECK, and until it inserts a row nobody else can name the batch (`Unseen`). `BatchesApart`:
  the items of a batch have different paths, and those that are planned different names, so that
  `CommitRead` finds nothing ambiguous. `FreshSuits`: of a fresh batch no planned item has a name that some row has
  at another path, wherever the item is, so that `CommitItem` finds no name taken. A batch becomes fresh in `Scan`,
  when it is still empty, and no batch is fresh after the table changed (`FreshMoves`). `FreshSnapshots`: the
  snapshot of a COMMIT whose batch is fresh still is the table, so that what the unique key of the table
  would refuse, the checks on the snapshot have seen.
* **HostMirrored**, `ASSUME Alone PROVE Spec => ImportMirrorsHost`. The invariant `Mirrored` is
  claimed while no fault and no change elsewhere has happened. `AllRight`: a planned item has the
  program its file declares. `NoneLeftOut`: what a PRECHECK has still to read, what it has built and what it has
  staged are together all files of the host, and so is each batch that nobody is writing; this needs `OneRequest`, and
  `BatchMoves`, which says that a batch is removed as a whole and only by its own operator.
  `RowsStay`: a COMMIT keeps the ids of all rows, so an UPDATE never misses its row. `ImportedWhole`, which
  `CommitWhole` rests on as well, then gives each file its row.

TLC checked the invariants `OwnBatches`, `BatchesApart`, `FreshSnapshots`, `NamesDistinct => FreshSuits` and
`Mirrored` on the instance of `ImportOperators`, and all but `Mirrored` on one without faults in which operators do
not wait.

Model-checked only: `WriteFailureUndone` (liveness).
Liveness under fairness, ENABLED and induction over data are outside the prover's reach and
stay with TLC in any case.

## 6. Not modelled, and what could follow

Not modelled, with the reason in `PROJECT.json`: rendering of templates (of parsing, only the
rule that a file has one program), input safety, parsing of supervisorctl and `ss` output
(pure functions over text), overview and detail (read only), hosts (a read-only whitelist),
bootstrap (before any request), settings. Also left out:
the one-second resolution of `.bak.<ts>` names (`shelf` is a set, so `Recoverable` assumes that
the backups of one service are a second apart), an acknowledgement lost by the
*database* (an INSERT that committed but raised), changes made on the host by
hand while a service operation runs, and the text columns of rows and staging.

What could follow, in this order:

1. Composition of import and lifecycle: COMMIT writes content read at PRECHECK
   and does not clear `is_archived`, so a row may differ from its file.
2. A lost commit acknowledgement, and two faults in one behaviour.
3. Pure decisions as operators checked against a reference: path normalisation,
   the parse of status output, backup selection.
