--------------------------- MODULE ImportStaging ---------------------------
(***************************************************************************)
(* The two-phase import of the .ini files already on ONE host: PRECHECK    *)
(* scans the conf dir and stages one row per file, GET staging shows the   *)
(* latest batch, COMMIT writes a staged batch to the table in one database *)
(* transaction and clears it.                                              *)
(*                                                                         *)
(* PRECHECK has no transaction: it clears the operator's batches, reads    *)
(* the files one by one and inserts the staged rows one by one, and every  *)
(* one of these calls may fail, be the last before a crash, or leave room  *)
(* for another request.                                                    *)
(***************************************************************************)
EXTENDS Naturals, FiniteSets, Sequences

CONSTANTS
  Handlers,     \* requests that can be in flight together
  Operators,    \* logged-in users
  Paths,        \* config paths under the conf dir
  Names,        \* program names
  MaxBatches,   \* bound: PRECHECKs ever accepted
  MaxChanges,   \* bound: changes made elsewhere, and expiries
  MaxFaults,    \* bound: failed calls and crashes
  Alone,        \* TRUE: an operator waits for the answer before the next request
  Texts,        \* contents of files: the [program:*] sections of each
  None

Batches   == 1..MaxBatches
StagedIds == 1..(MaxBatches * Cardinality(Paths))
Results == {"PLANNED", "SKIPPED"}
Row     == [id : Nat \ {0}, path : Paths, name : Names]
Item    == {it \in [path : Paths, name : Names \cup {None}, result : Results] :
              it.result = "PLANNED" => it.name # None}
Staged  == [id : StagedIds, batch : Batches, by : Operators, item : Item]
Planned == {s \in Staged : s.item.result = "PLANNED"}

ASSUME SetsAssumption   == IsFiniteSet(Paths) /\ Operators # {} /\ Handlers # {}
ASSUME BoundsAssumption == MaxBatches \in Nat /\ MaxChanges \in Nat /\ MaxFaults \in Nat
ASSUME AloneAssumption  == Alone \in BOOLEAN
ASSUME TextsAssumption  == Texts \subseteq SUBSET Names
ASSUME NoneAssumption   == None \notin Names /\ None \notin Operators

(***************************************************************************)
(* The ids of staging give the order of its rows.  known holds the batch   *)
(* ids an operator's client was given.  skipped (the batches whose         *)
(* PRECHECK skipped a file) and fresh (those whose PRECHECK began to look  *)
(* after the table last changed) are history variables: no guard reads     *)
(* them.                                                                   *)
(***************************************************************************)
VARIABLES ini, rows, nextId, staging, nextBatch, known, job, faults, changes,
          fresh, skipped

table   == <<rows, nextId, fresh>>
clients == <<nextBatch, known, skipped>>
vars    == <<ini, table, staging, clients, job, faults, changes>>

-----------------------------------------------------------------------------
(***************************************************************************)
(* A request in flight: the call it is about to make and its locals: the   *)
(* paths a PRECHECK has still to read, the items it built and has not yet  *)
(* staged; the staged rows a COMMIT read, those of them it has not checked *)
(* yet, and the table as its snapshot shows it.                            *)
(***************************************************************************)
Steps == [precheck |-> {"expire", "clear", "scan", "plan", "insert"},
          commit   |-> {"read", "item", "end"},
          load     |-> {"expire", "latest"},
          idle     |-> {"done"}]

Locals == [op : DOMAIN Steps, pc : UNION {Steps[o] : o \in DOMAIN Steps},
           who : Operators \cup {None}, batch : 0..MaxBatches, todo : SUBSET Paths,
           items : Seq(Item), read : SUBSET Planned, left : SUBSET Planned,
           base : SUBSET Row]

Job == {j \in Locals : /\ j.pc \in Steps[j.op]
                       /\ j.op # "idle" => j.who # None
                       /\ j.op \in {"precheck", "commit"} => j.batch # 0
                       /\ j.pc = "plan" => j.todo # {}
                       /\ j.pc = "insert" => j.items # <<>>
                       /\ j.pc = "item" => j.left # {}}

Started(op, pc, o, b) ==
  [op |-> op, pc |-> pc, who |-> o, batch |-> b, todo |-> {}, items |-> <<>>,
   read |-> {}, left |-> {}, base |-> {}]

Idle == Started("idle", "done", None, 0)

Busy(h)   == job[h].op # "idle"
At(h, s)  == job[h].pc = s
Goto(h, j) == job' = [job EXCEPT ![h] = j]
End(h)    == Goto(h, Idle)

\* A call that raises ends the request; nothing is compensated, and an open
\* transaction is rolled back.
Fault == faults < MaxFaults /\ faults' = faults + 1

-----------------------------------------------------------------------------
Init ==
  /\ ini \in [Paths -> Texts \cup {None}]
  /\ nextId \in 1..(Cardinality(Paths) + 1)
  /\ rows \in {R \in SUBSET [id : 1..(nextId - 1), path : Paths, name : Names] :
                 /\ {r.id : r \in R} = 1..(nextId - 1)
                 /\ \A r, s \in R : r # s => r.id # s.id /\ r.path # s.path /\ r.name # s.name}
  /\ staging = {}
  /\ nextBatch = 1
  /\ known = [o \in Operators |-> {}]
  /\ job = [h \in Handlers |-> Idle]
  /\ faults = 0
  /\ changes = 0
  /\ fresh = {}
  /\ skipped = {}

Accept(h, j) ==
  /\ Alone => \A g \in Handlers : job[g].who # j.who
  /\ Goto(h, j)
  /\ UNCHANGED <<ini, table, staging, known, skipped, faults, changes>>

BeginPrecheck(h) ==
  \E o \in Operators :
    /\ nextBatch \in Batches                            \* bound
    /\ Accept(h, Started("precheck", "expire", o, nextBatch))
    /\ nextBatch' = nextBatch + 1

BeginCommit(h) ==
  \E o \in Operators : \E b \in known[o] :
    Accept(h, Started("commit", "read", o, b)) /\ UNCHANGED nextBatch

BeginLoad(h) ==
  \E o \in Operators :
    Accept(h, Started("load", "expire", o, 0)) /\ UNCHANGED nextBatch

-----------------------------------------------------------------------------
(***************************************************************************)
(* PRECHECK and GET staging.                                               *)
(***************************************************************************)

\* Rows older than a day go, row by row: create_time grows with the id, so an
\* expiry cuts off a beginning of staging.  A batch being written is younger.
BeingWritten == {job[h].batch : h \in {g \in Handlers : At(g, "insert")}}

DeleteExpired(h) ==
  LET j == job[h] IN
  /\ At(h, "expire")
  /\ Goto(h, [j EXCEPT !.pc = IF j.op = "load" THEN "latest" ELSE "clear"])
  /\ \/ UNCHANGED <<staging, changes>>
     \/ \E last \in staging :
          LET old == {s \in staging : s.id <= last.id} IN
          /\ \A s \in old : s.batch \notin BeingWritten
          /\ staging' = staging \ old
          /\ changes < MaxChanges                       \* bound
          /\ changes' = changes + 1
  /\ UNCHANGED <<ini, table, clients, faults>>

StagedBy(o)   == {s \in staging : s.by = o}
InBatch(b, o) == {s \in StagedBy(o) : s.batch = b}

\* mutant: only rows of the new batch are cleared
ClearBatch(h) ==
  /\ At(h, "clear")
  /\ staging' = {s \in staging : s.batch # job[h].batch}
  /\ Goto(h, [job[h] EXCEPT !.pc = "scan"])
  /\ UNCHANGED <<ini, table, clients, faults, changes>>

Clear(h) ==
  /\ At(h, "clear")
  /\ staging' = staging \ StagedBy(job[h].who)
  /\ Goto(h, [job[h] EXCEPT !.pc = "scan"])
  /\ UNCHANGED <<ini, table, clients, faults, changes>>

\* mutant: a file that has a row is not looked at again
PresentNew == {p \in Paths : ini[p] # None /\ \A r \in rows : r.path # p}
Present == {p \in Paths : ini[p] # None}

\* The program of a file: configparser wants one [program:*] section, and
\* keeps what else is in the file as warnings.
Parsed(p) == {n \in Names : ini[p] = {n}}

\* mutant: an empty directory is not an error
ScanEmpty(h) ==
  /\ At(h, "scan")
  /\ Goto(h, [job[h] EXCEPT !.pc = "plan", !.todo = Present])
  /\ fresh' = fresh \cup {job[h].batch}
  /\ UNCHANGED <<ini, rows, nextId, staging, clients, faults, changes>>

Scan(h) ==
  /\ At(h, "scan")
  /\ IF Present = {}
     THEN End(h) /\ UNCHANGED fresh
     ELSE /\ Goto(h, [job[h] EXCEPT !.pc = "plan", !.todo = Present])
          /\ fresh' = fresh \cup {job[h].batch}
  /\ UNCHANGED <<ini, rows, nextId, staging, clients, faults, changes>>

\* The program names this PRECHECK has planned so far.
PlannedNames(items) == {items[i].name : i \in {k \in DOMAIN items : items[k].result = "PLANNED"}}

\* find_by_content_program_name returns any one of the rows of a name: these
\* are the verdicts of its comparison with the path, for a table T.
NameTaken(T, n, p) ==
  LET same == {r \in T : r.name = n} IN
  IF same = {} THEN {FALSE} ELSE {r.path # p : r \in same}

\* mutant: the plan looks a row up by path alone
ItemsForByPath(p, n, items) ==
  {[path |-> p, name |-> n,
    result |-> IF n \in PlannedNames(items) THEN "SKIPPED" ELSE "PLANNED"]}

\* What planning a file of program n may give.
ItemsFor(p, n, items) ==
  {[path |-> p, name |-> n,
    result |-> IF n \in PlannedNames(items) \/ taken THEN "SKIPPED" ELSE "PLANNED"] :
      taken \in NameTaken(rows, n, p)}

Unreadable(p) == [path |-> p, name |-> None, result |-> "SKIPPED"]

SkippedOne(items) == \E i \in DOMAIN items : items[i].result = "SKIPPED"

\* One file of the scan.  The files are read in the order of their paths; as
\* paths are interchangeable here, any next one will do.
WithItem(j, p, it) == [j EXCEPT !.todo = @ \ {p}, !.items = Append(@, it)]

PlanItem(h, p, it) ==
  LET j == job[h]
      k == WithItem(j, p, it)
  IN  IF k.todo # {}
      THEN Goto(h, k) /\ UNCHANGED skipped
      ELSE /\ Goto(h, [k EXCEPT !.pc = "insert"])
           /\ skipped' = IF SkippedOne(k.items) THEN skipped \cup {j.batch} ELSE skipped

Plan(h) ==
  /\ At(h, "plan")
  /\ \E p \in job[h].todo :
       \/ /\ \E n \in Parsed(p) : \E it \in ItemsFor(p, n, job[h].items) : PlanItem(h, p, it)
          /\ UNCHANGED faults
       \/ Parsed(p) = {} /\ PlanItem(h, p, Unreadable(p)) /\ UNCHANGED faults
       \/ Fault /\ PlanItem(h, p, Unreadable(p))
  /\ UNCHANGED <<ini, table, staging, nextBatch, known, changes>>

\* Only the order of the ids matters: a new one is just above those in use.
Newest(i) == /\ \A s \in staging : s.id < i
             /\ i # 1 => \E s \in staging : s.id = i - 1

\* The staged rows are inserted one by one; after the last one the client gets
\* its batch id, unless the answer is lost.
Insert(h) ==
  LET j == job[h] IN
  /\ At(h, "insert")
  /\ \E i \in StagedIds :
       /\ Newest(i)
       /\ staging' = staging \cup
            {[id |-> i, batch |-> j.batch, by |-> j.who, item |-> Head(j.items)]}
  /\ IF Tail(j.items) # <<>>
     THEN Goto(h, [j EXCEPT !.items = Tail(@)]) /\ UNCHANGED <<known, faults>>
     ELSE /\ End(h)
          /\ \/ known' = [known EXCEPT ![j.who] = @ \cup {j.batch}] /\ UNCHANGED faults
             \/ Fault /\ UNCHANGED known
  /\ UNCHANGED <<ini, table, nextBatch, skipped, changes>>

\* GET staging answers with the batch of the operator's newest row.
ShowLatest(h) ==
  LET own == StagedBy(job[h].who) IN
  /\ At(h, "latest")
  /\ End(h)
  /\ IF own = {}
     THEN UNCHANGED known
     ELSE \E s \in own :
            /\ \A t \in own : t.id <= s.id
            /\ known' = [known EXCEPT ![job[h].who] = @ \cup {s.batch}]
  /\ UNCHANGED <<ini, table, staging, nextBatch, skipped, faults, changes>>

-----------------------------------------------------------------------------
(***************************************************************************)
(* COMMIT.  All its reads of the table see the snapshot of its first read  *)
(* and its own writes, its writes act on the rows as they are and hold     *)
(* their locks to the end: they are one step here, at the end.             *)
(***************************************************************************)
Skipped(S) == \E s \in S : s.item.result = "SKIPPED"

Ambiguous(S) ==
  \E s, t \in S : s # t /\ (s.item.name = t.item.name \/ s.item.path = t.item.path)

Refused(S) == S = {} \/ Skipped(S) \/ Ambiguous(S)

CommitRead(h) ==
  LET j == job[h]
      S == InBatch(j.batch, j.who)
  IN  /\ At(h, "read")
      /\ IF Refused(S)
         THEN End(h)
         ELSE Goto(h, [j EXCEPT !.pc = "item", !.read = S, !.left = S, !.base = rows])
      /\ UNCHANGED <<ini, table, staging, clients, faults, changes>>

\* The row of the snapshot a staged row is for, and those that the staged
\* rows before it have overwritten in the transaction's own view.
Target(j, s) == {r \in j.base : r.path = s.item.path}
Before(j, s) == UNION {Target(j, t) : t \in {t \in j.read : t.id < s.id}}

\* s is dealt with; the staged rows come in the order of their ids.
NextLeft(j)   == {s \in j.left : \A t \in j.left : s.id <= t.id}
Checked(j, s) == [j EXCEPT !.left = @ \ {s}, !.pc = IF j.left = {s} THEN "end" ELSE "item"]

\* mutant: each row is written on its own, without a transaction
CommitItemAlone(h) ==
  LET j == job[h] IN
  /\ At(h, "item")
  /\ \E s \in NextLeft(j) :
       /\ rows' = {r \in rows : r.path # s.item.path}
                    \cup {[id |-> nextId, path |-> s.item.path, name |-> s.item.name]}
       /\ Goto(h, Checked(j, s))
  /\ nextId' = nextId + 1
  /\ fresh' = {}
  /\ UNCHANGED <<ini, staging, clients, faults, changes>>

CommitItem(h) ==
  LET j == job[h] IN
  /\ At(h, "item")
  /\ \E s \in NextLeft(j) :
       \E taken \in NameTaken(j.base \ Before(j, s), s.item.name, s.item.path) :
         Goto(h, IF taken THEN Idle ELSE Checked(j, s))
  /\ UNCHANGED <<ini, table, staging, clients, faults, changes>>

\* An UPDATE names the id read in the snapshot and changes nothing when that
\* row is gone; (host, config_path) is a unique key.
IdsOf(T)      == {r.id : r \in T}
Updates(j, s) == Target(j, s) # {} /\ IdsOf(Target(j, s)) \subseteq IdsOf(rows)
Inserts(j)    == {s \in j.read : Target(j, s) = {}}

DuplicateKey(j, s) ==
  /\ s \in Inserts(j) \/ Updates(j, s)
  /\ \E r \in rows : /\ r.path = s.item.path
                     /\ r.id \notin IdsOf(Target(j, s) \cup Before(j, s))

Written(s, i) == [id |-> i, path |-> s.item.path, name |-> s.item.name]

Overwritten(j) == UNION {{Written(s, r.id) : r \in Target(j, s)} :
                          s \in {t \in j.read : Updates(j, t)}}

Created(j) == {Written(s, nextId + Cardinality({t \in Inserts(j) : t.id < s.id})) :
                 s \in Inserts(j)}

Untouched(j) == {r \in rows : r.id \notin UNION {IdsOf(Target(j, s)) : s \in j.read}}

Imported(j) == Untouched(j) \cup Overwritten(j) \cup Created(j)

CommitEnd(h) ==
  LET j == job[h] IN
  /\ At(h, "end")
  /\ End(h)
  /\ IF \E s \in j.read : DuplicateKey(j, s)
     THEN UNCHANGED <<table, staging>>
     ELSE /\ rows' = Imported(j)
          /\ nextId' = nextId + Cardinality(Inserts(j))
          /\ fresh' = {}
          /\ staging' = staging \ InBatch(j.batch, j.who)
  /\ UNCHANGED <<ini, clients, faults, changes>>

-----------------------------------------------------------------------------
(***************************************************************************)
(* Faults, and what other requests do to the host and to the table.        *)
(***************************************************************************)
CallFails(h) ==
  /\ Busy(h)
  /\ ~At(h, "plan")                     \* a PRECHECK skips the file, see Plan
  /\ Fault
  /\ End(h)
  /\ UNCHANGED <<ini, table, staging, clients, changes>>

Crash ==
  /\ \E h \in Handlers : Busy(h)
  /\ Fault
  /\ job' = [h \in Handlers |-> Idle]
  /\ UNCHANGED <<ini, table, staging, clients, changes>>

FileChanges ==
  \E p \in Paths, c \in Texts \cup {None} :
    ini' = [ini EXCEPT ![p] = c] /\ UNCHANGED table

\* create, update and delete of a service, their own checks passed.
Fits(r, T) == \A s \in T : s.path # r.path /\ s.name # r.name

TableChanges ==
  /\ \/ \E p \in Paths, n \in Names :
          LET r == [id |-> nextId, path |-> p, name |-> n] IN
          Fits(r, rows) /\ rows' = rows \cup {r} /\ nextId' = nextId + 1
     \/ \E s \in rows, p \in Paths, n \in Names :
          LET r == [s EXCEPT !.path = p, !.name = n] IN
          Fits(r, rows \ {s}) /\ rows' = (rows \ {s}) \cup {r} /\ UNCHANGED nextId
     \/ \E s \in rows : rows' = rows \ {s} /\ UNCHANGED nextId
  /\ fresh' = {}
  /\ UNCHANGED ini

Elsewhere ==
  /\ changes < MaxChanges                               \* bound
  /\ changes' = changes + 1
  /\ FileChanges \/ TableChanges
  /\ UNCHANGED <<staging, clients, job, faults>>

Begin(h) == ~Busy(h) /\ (BeginPrecheck(h) \/ BeginCommit(h) \/ BeginLoad(h))

Continue(h) ==
  /\ Busy(h)
  /\ \/ DeleteExpired(h) \/ Clear(h) \/ Scan(h) \/ Plan(h) \/ Insert(h)
     \/ ShowLatest(h)
     \/ CommitRead(h) \/ CommitItem(h) \/ CommitEnd(h)
     \/ CallFails(h)

Next == \/ \E h \in Handlers : Begin(h) \/ Continue(h)
        \/ Crash
        \/ Elsewhere

Spec == Init /\ [][Next]_vars

-----------------------------------------------------------------------------
(***************************************************************************)
(* Properties.                                                             *)
(***************************************************************************)

\* Every variable keeps its shape; a PRECHECK that plans has a file to read,
\* one that inserts an item to stage, a COMMIT at work a row to check.
TypeOK ==
  /\ ini \in [Paths -> Texts \cup {None}]
  /\ rows \in SUBSET Row
  /\ nextId \in Nat \ {0}
  /\ staging \in SUBSET Staged
  /\ nextBatch \in 1..(MaxBatches + 1)
  /\ known \in [Operators -> SUBSET Batches]
  /\ job \in [Handlers -> Job]
  /\ faults \in 0..MaxFaults
  /\ changes \in 0..MaxChanges
  /\ fresh \in SUBSET Batches
  /\ skipped \in SUBSET Batches

\* An operator who waits for the answer before the next request (Alone) has
\* the rows of one batch and no other: through failed and crashed PRECHECKs, and
\* whatever the other operators do.  Docs/14 wants one batch per user and host.
OneBatch == \A s, t \in staging : s.by = t.by => s.batch = t.batch

\* A COMMIT changes the table only in the step that clears its batch, and for
\* the whole batch: every staged file has its row afterwards, with the name
\* it was staged with, unless that very row was deleted meanwhile.
AllOrNothing ==
  [][\A h \in Handlers : job[h].op = "commit" /\ job'[h] # job[h] /\ rows' # rows =>
       LET j == job[h] IN
       /\ \A s \in staging' : s.batch # j.batch \/ s.by # j.who
       /\ \A s \in j.read :
            \/ \E r \in rows' : r.path = s.item.path /\ r.name = s.item.name
            \/ Target(j, s) # {} /\ IdsOf(Target(j, s)) \cap IdsOf(rows) = {}]_vars

\* What the import is for: where no file, row or call got in the way, a COMMIT
\* that succeeds leaves every .ini of the host with a row of its own that has
\* the program the file declares, whatever the table held before.
ImportMirrorsHost ==
  [][\A h \in Handlers :
       /\ job[h].pc = "end" /\ job'[h] = Idle
       /\ staging' # staging /\ faults = 0 /\ changes = 0
       => \A p \in Paths : ini[p] # None =>
            \E r \in rows' : r.path = p /\ ini[p] = {r.name}]_vars

NamesDistinct == \A r, s \in rows : r # s => r.name # s.name

\* A batch that is still staged and has no SKIPPED file commits: COMMIT repeats
\* the checks of the PRECHECK, in another order and against its own writes, and
\* yet neither they nor the unique key in the end refuse a batch whose PRECHECK
\* looked at the table as it still is.  Said while no two rows share a name; a
\* call that fails by itself is no refusal.
PlannedCommits ==
  [][\A h \in Handlers :
       LET j == job[h]
           S == InBatch(j.batch, j.who)
       IN  /\ job'[h] = Idle
           /\ \/ j.pc = "read" /\ S # {} /\ ~Skipped(S)
              \/ j.pc = "item"
              \/ j.pc = "end" /\ \E s \in j.read : DuplicateKey(j, s)
           /\ faults' = faults
           /\ NamesDistinct
           => j.batch \notin fresh]_vars

\* "With a SKIPPED in the result COMMIT answers 409" (docs/07): COMMIT sees
\* the rows that were staged, not the result of the PRECHECK.
SkippedBlocksCommit ==
  [][\A h \in Handlers : CommitEnd(h) /\ staging' # staging
       => job[h].batch \notin skipped]_vars
=============================================================================
