------------------------ MODULE ImportCommit_proofs ------------------------
(***************************************************************************)
(* What a COMMIT makes of a whole PRECHECK, proved for every instance of   *)
(* ImportStaging: a batch that was planned without a SKIPPED file commits, *)
(* and the table then mirrors the host.                                    *)
(***************************************************************************)
EXTENDS ImportStaging_proofs

-----------------------------------------------------------------------------
(***************************************************************************)
(* Batches.  A PRECHECK is the only one that writes its batch, and until   *)
(* it inserts a row nobody else can name it.                               *)
(***************************************************************************)
Prechecks == {h \in Handlers : job[h].op = "precheck"}
Early     == {h \in Prechecks : job[h].pc # "insert"}

Unseen(b) == /\ \A s \in staging : s.batch # b
             /\ \A o \in Operators : b \notin known[o]
             /\ \A h \in Handlers : job[h].op = "commit" => job[h].batch # b

OwnBatches ==
  /\ \A b \in Batches : b >= nextBatch => Unseen(b) /\ \A h \in Prechecks : job[h].batch # b
  /\ \A g, h \in Prechecks : g # h => job[g].batch # job[h].batch
  /\ \A h \in Early : Unseen(job[h].batch)

-----------------------------------------------------------------------------
(***************************************************************************)
(* The items of a batch have different paths, and those that are planned   *)
(* different names: in the PRECHECK that has still to stage some of them,  *)
(* and in staging.                                                         *)
(***************************************************************************)
IsPlanned(it) == it.result = "PLANNED"

Apart(a, b) == a.path # b.path /\ (IsPlanned(a) /\ IsPlanned(b) => a.name # b.name)

ItemsApart(h) ==
  LET items == job[h].items IN
  /\ job[h].pc \in {"expire", "clear", "scan"} => items = <<>>
  /\ \A i \in DOMAIN items : items[i].path \notin job[h].todo
  /\ \A i, k \in DOMAIN items : i # k => Apart(items[i], items[k])
  /\ \A s \in staging : s.batch = job[h].batch =>
       \A i \in DOMAIN items : Apart(items[i], s.item)

StagedApart == \A s, t \in staging : s # t /\ s.batch = t.batch => Apart(s.item, t.item)

BatchesApart == StagedApart /\ \A h \in Prechecks : ItemsApart(h)

-----------------------------------------------------------------------------
(***************************************************************************)
(* Of a batch that is still fresh, no planned item has a name that a row   *)
(* of the table has at another path.                                       *)
(***************************************************************************)
Suits(it, T) == IsPlanned(it) => \A r \in T : r.name = it.name => r.path = it.path

ItemsSuit(h)  == \A i \in DOMAIN job[h].items : Suits(job[h].items[i], rows)
CommitSuits(h) == \A s \in job[h].read : Suits(s.item, job[h].base)

FreshSuits ==
  /\ \A h \in Prechecks : job[h].batch \in fresh => ItemsSuit(h)
  /\ \A s \in staging : s.batch \in fresh => Suits(s.item, rows)
  /\ \A h \in Handlers : job[h].pc = "item" /\ job[h].batch \in fresh => CommitSuits(h)

LeftOfRead == \A h \in Handlers : job[h].left \subseteq job[h].read

\* The snapshot of a COMMIT whose batch is fresh still is the table.
FreshSnapshots ==
  \A h \in Handlers : job[h].pc \in {"item", "end"} /\ job[h].batch \in fresh =>
    job[h].base = rows

-----------------------------------------------------------------------------
(***************************************************************************)
(* As long as no call failed and nothing else changed, the items say what  *)
(* the files declare, and those of a PRECHECK at work or of a whole batch  *)
(* leave no file out.                                                      *)
(***************************************************************************)
Right(it) == IsPlanned(it) => ini[it.path] = {it.name}

StagedPaths(b, o) == {s.item.path : s \in InBatch(b, o)}

ItemPaths(h) == {job[h].items[i].path : i \in DOMAIN job[h].items}

Writing(b, o) == \E h \in Handlers : job[h].pc = "insert" /\ job[h].batch = b /\ job[h].who = o

AllRight == /\ \A h \in Prechecks : \A i \in DOMAIN job[h].items : Right(job[h].items[i])
            /\ \A s \in staging : Right(s.item)
            /\ \A h \in Handlers : job[h].pc \in {"item", "end"} =>
                 \A s \in job[h].read : Right(s.item)

NoneLeftOut ==
  /\ \A h \in Handlers :
       /\ job[h].pc = "plan" => Present \subseteq job[h].todo \cup ItemPaths(h)
       /\ job[h].pc = "insert" =>
            Present \subseteq ItemPaths(h) \cup StagedPaths(job[h].batch, job[h].who)
       /\ job[h].pc \in {"item", "end"} => Present \subseteq {s.item.path : s \in job[h].read}
  /\ \A s \in staging :
       Writing(s.batch, s.by) \/ Present \subseteq StagedPaths(s.batch, s.by)

RowsStay == \A h \in Handlers : job[h].pc \in {"item", "end"} =>
              IdsOf(job[h].base) \subseteq IdsOf(rows)

Undisturbed == faults = 0 /\ changes = 0

Mirrored == Undisturbed => AllRight /\ NoneLeftOut /\ RowsStay

-----------------------------------------------------------------------------
(***************************************************************************)
(* What the calls do to the items.                                         *)
(***************************************************************************)
LEMMA GotoThere ==
  ASSUME TypeOK, NEW h \in Handlers, NEW k, Goto(h, k)
  PROVE  job'[h] = k
BY DEF TypeOK, Goto

\* A PRECHECK reads one of its files and adds an item for it: planned, under
\* the one name the file declares, only if no item before it has that name and
\* the row it found of that name, if any, is the file's own.
PlannedOf(h, p, it) ==
  /\ it.path = p
  /\ IsPlanned(it) => /\ ini[p] = {it.name} /\ it.name \in Names
                      /\ it.name \notin PlannedNames(job[h].items)
                      /\ FALSE \in NameTaken(rows, it.name, p)

LEMMA PlanMoves ==
  ASSUME TypeOK, NEW h \in Handlers, Plan(h)
  PROVE  /\ job[h].op = "precheck" /\ job[h].pc = "plan"
         /\ \E p \in job[h].todo, it \in Item :
              /\ PlannedOf(h, p, it) \/ (Fault /\ it = Unreadable(p))
              /\ job'[h].items = Append(job[h].items, it)
              /\ job'[h].todo = job[h].todo \ {p}
              /\ job'[h].pc = "insert" => job[h].todo = {p}
         /\ job'[h].pc \in {"plan", "insert"}
         /\ UNCHANGED <<ini, rows, fresh, staging, nextBatch, known, changes>>
<1>0. job[h].pc = "plan" /\ job[h].op = "precheck" /\ job[h].todo \subseteq Paths
  BY JobType DEF Plan, At, Locals
<1>1. PICK p \in job[h].todo, it \in Item :
        PlanItem(h, p, it) /\ (PlannedOf(h, p, it) \/ (Fault /\ it = Unreadable(p)))
  <2>1. PICK p \in job[h].todo :
          \/ \E n \in Parsed(p) : \E it \in ItemsFor(p, n, job[h].items) : PlanItem(h, p, it)
          \/ PlanItem(h, p, Unreadable(p))
             /\ (Parsed(p) = {} \/ Fault)
    BY DEF Plan
  <2>2. p \in Paths /\ Parsed(p) \subseteq Names
    BY <1>0 DEF Parsed
  <2>3. CASE PlanItem(h, p, Unreadable(p))
    <3>1. PlannedOf(h, p, Unreadable(p))
      BY DEF PlannedOf, Unreadable, IsPlanned
    <3> QED BY <2>2, <2>3, <3>1, ItemType
  <2>4. ASSUME NEW n \in Parsed(p), NEW it \in ItemsFor(p, n, job[h].items), PlanItem(h, p, it)
        PROVE  PlannedOf(h, p, it) /\ it \in Item
    <3>1. PICK taken \in NameTaken(rows, n, p) :
            it = [path |-> p, name |-> n,
                  result |-> IF n \in PlannedNames(job[h].items) \/ taken
                             THEN "SKIPPED" ELSE "PLANNED"]
      BY <2>4 DEF ItemsFor
    <3>2. it.path = p /\ it.name = n
      BY <3>1
    <3>3. IsPlanned(it) => n \notin PlannedNames(job[h].items) /\ ~taken
      BY <3>1 DEF IsPlanned
    <3>4. taken \in BOOLEAN
      BY DEF NameTaken
    <3>5. ini[p] = {n}
      BY DEF Parsed
    <3>6. ~taken => FALSE \in NameTaken(rows, n, p)
      BY <3>4, <3>1
    <3> QED BY <2>2, <2>4, <3>2, <3>3, <3>5, <3>6, ItemType DEF PlannedOf
  <2> QED BY <2>1, <2>3, <2>4
<1> DEFINE k == WithItem(job[h], p, it)
           l == [k EXCEPT !.pc = "insert"]
<1>2. /\ k \in Locals /\ k.items = Append(job[h].items, it) /\ k.todo = job[h].todo \ {p}
  BY <1>0, <1>1, PlannedJob DEF At
<1>3. k.pc = "plan"
  BY <1>0, JobType DEF WithItem, Locals
<1>4. (k.todo # {} /\ job'[h] = k) \/ (k.todo = {} /\ job'[h] = l)
  BY <1>1, GotoThere DEF PlanItem
<1> HIDE DEF k
<1>5. l.items = k.items /\ l.todo = k.todo /\ l.pc = "insert"
  BY <1>2 DEF Locals
<1> HIDE DEF l
<1>6. job'[h].items = k.items /\ job'[h].todo = k.todo /\ job'[h].pc \in {"plan", "insert"}
  BY <1>3, <1>4, <1>5
<1>7. job'[h].pc = "insert" => job[h].todo = {p}
  BY <1>2, <1>3, <1>4, <1>5
<1>8. UNCHANGED <<ini, rows, fresh, staging, nextBatch, known, changes>>
  BY DEF Plan, table
<1> QED BY <1>0, <1>1, <1>2, <1>6, <1>7, <1>8

\* A PRECHECK stages the first of its items, and ends with the last.
LEMMA InsertMoves ==
  ASSUME TypeOK, NEW h \in Handlers, Insert(h)
  PROVE  /\ job[h].op = "precheck" /\ job[h].pc = "insert"
         /\ job[h].items \in Seq(Item) /\ job[h].items # <<>>
         /\ \E s \in staging' : /\ staging' = staging \cup {s}
                                /\ s.batch = job[h].batch /\ s.by = job[h].who
                                /\ s.item = Head(job[h].items)
         /\ \/ job'[h] = Idle /\ Tail(job[h].items) = <<>>
            \/ /\ job'[h].items = Tail(job[h].items)
               /\ job'[h].pc = "insert"
               /\ job'[h].todo = job[h].todo
         /\ UNCHANGED <<ini, rows, fresh, nextBatch, changes>>
<1>1. job[h] \in Job /\ job[h] \in Locals /\ job[h].op = "precheck" /\ job[h].pc = "insert"
  BY JobType DEF Insert, At
<1>2. job[h].items \in Seq(Item) /\ job[h].items # <<>>
  BY <1>1 DEF Locals, Job
<1>3. PICK i \in StagedIds :
        staging' = staging \cup {[id |-> i, batch |-> job[h].batch, by |-> job[h].who,
                                  item |-> Head(job[h].items)]}
  BY DEF Insert
<1>4. \E s \in staging' : /\ staging' = staging \cup {s}
                          /\ s.batch = job[h].batch /\ s.by = job[h].who
                          /\ s.item = Head(job[h].items)
  <2> DEFINE s == [id |-> i, batch |-> job[h].batch, by |-> job[h].who,
                   item |-> Head(job[h].items)]
  <2>1. s \in staging' /\ staging' = staging \cup {s}
    BY <1>3
  <2>2. s.batch = job[h].batch /\ s.by = job[h].who /\ s.item = Head(job[h].items)
    OBVIOUS
  <2> HIDE DEF s
  <2> QED BY <2>1, <2>2
<1>5. \/ job'[h] = Idle /\ Tail(job[h].items) = <<>>
      \/ /\ job'[h].items = Tail(job[h].items)
         /\ job'[h].pc = "insert"
         /\ job'[h].todo = job[h].todo
  <2>1. CASE Tail(job[h].items) = <<>>
    BY <2>1, GotoThere DEF Insert, End
  <2>2. CASE Tail(job[h].items) # <<>>
    <3>1. job'[h] = [job[h] EXCEPT !.items = Tail(@)]
      BY <2>2, GotoThere DEF Insert
    <3> QED BY <1>1, <3>1 DEF Locals
  <2> QED BY <2>1, <2>2
<1>6. UNCHANGED <<ini, rows, fresh, nextBatch, changes>>
  BY DEF Insert, table
<1> QED BY <1>1, <1>2, <1>4, <1>5, <1>6

\* No other call touches the items, and none but Scan the files to read.
LEMMA OtherMoves ==
  ASSUME TypeOK, NEW h \in Handlers, Continue(h), ~Plan(h), ~Insert(h)
  PROVE  /\ staging' \subseteq staging
         /\ \/ job'[h] = Idle
            \/ /\ job'[h].items = job[h].items
               /\ job'[h].pc # "insert"
               /\ \/ job'[h].todo = job[h].todo /\ job'[h].pc # "plan"
                  \/ /\ job[h].pc = "scan" /\ job'[h].pc = "plan"
                     /\ job'[h].todo = Present /\ Present # {}
<1>0. job[h] \in Locals
  BY JobType
<1>1. CASE End(h)
  <2>1. job'[h] = Idle
    BY <1>1, GotoThere DEF End
  <2> QED BY <2>1, StagingMoves DEF Continue, DeleteExpired, Clear, Scan, ShowLatest, CommitRead,
          CommitItem, CommitEnd, CallFails
<1>2. CASE DeleteExpired(h)
  <2>1. job'[h] = [job[h] EXCEPT !.pc = IF job[h].op = "load" THEN "latest" ELSE "clear"]
    BY <1>2, GotoThere DEF DeleteExpired
  <2>2. staging' \subseteq staging
    BY <1>2 DEF DeleteExpired
  <2> QED BY <1>0, <2>1, <2>2 DEF Locals
<1>3. CASE Clear(h)
  <2>1. job'[h] = [job[h] EXCEPT !.pc = "scan"]
    BY <1>3, GotoThere DEF Clear
  <2>2. staging' \subseteq staging
    BY <1>3 DEF Clear
  <2> QED BY <1>0, <2>1, <2>2 DEF Locals
<1>4. CASE Scan(h) /\ ~End(h)
  <2>1. job'[h] = [job[h] EXCEPT !.pc = "plan", !.todo = Present] /\ Present # {}
    BY <1>4, GotoThere DEF Scan
  <2>2. staging' \subseteq staging /\ job[h].pc = "scan"
    BY <1>4 DEF Scan, At
  <2> QED BY <1>0, <2>1, <2>2 DEF Locals
<1>5. CASE CommitRead(h) /\ ~End(h)
  <2> DEFINE S == InBatch(job[h].batch, job[h].who)
  <2>1. job'[h] = [job[h] EXCEPT !.pc = "item", !.read = S, !.left = S, !.base = rows]
    BY <1>5, GotoThere DEF CommitRead
  <2>2. staging' \subseteq staging
    BY <1>5 DEF CommitRead
  <2> HIDE DEF S
  <2> QED BY <1>0, <2>1, <2>2 DEF Locals
<1>6. CASE CommitItem(h)
  <2>1. PICK s \in NextLeft(job[h]) : Goto(h, Idle) \/ Goto(h, Checked(job[h], s))
    BY <1>6 DEF CommitItem
  <2>2. job'[h] = Idle \/ job'[h] = Checked(job[h], s)
    BY <2>1, GotoThere
  <2>3. /\ Checked(job[h], s).items = job[h].items /\ Checked(job[h], s).todo = job[h].todo
        /\ Checked(job[h], s).pc \in {"item", "end"}
    BY <1>0 DEF Checked, Locals
  <2>4. staging' \subseteq staging
    BY <1>6 DEF CommitItem
  <2> QED BY <2>2, <2>3, <2>4
<1> QED BY <1>1, <1>2, <1>3, <1>4, <1>5, <1>6 DEF Continue, ShowLatest, CommitEnd, CallFails

-----------------------------------------------------------------------------
(***************************************************************************)
(* A batch belongs to one PRECHECK.                                        *)
(***************************************************************************)
LEMMA KnownMoves ==
  ASSUME TypeOK, NEW h \in Handlers, Continue(h), NEW o \in Operators, NEW b \in known'[o]
  PROVE  \/ b \in known[o]
         \/ \E s \in staging : s.batch = b
         \/ job[h].pc = "insert" /\ b = job[h].batch
<1>1. CASE Insert(h)
  <2>1. known' = known \/ known' = [known EXCEPT ![job[h].who] = @ \cup {job[h].batch}]
    BY <1>1 DEF Insert
  <2> QED BY <1>1, <2>1 DEF TypeOK, Insert, At
<1>2. CASE ShowLatest(h)
  <2>1. \/ known' = known
        \/ \E s \in staging : known' = [known EXCEPT ![job[h].who] = @ \cup {s.batch}]
    BY <1>2 DEF ShowLatest, StagedBy
  <2> QED BY <2>1 DEF TypeOK
<1>3. CASE ~Insert(h) /\ ~ShowLatest(h)
  BY <1>3 DEF Continue, DeleteExpired, Clear, Scan, Plan, CommitRead, CommitItem, CommitEnd,
              CallFails, clients
<1> QED BY <1>1, <1>2, <1>3

\* No call but an insert of its own PRECHECK makes a batch seen.
LEMMA StaysUnseen ==
  ASSUME TypeOK, NEW h \in Handlers, Continue(h), NEW b, Unseen(b),
         job[h].pc = "insert" => job[h].batch # b
  PROVE  Unseen(b)'
<1>1. \A s \in staging' : s.batch # b
  BY StagingMoves DEF Unseen
<1>2. \A o \in Operators : b \notin known'[o]
  BY KnownMoves DEF Unseen
<1>3. \A g \in Handlers : job'[g].op = "commit" =>
        job[g].op = "commit" /\ job'[g].batch = job[g].batch
  BY ContinueGoesOn DEF Onward, Idle, Started
<1> QED BY <1>1, <1>2, <1>3 DEF Unseen

LEMMA ContinueBatches ==
  ASSUME TypeOK, OwnBatches, NEW h \in Handlers, Continue(h)
  PROVE  OwnBatches'
<1>1. \A g \in Prechecks' : /\ g \in Prechecks /\ job'[g].batch = job[g].batch
                            /\ g \in Early' => g \in Early
  BY ContinueGoesOn DEF Onward, Idle, Started, Prechecks, Early
<1>2. nextBatch' = nextBatch
  BY DEF Continue, DeleteExpired, Clear, Scan, Plan, Insert, ShowLatest, CommitRead, CommitItem,
         CommitEnd, CallFails, clients
<1>3. job[h].pc = "insert" => h \in Prechecks \ Early
  BY JobType DEF Prechecks, Early
<1>4. ASSUME NEW b \in Batches, b >= nextBatch'
      PROVE  Unseen(b)' /\ \A g \in Prechecks' : job'[g].batch # b
  <2>1. Unseen(b) /\ \A g \in Prechecks : job[g].batch # b
    BY <1>2, <1>4 DEF OwnBatches
  <2> QED BY <1>1, <1>3, <2>1, StaysUnseen
<1>5. ASSUME NEW g \in Early'
      PROVE  Unseen(job[g].batch)'
  <2>1. g \in Early /\ g \in Prechecks /\ job'[g].batch = job[g].batch
    BY <1>1, <1>5 DEF Early
  <2>2. job[h].pc = "insert" => job[h].batch # job[g].batch
    BY <1>3, <2>1 DEF OwnBatches
  <2>3. PICK b : b = job[g].batch
    OBVIOUS
  <2>4. Unseen(b)'
    BY <2>1, <2>2, <2>3, StaysUnseen DEF OwnBatches
  <2> QED BY <2>1, <2>3, <2>4
<1>6. \A f, g \in Prechecks' : f # g => job'[f].batch # job'[g].batch
  BY <1>1 DEF OwnBatches
<1> QED BY <1>4, <1>5, <1>6 DEF OwnBatches

LEMMA BeginBatches ==
  ASSUME TypeOK, OwnBatches, NEW h \in Handlers, Begin(h)
  PROVE  OwnBatches'
<1>1. job[h].op = "idle" /\ staging' = staging /\ known' = known
  BY DEF Begin, Busy, BeginPrecheck, BeginCommit, BeginLoad, Accept
<1>2. \A g \in Handlers \ {h} : job'[g] = job[g]
  BY DEF Begin, BeginPrecheck, BeginCommit, BeginLoad, Accept, Goto, TypeOK
<1>3. CASE BeginPrecheck(h)
  <2>1. PICK o \in Operators : job'[h] = Started("precheck", "expire", o, nextBatch)
    BY <1>3, GotoThere DEF BeginPrecheck, Accept
  <2>2. job'[h].op = "precheck" /\ job'[h].batch = nextBatch
    BY <2>1 DEF Started
  <2>3. nextBatch \in Batches /\ nextBatch' = nextBatch + 1
    BY <1>3 DEF BeginPrecheck
  <2>4. \A b : Unseen(b) => Unseen(b)'
    BY <1>1, <1>2, <2>2 DEF Unseen
  <2>5. Prechecks' = Prechecks \cup {h} /\ Early' \subseteq Early \cup {h} /\ h \notin Prechecks
    BY <1>1, <1>2, <2>2 DEF Prechecks, Early
  <2>6. Unseen(nextBatch) /\ \A g \in Prechecks : job[g].batch # nextBatch
    BY <2>3 DEF OwnBatches, Batches
  <2>7. \A g \in Prechecks' : g = h \/ (g # h /\ g \in Prechecks /\ job'[g].batch = job[g].batch)
    BY <1>2, <2>5 DEF Prechecks
  <2>8. ASSUME NEW b \in Batches, b >= nextBatch'
        PROVE  Unseen(b)' /\ \A g \in Prechecks' : job'[g].batch # b
    <3>1. b >= nextBatch /\ b # nextBatch
      BY <2>3, <2>8 DEF Batches
    <3>2. Unseen(b) /\ \A g \in Prechecks : job[g].batch # b
      BY <3>1 DEF OwnBatches
    <3> QED BY <2>2, <2>4, <2>7, <3>1, <3>2
  <2>9. \A f, g \in Prechecks' : f # g => job'[f].batch # job'[g].batch
    BY <2>2, <2>6, <2>7 DEF OwnBatches
  <2>10. ASSUME NEW g \in Early' PROVE Unseen(job[g].batch)'
    <3>1. PICK b : b = job'[g].batch
      OBVIOUS
    <3>2. Unseen(b)
      <4>1. CASE g = h
        BY <2>2, <2>6, <3>1, <4>1
      <4>2. CASE g # h
        BY <1>2, <2>5, <3>1, <4>2 DEF OwnBatches, Early, Prechecks
      <4> QED BY <4>1, <4>2
    <3> QED BY <2>4, <3>1, <3>2
  <2> QED BY <2>8, <2>9, <2>10 DEF OwnBatches
<1>4. CASE BeginCommit(h) \/ BeginLoad(h)
  <2>1. /\ job'[h].op # "precheck"
        /\ job'[h].op = "commit" => \E o \in Operators : job'[h].batch \in known[o]
        /\ nextBatch' = nextBatch
    <3>1. CASE BeginCommit(h)
      <4>1. PICK o \in Operators : \E b \in known[o] :
              Accept(h, Started("commit", "read", o, b)) /\ nextBatch' = nextBatch
        BY <3>1 DEF BeginCommit
      <4>2. PICK b \in known[o] : job'[h] = Started("commit", "read", o, b)
        BY <4>1, GotoThere DEF Accept
      <4> QED BY <4>1, <4>2 DEF Started
    <3>2. CASE BeginLoad(h)
      <4>1. PICK o \in Operators : job'[h] = Started("load", "expire", o, 0)
        BY <3>2, GotoThere DEF BeginLoad, Accept
      <4> QED BY <3>2, <4>1 DEF BeginLoad, Started
    <3> QED BY <1>4, <3>1, <3>2
  <2>2. \A b : Unseen(b) => Unseen(b)'
    BY <1>1, <1>2, <2>1 DEF Unseen
  <2>3. Prechecks' = Prechecks /\ Early' = Early
    BY <1>1, <1>2, <2>1 DEF Prechecks, Early
  <2>4. \A g \in Prechecks : job'[g] = job[g]
    BY <1>1, <1>2 DEF Prechecks
  <2>5. \A g \in Early' : Unseen(job[g].batch)'
    <3> SUFFICES ASSUME NEW g \in Early' PROVE Unseen(job[g].batch)'
      OBVIOUS
    <3>1. PICK b : b = job'[g].batch
      OBVIOUS
    <3>2. Unseen(b)
      BY <2>3, <2>4, <3>1 DEF OwnBatches, Early
    <3> QED BY <2>2, <3>1, <3>2
  <2> QED BY <2>1, <2>2, <2>3, <2>4, <2>5 DEF OwnBatches
<1> QED BY <1>3, <1>4 DEF Begin

LEMMA AlwaysOwnBatches == Spec => []OwnBatches
<1>1. Init => OwnBatches
  <2> SUFFICES ASSUME Init PROVE OwnBatches
    OBVIOUS
  <2>1. /\ staging = {} /\ \A o \in Operators : known[o] = {}
        /\ \A h \in Handlers : job[h].op = "idle"
    BY DEF Init, Idle, Started
  <2> QED BY <2>1 DEF OwnBatches, Unseen, Prechecks, Early
<1>2. TypeOK /\ OwnBatches /\ [Next]_vars => OwnBatches'
  <2> SUFFICES ASSUME TypeOK, OwnBatches, [Next]_vars PROVE OwnBatches'
    OBVIOUS
  <2>1. CASE UNCHANGED vars
    BY <2>1 DEF vars, clients, OwnBatches, Unseen, Prechecks, Early
  <2>2. ASSUME NEW h \in Handlers, Begin(h) \/ Continue(h)
        PROVE  OwnBatches'
    BY <2>2, BeginBatches, ContinueBatches
  <2>3. CASE Crash
    <3>1. /\ staging' = staging /\ known' = known /\ nextBatch' = nextBatch
          /\ \A h \in Handlers : job'[h].op = "idle"
      BY <2>3 DEF Crash, clients, Idle, Started
    <3> QED BY <3>1 DEF OwnBatches, Unseen, Prechecks, Early
  <2>4. CASE Elsewhere
    BY <2>4 DEF Elsewhere, clients, OwnBatches, Unseen, Prechecks, Early
  <2> QED BY <2>1, <2>2, <2>3, <2>4 DEF Next
<1> QED BY <1>1, <1>2, AlwaysType, PTL DEF Spec

-----------------------------------------------------------------------------
(***************************************************************************)
(* The items of a batch are for different paths and names.                 *)
(***************************************************************************)
LEMMA AppendElements ==
  ASSUME NEW S, NEW q \in Seq(S), NEW x \in S, NEW i \in DOMAIN Append(q, x)
  PROVE  \/ i \in DOMAIN q /\ Append(q, x)[i] = q[i]
         \/ i \notin DOMAIN q /\ i = Len(q) + 1 /\ Append(q, x)[i] = x
OBVIOUS

LEMMA TailElements ==
  ASSUME NEW S, NEW q \in Seq(S), q # <<>>
  PROVE  /\ 1 \in DOMAIN q /\ Head(q) = q[1]
         /\ \A i \in DOMAIN Tail(q) : /\ i + 1 \in DOMAIN q /\ i + 1 # 1
                                      /\ Tail(q)[i] = q[i + 1]
         /\ \A i, k \in DOMAIN Tail(q) : i # k => i + 1 # k + 1
OBVIOUS

LEMMA ItemsType ==
  ASSUME TypeOK, NEW h \in Handlers
  PROVE  job[h].items \in Seq(Item)
BY JobType DEF Locals

LEMMA PlanApart ==
  ASSUME TypeOK, OwnBatches, BatchesApart, NEW h \in Handlers, Plan(h)
  PROVE  ItemsApart(h)'
<1>0. h \in Early /\ ItemsApart(h) /\ staging' = staging /\ Onward(h)
  BY PlanMoves, ContinueGoesOn DEF Early, Prechecks, BatchesApart, Continue, Busy
<1>1. PICK p \in job[h].todo, it \in Item :
        /\ PlannedOf(h, p, it) \/ it = Unreadable(p)
        /\ job'[h].items = Append(job[h].items, it)
        /\ job'[h].todo = job[h].todo \ {p}
  BY PlanMoves
<1>2. job'[h].pc \in {"plan", "insert"} /\ job'[h].batch = job[h].batch
  BY <1>0, PlanMoves DEF Onward, Idle, Started
<1>3. PICK q \in Seq(Item) : q = job[h].items
  BY ItemsType
<1>4. PICK q2 : q2 = job'[h].items
  OBVIOUS
<1>5. \A i \in DOMAIN q2 : \/ i \in DOMAIN q /\ q2[i] = q[i]
                           \/ i \notin DOMAIN q /\ i = Len(q) + 1 /\ q2[i] = it
  BY <1>1, <1>3, <1>4, AppendElements
<1>6. /\ \A i \in DOMAIN q : q[i].path \notin job[h].todo
      /\ \A i, k \in DOMAIN q : i # k => Apart(q[i], q[k])
  BY <1>0, <1>3 DEF ItemsApart
<1>7. it.path = p /\ (IsPlanned(it) => it.name \notin PlannedNames(q))
  <2>1. CASE PlannedOf(h, p, it)
    BY <1>3, <2>1 DEF PlannedOf
  <2>2. CASE it = Unreadable(p)
    BY <2>2 DEF Unreadable, IsPlanned
  <2> QED BY <1>1, <2>1, <2>2
<1>8. \A i \in DOMAIN q : Apart(q[i], it) /\ Apart(it, q[i])
  <2> SUFFICES ASSUME NEW i \in DOMAIN q PROVE Apart(q[i], it) /\ Apart(it, q[i])
    OBVIOUS
  <2>1. q[i].path # it.path
    BY <1>1, <1>6, <1>7
  <2>2. IsPlanned(q[i]) => q[i].name \in PlannedNames(q)
    BY DEF IsPlanned, PlannedNames
  <2> QED BY <1>7, <2>1, <2>2 DEF Apart
<1>9. \A i \in DOMAIN q2 : q2[i].path \notin job'[h].todo
  BY <1>1, <1>5, <1>6, <1>7
<1>10. \A i, k \in DOMAIN q2 : i # k => Apart(q2[i], q2[k])
  BY <1>5, <1>6, <1>8
<1>11. \A s \in staging' : s.batch # job'[h].batch
  BY <1>0, <1>2 DEF OwnBatches, Unseen
<1> QED BY <1>2, <1>4, <1>9, <1>10, <1>11 DEF ItemsApart, Apart, IsPlanned

LEMMA InsertApart ==
  ASSUME TypeOK, OwnBatches, BatchesApart, NEW h \in Handlers, Insert(h)
  PROVE  StagedApart' /\ (job'[h] # Idle => ItemsApart(h)')
<1>0. h \in Prechecks /\ ItemsApart(h) /\ Onward(h)
  BY InsertMoves, ContinueGoesOn DEF Prechecks, BatchesApart, Continue, Busy
<1>1. PICK q \in Seq(Item) : q = job[h].items /\ q # <<>>
  BY InsertMoves
<1>2. PICK s \in staging' : /\ staging' = staging \cup {s}
                            /\ s.batch = job[h].batch /\ s.item = Head(q)
  BY <1>1, InsertMoves
<1>3. /\ \A i \in DOMAIN q : q[i].path \notin job[h].todo
      /\ \A i, k \in DOMAIN q : i # k => Apart(q[i], q[k])
      /\ \A t \in staging : t.batch = job[h].batch => \A i \in DOMAIN q : Apart(q[i], t.item)
  BY <1>0, <1>1 DEF ItemsApart
<1>4. 1 \in DOMAIN q /\ s.item = q[1]
  BY <1>1, <1>2, TailElements
<1>5. \A t \in staging : t.batch = job[h].batch => Apart(s.item, t.item) /\ Apart(t.item, s.item)
  BY <1>3, <1>4 DEF Apart
<1>6. \A t, u \in staging' : t # u /\ t.batch = u.batch => Apart(t.item, u.item)
  BY <1>2, <1>5 DEF BatchesApart, StagedApart
<1>7. StagedApart'
  BY <1>6 DEF StagedApart, Apart, IsPlanned
<1>8. ASSUME job'[h] # Idle PROVE ItemsApart(h)'
  <2>1. /\ job'[h].items = Tail(q) /\ job'[h].pc = "insert"
        /\ job'[h].todo = job[h].todo /\ job'[h].batch = job[h].batch
    BY <1>0, <1>1, <1>8, InsertMoves DEF Onward
  <2>2. /\ \A i \in DOMAIN Tail(q) : /\ i + 1 \in DOMAIN q /\ i + 1 # 1
                                     /\ Tail(q)[i] = q[i + 1]
        /\ \A i, k \in DOMAIN Tail(q) : i # k => i + 1 # k + 1
    BY <1>1, TailElements
  <2>3. PICK q2 : q2 = Tail(q)
    OBVIOUS
  <2>4. \A i \in DOMAIN q2 : q2[i].path \notin job'[h].todo
    BY <1>3, <2>1, <2>2, <2>3
  <2>5. \A i, k \in DOMAIN q2 : i # k => Apart(q2[i], q2[k])
    BY <1>3, <2>2, <2>3
  <2>6. \A t \in staging' : t.batch = job'[h].batch => \A i \in DOMAIN q2 : Apart(q2[i], t.item)
    BY <1>2, <1>3, <1>4, <2>1, <2>2, <2>3
  <2> QED BY <2>1, <2>3, <2>4, <2>5, <2>6 DEF ItemsApart, Apart, IsPlanned
<1> QED BY <1>7, <1>8

LEMMA OtherApart ==
  ASSUME TypeOK, BatchesApart, NEW h \in Handlers, Continue(h), ~Plan(h), ~Insert(h),
         h \in Prechecks, job'[h] # Idle
  PROVE  ItemsApart(h)'
<1>1. /\ staging' \subseteq staging /\ job'[h].items = job[h].items /\ job'[h].pc # "insert"
      /\ \/ job'[h].todo = job[h].todo /\ job'[h].pc # "plan"
         \/ job[h].pc = "scan" /\ job'[h].pc = "plan"
  BY OtherMoves
<1>2. /\ job'[h].batch = job[h].batch
      /\ job'[h].pc \in {"clear", "scan"} => job[h].pc \in {"expire", "clear"}
      /\ job'[h].pc # "expire"
  BY ContinueGoesOn DEF Onward
<1>3. ItemsApart(h)
  BY DEF BatchesApart
<1>4. CASE job[h].pc = "scan"
  <2>1. job'[h].items = <<>> /\ staging' \subseteq staging
    BY <1>1, <1>3, <1>4 DEF ItemsApart
  <2> QED BY <2>1 DEF ItemsApart
<1>5. CASE job[h].pc # "scan"
  <2>1. PICK q : q = job[h].items /\ q = job'[h].items
    BY <1>1
  <2>2. /\ \A i \in DOMAIN q : q[i].path \notin job[h].todo
        /\ \A i, k \in DOMAIN q : i # k => Apart(q[i], q[k])
        /\ \A t \in staging : t.batch = job[h].batch => \A i \in DOMAIN q : Apart(q[i], t.item)
        /\ job[h].pc \in {"expire", "clear"} => q = <<>>
    BY <1>3, <2>1 DEF ItemsApart
  <2>3. job'[h].todo = job[h].todo
    BY <1>1, <1>5
  <2> QED BY <1>1, <1>2, <2>1, <2>2, <2>3 DEF ItemsApart, Apart, IsPlanned
<1> QED BY <1>4, <1>5

\* What one PRECHECK inserts is not of the batch of another.
LEMMA OthersApart ==
  ASSUME TypeOK, OwnBatches, BatchesApart, NEW h \in Handlers, Continue(h),
         NEW g \in Prechecks, g # h
  PROVE  ItemsApart(g)'
<1>1. job'[g] = job[g]
  BY ContinueGoesOn DEF Onward, Prechecks
<1>2. \A s \in staging' : s.batch = job[g].batch => s \in staging
  <2>1. job[h].pc = "insert" => h \in Prechecks
    BY JobType DEF Prechecks
  <2>2. job[h].pc = "insert" => job[h].batch # job[g].batch
    BY <2>1 DEF OwnBatches
  <2> QED BY <2>2, StagingMoves
<1>3. ItemsApart(g)
  BY DEF BatchesApart
<1> QED BY <1>1, <1>2, <1>3 DEF ItemsApart, Apart, IsPlanned

LEMMA ContinueApart ==
  ASSUME TypeOK, OwnBatches, BatchesApart, NEW h \in Handlers, Continue(h)
  PROVE  BatchesApart'
<1>1. StagedApart'
  <2>1. CASE Insert(h)
    BY <2>1, InsertApart
  <2>2. CASE ~Insert(h)
    <3>1. staging' \subseteq staging
      BY <2>2, PlanMoves, OtherMoves
    <3> QED BY <3>1 DEF BatchesApart, StagedApart, Apart, IsPlanned
  <2> QED BY <2>1, <2>2
<1>2. ASSUME NEW g \in Prechecks' PROVE ItemsApart(g)'
  <2>1. g \in Prechecks /\ g \in Handlers
    BY <1>2, ContinueGoesOn DEF Onward, Idle, Started, Prechecks
  <2>2. CASE g # h
    BY <2>1, <2>2, OthersApart
  <2>3. CASE g = h
    <3>1. job'[h] # Idle
      BY <1>2, <2>3 DEF Prechecks, Idle, Started
    <3> QED BY <2>1, <2>3, <3>1, PlanApart, InsertApart, OtherApart
  <2> QED BY <2>2, <2>3
<1> QED BY <1>1, <1>2 DEF BatchesApart

LEMMA BeginStarts ==
  ASSUME TypeOK, NEW h \in Handlers, Begin(h)
  PROVE  /\ job'[h].items = <<>> /\ job'[h].left = {}
         /\ job'[h].pc \in {"expire", "read"}
         /\ job'[h].op = "precheck" => job'[h].batch = nextBatch /\ nextBatch \in Batches
         /\ job[h].op = "idle"
         /\ \A g \in Handlers \ {h} : job'[g] = job[g]
         /\ UNCHANGED <<ini, rows, fresh, staging, faults, changes>>
<1>1. /\ job[h].op = "idle"
      /\ \A g \in Handlers \ {h} : job'[g] = job[g]
      /\ UNCHANGED <<ini, rows, fresh, staging, faults, changes>>
  BY DEF Begin, Busy, BeginPrecheck, BeginCommit, BeginLoad, Accept, Goto, TypeOK, table
<1>2. CASE BeginPrecheck(h)
  <2>1. PICK o \in Operators : job'[h] = Started("precheck", "expire", o, nextBatch)
    BY <1>2, GotoThere DEF BeginPrecheck, Accept
  <2> QED BY <1>1, <1>2, <2>1 DEF BeginPrecheck, Started
<1>3. CASE BeginCommit(h)
  <2>1. PICK o \in Operators : \E b \in known[o] : Accept(h, Started("commit", "read", o, b))
    BY <1>3 DEF BeginCommit
  <2>2. PICK b \in known[o] : job'[h] = Started("commit", "read", o, b)
    BY <2>1, GotoThere DEF Accept
  <2> QED BY <1>1, <2>2 DEF Started
<1>4. CASE BeginLoad(h)
  <2>1. PICK o \in Operators : job'[h] = Started("load", "expire", o, 0)
    BY <1>4, GotoThere DEF BeginLoad, Accept
  <2> QED BY <1>1, <2>1 DEF Started
<1> QED BY <1>2, <1>3, <1>4 DEF Begin

LEMMA BeginApart ==
  ASSUME TypeOK, OwnBatches, BatchesApart, NEW h \in Handlers, Begin(h)
  PROVE  BatchesApart'
<1>1. /\ staging' = staging
      /\ \A g \in Handlers \ {h} : job'[g] = job[g]
      /\ job'[h].items = <<>>
  BY BeginStarts
<1>2. StagedApart'
  BY <1>1 DEF BatchesApart, StagedApart, Apart, IsPlanned
<1>3. ASSUME NEW g \in Prechecks' PROVE ItemsApart(g)'
  <2>1. CASE g = h
    BY <1>1, <2>1 DEF ItemsApart
  <2>2. CASE g # h
    <3>1. g \in Prechecks /\ job'[g] = job[g]
      BY <1>1, <1>3, <2>2 DEF Prechecks
    <3>2. ItemsApart(g)
      BY <3>1 DEF BatchesApart
    <3> QED BY <1>1, <3>1, <3>2 DEF ItemsApart, Apart, IsPlanned
  <2> QED BY <2>1, <2>2
<1> QED BY <1>2, <1>3 DEF BatchesApart

LEMMA AlwaysApart == Spec => []BatchesApart
<1>1. Init => BatchesApart
  <2> SUFFICES ASSUME Init PROVE BatchesApart
    OBVIOUS
  <2>1. staging = {} /\ \A h \in Handlers : job[h].op = "idle"
    BY DEF Init, Idle, Started
  <2> QED BY <2>1 DEF BatchesApart, StagedApart, Prechecks
<1>2. TypeOK /\ OwnBatches /\ BatchesApart /\ [Next]_vars => BatchesApart'
  <2> SUFFICES ASSUME TypeOK, OwnBatches, BatchesApart, [Next]_vars PROVE BatchesApart'
    OBVIOUS
  <2>1. CASE UNCHANGED vars \/ Elsewhere
    <3>1. staging' = staging /\ job' = job
      BY <2>1 DEF vars, Elsewhere
    <3> QED BY <3>1 DEF BatchesApart, StagedApart, Prechecks, ItemsApart, Apart, IsPlanned
  <2>2. ASSUME NEW h \in Handlers, Begin(h) \/ Continue(h)
        PROVE  BatchesApart'
    BY <2>2, BeginApart, ContinueApart
  <2>3. CASE Crash
    <3>1. staging' = staging /\ \A h \in Handlers : job'[h].op = "idle"
      BY <2>3 DEF Crash, Idle, Started
    <3> QED BY <3>1 DEF BatchesApart, StagedApart, Prechecks, Apart, IsPlanned
  <2> QED BY <2>1, <2>2, <2>3 DEF Next
<1> QED BY <1>1, <1>2, AlwaysType, AlwaysOwnBatches, PTL DEF Spec

-----------------------------------------------------------------------------
(***************************************************************************)
(* A fresh batch without a SKIPPED file commits.                           *)
(***************************************************************************)

\* What the comparison with one of the rows of a name says about them all.
LEMMA Taken ==
  ASSUME NEW T, NEW n, NEW p, NEW taken \in NameTaken(T, n, p)
  PROVE  ~taken => (\A r \in T : r.name # n) \/ \E r \in T : r.name = n /\ r.path = p
<1>1. CASE {r \in T : r.name = n} = {}
  BY <1>1 DEF NameTaken
<1>2. CASE {r \in T : r.name = n} # {}
  <2>1. PICK r \in {r \in T : r.name = n} : taken = (r.path # p)
    BY <1>2 DEF NameTaken
  <2> QED BY <2>1
<1> QED BY <1>1, <1>2

LEMMA NotTaken ==
  ASSUME NEW T, NEW n, NEW p, \A r \in T : r.name = n => r.path = p
  PROVE  NameTaken(T, n, p) = {FALSE}
<1>1. CASE {r \in T : r.name = n} = {}
  BY <1>1 DEF NameTaken
<1>2. CASE {r \in T : r.name = n} # {}
  BY <1>2 DEF NameTaken
<1> QED BY <1>1, <1>2

\* A planned item suits a table whose rows have different names.
LEMMA PlannedSuits ==
  ASSUME NamesDistinct, NEW h, NEW p, NEW it, PlannedOf(h, p, it)
  PROVE  Suits(it, rows)
<1> SUFFICES ASSUME IsPlanned(it), NEW r \in rows, r.name = it.name
             PROVE  r.path = it.path
  BY DEF Suits
<1>1. it.path = p /\ FALSE \in NameTaken(rows, it.name, p)
  BY DEF PlannedOf
<1>2. (\A q \in rows : q.name # it.name) \/ \E q \in rows : q.name = it.name /\ q.path = p
  <2>1. PICK taken \in NameTaken(rows, it.name, p) : taken = FALSE
    BY <1>1
  <2>2. ~taken => (\A q \in rows : q.name # it.name)
                   \/ \E q \in rows : q.name = it.name /\ q.path = p
    BY Taken
  <2> QED BY <2>1, <2>2
<1> QED BY <1>1, <1>2 DEF NamesDistinct

LEMMA UnreadableSuits == \A p, T : Suits(Unreadable(p), T)
BY DEF Suits, IsPlanned, Unreadable

\* No batch is fresh after the table changed.
LEMMA FreshMoves ==
  ASSUME NEW h \in Handlers, Continue(h)
  PROVE  \/ fresh' = {}
         \/ rows' = rows /\ fresh' = fresh
         \/ /\ Scan(h) /\ job[h].pc = "scan"
            /\ rows' = rows /\ fresh' = fresh \cup {job[h].batch}
BY DEF Continue, DeleteExpired, Clear, Scan, Plan, Insert, ShowLatest, CommitRead, CommitItem,
       CommitEnd, CallFails, table, At

\* The items of a PRECHECK suit the table, and so do those it has staged.
LEMMA ItemsStaySuited ==
  ASSUME TypeOK, NamesDistinct, NEW h \in Handlers, Continue(h), h \in Prechecks,
         rows' = rows, ItemsSuit(h), job'[h] # Idle
  PROVE  ItemsSuit(h)'
<1>0. PICK q \in Seq(Item) : q = job[h].items
  BY ItemsType
<1>1. \A i \in DOMAIN q : Suits(q[i], rows)
  BY <1>0 DEF ItemsSuit
<1>2. PICK q2 : q2 = job'[h].items
  OBVIOUS
<1>3. \A i \in DOMAIN q2 : Suits(q2[i], rows)
  <2>1. CASE Plan(h)
    <3>1. PICK p \in job[h].todo, it \in Item :
            /\ PlannedOf(h, p, it) \/ it = Unreadable(p)
            /\ q2 = Append(q, it)
      BY <1>0, <1>2, <2>1, PlanMoves
    <3>2. Suits(it, rows)
      BY <3>1, PlannedSuits, UnreadableSuits
    <3> QED BY <1>1, <3>1, <3>2, AppendElements
  <2>2. CASE Insert(h)
    <3>1. q2 = Tail(q) /\ q # <<>>
      BY <1>0, <1>2, <2>2, InsertMoves
    <3> QED BY <1>1, <3>1, TailElements
  <2>3. CASE ~Plan(h) /\ ~Insert(h)
    BY <1>0, <1>1, <1>2, <2>3, OtherMoves
  <2> QED BY <2>1, <2>2, <2>3
<1> QED BY <1>2, <1>3 DEF ItemsSuit, Suits, IsPlanned

LEMMA StagedStaySuited ==
  ASSUME TypeOK, FreshSuits, NEW h \in Handlers, Continue(h), rows' = rows,
         NEW s \in staging', s.batch \in fresh
  PROVE  Suits(s.item, rows)
<1>1. CASE s \in staging
  BY <1>1 DEF FreshSuits
<1>2. CASE s \notin staging
  <2>1. Insert(h)
    BY <1>2, PlanMoves, OtherMoves
  <2>2. /\ h \in Prechecks /\ s.batch = job[h].batch /\ s.item = Head(job[h].items)
        /\ job[h].items \in Seq(Item) /\ job[h].items # <<>>
    BY <1>2, <2>1, InsertMoves DEF Prechecks
  <2>3. ItemsSuit(h)
    BY <2>2 DEF FreshSuits
  <2> QED BY <2>2, <2>3, TailElements DEF ItemsSuit
<1> QED BY <1>1, <1>2

LEMMA CommitStaysSuited ==
  ASSUME TypeOK, FreshSuits, NEW h \in Handlers, Continue(h), rows' = rows,
         job'[h].pc = "item", job[h].batch \in fresh
  PROVE  CommitSuits(h)'
<1>1. job'[h] # Idle
  BY DEF Idle, Started
<1>2. CASE job'[h].base = rows /\ job'[h].read = InBatch(job[h].batch, job[h].who)
  <2>1. \A s \in InBatch(job[h].batch, job[h].who) : Suits(s.item, rows)
    BY DEF FreshSuits, InBatch, StagedBy
  <2> QED BY <1>2, <2>1 DEF CommitSuits, Suits, IsPlanned
<1>3. CASE job'[h].base = job[h].base /\ job'[h].read = job[h].read /\ job[h].pc # "read"
  <2>1. job[h].pc = "item"
    BY <1>1, <1>3, ContinueGoesOn DEF Onward
  <2>2. CommitSuits(h)
    BY <2>1 DEF FreshSuits
  <2> QED BY <1>3, <2>2 DEF CommitSuits, Suits, IsPlanned
<1> QED BY <1>1, <1>2, <1>3, SnapshotKept

\* The batch of a Scan becomes fresh before there is anything in it.
LEMMA ScanSuits ==
  ASSUME TypeOK, OwnBatches, BatchesApart, NEW h \in Handlers, Scan(h), FreshSuits,
         rows' = rows, fresh' = fresh \cup {job[h].batch}, job[h].pc = "scan"
  PROVE  FreshSuits'
<1>1. Continue(h) /\ h \in Early /\ h \in Prechecks
  BY JobType DEF Continue, Busy, Early, Prechecks
<1>2. Unseen(job[h].batch) /\ job[h].items = <<>>
  BY <1>1 DEF OwnBatches, BatchesApart, ItemsApart
<1>3. /\ \A g \in Handlers \ {h} : job'[g] = job[g]
      /\ job'[h].pc # "item"
      /\ job'[h] # Idle => job'[h].items = <<>>
      /\ staging' = staging
  <2>1. ~Plan(h) /\ ~Insert(h)
    BY DEF Scan, Plan, Insert, At
  <2>2. job'[h].pc # "item"
    BY <1>1, ContinueGoesOn DEF Onward, Scan, At, Idle, Started
  <2> QED BY <1>1, <1>2, <2>1, <2>2, ContinueGoesOn, OtherMoves DEF Onward, Scan
<1>4. ASSUME NEW g \in Prechecks', job'[g].batch \in fresh' PROVE ItemsSuit(g)'
  <2>1. CASE g = h
    <3>1. job'[h] # Idle
      BY <1>4, <2>1 DEF Prechecks, Idle, Started
    <3> QED BY <1>3, <2>1, <3>1 DEF ItemsSuit
  <2>2. CASE g # h
    <3>1. g \in Prechecks /\ job'[g] = job[g] /\ job[g].batch # job[h].batch
      BY <1>1, <1>3, <1>4, <2>2 DEF Prechecks, OwnBatches
    <3>2. ItemsSuit(g)
      BY <1>4, <3>1 DEF FreshSuits
    <3> QED BY <3>1, <3>2 DEF ItemsSuit, Suits, IsPlanned
  <2> QED BY <2>1, <2>2
<1>5. ASSUME NEW s \in staging', s.batch \in fresh' PROVE Suits(s.item, rows)
  BY <1>2, <1>3, <1>5 DEF Unseen, FreshSuits
<1>6. ASSUME NEW g \in Handlers, job'[g].pc = "item", job'[g].batch \in fresh'
      PROVE  CommitSuits(g)'
  <2>1. g # h /\ job'[g] = job[g] /\ job[g].op = "commit"
    BY <1>3, <1>6, JobType
  <2>2. job[g].batch \in fresh
    BY <1>2, <1>6, <2>1 DEF Unseen
  <2>3. CommitSuits(g)
    BY <1>6, <2>1, <2>2 DEF FreshSuits
  <2> QED BY <2>1, <2>3 DEF CommitSuits, Suits, IsPlanned
<1>7. \A s \in staging' : s.batch \in fresh' => Suits(s.item, rows)'
  BY <1>5 DEF Suits, IsPlanned
<1> QED BY <1>4, <1>6, <1>7 DEF FreshSuits

LEMMA ContinueSuits ==
  ASSUME TypeOK, OwnBatches, BatchesApart, NamesDistinct, FreshSuits,
         NEW h \in Handlers, Continue(h)
  PROVE  FreshSuits'
<1>1. CASE fresh' = {}
  BY <1>1 DEF FreshSuits
<1>2. CASE rows' = rows /\ fresh' = fresh
  <2>1. Onward(h)
    BY ContinueGoesOn
  <2>2. ASSUME NEW g \in Prechecks', job'[g].batch \in fresh' PROVE ItemsSuit(g)'
    <3>1. g \in Prechecks /\ job'[g].batch = job[g].batch /\ job'[g] # Idle
      BY <2>1, <2>2 DEF Onward, Idle, Started, Prechecks
    <3>2. ItemsSuit(g)
      BY <1>2, <2>2, <3>1 DEF FreshSuits
    <3>3. CASE g = h
      BY <1>2, <3>1, <3>2, <3>3, ItemsStaySuited
    <3>4. CASE g # h
      <4>1. job'[g] = job[g]
        BY <2>1, <3>1, <3>4 DEF Onward, Prechecks
      <4> QED BY <1>2, <3>2, <4>1 DEF ItemsSuit, Suits, IsPlanned
    <3> QED BY <3>3, <3>4
  <2>3. \A s \in staging' : s.batch \in fresh' => Suits(s.item, rows)'
    <3>1. \A s \in staging' : s.batch \in fresh => Suits(s.item, rows)
      BY <1>2, StagedStaySuited
    <3> QED BY <1>2, <3>1 DEF Suits, IsPlanned
  <2>4. ASSUME NEW g \in Handlers, job'[g].pc = "item", job'[g].batch \in fresh'
        PROVE  CommitSuits(g)'
    <3>1. CASE g = h
      <4>1. job[h].batch \in fresh
        BY <1>2, <2>1, <2>4, <3>1 DEF Onward, Idle, Started
      <4> QED BY <1>2, <2>4, <3>1, <4>1, CommitStaysSuited
    <3>2. CASE g # h
      <4>1. job'[g] = job[g]
        BY <2>1, <3>2 DEF Onward
      <4>2. CommitSuits(g)
        BY <1>2, <2>4, <4>1 DEF FreshSuits
      <4> QED BY <4>1, <4>2 DEF CommitSuits, Suits, IsPlanned
    <3> QED BY <3>1, <3>2
  <2> QED BY <2>2, <2>3, <2>4 DEF FreshSuits
<1>3. CASE /\ Scan(h) /\ job[h].pc = "scan"
           /\ rows' = rows /\ fresh' = fresh \cup {job[h].batch}
  BY <1>3, ScanSuits
<1> QED BY <1>1, <1>2, <1>3, FreshMoves

LEMMA BeginSuits ==
  ASSUME TypeOK, OwnBatches, FreshSuits, NEW h \in Handlers, Begin(h)
  PROVE  FreshSuits'
<1>1. /\ job'[h].items = <<>> /\ job'[h].pc # "item"
      /\ \A g \in Handlers \ {h} : job'[g] = job[g]
      /\ UNCHANGED <<rows, fresh, staging>>
  BY BeginStarts
<1>2. ASSUME NEW g \in Prechecks', job'[g].batch \in fresh' PROVE ItemsSuit(g)'
  <2>1. CASE g = h
    BY <1>1, <2>1 DEF ItemsSuit
  <2>2. CASE g # h
    <3>1. g \in Prechecks /\ job'[g] = job[g]
      BY <1>1, <1>2, <2>2 DEF Prechecks
    <3>2. ItemsSuit(g)
      BY <1>1, <1>2, <3>1 DEF FreshSuits
    <3> QED BY <1>1, <3>1, <3>2 DEF ItemsSuit, Suits, IsPlanned
  <2> QED BY <2>1, <2>2
<1>3. \A s \in staging' : s.batch \in fresh' => Suits(s.item, rows)'
  BY <1>1 DEF FreshSuits, Suits, IsPlanned
<1>4. ASSUME NEW g \in Handlers, job'[g].pc = "item", job'[g].batch \in fresh'
      PROVE  CommitSuits(g)'
  <2>1. job'[g] = job[g]
    BY <1>1, <1>4
  <2>2. CommitSuits(g)
    BY <1>1, <1>4, <2>1 DEF FreshSuits
  <2> QED BY <2>1, <2>2 DEF CommitSuits, Suits, IsPlanned
<1> QED BY <1>2, <1>3, <1>4 DEF FreshSuits

LEMMA AlwaysSuits == Spec => [](NamesDistinct => FreshSuits)
<1>1. Init => FreshSuits
  BY DEF Init, FreshSuits
<1>2. /\ TypeOK /\ OwnBatches /\ BatchesApart
      /\ NamesDistinct => FreshSuits
      /\ [Next]_vars
      => (NamesDistinct => FreshSuits)'
  <2> SUFFICES ASSUME TypeOK, OwnBatches, BatchesApart, NamesDistinct => FreshSuits, [Next]_vars,
                      NamesDistinct'
               PROVE  FreshSuits'
    OBVIOUS
  <2>1. CASE fresh' = {}
    BY <2>1 DEF FreshSuits
  <2>2. CASE fresh' # {}
    <3>1. rows' = rows
      <4>1. ASSUME NEW h \in Handlers, Begin(h) PROVE rows' = rows
        BY <4>1, BeginStarts
      <4>2. ASSUME NEW h \in Handlers, Continue(h) PROVE rows' = rows
        BY <2>2, <4>2, FreshMoves
      <4>3. UNCHANGED vars \/ Crash \/ Elsewhere => rows' = rows
        BY <2>2 DEF vars, table, Crash, Elsewhere, FileChanges, TableChanges
      <4> QED BY <4>1, <4>2, <4>3 DEF Next
    <3>2. NamesDistinct /\ FreshSuits
      BY <3>1 DEF NamesDistinct
    <3>3. CASE UNCHANGED vars \/ Elsewhere
      <4>1. UNCHANGED <<rows, fresh, staging, job>>
        BY <2>2, <3>3 DEF vars, table, Elsewhere, FileChanges, TableChanges
      <4> QED BY <3>2, <4>1 DEF FreshSuits, Prechecks, ItemsSuit, CommitSuits, Suits, IsPlanned
    <3>4. ASSUME NEW h \in Handlers, Begin(h) \/ Continue(h)
          PROVE  FreshSuits'
      BY <3>2, <3>4, BeginSuits, ContinueSuits
    <3>5. CASE Crash
      <4>1. UNCHANGED <<rows, fresh, staging>>
            /\ \A h \in Handlers : job'[h].op = "idle" /\ job'[h].pc = "done"
        BY <3>5 DEF Crash, table, Idle, Started
      <4> QED BY <3>2, <4>1 DEF FreshSuits, Prechecks, Suits, IsPlanned
    <3> QED BY <3>3, <3>4, <3>5 DEF Next
  <2> QED BY <2>1, <2>2
<1> QED BY <1>1, <1>2, AlwaysType, AlwaysOwnBatches, AlwaysApart, PTL DEF Spec

LEMMA AlwaysLeft == Spec => []LeftOfRead
<1>1. Init => LeftOfRead
  BY DEF Init, LeftOfRead, Idle, Started
<1>2. TypeOK /\ LeftOfRead /\ [Next]_vars => LeftOfRead'
  <2> SUFFICES ASSUME TypeOK, LeftOfRead, [Next]_vars, NEW g \in Handlers
               PROVE  job'[g].left \subseteq job'[g].read
    BY DEF LeftOfRead
  <2>0. Idle.left \subseteq Idle.read
    BY DEF Idle, Started
  <2>1. CASE UNCHANGED vars \/ Elsewhere
    BY <2>1 DEF vars, Elsewhere, LeftOfRead
  <2>2. ASSUME NEW h \in Handlers, Begin(h)
        PROVE  job'[g].left \subseteq job'[g].read
    <3>1. CASE g = h
      BY <2>2, <3>1, BeginStarts
    <3>2. CASE g # h
      BY <2>2, <3>2, BeginStarts DEF LeftOfRead
    <3> QED BY <3>1, <3>2
  <2>3. ASSUME NEW h \in Handlers, Continue(h)
        PROVE  job'[g].left \subseteq job'[g].read
    <3>1. CASE g = h
      BY <2>0, <2>3, <3>1, SnapshotKept DEF LeftOfRead
    <3>2. CASE g # h
      BY <2>3, <3>2, ContinueGoesOn DEF Onward, LeftOfRead
    <3> QED BY <3>1, <3>2
  <2>4. CASE Crash
    <3>1. job'[g] = Idle
      BY <2>4 DEF Crash
    <3> QED BY <2>0, <3>1
  <2> QED BY <2>1, <2>2, <2>3, <2>4 DEF Next
<1> QED BY <1>1, <1>2, AlwaysType, PTL DEF Spec

LEMMA AlwaysFreshSnapshots == Spec => []FreshSnapshots
<1>1. Init => FreshSnapshots
  BY DEF Init, FreshSnapshots
<1>2. TypeOK /\ OwnBatches /\ FreshSnapshots /\ [Next]_vars => FreshSnapshots'
  <2> SUFFICES ASSUME TypeOK, OwnBatches, FreshSnapshots, [Next]_vars, NEW g \in Handlers,
                      job'[g].pc \in {"item", "end"}, job'[g].batch \in fresh'
               PROVE  job'[g].base = rows'
    BY DEF FreshSnapshots
  <2>1. job'[g] # Idle
    BY DEF Idle, Started
  <2>2. CASE UNCHANGED vars \/ Elsewhere
    BY <2>2 DEF vars, table, Elsewhere, FileChanges, TableChanges, FreshSnapshots
  <2>3. ASSUME NEW h \in Handlers, Begin(h)
        PROVE  job'[g].base = rows'
    <3>1. g # h /\ job'[g] = job[g] /\ UNCHANGED <<rows, fresh>>
      BY <2>3, BeginStarts
    <3> QED BY <3>1 DEF FreshSnapshots
  <2>4. ASSUME NEW h \in Handlers, Continue(h)
        PROVE  job'[g].base = rows'
    <3>1. CASE rows' = rows /\ fresh' = fresh /\ g = h
      <4>1. \/ job'[h].base = rows
            \/ job'[h].base = job[h].base /\ job[h].pc # "read"
        BY <2>1, <2>4, <3>1, SnapshotKept
      <4>2. job[h].pc = "read" \/ job[h].pc = "item"
        BY <2>1, <2>4, <3>1, ContinueGoesOn DEF Onward
      <4>3. job[h].batch \in fresh
        BY <2>1, <2>4, <3>1, ContinueGoesOn DEF Onward
      <4> QED BY <3>1, <4>1, <4>2, <4>3 DEF FreshSnapshots
    <3>2. CASE rows' = rows /\ fresh' = fresh /\ g # h
      BY <2>4, <3>2, ContinueGoesOn DEF Onward, FreshSnapshots
    <3>3. CASE Scan(h) /\ job[h].pc = "scan" /\ rows' = rows /\ fresh' = fresh \cup {job[h].batch}
      <4>1. h \in Early
        BY <3>3, JobType DEF Early, Prechecks
      <4>2. job'[h].pc \notin {"item", "end"}
        BY <2>4, <3>3, <4>1, ContinueGoesOn DEF Onward, Early, Prechecks, Idle, Started
      <4>3. g # h /\ job'[g] = job[g]
        BY <2>4, <4>2, ContinueGoesOn DEF Onward
      <4>4. job[g].op = "commit"
        BY <4>3, JobType
      <4>5. job[g].batch # job[h].batch
        BY <4>1, <4>4 DEF OwnBatches, Unseen
      <4> QED BY <3>3, <4>3, <4>5 DEF FreshSnapshots
    <3>4. fresh' # {}
      OBVIOUS
    <3> QED BY <2>4, <3>1, <3>2, <3>3, <3>4, FreshMoves
  <2>5. CASE Crash
    BY <2>1, <2>5 DEF Crash
  <2> QED BY <2>2, <2>3, <2>4, <2>5 DEF Next
<1> QED BY <1>1, <1>2, AlwaysType, AlwaysOwnBatches, PTL DEF Spec

\* A snapshot that is the table shows every row that could hold the key.
LEMMA SnapshotKeys ==
  ASSUME NEW j, NEW s, j.base = rows
  PROVE  ~DuplicateKey(j, s)
BY DEF DuplicateKey, Target, IdsOf

\* COMMIT refuses no staged batch that has planned items alone.
LEMMA ReadAccepts ==
  ASSUME TypeOK, BatchesApart, NEW b, NEW o,
         InBatch(b, o) # {}, ~Skipped(InBatch(b, o))
  PROVE  ~Refused(InBatch(b, o))
<1> DEFINE S == InBatch(b, o)
<1>1. \A s \in S : s \in staging /\ s.batch = b /\ IsPlanned(s.item)
  BY DEF InBatch, StagedBy, Skipped, TypeOK, Staged, Item, Results, IsPlanned
<1>2. \A s, t \in S : s # t => s.item.path # t.item.path /\ s.item.name # t.item.name
  BY <1>1 DEF BatchesApart, StagedApart, Apart
<1> QED BY <1>2 DEF Refused, Ambiguous

\* COMMIT stops at no planned item that suits its snapshot.
LEMMA ItemAccepts ==
  ASSUME TypeOK, LeftOfRead, NEW h \in Handlers, CommitItem(h), CommitSuits(h)
  PROVE  job'[h] # Idle
<1>1. PICK s \in NextLeft(job[h]) :
        \E taken \in NameTaken(job[h].base \ Before(job[h], s), s.item.name, s.item.path) :
          Goto(h, IF taken THEN Idle ELSE Checked(job[h], s))
  BY DEF CommitItem
<1>2. PICK taken \in NameTaken(job[h].base \ Before(job[h], s), s.item.name, s.item.path) :
        job'[h] = IF taken THEN Idle ELSE Checked(job[h], s)
  BY <1>1, GotoThere
<1>3. s \in job[h].read /\ s \in Planned
  <2>1. s \in job[h].left /\ job[h].read \subseteq Planned
    BY JobType DEF NextLeft, Locals
  <2> QED BY <2>1 DEF LeftOfRead
<1>4. \A r \in job[h].base : r.name = s.item.name => r.path = s.item.path
  BY <1>3 DEF CommitSuits, Suits, IsPlanned, Planned
<1>5. taken = FALSE
  <2>1. \A r \in job[h].base \ Before(job[h], s) : r.name = s.item.name => r.path = s.item.path
    BY <1>4
  <2>2. NameTaken(job[h].base \ Before(job[h], s), s.item.name, s.item.path) = {FALSE}
    BY <2>1, NotTaken
  <2> QED BY <2>2
<1>6. job'[h] = Checked(job[h], s)
  BY <1>2, <1>5
<1>7. Checked(job[h], s).op = "commit"
  BY <1>1, CheckedJob DEF CommitItem
<1> QED BY <1>6, <1>7 DEF Idle, Started

\* The checks of a COMMIT that sees the table of the PRECHECK refuse nothing
\* that the PRECHECK planned.
LEMMA FreshCommits ==
  ASSUME TypeOK, BatchesApart, NamesDistinct => FreshSuits, LeftOfRead, FreshSnapshots,
         [Next]_vars,
         NEW h \in Handlers, job'[h] = Idle,
         \/ /\ job[h].pc = "read" /\ InBatch(job[h].batch, job[h].who) # {}
            /\ ~Skipped(InBatch(job[h].batch, job[h].who))
         \/ job[h].pc = "item"
         \/ job[h].pc = "end" /\ \E s \in job[h].read : DuplicateKey(job[h], s),
         faults' = faults, NamesDistinct
  PROVE  job[h].batch \notin fresh
<1> SUFFICES ASSUME job[h].batch \in fresh PROVE FALSE
  OBVIOUS
<1>1. job[h].op = "commit" /\ Idle.pc = "done" /\ Idle.op = "idle"
  BY JobType DEF Idle, Started
<1>2. ~Fault
  BY DEF Fault, TypeOK
<1>3. CASE Continue(h)
  <2>1. ~CallFails(h)
    BY <1>2 DEF CallFails
  <2>2. CASE job[h].pc = "read"
    <3>1. CommitRead(h)
      BY <1>3, <2>1, <2>2 DEF Continue, DeleteExpired, Clear, Scan, Plan, Insert, ShowLatest,
         CommitItem, CommitEnd, At
    <3>2. ~Refused(InBatch(job[h].batch, job[h].who))
      BY <2>2, ReadAccepts
    <3>3. job'[h] = [job[h] EXCEPT !.pc = "item", !.read = InBatch(job[h].batch, job[h].who),
                                   !.left = InBatch(job[h].batch, job[h].who), !.base = rows]
      BY <3>1, <3>2, GotoThere DEF CommitRead
    <3>4. job[h] \in Locals
      BY JobType
    <3>5. job'[h].op = "commit"
      BY <1>1, <3>3, <3>4 DEF Locals
    <3> QED BY <1>1, <3>5
  <2>3. CASE job[h].pc = "item"
    <3>1. CommitItem(h)
      BY <1>3, <2>1, <2>3 DEF Continue, DeleteExpired, Clear, Scan, Plan, Insert, ShowLatest,
         CommitRead, CommitEnd, At
    <3>2. CommitSuits(h)
      BY <2>3 DEF FreshSuits
    <3> QED BY <3>1, <3>2, ItemAccepts
  <2>4. CASE job[h].pc = "end"
    BY <2>4, SnapshotKeys DEF FreshSnapshots
  <2> QED BY <2>2, <2>3, <2>4
<1>4. CASE UNCHANGED vars \/ Elsewhere
  BY <1>1, <1>4 DEF vars, Elsewhere
<1>5. CASE Crash
  BY <1>2, <1>5 DEF Crash
<1>6. ASSUME NEW g \in Handlers, Begin(g) PROVE FALSE
  BY <1>1, <1>6, BeginStarts
<1>7. ASSUME NEW g \in Handlers \ {h}, Continue(g) PROVE FALSE
  BY <1>1, <1>7, ContinueGoesOn DEF Onward
<1> QED BY <1>3, <1>4, <1>5, <1>6, <1>7 DEF Next

\* A staged batch without a SKIPPED file commits, whatever the other requests
\* do, as long as no call failed and the table is as the PRECHECK saw it: neither
\* COMMIT's own checks nor the unique key turn down what the PRECHECK planned.
THEOREM PlannedAccepted == Spec => PlannedCommits
<1> DEFINE Accepted(h) ==
      LET j == job[h]
          S == InBatch(j.batch, j.who)
      IN  /\ job'[h] = Idle
          /\ \/ j.pc = "read" /\ S # {} /\ ~Skipped(S)
             \/ j.pc = "item"
             \/ j.pc = "end" /\ \E s \in j.read : DuplicateKey(j, s)
          /\ faults' = faults
          /\ NamesDistinct
          => j.batch \notin fresh
<1>1. /\ TypeOK /\ BatchesApart /\ (NamesDistinct => FreshSuits) /\ LeftOfRead
      /\ FreshSnapshots /\ [Next]_vars
      => [\A h \in Handlers : Accepted(h)]_vars
  BY FreshCommits
<1> QED BY <1>1, AlwaysType, AlwaysApart, AlwaysSuits, AlwaysLeft, AlwaysFreshSnapshots,
           PTL DEF Spec, PlannedCommits

-----------------------------------------------------------------------------
(***************************************************************************)
(* Undisturbed, a COMMIT leaves every file with its row.                   *)
(***************************************************************************)
LEMMA UndisturbedBefore ==
  ASSUME TypeOK, [Next]_vars, Undisturbed'
  PROVE  /\ Undisturbed /\ ini' = ini /\ Present' = Present
         /\ ~Fault /\ ~Crash /\ ~Elsewhere /\ \A h \in Handlers : ~CallFails(h)
<1>1. faults \in Nat /\ changes \in Nat /\ faults' = 0 /\ changes' = 0
  BY BoundsAssumption DEF TypeOK, Undisturbed
<1>2. ~Fault
  BY <1>1 DEF Fault
<1>3. ~Crash /\ ~Elsewhere /\ \A h \in Handlers : ~CallFails(h)
  BY <1>1, <1>2 DEF Crash, Elsewhere, CallFails
<1>4. CASE UNCHANGED vars
  BY <1>1, <1>2, <1>3, <1>4 DEF vars, Undisturbed, Present
<1>5. ASSUME NEW h \in Handlers, Begin(h)
      PROVE  Undisturbed /\ ini' = ini
  BY <1>1, <1>5, BeginStarts DEF Undisturbed
<1>6. ASSUME NEW h \in Handlers, Continue(h)
      PROVE  Undisturbed /\ ini' = ini
  <2>1. ini' = ini
    BY <1>6 DEF Continue, DeleteExpired, Clear, Scan, Plan, Insert, ShowLatest, CommitRead,
       CommitItem, CommitEnd, CallFails
  <2>2. faults' = faults \/ Fault
    BY <1>6 DEF Continue, DeleteExpired, Clear, Scan, Plan, Insert, ShowLatest, CommitRead,
       CommitItem, CommitEnd, CallFails
  <2>3. changes' = changes \/ changes' = changes + 1
    BY <1>6 DEF Continue, DeleteExpired, Clear, Scan, Plan, Insert, ShowLatest, CommitRead,
       CommitItem, CommitEnd, CallFails
  <2> QED BY <1>1, <1>2, <2>1, <2>2, <2>3 DEF Undisturbed
<1>7. Undisturbed /\ ini' = ini
  BY <1>3, <1>4, <1>5, <1>6 DEF Next, vars
<1> QED BY <1>2, <1>3, <1>7 DEF Present

\* What the items say stays true of the files.
LEMMA RightStays ==
  ASSUME TypeOK, AllRight, NEW h \in Handlers, Continue(h), ~Fault, ini' = ini
  PROVE  AllRight'
<1>1. Onward(h)
  BY ContinueGoesOn
<1>2. PICK q \in Seq(Item) : q = job[h].items
  BY ItemsType
<1>3. h \in Prechecks => \A i \in DOMAIN q : Right(q[i])
  BY <1>2 DEF AllRight
<1>4. ASSUME h \in Prechecks', NEW i \in DOMAIN job'[h].items
      PROVE  Right(job'[h].items[i])
  <2>1. h \in Prechecks /\ job'[h] # Idle
    BY <1>1, <1>4 DEF Onward, Idle, Started, Prechecks
  <2>2. CASE Plan(h)
    <3>1. PICK p \in job[h].todo, it \in Item :
            PlannedOf(h, p, it) /\ job'[h].items = Append(q, it)
      BY <1>2, <2>2, PlanMoves
    <3>2. Right(it)
      BY <3>1 DEF PlannedOf, Right
    <3> QED BY <1>2, <1>3, <1>4, <2>1, <3>1, <3>2, AppendElements
  <2>3. CASE Insert(h)
    <3>1. job'[h].items = Tail(q) /\ q # <<>>
      BY <1>2, <2>1, <2>3, InsertMoves
    <3> QED BY <1>2, <1>3, <1>4, <2>1, <3>1, TailElements
  <2>4. CASE ~Plan(h) /\ ~Insert(h)
    BY <1>2, <1>3, <1>4, <2>1, <2>4, OtherMoves
  <2> QED BY <2>2, <2>3, <2>4
<1>5. ASSUME NEW s \in staging' PROVE Right(s.item)
  <2>1. CASE s \in staging
    BY <2>1 DEF AllRight
  <2>2. CASE s \notin staging
    <3>1. Insert(h)
      BY <2>2, PlanMoves, OtherMoves
    <3>2. h \in Prechecks /\ s.item = Head(q) /\ q # <<>>
      BY <1>2, <2>2, <3>1, InsertMoves DEF Prechecks
    <3> QED BY <1>2, <1>3, <3>2, TailElements
  <2> QED BY <2>1, <2>2
<1>6. ASSUME job'[h].pc \in {"item", "end"}, NEW s \in job'[h].read PROVE Right(s.item)
  <2>1. job'[h] # Idle
    BY <1>6 DEF Idle, Started
  <2>2. CASE job'[h].read = job[h].read /\ job[h].pc # "read"
    <3>1. job[h].pc = "item"
      BY <1>1, <1>6, <2>1, <2>2 DEF Onward
    <3> QED BY <1>6, <2>2, <3>1 DEF AllRight
  <2>3. CASE job'[h].read = InBatch(job[h].batch, job[h].who)
    BY <1>6, <2>3 DEF AllRight, InBatch, StagedBy
  <2> QED BY <2>1, <2>2, <2>3, SnapshotKept
<1>7. \A it : Right(it) => Right(it)'
  BY DEF Right, IsPlanned
<1>8. ASSUME NEW g \in Prechecks', NEW i \in DOMAIN job'[g].items
      PROVE  Right(job[g].items[i])'
  <2>1. CASE g = h
    BY <1>4, <1>8, <2>1 DEF Right, IsPlanned
  <2>2. CASE g # h
    <3>1. g \in Prechecks /\ job'[g] = job[g]
      BY <1>1, <1>8, <2>2 DEF Onward, Prechecks
    <3>2. Right(job[g].items[i])
      BY <1>8, <3>1 DEF AllRight
    <3> QED BY <3>1, <3>2 DEF Right, IsPlanned
  <2> QED BY <2>1, <2>2
<1>9. ASSUME NEW g \in Handlers, job'[g].pc \in {"item", "end"}, NEW s \in job'[g].read
      PROVE  Right(s.item)'
  <2>1. CASE g = h
    BY <1>6, <1>7, <1>9, <2>1
  <2>2. CASE g # h
    <3>1. job'[g] = job[g]
      BY <1>1, <2>2 DEF Onward
    <3>2. Right(s.item)
      BY <1>9, <3>1 DEF AllRight
    <3> QED BY <1>7, <3>2
  <2> QED BY <2>1, <2>2
<1>10. \A s \in staging' : Right(s.item)'
  BY <1>5, <1>7
<1> QED BY <1>8, <1>9, <1>10 DEF AllRight

\* A COMMIT keeps the ids of the rows.
LEMMA IdsKept ==
  ASSUME Sound, NEW h \in Handlers, Begin(h) \/ Continue(h)
  PROVE  IdsOf(rows) \subseteq IdsOf(rows')
<1>1. CASE rows' = rows
  BY <1>1
<1>2. CASE rows' # rows
  <2> DEFINE j == job[h]
  <2>1. rows' = Imported(j) /\ UniquePaths(j.base)
    BY <1>2, RowsMove DEF Sound
  <2> HIDE DEF j
  <2>2. ASSUME NEW r \in rows PROVE \E w \in Imported(j) : w.id = r.id
    <3>1. CASE r \in Untouched(j)
      BY <3>1 DEF Imported
    <3>2. CASE r \notin Untouched(j)
      <4>1. PICK s \in j.read : r.id \in IdsOf(Target(j, s))
        BY <3>2 DEF Untouched
      <4>2. PICK t \in Target(j, s) : t.id = r.id
        BY <4>1 DEF IdsOf
      <4>3. \A u \in Target(j, s) : u = t
        BY <2>1 DEF Target, UniquePaths
      <4>4. IdsOf(Target(j, s)) \subseteq IdsOf(rows)
        BY <4>2, <4>3 DEF IdsOf
      <4>5. Updates(j, s)
        BY <4>2, <4>4 DEF Updates
      <4>6. Written(s, t.id) \in Overwritten(j)
        BY <4>2, <4>5 DEF Overwritten
      <4>7. Written(s, t.id).id = r.id
        BY <4>2 DEF Written
      <4> QED BY <4>6, <4>7 DEF Imported
    <3> QED BY <3>1, <3>2
  <2> QED BY <2>1, <2>2 DEF IdsOf
<1> QED BY <1>1, <1>2

\* A snapshot has no id that the table has lost since.
LEMMA RowsStayKept ==
  ASSUME TypeOK, Sound, RowsStay, NEW h \in Handlers, Continue(h)
  PROVE  RowsStay'
<1>1. IdsOf(rows) \subseteq IdsOf(rows')
  BY IdsKept
<1>2. ASSUME NEW g \in Handlers, job'[g].pc \in {"item", "end"}
      PROVE  IdsOf(job'[g].base) \subseteq IdsOf(rows')
  <2>1. CASE g # h
    <3>1. job'[g] = job[g]
      BY <2>1, ContinueGoesOn DEF Onward
    <3> QED BY <1>1, <1>2, <3>1 DEF RowsStay
  <2>2. CASE g = h
    <3>1. job'[h] # Idle
      BY <1>2, <2>2 DEF Idle, Started
    <3>2. CASE job'[h].base = rows
      BY <1>1, <2>2, <3>2
    <3>3. CASE job'[h].base = job[h].base /\ job[h].pc # "read"
      <4>1. job[h].pc = "item"
        BY <1>2, <2>2, <3>1, <3>3, ContinueGoesOn DEF Onward
      <4> QED BY <1>1, <2>2, <3>3, <4>1 DEF RowsStay
    <3> QED BY <3>1, <3>2, <3>3, SnapshotKept
  <2> QED BY <2>1, <2>2
<1> QED BY <1>2 DEF RowsStay, IdsOf

\* Undisturbed, a batch loses all of its rows or none, and all of them only to
\* a request of its operator.
LEMMA BatchMoves ==
  ASSUME NEW h \in Handlers, Continue(h), changes' = changes, changes \in Nat,
         NEW b, NEW o
  PROVE  \/ InBatch(b, o) \subseteq InBatch(b, o)'
         \/ InBatch(b, o)' = {} /\ job[h].who = o
<1>1. CASE staging \subseteq staging'
  BY <1>1 DEF InBatch, StagedBy
<1>2. CASE Clear(h)
  BY <1>2 DEF Clear, InBatch, StagedBy
<1>3. CASE CommitEnd(h)
  <2>1. staging' = staging \/ staging' = staging \ InBatch(job[h].batch, job[h].who)
    BY <1>3 DEF CommitEnd
  <2> QED BY <2>1 DEF InBatch, StagedBy
<1>4. CASE ~Clear(h) /\ ~CommitEnd(h)
  <2>1. staging \subseteq staging'
    BY <1>4 DEF Continue, DeleteExpired, Scan, Plan, Insert, ShowLatest, CommitRead, CommitItem,
       CallFails
  <2> QED BY <1>1, <2>1
<1> QED BY <1>2, <1>3, <1>4

\* The files that an operator's own request has dealt with.
LEMMA OwnLeftOut ==
  ASSUME TypeOK, OneRequest, NoneLeftOut, NEW h \in Handlers, Continue(h), Present' = Present
  PROVE  /\ job'[h].pc = "plan" => Present \subseteq job'[h].todo \cup ItemPaths(h)'
         /\ job'[h].pc = "insert" =>
              Present \subseteq ItemPaths(h)' \cup StagedPaths(job[h].batch, job[h].who)'
         /\ job'[h].pc \in {"item", "end"} => Present \subseteq {s.item.path : s \in job'[h].read}
<1>1. Onward(h)
  BY ContinueGoesOn
<1>2. PICK q \in Seq(Item) : q = job[h].items
  BY ItemsType
<1>3. PICK q2 : q2 = job'[h].items
  OBVIOUS
<1>4. ItemPaths(h) = {q[i].path : i \in DOMAIN q} /\ ItemPaths(h)' = {q2[i].path : i \in DOMAIN q2}
  BY <1>2, <1>3 DEF ItemPaths
<1>5. CASE Plan(h)
  <2>1. PICK p \in job[h].todo, it \in Item :
          /\ it.path = p
          /\ q2 = Append(q, it)
          /\ job'[h].todo = job[h].todo \ {p}
          /\ job'[h].pc = "insert" => job[h].todo = {p}
    <3>1. PICK p \in job[h].todo, it \in Item :
            /\ PlannedOf(h, p, it) \/ it = Unreadable(p)
            /\ q2 = Append(q, it)
            /\ job'[h].todo = job[h].todo \ {p}
            /\ job'[h].pc = "insert" => job[h].todo = {p}
      BY <1>2, <1>3, <1>5, PlanMoves
    <3>2. it.path = p
      <4>1. CASE PlannedOf(h, p, it)
        BY <4>1 DEF PlannedOf
      <4>2. CASE it = Unreadable(p)
        BY <4>2 DEF Unreadable
      <4> QED BY <3>1, <4>1, <4>2
    <3> QED BY <3>1, <3>2
  <2>2. Present \subseteq job[h].todo \cup {q[i].path : i \in DOMAIN q}
    BY <1>4, <1>5, PlanMoves DEF NoneLeftOut
  <2>3. \A i \in DOMAIN q : i \in DOMAIN q2 /\ q2[i] = q[i]
    BY <1>2, <2>1
  <2>4. Len(q) + 1 \in DOMAIN q2 /\ q2[Len(q) + 1] = it
    BY <1>2, <2>1
  <2>5. Present \subseteq job'[h].todo \cup {q2[i].path : i \in DOMAIN q2}
    BY <2>1, <2>2, <2>3, <2>4
  <2>6. job'[h].pc \in {"plan", "insert"} /\ (job'[h].pc = "insert" => job'[h].todo = {})
    BY <1>5, <2>1, PlanMoves
  <2> QED BY <1>4, <2>5, <2>6
<1>6. CASE Insert(h) /\ job'[h] # Idle
  <2>1. /\ q2 = Tail(q) /\ q # <<>> /\ job'[h].pc = "insert" /\ job[h].pc = "insert"
        /\ \E s \in staging' : /\ staging' = staging \cup {s}
                               /\ s.batch = job[h].batch /\ s.by = job[h].who
                               /\ s.item = Head(q)
    BY <1>2, <1>3, <1>6, InsertMoves
  <2>2. Present \subseteq {q[i].path : i \in DOMAIN q} \cup StagedPaths(job[h].batch, job[h].who)
    BY <1>4, <2>1 DEF NoneLeftOut
  <2>3. \A i \in DOMAIN q : i = 1 \/ \E k \in DOMAIN q2 : q2[k] = q[i]
    <3> SUFFICES ASSUME NEW i \in DOMAIN q, i # 1
                 PROVE  \E k \in DOMAIN q2 : q2[k] = q[i]
      OBVIOUS
    <3>1. i - 1 \in DOMAIN q2 /\ q2[i - 1] = q[i]
      BY <1>2, <2>1
    <3> QED BY <3>1
  <2>4. /\ Head(q).path \in StagedPaths(job[h].batch, job[h].who)'
        /\ StagedPaths(job[h].batch, job[h].who) \subseteq StagedPaths(job[h].batch, job[h].who)'
    <3>1. job'[h].batch = job[h].batch /\ job'[h].who = job[h].who
      BY <1>1, <1>6 DEF Onward
    <3> QED BY <2>1, <3>1 DEF StagedPaths, InBatch, StagedBy
  <2>5. Head(q) = q[1]
    BY <1>2, <2>1
  <2> QED BY <1>4, <2>1, <2>2, <2>3, <2>4, <2>5
<1>7. CASE ~Plan(h) /\ ~Insert(h) /\ job'[h] # Idle
  <2>1. /\ job'[h].pc # "insert"
        /\ job'[h].pc = "plan" => job'[h].todo = Present
    BY <1>7, OtherMoves
  <2>2. ASSUME job'[h].pc \in {"item", "end"}
        PROVE  Present \subseteq {s.item.path : s \in job'[h].read}
    <3>1. CASE job'[h].read = job[h].read /\ job[h].pc # "read"
      <4>1. job[h].pc = "item"
        BY <1>1, <1>7, <2>2, <3>1 DEF Onward
      <4> QED BY <3>1, <4>1 DEF NoneLeftOut
    <3>2. CASE CommitRead(h) /\ job'[h].read = InBatch(job[h].batch, job[h].who)
               /\ ~Refused(InBatch(job[h].batch, job[h].who))
      <4>1. job[h].pc = "read" /\ job[h].who \in Operators
        BY <3>2, JobType DEF CommitRead, At, Continue, Busy
      <4>2. ~Writing(job[h].batch, job[h].who)
        BY <4>1, NoneAssumption DEF Writing, OneRequest
      <4>3. PICK s \in InBatch(job[h].batch, job[h].who) : TRUE
        BY <3>2 DEF Refused
      <4>4. s \in staging /\ s.batch = job[h].batch /\ s.by = job[h].who
        BY DEF InBatch, StagedBy
      <4>5. Present \subseteq StagedPaths(job[h].batch, job[h].who)
        BY <4>2, <4>4 DEF NoneLeftOut
      <4> QED BY <3>2, <4>5 DEF StagedPaths
    <3> QED BY <1>7, <3>1, <3>2, SnapshotKept
  <2> QED BY <2>1, <2>2
<1>8. CASE job'[h] = Idle
  BY <1>8 DEF Idle, Started
<1> QED BY <1>5, <1>6, <1>7, <1>8

\* The files that the requests of the other operators have dealt with, and
\* those of the batches.
LEMMA AllLeftOut ==
  ASSUME TypeOK, OneRequest, NoneLeftOut, NEW h \in Handlers, Continue(h), ~CallFails(h),
         changes' = changes, Present' = Present
  PROVE  NoneLeftOut'
<1>0. Onward(h) /\ changes \in Nat
  BY ContinueGoesOn DEF TypeOK
<1>1. ASSUME NEW g \in Handlers
      PROVE  /\ job'[g].pc = "plan" => Present \subseteq job'[g].todo \cup ItemPaths(g)'
             /\ job'[g].pc = "insert" =>
                  Present \subseteq ItemPaths(g)' \cup StagedPaths(job[g].batch, job[g].who)'
             /\ job'[g].pc \in {"item", "end"} =>
                  Present \subseteq {s.item.path : s \in job'[g].read}
  <2>1. CASE g = h
    BY <2>1, OwnLeftOut
  <2>2. CASE g # h
    <3>1. job'[g] = job[g] /\ ItemPaths(g)' = ItemPaths(g)
      BY <1>0, <2>2 DEF Onward, ItemPaths
    <3>2. ASSUME job[g].pc = "insert"
          PROVE  StagedPaths(job[g].batch, job[g].who)
                   \subseteq StagedPaths(job[g].batch, job[g].who)'
      <4>1. job[g].who # job[h].who
        <5>1. job[g].who \in Operators
          BY <3>2, JobType
        <5> QED BY <2>2, <5>1, NoneAssumption DEF OneRequest
      <4>2. PICK b, o : b = job[g].batch /\ o = job[g].who
        OBVIOUS
      <4>3. InBatch(b, o) \subseteq InBatch(b, o)'
        BY <1>0, <4>1, <4>2, BatchMoves
      <4> QED BY <3>1, <4>2, <4>3 DEF StagedPaths
    <3> QED BY <3>1, <3>2 DEF NoneLeftOut
  <2> QED BY <2>1, <2>2
<1>2. ASSUME NEW s \in staging', ~Writing(s.batch, s.by)'
      PROVE  Present \subseteq StagedPaths(s.batch, s.by)'
  <2>1. PICK b, o : b = s.batch /\ o = s.by
    OBVIOUS
  <2>2. s \in InBatch(b, o)'
    BY <2>1 DEF InBatch, StagedBy
  <2>3. StagedPaths(b, o) \subseteq StagedPaths(b, o)'
    <3>1. InBatch(b, o) \subseteq InBatch(b, o)'
      BY <1>0, <2>2, BatchMoves
    <3> QED BY <3>1 DEF StagedPaths
  <2>4. CASE Writing(b, o)
    <3>1. PICK g \in Handlers : job[g].pc = "insert" /\ job[g].batch = b /\ job[g].who = o
      BY <2>4 DEF Writing
    <3>2. ~(job'[g].pc = "insert" /\ job'[g].batch = b /\ job'[g].who = o)
      BY <1>2, <2>1 DEF Writing
    <3>3. g = h
      BY <1>0, <3>1, <3>2 DEF Onward
    <3>4. Insert(h)
      BY <3>1, <3>3 DEF Continue, DeleteExpired, Clear, Scan, Plan, ShowLatest, CommitRead,
         CommitItem, CommitEnd, At
    <3>5. job'[h] = Idle /\ Tail(job[h].items) = <<>>
      <4>1. job'[h] # Idle => job'[h].pc = "insert"
        BY <3>4, InsertMoves
      <4>2. job'[h] = Idle
        BY <1>0, <3>1, <3>2, <3>3, <4>1 DEF Onward
      <4>3. job'[h].pc # "insert"
        BY <4>2 DEF Idle, Started
      <4> QED BY <3>4, <4>2, <4>3, InsertMoves
    <3>6. /\ job[h].items \in Seq(Item) /\ job[h].items # <<>>
          /\ \E t \in staging' : t.batch = b /\ t.by = o /\ t.item = Head(job[h].items)
      BY <3>1, <3>3, <3>4, InsertMoves
    <3>7. Head(job[h].items).path \in StagedPaths(b, o)'
      BY <3>6 DEF StagedPaths, InBatch, StagedBy
    <3>8. Present \subseteq ItemPaths(h) \cup StagedPaths(b, o)
      BY <3>1, <3>3 DEF NoneLeftOut
    <3>9. ItemPaths(h) = {Head(job[h].items).path}
      <4>1. PICK q \in Seq(Item) : q = job[h].items /\ q # <<>> /\ Tail(q) = <<>>
        BY <3>5, <3>6
      <4>2. DOMAIN q = {1} /\ Head(q) = q[1]
        <5>1. Len(Tail(q)) = Len(q) - 1 /\ Len(q) \in Nat /\ DOMAIN q = 1..Len(q)
          BY <4>1
        <5>2. Len(Tail(q)) = 0
          BY <4>1
        <5>3. Len(q) = 1
          BY <5>1, <5>2
        <5> QED BY <4>1, <5>1, <5>3
      <4> QED BY <4>1, <4>2 DEF ItemPaths
    <3> QED BY <2>1, <2>3, <3>7, <3>8, <3>9
  <2>5. CASE ~Writing(b, o) /\ s \in staging
    <3>1. Present \subseteq StagedPaths(b, o)
      BY <2>1, <2>5 DEF NoneLeftOut
    <3> QED BY <2>1, <2>3, <3>1
  <2>6. CASE ~Writing(b, o) /\ s \notin staging
    <3>1. s.batch = job[h].batch /\ s.by = job[h].who /\ job[h].pc = "insert"
      BY <2>6, StagingMoves
    <3> QED BY <2>1, <2>6, <3>1 DEF Writing
  <2> QED BY <2>4, <2>5, <2>6
<1> QED BY <1>1, <1>2 DEF NoneLeftOut

LEMMA BeginMirrored ==
  ASSUME TypeOK, AllRight, NoneLeftOut, RowsStay, NEW h \in Handlers, Begin(h),
         Present' = Present
  PROVE  AllRight' /\ NoneLeftOut' /\ RowsStay'
<1>1. /\ job'[h].items = <<>> /\ job'[h].pc \in {"expire", "read"}
      /\ \A g \in Handlers \ {h} : job'[g] = job[g]
      /\ job[h].op = "idle"
      /\ UNCHANGED <<ini, rows, staging>>
  BY BeginStarts
<1>2. \A it : Right(it) => Right(it)'
  BY <1>1 DEF Right, IsPlanned
<1>3. AllRight'
  <2>1. ASSUME NEW g \in Prechecks', NEW i \in DOMAIN job'[g].items
        PROVE  Right(job[g].items[i])'
    <3>1. g # h
      BY <1>1, <2>1
    <3>2. g \in Prechecks /\ job'[g] = job[g]
      BY <1>1, <2>1, <3>1 DEF Prechecks
    <3>3. Right(job[g].items[i])
      BY <2>1, <3>2 DEF AllRight
    <3> QED BY <1>1, <3>2, <3>3 DEF Right, IsPlanned
  <2>2. \A s \in staging' : Right(s.item)'
    BY <1>1, <1>2 DEF AllRight
  <2>3. ASSUME NEW g \in Handlers, job'[g].pc \in {"item", "end"}, NEW s \in job'[g].read
        PROVE  Right(s.item)'
    <3>1. job'[g] = job[g]
      BY <1>1, <2>3
    <3> QED BY <1>2, <2>3, <3>1 DEF AllRight
  <2> QED BY <2>1, <2>2, <2>3 DEF AllRight
<1>4. NoneLeftOut'
  <2>1. ASSUME NEW g \in Handlers, job'[g].pc \notin {"expire", "read"}
        PROVE  /\ job'[g] = job[g] /\ ItemPaths(g)' = ItemPaths(g)
               /\ StagedPaths(job[g].batch, job[g].who)' = StagedPaths(job[g].batch, job[g].who)
    <3>1. job'[g] = job[g]
      BY <1>1, <2>1
    <3> QED BY <1>1, <3>1 DEF ItemPaths, StagedPaths, InBatch, StagedBy
  <2>2. \A b, o : StagedPaths(b, o)' = StagedPaths(b, o)
    BY <1>1 DEF StagedPaths, InBatch, StagedBy
  <2>3. \A b, o : Writing(b, o) => Writing(b, o)'
    <3> SUFFICES ASSUME NEW b, NEW o, Writing(b, o) PROVE Writing(b, o)'
      OBVIOUS
    <3>1. PICK g \in Handlers : job[g].pc = "insert" /\ job[g].batch = b /\ job[g].who = o
      BY DEF Writing
    <3>2. job'[g] = job[g]
      BY <1>1, <3>1, JobType
    <3> QED BY <3>1, <3>2 DEF Writing
  <2> QED BY <1>1, <2>1, <2>2, <2>3 DEF NoneLeftOut
<1>5. RowsStay'
  <2>1. ASSUME NEW g \in Handlers, job'[g].pc \in {"item", "end"}
        PROVE  IdsOf(job'[g].base) \subseteq IdsOf(rows')
    <3>1. job'[g] = job[g]
      BY <1>1, <2>1
    <3> QED BY <1>1, <2>1, <3>1 DEF RowsStay
  <2> QED BY <2>1 DEF RowsStay, IdsOf
<1> QED BY <1>3, <1>4, <1>5

LEMMA AlwaysMirrored ==
  ASSUME Alone PROVE Spec => []Mirrored
<1>1. Init => Mirrored
  <2> SUFFICES ASSUME Init PROVE Mirrored
    OBVIOUS
  <2>1. staging = {} /\ \A h \in Handlers : job[h].pc = "done" /\ job[h].op = "idle"
    BY DEF Init, Idle, Started
  <2> QED BY <2>1 DEF Mirrored, AllRight, NoneLeftOut, RowsStay, Prechecks
<1>2. TypeOK /\ Exclusive /\ Sound /\ Mirrored /\ [Next]_vars => Mirrored'
  <2> SUFFICES ASSUME TypeOK, Exclusive, Sound, Mirrored, [Next]_vars, Undisturbed'
               PROVE  AllRight' /\ NoneLeftOut' /\ RowsStay'
    BY DEF Mirrored
  <2>1. /\ Undisturbed /\ ini' = ini /\ Present' = Present
        /\ ~Fault /\ ~Crash /\ ~Elsewhere /\ \A h \in Handlers : ~CallFails(h)
    BY UndisturbedBefore
  <2>2. AllRight /\ NoneLeftOut /\ RowsStay /\ changes' = changes
    BY <2>1 DEF Mirrored, Undisturbed
  <2>3. CASE UNCHANGED vars
    <3>1. UNCHANGED <<ini, rows, staging, job>>
      BY <2>3 DEF vars, table
    <3> QED BY <2>2, <3>1 DEF AllRight, NoneLeftOut, RowsStay, Right, IsPlanned, Prechecks,
            Present, ItemPaths, StagedPaths, InBatch, StagedBy, Writing, IdsOf
  <2>4. ASSUME NEW h \in Handlers, Begin(h)
        PROVE  AllRight' /\ NoneLeftOut' /\ RowsStay'
    BY <2>1, <2>2, <2>4, BeginMirrored
  <2>5. ASSUME NEW h \in Handlers, Continue(h)
        PROVE  AllRight' /\ NoneLeftOut' /\ RowsStay'
    <3>1. AllRight'
      BY <2>1, <2>2, <2>5, RightStays
    <3>2. NoneLeftOut'
      BY <2>1, <2>2, <2>5, AllLeftOut DEF Exclusive
    <3>3. RowsStay'
      BY <2>2, <2>5, RowsStayKept
    <3> QED BY <3>1, <3>2, <3>3
  <2> QED BY <2>1, <2>3, <2>4, <2>5 DEF Next
<1> QED BY <1>1, <1>2, AlwaysType, AlwaysExclusive, AlwaysSound, PTL DEF Spec

\* The row a COMMIT leaves for each file.
LEMMA CommitMirrors ==
  ASSUME TypeOK, Sound, Mirrored, [Next]_vars, NEW h \in Handlers,
         job[h].pc = "end", job'[h] = Idle, staging' # staging, Undisturbed,
         NEW p \in Paths, ini[p] # None
  PROVE  \E r \in rows' : r.path = p /\ ini[p] = {r.name}
<1>1. CommitEnd(h) /\ rows' = Imported(job[h])
  <2>1. job[h].op = "commit" /\ Idle.op = "idle" /\ Idle.pc = "done"
    BY JobType DEF Idle, Started
  <2>2. ~(UNCHANGED vars) /\ ~Elsewhere /\ ~Crash
    BY <2>1 DEF vars, Elsewhere, Crash
  <2>3. \A g \in Handlers : ~Begin(g)
    BY <2>1, BeginStarts
  <2>4. \A g \in Handlers \ {h} : ~Continue(g)
    BY <2>1, ContinueGoesOn DEF Onward
  <2>5. Continue(h)
    BY <2>2, <2>3, <2>4 DEF Next
  <2>6. CommitEnd(h)
    BY <2>5 DEF Continue, DeleteExpired, Clear, Scan, Plan, Insert, ShowLatest, CommitRead,
       CommitItem, CallFails, At
  <2> QED BY <2>6 DEF CommitEnd
<1>2. AllRight /\ NoneLeftOut /\ RowsStay
  BY DEF Mirrored
<1>3. PICK s \in job[h].read : s.item.path = p
  BY <1>2 DEF NoneLeftOut, Present
<1>4. IsPlanned(s.item)
  BY JobType DEF Locals, Planned, IsPlanned
<1>5. ini[p] = {s.item.name}
  BY <1>2, <1>3, <1>4 DEF AllRight, Right
<1>6. ~(Target(job[h], s) # {} /\ IdsOf(Target(job[h], s)) \cap IdsOf(rows) = {})
  <2>1. IdsOf(Target(job[h], s)) \subseteq IdsOf(job[h].base)
    BY DEF IdsOf, Target
  <2>2. IdsOf(job[h].base) \subseteq IdsOf(rows)
    BY <1>2 DEF RowsStay
  <2>3. Target(job[h], s) # {} => IdsOf(Target(job[h], s)) # {}
    BY DEF IdsOf
  <2> QED BY <2>1, <2>2, <2>3
<1>7. PICK r \in Imported(job[h]) : r.path = s.item.path /\ r.name = s.item.name
  BY <1>6, ImportedWhole
<1> QED BY <1>1, <1>3, <1>5, <1>7

\* What the import is for: where no call failed and nothing else changed the
\* host or the table, a COMMIT that succeeds leaves each .ini with a row of its
\* own that has the program the file declares, whatever the table held before
\* and whatever PRECHECKs and COMMITs came before or run next to it.
THEOREM HostMirrored ==
  ASSUME Alone PROVE Spec => ImportMirrorsHost
<1> DEFINE Done(h) == /\ job[h].pc = "end" /\ job'[h] = Idle
                      /\ staging' # staging /\ faults = 0 /\ changes = 0
           Mirrors(h) == Done(h) => \A p \in Paths : ini[p] # None =>
                           \E r \in rows' : r.path = p /\ ini[p] = {r.name}
<1>1. TypeOK /\ Sound /\ Mirrored /\ [Next]_vars => [\A h \in Handlers : Mirrors(h)]_vars
  BY CommitMirrors DEF Undisturbed
<1> QED BY <1>1, AlwaysType, AlwaysSound, AlwaysMirrored, PTL DEF Spec, ImportMirrorsHost
=============================================================================
