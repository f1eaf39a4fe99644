------------------------ MODULE ImportStaging_proofs ------------------------
(***************************************************************************)
(* Proofs about ImportStaging, for every set of handlers, operators, files *)
(* and programs and every value of the bounds.                             *)
(***************************************************************************)
EXTENDS ImportStaging, FiniteSetTheorems, TLAPS

\* The staged rows, and those a COMMIT read, can be counted.
Counted == IsFiniteSet(staging) /\ \A h \in Handlers : IsFiniteSet(job[h].read)

-----------------------------------------------------------------------------
(***************************************************************************)
(* The handlers.                                                           *)
(***************************************************************************)
LEMMA IdleJob == Idle \in Job
BY BoundsAssumption DEF Idle, Started, Job, Locals, Steps

\* What a handler holds at its call.
LEMMA JobType ==
  ASSUME TypeOK, NEW h \in Handlers
  PROVE  /\ job[h] \in Job /\ job[h] \in Locals
         /\ job[h].op # "idle" => job[h].who \in Operators
         /\ job[h].op \in {"precheck", "commit"} => job[h].batch \in Batches
         /\ job[h].pc \in {"clear", "scan", "plan", "insert"} => job[h].op = "precheck"
         /\ job[h].pc = "expire" => job[h].op \in {"precheck", "load"}
         /\ job[h].pc = "latest" => job[h].op = "load"
         /\ job[h].pc \in {"read", "item", "end"} => job[h].op = "commit"
         /\ job[h].pc = "done" <=> job[h].op = "idle"
<1>1. job[h] \in Job /\ job[h] \in Locals
  BY DEF TypeOK, Job
<1>2. /\ job[h].op \in {"precheck", "commit", "load", "idle"}
      /\ job[h].pc \in Steps[job[h].op]
  BY <1>1 DEF Job, Locals, Steps
<1>3. job[h].who \in Operators \cup {None} /\ job[h].batch \in 0..MaxBatches
  BY <1>1 DEF Locals
<1>4. /\ job[h].op # "idle" => job[h].who \in Operators
      /\ job[h].op \in {"precheck", "commit"} => job[h].batch \in Batches
  BY <1>1, <1>3, BoundsAssumption DEF Job, Batches
<1> QED BY <1>1, <1>2, <1>4 DEF Steps

LEMMA GotoType ==
  ASSUME TypeOK, NEW h \in Handlers, NEW k \in Job, Goto(h, k)
  PROVE  /\ job' \in [Handlers -> Job]
         /\ job'[h] = k
         /\ \A g \in Handlers \ {h} : job'[g] = job[g]
BY DEF TypeOK, Goto

\* A handler moves on to another call of its operation.
LEMMA StepType ==
  ASSUME TypeOK, NEW h \in Handlers, NEW s \in Steps[job[h].op],
         s \notin {"plan", "insert", "item"}
  PROVE  [job[h] EXCEPT !.pc = s] \in Job
<1> DEFINE k == [job[h] EXCEPT !.pc = s]
<1>1. job[h] \in Job /\ job[h] \in Locals
  BY JobType
<1>2. s \in UNION {Steps[o] : o \in DOMAIN Steps}
  BY <1>1 DEF Locals
<1>3. k \in Locals
  BY <1>1, <1>2 DEF Locals
<1>4. k.pc = s /\ k.op = job[h].op /\ k.who = job[h].who /\ k.batch = job[h].batch
  BY <1>1 DEF Locals
<1> HIDE DEF k
<1>5. k \in Job
  BY <1>1, <1>3, <1>4 DEF Job
<1> QED BY <1>5 DEF k

LEMMA FaultType ==
  ASSUME TypeOK, Fault
  PROVE  faults' \in 0..MaxFaults
BY BoundsAssumption DEF TypeOK, Fault

-----------------------------------------------------------------------------
(***************************************************************************)
(* Type correctness.                                                       *)
(***************************************************************************)
LEMMA InitType == Init => TypeOK /\ Counted
<1> SUFFICES ASSUME Init PROVE TypeOK /\ Counted
  OBVIOUS
<1>1. nextId \in Nat \ {0}
  BY FS_CardinalityType, SetsAssumption DEF Init
<1>2. rows \in SUBSET Row
  BY <1>1 DEF Init, Row
<1>3. job \in [Handlers -> Job] /\ \A h \in Handlers : job[h].read = {}
  BY IdleJob DEF Init, Idle, Started
<1>4. Counted
  BY <1>3, FS_EmptySet DEF Counted, Init
<1>5. nextBatch \in 1..(MaxBatches + 1) /\ faults \in 0..MaxFaults /\ changes \in 0..MaxChanges
  BY BoundsAssumption DEF Init
<1> QED BY <1>1, <1>2, <1>3, <1>4, <1>5 DEF Init, TypeOK

LEMMA BeginType ==
  ASSUME TypeOK, Counted, NEW h \in Handlers, Begin(h)
  PROVE  TypeOK' /\ Counted'
<1>1. PICK op \in {"precheck", "commit", "load"}, pc \in {"expire", "read"},
           o \in Operators, b \in 0..MaxBatches :
        /\ op = "commit" => pc = "read"
        /\ op # "commit" => pc = "expire"
        /\ op # "load" => b # 0
        /\ Accept(h, Started(op, pc, o, b))
        /\ nextBatch' \in 1..(MaxBatches + 1)
  <2>1. CASE BeginPrecheck(h)
    <3>1. PICK o \in Operators : /\ nextBatch \in Batches
                                 /\ Accept(h, Started("precheck", "expire", o, nextBatch))
                                 /\ nextBatch' = nextBatch + 1
      BY <2>1 DEF BeginPrecheck
    <3>2. nextBatch \in 0..MaxBatches /\ nextBatch # 0 /\ nextBatch + 1 \in 1..(MaxBatches + 1)
      BY <3>1, BoundsAssumption DEF Batches
    <3> QED BY <3>1, <3>2
  <2>2. CASE BeginCommit(h)
    <3>1. PICK o \in Operators : \E b \in known[o] :
            Accept(h, Started("commit", "read", o, b)) /\ UNCHANGED nextBatch
      BY <2>2 DEF BeginCommit
    <3>2. known[o] \subseteq Batches
      BY DEF TypeOK
    <3>3. PICK b \in Batches :
            Accept(h, Started("commit", "read", o, b)) /\ UNCHANGED nextBatch
      BY <3>1, <3>2
    <3>4. b \in 0..MaxBatches /\ b # 0
      BY BoundsAssumption DEF Batches
    <3> QED BY <3>3, <3>4 DEF TypeOK
  <2>3. CASE BeginLoad(h)
    <3>1. 0 \in 0..MaxBatches
      BY BoundsAssumption
    <3> QED BY <2>3, <3>1 DEF BeginLoad, TypeOK
  <2> QED BY <2>1, <2>2, <2>3 DEF Begin
<1> DEFINE k == Started(op, pc, o, b)
<1>2. k \in Job /\ k.read = {}
  BY <1>1, NoneAssumption DEF Started, Job, Locals, Steps
<1>3. Goto(h, k) /\ UNCHANGED <<ini, table, staging, known, skipped, faults, changes>>
  BY <1>1 DEF Accept
<1> HIDE DEF k
<1>4. /\ job' \in [Handlers -> Job]
      /\ \A g \in Handlers : IsFiniteSet(job'[g].read)
  BY <1>2, <1>3, GotoType, FS_EmptySet DEF Counted
<1> QED BY <1>1, <1>3, <1>4 DEF TypeOK, Counted, table

\* A request ends; what it read is forgotten.
LEMMA EndType ==
  ASSUME TypeOK, Counted, NEW h \in Handlers, End(h)
  PROVE  /\ job' \in [Handlers -> Job]
         /\ \A g \in Handlers : IsFiniteSet(job'[g].read)
<1>1. Idle \in Job /\ Idle.read = {}
  BY IdleJob DEF Idle, Started
<1>2. Goto(h, Idle)
  BY DEF End
<1> HIDE DEF Idle
<1> QED BY <1>1, <1>2, GotoType, FS_EmptySet DEF Counted

\* A handler goes on with what it read before.
LEMMA KeepType ==
  ASSUME TypeOK, Counted, NEW h \in Handlers, NEW k \in Job, Goto(h, k),
         k.read = job[h].read
  PROVE  /\ job' \in [Handlers -> Job]
         /\ \A g \in Handlers : IsFiniteSet(job'[g].read)
BY GotoType DEF Counted

LEMMA ExpireType ==
  ASSUME TypeOK, Counted, NEW h \in Handlers, DeleteExpired(h)
  PROVE  TypeOK' /\ Counted'
<1> DEFINE k == [job[h] EXCEPT !.pc = IF job[h].op = "load" THEN "latest" ELSE "clear"]
<1>1. k \in Job /\ k.read = job[h].read
  <2>1. (IF job[h].op = "load" THEN "latest" ELSE "clear") \in Steps[job[h].op]
    BY JobType DEF DeleteExpired, At, Steps
  <2> QED BY <2>1, StepType, JobType DEF Locals
<1>2. Goto(h, k)
  BY DEF DeleteExpired
<1> HIDE DEF k
<1>3. /\ job' \in [Handlers -> Job]
      /\ \A g \in Handlers : IsFiniteSet(job'[g].read)
  BY <1>1, <1>2, KeepType
<1>4. staging' \subseteq staging /\ changes' \in 0..MaxChanges
  BY BoundsAssumption DEF DeleteExpired, TypeOK
<1>5. IsFiniteSet(staging')
  BY <1>4, FS_Subset DEF Counted
<1> QED BY <1>3, <1>4, <1>5 DEF DeleteExpired, TypeOK, Counted, table, clients

LEMMA ClearType ==
  ASSUME TypeOK, Counted, NEW h \in Handlers, Clear(h)
  PROVE  TypeOK' /\ Counted'
<1> DEFINE k == [job[h] EXCEPT !.pc = "scan"]
<1>1. k \in Job /\ k.read = job[h].read
  <2>1. "scan" \in Steps[job[h].op]
    BY JobType DEF Clear, At, Steps
  <2> QED BY <2>1, StepType, JobType DEF Locals
<1>2. Goto(h, k)
  BY DEF Clear
<1> HIDE DEF k
<1>3. /\ job' \in [Handlers -> Job]
      /\ \A g \in Handlers : IsFiniteSet(job'[g].read)
  BY <1>1, <1>2, KeepType
<1>4. staging' \subseteq staging
  BY DEF Clear
<1>5. IsFiniteSet(staging')
  BY <1>4, FS_Subset DEF Counted
<1> QED BY <1>3, <1>4, <1>5 DEF Clear, TypeOK, Counted, table, clients

LEMMA ScanType ==
  ASSUME TypeOK, Counted, NEW h \in Handlers, Scan(h)
  PROVE  TypeOK' /\ Counted'
<1>1. /\ job' \in [Handlers -> Job]
      /\ \A g \in Handlers : IsFiniteSet(job'[g].read)
  <2>1. CASE Present = {}
    BY <2>1, EndType DEF Scan
  <2>2. CASE Present # {}
    <3> DEFINE k == [job[h] EXCEPT !.pc = "plan", !.todo = Present]
    <3>1. job[h] \in Job /\ job[h] \in Locals /\ job[h].op = "precheck" /\ Present \in SUBSET Paths
      BY JobType DEF Scan, At, Present
    <3>2. "plan" \in Steps["precheck"] /\ "plan" \in UNION {Steps[o] : o \in DOMAIN Steps}
      BY DEF Steps
    <3>3. /\ k \in Locals
          /\ k.read = job[h].read /\ k.pc = "plan" /\ k.todo = Present /\ k.op = "precheck"
          /\ k.who = job[h].who /\ k.batch = job[h].batch
      BY <3>1, <3>2 DEF Locals
    <3>4. Goto(h, k)
      BY <2>2 DEF Scan
    <3> HIDE DEF k
    <3>5. k \in Job
      BY <2>2, <3>1, <3>2, <3>3 DEF Job
    <3> QED BY <3>3, <3>4, <3>5, KeepType
  <2> QED BY <2>1, <2>2
<1>2. fresh' \in SUBSET Batches
  BY JobType DEF Scan, At, TypeOK
<1> QED BY <1>1, <1>2 DEF Scan, TypeOK, Counted, clients

LEMMA ItemType ==
  ASSUME NEW p \in Paths
  PROVE  /\ Unreadable(p) \in Item
         /\ \A n \in Names : \A items : ItemsFor(p, n, items) \subseteq Item
<1>1. Unreadable(p) \in Item
  BY DEF Unreadable, Item, Results
<1>2. ASSUME NEW n \in Names, NEW items, NEW it \in ItemsFor(p, n, items)
      PROVE  it \in Item
  BY NoneAssumption DEF ItemsFor, Item, Results
<1> QED BY <1>1, <1>2

\* A PRECHECK at its next path, or with its first item to stage.
LEMMA PlannedJob ==
  ASSUME TypeOK, NEW h \in Handlers, At(h, "plan"),
         NEW p \in job[h].todo, NEW it \in Item
  PROVE  LET k == WithItem(job[h], p, it)
         IN  /\ k \in Locals /\ k.items = Append(job[h].items, it) /\ k.todo = job[h].todo \ {p}
             /\ k.todo # {} => k \in Job
             /\ k.todo = {} => [k EXCEPT !.pc = "insert"] \in Job
             /\ k.read = job[h].read
<1> DEFINE k == WithItem(job[h], p, it)
           l == [k EXCEPT !.pc = "insert"]
<1>1. job[h] \in Job /\ job[h] \in Locals /\ job[h].op = "precheck"
  BY JobType DEF At
<1>2. job[h].items \in Seq(Item) /\ job[h].todo \in SUBSET Paths
  BY <1>1 DEF Locals
<1>3. Append(job[h].items, it) \in Seq(Item) /\ Append(job[h].items, it) # <<>>
  BY <1>2
<1>4. "insert" \in Steps["precheck"] /\ "insert" \in UNION {Steps[o] : o \in DOMAIN Steps}
  BY DEF Steps
<1>5. /\ k \in Locals
      /\ k.items = Append(job[h].items, it) /\ k.todo = job[h].todo \ {p}
      /\ k.read = job[h].read /\ k.op = "precheck" /\ k.pc = "plan"
      /\ k.who = job[h].who /\ k.batch = job[h].batch
  BY <1>1, <1>2, <1>3 DEF Locals, At, WithItem
<1>6. k.todo # {} => k \in Job
  <2> HIDE DEF k
  <2> QED BY <1>1, <1>5 DEF Job, At
<1>7. l \in Job
  <2> HIDE DEF k
  <2>1. /\ l \in Locals
        /\ l.items = k.items /\ l.todo = k.todo /\ l.op = k.op /\ l.pc = "insert"
        /\ l.who = k.who /\ l.batch = k.batch
    BY <1>4, <1>5 DEF Locals
  <2> HIDE DEF l
  <2> QED BY <1>1, <1>3, <1>4, <1>5, <2>1 DEF Job, At
<1> QED BY <1>5, <1>6, <1>7

LEMMA PlanType ==
  ASSUME TypeOK, Counted, NEW h \in Handlers, Plan(h)
  PROVE  TypeOK' /\ Counted'
<1>0. At(h, "plan") /\ job[h].todo \subseteq Paths /\ job[h].batch \in Batches
  BY JobType DEF Plan, At, Locals
<1>1. PICK p \in job[h].todo, it \in Item : PlanItem(h, p, it) /\ (UNCHANGED faults \/ Fault)
  <2>1. PICK p \in job[h].todo :
          \/ /\ \E n \in Parsed(p) : \E it \in ItemsFor(p, n, job[h].items) : PlanItem(h, p, it)
             /\ UNCHANGED faults
          \/ Parsed(p) = {} /\ PlanItem(h, p, Unreadable(p)) /\ UNCHANGED faults
          \/ Fault /\ PlanItem(h, p, Unreadable(p))
    BY DEF Plan
  <2>2. p \in Paths /\ Parsed(p) \subseteq Names
    BY <1>0 DEF Parsed
  <2> QED BY <2>1, <2>2, ItemType
<1> DEFINE k == WithItem(job[h], p, it)
           l == [k EXCEPT !.pc = "insert"]
<1>2. /\ k.todo # {} => k \in Job
      /\ k.todo = {} => l \in Job
      /\ k.read = job[h].read /\ k \in Locals
  BY <1>0, <1>1, PlannedJob
<1>3. IF k.todo # {}
      THEN Goto(h, k) /\ UNCHANGED skipped
      ELSE /\ Goto(h, l)
           /\ skipped' = IF SkippedOne(k.items) THEN skipped \cup {job[h].batch} ELSE skipped
  BY <1>1 DEF PlanItem
<1>4. l.read = k.read
  BY <1>2 DEF Locals
<1> HIDE DEF k, l
<1>5. /\ job' \in [Handlers -> Job]
      /\ \A g \in Handlers : IsFiniteSet(job'[g].read)
  <2>1. CASE k.todo # {}
    BY <1>2, <1>3, <2>1, KeepType
  <2>2. CASE k.todo = {}
    BY <1>2, <1>3, <1>4, <2>2, KeepType
  <2> QED BY <2>1, <2>2
<1>6. skipped' \in SUBSET Batches /\ faults' \in 0..MaxFaults
  BY <1>0, <1>1, <1>3, FaultType DEF TypeOK
<1> QED BY <1>5, <1>6 DEF Plan, TypeOK, Counted, table

LEMMA InsertType ==
  ASSUME TypeOK, Counted, NEW h \in Handlers, Insert(h)
  PROVE  TypeOK' /\ Counted'
<1>1. /\ job[h] \in Job /\ job[h] \in Locals /\ job[h].op = "precheck" /\ job[h].pc = "insert"
      /\ job[h].who \in Operators /\ job[h].batch \in Batches
  BY JobType DEF Insert, At
<1>2. job[h].items \in Seq(Item) /\ job[h].items # <<>>
  BY <1>1 DEF Locals, Job
<1>3. Head(job[h].items) \in Item /\ Tail(job[h].items) \in Seq(Item)
  BY <1>2
<1>4. PICK i \in StagedIds :
        staging' = staging \cup {[id |-> i, batch |-> job[h].batch, by |-> job[h].who,
                                  item |-> Head(job[h].items)]}
  BY DEF Insert
<1>5. staging' \in SUBSET Staged /\ IsFiniteSet(staging')
  <2>1. [id |-> i, batch |-> job[h].batch, by |-> job[h].who, item |-> Head(job[h].items)] \in Staged
    BY <1>1, <1>3, <1>4 DEF Staged
  <2> QED BY <1>4, <2>1, FS_AddElement DEF TypeOK, Counted
<1>6. /\ job' \in [Handlers -> Job]
      /\ \A g \in Handlers : IsFiniteSet(job'[g].read)
  <2>1. CASE Tail(job[h].items) = <<>>
    BY <2>1, EndType DEF Insert
  <2>2. CASE Tail(job[h].items) # <<>>
    <3> DEFINE k == [job[h] EXCEPT !.items = Tail(@)]
    <3>1. /\ k \in Locals
          /\ k.items = Tail(job[h].items) /\ k.op = "precheck" /\ k.pc = "insert"
          /\ k.who = job[h].who /\ k.batch = job[h].batch /\ k.read = job[h].read
      BY <1>1, <1>2, <1>3 DEF Locals
    <3>2. Goto(h, k)
      BY <2>2 DEF Insert
    <3> HIDE DEF k
    <3>3. k \in Job
      BY <1>1, <2>2, <3>1 DEF Job
    <3> QED BY <3>1, <3>2, <3>3, KeepType
  <2> QED BY <2>1, <2>2
<1>7. known' \in [Operators -> SUBSET Batches] /\ faults' \in 0..MaxFaults
  <2>1. \/ UNCHANGED <<known, faults>>
        \/ known' = [known EXCEPT ![job[h].who] = @ \cup {job[h].batch}] /\ UNCHANGED faults
        \/ Fault /\ UNCHANGED known
    BY DEF Insert
  <2> QED BY <1>1, <2>1, FaultType DEF TypeOK
<1> QED BY <1>5, <1>6, <1>7 DEF Insert, TypeOK, Counted, table

LEMMA LatestType ==
  ASSUME TypeOK, Counted, NEW h \in Handlers, ShowLatest(h)
  PROVE  TypeOK' /\ Counted'
<1>1. /\ job' \in [Handlers -> Job]
      /\ \A g \in Handlers : IsFiniteSet(job'[g].read)
  BY EndType DEF ShowLatest
<1>2. \/ UNCHANGED known
      \/ \E s \in staging : known' = [known EXCEPT ![job[h].who] = @ \cup {s.batch}]
  BY DEF ShowLatest, StagedBy
<1>3. known' \in [Operators -> SUBSET Batches]
  <2>1. \A s \in staging : s.batch \in Batches
    BY DEF TypeOK, Staged
  <2> QED BY <1>2, <2>1 DEF TypeOK
<1> QED BY <1>1, <1>3 DEF ShowLatest, TypeOK, Counted, table

LEMMA ReadType ==
  ASSUME TypeOK, Counted, NEW h \in Handlers, CommitRead(h)
  PROVE  TypeOK' /\ Counted'
<1> DEFINE S == InBatch(job[h].batch, job[h].who)
           k == [job[h] EXCEPT !.pc = "item", !.read = S, !.left = S, !.base = rows]
<1>1. /\ job' \in [Handlers -> Job]
      /\ \A g \in Handlers : IsFiniteSet(job'[g].read)
  <2>1. CASE Refused(S)
    BY <2>1, EndType DEF CommitRead
  <2>2. CASE ~Refused(S)
    <3>1. /\ job[h] \in Job /\ job[h] \in Locals /\ job[h].op = "commit"
          /\ "item" \in Steps["commit"] /\ "item" \in UNION {Steps[o] : o \in DOMAIN Steps}
      BY JobType DEF CommitRead, At, Steps
    <3>2. S \in SUBSET Planned /\ S # {} /\ rows \in SUBSET Row /\ S \subseteq staging
      <4>1. S \subseteq staging /\ staging \subseteq Staged /\ rows \in SUBSET Row
        BY DEF InBatch, StagedBy, TypeOK
      <4>2. S # {} /\ \A s \in S : s.item.result # "SKIPPED"
        BY <2>2 DEF Refused, Skipped
      <4>3. \A s \in Staged : s.item.result \in {"PLANNED", "SKIPPED"}
        BY DEF Staged, Item, Results
      <4> QED BY <4>1, <4>2, <4>3 DEF Planned
    <3>3. IsFiniteSet(S)
      BY <3>2, FS_Subset DEF Counted
    <3>4. Goto(h, k)
      BY <2>2 DEF CommitRead
    <3> HIDE DEF S
    <3>5. /\ k \in Locals
          /\ k.read = S /\ k.left = S /\ k.pc = "item" /\ k.op = "commit"
          /\ k.who = job[h].who /\ k.batch = job[h].batch
      BY <3>1, <3>2 DEF Locals
    <3> HIDE DEF k
    <3>6. k \in Job
      BY <3>1, <3>2, <3>5 DEF Job
    <3> QED BY <3>3, <3>4, <3>5, <3>6, GotoType DEF Counted
  <2> QED BY <2>1, <2>2
<1> QED BY <1>1 DEF CommitRead, TypeOK, Counted, table, clients

\* A COMMIT that has checked one of its rows.
LEMMA CheckedJob ==
  ASSUME TypeOK, NEW h \in Handlers, At(h, "item"), NEW s \in NextLeft(job[h])
  PROVE  /\ Checked(job[h], s) \in Job
         /\ Checked(job[h], s).read = job[h].read /\ Checked(job[h], s).base = job[h].base
         /\ Checked(job[h], s).op = "commit" /\ Checked(job[h], s).pc \in {"item", "end"}
         /\ Checked(job[h], s).who = job[h].who /\ Checked(job[h], s).batch = job[h].batch
<1> DEFINE k == Checked(job[h], s)
           pc == IF job[h].left = {s} THEN "end" ELSE "item"
<1>1. /\ job[h] \in Job /\ job[h] \in Locals /\ job[h].op = "commit"
      /\ pc \in Steps["commit"] /\ pc \in UNION {Steps[o] : o \in DOMAIN Steps}
  BY JobType DEF At, Steps
<1>2. s \in job[h].left /\ job[h].left \subseteq Planned
  BY <1>1 DEF NextLeft, Locals
<1>3. /\ k \in Locals
      /\ k.left = job[h].left \ {s} /\ k.pc = pc /\ k.op = "commit"
      /\ k.who = job[h].who /\ k.batch = job[h].batch
      /\ k.read = job[h].read /\ k.base = job[h].base
  BY <1>1, <1>2 DEF Locals, Checked
<1>4. pc = "item" => k.left # {}
  BY <1>2, <1>3
<1> HIDE DEF k
<1>5. k \in Job
  BY <1>1, <1>3, <1>4 DEF Job
<1> QED BY <1>3, <1>5 DEF k

LEMMA ItemStepType ==
  ASSUME TypeOK, Counted, NEW h \in Handlers, CommitItem(h)
  PROVE  TypeOK' /\ Counted'
<1>1. At(h, "item")
  BY DEF CommitItem
<1>2. PICK s \in NextLeft(job[h]) : Goto(h, Idle) \/ Goto(h, Checked(job[h], s))
  BY DEF CommitItem
<1>3. Checked(job[h], s) \in Job /\ Checked(job[h], s).read = job[h].read
  BY <1>1, <1>2, CheckedJob
<1>4. /\ job' \in [Handlers -> Job]
      /\ \A g \in Handlers : IsFiniteSet(job'[g].read)
  BY <1>2, <1>3, EndType, KeepType DEF End
<1> QED BY <1>4 DEF CommitItem, TypeOK, Counted, table, clients

\* What a COMMIT writes are rows, and ids above those in use.
LEMMA ImportedType ==
  ASSUME TypeOK, Counted, NEW h \in Handlers
  PROVE  /\ Imported(job[h]) \in SUBSET Row
         /\ Cardinality(Inserts(job[h])) \in Nat
<1> DEFINE j == job[h]
           Id(s) == nextId + Cardinality({t \in Inserts(j) : t.id < s.id})
<1>1. j.read \subseteq Planned /\ j.base \subseteq Row /\ IsFiniteSet(j.read)
  BY JobType DEF Locals, Counted
<1> HIDE DEF j
<1>2. Inserts(j) \subseteq j.read /\ \A s \in j.read : {t \in Inserts(j) : t.id < s.id} \subseteq j.read
  BY DEF Inserts
<1>3. Cardinality(Inserts(j)) \in Nat /\ \A s \in j.read : Id(s) \in Nat \ {0}
  <2>1. Cardinality(Inserts(j)) \in Nat
    BY <1>1, <1>2, FS_Subset, FS_CardinalityType
  <2>2. ASSUME NEW s \in j.read PROVE Cardinality({t \in Inserts(j) : t.id < s.id}) \in Nat
    BY <1>1, <1>2, FS_Subset, FS_CardinalityType
  <2> QED BY <2>1, <2>2 DEF TypeOK
<1>4. Untouched(j) \subseteq Row
  BY DEF TypeOK, Untouched
<1>5. \A s \in j.read, i \in Nat \ {0} : Written(s, i) \in Row
  BY <1>1 DEF Planned, Staged, Item, Row, Written
<1>6. \A s \in j.read : {Written(s, r.id) : r \in Target(j, s)} \subseteq Row
  <2>1. \A s \in j.read : \A r \in Target(j, s) : r.id \in Nat \ {0}
    BY <1>1 DEF Target, Row
  <2> QED BY <1>5, <2>1
<1>7. Overwritten(j) \subseteq Row
  BY <1>6 DEF Overwritten
<1>8. Created(j) \subseteq Row
  BY <1>2, <1>3, <1>5 DEF Created
<1>9. Imported(j) \subseteq Row
  BY <1>4, <1>7, <1>8 DEF Imported
<1> QED BY <1>3, <1>9 DEF j

LEMMA EndStepType ==
  ASSUME TypeOK, Counted, NEW h \in Handlers, CommitEnd(h)
  PROVE  TypeOK' /\ Counted'
<1>1. /\ job' \in [Handlers -> Job]
      /\ \A g \in Handlers : IsFiniteSet(job'[g].read)
  BY EndType DEF CommitEnd
<1>2. rows' \in SUBSET Row /\ nextId' \in Nat \ {0} /\ fresh' \in SUBSET Batches
  BY ImportedType DEF CommitEnd, TypeOK, table
<1>3. staging' \subseteq staging
  BY DEF CommitEnd
<1>4. IsFiniteSet(staging')
  BY <1>3, FS_Subset DEF Counted
<1> QED BY <1>1, <1>2, <1>3, <1>4 DEF CommitEnd, TypeOK, Counted, clients

LEMMA FaultStepType ==
  ASSUME TypeOK, Counted, Crash \/ \E h \in Handlers : CallFails(h)
  PROVE  TypeOK' /\ Counted'
<1>1. /\ job' \in [Handlers -> Job] /\ \A g \in Handlers : IsFiniteSet(job'[g].read)
      /\ faults' \in 0..MaxFaults
  <2>1. CASE Crash
    <3>1. Idle \in Job /\ Idle.read = {}
      BY IdleJob DEF Idle, Started
    <3>2. job' = [h \in Handlers |-> Idle]
      BY <2>1 DEF Crash
    <3> HIDE DEF Idle
    <3> QED BY <2>1, <3>1, <3>2, FaultType, FS_EmptySet DEF Crash
  <2>2. ASSUME NEW h \in Handlers, CallFails(h)
        PROVE  /\ job' \in [Handlers -> Job] /\ \A g \in Handlers : IsFiniteSet(job'[g].read)
               /\ faults' \in 0..MaxFaults
    BY <2>2, EndType, FaultType DEF CallFails
  <2> QED BY <2>1, <2>2
<1>2. UNCHANGED <<ini, table, staging, clients, changes>>
  BY DEF Crash, CallFails
<1> QED BY <1>1, <1>2 DEF TypeOK, Counted, table, clients

LEMMA ElsewhereType ==
  ASSUME TypeOK, Counted, Elsewhere
  PROVE  TypeOK' /\ Counted'
<1>1. changes' \in 0..MaxChanges
  BY BoundsAssumption DEF Elsewhere, TypeOK
<1>2. CASE FileChanges
  BY <1>1, <1>2 DEF Elsewhere, FileChanges, TypeOK, Counted, table, clients
<1>3. CASE TableChanges
  <2>1. rows' \in SUBSET Row /\ nextId' \in Nat \ {0}
    <3>1. CASE \E p \in Paths, n \in Names :
                 LET r == [id |-> nextId, path |-> p, name |-> n] IN
                 Fits(r, rows) /\ rows' = rows \cup {r} /\ nextId' = nextId + 1
      BY <3>1 DEF TypeOK, Row
    <3>2. CASE \E s \in rows, p \in Paths, n \in Names :
                 LET r == [s EXCEPT !.path = p, !.name = n] IN
                 Fits(r, rows \ {s}) /\ rows' = (rows \ {s}) \cup {r} /\ UNCHANGED nextId
      BY <3>2 DEF TypeOK, Row
    <3>3. CASE \E s \in rows : rows' = rows \ {s} /\ UNCHANGED nextId
      BY <3>3 DEF TypeOK
    <3> QED BY <1>3, <3>1, <3>2, <3>3 DEF TableChanges
  <2> QED BY <1>1, <1>3, <2>1 DEF Elsewhere, TableChanges, TypeOK, Counted, clients
<1> QED BY <1>2, <1>3 DEF Elsewhere

LEMMA StepsType ==
  ASSUME TypeOK, Counted, [Next]_vars
  PROVE  TypeOK' /\ Counted'
<1>1. CASE UNCHANGED vars
  BY <1>1 DEF vars, table, clients, TypeOK, Counted
<1>2. ASSUME NEW h \in Handlers, Begin(h)
      PROVE  TypeOK' /\ Counted'
  BY <1>2, BeginType
<1>3. ASSUME NEW h \in Handlers, Continue(h)
      PROVE  TypeOK' /\ Counted'
  BY <1>3, ExpireType, ClearType, ScanType, PlanType, InsertType, LatestType, ReadType,
     ItemStepType, EndStepType, FaultStepType DEF Continue
<1>4. CASE Crash \/ Elsewhere
  BY <1>4, FaultStepType, ElsewhereType
<1> QED BY <1>1, <1>2, <1>3, <1>4 DEF Next

LEMMA AlwaysType == Spec => [](TypeOK /\ Counted)
<1>1. Init => TypeOK /\ Counted
  BY InitType
<1>2. TypeOK /\ Counted /\ [Next]_vars => (TypeOK /\ Counted)'
  BY StepsType
<1> QED BY <1>1, <1>2, PTL DEF Spec

\* The type invariant of the import: among the rest, a COMMIT never holds a
\* staged row without a program name.
THEOREM TypeCorrect == Spec => []TypeOK
BY AlwaysType, PTL

-----------------------------------------------------------------------------
(***************************************************************************)
(* One batch per operator, as long as an operator waits for the answer.    *)
(***************************************************************************)

\* What a call makes of its handler: the request ends, or goes on for the same
\* operator and batch.
Onward(h) ==
  /\ \A g \in Handlers \ {h} : job'[g] = job[g]
  /\ \/ job'[h] = Idle
     \/ /\ job'[h].op = job[h].op
        /\ job'[h].who = job[h].who
        /\ job'[h].batch = job[h].batch
        /\ <<job[h].pc, job'[h].pc>> \in
             {<<"expire", "clear">>, <<"expire", "latest">>, <<"clear", "scan">>,
              <<"scan", "plan">>, <<"plan", "plan">>, <<"plan", "insert">>,
              <<"insert", "insert">>, <<"read", "item">>, <<"item", "item">>,
              <<"item", "end">>}

LEMMA OnwardTo ==
  ASSUME TypeOK, NEW h \in Handlers, NEW k \in Locals, Goto(h, k),
         k.op = job[h].op, k.who = job[h].who, k.batch = job[h].batch,
         <<job[h].pc, k.pc>> \in
             {<<"expire", "clear">>, <<"expire", "latest">>, <<"clear", "scan">>,
              <<"scan", "plan">>, <<"plan", "plan">>, <<"plan", "insert">>,
              <<"insert", "insert">>, <<"read", "item">>, <<"item", "item">>,
              <<"item", "end">>}
  PROVE  Onward(h)
BY DEF Goto, TypeOK, Onward

LEMMA OnwardEnds ==
  ASSUME TypeOK, NEW h \in Handlers, End(h)
  PROVE  Onward(h)
BY DEF End, Goto, TypeOK, Onward

LEMMA ContinueGoesOn ==
  ASSUME TypeOK, NEW h \in Handlers, Continue(h)
  PROVE  Onward(h)
<1>0. job[h] \in Locals
  BY JobType
<1>1. CASE DeleteExpired(h)
  <2> DEFINE k == [job[h] EXCEPT !.pc = IF job[h].op = "load" THEN "latest" ELSE "clear"]
  <2>1. Goto(h, k) /\ job[h].pc = "expire"
    BY <1>1 DEF DeleteExpired, At
  <2>2. {"latest", "clear"} \subseteq UNION {Steps[o] : o \in DOMAIN Steps}
    BY DEF Steps
  <2>3. k \in Locals /\ k.op = job[h].op /\ k.who = job[h].who /\ k.batch = job[h].batch
        /\ k.pc \in {"latest", "clear"}
    BY <1>0, <2>2 DEF Locals
  <2> QED BY <2>1, <2>3, OnwardTo
<1>2. CASE Clear(h)
  <2> DEFINE k == [job[h] EXCEPT !.pc = "scan"]
  <2>1. Goto(h, k) /\ job[h].pc = "clear"
    BY <1>2 DEF Clear, At
  <2>2. "scan" \in UNION {Steps[o] : o \in DOMAIN Steps}
    BY DEF Steps
  <2>3. k \in Locals /\ k.op = job[h].op /\ k.who = job[h].who /\ k.batch = job[h].batch
        /\ k.pc = "scan"
    BY <1>0, <2>2 DEF Locals
  <2> QED BY <2>1, <2>3, OnwardTo
<1>3. CASE Scan(h) /\ Present # {}
  <2> DEFINE k == [job[h] EXCEPT !.pc = "plan", !.todo = Present]
  <2>1. Goto(h, k) /\ job[h].pc = "scan"
    BY <1>3 DEF Scan, At
  <2>2. "plan" \in UNION {Steps[o] : o \in DOMAIN Steps} /\ Present \in SUBSET Paths
    BY DEF Steps, Present
  <2>3. k \in Locals /\ k.op = job[h].op /\ k.who = job[h].who /\ k.batch = job[h].batch
        /\ k.pc = "plan"
    BY <1>0, <2>2 DEF Locals
  <2> QED BY <2>1, <2>3, OnwardTo
<1>4. CASE Plan(h)
  <2>0. job[h].pc = "plan" /\ job[h].todo \subseteq Paths
    BY <1>0, <1>4 DEF Plan, At, Locals
  <2>1. PICK p \in job[h].todo, it \in Item : PlanItem(h, p, it)
    <3>1. \A p \in Paths : Parsed(p) \subseteq Names
      BY DEF Parsed
    <3> QED BY <1>4, <2>0, <3>1, ItemType DEF Plan
  <2> DEFINE k == WithItem(job[h], p, it)
             l == [k EXCEPT !.pc = "insert"]
  <2>2. k \in Locals
    BY <2>0, <2>1, PlannedJob DEF At
  <2>3. k.op = job[h].op /\ k.who = job[h].who /\ k.batch = job[h].batch /\ k.pc = "plan"
    BY <1>0, <2>0 DEF WithItem, Locals
  <2>4. Goto(h, k) \/ Goto(h, l)
    BY <2>1 DEF PlanItem
  <2>5. "insert" \in UNION {Steps[o] : o \in DOMAIN Steps}
    BY DEF Steps
  <2> HIDE DEF k
  <2>6. l \in Locals /\ l.op = k.op /\ l.who = k.who /\ l.batch = k.batch /\ l.pc = "insert"
    BY <2>2, <2>5 DEF Locals
  <2> HIDE DEF l
  <2> QED BY <2>0, <2>2, <2>3, <2>4, <2>6, OnwardTo
<1>5. CASE Insert(h) /\ Tail(job[h].items) # <<>>
  <2> DEFINE k == [job[h] EXCEPT !.items = Tail(@)]
  <2>1. Goto(h, k) /\ job[h].pc = "insert"
    BY <1>5 DEF Insert, At
  <2>2. Tail(job[h].items) \in Seq(Item)
    <3>1. job[h] \in Job /\ job[h].items \in Seq(Item)
      BY JobType DEF Locals
    <3>2. job[h].items # <<>>
      BY <2>1, <3>1 DEF Job
    <3> QED BY <3>1, <3>2
  <2>3. k \in Locals /\ k.op = job[h].op /\ k.who = job[h].who /\ k.batch = job[h].batch
        /\ k.pc = "insert"
    BY <1>0, <2>1, <2>2 DEF Locals
  <2> QED BY <2>1, <2>3, OnwardTo
<1>6. CASE CommitRead(h) /\ ~Refused(InBatch(job[h].batch, job[h].who))
  <2> DEFINE S == InBatch(job[h].batch, job[h].who)
             k == [job[h] EXCEPT !.pc = "item", !.read = S, !.left = S, !.base = rows]
  <2>1. Goto(h, k) /\ job[h].pc = "read"
    BY <1>6 DEF CommitRead, At
  <2> HIDE DEF S
  <2>2. /\ DOMAIN k = DOMAIN job[h] /\ k.op = job[h].op /\ k.who = job[h].who
        /\ k.batch = job[h].batch /\ k.pc = "item"
    BY <1>0 DEF Locals
  <2> HIDE DEF k
  <2> QED BY <2>1, <2>2 DEF Goto, TypeOK, Onward
<1>7. CASE CommitItem(h)
  <2>1. PICK s \in NextLeft(job[h]) : Goto(h, Idle) \/ Goto(h, Checked(job[h], s))
    BY <1>7 DEF CommitItem
  <2>2. /\ Checked(job[h], s) \in Locals
        /\ Checked(job[h], s).op = job[h].op /\ Checked(job[h], s).pc \in {"item", "end"}
        /\ Checked(job[h], s).who = job[h].who /\ Checked(job[h], s).batch = job[h].batch
        /\ job[h].pc = "item"
    BY <1>7, <2>1, CheckedJob, JobType DEF CommitItem, Job, At
  <2> QED BY <2>1, <2>2, OnwardTo, OnwardEnds DEF End
<1>8. CASE End(h)
  BY <1>8, OnwardEnds
<1> QED BY <1>1, <1>2, <1>3, <1>4, <1>5, <1>6, <1>7, <1>8
  DEF Continue, Scan, Insert, CommitRead, ShowLatest, CommitEnd, CallFails

\* The staging table only loses rows, but for the row a PRECHECK inserts.
LEMMA StagingMoves ==
  ASSUME NEW h \in Handlers, Continue(h)
  PROVE  \/ staging' \subseteq staging
         \/ /\ job[h].pc = "insert"
            /\ \E s \in staging' : /\ staging' = staging \cup {s}
                                 /\ s.by = job[h].who /\ s.batch = job[h].batch
<1>1. CASE Insert(h)
  <2>1. PICK i \in StagedIds :
          staging' = staging \cup {[id |-> i, batch |-> job[h].batch, by |-> job[h].who,
                                    item |-> Head(job[h].items)]}
    BY <1>1 DEF Insert
  <2> QED BY <1>1, <2>1 DEF Insert, At
<1>2. CASE ~Insert(h)
  BY <1>2 DEF Continue, DeleteExpired, Clear, Scan, Plan, PlanItem, ShowLatest, CommitRead,
             CommitItem, CommitEnd, CallFails
<1> QED BY <1>1, <1>2

\* No two requests of one operator are in flight.
OneRequest == \A g, h \in Handlers :
                g # h /\ job[g].who = job[h].who => job[h].who = None

\* After its Clear, a PRECHECK finds no row of its operator but its own.
OwnRows == \A h \in Handlers : job[h].pc \in {"scan", "plan", "insert"} =>
             \A s \in staging : s.by = job[h].who => s.batch = job[h].batch

Exclusive == OneRequest /\ OwnRows /\ OneBatch

LEMMA BeginExclusive ==
  ASSUME Alone, TypeOK, Exclusive, NEW h \in Handlers, Begin(h)
  PROVE  Exclusive'
<1>1. PICK o \in Operators, op \in {"precheck", "commit", "load"}, pc \in {"expire", "read"},
           b \in Nat :
        Accept(h, Started(op, pc, o, b))
  <2>1. CASE BeginPrecheck(h)
    BY <2>1, BoundsAssumption DEF BeginPrecheck, TypeOK
  <2>2. CASE BeginCommit(h)
    BY <2>2, BoundsAssumption DEF BeginCommit, TypeOK, Batches
  <2>3. CASE BeginLoad(h)
    BY <2>3 DEF BeginLoad
  <2> QED BY <2>1, <2>2, <2>3 DEF Begin
<1> DEFINE k == Started(op, pc, o, b)
<1>2. k.who = o /\ k.pc \notin {"scan", "plan", "insert"}
  BY <1>1 DEF Started
<1>3. \A g \in Handlers : job[g].who # o
  BY <1>1, <1>2 DEF Accept
<1>4. job'[h] = k /\ \A g \in Handlers \ {h} : job'[g] = job[g]
  BY <1>1 DEF Accept, Goto, TypeOK
<1>5. staging' = staging
  BY <1>1 DEF Accept
<1> QED BY <1>2, <1>3, <1>4, <1>5 DEF Exclusive, OneRequest, OwnRows, OneBatch

LEMMA ContinueExclusive ==
  ASSUME TypeOK, Exclusive, NEW h \in Handlers, Continue(h)
  PROVE  Exclusive'
<1>1. Onward(h)
  BY ContinueGoesOn
<1>2. job[h].who \in Operators
  BY JobType DEF Continue, Busy
<1>3. job'[h] = Idle => job'[h].who = None /\ job'[h].pc = "done"
  BY DEF Idle, Started
<1>4. OneRequest'
  BY <1>1, <1>3 DEF Onward, Exclusive, OneRequest
<1>5. \A g \in Handlers \ {h} : job[g].who # job[h].who
  BY <1>2, NoneAssumption DEF Exclusive, OneRequest
<1>6. OwnRows' /\ OneBatch'
  <2>1. CASE staging' \subseteq staging
    <3>1. job'[h].pc = "scan" => \A s \in staging' : s.by # job'[h].who
      <4>1. job'[h].pc = "scan" => job[h].pc = "clear" /\ job'[h].who = job[h].who
        BY <1>1, <1>3 DEF Onward
      <4>2. job[h].pc = "clear" /\ job'[h].pc = "scan" => Clear(h)
        <5>1. SUFFICES ASSUME job[h].pc = "clear", job'[h].pc = "scan" PROVE Clear(h)
          OBVIOUS
        <5>2. ~CallFails(h)
          BY <5>1, <1>3 DEF CallFails, End, Goto, TypeOK
        <5> QED BY <5>1, <5>2 DEF Continue, At, DeleteExpired, Scan, Plan, Insert, ShowLatest,
                   CommitRead, CommitItem, CommitEnd
      <4>3. Clear(h) => \A s \in staging' : s.by # job[h].who
        BY DEF Clear, StagedBy
      <4> QED BY <4>1, <4>2, <4>3
    <3>2. job'[h].pc \in {"plan", "insert"} =>
            /\ job[h].pc \in {"scan", "plan", "insert"}
            /\ job'[h].who = job[h].who /\ job'[h].batch = job[h].batch
      BY <1>1, <1>3 DEF Onward
    <3>3. \A g \in Handlers \ {h} : job'[g] = job[g]
      BY <1>1 DEF Onward
    <3> QED BY <2>1, <3>1, <3>2, <3>3 DEF Exclusive, OwnRows, OneBatch
  <2>2. CASE ~(staging' \subseteq staging)
    <3>1. PICK s \in staging' :
            /\ job[h].pc = "insert" /\ staging' = staging \cup {s}
            /\ s.by = job[h].who /\ s.batch = job[h].batch
      BY <2>2, StagingMoves
    <3>2. \A t \in staging : t.by = job[h].who => t.batch = job[h].batch
      BY <3>1 DEF Exclusive, OwnRows
    <3>3. OneBatch'
      BY <3>1, <3>2 DEF Exclusive, OneBatch
    <3>4. job'[h].pc \in {"scan", "plan", "insert"} =>
            job'[h].who = job[h].who /\ job'[h].batch = job[h].batch
      BY <1>1, <1>3 DEF Onward
    <3>5. ASSUME NEW g \in Handlers \ {h}, job'[g].pc \in {"scan", "plan", "insert"},
                 NEW t \in staging', t.by = job'[g].who
          PROVE  t.batch = job'[g].batch
      <4>1. job'[g] = job[g]
        BY <1>1 DEF Onward
      <4>2. t # s
        BY <1>5, <3>1, <3>5, <4>1
      <4> QED BY <3>1, <3>5, <4>1, <4>2 DEF Exclusive, OwnRows
    <3> QED BY <3>1, <3>2, <3>3, <3>4, <3>5 DEF OwnRows
  <2> QED BY <2>1, <2>2
<1> QED BY <1>4, <1>6 DEF Exclusive

LEMMA AlwaysExclusive ==
  ASSUME Alone PROVE Spec => []Exclusive
<1>1. Init => Exclusive
  <2> SUFFICES ASSUME Init PROVE Exclusive
    OBVIOUS
  <2>1. staging = {} /\ \A h \in Handlers : job[h].who = None
    BY DEF Init, Idle, Started
  <2> QED BY <2>1 DEF Exclusive, OneRequest, OwnRows, OneBatch
<1>2. TypeOK /\ Exclusive /\ [Next]_vars => Exclusive'
  <2> SUFFICES ASSUME TypeOK, Exclusive, [Next]_vars PROVE Exclusive'
    OBVIOUS
  <2>1. CASE UNCHANGED vars
    BY <2>1 DEF vars, Exclusive, OneRequest, OwnRows, OneBatch
  <2>2. ASSUME NEW h \in Handlers, Begin(h) \/ Continue(h)
        PROVE  Exclusive'
    BY <2>2, BeginExclusive, ContinueExclusive
  <2>3. CASE Crash
    <3>1. staging' = staging /\ \A h \in Handlers : job'[h].who = None /\ job'[h].pc = "done"
      BY <2>3 DEF Crash, Idle, Started
    <3> QED BY <3>1 DEF Exclusive, OneRequest, OwnRows, OneBatch
  <2>4. CASE Elsewhere
    BY <2>4 DEF Elsewhere, Exclusive, OneRequest, OwnRows, OneBatch
  <2> QED BY <2>1, <2>2, <2>3, <2>4 DEF Next
<1> QED BY <1>1, <1>2, AlwaysType, PTL DEF Spec

\* "The same user and host keep the latest batch alone": with operators that
\* wait for an answer, whatever fails, crashes or changes elsewhere.
THEOREM OneBatchEach ==
  ASSUME Alone PROVE Spec => []OneBatch
<1>1. Exclusive => OneBatch
  BY DEF Exclusive
<1> QED BY <1>1, AlwaysExclusive, PTL

-----------------------------------------------------------------------------
(***************************************************************************)
(* A COMMIT imports its whole batch or nothing.                            *)
(***************************************************************************)

\* The unique key of the table holds, in the snapshots that COMMITs read too,
\* and no COMMIT at work has two files for one path or name.
UniquePaths(T) == \A r, s \in T : r.path = s.path => r = s

Sound == /\ UniquePaths(rows)
         /\ \A h \in Handlers : UniquePaths(job[h].base) /\ ~Ambiguous(job[h].read)

\* What a call makes of the snapshot: forgotten, kept, or just taken.
LEMMA SnapshotKept ==
  ASSUME TypeOK, NEW h \in Handlers, Continue(h)
  PROVE  LET S == InBatch(job[h].batch, job[h].who) IN
         \/ job'[h] = Idle
         \/ /\ job'[h].base = job[h].base /\ job'[h].read = job[h].read
            /\ job'[h].left \subseteq job[h].left /\ job[h].pc # "read"
         \/ /\ CommitRead(h) /\ ~Refused(S) /\ job'[h].pc = "item"
            /\ job'[h].base = rows /\ job'[h].read = S /\ job'[h].left = S
<1>0. job[h] \in Locals
  BY JobType
<1>1. ASSUME NEW k, Goto(h, k) PROVE job'[h] = k
  BY <1>1 DEF Goto, TypeOK
<1>2. CASE End(h)
  BY <1>1, <1>2 DEF End
<1>3. CASE DeleteExpired(h)
  <2>1. job'[h] = [job[h] EXCEPT !.pc = IF job[h].op = "load" THEN "latest" ELSE "clear"]
    BY <1>1, <1>3 DEF DeleteExpired
  <2> QED BY <1>0, <1>3, <2>1 DEF Locals, DeleteExpired, At
<1>4. CASE Clear(h)
  <2>1. job'[h] = [job[h] EXCEPT !.pc = "scan"]
    BY <1>1, <1>4 DEF Clear
  <2> QED BY <1>0, <1>4, <2>1 DEF Locals, Clear, At
<1>5. CASE Scan(h) /\ ~End(h)
  <2>1. job'[h] = [job[h] EXCEPT !.pc = "plan", !.todo = Present]
    BY <1>1, <1>5 DEF Scan
  <2> QED BY <1>0, <1>5, <2>1 DEF Locals, Scan, At
<1>6. CASE Plan(h)
  <2>1. PICK p \in job[h].todo, it \in Item : PlanItem(h, p, it)
    <3>1. job[h].todo \subseteq Paths /\ \A p \in Paths : Parsed(p) \subseteq Names
      BY <1>0 DEF Parsed, Locals
    <3> QED BY <1>6, <3>1, ItemType DEF Plan
  <2> DEFINE k == WithItem(job[h], p, it)
             l == [k EXCEPT !.pc = "insert"]
  <2>2. job'[h] = k \/ job'[h] = l
    BY <2>1, <1>1 DEF PlanItem
  <2>3. k.base = job[h].base /\ k.read = job[h].read /\ k.left = job[h].left
    BY <1>0 DEF WithItem, Locals
  <2>4. k \in Locals
    BY <1>6, <2>1, PlannedJob DEF Plan
  <2> HIDE DEF k
  <2>5. l.base = k.base /\ l.read = k.read /\ l.left = k.left
    BY <2>4 DEF Locals
  <2>6. job[h].pc = "plan"
    BY <1>6 DEF Plan, At
  <2> QED BY <2>2, <2>3, <2>5, <2>6
<1>7. CASE Insert(h) /\ ~End(h)
  <2>1. job'[h] = [job[h] EXCEPT !.items = Tail(@)]
    BY <1>1, <1>7 DEF Insert
  <2> QED BY <1>0, <1>7, <2>1 DEF Locals, Insert, At
<1>8. CASE CommitRead(h) /\ ~End(h)
  <2> DEFINE S == InBatch(job[h].batch, job[h].who)
  <2>1. /\ ~Refused(S)
        /\ job'[h] = [job[h] EXCEPT !.pc = "item", !.read = S, !.left = S, !.base = rows]
    BY <1>1, <1>8 DEF CommitRead
  <2> HIDE DEF S
  <2>2. job'[h].base = rows /\ job'[h].read = S /\ job'[h].left = S /\ job'[h].pc = "item"
    BY <1>0, <2>1 DEF Locals
  <2> QED BY <1>8, <2>1, <2>2 DEF S
<1>9. CASE CommitItem(h)
  <2>1. PICK s \in NextLeft(job[h]) : Goto(h, Idle) \/ Goto(h, Checked(job[h], s))
    BY <1>9 DEF CommitItem
  <2>2. job'[h] = Idle \/ job'[h] = Checked(job[h], s)
    BY <1>1, <2>1
  <2>3. /\ Checked(job[h], s).read = job[h].read /\ Checked(job[h], s).base = job[h].base
        /\ Checked(job[h], s).left = job[h].left \ {s}
    BY <1>0 DEF Checked, Locals
  <2>4. job[h].pc = "item"
    BY <1>9 DEF CommitItem, At
  <2> QED BY <2>2, <2>3, <2>4
<1> QED BY <1>2, <1>3, <1>4, <1>5, <1>6, <1>7, <1>8, <1>9
  DEF Continue, ShowLatest, CommitEnd, CallFails

\* A write of a COMMIT that meets no duplicate key makes none.
LEMMA ImportedUnique ==
  ASSUME Sound, NEW h \in Handlers, \A s \in job[h].read : ~DuplicateKey(job[h], s)
  PROVE  UniquePaths(Imported(job[h]))
<1> DEFINE j == job[h]
<1>0. /\ UniquePaths(rows) /\ UniquePaths(j.base) /\ ~Ambiguous(j.read)
      /\ \A s \in j.read : ~DuplicateKey(j, s)
  BY DEF Sound
<1> HIDE DEF j
<1> DEFINE Id(s) == nextId + Cardinality({t \in Inserts(j) : t.id < s.id})
<1>a. Created(j) = {Written(s, Id(s)) : s \in Inserts(j)}
  BY DEF Created
<1> HIDE DEF Id
<1>b. \A w \in Created(j) : \E s \in Inserts(j) : w = Written(s, Id(s))
  BY <1>a
<1>c. \A w \in Overwritten(j) : \E s \in j.read : /\ Updates(j, s)
                                                 /\ \E r \in Target(j, s) : w = Written(s, r.id)
  BY DEF Overwritten
<1>d. Inserts(j) \subseteq j.read /\ \A s \in Inserts(j) : Target(j, s) = {}
  BY DEF Inserts
<1>e. \A s, i : Written(s, i).path = s.item.path
  BY DEF Written
<1>1. ASSUME NEW r \in Overwritten(j) \cup Created(j)
      PROVE  \E s \in j.read : r.path = s.item.path /\ (Updates(j, s) \/ s \in Inserts(j))
  BY <1>b, <1>c, <1>d, <1>e
<1>2. ASSUME NEW r \in Untouched(j), NEW w \in Overwritten(j) \cup Created(j)
      PROVE  r.path # w.path
  <2>1. PICK s \in j.read : w.path = s.item.path /\ (Updates(j, s) \/ s \in Inserts(j))
    BY <1>1
  <2>2. \A t \in j.read : r.id \notin IdsOf(Target(j, t))
    BY DEF Untouched
  <2>3. r.id \notin IdsOf(Target(j, s) \cup Before(j, s))
    BY <2>2 DEF IdsOf, Before
  <2> QED BY <1>0, <2>1, <2>3 DEF DuplicateKey, Untouched
<1>3. \A s, t \in j.read : s.item.path = t.item.path => s = t
  BY <1>0 DEF Ambiguous
<1>4. \A s \in j.read : \A q, r \in Target(j, s) : q = r
  BY <1>0 DEF Target, UniquePaths
<1>5. \A v, w \in Overwritten(j) : v.path = w.path => v = w
  BY <1>3, <1>4, <1>c, <1>e
<1>6. \A v, w \in Created(j) : v.path = w.path => v = w
  BY <1>3, <1>b, <1>d, <1>e
<1>7. \A v \in Overwritten(j), w \in Created(j) : v.path # w.path
  BY <1>3, <1>b, <1>c, <1>d, <1>e
<1>8. \A r, s \in Untouched(j) : r.path = s.path => r = s
  BY <1>0 DEF Untouched, UniquePaths
<1>9. UniquePaths(Imported(j))
  BY <1>2, <1>5, <1>6, <1>7, <1>8 DEF Imported, UniquePaths
<1> QED BY <1>9 DEF j

LEMMA ElsewhereSound ==
  ASSUME Sound, Elsewhere
  PROVE  Sound'
<1>1. UniquePaths(rows')
  <2>0. UniquePaths(rows)
    BY DEF Sound
  <2>1. CASE FileChanges
    BY <2>0, <2>1 DEF FileChanges, table
  <2>2. CASE \E p \in Paths, n \in Names :
               LET r == [id |-> nextId, path |-> p, name |-> n] IN
               Fits(r, rows) /\ rows' = rows \cup {r} /\ nextId' = nextId + 1
    BY <2>0, <2>2 DEF Fits, UniquePaths
  <2>3. CASE \E s \in rows, p \in Paths, n \in Names :
               LET r == [s EXCEPT !.path = p, !.name = n] IN
               Fits(r, rows \ {s}) /\ rows' = (rows \ {s}) \cup {r} /\ UNCHANGED nextId
    BY <2>0, <2>3 DEF Fits, UniquePaths
  <2>4. CASE \E s \in rows : rows' = rows \ {s} /\ UNCHANGED nextId
    BY <2>0, <2>4 DEF UniquePaths
  <2> QED BY <2>1, <2>2, <2>3, <2>4 DEF Elsewhere, TableChanges
<1> QED BY <1>1 DEF Elsewhere, Sound

\* The table changes with a handler only when that handler's COMMIT ends.
LEMMA RowsMove ==
  ASSUME NEW h \in Handlers, Begin(h) \/ Continue(h), rows' # rows
  PROVE  /\ CommitEnd(h) /\ rows' = Imported(job[h])
         /\ \A s \in job[h].read : ~DuplicateKey(job[h], s)
         /\ staging' = staging \ InBatch(job[h].batch, job[h].who)
BY DEF Begin, BeginPrecheck, BeginCommit, BeginLoad, Accept, Continue, DeleteExpired, Clear,
       Scan, Plan, Insert, ShowLatest, CommitRead, CommitItem, CommitEnd, CallFails, table

LEMMA IdleSound == UniquePaths(Idle.base) /\ ~Ambiguous(Idle.read)
BY DEF Idle, Started, UniquePaths, Ambiguous

LEMMA StepsSound ==
  ASSUME TypeOK, Sound, [Next]_vars
  PROVE  Sound'
<1>1. CASE UNCHANGED vars
  BY <1>1 DEF vars, table, Sound
<1>2. ASSUME NEW h \in Handlers, Begin(h) \/ Continue(h)
      PROVE  Sound'
  <2>1. UniquePaths(rows')
    BY <1>2, RowsMove, ImportedUnique DEF Sound
  <2>2. UniquePaths(job'[h].base) /\ ~Ambiguous(job'[h].read)
    <3>1. CASE Continue(h)
      BY <3>1, SnapshotKept, IdleSound DEF Sound, Refused
    <3>2. CASE Begin(h)
      <4>1. job'[h].base = {} /\ job'[h].read = {}
        BY <3>2 DEF Begin, BeginPrecheck, BeginCommit, BeginLoad, Accept, Goto, Started, TypeOK
      <4> QED BY <4>1 DEF UniquePaths, Ambiguous
    <3> QED BY <1>2, <3>1, <3>2
  <2>3. \A g \in Handlers \ {h} : job'[g] = job[g]
    BY <1>2, ContinueGoesOn DEF Onward, Begin, BeginPrecheck, BeginCommit, BeginLoad, Accept,
       Goto, TypeOK
  <2> QED BY <2>1, <2>2, <2>3 DEF Sound
<1>3. CASE Crash
  <2>1. rows' = rows /\ \A h \in Handlers : job'[h] = Idle
    BY <1>3 DEF Crash, table
  <2> QED BY <2>1, IdleSound DEF Sound
<1>4. CASE Elsewhere
  BY <1>4, ElsewhereSound
<1> QED BY <1>1, <1>2, <1>3, <1>4 DEF Next

\* What a COMMIT writes has every row of its batch, but for the updates of rows
\* that are gone.
LEMMA ImportedWhole ==
  ASSUME Sound, NEW h \in Handlers, NEW s \in job[h].read
  PROVE  LET j == job[h] IN
         \/ \E r \in Imported(j) : r.path = s.item.path /\ r.name = s.item.name
         \/ Target(j, s) # {} /\ IdsOf(Target(j, s)) \cap IdsOf(rows) = {}
<1> DEFINE j == job[h]
<1>0. s \in j.read /\ UniquePaths(j.base)
  BY DEF Sound
<1> HIDE DEF j
<1>1. CASE s \in Inserts(j)
  <2>1. PICK i : Written(s, i) \in Created(j)
    BY <1>1 DEF Created
  <2> QED BY <2>1 DEF Imported, Written, j
<1>2. CASE Updates(j, s)
  <2>1. PICK r \in Target(j, s) : Written(s, r.id) \in Overwritten(j)
    BY <1>0, <1>2 DEF Updates, Overwritten
  <2> QED BY <2>1 DEF Imported, Written, j
<1>3. CASE s \notin Inserts(j) /\ ~Updates(j, s)
  <2>1. Target(j, s) # {} /\ ~(IdsOf(Target(j, s)) \subseteq IdsOf(rows))
    BY <1>0, <1>3 DEF Inserts, Updates
  <2>2. PICK r \in Target(j, s) : Target(j, s) = {r}
    BY <1>0, <2>1 DEF Target, UniquePaths
  <2> QED BY <2>1, <2>2 DEF IdsOf, j
<1> QED BY <1>1, <1>2, <1>3

\* What one COMMIT leaves of a batch, in the table and in staging.
LEMMA WholeBatch ==
  ASSUME Sound, NEW h \in Handlers, Begin(h) \/ Continue(h), rows' # rows
  PROVE  LET j == job[h] IN
         /\ \A s \in staging' : s.batch # j.batch \/ s.by # j.who
         /\ \A s \in j.read :
              \/ \E r \in rows' : r.path = s.item.path /\ r.name = s.item.name
              \/ Target(j, s) # {} /\ IdsOf(Target(j, s)) \cap IdsOf(rows) = {}
<1>1. rows' = Imported(job[h]) /\ staging' = staging \ InBatch(job[h].batch, job[h].who)
  BY RowsMove
<1>2. \A s \in staging' : s.batch # job[h].batch \/ s.by # job[h].who
  BY <1>1 DEF InBatch, StagedBy
<1> QED BY <1>1, <1>2, ImportedWhole

LEMMA AlwaysSound == Spec => []Sound
<1>1. Init => Sound
  <2> SUFFICES ASSUME Init PROVE Sound
    OBVIOUS
  <2>1. UniquePaths(rows)
    BY DEF Init, UniquePaths
  <2>2. \A h \in Handlers : job[h] = Idle
    BY DEF Init
  <2> QED BY <2>1, <2>2, IdleSound DEF Sound
<1>2. TypeOK /\ Sound /\ [Next]_vars => Sound'
  BY StepsSound
<1> QED BY <1>1, <1>2, AlwaysType, PTL DEF Spec

\* The transaction of a COMMIT is whole: the batch goes from staging to the
\* table in one step, each file of it, or nothing does.
THEOREM CommitWhole == Spec => AllOrNothing
<1> DEFINE Whole(h) ==
      job[h].op = "commit" /\ job'[h] # job[h] /\ rows' # rows =>
        LET j == job[h] IN
        /\ \A s \in staging' : s.batch # j.batch \/ s.by # j.who
        /\ \A s \in j.read :
             \/ \E r \in rows' : r.path = s.item.path /\ r.name = s.item.name
             \/ Target(j, s) # {} /\ IdsOf(Target(j, s)) \cap IdsOf(rows) = {}
<1>1. TypeOK /\ Sound /\ [Next]_vars => \A h \in Handlers : Whole(h)
  <2> SUFFICES ASSUME TypeOK, Sound, [Next]_vars, NEW h \in Handlers,
                      job'[h] # job[h], rows' # rows
               PROVE  Whole(h)
    OBVIOUS
  <2> HIDE DEF Whole
  <2>1. CASE Begin(h) \/ Continue(h)
    BY <2>1, WholeBatch DEF Whole
  <2>2. ~(UNCHANGED vars) /\ ~Crash /\ ~Elsewhere
    BY DEF vars, table, Crash, Elsewhere
  <2>3. ASSUME NEW g \in Handlers \ {h}, Begin(g) \/ Continue(g) PROVE FALSE
    BY <2>3, ContinueGoesOn DEF Onward, Begin, BeginPrecheck, BeginCommit, BeginLoad, Accept,
       Goto, TypeOK
  <2> QED BY <2>1, <2>2, <2>3 DEF Next
<1>2. TypeOK /\ Sound /\ [Next]_vars => [\A h \in Handlers : Whole(h)]_vars
  BY <1>1
<1> QED BY <1>2, AlwaysType, AlwaysSound, PTL DEF Spec, AllOrNothing
=============================================================================
