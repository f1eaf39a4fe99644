----------------------- MODULE ServiceAgreement_proofs -----------------------
(***************************************************************************)
(* Table, files and supervisord agree while nothing fails, for any number  *)
(* of requests in flight on distinct services; and no archived service is  *)
(* listed with another status than STOPPED.                                *)
(***************************************************************************)
EXTENDS ServicePorts_proofs

-----------------------------------------------------------------------------
(***************************************************************************)
(* The inductive invariant.                                                *)
(***************************************************************************)

\* The paths and the names a handler works on.
PathsOf(j) == (IF j.op \in OfRow THEN {j.row.path} ELSE {})
                \cup (IF j.op \in OfTarget THEN {j.want.path} ELSE {})
NamesOf(j) == (IF j.op \in OfRow THEN {j.row.baseline.name} ELSE {})
                \cup (IF j.op \in OfTarget THEN {j.want.conf.name} ELSE {})

\* From the first file it changes a handler leaves host and table apart.
Works(h) == \/ Past(h, "write")
            \/ job[h].op = "archive" /\ Past(h, "rmOld")
            \/ job[h].op = "restore" /\ Past(h, "copyBack")

Tended(p)     == \E h \in Handlers : Busy(h) /\ Works(h) /\ p \in PathsOf(job[h])
TendedName(n) == \E h \in Handlers : Busy(h) /\ Works(h) /\ n \in NamesOf(job[h])

Runs(n, c) == procs[n] # None /\ procs[n].conf = c

\* How far the files are, by the calls a handler has behind it.
Placed(h) ==
  LET r == job[h].row IN
  CASE job[h].op = "update" ->
         Past(h, "write") /\ Moves(job[h]) =>
           ini[r.path] = IF Past(h, "rmOld") THEN None ELSE r.baseline
    [] job[h].op = "archive" -> /\ Past(h, "backup") => bak[r.path] = r.baseline
                                /\ Past(h, "rmOld")  => ini[r.path] = None
    [] job[h].op = "restore" -> Past(h, "copyBack") => ini[r.path] = r.baseline
    [] OTHER -> TRUE

\* What runs once the handler has applied them.
Running(h) ==
  LET r == job[h].row
      c == job[h].want.conf
  IN
  CASE job[h].op = "create"  -> Runs(c.name, c)
    [] job[h].op = "update"  -> /\ Runs(c.name, c)
                                /\ c.name # r.baseline.name => procs[r.baseline.name] = None
    [] job[h].op = "archive" -> procs[r.baseline.name] = None
    [] job[h].op = "restore" -> Runs(r.baseline.name, r.baseline)
    [] OTHER -> TRUE

Applied(h) == Past(h, "apply") => Running(h)

Staged(h) == ~Undone(h) /\ Placed(h) /\ Applied(h)

\* Whatever nobody works on agrees with the table.
Steady ==
  /\ \A i \in Live : rows[i].port = rows[i].baseline.port
  /\ \A i \in Live : ~Tended(rows[i].path) => Settled(i)
  /\ \A p \in Paths : ini[p] # None /\ ~Tended(p) => \E i \in Active : rows[i].path = p
  /\ \A n \in Names : procs[n] # None /\ ~TendedName(n) =>
       \E i \in Active : rows[i].baseline.name = n
  /\ \A h \in Handlers : Busy(h) => Staged(h)

StillSteady == faults = 0 => Steady

-----------------------------------------------------------------------------
(***************************************************************************)
(* Which call comes when.                                                  *)
(***************************************************************************)

\* Call s is the n-th of the handler's operation.
Stands(h, s, n) == /\ At(h, s) <=> job[h].pc = n
                   /\ Past(h, s) <=> job[h].pc > n

\* The call is the last of the operation.
Last(h) == job[h].pc = Len(Flow[job[h].op])

LEMMA Stage ==
  ASSUME TypeOK, NEW h \in Handlers, Busy(h), NEW S, S = Flow[job[h].op],
         \A m, n \in 1..Len(S) : S[m] = S[n] => m = n, NEW n \in 1..Len(S)
  PROVE  Stands(h, S[n], n)
<1>1. job[h].pc \in 1..Len(S)
  BY DEF TypeOK, Job, Busy
<1>2. Len(S) \in Nat
  BY StepsAre DEF Busy
<1>3. At(h, S[n]) <=> job[h].pc = n
  BY <1>1 DEF At
<1>4. Past(h, S[n]) <=> job[h].pc > n
  BY <1>1, <1>2 DEF Past
<1> QED BY <1>3, <1>4 DEF Stands

LEMMA CreateStages ==
  ASSUME TypeOK, NEW h \in Handlers, Busy(h), job[h].op = "create"
  PROVE  /\ job[h].pc \in 1..7 /\ (Last(h) <=> job[h].pc = 7)
         /\ Stands(h, "checkRows", 1) /\ Stands(h, "checkPort", 3) /\ Stands(h, "write", 4)
         /\ Stands(h, "apply", 5) /\ Stands(h, "recheckRows", 6) /\ Stands(h, "insert", 7)
<1>1. Flow[job[h].op] = CreateSteps /\ Len(CreateSteps) = 7
  BY DEF Flow, CreateSteps
<1>2. job[h].pc \in 1..7 /\ (Last(h) <=> job[h].pc = 7)
  BY <1>1 DEF TypeOK, Job, Busy, Last
<1>3. \A m, n \in 1..7 : CreateSteps[m] = CreateSteps[n] => m = n
  BY DEF CreateSteps
<1>4. \A n \in 1..7 : Stands(h, CreateSteps[n], n)
  BY <1>1, <1>3, Stage
<1>5. /\ CreateSteps[1] = "checkRows" /\ CreateSteps[3] = "checkPort"
      /\ CreateSteps[4] = "write" /\ CreateSteps[5] = "apply"
      /\ CreateSteps[6] = "recheckRows" /\ CreateSteps[7] = "insert"
  BY DEF CreateSteps
<1> QED BY <1>1, <1>2, <1>4, <1>5

LEMMA UpdateStages ==
  ASSUME TypeOK, NEW h \in Handlers, Busy(h), job[h].op = "update"
  PROVE  /\ job[h].pc \in 1..11 /\ (Last(h) <=> job[h].pc = 11)
         /\ Stands(h, "checkRows", 2) /\ Stands(h, "checkTarget", 3) /\ Stands(h, "checkPort", 4)
         /\ Stands(h, "stop", 5) /\ Stands(h, "backup", 6) /\ Stands(h, "write", 7)
         /\ Stands(h, "rmOld", 8) /\ Stands(h, "apply", 9) /\ Stands(h, "status", 10)
         /\ Stands(h, "save", 11) /\ Stands(h, "read", 1)
<1>1. Flow[job[h].op] = UpdateSteps /\ Len(UpdateSteps) = 11
  BY DEF Flow, UpdateSteps
<1>2. job[h].pc \in 1..11 /\ (Last(h) <=> job[h].pc = 11)
  BY <1>1 DEF TypeOK, Job, Busy, Last
<1>3. \A m, n \in 1..11 : UpdateSteps[m] = UpdateSteps[n] => m = n
  BY DEF UpdateSteps
<1>4. \A n \in 1..11 : Stands(h, UpdateSteps[n], n)
  BY <1>1, <1>3, Stage
<1>5. /\ UpdateSteps[1] = "read" /\ UpdateSteps[2] = "checkRows"
      /\ UpdateSteps[3] = "checkTarget" /\ UpdateSteps[4] = "checkPort"
      /\ UpdateSteps[5] = "stop" /\ UpdateSteps[6] = "backup" /\ UpdateSteps[7] = "write"
      /\ UpdateSteps[8] = "rmOld" /\ UpdateSteps[9] = "apply"
      /\ UpdateSteps[10] = "status" /\ UpdateSteps[11] = "save"
  BY DEF UpdateSteps
<1> QED BY <1>1, <1>2, <1>4, <1>5

LEMMA ArchiveStages ==
  ASSUME TypeOK, NEW h \in Handlers, Busy(h), job[h].op = "archive"
  PROVE  /\ job[h].pc \in 1..5 /\ (Last(h) <=> job[h].pc = 5)
         /\ Stands(h, "stop", 1) /\ Stands(h, "backup", 2) /\ Stands(h, "rmOld", 3)
         /\ Stands(h, "apply", 4) /\ Stands(h, "markArchived", 5)
<1>1. Flow[job[h].op] = ArchiveSteps /\ Len(ArchiveSteps) = 5
  BY DEF Flow, ArchiveSteps
<1>2. job[h].pc \in 1..5 /\ (Last(h) <=> job[h].pc = 5)
  BY <1>1 DEF TypeOK, Job, Busy, Last
<1>3. \A m, n \in 1..5 : ArchiveSteps[m] = ArchiveSteps[n] => m = n
  BY DEF ArchiveSteps
<1>4. \A n \in 1..5 : Stands(h, ArchiveSteps[n], n)
  BY <1>1, <1>3, Stage
<1>5. /\ ArchiveSteps[1] = "stop" /\ ArchiveSteps[2] = "backup" /\ ArchiveSteps[3] = "rmOld"
      /\ ArchiveSteps[4] = "apply" /\ ArchiveSteps[5] = "markArchived"
  BY DEF ArchiveSteps
<1> QED BY <1>1, <1>2, <1>4, <1>5

LEMMA RestoreStages ==
  ASSUME TypeOK, NEW h \in Handlers, Busy(h), job[h].op = "restore"
  PROVE  /\ job[h].pc \in 1..4 /\ (Last(h) <=> job[h].pc = 4)
         /\ Stands(h, "copyBack", 1) /\ Stands(h, "apply", 2) /\ Stands(h, "status", 3)
         /\ Stands(h, "markRestored", 4)
<1>1. Flow[job[h].op] = RestoreSteps /\ Len(RestoreSteps) = 4
  BY DEF Flow, RestoreSteps
<1>2. job[h].pc \in 1..4 /\ (Last(h) <=> job[h].pc = 4)
  BY <1>1 DEF TypeOK, Job, Busy, Last
<1>3. \A m, n \in 1..4 : RestoreSteps[m] = RestoreSteps[n] => m = n
  BY DEF RestoreSteps
<1>4. \A n \in 1..4 : Stands(h, RestoreSteps[n], n)
  BY <1>1, <1>3, Stage
<1>5. /\ RestoreSteps[1] = "copyBack" /\ RestoreSteps[2] = "apply"
      /\ RestoreSteps[3] = "status" /\ RestoreSteps[4] = "markRestored"
  BY DEF RestoreSteps
<1> QED BY <1>1, <1>2, <1>4, <1>5

\* Only four operations take a service out of step, and how far they are.
LEMMA Workers ==
  ASSUME TypeOK, NEW h \in Handlers, Busy(h)
  PROVE  /\ Works(h) => job[h].op \in {"create", "update", "archive", "restore"}
         /\ job[h].op \in {"create", "update"} => (Works(h) <=> Past(h, "write"))
         /\ job[h].op = "archive" => (Works(h) <=> Past(h, "rmOld"))
         /\ job[h].op = "restore" => (Works(h) <=> Past(h, "copyBack"))
         /\ Past(h, "write") => Past(h, "checkRows")
         /\ ~Past(h, "dropRow") \/ ~Works(h)
<1>1. /\ Past(h, "write") => job[h].op \in {"create", "update"}
      /\ Past(h, "dropRow") => job[h].op = "delete"
  BY CallsOf DEF Callers
<1>2. Past(h, "write") => Past(h, "checkRows")
  BY <1>1, CreateStages, UpdateStages DEF Stands
<1> QED BY <1>1, <1>2 DEF Works

-----------------------------------------------------------------------------
(***************************************************************************)
(* Who works on what.                                                      *)
(***************************************************************************)
LEMMA OwnIsClaimed ==
  ASSUME TypeOK, NEW h \in Handlers, Busy(h)
  PROVE  /\ PathsOf(job[h]) \subseteq Claims(job[h]) \cap Paths
         /\ NamesOf(job[h]) \subseteq Claims(job[h]) \cap Names
BY ClaimsOf DEF PathsOf, NamesOf, Row, Target, Config

LEMMA OwnAlone ==
  ASSUME TypeOK, Safe, NEW h \in Handlers, NEW g \in Handlers \ {h}, Busy(h), Busy(g)
  PROVE  /\ \A p \in PathsOf(job[g]) : p \notin PathsOf(job[h])
         /\ \A n \in NamesOf(job[g]) : n \notin NamesOf(job[h])
BY OwnIsClaimed DEF Safe, AllApart, Apart

\* The row a handler holds, and which rows are under what it works on.
LEMMA OwnRow ==
  ASSUME TypeOK, PathsUnique, Safe, NEW h \in Handlers, Busy(h), job[h].op \in OfRow,
         ~Past(h, "dropRow"), NEW k, k = job[h].id
  PROVE  /\ k \in Live /\ k \in Ids /\ rows[k] \in Row /\ rows[k].path = job[h].row.path
         /\ rows[k].baseline = job[h].row.baseline
         /\ rows[k].path \in PathsOf(job[h]) /\ rows[k].baseline.name \in NamesOf(job[h])
         /\ \A i \in Live \ {k} : /\ rows[i].path # job[h].row.path
                                  /\ rows[i].baseline.name # job[h].row.baseline.name
<1>1. /\ k \in Live /\ k \in Ids /\ rows[k].path = job[h].row.path
      /\ rows[k].baseline = job[h].row.baseline /\ rows[k] \in Row
  BY ClaimsOf DEF Safe, Secured, Held, Live, TypeOK
<1>2. rows[k].path \in PathsOf(job[h]) /\ rows[k].baseline.name \in NamesOf(job[h])
  BY <1>1 DEF PathsOf, NamesOf
<1>3. \A i \in Live \ {k} : /\ rows[i].path # job[h].row.path
                            /\ rows[i].baseline.name # job[h].row.baseline.name
  BY <1>1 DEF PathsUnique, Safe, Table, NamesUnique
<1> QED BY <1>1, <1>2, <1>3

\* Nobody else's row is under a path or a name of a handler at work.
LEMMA OthersElsewhere ==
  ASSUME TypeOK, PathsUnique, Safe, NEW h \in Handlers, Busy(h), Works(h),
         NEW i \in Live, i # job[h].id
  PROVE  rows[i].path \notin PathsOf(job[h]) /\ rows[i].baseline.name \notin NamesOf(job[h])
<1> DEFINE j == job[h]
<1>1. /\ j.op \in {"create", "update", "archive", "restore"} /\ ~Past(h, "dropRow")
      /\ j.op \in {"create", "update"} => Past(h, "checkRows") /\ Free(h)
  BY Workers DEF Safe, Secured
<1>2. j.op \in {"create", "update"} => rows[i].path # j.want.path
                                       /\ rows[i].baseline.name # j.want.conf.name
  BY <1>1 DEF Free
<1>3. j.op \in OfRow => /\ rows[i].path # j.row.path
                        /\ rows[i].baseline.name # j.row.baseline.name
  BY <1>1, OwnRow
<1> QED BY <1>1, <1>2, <1>3, Holders DEF PathsOf, NamesOf

LEMMA OwnBoth ==
  ASSUME TypeOK, PathsUnique, Safe, NEW h \in Handlers, Busy(h), Works(h), NEW i \in Live
  PROVE  rows[i].path \in PathsOf(job[h]) <=> rows[i].baseline.name \in NamesOf(job[h])
<1> DEFINE j == job[h]
<1>1. /\ j.op \in {"create", "update", "archive", "restore"} /\ ~Past(h, "dropRow")
      /\ Rowless(h)
  BY Workers DEF Safe, Secured
<1>2. CASE i # j.id
  BY <1>2, OthersElsewhere
<1>3. CASE i = j.id
  <2>1. i # 0
    BY DEF Live, Ids
  <2>2. j.op \in OfRow
    BY <1>1, <1>3, <2>1, Holders DEF Rowless
  <2> QED BY <1>1, <1>3, <2>2, OwnRow
<1> QED BY <1>2, <1>3

LEMMA TendedBoth ==
  ASSUME TypeOK, PathsUnique, Safe, NEW i \in Live
  PROVE  Tended(rows[i].path) <=> TendedName(rows[i].baseline.name)
BY OwnBoth DEF Tended, TendedName

\* What a handler has not begun to change, nobody has.
LEMMA Untended ==
  ASSUME TypeOK, Safe, NEW h \in Handlers, Busy(h), ~Works(h)
  PROVE  /\ \A p \in PathsOf(job[h]) : ~Tended(p)
         /\ \A n \in NamesOf(job[h]) : ~TendedName(n)
BY OwnAlone DEF Tended, TendedName

\* So its row agrees with host and supervisord.
LEMMA OwnSettled ==
  ASSUME TypeOK, PathsUnique, Safe, Steady, NEW h \in Handlers, Busy(h), ~Works(h),
         job[h].op \in OfRow, ~Past(h, "dropRow"), NEW k, k = job[h].id
  PROVE  /\ k \in Live /\ Settled(k) /\ rows[k].path = job[h].row.path
         /\ rows[k].baseline = job[h].row.baseline
BY OwnRow, Untended DEF Steady

-----------------------------------------------------------------------------
(***************************************************************************)
(* What the .ini files declare, and so what a reload changes.              *)
(***************************************************************************)

\* The files of a handler at work declare its own programs.
LEMMA TendedFiles ==
  ASSUME TypeOK, Safe, NEW h \in Handlers, Busy(h), Works(h), Staged(h),
         NEW p \in PathsOf(job[h]), ini[p] # None
  PROVE  ini[p].name \in NamesOf(job[h])
<1> DEFINE j == job[h]
<1>1. /\ j.op \in {"create", "update", "archive", "restore"}
      /\ j.op \in {"create", "update"} => ini[j.want.path] = j.want.conf
  BY Workers DEF Safe, Secured, InPlace
<1>2. CASE j.op = "create"
  BY <1>1, <1>2, Holders DEF PathsOf, NamesOf, OfRow
<1>3. CASE j.op = "update"
  <2>1. p \in {j.row.path, j.want.path}
    BY <1>3, Holders DEF PathsOf
  <2>2. Moves(j) => ini[j.row.path] = None \/ ini[j.row.path] = j.row.baseline
    BY <1>3, Workers DEF Staged, Placed
  <2> QED BY <1>1, <1>3, <2>1, <2>2, Holders DEF NamesOf, Moves
<1>4. CASE j.op = "archive"
  <2>1. p = j.row.path
    BY <1>4 DEF PathsOf, OfTarget
  <2> QED BY <1>4, <2>1, Workers DEF Staged, Placed
<1>5. CASE j.op = "restore"
  <2>1. p = j.row.path
    BY <1>5 DEF PathsOf, OfTarget
  <2> QED BY <1>5, <2>1, Workers, Holders DEF Staged, Placed, NamesOf
<1> QED BY <1>1, <1>2, <1>3, <1>4, <1>5

\* Who declares a program nobody works on is the one active row of the name.
LEMMA DeclaredUntended ==
  ASSUME TypeOK, PathsUnique, Safe, Steady, NEW n \in Names, ~TendedName(n),
         NEW c \in Declared(n)
  PROVE  \E i \in Active : rows[i].baseline.name = n /\ c = rows[i].baseline
<1>1. PICK p \in Paths : ini[p] # None /\ ini[p].name = n /\ c = ini[p]
  BY DEF Declared
<1>2. ~Tended(p)
  BY <1>1, TendedFiles DEF Tended, TendedName, Steady
<1>3. PICK i \in Active : rows[i].path = p
  BY <1>1, <1>2 DEF Steady
<1>4. i \in Live /\ Settled(i)
  BY <1>2, <1>3 DEF Steady, Active
<1> QED BY <1>1, <1>3, <1>4 DEF Settled, Active

\* A reload leaves those programs alone.
LEMMA UntendedRuns ==
  ASSUME TypeOK, PathsUnique, Safe, Steady, NEW n \in Names, ~TendedName(n),
         NEW x \in Outcomes(n)
  PROVE  x = procs[n]
<1>1. ASSUME NEW i \in Active, rows[i].baseline.name = n
      PROVE  Settled(i) /\ rows[i].baseline \in Declared(n)
  <2>1. i \in Live /\ ~Tended(rows[i].path) /\ rows[i].path \in Paths
    BY <1>1, TendedBoth DEF Active, Live, TypeOK, Row
  <2>2. Settled(i)
    BY <2>1 DEF Steady
  <2>3. rows[i].baseline # None
    BY <2>1, NoneAssumption DEF Live, TypeOK, Row
  <2> QED BY <1>1, <2>1, <2>2, <2>3 DEF Settled, Active, Declared
<1>2. CASE Declared(n) = {}
  <2>1. x = None
    BY <1>2 DEF Outcomes
  <2> QED BY <1>1, <1>2, <2>1 DEF Steady
<1>3. CASE Declared(n) # {}
  <2>1. PICK c \in Declared(n) : x = Reloaded(n, c)
    BY <1>3 DEF Outcomes
  <2>2. PICK i \in Active : rows[i].baseline.name = n /\ c = rows[i].baseline
    BY DeclaredUntended
  <2>3. procs[n] # None /\ procs[n].conf = c
    BY <1>1, <2>2 DEF Settled, Active
  <2> QED BY <2>1, <2>3 DEF Reloaded
<1> QED BY <1>2, <1>3

\* Who declares a program a handler works on is a file of that handler.
LEMMA DeclaredTended ==
  ASSUME TypeOK, PathsUnique, Safe, Steady, NEW h \in Handlers, Busy(h), Works(h),
         NEW n \in NamesOf(job[h]), NEW c \in Declared(n)
  PROVE  \E p \in PathsOf(job[h]) : ini[p] = c /\ c # None /\ c.name = n
<1>1. PICK p \in Paths : ini[p] # None /\ ini[p].name = n /\ c = ini[p]
  BY DEF Declared
<1> SUFFICES p \in PathsOf(job[h])
  BY <1>1
<1>2. CASE Tended(p)
  <2>1. PICK g \in Handlers : Busy(g) /\ Works(g) /\ p \in PathsOf(job[g])
    BY <1>2 DEF Tended
  <2>2. n \in NamesOf(job[g])
    BY <1>1, <2>1, TendedFiles DEF Steady
  <2> QED BY <2>1, <2>2, OwnAlone
<1>3. CASE ~Tended(p)
  <2>1. PICK i \in Active : rows[i].path = p
    BY <1>1, <1>3 DEF Steady
  <2>2. i \in Live /\ Settled(i)
    BY <1>3, <2>1 DEF Steady, Active
  <2>3. rows[i].baseline.name = n
    BY <1>1, <2>1, <2>2 DEF Settled, Active
  <2> QED BY <2>1, <2>2, <2>3, OwnBoth
<1> QED BY <1>2, <1>3

\* So a reload brings up what the handler's files say.
LEMMA AppliedRuns ==
  ASSUME TypeOK, PathsUnique, Safe, Steady, NEW h \in Handlers, Busy(h),
         Past(h, "apply") \/ At(h, "apply"),
         \A n \in Names : procs'[n] \in Outcomes(n),
         job'[h].op = job[h].op, job'[h].row = job[h].row, job'[h].want = job[h].want
  PROVE  Running(h)'
<1> DEFINE j == job[h]
<1>1. ASSUME j.op \in {"create", "update", "archive", "restore"}
      PROVE  /\ Works(h)
             /\ j.op \in {"create", "update"} => Past(h, "write")
             /\ j.op \in {"update", "archive"} => Past(h, "rmOld")
             /\ j.op = "restore" => Past(h, "copyBack")
  BY <1>1, CreateStages, UpdateStages, ArchiveStages, RestoreStages, Workers DEF Stands
<1>2. Staged(h) /\ InPlace(h) /\ NamesOf(j) \subseteq Names
  BY OwnIsClaimed DEF Steady, Safe, Secured
<1>3. ASSUME NEW n \in NamesOf(j), Works(h),
             \A q \in PathsOf(j) : ini[q] = None \/ ini[q].name # n
      PROVE  procs'[n] = None
  <2>1. Declared(n) = {}
    BY <1>2, <1>3, DeclaredTended
  <2> QED BY <1>2, <2>1 DEF Outcomes
<1>4. ASSUME NEW p \in PathsOf(j), NEW c \in Config, c = ini[p], c.name \in NamesOf(j), Works(h),
             \A q \in PathsOf(j) \ {p} : ini[q] = None
      PROVE  Runs(c.name, c)'
  <2>1. c # None /\ p \in Paths
    BY <1>4, NoneAssumption, OwnIsClaimed
  <2>2. Declared(c.name) = {c}
    <3>1. c \in Declared(c.name)
      BY <1>4, <2>1 DEF Declared
    <3>2. \A d \in Declared(c.name) : d = c
      BY <1>2, <1>4, DeclaredTended
    <3> QED BY <3>1, <3>2
  <2>3. procs'[c.name] = Reloaded(c.name, c)
    BY <1>2, <1>4, <2>2 DEF Outcomes
  <2>4. [conf |-> c, up |-> TRUE] # None
    <3>1. [conf |-> c, up |-> TRUE] \in Proc
      BY DEF Proc
    <3> QED BY <3>1, NoneAssumption
  <2> QED BY <2>3, <2>4 DEF Reloaded, Runs
<1>5. /\ j.op \in {"create", "update"} => j.want.conf \in Config /\ j.want.conf.name \in NamesOf(j)
      /\ j.op \in {"update", "archive", "restore"} =>
           j.row.baseline \in Config /\ j.row.baseline.name \in NamesOf(j)
  BY ClaimsOf, Holders DEF Target, Row, NamesOf
<1>6. CASE j.op = "create"
  <2>1. PathsOf(j) = {j.want.path} /\ Works(h) /\ ini[j.want.path] = j.want.conf
    BY <1>1, <1>2, <1>6, Holders DEF PathsOf, InPlace, OfRow
  <2>2. Runs(j.want.conf.name, j.want.conf)'
    BY <1>4, <1>5, <1>6, <2>1
  <2> QED BY <1>6, <2>2 DEF Running, Runs
<1>7. CASE j.op = "update"
  <2>1. PathsOf(j) = {j.row.path, j.want.path} /\ Works(h) /\ ini[j.want.path] = j.want.conf
    BY <1>1, <1>2, <1>7, Holders DEF PathsOf, InPlace
  <2>2. \A q \in PathsOf(j) \ {j.want.path} : ini[q] = None
    BY <1>1, <1>2, <1>7, <2>1 DEF Staged, Placed, Moves
  <2>3. Runs(j.want.conf.name, j.want.conf)'
    BY <1>4, <1>5, <1>7, <2>1, <2>2
  <2>4. j.want.conf.name # j.row.baseline.name => procs'[j.row.baseline.name] = None
    BY <1>3, <1>5, <1>7, <2>1, <2>2
  <2> QED BY <1>7, <2>3, <2>4 DEF Running, Runs
<1>8. CASE j.op = "archive"
  <2>1. PathsOf(j) = {j.row.path} /\ Works(h) /\ ini[j.row.path] = None
    BY <1>1, <1>2, <1>8, Holders DEF PathsOf, Staged, Placed, OfTarget
  <2>2. procs'[j.row.baseline.name] = None
    BY <1>3, <1>5, <1>8, <2>1
  <2> QED BY <1>8, <2>2 DEF Running
<1>9. CASE j.op = "restore"
  <2>1. PathsOf(j) = {j.row.path} /\ Works(h) /\ ini[j.row.path] = j.row.baseline
    BY <1>1, <1>2, <1>9, Holders DEF PathsOf, Staged, Placed, OfTarget
  <2>2. Runs(j.row.baseline.name, j.row.baseline)'
    BY <1>4, <1>5, <1>9, <2>1
  <2> QED BY <1>9, <2>2 DEF Running, Runs
<1>10. CASE j.op \notin {"create", "update", "archive", "restore"}
  BY <1>10 DEF Running
<1> QED BY <1>6, <1>7, <1>8, <1>9, <1>10

-----------------------------------------------------------------------------
(***************************************************************************)
(* What one handler does leaves the others' services in step.              *)
(***************************************************************************)
SameRow(i) == /\ rows'[i] # None <=> rows[i] # None
              /\ rows[i] # None => /\ rows'[i].path = rows[i].path
                                   /\ rows'[i].baseline = rows[i].baseline
                                   /\ rows'[i].port = rows[i].port
                                   /\ rows'[i].archived = rows[i].archived

SameProgram(n) == /\ procs'[n] # None <=> procs[n] # None
                  /\ procs[n] # None => procs'[n].conf = procs[n].conf

LEMMA SameSettled ==
  ASSUME NEW i \in Live, SameRow(i), Settled(i),
         ini'[rows[i].path] = ini[rows[i].path],
         rows[i].archived => bak'[rows[i].path] = bak[rows[i].path],
         SameProgram(rows[i].baseline.name)
  PROVE  Settled(i)'
BY DEF SameRow, Settled, SameProgram, Live

\* A handler that stands still keeps its stage if its files and programs do.
LEMMA StagedKept ==
  ASSUME TypeOK, NEW g \in Handlers, Busy(g), Staged(g),
         job'[g].op = job[g].op, job'[g].row = job[g].row, job'[g].want = job[g].want,
         \A s \in {"write", "rmOld", "copyBack", "backup"} : Past(g, s)' <=> Past(g, s),
         \A p \in PathsOf(job[g]) : ini'[p] = ini[p] /\ bak'[p] = bak[p],
         \/ (\A n \in NamesOf(job[g]) : SameProgram(n)) /\ (Past(g, "apply")' => Past(g, "apply"))
         \/ Past(g, "apply")' => Running(g)'
  PROVE  Staged(g)' /\ (Works(g)' <=> Works(g))
<1> DEFINE j == job[g]
<1>1. ~Undone(g)' /\ (Works(g)' <=> Works(g))
  BY DEF Undone, Works, Staged
<1>2. j.op \in {"update", "archive", "restore"} => j.row.path \in PathsOf(j)
  BY Holders DEF PathsOf
<1>3. Placed(g)'
  <2>1. Moves(job'[g]) <=> Moves(j)
    BY DEF Moves
  <2>2. CASE j.op = "update"
    BY <1>2, <2>1, <2>2 DEF Placed, Staged
  <2>3. CASE j.op = "archive"
    BY <1>2, <2>3 DEF Placed, Staged
  <2>4. CASE j.op = "restore"
    BY <1>2, <2>4 DEF Placed, Staged
  <2>5. CASE j.op \notin {"update", "archive", "restore"}
    BY <2>5 DEF Placed
  <2> QED BY <2>2, <2>3, <2>4, <2>5
<1>4. Applied(g)'
  <2> SUFFICES ASSUME Past(g, "apply")' PROVE Running(g)'
    BY DEF Applied
  <2>1. CASE (\A n \in NamesOf(j) : SameProgram(n)) /\ Past(g, "apply")
    <3>1. Running(g)
      BY <2>1 DEF Staged, Applied
    <3>2. /\ j.op \in {"create", "update"} => j.want.conf.name \in NamesOf(j)
          /\ j.op \in {"update", "archive", "restore"} => j.row.baseline.name \in NamesOf(j)
      BY Holders DEF NamesOf
    <3> QED BY <2>1, <3>1, <3>2 DEF Running, Runs, SameProgram
  <2> QED BY <2>1
<1> QED BY <1>1, <1>3, <1>4 DEF Staged

LEMMA OthersStaged ==
  ASSUME TypeOK, Safe, Steady, NEW h \in Handlers, Others(h),
         NEW g \in Handlers \ {h}, Busy(g)',
         \A p \in PathsOf(job[g]) : ini'[p] = ini[p] /\ bak'[p] = bak[p],
         (\A n \in NamesOf(job[g]) : SameProgram(n)) \/ (Past(g, "apply") => Running(g)')
  PROVE  Staged(g)'
<1>1. job'[g] = job[g] /\ Busy(g) /\ Staged(g)
  BY DEF Others, Busy, Steady
<1>2. \A s : Past(g, s)' <=> Past(g, s)
  BY <1>1 DEF Past
<1> QED BY <1>1, <1>2, StagedKept

\* A step after which the same services are worked on, with the same rows and
\* the same files.
LEMMA QuietSteady ==
  ASSUME TypeOK, PathsUnique, Safe, Steady, NEW h \in Handlers, Others(h),
         \A i \in Ids : SameRow(i), ini' = ini,
         \A i \in Live : rows[i].archived => bak'[rows[i].path] = bak[rows[i].path],
         \A n \in Names : SameProgram(n) \/ TendedName(n),
         Busy(h)' /\ Works(h)' <=> Busy(h) /\ Works(h),
         Busy(h) /\ Works(h) => /\ job'[h].op = job[h].op /\ job'[h].row = job[h].row
                                /\ job'[h].want = job[h].want,
         \A g \in Handlers : Busy(g)' => Staged(g)'
  PROVE  Steady'
<1>1. ASSUME NEW g \in Handlers
      PROVE  /\ Busy(g)' /\ Works(g)' <=> Busy(g) /\ Works(g)
             /\ Busy(g) /\ Works(g) => /\ PathsOf(job[g])' = PathsOf(job[g])
                                       /\ NamesOf(job[g])' = NamesOf(job[g])
  <2>1. CASE g = h
    BY <2>1 DEF PathsOf, NamesOf
  <2>2. CASE g # h
    <3>1. job'[g] = job[g]
      BY <2>2 DEF Others
    <3>2. Works(g)' <=> Works(g)
      BY <3>1 DEF Works, Past
    <3> QED BY <3>1, <3>2 DEF Busy
  <2> QED BY <2>1, <2>2
<1>2. (\A p : Tended(p)' <=> Tended(p)) /\ (\A n : TendedName(n)' <=> TendedName(n))
  BY <1>1 DEF Tended, TendedName
<1>3. ASSUME NEW i \in Ids, rows'[i] # None
      PROVE  /\ rows'[i].port = rows'[i].baseline.port
             /\ ~Tended(rows[i].path)' => Settled(i)'
  <2>1. i \in Live /\ SameRow(i) /\ rows[i].baseline.name \in Names
    BY <1>3 DEF SameRow, Live, TypeOK, Row, Config
  <2>2. rows'[i].port = rows'[i].baseline.port
    BY <2>1 DEF SameRow, Steady, Live
  <2>3. ASSUME ~Tended(rows[i].path)' PROVE Settled(i)'
    <3>1. ~Tended(rows[i].path) /\ ~TendedName(rows[i].baseline.name)
      BY <1>2, <2>1, <2>3, TendedBoth DEF SameRow, Live
    <3>2. Settled(i)
      BY <2>1, <3>1 DEF Steady
    <3> QED BY <2>1, <3>1, <3>2, SameSettled
  <2> QED BY <2>2, <2>3
<1>4. \A i \in Active : i \in Active' /\ SameRow(i) /\ i \in Live
  BY DEF Active, Live, SameRow
<1>5. ASSUME NEW p \in Paths, ini'[p] # None, ~Tended(p)'
      PROVE  \E i \in Active' : rows'[i].path = p
  <2>1. PICK i \in Active : rows[i].path = p
    BY <1>2, <1>5 DEF Steady
  <2> QED BY <1>4, <2>1 DEF SameRow, Live
<1>6. ASSUME NEW n \in Names, procs'[n] # None, ~TendedName(n)'
      PROVE  \E i \in Active' : rows'[i].baseline.name = n
  <2>1. procs[n] # None /\ ~TendedName(n)
    BY <1>2, <1>6 DEF SameProgram
  <2>2. PICK i \in Active : rows[i].baseline.name = n
    BY <2>1 DEF Steady
  <2> QED BY <1>4, <2>2 DEF SameRow, Live
<1> QED BY <1>3, <1>5, <1>6 DEF Steady, Live

\* A step that changes files of a handler that is at work after it.
LEMMA MovingSteady ==
  ASSUME TypeOK, PathsUnique, Safe, Steady, NEW h \in Handlers, Others(h),
         Busy(h), Busy(h)', Works(h)', SameJob(h), rows' = rows, procs' = procs,
         \A p \in Paths \ PathsOf(job[h]) : ini'[p] = ini[p] /\ bak'[p] = bak[p],
         Staged(h)'
  PROVE  Steady'
<1>1. ASSUME NEW g \in Handlers \ {h} PROVE job'[g] = job[g] /\ (Works(g)' <=> Works(g))
  <2>1. job'[g] = job[g]
    BY DEF Others
  <2> QED BY <2>1 DEF Works, Past
<1>2. PathsOf(job[h])' = PathsOf(job[h]) /\ NamesOf(job[h])' = NamesOf(job[h])
  BY DEF PathsOf, NamesOf, SameJob
<1>3. /\ \A p : ~Tended(p)' => ~Tended(p) /\ p \notin PathsOf(job[h])
      /\ \A n : ~TendedName(n)' => ~TendedName(n) /\ n \notin NamesOf(job[h])
  BY <1>1, <1>2 DEF Tended, TendedName, Busy
<1>4. ASSUME NEW i \in Ids, rows'[i] # None
      PROVE  /\ rows'[i].port = rows'[i].baseline.port
             /\ ~Tended(rows[i].path)' => Settled(i)'
  <2>1. i \in Live /\ rows[i].path \in Paths
    BY <1>4 DEF Live, TypeOK, Row
  <2>2. ASSUME ~Tended(rows[i].path)' PROVE Settled(i)'
    <3>1. rows[i].path \notin PathsOf(job[h]) /\ Settled(i)
      BY <1>3, <2>1, <2>2 DEF Steady
    <3> QED BY <2>1, <3>1, SameSettled DEF SameRow, SameProgram
  <2> QED BY <2>1, <2>2 DEF Steady
<1>5. ASSUME NEW p \in Paths, ini'[p] # None, ~Tended(p)'
      PROVE  \E i \in Active' : rows'[i].path = p
  BY <1>3, <1>5 DEF Steady, Active, Live
<1>6. ASSUME NEW n \in Names, procs'[n] # None, ~TendedName(n)'
      PROVE  \E i \in Active' : rows'[i].baseline.name = n
  BY <1>3, <1>6 DEF Steady, Active, Live
<1>7. ASSUME NEW g \in Handlers \ {h}, Busy(g)' PROVE Staged(g)'
  <2>1. Busy(g)
    BY <1>1, <1>7 DEF Busy
  <2>2. \A p \in PathsOf(job[g]) : p \in Paths \ PathsOf(job[h])
    BY <2>1, OwnAlone, OwnIsClaimed
  <2> QED BY <1>7, <2>2, OthersStaged DEF SameProgram
<1> QED BY <1>4, <1>5, <1>6, <1>7 DEF Steady, Live

\* A step that writes the row of a handler that is not at work after it: the
\* row is settled, and nothing else is left under what the handler worked on.
LEMMA EndingSteady ==
  ASSUME TypeOK, PathsUnique, Safe, Steady, NEW h \in Handlers, Others(h), Busy(h),
         ~(Busy(h)' /\ Works(h)'), Busy(h)' => Staged(h)', UNCHANGED <<files, procs>>,
         NEW k \in Ids, \A i \in Ids \ {k} : rows'[i] = rows[i],
         \A i \in Live \ {k} : /\ rows[i].path \notin PathsOf(job[h])
                               /\ rows[i].baseline.name \notin NamesOf(job[h]),
         rows[k] # None => /\ rows[k].path \in PathsOf(job[h])
                           /\ rows[k].baseline.name \in NamesOf(job[h]),
         rows'[k] # None => rows'[k].port = rows'[k].baseline.port /\ Settled(k)',
         \A p \in PathsOf(job[h]) : ini[p] # None =>
           rows'[k] # None /\ ~rows'[k].archived /\ rows'[k].path = p,
         \A n \in NamesOf(job[h]) : procs[n] # None =>
           rows'[k] # None /\ ~rows'[k].archived /\ rows'[k].baseline.name = n
  PROVE  Steady'
<1>1. ASSUME NEW g \in Handlers \ {h} PROVE job'[g] = job[g] /\ (Works(g)' <=> Works(g))
  <2>1. job'[g] = job[g]
    BY DEF Others
  <2> QED BY <2>1 DEF Works, Past
<1>2. /\ \A p : ~Tended(p)' => ~Tended(p) \/ p \in PathsOf(job[h])
      /\ \A n : ~TendedName(n)' => ~TendedName(n) \/ n \in NamesOf(job[h])
  BY <1>1 DEF Tended, TendedName, Busy
<1>3. ASSUME NEW i \in Ids, rows'[i] # None
      PROVE  /\ rows'[i].port = rows'[i].baseline.port
             /\ ~Tended(rows[i].path)' => Settled(i)'
  <2>1. CASE i = k
    BY <1>3, <2>1
  <2>2. CASE i # k
    <3>1. i \in Live /\ rows'[i] = rows[i] /\ rows[i].path \notin PathsOf(job[h])
      BY <1>3, <2>2 DEF Live
    <3>2. rows'[i].port = rows'[i].baseline.port
      BY <3>1 DEF Steady
    <3>3. ASSUME ~Tended(rows[i].path)' PROVE Settled(i)'
      <4>1. Settled(i)
        BY <1>2, <3>1, <3>3 DEF Steady
      <4> QED BY <3>1, <4>1 DEF Settled, files
    <3> QED BY <3>1, <3>2, <3>3
  <2> QED BY <2>1, <2>2
<1>4. \A i \in Active \ {k} : i \in Active' /\ rows'[i] = rows[i]
  BY DEF Active, Live
<1>5. ASSUME NEW p \in Paths, ini[p] # None, ~Tended(p)'
      PROVE  \E i \in Active' : rows'[i].path = p
  <2>1. CASE p \in PathsOf(job[h])
    BY <1>5, <2>1 DEF Active, Live
  <2>2. CASE p \notin PathsOf(job[h])
    <3>1. PICK i \in Active : rows[i].path = p
      BY <1>2, <1>5, <2>2 DEF Steady
    <3>2. i # k
      BY <2>2, <3>1 DEF Active, Live
    <3> QED BY <1>4, <3>1, <3>2
  <2> QED BY <2>1, <2>2
<1>6. ASSUME NEW n \in Names, procs[n] # None, ~TendedName(n)'
      PROVE  \E i \in Active' : rows'[i].baseline.name = n
  <2>1. CASE n \in NamesOf(job[h])
    BY <1>6, <2>1 DEF Active, Live
  <2>2. CASE n \notin NamesOf(job[h])
    <3>1. PICK i \in Active : rows[i].baseline.name = n
      BY <1>2, <1>6, <2>2 DEF Steady
    <3>2. i # k
      BY <2>2, <3>1 DEF Active, Live
    <3> QED BY <1>4, <3>1, <3>2
  <2> QED BY <2>1, <2>2
<1>7. ASSUME NEW g \in Handlers, Busy(g)' PROVE Staged(g)'
  <2>1. CASE g = h
    BY <1>7, <2>1
  <2>2. CASE g # h
    BY <1>7, <2>2, OthersStaged DEF files, SameProgram
  <2> QED BY <2>1, <2>2
<1> QED BY <1>3, <1>5, <1>6, <1>7 DEF Steady, Live, files

-----------------------------------------------------------------------------
(***************************************************************************)
(* Calls that change neither files nor what the table says of a service.   *)
(***************************************************************************)
LEMMA NoFault == ASSUME TypeOK, faults' = 0 PROVE ~Fault
BY DEF TypeOK, Fault

LEMMA FaultsStay == ASSUME TypeOK, [Next]_vars PROVE faults' = 0 => faults = 0
<1>1. faults \in Nat
  BY BoundsAssumption DEF TypeOK
<1>2. Fault => faults' # 0
  BY <1>1 DEF Fault
<1>3. ASSUME NEW h \in Handlers
      PROVE  /\ Proceed(h) \/ Refuse(h) => faults' = faults
             /\ Reported(h) => faults' = faults \/ Fault
  BY DEF Proceed, Refuse, Reported
<1>4. ASSUME NEW h \in Handlers, Begin(h) PROVE faults' = faults
  BY <1>4 DEF Begin, BeginCreate, BeginUpdate, BeginOnActive, BeginOnArchived, BeginRefresh, Accept
<1>5. ASSUME NEW h \in Handlers, Check(h) PROVE faults' = faults
  BY <1>3, <1>5 DEF Check, ReadConfig, CheckRows, CheckTarget, CheckPort
<1>6. ASSUME NEW h \in Handlers, FileCmd(h) PROVE faults' = faults \/ Fault
  BY <1>3, <1>6 DEF FileCmd, Write, Backup, CopyBack, RemoveOld, RemoveTarget, RemoveBackup,
                    RemoveFile
<1>7. ASSUME NEW h \in Handlers, Control(h) \/ Observe(h) \/ CallFails(h)
      PROVE  faults' = faults \/ Fault
  BY <1>3, <1>7 DEF Control, Apply, Stop, Start, Observe, Status, StatusAll, ReadCurrent,
                    ReadBackup, CallFails
<1>8. ASSUME NEW h \in Handlers, Store(h) PROVE faults' = faults
  BY <1>3, <1>8 DEF Store, Insert, SaveUpdate, MarkArchived, MarkRestored, DropRow, SaveStatus,
                    SaveSync
<1> QED BY <1>2, <1>4, <1>5, <1>6, <1>7, <1>8 DEF Next, Continue, Crash, vars

Ends(h) == job'[h] = Idle /\ Last(h)

LEMMA GoesOn ==
  ASSUME TypeOK, NEW h \in Handlers, Busy(h), Proceed(h)
  PROVE  Others(h) /\ (Onward(h) \/ Ends(h))
<1>1. Others(h) /\ (job'[h] = Idle \/ Onward(h))
  BY CallLeads
<1>2. job[h] \in Job /\ job'[h] = After(job[h])
  BY DEF TypeOK, Proceed
<1>3. ~Last(h) => job'[h].op = job[h].op
  BY <1>2 DEF After, Job, Locals, Last
<1> QED BY <1>1, <1>3, IdleType DEF Busy, Ends

\* Only a refresh may be refused the statuses it asks for.
LEMMA ObserveGoesOn ==
  ASSUME TypeOK, NEW h \in Handlers, Observe(h)
  PROVE  Others(h) /\ (Onward(h) \/ Ends(h) \/ (job'[h] = Idle /\ At(h, "statusAll")))
<1> DEFINE j == job[h]
<1>1. /\ Busy(h) /\ j \in Job /\ job \in [Handlers -> Job]
      /\ Others(h) /\ (job'[h] = Idle \/ Onward(h))
  BY ObserveLeads DEF Observe, Status, StatusAll, ReadCurrent, ReadBackup, At, TypeOK
<1>2. ASSUME NEW E, NEW b, NEW f,
             NEW k \in {j, [j EXCEPT !.file = f], [j EXCEPT !.seen = E, !.hasBak = b]},
             job' = [job EXCEPT ![h] = After(k)], ~Last(h)
      PROVE  job'[h] # Idle
  <2>1. k.op = j.op /\ k.pc = j.pc /\ [k EXCEPT !.pc = k.pc + 1].op = j.op
    BY <1>1, <1>2 DEF Job, Locals
  <2>2. job'[h] = [k EXCEPT !.pc = k.pc + 1]
    BY <1>1, <1>2, <2>1 DEF After, Last
  <2> QED BY <1>1, <2>1, <2>2, IdleType DEF Busy
<1>3. CASE Status(h)
  <2>1. PICK E : See(h, E, FALSE)
    BY <1>3 DEF Status
  <2> QED BY <1>1, <1>2, <2>1 DEF See, Ends
<1>6. CASE StatusAll(h)
  <2>1. (\E E : See(h, E, FALSE)) \/ Refuse(h)
    BY <1>6 DEF StatusAll
  <2>2. CASE \E E : See(h, E, FALSE)
    <3>1. PICK E : See(h, E, FALSE)
      BY <2>2
    <3> QED BY <1>1, <1>2, <3>1 DEF See, Ends
  <2>3. CASE Refuse(h)
    <3>1. Failed(j) = Idle /\ At(h, "statusAll")
      BY <1>6 DEF StatusAll, At, Failed
    <3> QED BY <1>1, <2>3, <3>1 DEF Refuse
  <2> QED BY <2>1, <2>2, <2>3
<1>4. CASE ReadCurrent(h)
  BY <1>1, <1>2, <1>4 DEF ReadCurrent, Ends
<1>5. CASE ReadBackup(h)
  <2>1. PICK b : See(h, j.seen, b)
    BY <1>5 DEF ReadBackup
  <2> QED BY <1>1, <1>2, <2>1 DEF See, Ends
<1> QED BY <1>3, <1>4, <1>5, <1>6 DEF Observe

\* The calls after which a stage is another.
Stages == {"write", "rmOld", "copyBack", "backup", "apply"}

LEMMA CalmSteady ==
  ASSUME TypeOK, PathsUnique, Safe, Steady, NEW h \in Handlers, Busy(h), Others(h),
         \/ job'[h] = Idle /\ ~Works(h)
         \/ (Onward(h) \/ Pauses(h)) /\ \A s \in Stages : ~At(h, s),
         \A i \in Ids : SameRow(i), \A n \in Names : SameProgram(n), UNCHANGED <<ini, bak>>
  PROVE  Steady'
<1>1. CASE job'[h] = Idle /\ ~Works(h)
  <2>1. ~Busy(h)'
    BY <1>1, IdleType DEF Busy
  <2>2. \A g \in Handlers : Busy(g)' => Staged(g)'
    <3> SUFFICES ASSUME NEW g \in Handlers \ {h}, Busy(g)' PROVE Staged(g)'
      BY <2>1
    <3>1. \A n \in NamesOf(job[g]) : SameProgram(n)
      BY OwnIsClaimed DEF Others, Busy
    <3> QED BY <3>1, OthersStaged
  <2> QED BY <1>1, <2>1, <2>2, QuietSteady
<1>2. CASE (Onward(h) \/ Pauses(h)) /\ \A s \in Stages : ~At(h, s)
  <2>1. /\ SameJob(h) /\ Busy(h)' /\ \A s \in Stages : Past(h, s)' <=> Past(h, s)
    BY <1>2, PastGrows DEF Onward, Pauses
  <2>2. ASSUME NEW g \in Handlers, Busy(g) PROVE \A n \in NamesOf(job[g]) : SameProgram(n)
    BY <2>2, OwnIsClaimed
  <2>3. Staged(h)' /\ (Works(h)' <=> Works(h))
    BY <2>1, <2>2, StagedKept DEF SameJob, Stages, Steady
  <2>4. \A g \in Handlers : Busy(g)' => Staged(g)'
    <3> SUFFICES ASSUME NEW g \in Handlers \ {h}, Busy(g)' PROVE Staged(g)'
      BY <2>3
    <3> QED BY <2>2, OthersStaged DEF Others, Busy
  <2> QED BY <2>1, <2>3, <2>4, QuietSteady DEF SameJob
<1> QED BY <1>1, <1>2

LEMMA CheckSteady ==
  ASSUME TypeOK, PathsUnique, Safe, Orderly, Steady, NEW h \in Handlers, Check(h)
  PROVE  Steady'
<1> DEFINE j == job[h]
<1>1. PICK t \in {"read", "checkRows", "recheckRows", "checkTarget", "checkPort"} :
        At(h, t) /\ (Proceed(h) \/ Refuse(h))
  BY DEF Check, ReadConfig, CheckRows, CheckTarget, CheckPort
<1>2. Busy(h) /\ UNCHANGED <<db, files, procs>>
  BY <1>1 DEF At, Check, ReadConfig, CheckRows, CheckTarget, CheckPort
<1>3. /\ \A i \in Ids : SameRow(i)
      /\ \A n \in Names : SameProgram(n)
      /\ UNCHANGED <<ini, bak>>
  BY <1>2 DEF SameRow, SameProgram, db, files
<1>4. \A s \in Stages : ~At(h, s)
  BY <1>1 DEF At, Stages
<1>5. CASE t # "recheckRows"
  <2>1. j.op \in {"create", "update"}
    BY <1>1, <1>5, CallsOf DEF Callers
  <2>2. ~Past(h, "write")
    <3>1. CASE j.op = "create"
      <4>1. Stands(h, "checkRows", 1) /\ Stands(h, "checkPort", 3) /\ Stands(h, "write", 4)
        BY <1>2, <3>1, CreateStages
      <4>2. t # "read"
        BY <1>1, <3>1, CallsOf DEF Callers
      <4>3. CASE t = "checkTarget"
        <5>1. \A n \in 1..7 : CreateSteps[n] = "checkTarget" => n = 2
          BY DEF CreateSteps
        <5>2. Flow[j.op] = CreateSteps /\ j.pc \in 1..7
          BY <1>2, <3>1, CreateStages DEF Flow
        <5>3. j.pc = 2
          BY <1>1, <4>3, <5>1, <5>2 DEF At
        <5> QED BY <4>1, <5>3 DEF Stands
      <4>4. CASE t \in {"checkRows", "checkPort"}
        <5>1. j.pc = 1 \/ j.pc = 3
          BY <1>1, <4>1, <4>4 DEF Stands
        <5> QED BY <4>1, <5>1 DEF Stands
      <4> QED BY <1>5, <4>2, <4>3, <4>4
    <3>2. CASE j.op = "update"
      <4>1. /\ Stands(h, "read", 1) /\ Stands(h, "checkRows", 2) /\ Stands(h, "checkTarget", 3)
            /\ Stands(h, "checkPort", 4) /\ Stands(h, "write", 7)
        BY <1>2, <3>2, UpdateStages
      <4>2. j.pc \in {1, 2, 3, 4}
        BY <1>1, <1>5, <4>1 DEF Stands
      <4> QED BY <4>1, <4>2 DEF Stands
    <3> QED BY <2>1, <3>1, <3>2
  <2>3. ~Works(h)
    BY <1>2, <2>1, <2>2, Workers
  <2>4. ~At(h, "rmBackup") /\ ~At(h, "insert") /\ ~At(h, "save") /\ ~At(h, "recheckRows")
    BY <1>1, <1>5 DEF At
  <2>5. Others(h) /\ (job'[h] = Idle \/ Onward(h))
    BY <1>1, <1>2, <1>4, <2>4, CallLeads DEF Falls, Undoes, Stages
  <2> QED BY <1>2, <1>3, <1>4, <2>3, <2>5, CalmSteady
<1>6. CASE t = "recheckRows"
  <2>1. j.op = "create" /\ Rowless(h) /\ Free(h)
    BY <1>1, <1>2, <1>6, CallsOf DEF Callers, Safe, Secured
  <2>2. j.id = 0 /\ ~Last(h) /\ Past(h, "checkRows") /\ Past(h, "checkPort")
    BY <1>1, <1>2, <1>6, <2>1, CreateStages DEF Rowless, Stands
  <2>3. \A i \in Live : i # 0
    BY DEF Live, Ids
  <2>4. ASSUME NEW i \in Live
        PROVE  /\ rows[i].path # j.want.path /\ rows[i].baseline.name # j.want.conf.name
               /\ rows[i].port # j.want.conf.port
    BY <1>2, <2>1, <2>2, <2>3, TargetPortFree DEF Free, Takes
  <2>5. ~Conflict(j.want, j.id)
    BY <2>4 DEF Conflict, Named, PathTaken, PortTaken
  <2>6. Proceed(h)
    BY <1>1, <1>6, <2>5 DEF Check, ReadConfig, CheckRows, CheckTarget, CheckPort, At
  <2>7. Others(h) /\ Onward(h)
    <3>1. ~Ends(h)
      BY <2>2 DEF Ends
    <3> QED BY <1>2, <2>6, <3>1, GoesOn
  <2> QED BY <1>2, <1>3, <1>4, <2>7, CalmSteady
<1> QED BY <1>5, <1>6

LEMMA ObserveSteady ==
  ASSUME TypeOK, PathsUnique, Safe, Steady, NEW h \in Handlers, Observe(h)
  PROVE  Steady'
<1> DEFINE j == job[h]
<1>1. PICK t \in {"status", "statusAll", "readCurrent", "readBackup"} : At(h, t)
  BY DEF Observe, Status, StatusAll, ReadCurrent, ReadBackup
<1>2. Busy(h) /\ UNCHANGED <<db, files, procs>>
  BY <1>1 DEF At, Observe, Status, StatusAll, ReadCurrent, ReadBackup
<1>3. /\ \A i \in Ids : SameRow(i)
      /\ \A n \in Names : SameProgram(n)
      /\ UNCHANGED <<ini, bak>>
  BY <1>2 DEF SameRow, SameProgram, db, files
<1>4. \A s \in Stages : ~At(h, s)
  BY <1>1 DEF At, Stages
<1>5. Works(h) => ~Ends(h) /\ ~At(h, "statusAll")
  <2>1. Works(h) => t = "status" /\ j.op \in {"update", "restore"}
    BY <1>1, <1>2, CallsOf, Workers DEF Callers, RuntimeOps
  <2>2. ASSUME t = "status", j.op = "update" PROVE ~Last(h)
    BY <1>1, <1>2, <2>2, UpdateStages DEF Stands
  <2>3. ASSUME t = "status", j.op = "restore" PROVE ~Last(h)
    BY <1>1, <1>2, <2>3, RestoreStages DEF Stands
  <2>4. t = "status" => ~At(h, "statusAll")
    BY <1>1 DEF At
  <2> QED BY <2>1, <2>2, <2>3, <2>4 DEF Ends
<1> QED BY <1>2, <1>3, <1>4, <1>5, ObserveGoesOn, CalmSteady DEF Ends

LEMMA PowerSteady ==
  ASSUME TypeOK, PathsUnique, Safe, Steady, NEW h \in Handlers, Stop(h) \/ Start(h), faults' = 0
  PROVE  Steady'
<1> DEFINE j == job[h]
<1>1. PICK t \in {"stop", "start"} : At(h, t) /\ (Proceed(h) \/ Refuse(h))
  BY NoFault DEF Stop, Start, Reported
<1>2. Busy(h) /\ UNCHANGED <<db, files>>
  BY <1>1 DEF At, Stop, Start
<1>3. \A s \in Stages : ~At(h, s)
  BY <1>1 DEF At, Stages
<1>4. \A i \in Ids : SameRow(i)
  BY <1>2 DEF SameRow, db
<1>5. ASSUME NEW n \in Names PROVE SameProgram(n)
  <2> DEFINE m == j.row.baseline.name
  <2>1. PICK b \in BOOLEAN : \/ UNCHANGED procs
                             \/ procs[m] # None /\ procs' = [procs EXCEPT ![m].up = b]
    <3>1. CASE Stop(h)
      <4>1. \/ UNCHANGED procs
            \/ procs[m] # None /\ procs' = [procs EXCEPT ![m].up = FALSE]
        BY <3>1 DEF Stop
      <4> QED BY <4>1
    <3>2. CASE Start(h)
      <4>1. \/ UNCHANGED procs
            \/ procs[m] # None /\ procs' = [procs EXCEPT ![m].up = TRUE]
        BY <3>2 DEF Start
      <4> QED BY <4>1
    <3> QED BY <3>1, <3>2
  <2> HIDE DEF m
  <2>2. CASE UNCHANGED procs
    BY <2>2 DEF SameProgram
  <2>3. CASE procs[m] # None /\ procs' = [procs EXCEPT ![m].up = b] /\ n = m
    <3>1. procs[n] \in Proc /\ procs'[n] = [procs[n] EXCEPT !.up = b]
      BY <2>3 DEF TypeOK
    <3>2. procs'[n] \in Proc /\ procs'[n].conf = procs[n].conf
      BY <3>1 DEF Proc
    <3> QED BY <3>1, <3>2, NoneAssumption DEF SameProgram
  <2>4. CASE procs' = [procs EXCEPT ![m].up = b] /\ n # m
    <3>1. procs'[n] = procs[n]
      BY <2>4 DEF TypeOK
    <3> QED BY <3>1 DEF SameProgram
  <2> QED BY <2>1, <2>2, <2>3, <2>4
<1>6. ~Works(h)
  <2>1. Works(h) => t = "stop" /\ j.op \in {"update", "archive"}
    BY <1>1, <1>2, CallsOf, Workers DEF Callers, RuntimeOps
  <2> QED BY <1>1, <1>2, <2>1, UpdateStages, ArchiveStages, Workers DEF Stands
<1>7. ~At(h, "rmBackup") /\ ~At(h, "insert") /\ ~At(h, "save") /\ ~At(h, "recheckRows")
  BY <1>1 DEF At
<1>8. Others(h) /\ (job'[h] = Idle \/ Onward(h))
  BY <1>1, <1>2, <1>3, <1>7, CallLeads DEF Falls, Undoes, Stages
<1> QED BY <1>2, <1>3, <1>4, <1>5, <1>6, <1>8, CalmSteady DEF files

\* A reload: what nobody works on stays, and the handler gets what it wrote.
LEMMA ApplySteady ==
  ASSUME TypeOK, PathsUnique, Safe, Steady, NEW h \in Handlers, Apply(h), faults' = 0
  PROVE  Steady'
<1> DEFINE j == job[h]
<1>1. /\ At(h, "apply") /\ Busy(h) /\ UNCHANGED <<db, files>> /\ Proceed(h)
      /\ \A n \in Names : procs'[n] \in Outcomes(n)
  BY NoFault DEF Apply, At, Reported
<1>2. Others(h) /\ (Onward(h) \/ Ends(h)) /\ Staged(h)
  BY <1>1, GoesOn DEF Steady
<1>3. j.op \in {"create", "update", "archive", "restore", "delete"}
  BY <1>1, <1>2, CallsOf DEF Callers, OfTarget, Staged, Undone
<1>4. \A n \in Names : SameProgram(n) \/ TendedName(n)
  <2> SUFFICES ASSUME NEW n \in Names, ~TendedName(n) PROVE SameProgram(n)
    OBVIOUS
  <2>1. procs'[n] = procs[n]
    BY <1>1, UntendedRuns
  <2> QED BY <2>1 DEF SameProgram
<1>5. ASSUME NEW g \in Handlers \ {h}, Busy(g)' PROVE Staged(g)'
  <2>1. job'[g] = job[g] /\ Busy(g)
    BY <1>2, <1>5 DEF Others, Busy
  <2>2. Past(g, "apply") => Running(g)'
    BY <1>1, <2>1, AppliedRuns
  <2> QED BY <1>1, <1>2, <1>5, <2>2, OthersStaged DEF files
<1>6. CASE Ends(h)
  <2>1. ~Works(h)
    <3>1. j.op \notin {"create", "update", "archive", "restore"}
      <4> SUFFICES ASSUME j.op \in {"create", "update", "archive", "restore"}
                   PROVE  ~Last(h)
        BY <1>6 DEF Ends
      <4>1. CASE j.op = "create"
        BY <1>1, <4>1, CreateStages DEF Stands
      <4>2. CASE j.op = "update"
        BY <1>1, <4>2, UpdateStages DEF Stands
      <4>3. CASE j.op = "archive"
        BY <1>1, <4>3, ArchiveStages DEF Stands
      <4>4. CASE j.op = "restore"
        BY <1>1, <4>4, RestoreStages DEF Stands
      <4> QED BY <4>1, <4>2, <4>3, <4>4
    <3> QED BY <1>1, <3>1, Workers
  <2>2. ~Busy(h)'
    BY <1>6, IdleType DEF Ends, Busy
  <2>3. \A i \in Ids : SameRow(i)
    BY <1>1 DEF SameRow, db
  <2> QED BY <1>1, <1>2, <1>4, <1>5, <2>1, <2>2, <2>3, QuietSteady DEF files
<1>7. CASE Onward(h)
  <2>1. /\ SameJob(h) /\ Busy(h)' /\ Past(h, "apply")'
        /\ \A s \in {"write", "rmOld", "copyBack", "backup"} : Past(h, s)' <=> Past(h, s)
    BY <1>1, <1>7, PastGrows DEF Onward, At
  <2>2. Running(h)'
    BY <1>1, <2>1, AppliedRuns DEF SameJob
  <2>3. Staged(h)' /\ (Works(h)' <=> Works(h))
    BY <1>1, <1>2, <2>1, <2>2, StagedKept DEF SameJob, files
  <2>4. \A i \in Ids : SameRow(i)
    BY <1>1 DEF SameRow, db
  <2> QED BY <1>1, <1>2, <1>4, <1>5, <2>1, <2>3, <2>4, QuietSteady DEF SameJob, files
<1> QED BY <1>2, <1>6, <1>7

-----------------------------------------------------------------------------
(***************************************************************************)
(* File commands.                                                          *)
(***************************************************************************)
LEMMA WriteSteady ==
  ASSUME TypeOK, PathsUnique, Safe, Steady, NEW h \in Handlers, Write(h), faults' = 0
  PROVE  Steady'
<1> DEFINE j == job[h]
<1>1. /\ At(h, "write") /\ Busy(h) /\ UNCHANGED <<db, bak, procs>> /\ Proceed(h)
      /\ ini' = [ini EXCEPT ![j.want.path] = j.want.conf] /\ Staged(h) /\ Open(h)
  BY NoFault DEF Write, At, Reported, Steady, Safe, Secured
<1>2. j.op \in {"create", "update"} /\ ~Past(h, "dropRow")
  BY <1>1, CallsOf DEF Callers
<1>3. ~Last(h) /\ ~Past(h, "write") /\ ~Past(h, "apply") /\ (j.op = "update" => ~Past(h, "rmOld"))
  <2>1. CASE j.op = "create"
    BY <1>1, <2>1, CreateStages DEF Stands
  <2>2. CASE j.op = "update"
    BY <1>1, <2>2, UpdateStages DEF Stands
  <2> QED BY <1>2, <2>1, <2>2
<1>4. Others(h) /\ Onward(h) /\ SameJob(h)
  BY <1>1, <1>3, GoesOn DEF Ends, Onward
<1>5. Busy(h)' /\ \A s : Past(h, s)' <=> (Past(h, s) \/ s = "write")
  BY <1>1, <1>4, PastGrows DEF At
<1>6. Works(h)'
  BY <1>5 DEF Works
<1>7. /\ j.want.path \in PathsOf(j)
      /\ \A p \in Paths : p # j.want.path => ini'[p] = ini[p]
  BY <1>1, <1>2, Holders DEF PathsOf, TypeOK
<1>8. Staged(h)'
  <2>1. ~Undone(h)' /\ Applied(h)'
    BY <1>1, <1>3, <1>4, <1>5 DEF Staged, Undone, Applied, SameJob
  <2>2. j.op = "update" /\ Moves(j) => ini'[j.row.path] = j.row.baseline
    <3> SUFFICES ASSUME j.op = "update", Moves(j) PROVE ini'[j.row.path] = j.row.baseline
      OBVIOUS
    <3>1. ~Works(h) /\ j.op \in OfRow /\ j.row.path \in Paths
      BY <1>1, <1>2, <1>3, Workers, Holders, ClaimsOf DEF Row
    <3>2. /\ Settled(j.id) /\ rows[j.id].path = j.row.path /\ rows[j.id].baseline = j.row.baseline
      BY <1>1, <1>2, <3>1, OwnSettled
    <3>3. ini[j.row.path] = j.row.baseline
      BY <1>1, <3>2 DEF Settled, Open
    <3> QED BY <1>7, <3>1, <3>3 DEF Moves
  <2>3. Placed(h)'
    BY <1>2, <1>3, <1>4, <1>5, <2>2 DEF Placed, Moves, SameJob
  <2> QED BY <2>1, <2>3 DEF Staged
<1> QED BY <1>1, <1>4, <1>5, <1>6, <1>7, <1>8, MovingSteady DEF db

LEMMA BackupSteady ==
  ASSUME TypeOK, PathsUnique, Safe, Steady, NEW h \in Handlers, Backup(h), faults' = 0
  PROVE  Steady'
<1> DEFINE j == job[h]
<1>1. /\ At(h, "backup") /\ Busy(h) /\ UNCHANGED <<db, ini, procs>> /\ Staged(h) /\ Open(h)
  BY DEF Backup, At, Steady, Safe, Secured
<1>2. j.op \in {"update", "archive"} /\ ~Past(h, "dropRow") /\ j.op \in OfRow
  BY <1>1, CallsOf, Holders DEF Callers
<1>3. /\ ~Last(h) /\ ~Past(h, "apply")
      /\ j.op = "update" => ~Past(h, "write")
      /\ j.op = "archive" => ~Past(h, "rmOld")
  <2>1. CASE j.op = "archive"
    BY <1>1, <2>1, ArchiveStages DEF Stands
  <2>2. CASE j.op = "update"
    BY <1>1, <2>2, UpdateStages DEF Stands
  <2> QED BY <1>2, <2>1, <2>2
<1>4. ~Works(h) /\ ~Past(h, "write")
  BY <1>1, <1>2, <1>3, Workers, CallsOf DEF Callers
<1>5. /\ j.id \in Live /\ ini[j.row.path] = j.row.baseline /\ j.row.path \in Paths
      /\ j.row.baseline # None /\ rows[j.id].path = j.row.path /\ ~rows[j.id].archived
  <2>1. /\ j.id \in Live /\ Settled(j.id) /\ rows[j.id].path = j.row.path
        /\ rows[j.id].baseline = j.row.baseline
    BY <1>1, <1>2, <1>4, OwnSettled
  <2>2. j.row.path \in Paths /\ j.row.baseline # None
    BY <1>1, <1>2, ClaimsOf, NoneAssumption DEF Row
  <2> QED BY <1>1, <1>2, <2>1, <2>2 DEF Settled, Open
<1>6. Proceed(h) /\ bak' = [bak EXCEPT ![j.row.path] = ini[j.row.path]]
  BY <1>5, NoFault DEF Backup, Reported
<1>7. Others(h) /\ Onward(h) /\ SameJob(h)
  BY <1>1, <1>3, <1>6, GoesOn DEF Ends, Onward
<1>8. Busy(h)' /\ \A s : Past(h, s)' <=> (Past(h, s) \/ s = "backup")
  BY <1>1, <1>7, PastGrows DEF At
<1>9. ~Works(h)'
  BY <1>2, <1>3, <1>4, <1>7, <1>8 DEF Works, SameJob
<1>10. bak'[j.row.path] = j.row.baseline /\ \A p \in Paths : p # j.row.path => bak'[p] = bak[p]
  BY <1>5, <1>6 DEF TypeOK
<1>11. Staged(h)'
  <2>1. ~Undone(h)' /\ Applied(h)'
    BY <1>1, <1>3, <1>7, <1>8 DEF Staged, Undone, Applied, SameJob
  <2>2. Placed(h)'
    BY <1>2, <1>3, <1>7, <1>8, <1>10 DEF Placed, SameJob
  <2> QED BY <2>1, <2>2 DEF Staged
<1>12. ASSUME NEW i \in Live, rows[i].archived PROVE bak'[rows[i].path] = bak[rows[i].path]
  <2>1. rows[i].path # j.row.path /\ rows[i].path \in Paths
    BY <1>5, <1>12 DEF PathsUnique, Live, TypeOK, Row
  <2> QED BY <1>10, <2>1
<1>13. ASSUME NEW g \in Handlers \ {h}, Busy(g)' PROVE Staged(g)'
  <2>1. Busy(g)
    BY <1>7, <1>13 DEF Others, Busy
  <2>2. \A p \in PathsOf(job[g]) : p # j.row.path /\ p \in Paths
    BY <1>1, <1>2, <2>1, OwnAlone, OwnIsClaimed DEF PathsOf
  <2> QED BY <1>1, <1>7, <1>10, <1>13, <2>2, OthersStaged DEF SameProgram
<1> QED BY <1>1, <1>4, <1>7, <1>9, <1>11, <1>12, <1>13, QuietSteady DEF SameRow, SameProgram, db

LEMMA CopyBackSteady ==
  ASSUME TypeOK, PathsUnique, Safe, Orderly, Steady, NEW h \in Handlers, CopyBack(h), faults' = 0
  PROVE  Steady'
<1> DEFINE j == job[h]
<1>1. /\ At(h, "copyBack") /\ Busy(h) /\ UNCHANGED <<db, bak, procs>> /\ Staged(h) /\ Minded(h)
  BY DEF CopyBack, At, Steady, Orderly
<1>2. j.op = "restore" /\ ~Past(h, "dropRow") /\ j.op \in OfRow
  BY <1>1, CallsOf, Holders DEF Callers, Staged, Undone
<1>3. ~Last(h) /\ ~Past(h, "apply") /\ ~Past(h, "copyBack") /\ ~Works(h)
  BY <1>1, <1>2, RestoreStages, Workers DEF Stands
<1>4. /\ bak[j.row.path] = j.row.baseline /\ j.row.path \in Paths /\ j.row.baseline # None
  <2>1. /\ j.id \in Live /\ Settled(j.id) /\ rows[j.id].path = j.row.path
        /\ rows[j.id].baseline = j.row.baseline
    BY <1>1, <1>2, <1>3, OwnSettled
  <2>2. j.row.path \in Paths /\ j.row.baseline # None
    BY <1>1, <1>2, ClaimsOf, NoneAssumption DEF Row
  <2>3. rows[j.id].archived
    BY <1>1, <1>2 DEF Minded, Entry
  <2> QED BY <2>1, <2>2, <2>3 DEF Settled
<1>5. Proceed(h) /\ ini' = [ini EXCEPT ![j.row.path] = bak[j.row.path]]
  BY <1>4, NoFault DEF CopyBack, Reported
<1>6. Others(h) /\ Onward(h) /\ SameJob(h)
  BY <1>1, <1>3, <1>5, GoesOn DEF Ends, Onward
<1>7. Busy(h)' /\ \A s : Past(h, s)' <=> (Past(h, s) \/ s = "copyBack")
  BY <1>1, <1>6, PastGrows DEF At
<1>8. Works(h)'
  BY <1>2, <1>6, <1>7 DEF Works, SameJob
<1>9. ini'[j.row.path] = j.row.baseline /\ \A p \in Paths : p # j.row.path => ini'[p] = ini[p]
  BY <1>4, <1>5 DEF TypeOK
<1>10. Staged(h)'
  <2>1. ~Undone(h)' /\ Applied(h)'
    BY <1>1, <1>3, <1>6, <1>7 DEF Staged, Undone, Applied, SameJob
  <2>2. Placed(h)'
    BY <1>2, <1>6, <1>9 DEF Placed, SameJob
  <2> QED BY <2>1, <2>2 DEF Staged
<1>11. j.row.path \in PathsOf(j)
  BY <1>2 DEF PathsOf
<1> QED BY <1>1, <1>6, <1>7, <1>8, <1>9, <1>10, <1>11, MovingSteady DEF db

LEMMA RemoveOldSteady ==
  ASSUME TypeOK, PathsUnique, Safe, Steady, NEW h \in Handlers, RemoveOld(h), faults' = 0
  PROVE  Steady'
<1> DEFINE j == job[h]
<1>1. /\ At(h, "rmOld") /\ Busy(h) /\ UNCHANGED <<db, bak, procs>> /\ Staged(h) /\ Open(h)
  BY DEF RemoveOld, At, Steady, Safe, Secured
<1>2. j.op \in {"update", "archive"} /\ ~Past(h, "dropRow") /\ j.op \in OfRow
  BY <1>1, CallsOf, Holders DEF Callers
<1>3. /\ ~Last(h) /\ ~Past(h, "apply") /\ ~Past(h, "rmOld")
      /\ j.op = "update" => Past(h, "write")
  <2>1. CASE j.op = "archive"
    BY <1>1, <2>1, ArchiveStages DEF Stands
  <2>2. CASE j.op = "update"
    BY <1>1, <2>2, UpdateStages DEF Stands
  <2> QED BY <1>2, <2>1, <2>2
<1>4. j.row.path \in Paths /\ j.row.baseline # None /\ j.row.path \in PathsOf(j)
  BY <1>1, <1>2, ClaimsOf, NoneAssumption DEF Row, PathsOf
<1>5. j.op = "archive" \/ Moves(j) => ini[j.row.path] = j.row.baseline
  <2>1. CASE j.op = "update"
    BY <1>1, <1>3, <2>1 DEF Staged, Placed
  <2>2. CASE j.op = "archive"
    <3>1. ~Works(h)
      BY <1>1, <1>3, <2>2, Workers
    <3>2. /\ Settled(j.id) /\ rows[j.id].path = j.row.path /\ rows[j.id].baseline = j.row.baseline
      BY <1>1, <1>2, <3>1, OwnSettled
    <3> QED BY <1>1, <2>2, <3>2 DEF Settled, Open
  <2> QED BY <1>2, <2>1, <2>2
<1>6. /\ Proceed(h)
      /\ j.op = "archive" \/ Moves(j) => ini' = [ini EXCEPT ![j.row.path] = None]
      /\ ~(j.op = "archive" \/ Moves(j)) => ini' = ini
  BY <1>2, <1>4, <1>5, NoFault DEF RemoveOld, Reported
<1>7. Others(h) /\ Onward(h) /\ SameJob(h)
  BY <1>1, <1>3, <1>6, GoesOn DEF Ends, Onward
<1>8. Busy(h)' /\ \A s : Past(h, s)' <=> (Past(h, s) \/ s = "rmOld")
  BY <1>1, <1>7, PastGrows DEF At
<1>9. Works(h)'
  BY <1>2, <1>3, <1>7, <1>8 DEF Works, SameJob
<1>10. /\ j.op = "archive" \/ Moves(j) => ini'[j.row.path] = None
       /\ \A p \in Paths : p # j.row.path => ini'[p] = ini[p]
  BY <1>4, <1>6 DEF TypeOK
<1>11. Staged(h)'
  <2>1. ~Undone(h)' /\ Applied(h)'
    BY <1>1, <1>3, <1>7, <1>8 DEF Staged, Undone, Applied, SameJob
  <2>2. CASE j.op = "update"
    <3>1. Placed(h)'
      BY <1>7, <1>8, <1>10, <2>2 DEF Placed, Moves, SameJob
    <3> QED BY <2>1, <3>1 DEF Staged
  <2>3. CASE j.op = "archive"
    <3>1. Placed(h)'
      BY <1>1, <1>7, <1>8, <1>10, <2>3 DEF Placed, SameJob, Staged
    <3> QED BY <2>1, <3>1 DEF Staged
  <2> QED BY <1>2, <2>2, <2>3
<1> QED BY <1>1, <1>4, <1>7, <1>8, <1>9, <1>10, <1>11, MovingSteady DEF db

\* Nothing is undone while nothing fails.
LEMMA RemoveTargetNever ==
  ASSUME TypeOK, Steady, NEW h \in Handlers, RemoveTarget(h)
  PROVE  FALSE
BY CallsOf DEF RemoveTarget, At, Callers, Steady, Staged, Undone

\* The row of a delete is gone before its files: nobody has the path any more.
LEMMA CleanUpSteady ==
  ASSUME TypeOK, PathsUnique, Safe, Steady, NEW h \in Handlers, RemoveBackup(h) \/ RemoveFile(h),
         faults' = 0
  PROVE  Steady'
<1> DEFINE j == job[h]
<1>1. /\ At(h, "rmBackup") \/ At(h, "rmFile")
      /\ Busy(h) /\ UNCHANGED <<db, procs>>
  BY DEF RemoveBackup, RemoveFile, At
<1>2. /\ j.op = "delete" /\ j.op \in OfRow /\ Past(h, "dropRow") /\ Gone(h)
  BY <1>1, CallsOf, OrderOfCalls, Holders DEF Callers, Behind, Safe, Secured
<1>3. /\ ~Works(h) /\ j.row.path \in Paths /\ ~Tended(j.row.path)
  BY <1>1, <1>2, Workers, ClaimsOf, Untended DEF Row, PathsOf
<1>4. ini[j.row.path] = None
  BY <1>2, <1>3 DEF Steady, Active, Gone
<1>5. /\ ini' = ini /\ \A p \in Paths : p # j.row.path => bak'[p] = bak[p]
      /\ Proceed(h) \/ job' = [job EXCEPT ![h] = Idle]
  BY <1>4, NoFault DEF RemoveBackup, RemoveFile, Reported, TypeOK
<1>6. Others(h) /\ (job'[h] = Idle \/ Onward(h))
  <2>1. job' = [job EXCEPT ![h] = Idle] => Others(h) /\ job'[h] = Idle
    BY DEF Others, TypeOK
  <2> QED BY <1>1, <1>5, <2>1, CallLeads
<1>7. ASSUME NEW i \in Live PROVE bak'[rows[i].path] = bak[rows[i].path]
  BY <1>2, <1>5 DEF Gone, Live, TypeOK, Row
<1>8. ASSUME NEW g \in Handlers \ {h}, Busy(g)' PROVE Staged(g)'
  <2>1. Busy(g)
    BY <1>6, <1>8 DEF Others, Busy
  <2>2. \A p \in PathsOf(job[g]) : p # j.row.path /\ p \in Paths
    BY <1>1, <1>2, <2>1, OwnAlone, OwnIsClaimed DEF PathsOf
  <2> QED BY <1>1, <1>5, <1>6, <1>8, <2>2, OthersStaged DEF SameProgram
<1>9. ASSUME Busy(h)' PROVE ~Works(h)' /\ Staged(h)'
  <2>1. Onward(h)
    BY <1>6, <1>9, IdleType DEF Busy
  <2>2. job'[h].op = "delete" /\ ~Past(h, "write")'
    BY <1>1, <1>2, <1>3, <2>1, PastGrows DEF Onward, SameJob, Works, At
  <2> QED BY <2>2 DEF Works, Staged, Undone, Placed, Applied, Running
<1> QED BY <1>1, <1>3, <1>5, <1>6, <1>7, <1>8, <1>9, QuietSteady DEF SameRow, SameProgram, db

-----------------------------------------------------------------------------
(***************************************************************************)
(* Database writes.                                                        *)
(***************************************************************************)
LEMMA SaveStatusSteady ==
  ASSUME TypeOK, PathsUnique, Safe, Steady, NEW h \in Handlers, SaveStatus(h)
  PROVE  Steady'
<1>1. At(h, "saveStatus") /\ Busy(h) /\ UNCHANGED <<files, procs>>
  BY DEF SaveStatus, At
<1>2. ~Works(h)
  BY <1>1, CallsOf, Workers DEF Callers, RuntimeOps
<1>3. \A s \in Stages : ~At(h, s)
  BY <1>1 DEF At, Stages
<1>4. \A i \in Ids : SameRow(i)
  BY StatusCalm, SaveStatusPorts DEF RowsCalm, PortsCalm, SameRow
<1>5. Others(h) /\ (job'[h] = Idle \/ Onward(h) \/ Pauses(h))
  BY SaveStatusLeads
<1>6. \A n \in Names : SameProgram(n)
  BY <1>1 DEF SameProgram
<1> QED BY <1>1, <1>2, <1>3, <1>4, <1>5, <1>6, CalmSteady DEF files

\* The port a sync writes is the one it read from the .ini the row records.
LEMMA SaveSyncSteady ==
  ASSUME TypeOK, PathsUnique, Safe, Orderly, Steady, NEW h \in Handlers, SaveSync(h)
  PROVE  Steady'
<1>1. PICK k : k = job[h].id
  OBVIOUS
<1>2. /\ At(h, "saveSync") /\ Busy(h) /\ UNCHANGED <<files, procs>>
  BY DEF SaveSync, At
<1>3. job[h].op = "sync" /\ job[h].op \in OfRow /\ ~Past(h, "dropRow")
  <2>1. job[h].op = "sync"
    BY <1>2, CallsOf DEF Callers
  <2> QED BY <1>2, <2>1, CallsOf, OpsAre DEF Callers, OfRow
<1>4. ~Works(h)
  BY <1>2, <1>3, Workers
<1>5. k \in Live /\ Settled(k) /\ ~rows[k].archived /\ rows[k].port = rows[k].baseline.port
  BY <1>1, <1>2, <1>3, <1>4, OwnSettled, SaveSyncDoes DEF Steady
<1>6. SameRow(k)
  <2>1. /\ rows'[k] \in Row /\ rows'[k].path = rows[k].path
        /\ rows'[k].baseline = rows[k].baseline /\ ~rows'[k].archived
        /\ rows[k] \in Row
    BY <1>1, SaveSyncDoes
  <2>2. rows'[k].port = rows[k].port
    <3>1. \/ rows'[k].port = rows[k].port
          \/ rows'[k].port = ini[rows[k].path].port
      BY <1>1, SaveSyncDoes
    <3>2. ini[rows[k].path] = rows[k].baseline
      BY <1>5 DEF Settled
    <3> QED BY <1>5, <3>1, <3>2
  <2>3. rows'[k].archived = rows[k].archived
    BY <1>5, <2>1 DEF Row
  <2> QED BY <2>1, <2>2, <2>3, NoneAssumption DEF SameRow
<1>7. \A i \in Ids : SameRow(i)
  BY <1>1, <1>6, SaveSyncDoes DEF SameRow
<1>8. Others(h) /\ job'[h] = Idle
  BY <1>1, SaveSyncDoes
<1>9. \A n \in Names : SameProgram(n)
  BY <1>2 DEF SameProgram
<1> QED BY <1>2, <1>4, <1>7, <1>8, <1>9, CalmSteady DEF files

\* An archived service has no .ini and no program: its row can go.
LEMMA DropRowSteady ==
  ASSUME TypeOK, PathsUnique, Safe, Orderly, Steady, NEW h \in Handlers, DropRow(h)
  PROVE  Steady'
<1> DEFINE j == job[h]
<1>1. PICK k : k = job[h].id
  OBVIOUS
<1>2. /\ Busy(h) /\ j.op = "delete" /\ j.op \in OfRow /\ ~Past(h, "dropRow")
      /\ k \in Ids /\ rows'[k] = None /\ \A i \in Ids \ {k} : rows'[i] = rows[i]
      /\ UNCHANGED <<files, procs>> /\ Others(h) /\ (job'[h] = Idle \/ Onward(h))
      /\ At(h, "dropRow")
  BY <1>1, DropRowDoes DEF DropRow
<1>3. ~Works(h)
  BY <1>2, Workers
<1>4. ini[j.row.path] = None /\ procs[j.row.baseline.name] = None
  <2>1. Settled(k) /\ rows[k].path = j.row.path /\ rows[k].baseline = j.row.baseline
    BY <1>1, <1>2, <1>3, OwnSettled
  <2>2. rows[k].archived
    BY <1>1, <1>2 DEF Orderly, Minded, Entry
  <2> QED BY <2>1, <2>2 DEF Settled
<1>5. PathsOf(j) = {j.row.path} /\ NamesOf(j) = {j.row.baseline.name}
  BY <1>2, Holders DEF PathsOf, NamesOf
<1>6. ASSUME Busy(h)' PROVE ~Works(h)' /\ Staged(h)'
  <2>1. Onward(h)
    BY <1>2, <1>6, IdleType DEF Busy
  <2>2. job'[h].op = "delete" /\ ~Past(h, "write")'
    BY <1>2, <1>3, <2>1, PastGrows DEF Onward, SameJob, Works, At
  <2> QED BY <2>2 DEF Works, Staged, Undone, Placed, Applied, Running
<1>7. /\ \A i \in Live \ {k} : /\ rows[i].path \notin PathsOf(j)
                               /\ rows[i].baseline.name \notin NamesOf(j)
      /\ rows[k].path \in PathsOf(j) /\ rows[k].baseline.name \in NamesOf(j)
  BY <1>1, <1>2, <1>5, OwnRow
<1> QED BY <1>2, <1>4, <1>5, <1>6, <1>7, EndingSteady

\* What a create leaves: the row, its .ini and the program it declares.
LEMMA InsertSteady ==
  ASSUME TypeOK, PathsUnique, Safe, Steady, NEW h \in Handlers, Insert(h)
  PROVE  Steady'
<1> DEFINE j == job[h]
<1>1. PICK w : w = job[h].want
  OBVIOUS
<1>2. PICK k : k = nextId
  OBVIOUS
<1>3. At(h, "insert") /\ Busy(h) /\ UNCHANGED procs
  BY DEF Insert, At
<1>4. j.op = "create" /\ j.op \in OfTarget /\ j.op \notin OfRow
  BY <1>3, CallsOf, Holders DEF Callers, OfRow
<1>5. Past(h, "checkRows") /\ Past(h, "write") /\ Past(h, "apply") /\ Works(h)
  BY <1>3, <1>4, CreateStages, Workers DEF Stands
<1>6. j.id = 0 /\ Free(h) /\ Staged(h)
  BY <1>3, <1>4 DEF Safe, Secured, Rowless, Steady
<1>7. ~PathTaken(w.path, 0)
  BY <1>1, <1>5, <1>6 DEF PathTaken, Free
<1>8. /\ w \in Target /\ ini[w.path] = w.conf /\ k \in Ids /\ rows[k] = None
      /\ rows'[k] = NewRow(w) /\ NewRow(w) \in Row /\ \A i \in Ids \ {k} : rows'[i] = rows[i]
      /\ UNCHANGED files /\ Others(h) /\ job'[h] = Idle
  BY <1>1, <1>2, <1>7, InsertDoes
<1>9. PathsOf(j) = {w.path} /\ NamesOf(j) = {w.conf.name}
  BY <1>1, <1>4 DEF PathsOf, NamesOf
<1>10. Runs(w.conf.name, w.conf)
  BY <1>1, <1>4, <1>5, <1>6 DEF Staged, Applied, Running
<1>11. /\ rows'[k] # None /\ rows'[k].path = w.path /\ rows'[k].baseline = w.conf
       /\ rows'[k].port = w.conf.port /\ ~rows'[k].archived
  <2>1. /\ NewRow(w).path = w.path /\ NewRow(w).baseline = w.conf
        /\ NewRow(w).port = w.conf.port /\ ~NewRow(w).archived
    BY DEF NewRow
  <2> HIDE DEF j
  <2> QED BY <1>8, <2>1, NoneAssumption
<1>12. Settled(k)'
  BY <1>3, <1>8, <1>10, <1>11 DEF Settled, files, Runs
<1>13. \A i \in Live \ {k} : /\ rows[i].path \notin PathsOf(j)
                             /\ rows[i].baseline.name \notin NamesOf(j)
  <2>1. \A i \in Live : i # j.id
    BY <1>6 DEF Live, Ids
  <2> QED BY <1>3, <1>5, <2>1, OthersElsewhere
<1>14. ~Busy(h)'
  BY <1>8, IdleType DEF Busy
<1> QED BY <1>3, <1>8, <1>9, <1>11, <1>12, <1>13, <1>14, EndingSteady

\* An update leaves its target, and nothing at the old path or under the old
\* name.
LEMMA SaveUpdateSteady ==
  ASSUME TypeOK, PathsUnique, Safe, Steady, NEW h \in Handlers, SaveUpdate(h)
  PROVE  Steady'
<1> DEFINE j == job[h]
<1>1. PICK w : w = job[h].want
  OBVIOUS
<1>2. PICK k : k = job[h].id
  OBVIOUS
<1>3. At(h, "save") /\ Busy(h) /\ UNCHANGED procs
  BY DEF SaveUpdate, At
<1>4. j.op = "update" /\ j.op \in OfTarget /\ j.op \in OfRow /\ ~Past(h, "dropRow")
  BY <1>3, CallsOf, Holders DEF Callers
<1>5. Past(h, "checkRows") /\ Past(h, "write") /\ Past(h, "rmOld") /\ Past(h, "apply") /\ Works(h)
  BY <1>3, <1>4, UpdateStages, Workers DEF Stands
<1>6. Free(h) /\ Staged(h)
  BY <1>3 DEF Safe, Secured, Steady
<1>7. ~PathTaken(w.path, k)
  BY <1>1, <1>2, <1>5, <1>6 DEF PathTaken, Free
<1>8. /\ w \in Target /\ ini[w.path] = w.conf /\ k \in Ids /\ rows[k] # None
      /\ rows'[k] \in Row /\ rows'[k].path = w.path /\ rows'[k].baseline = w.conf
      /\ rows'[k].port = w.conf.port /\ ~rows'[k].archived
      /\ \A i \in Ids \ {k} : rows'[i] = rows[i]
      /\ UNCHANGED files /\ Others(h) /\ job'[h] = Idle
  BY <1>1, <1>2, <1>7, SaveUpdateDoes
<1>9. /\ PathsOf(j) = {w.path, j.row.path}
      /\ NamesOf(j) = {w.conf.name, j.row.baseline.name}
  BY <1>1, <1>4 DEF PathsOf, NamesOf
<1>10. /\ Runs(w.conf.name, w.conf)
       /\ w.conf.name # j.row.baseline.name => procs[j.row.baseline.name] = None
  BY <1>1, <1>4, <1>5, <1>6 DEF Staged, Applied, Running
<1>11. w.path # j.row.path => ini[j.row.path] = None
  BY <1>1, <1>4, <1>5, <1>6 DEF Staged, Placed, Moves
<1>12. rows'[k] # None /\ Settled(k)'
  BY <1>3, <1>8, <1>10, NoneAssumption DEF Settled, files, Runs
<1>13. /\ \A i \in Live \ {k} : /\ rows[i].path \notin PathsOf(j)
                                /\ rows[i].baseline.name \notin NamesOf(j)
       /\ rows[k].path \in PathsOf(j) /\ rows[k].baseline.name \in NamesOf(j)
  BY <1>2, <1>3, <1>4, <1>5, OthersElsewhere, OwnRow
<1>14. ~Busy(h)'
  BY <1>8, IdleType DEF Busy
<1>15. /\ \A p \in PathsOf(j) : ini[p] # None => p = w.path
       /\ \A n \in NamesOf(j) : procs[n] # None => n = w.conf.name
  BY <1>9, <1>10, <1>11
<1> QED BY <1>3, <1>8, <1>12, <1>13, <1>14, <1>15, EndingSteady

LEMMA MarkArchivedSteady ==
  ASSUME TypeOK, PathsUnique, Safe, Steady, NEW h \in Handlers, MarkArchived(h)
  PROVE  Steady'
<1> DEFINE j == job[h]
<1>1. PICK k : k = job[h].id
  OBVIOUS
<1>2. At(h, "markArchived") /\ Busy(h) /\ UNCHANGED procs
  BY DEF MarkArchived, At
<1>3. j.op = "archive" /\ j.op \in OfRow /\ j.op \notin OfTarget /\ ~Past(h, "dropRow")
  BY <1>2, CallsOf, Holders DEF Callers
<1>4. Past(h, "backup") /\ Past(h, "rmOld") /\ Past(h, "apply") /\ Works(h)
  BY <1>2, <1>3, ArchiveStages, Workers DEF Stands
<1>5. /\ ini[j.row.path] = None /\ bak[j.row.path] = j.row.baseline
      /\ procs[j.row.baseline.name] = None
  BY <1>2, <1>3, <1>4 DEF Steady, Staged, Placed, Applied, Running
<1>6. /\ k \in Live /\ k \in Ids /\ rows[k] \in Row /\ rows[k].path = j.row.path
      /\ rows[k].baseline = j.row.baseline
      /\ rows'[k] = [rows[k] EXCEPT !.archived = TRUE, !.status = "STOPPED"]
      /\ \A i \in Ids \ {k} : rows'[i] = rows[i]
      /\ UNCHANGED files /\ Others(h) /\ job'[h] = Idle
  BY <1>1, MarkArchivedDoes
<1>7. PathsOf(j) = {j.row.path} /\ NamesOf(j) = {j.row.baseline.name}
  BY <1>3 DEF PathsOf, NamesOf
<1>8. /\ rows'[k] \in Row /\ rows'[k].archived /\ rows'[k].path = rows[k].path
      /\ rows'[k].baseline = rows[k].baseline /\ rows'[k].port = rows[k].port
  BY <1>6 DEF Row, Statuses
<1>9. Settled(k)' /\ rows'[k].port = rows'[k].baseline.port
  BY <1>2, <1>5, <1>6, <1>8 DEF Settled, files, Steady
<1>10. /\ \A i \in Live \ {k} : /\ rows[i].path \notin PathsOf(j)
                                /\ rows[i].baseline.name \notin NamesOf(j)
       /\ rows[k].path \in PathsOf(j) /\ rows[k].baseline.name \in NamesOf(j)
  BY <1>1, <1>2, <1>3, <1>4, OthersElsewhere, OwnRow
<1>11. ~Busy(h)'
  BY <1>6, IdleType DEF Busy
<1>12. /\ \A p \in PathsOf(j) : ini[p] = None
       /\ \A n \in NamesOf(j) : procs[n] = None
  BY <1>5, <1>7
<1> QED BY <1>2, <1>6, <1>9, <1>10, <1>11, <1>12, EndingSteady

LEMMA MarkRestoredSteady ==
  ASSUME TypeOK, PathsUnique, Safe, Orderly, Steady, NEW h \in Handlers, MarkRestored(h)
  PROVE  Steady'
<1> DEFINE j == job[h]
<1>1. PICK k : k = job[h].id
  OBVIOUS
<1>2. At(h, "markRestored") /\ Busy(h) /\ UNCHANGED procs
  BY DEF MarkRestored, At
<1>3. j.op = "restore" /\ j.op \in OfRow /\ j.op \notin OfTarget /\ ~Past(h, "dropRow")
  BY <1>2, CallsOf, Holders DEF Callers
<1>4. Past(h, "copyBack") /\ Past(h, "apply") /\ Works(h)
  BY <1>2, <1>3, RestoreStages, Workers DEF Stands
<1>5. ini[j.row.path] = j.row.baseline /\ Runs(j.row.baseline.name, j.row.baseline)
  BY <1>2, <1>3, <1>4 DEF Steady, Staged, Placed, Applied, Running
<1>6. /\ k \in Live /\ k \in Ids /\ rows'[k] \in Row /\ rows'[k].path = rows[k].path
      /\ rows'[k].port = rows[k].port /\ rows'[k].baseline = rows[k].baseline
      /\ ~rows'[k].archived /\ \A i \in Ids \ {k} : rows'[i] = rows[i]
      /\ UNCHANGED files /\ Others(h) /\ job'[h] = Idle
  BY <1>1, MarkRestoredDoes
<1>7. PathsOf(j) = {j.row.path} /\ NamesOf(j) = {j.row.baseline.name}
  BY <1>3 DEF PathsOf, NamesOf
<1>8. /\ rows[k].path = j.row.path /\ rows[k].baseline = j.row.baseline
      /\ \A i \in Live \ {k} : /\ rows[i].path \notin PathsOf(j)
                               /\ rows[i].baseline.name \notin NamesOf(j)
      /\ rows[k].path \in PathsOf(j) /\ rows[k].baseline.name \in NamesOf(j)
  BY <1>1, <1>2, <1>3, <1>4, OthersElsewhere, OwnRow
<1>9. /\ Settled(k)' /\ rows'[k].port = rows'[k].baseline.port /\ rows'[k] # None
  BY <1>2, <1>5, <1>6, <1>8, NoneAssumption DEF Settled, files, Steady, Runs
<1>10. ~Busy(h)'
  BY <1>6, IdleType DEF Busy
<1> QED BY <1>2, <1>6, <1>7, <1>8, <1>9, <1>10, EndingSteady

-----------------------------------------------------------------------------
(***************************************************************************)
(* The theorem.                                                            *)
(***************************************************************************)
LEMMA BeginSteady ==
  ASSUME TypeOK, PathsUnique, Safe, Steady, NEW h \in Handlers, Begin(h)
  PROVE  Steady'
<1>1. PICK op \in Ops \ {"undoCreate", "undoUpdate"}, i \in Ids \cup {0},
           r \in Row \cup {None}, w \in Target \cup {None} :
        Accept(h, Started(op, i, r, w))
  BY BeginLoads
<1>2. /\ job'[h] = Started(op, i, r, w) /\ Others(h)
      /\ UNCHANGED <<rows, ini, bak, procs>>
  BY <1>1 DEF Accept, TypeOK, Others, db, files
<1>3. /\ \A s : ~Past(h, s)'
      /\ job'[h].op = op
  BY <1>2 DEF Past, Started
<1>4. ~Works(h)' /\ Staged(h)'
  BY <1>3 DEF Works, Staged, Undone, Placed, Applied
<1>5. ~Busy(h)
  BY DEF Begin
<1>6. ASSUME NEW g \in Handlers \ {h}, Busy(g)' PROVE Staged(g)'
  BY <1>2, <1>6, OthersStaged DEF SameProgram
<1> QED BY <1>2, <1>4, <1>5, <1>6, QuietSteady DEF SameRow, SameProgram

LEMMA SteadyStays ==
  ASSUME TypeOK, PathsUnique, Safe, Steady, UNCHANGED vars
  PROVE  Steady'
<1>1. UNCHANGED <<rows, ini, bak, procs, job>>
  BY DEF vars
<1>2. PICK h \in Handlers : Others(h)
  BY <1>1, HandlersAssumption DEF Others
<1>3. ASSUME NEW g \in Handlers
      PROVE  (\A s : Past(g, s)' <=> Past(g, s)) /\ (Busy(g)' <=> Busy(g))
  BY <1>1 DEF Past, Busy
<1>4. ASSUME NEW g \in Handlers, Busy(g)' PROVE Staged(g)' /\ (Works(g)' <=> Works(g))
  <2>1. Busy(g) /\ Staged(g)
    BY <1>3, <1>4 DEF Steady
  <2> QED BY <1>1, <1>3, <2>1, StagedKept DEF SameProgram
<1> QED BY <1>1, <1>2, <1>3, <1>4, QuietSteady DEF SameRow, SameProgram

LEMMA SteadyNext ==
  ASSUME TypeOK, PathsUnique, Safe, Orderly, StillSteady, [Next]_vars
  PROVE  StillSteady'
<1> SUFFICES ASSUME faults' = 0 PROVE Steady'
  BY DEF StillSteady
<1>1. Steady
  BY FaultsStay DEF StillSteady
<1>2. ASSUME NEW h \in Handlers, Check(h) \/ Control(h) \/ Observe(h) \/ Begin(h) PROVE Steady'
  BY <1>1, <1>2, CheckSteady, ApplySteady, PowerSteady, ObserveSteady, BeginSteady DEF Control
<1>3. ASSUME NEW h \in Handlers, FileCmd(h) PROVE Steady'
  BY <1>1, <1>3, WriteSteady, BackupSteady, CopyBackSteady, RemoveOldSteady, RemoveTargetNever,
     CleanUpSteady DEF FileCmd
<1>4. ASSUME NEW h \in Handlers, Store(h) PROVE Steady'
  BY <1>1, <1>4, InsertSteady, SaveUpdateSteady, MarkArchivedSteady, MarkRestoredSteady,
     DropRowSteady, SaveStatusSteady, SaveSyncSteady DEF Store
<1>5. ~Crash /\ \A h \in Handlers : ~CallFails(h)
  BY NoFault DEF Crash, CallFails
<1> QED BY <1>1, <1>2, <1>3, <1>4, <1>5, SteadyStays DEF Next, Continue

LEMMA SteadyInit == Init => StillSteady
<1> SUFFICES ASSUME Init PROVE Steady
  BY DEF StillSteady
<1>1. Live = {} /\ (\A p \in Paths : ini[p] = None) /\ (\A n \in Names : procs[n] = None)
  BY DEF Init, Live
<1>2. \A h \in Handlers : ~Busy(h)
  BY IdleType DEF Init, Busy
<1> QED BY <1>1, <1>2 DEF Steady

LEMMA AlwaysSteady == ASSUME Exclusive PROVE Spec => []StillSteady
<1>1. TypeOK /\ PathsUnique /\ Safe /\ Orderly /\ StillSteady /\ [Next]_vars => StillSteady'
  BY SteadyNext
<1> QED BY <1>1, SteadyInit, TypeCorrect, PathsAreUnique, AlwaysSafe, AlwaysOrderly, PTL DEF Spec

\* While nothing has failed and no two requests in flight share a name, path or
\* port, every service that no request works on is as its row says: an active
\* one has its .ini and runs it, an archived one is only a .bak, and no .ini and
\* no program belongs to nobody.  So no reload, which acts on the whole host,
\* and no check that another request made stale ever reaches such a service.
THEOREM AgreementKept == ASSUME Exclusive PROVE Spec => []InStep
<1>1. TypeOK /\ StillSteady => InStep
  <2> SUFFICES ASSUME TypeOK, Steady PROVE Agree
    BY DEF StillSteady, InStep
  <2>1. /\ \A p : Tended(p) => InHand(p)
        /\ \A n : TendedName(n) => InHand(n)
    BY OwnIsClaimed DEF Tended, TendedName, InHand
  <2> QED BY <2>1 DEF Steady, Agree
<1> QED BY <1>1, AlwaysSteady, TypeCorrect, PTL

-----------------------------------------------------------------------------
(***************************************************************************)
(* How an archived service is listed.                                      *)
(***************************************************************************)

\* No refresh ever overlaps another request.
RefreshAlone == "refresh" \in Requests => \A g, h \in Handlers : g = h

\* What a refresh has read and not stored yet is about no archived service.
Fresh(h) == /\ "refresh" \in Requests
            /\ \A e \in job[h].seen, i \in Live :
                 rows[i].baseline.name = e[1] => ~rows[i].archived

Listed == \A i \in Live : rows[i].archived => rows[i].status = "STOPPED"

Shown == Listed /\ \A h \in Handlers : Busy(h) /\ job[h].op = "refresh" => Fresh(h)

StillShown == faults = 0 => Shown

LEMMA ShownBy ==
  ASSUME RefreshAlone, Shown, NEW h \in Handlers, Others(h), Listed',
         Busy(h)' /\ job'[h].op = "refresh" => Fresh(h)'
  PROVE  Shown'
<1>1. ASSUME NEW g \in Handlers \ {h}, Busy(g)', job'[g].op = "refresh" PROVE FALSE
  <2>1. Fresh(g)
    BY <1>1 DEF Others, Shown, Busy
  <2> QED BY <2>1 DEF Fresh, RefreshAlone
<1> QED BY <1>1 DEF Shown

\* Whoever is no refresh does not become one by going on.
LEMMA NoRefresh ==
  ASSUME TypeOK, NEW h \in Handlers, Busy(h), job[h].op # "refresh",
         job'[h] = Idle \/ Onward(h) \/ Pauses(h) \/ Undoes(h), Busy(h)'
  PROVE  job'[h].op # "refresh"
BY IdleType, UndoKeeps DEF Onward, Pauses, SameJob, Busy

LEMMA CallsShown ==
  ASSUME TypeOK, RefreshAlone, Shown, NEW h \in Handlers, Check(h) \/ FileCmd(h) \/ Control(h)
  PROVE  Shown'
<1>1. PICK s \in {"read", "checkRows", "recheckRows", "checkTarget", "checkPort", "write", "backup",
                  "copyBack", "rmOld", "rmTarget", "rmBackup", "rmFile", "apply", "stop",
                  "start"} : At(h, s)
  BY DEF Check, ReadConfig, CheckRows, CheckTarget, CheckPort, FileCmd, Write, Backup, CopyBack,
         RemoveOld, RemoveTarget, RemoveBackup, RemoveFile, Control, Apply, Stop, Start
<1>2. Busy(h) /\ job[h].op # "refresh"
  BY <1>1, CallsOf, OpsAre DEF Callers, OfTarget, At
<1>3. /\ rows' = rows
      /\ \/ Proceed(h) \/ Refuse(h) \/ Reported(h)
         \/ job' = [job EXCEPT ![h] = Failed(@)] \/ job' = [job EXCEPT ![h] = Idle]
  <2>1. CASE Check(h)
    BY <2>1 DEF Check, ReadConfig, CheckRows, CheckTarget, CheckPort, db
  <2>2. CASE FileCmd(h)
    BY <2>2 DEF FileCmd, Write, Backup, CopyBack, RemoveOld, RemoveTarget, RemoveBackup,
                RemoveFile, db
  <2>3. CASE Control(h)
    BY <2>3 DEF Control, Apply, Stop, Start, db
  <2> QED BY <2>1, <2>2, <2>3
<1>4. Others(h) /\ (job'[h] = Idle \/ Onward(h) \/ Undoes(h))
  <2>1. job' = [job EXCEPT ![h] = Idle] => Others(h) /\ job'[h] = Idle
    BY DEF Others, TypeOK
  <2> QED BY <1>2, <1>3, <2>1, CallRuns
<1>5. Listed'
  BY <1>3 DEF Shown, Listed, Live
<1> QED BY <1>2, <1>4, <1>5, NoRefresh, ShownBy

\* An archived service has no program while a refresh reads the statuses.
LEMMA ObserveShown ==
  ASSUME TypeOK, PathsUnique, Safe, Steady, RefreshAlone, Shown, NEW h \in Handlers, Observe(h)
  PROVE  Shown'
<1>1. PICK s \in {"status", "statusAll", "readCurrent", "readBackup"} : At(h, s)
  BY DEF Observe, Status, StatusAll, ReadCurrent, ReadBackup
<1>2. Busy(h) /\ rows' = rows /\ Others(h) /\ (job'[h] = Idle \/ Onward(h))
  BY <1>1, ObserveLeads DEF At, Observe, Status, StatusAll, ReadCurrent, ReadBackup, db
<1>3. Listed'
  BY <1>2 DEF Shown, Listed, Live
<1>4. CASE s # "statusAll"
  <2>1. job[h].op # "refresh"
    BY <1>1, <1>4, CallsOf DEF Callers, RuntimeOps
  <2> QED BY <1>2, <1>3, <2>1, NoRefresh, ShownBy
<1>5. CASE s = "statusAll"
  <2>1. job[h].op = "refresh" /\ StatusAll(h)
    BY <1>1, <1>5, CallsOf DEF Callers, Observe, Status, ReadCurrent, ReadBackup, At
  <2>2. "refresh" \in Requests
    BY <1>2, <2>1 DEF Shown, Fresh
  <2>3. ASSUME NEW i \in Live, rows[i].archived PROVE procs[rows[i].baseline.name] = None
    <3>1. \A g \in Handlers : g = h
      BY <2>2 DEF RefreshAlone
    <3>2. ~Works(h)
      BY <1>2, <2>1, Workers
    <3>3. ~Tended(rows[i].path)
      BY <3>1, <3>2 DEF Tended
    <3> QED BY <2>3, <3>3 DEF Steady, Settled
  <2>4. ASSUME Onward(h), NEW e \in job'[h].seen PROVE procs[e[1]] # None
    <3> DEFINE E == {<<n, StatusOf(n)>> : n \in {m \in Names : procs[m] # None}}
               k == [job[h] EXCEPT !.seen = E, !.hasBak = FALSE]
    <3>1. job[h] \in Job /\ job \in [Handlers -> Job]
      BY DEF TypeOK
    <3>2. job'[h] # Idle
      BY <1>2, <2>4, IdleType DEF Onward, SameJob, Busy
    <3>3. job' = [job EXCEPT ![h] = After(k)]
      <4>1. job' = [job EXCEPT ![h] = After(k)] \/ Refuse(h)
        BY <2>1 DEF StatusAll, See
      <4>2. Failed(job[h]) = Idle
        BY <2>1 DEF StatusAll, At, Failed
      <4> QED BY <3>1, <3>2, <4>1, <4>2 DEF Refuse
    <3> HIDE DEF E
    <3>4. job'[h].seen = E
      BY <3>1, <3>2, <3>3 DEF After, Job, Locals
    <3> QED BY <2>4, <3>4 DEF E
  <2>5. Busy(h)' => Fresh(h)'
    BY <1>2, <2>2, <2>3, <2>4, IdleType DEF Fresh, Live, Busy
  <2> QED BY <1>2, <1>3, <2>5, ShownBy
<1> QED BY <1>4, <1>5

\* No status is stored for an archived service.
LEMMA SaveStatusShown ==
  ASSUME TypeOK, Safe, Orderly, RefreshAlone, Shown, NEW h \in Handlers, SaveStatus(h)
  PROVE  Shown'
<1> DEFINE j == job[h]
<1>1. At(h, "saveStatus") /\ Busy(h)
  BY DEF SaveStatus, At
<1>2. j.op \in RuntimeOps \cup {"refresh"}
  BY <1>1, CallsOf DEF Callers
<1>3. ASSUME NEW e \in j.seen, NEW i \in Named(e[1]) PROVE ~rows[i].archived
  <2>1. CASE j.op = "refresh"
    BY <1>1, <1>3, <2>1 DEF Shown, Fresh, Named
  <2>2. CASE j.op \in RuntimeOps
    <3>1. j.op \in OfRow /\ ~Past(h, "dropRow") /\ Entry(h) /\ About(h)
      BY <1>1, <2>2, CallsOf, OpsAre DEF Callers, OfRow, RuntimeOps, Orderly, Minded
    <3>2. e[1] = j.row.baseline.name
      BY <2>2, <3>1 DEF About
    <3>3. i = j.id
      BY <1>1, <3>1, <3>2, OwnName DEF Named, Live
    <3>4. rows[j.id].archived = (j.op \in {"restore", "delete"})
      BY <3>1 DEF Entry
    <3> QED BY <2>2, <3>3, <3>4 DEF RuntimeOps
  <2> QED BY <1>2, <2>1, <2>2
<1>4. ASSUME NEW i \in Live, rows[i].archived PROVE rows'[i] = rows[i]
  <2>1. CASE j.seen = {}
    BY <2>1 DEF SaveStatus
  <2>2. CASE j.seen # {}
    <3>1. PICK e \in j.seen : UpdateNamed(e[1], LAMBDA r : [r EXCEPT !.status = e[2]])
      BY <2>2 DEF SaveStatus
    <3> QED BY <1>3, <1>4, <3>1 DEF UpdateNamed, Live
  <2> QED BY <2>1, <2>2
<1>5. /\ \A i \in Ids : /\ rows'[i] # None <=> rows[i] # None
                        /\ rows[i] # None => /\ rows'[i].archived = rows[i].archived
                                             /\ rows'[i].baseline = rows[i].baseline
      /\ Others(h) /\ (job'[h] = Idle \/ SameReads(h))
      /\ job'[h] = Idle \/ Onward(h) \/ Pauses(h)
  BY StatusCalm, SaveStatusPorts, SaveStatusReads, SaveStatusLeads DEF RowsCalm, PortsCalm
<1>6. Listed'
  BY <1>4, <1>5 DEF Shown, Listed, Live
<1>7. ASSUME Busy(h)', job'[h].op = "refresh" PROVE Fresh(h)'
  <2>1. j.op = "refresh" /\ SameReads(h)
    BY <1>1, <1>5, <1>7, IdleType, NoRefresh DEF Busy
  <2>2. Fresh(h)
    BY <1>1, <2>1 DEF Shown
  <2> QED BY <1>5, <2>1, <2>2 DEF Fresh, SameReads, Live
<1> QED BY <1>5, <1>6, <1>7, ShownBy

\* The other writes of the table leave every row active, gone, archived and
\* STOPPED, or as it was.
LEMMA StoreShown ==
  ASSUME TypeOK, Safe, Orderly, RefreshAlone, Shown, NEW h \in Handlers, Store(h), ~SaveStatus(h)
  PROVE  Shown'
<1> DEFINE j == job[h]
           Written(k) == /\ \A i \in Ids \ {k} : rows'[i] = rows[i]
                         /\ rows'[k] # None /\ rows'[k].archived
                              => rows'[k].status = "STOPPED"
                         /\ Others(h) /\ (job'[h] = Idle \/ Onward(h))
<1>1. PICK s \in {"insert", "save", "markArchived", "markRestored", "dropRow", "saveSync"} :
        At(h, s)
  BY DEF Store, Insert, SaveUpdate, MarkArchived, MarkRestored, DropRow, SaveSync
<1>2. Busy(h) /\ j.op # "refresh"
  BY <1>1, CallsOf DEF Callers, At
<1>3. Listed' /\ Others(h) /\ (job'[h] = Idle \/ Onward(h) \/ Undoes(h))
  <2>1. ASSUME NEW k, Written(k) PROVE Listed' /\ Others(h) /\ (job'[h] = Idle \/ Onward(h))
    BY <2>1 DEF Shown, Listed, Live
  <2>2. ASSUME rows' = rows, Proceed(h) \/ Refuse(h)
        PROVE  Listed' /\ Others(h) /\ (job'[h] = Idle \/ Onward(h) \/ Undoes(h))
    BY <1>2, <2>2, CallRuns DEF Shown, Listed, Live
  <2>3. PICK k : k = j.id
    OBVIOUS
  <2>4. CASE DropRow(h)
    <3>1. Written(k)
      BY <2>3, <2>4, DropRowDoes
    <3> QED BY <2>1, <3>1
  <2>5. CASE MarkArchived(h)
    <3>1. rows[k] \in Row /\ rows'[k] = [rows[k] EXCEPT !.archived = TRUE, !.status = "STOPPED"]
      BY <2>3, <2>5, MarkArchivedDoes
    <3>2. rows'[k].status = "STOPPED"
      BY <3>1 DEF Row
    <3>3. Written(k)
      BY <2>3, <2>5, <3>2, MarkArchivedDoes
    <3> QED BY <2>1, <3>3
  <2>6. CASE MarkRestored(h)
    <3>1. Written(k)
      BY <2>3, <2>6, MarkRestoredDoes
    <3> QED BY <2>1, <3>1
  <2>7. CASE SaveSync(h)
    <3>1. Written(k)
      BY <2>3, <2>7, SaveSyncDoes
    <3> QED BY <2>1, <3>1
  <2>8. CASE Insert(h)
    <3>1. CASE PathTaken(j.want.path, 0)
      BY <2>2, <2>8, <3>1 DEF Insert, db
    <3>2. CASE ~PathTaken(j.want.path, 0)
      <4>1. PICK w : w = j.want
        OBVIOUS
      <4>2. ~NewRow(w).archived
        BY DEF NewRow
      <4>3. Written(nextId)
        BY <2>8, <3>2, <4>1, <4>2, InsertDoes
      <4> QED BY <2>1, <4>3
    <3> QED BY <3>1, <3>2
  <2>9. CASE SaveUpdate(h)
    <3>1. PICK w : w = j.want
      OBVIOUS
    <3>2. CASE ~PathTaken(w.path, k)
      <4>1. Written(k)
        BY <2>3, <2>9, <3>1, <3>2, SaveUpdateDoes
      <4> QED BY <2>1, <4>1
    <3>3. CASE PathTaken(w.path, k)
      BY <2>2, <2>3, <2>9, <3>1, <3>3 DEF SaveUpdate
    <3> QED BY <3>2, <3>3
  <2> QED BY <2>4, <2>5, <2>6, <2>7, <2>8, <2>9 DEF Store
<1> QED BY <1>2, <1>3, NoRefresh, ShownBy

LEMMA BeginShown ==
  ASSUME TypeOK, RefreshAlone, Shown, NEW h \in Handlers, Begin(h)
  PROVE  Shown'
<1>1. PICK op \in Ops \ {"undoCreate", "undoUpdate"}, i \in Ids \cup {0},
           r \in Row \cup {None}, w \in Target \cup {None} :
        Accept(h, Started(op, i, r, w))
  BY BeginLoads
<1>2. /\ job'[h] = Started(op, i, r, w) /\ Others(h) /\ rows' = rows
      /\ Started(op, i, r, w).op \in Requests
  BY <1>1 DEF Accept, TypeOK, Others, db
<1>3. job'[h].seen = {} /\ job'[h].op \in Requests
  BY <1>2 DEF Started
<1>4. Listed'
  BY <1>2 DEF Shown, Listed, Live
<1> QED BY <1>2, <1>3, <1>4, ShownBy DEF Fresh

LEMMA ShownNext ==
  ASSUME TypeOK, PathsUnique, Safe, Orderly, StillSteady, RefreshAlone, StillShown, [Next]_vars
  PROVE  StillShown'
<1> SUFFICES ASSUME faults' = 0 PROVE Shown'
  BY DEF StillShown
<1>1. Steady /\ Shown
  BY FaultsStay DEF StillSteady, StillShown
<1>2. CASE UNCHANGED vars
  BY <1>1, <1>2 DEF vars, Shown, Listed, Live, Fresh, Busy
<1>3. ASSUME NEW h \in Handlers, Check(h) \/ FileCmd(h) \/ Control(h) \/ Observe(h) PROVE Shown'
  BY <1>1, <1>3, CallsShown, ObserveShown
<1>4. ASSUME NEW h \in Handlers, Store(h) \/ Begin(h) PROVE Shown'
  BY <1>1, <1>4, StoreShown, SaveStatusShown, BeginShown
<1>5. ~Crash /\ \A h \in Handlers : ~CallFails(h)
  BY NoFault DEF Crash, CallFails
<1> QED BY <1>2, <1>3, <1>4, <1>5 DEF Next, Continue

LEMMA ShownInit == Init => StillShown
<1> SUFFICES ASSUME Init PROVE Shown
  BY DEF StillShown
<1>1. Live = {} /\ \A h \in Handlers : ~Busy(h)
  BY IdleType DEF Init, Live, Busy
<1> QED BY <1>1 DEF Shown, Listed

\* While nothing has failed, the list of the services never shows an archived
\* one as running, whatever start, stop, sync, update and restore do meanwhile
\* to others, provided that a refresh of all statuses runs alone: it reads all
\* of them before it stores the first.
THEOREM ArchivedStaysListedStopped ==
  ASSUME Exclusive, RefreshAlone
  PROVE  Spec => []ArchivedLooksStopped
<1>1. TypeOK /\ PathsUnique /\ Safe /\ Orderly /\ StillSteady /\ StillShown /\ [Next]_vars
        => StillShown'
  BY ShownNext
<1>2. StillShown => ArchivedLooksStopped
  BY DEF StillShown, Shown, Listed, ArchivedLooksStopped
<1> QED BY <1>1, <1>2, ShownInit, TypeCorrect, PathsAreUnique, AlwaysSafe, AlwaysOrderly,
           AlwaysSteady, PTL DEF Spec
=============================================================================
