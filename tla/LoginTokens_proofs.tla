------------------------- MODULE LoginTokens_proofs -------------------------
(***************************************************************************)
(* Proofs about LoginTokens, for every set of handlers and users and every *)
(* value of the bounds.                                                    *)
(***************************************************************************)
EXTENDS LoginTokens, TLAPS

-----------------------------------------------------------------------------
(***************************************************************************)
(* The handlers.                                                           *)
(***************************************************************************)

\* The order of the three writes of a login.
LEMMA WrittenLeads ==
  ASSUME NEW h \in Handlers, Written(h)
  PROVE  /\ At(h, "create") => Step(h, "touch") /\ UNCHANGED <<held, faults>>
         /\ At(h, "touch")  => Step(h, "log") /\ UNCHANGED <<held, faults>>
         /\ At(h, "log")    => /\ End(h)
                               /\ \/ held' = held \cup {job[h].jwt} /\ UNCHANGED faults
                                  \/ Fault /\ UNCHANGED held
<1> DEFINE K == CHOOSE i \in DOMAIN LoginSteps : LoginSteps[i] = job[h].pc
<1>1. /\ Len(LoginSteps) = 3 /\ DOMAIN LoginSteps = 1..3
      /\ LoginSteps[1] = "create" /\ LoginSteps[2] = "touch" /\ LoginSteps[3] = "log"
  BY DEF LoginSteps
<1>2. \A i \in DOMAIN LoginSteps : LoginSteps[i] = job[h].pc => K \in 1..3 /\ LoginSteps[K] = job[h].pc
  BY <1>1
<1>3. At(h, "create") => K = 1
  BY <1>1, <1>2 DEF At
<1>4. At(h, "touch") => K = 2
  BY <1>1, <1>2 DEF At
<1>5. At(h, "log") => K = 3
  BY <1>1, <1>2 DEF At
<1>6. /\ K < 3 => Step(h, LoginSteps[K + 1]) /\ UNCHANGED <<held, faults>>
      /\ ~(K < 3) => /\ End(h)
                     /\ \/ held' = held \cup {job[h].jwt} /\ UNCHANGED faults
                        \/ Fault /\ UNCHANGED held
  BY <1>1 DEF Written
<1> HIDE DEF K
<1> QED BY <1>1, <1>3, <1>4, <1>5, <1>6

LEMMA IdleType == Idle \in Job
BY DEF Idle, Started, Job, Locals, Steps, Requests, Writes

\* What a handler holds at its call.
LEMMA JobType ==
  ASSUME TypeOK, NEW h \in Handlers
  PROVE  /\ job[h] \in Job /\ job[h] \in Locals
         /\ At(h, "verify") \/ job[h].pc \in Writes => job[h].user \in Users
         /\ job[h].op \in Requests \/ job[h].pc \in Writes => job[h].jwt \in Jwt
         /\ job[h].pc \in {"findUser", "verify", "logFailure"} \cup Writes => job[h].op = "login"
         /\ job[h].pc \in {"findToken", "loadUser"} => job[h].op \in Requests
         /\ At(h, "revoke") => job[h].op = "logout"
         /\ At(h, "done") => job[h].op = "idle"
<1>1. job[h] \in Job /\ job[h] \in Locals
  BY DEF TypeOK, Job
<1>2. job[h].op \in {"login", "use", "logout", "idle"} /\ job[h].pc \in Steps[job[h].op]
  BY <1>1 DEF Job, Locals, Steps
<1> QED BY <1>1, <1>2 DEF Job, Locals, At, Steps, Requests, Writes

LEMMA JwtType ==
  ASSUME NEW t \in Jwt
  PROVE  t.user \in Users /\ t.jti \in Jtis /\ t.exp \in Nat /\ IssuedAt(t) \in Time
BY BoundsAssumption, LifetimeAssumption DEF Jwt, Time, IssuedAt

\* The next call of a handler is one of its operation.
LEMMA StepType ==
  ASSUME TypeOK, NEW h \in Handlers, NEW s, s \in Steps[job[h].op], Step(h, s),
         s = "verify" => job[h].user # None,
         s \in Writes => job[h].pc \in Writes
  PROVE  job' \in [Handlers -> Job]
<1> DEFINE k == [job[h] EXCEPT !.pc = s]
<1>1. job[h] \in Job /\ job[h].op \in DOMAIN Steps
  BY JobType DEF Locals
<1>2. k \in Locals
  BY <1>1 DEF Job, Locals, Steps
<1>3. k.pc = s /\ k.op = job[h].op /\ k.user = job[h].user /\ k.jwt = job[h].jwt
  BY <1>1 DEF Job, Locals
<1> HIDE DEF k
<1>4. k \in Job
  BY <1>1, <1>2, <1>3, s \in Writes => job[h].pc \in Writes DEF Job
<1>5. job' = [job EXCEPT ![h] = k]
  BY DEF Step, Goto, k
<1> QED BY <1>4, <1>5 DEF TypeOK

LEMMA EndType ==
  ASSUME TypeOK, NEW h \in Handlers, End(h)
  PROVE  job' \in [Handlers -> Job]
BY IdleType DEF TypeOK, End, Goto

LEMMA FaultType ==
  ASSUME TypeOK, Fault
  PROVE  faults' \in 0..MaxFaults
BY BoundsAssumption DEF TypeOK, Fault

-----------------------------------------------------------------------------
(***************************************************************************)
(* Type correctness.                                                       *)
(***************************************************************************)
LEMMA InitType == Init => TypeOK
<1> SUFFICES ASSUME Init PROVE TypeOK
  OBVIOUS
<1>1. users \in [Users -> User]
  <2>1. FALSE \in BOOLEAN /\ 0 \in 0..MaxTime
    BY BoundsAssumption
  <2>2. [enabled : BOOLEAN, deleted : {FALSE}, lastLogin : {0}] \subseteq User
    BY <2>1 DEF User
  <2> QED BY <2>2 DEF Init
<1>2. tokens \in [Jtis -> Token \cup {None}] /\ log \in SUBSET Entry /\ held \in SUBSET Jwt
  BY DEF Init
<1>3. nextJti \in 1..(MaxTokens + 1) /\ now \in Time /\ faults \in 0..MaxFaults
      /\ changes \in 0..MaxChanges
  BY BoundsAssumption DEF Init, Time
<1>4. job \in [Handlers -> Job]
  BY IdleType DEF Init
<1> QED BY <1>1, <1>2, <1>3, <1>4 DEF TypeOK

LEMMA WrittenType ==
  ASSUME TypeOK, NEW h \in Handlers, job[h].pc \in Writes, Written(h)
  PROVE  job' \in [Handlers -> Job] /\ held' \in SUBSET Jwt /\ faults' \in 0..MaxFaults
<1>1. job[h].jwt \in Jwt /\ job[h].op = "login"
  BY JobType
<1>2. CASE At(h, "create")
  <2>1. Step(h, "touch") /\ UNCHANGED <<held, faults>>
    BY <1>2, WrittenLeads
  <2>2. "touch" \in Steps[job[h].op]
    BY <1>1 DEF Steps
  <2> QED BY <2>1, <2>2, StepType DEF TypeOK
<1>3. CASE At(h, "touch")
  <2>1. Step(h, "log") /\ UNCHANGED <<held, faults>>
    BY <1>3, WrittenLeads
  <2>2. "log" \in Steps[job[h].op]
    BY <1>1 DEF Steps
  <2> QED BY <2>1, <2>2, StepType DEF TypeOK
<1>4. CASE At(h, "log")
  <2>1. /\ End(h)
        /\ \/ held' = held \cup {job[h].jwt} /\ UNCHANGED faults
           \/ Fault /\ UNCHANGED held
    BY <1>4, WrittenLeads
  <2> QED BY <2>1, <1>1, EndType, FaultType DEF TypeOK
<1> QED BY <1>2, <1>3, <1>4 DEF Writes, At

LEMMA BeginType ==
  ASSUME TypeOK, NEW h \in Handlers, BeginLogin(h) \/ BeginRequest(h)
  PROVE  TypeOK'
<1>1. CASE BeginLogin(h)
  <2>1. PICK u \in Users \cup {None}, right \in BOOLEAN :
          Goto(h, Started("login", "findUser", u, right, None, FALSE))
    BY <1>1 DEF BeginLogin
  <2>2. Started("login", "findUser", u, right, None, FALSE) \in Job
    BY DEF Started, Job, Locals, Steps, Requests, Writes
  <2>3. job' \in [Handlers -> Job]
    BY <2>1, <2>2 DEF Goto, TypeOK
  <2> QED BY <1>1, <2>3 DEF BeginLogin, TypeOK, tables, world
<1>2. CASE BeginRequest(h)
  <2>1. PICK t \in held, op \in Requests :
          Goto(h, Started(op, "findToken", None, FALSE, t, Ended(t)))
    BY <1>2 DEF BeginRequest
  <2>2. Ended(t) \in BOOLEAN
    BY DEF Ended, Expired, Revoked, TypeOK, User
  <2>3. t \in Jwt /\ t # None
    BY NoneAssumption DEF TypeOK
  <2>4. Started(op, "findToken", None, FALSE, t, Ended(t)) \in Job
    BY <2>2, <2>3 DEF Started, Job, Locals, Steps, Requests, Writes
  <2>5. job' \in [Handlers -> Job]
    BY <2>1, <2>4 DEF Goto, TypeOK
  <2> QED BY <1>2, <2>5 DEF BeginRequest, TypeOK, tables, world
<1> QED BY <1>1, <1>2

\* A login at another of its calls, with a record of its own.
LEMMA LoginJob ==
  ASSUME NEW j \in Locals, j.op = "login"
  PROVE  /\ [j EXCEPT !.pc = "logFailure", !.user = None] \in Job
         /\ \A b \in BOOLEAN : j.user # None => [j EXCEPT !.pc = "verify", !.enabled = b] \in Job
         /\ \A t \in Jwt : j.user # None /\ t # None =>
              [j EXCEPT !.pc = "create", !.jwt = t] \in Job
<1>1. /\ "login" \notin Requests /\ "logFailure" \notin Writes /\ "verify" \notin Writes
      /\ "logFailure" # "verify"
      /\ {"logFailure", "verify", "create"} \subseteq Steps["login"]
      /\ {"logFailure", "verify", "create"} \subseteq UNION {Steps[o] : o \in DOMAIN Steps}
  BY DEF Requests, Writes, Steps
<1>2. [j EXCEPT !.pc = "logFailure", !.user = None] \in Job
  <2> DEFINE k == [j EXCEPT !.pc = "logFailure", !.user = None]
  <2>1. k \in Locals
    BY <1>1 DEF Locals
  <2>2. k.pc = "logFailure" /\ k.op = "login"
    BY DEF Locals
  <2> HIDE DEF k
  <2>3. k \in Job
    BY <1>1, <2>1, <2>2 DEF Job
  <2> QED BY <2>3 DEF k
<1>3. ASSUME NEW b \in BOOLEAN, j.user # None
      PROVE  [j EXCEPT !.pc = "verify", !.enabled = b] \in Job
  <2> DEFINE k == [j EXCEPT !.pc = "verify", !.enabled = b]
  <2>1. k \in Locals
    BY <1>1 DEF Locals
  <2>2. k.pc = "verify" /\ k.op = "login" /\ k.user = j.user
    BY DEF Locals
  <2> HIDE DEF k
  <2>3. k \in Job
    BY <1>1, <1>3, <2>1, <2>2 DEF Job
  <2> QED BY <2>3 DEF k
<1>4. ASSUME NEW t \in Jwt, j.user # None, t # None
      PROVE  [j EXCEPT !.pc = "create", !.jwt = t] \in Job
  <2> DEFINE k == [j EXCEPT !.pc = "create", !.jwt = t]
  <2>1. k \in Locals
    BY <1>1 DEF Locals
  <2>2. k.pc = "create" /\ k.op = "login" /\ k.user = j.user /\ k.jwt = t
    BY DEF Locals
  <2> HIDE DEF k
  <2>3. k \in Job
    BY <1>1, <1>4, <2>1, <2>2 DEF Job
  <2> QED BY <2>3 DEF k
<1> QED BY <1>2, <1>3, <1>4

LEMMA LoginType ==
  ASSUME TypeOK, NEW h \in Handlers, Login(h)
  PROVE  TypeOK'
<1> USE DEF tables, world
<1>1. CASE FindUser(h)
  <2>1. job[h] \in Job /\ job[h] \in Locals /\ job[h].op = "login"
    BY <1>1, JobType DEF FindUser, At
  <2>2. "logFailure" \in Steps["login"] /\ "verify" \in Steps["login"]
        /\ "logFailure" \notin Writes /\ "logFailure" # "verify"
    BY DEF Steps, Writes
  <2>3. CASE job[h].user = None
    <3>1. Step(h, "logFailure")
      BY <1>1, <2>3 DEF FindUser
    <3>2. job' \in [Handlers -> Job]
      BY <2>1, <2>2, <3>1, StepType
    <3> QED BY <1>1, <3>2 DEF FindUser, TypeOK
  <2>4. CASE job[h].user # None
    <3>1. job[h].user \in Users /\ users[job[h].user].enabled \in BOOLEAN
      BY <2>1, <2>4 DEF Locals, TypeOK, User
    <3>2. [job[h] EXCEPT !.pc = "logFailure", !.user = None] \in Job
      BY <2>1, LoginJob DEF Locals
    <3>3. [job[h] EXCEPT !.pc = "verify", !.enabled = users[job[h].user].enabled] \in Job
      BY <2>1, <3>1, NoneAssumption, LoginJob DEF Locals
    <3>4. job' \in [Handlers -> Job]
      BY <1>1, <2>4, <3>2, <3>3 DEF FindUser, Goto, TypeOK
    <3> QED BY <1>1, <3>4 DEF FindUser, TypeOK
  <2> QED BY <2>3, <2>4
<1>2. CASE Verify(h)
  <2>1. /\ job[h] \in Job /\ job[h] \in Locals /\ job[h].op = "login"
        /\ job[h].user \in Users
    BY <1>2, JobType DEF Verify, At
  <2>2. CASE job[h].right /\ job[h].enabled
    <3> DEFINE t == [user |-> job[h].user, jti |-> nextJti, exp |-> now + Lifetime]
    <3>1. nextJti \in Jtis /\ nextJti' = nextJti + 1
          /\ Goto(h, [job[h] EXCEPT !.pc = LoginSteps[1], !.jwt = t])
      BY <1>2, <2>2 DEF Verify
    <3>2. t \in Jwt
      BY <2>1, <3>1 DEF Jwt, TypeOK
    <3>3. t # None
      BY <3>2, NoneAssumption
    <3> HIDE DEF t
    <3>4. [job[h] EXCEPT !.pc = "create", !.jwt = t] \in Job
      BY <2>1, <3>2, <3>3, NoneAssumption, LoginJob DEF Locals
    <3>5. job' \in [Handlers -> Job]
      BY <3>1, <3>4 DEF Goto, TypeOK, LoginSteps
    <3>6. nextJti' \in 1..(MaxTokens + 1)
      BY <3>1, BoundsAssumption DEF Jtis
    <3> QED BY <1>2, <3>5, <3>6 DEF Verify, TypeOK
  <2>3. CASE ~(job[h].right /\ job[h].enabled)
    <3>1. Step(h, "logFailure") /\ UNCHANGED nextJti
      BY <1>2, <2>3 DEF Verify
    <3>2. "logFailure" \in Steps["login"] /\ "logFailure" \notin Writes /\ "logFailure" # "verify"
      BY DEF Steps, Writes
    <3>3. job' \in [Handlers -> Job]
      BY <2>1, <3>1, <3>2, StepType
    <3> QED BY <1>2, <3>1, <3>3 DEF Verify, TypeOK
  <2> QED BY <2>2, <2>3
<1>3. CASE LogFailure(h)
  <2>1. job' \in [Handlers -> Job]
    BY <1>3, EndType DEF LogFailure
  <2>2. [user |-> job[h].user, jti |-> 0, ok |-> FALSE] \in Entry
    BY JobType, BoundsAssumption DEF Locals, Entry
  <2> QED BY <1>3, <2>1, <2>2 DEF LogFailure, TypeOK
<1>4. CASE CreateToken(h)
  <2>1. job[h].pc \in Writes /\ Written(h)
    BY <1>4 DEF CreateToken, At, Writes
  <2>2. job[h].jwt \in Jwt
    BY <2>1, JobType
  <2>3. [jwt |-> job[h].jwt, revoked |-> 0] \in Token
    BY <2>2, BoundsAssumption DEF Token
  <2>4. tokens' \in [Jtis -> Token \cup {None}]
    BY <1>4, <2>3 DEF CreateToken, TypeOK
  <2> QED BY <1>4, <2>1, <2>4, WrittenType DEF CreateToken, TypeOK
<1>5. CASE UpdateLoginInfo(h)
  <2>1. job[h].pc \in Writes /\ Written(h)
    BY <1>5 DEF UpdateLoginInfo, At, Writes
  <2>2. job[h].jwt \in Jwt /\ job[h].user \in Users
    BY <2>1, JobType
  <2>3. IssuedAt(job[h].jwt) \in 0..MaxTime
    BY <2>2, JwtType, BoundsAssumption DEF Time
  <2>4. users' \in [Users -> User]
    BY <1>5, <2>2, <2>3 DEF UpdateLoginInfo, TypeOK, User
  <2> QED BY <1>5, <2>1, <2>4, WrittenType DEF UpdateLoginInfo, TypeOK
<1>6. CASE LogSuccess(h)
  <2>1. job[h].pc \in Writes /\ Written(h)
    BY <1>6 DEF LogSuccess, At, Writes
  <2>2. job[h].jwt.jti \in Jtis /\ job[h].user \in Users
    BY <2>1, JobType, JwtType
  <2>3. [user |-> job[h].user, jti |-> job[h].jwt.jti, ok |-> TRUE] \in Entry
    BY <2>2, BoundsAssumption DEF Entry, Jtis
  <2>4. log' \in SUBSET Entry
    BY <1>6, <2>3 DEF LogSuccess, TypeOK
  <2> QED BY <1>6, <2>1, <2>4, WrittenType DEF LogSuccess, TypeOK
<1> QED BY <1>1, <1>2, <1>3, <1>4, <1>5, <1>6 DEF Login

LEMMA AuthenticateType ==
  ASSUME TypeOK, NEW h \in Handlers, Authenticate(h)
  PROVE  TypeOK'
<1> USE DEF tables, world
<1>1. job[h] \in Job /\ job[h] \in Locals
  BY JobType
<1>2. CASE FindToken(h)
  <2>1. job[h].op \in Requests
    BY <1>2, JobType DEF FindToken, At
  <2>2. "loadUser" \in Steps[job[h].op] /\ "loadUser" # "verify" /\ "loadUser" \notin Writes
    BY <2>1 DEF Steps, Requests, Writes
  <2>3. Step(h, "loadUser") \/ End(h)
    BY <1>2 DEF FindToken
  <2>4. job' \in [Handlers -> Job]
    BY <2>2, <2>3, StepType, EndType
  <2> QED BY <1>2, <2>4 DEF FindToken, TypeOK
<1>3. CASE Admit(h)
  <2>1. (job[h].op = "logout" /\ Step(h, "revoke")) \/ End(h)
    BY <1>3 DEF Admit
  <2>2. "revoke" \in Steps["logout"] /\ "revoke" # "verify" /\ "revoke" \notin Writes
    BY DEF Steps, Writes
  <2>3. job' \in [Handlers -> Job]
    BY <2>1, <2>2, StepType, EndType
  <2> QED BY <1>3, <2>3 DEF Admit, TypeOK
<1>4. CASE TurnAway(h)
  <2>1. job' \in [Handlers -> Job]
    BY <1>4, EndType DEF TurnAway
  <2> QED BY <1>4, <2>1 DEF TurnAway, TypeOK
<1>5. CASE Revoke(h)
  <2>1. job[h].op \in Requests
    BY <1>5, JobType DEF Revoke, At, Requests
  <2>2. job[h].jwt.jti \in Jtis
    BY <2>1, JobType, JwtType
  <2>3. now \in 0..MaxTime
    BY BoundsAssumption DEF TypeOK, Time
  <2>4. End(h) /\ job' \in [Handlers -> Job]
    BY <1>5, EndType DEF Revoke
  <2>5. tokens' \in [Jtis -> Token \cup {None}]
    <3>1. CASE tokens[job[h].jwt.jti] # None /\ tokens' = [tokens EXCEPT ![job[h].jwt.jti].revoked = now]
      <4>1. tokens[job[h].jwt.jti] \in Token
        BY <2>2, <3>1 DEF TypeOK
      <4>2. [tokens[job[h].jwt.jti] EXCEPT !.revoked = now] \in Token
        BY <2>3, <4>1 DEF Token
      <4> QED BY <2>2, <3>1, <4>2 DEF TypeOK
    <3>2. CASE UNCHANGED tokens
      BY <3>2 DEF TypeOK
    <3> QED BY <1>5, <3>1, <3>2 DEF Revoke
  <2> QED BY <1>5, <2>4, <2>5 DEF Revoke, TypeOK
<1> QED BY <1>2, <1>3, <1>4, <1>5 DEF Authenticate

LEMMA WorldType ==
  ASSUME TypeOK, (\E h \in Handlers : CallFails(h)) \/ Crash \/ Tick \/ Administer
  PROVE  TypeOK'
<1> USE DEF tables, world
<1>1. ASSUME NEW h \in Handlers, CallFails(h) PROVE TypeOK'
  <2>1. job' \in [Handlers -> Job] /\ faults' \in 0..MaxFaults
    BY <1>1, EndType, FaultType DEF CallFails
  <2> QED BY <1>1, <2>1 DEF CallFails, TypeOK
<1>2. CASE Crash
  <2>1. job' \in [Handlers -> Job] /\ faults' \in 0..MaxFaults
    BY <1>2, IdleType, FaultType DEF Crash
  <2> QED BY <1>2, <2>1 DEF Crash, TypeOK
<1>3. CASE Tick
  <2>1. now' \in Time
    BY <1>3, BoundsAssumption DEF Tick, TypeOK, Time
  <2> QED BY <1>3, <2>1 DEF Tick, TypeOK
<1>4. CASE Administer
  <2>1. changes' \in 0..MaxChanges
    BY <1>4, BoundsAssumption DEF Administer, TypeOK
  <2>2. users' \in [Users -> User]
    BY <1>4 DEF Administer, TypeOK, User
  <2> QED BY <1>4, <2>1, <2>2 DEF Administer, TypeOK
<1> QED BY <1>1, <1>2, <1>3, <1>4

\* What a step is: an action of one handler, or one of the world.
LEMMA Cases ==
  ASSUME [Next]_vars
  PROVE  \/ \E h \in Handlers : BeginLogin(h) \/ BeginRequest(h)
         \/ \E h \in Handlers : Login(h)
         \/ \E h \in Handlers : Authenticate(h)
         \/ (\E h \in Handlers : CallFails(h)) \/ Crash \/ Tick \/ Administer
         \/ UNCHANGED vars
BY DEF Next, Begin

\* Every variable keeps its shape in every behaviour.
THEOREM TypeCorrect == Spec => []TypeOK
<1>1. TypeOK /\ UNCHANGED vars => TypeOK'
  BY DEF TypeOK, vars
<1>2. TypeOK /\ [Next]_vars => TypeOK'
  BY <1>1, Cases, BeginType, LoginType, AuthenticateType, WorldType
<1> QED BY InitType, <1>2, PTL DEF Spec

-----------------------------------------------------------------------------
(***************************************************************************)
(* What is on record of the tokens: the inductive invariant behind the     *)
(* other theorems.                                                         *)
(***************************************************************************)

\* A client's token is stored as it was answered, and audited.
HeldOnRecord ==
  \A t \in held : tokens[t.jti] # None /\ tokens[t.jti].jwt = t /\ Audit(t.jti)

\* A request carries a token a client was answered with.
CarriedHeld == \A h \in Handlers : job[h].op \in Requests => job[h].jwt \in held

\* The token a login is still writing about is nobody else's business.
Private(h) ==
  LET t == job[h].jwt IN
  /\ t.user = job[h].user
  /\ t.jti < nextJti
  /\ ~Audit(t.jti)
  /\ \A s \in held : s.jti # t.jti
  /\ IF At(h, "create") THEN tokens[t.jti] = None
                        ELSE tokens[t.jti] = [jwt |-> t, revoked |-> 0]

Writing  == \A h \in Handlers : job[h].pc \in Writes => Private(h)
Distinct == \A g, h \in Handlers :
              g # h /\ job[g].pc \in Writes /\ job[h].pc \in Writes
                => job[g].jwt.jti # job[h].jwt.jti
Unused   == \A j \in Jtis : j >= nextJti => tokens[j] = None /\ ~Audit(j)

Record == /\ HeldOnRecord /\ CarriedHeld /\ Writing /\ Distinct /\ Unused
          /\ LastLoginHasToken

LEMMA InitRecord == Init => Record
<1> SUFFICES ASSUME Init PROVE Record
  OBVIOUS
<1>1. \A h \in Handlers : job[h].pc = "done" /\ job[h].op = "idle"
  BY DEF Init, Idle, Started
<1>2. \A j \in Jtis : tokens[j] = None /\ ~Audit(j)
  BY DEF Init, Audit
<1>3. held = {} /\ \A u \in Users : users[u].lastLogin = 0
  BY DEF Init
<1> QED BY <1>1, <1>2, <1>3 DEF Record, HeldOnRecord, CarriedHeld, Writing, Distinct, Unused,
              LastLoginHasToken, Requests, Writes

\* A step that leaves tokens, log and clients alone, and whose handlers come to
\* no write of a login.
LEMMA QuietRecord ==
  ASSUME TypeOK, Record, UNCHANGED <<tokens, log, nextJti, held>>,
         \A u \in Users : users'[u].lastLogin = users[u].lastLogin,
         \A g \in Handlers :
           \/ job'[g] = job[g]
           \/ job'[g].pc \notin Writes /\ (job'[g].op \in Requests => job'[g].jwt \in held)
  PROVE  Record'
<1>1. \A j : Audit(j)' <=> Audit(j)
  BY DEF Audit
<1>2. HeldOnRecord'
  BY <1>1 DEF Record, HeldOnRecord
<1>3. CarriedHeld'
  BY DEF Record, CarriedHeld
<1>4. Writing'
  <2> SUFFICES ASSUME NEW g \in Handlers, job'[g].pc \in Writes PROVE Private(g)'
    BY DEF Writing
  <2>1. job'[g] = job[g] /\ Private(g)
    BY DEF Record, Writing
  <2> QED BY <1>1, <2>1 DEF Private, At
<1>5. Distinct'
  <2> SUFFICES ASSUME NEW f \in Handlers, NEW g \in Handlers, f # g,
                      job'[f].pc \in Writes, job'[g].pc \in Writes
               PROVE  job'[f].jwt.jti # job'[g].jwt.jti
    BY DEF Distinct
  <2>1. job'[f] = job[f] /\ job'[g] = job[g]
    OBVIOUS
  <2> QED BY <2>1 DEF Record, Distinct
<1>6. Unused'
  BY <1>1 DEF Record, Unused
<1>7. LastLoginHasToken'
  BY DEF Record, LastLoginHasToken
<1> QED BY <1>2, <1>3, <1>4, <1>5, <1>6, <1>7 DEF Record

\* Goto changes the job of one handler alone.
LEMMA GotoFrame ==
  ASSUME TypeOK, NEW h \in Handlers, NEW k, Goto(h, k)
  PROVE  job'[h] = k /\ \A g \in Handlers \ {h} : job'[g] = job[g]
BY DEF Goto, TypeOK

LEMMA StepFrame ==
  ASSUME TypeOK, NEW h \in Handlers, NEW s, Step(h, s)
  PROVE  /\ job'[h].pc = s /\ job'[h].op = job[h].op
         /\ job'[h].jwt = job[h].jwt /\ job'[h].user = job[h].user
         /\ job'[h].dead = job[h].dead
         /\ \A g \in Handlers \ {h} : job'[g] = job[g]
BY GotoFrame, JobType DEF Step, Locals

LEMMA EndFrame ==
  ASSUME TypeOK, NEW h \in Handlers, End(h)
  PROVE  /\ job'[h].pc = "done" /\ job'[h].op = "idle" /\ ~job'[h].dead
         /\ \A g \in Handlers \ {h} : job'[g] = job[g]
BY GotoFrame DEF End, Idle, Started

LEMMA BeginRecord ==
  ASSUME TypeOK, Record, NEW h \in Handlers, BeginLogin(h) \/ BeginRequest(h)
  PROVE  Record'
<1>1. CASE BeginLogin(h)
  <2>1. PICK u \in Users \cup {None}, right \in BOOLEAN :
          Goto(h, Started("login", "findUser", u, right, None, FALSE))
    BY <1>1 DEF BeginLogin
  <2>2. /\ job'[h] = Started("login", "findUser", u, right, None, FALSE)
        /\ \A g \in Handlers \ {h} : job'[g] = job[g]
    BY <2>1, GotoFrame
  <2>3. job'[h].pc \notin Writes /\ job'[h].op \notin Requests
    BY <2>2 DEF Started, Writes, Requests
  <2> QED BY <1>1, <2>2, <2>3, QuietRecord DEF BeginLogin, tables
<1>2. CASE BeginRequest(h)
  <2>1. PICK t \in held, op \in Requests :
          Goto(h, Started(op, "findToken", None, FALSE, t, Ended(t)))
    BY <1>2 DEF BeginRequest
  <2>2. /\ job'[h] = Started(op, "findToken", None, FALSE, t, Ended(t))
        /\ \A g \in Handlers \ {h} : job'[g] = job[g]
    BY <2>1, GotoFrame
  <2>3. job'[h].pc \notin Writes /\ job'[h].jwt \in held
    BY <2>2 DEF Started, Writes
  <2> QED BY <1>2, <2>2, <2>3, QuietRecord DEF BeginRequest, tables
<1> QED BY <1>1, <1>2

LEMMA WorldRecord ==
  ASSUME TypeOK, Record, (\E h \in Handlers : CallFails(h)) \/ Crash \/ Tick \/ Administer
  PROVE  Record'
<1>1. \A g \in Handlers : job'[g] = job[g] \/ job'[g] = Idle
  BY EndFrame, GotoFrame DEF CallFails, Crash, Tick, Administer, End
<1>2. Idle.pc \notin Writes /\ Idle.op \notin Requests
  BY DEF Idle, Started, Writes, Requests
<1>3. \A u \in Users : users'[u].lastLogin = users[u].lastLogin
  BY DEF CallFails, Crash, Tick, Administer, tables, TypeOK, User
<1>4. UNCHANGED <<tokens, log, nextJti, held>>
  BY DEF CallFails, Crash, Tick, Administer, tables
<1> QED BY <1>1, <1>2, <1>3, <1>4, QuietRecord

LEMMA AuthenticateRecord ==
  ASSUME TypeOK, Record, NEW h \in Handlers, Authenticate(h)
  PROVE  Record'
<1>1. CASE FindToken(h) \/ Admit(h) \/ TurnAway(h)
  <2>1. job[h].op \in Requests => job[h].jwt \in held
    BY DEF Record, CarriedHeld
  <2>2. \/ Step(h, "loadUser") \/ Step(h, "revoke") \/ End(h)
    BY <1>1 DEF FindToken, Admit, TurnAway
  <2>3. /\ job'[h].pc \notin Writes /\ (job'[h].op \in Requests => job'[h].jwt \in held)
        /\ \A g \in Handlers \ {h} : job'[g] = job[g]
    BY <2>1, <2>2, StepFrame, EndFrame DEF Writes, Requests
  <2> QED BY <1>1, <2>3, QuietRecord DEF FindToken, Admit, TurnAway, tables
<1>2. CASE Revoke(h)
  <2> DEFINE t == job[h].jwt
  <2>1. t \in held /\ t \in Jwt /\ t.jti \in Jtis
    BY <1>2, JobType, JwtType DEF Record, CarriedHeld, Revoke, At, Requests
  <2>2. /\ job'[h].pc = "done" /\ job'[h].op = "idle"
        /\ \A g \in Handlers \ {h} : job'[g] = job[g]
    BY <1>2, EndFrame DEF Revoke
  <2>3. \A g \in Handlers : job'[g].pc \in Writes => g # h /\ job'[g] = job[g]
    BY <2>2 DEF Writes
  <2>4. \A j \in Jtis : /\ tokens[j] = None => tokens'[j] = None
                        /\ tokens[j] # None => tokens'[j] # None /\ tokens'[j].jwt = tokens[j].jwt
                        /\ j # t.jti => tokens'[j] = tokens[j]
    <3>1. CASE tokens[t.jti] # None /\ tokens' = [tokens EXCEPT ![t.jti].revoked = now]
      <4>1. tokens[t.jti] \in Token
        BY <2>1, <3>1 DEF TypeOK
      <4>2. tokens'[t.jti] = [tokens[t.jti] EXCEPT !.revoked = now]
        BY <2>1, <3>1 DEF TypeOK
      <4>3. tokens'[t.jti] \in Token /\ tokens'[t.jti].jwt = tokens[t.jti].jwt
        BY <4>1, <4>2, BoundsAssumption DEF Token, TypeOK, Time
      <4> QED BY <3>1, <4>3, NoneAssumption DEF TypeOK
    <3>2. CASE UNCHANGED tokens
      BY <3>2
    <3> QED BY <1>2, <3>1, <3>2 DEF Revoke
  <2>5. \A j : Audit(j)' <=> Audit(j)
    BY <1>2 DEF Audit, Revoke
  <2>6. \A s \in held : s.jti \in Jtis
    BY JwtType DEF TypeOK
  <2>7. HeldOnRecord' /\ CarriedHeld'
    <3>1. HeldOnRecord'
      BY <1>2, <2>4, <2>5, <2>6 DEF Record, HeldOnRecord, Revoke
    <3>2. CarriedHeld'
      BY <1>2, <2>2 DEF Record, CarriedHeld, Revoke, Requests
    <3> QED BY <3>1, <3>2
  <2>8. Writing'
    <3> SUFFICES ASSUME NEW g \in Handlers, job'[g].pc \in Writes PROVE Private(g)'
      BY DEF Writing
    <3>1. g # h /\ job'[g] = job[g] /\ Private(g) /\ job[g].jwt.jti \in Jtis
      BY <2>3, JobType, JwtType DEF Record, Writing
    <3>2. t.jti # job[g].jwt.jti
      BY <2>1, <3>1 DEF Private
    <3> QED BY <1>2, <2>4, <2>5, <3>1, <3>2 DEF Private, At, Revoke
  <2>9. Distinct'
    BY <2>3 DEF Record, Distinct
  <2>10. Unused'
    BY <1>2, <2>4, <2>5 DEF Record, Unused, Revoke
  <2>11. LastLoginHasToken'
    BY <1>2, <2>4 DEF Record, LastLoginHasToken, Revoke
  <2> QED BY <2>7, <2>8, <2>9, <2>10, <2>11 DEF Record
<1> QED BY <1>1, <1>2 DEF Authenticate

\* Signing: the next jti is used for the first time.
LEMMA VerifyRecord ==
  ASSUME TypeOK, Record, NEW h \in Handlers, Verify(h)
  PROVE  Record'
<1>1. CASE job[h].right /\ job[h].enabled
  <2> DEFINE t == [user |-> job[h].user, jti |-> nextJti, exp |-> now + Lifetime]
             k == [job[h] EXCEPT !.pc = "create", !.jwt = t]
  <2>1. /\ nextJti \in Jtis /\ nextJti' = nextJti + 1 /\ Goto(h, k)
        /\ UNCHANGED <<users, tokens, log, held>>
    BY <1>1 DEF Verify, LoginSteps, tables
  <2>2. k.pc = "create" /\ k.op = "login" /\ k.jwt = t /\ k.user = job[h].user
    BY JobType DEF Verify, At, Locals
  <2>3. t.jti = nextJti /\ t.user = job[h].user
    OBVIOUS
  <2> HIDE DEF t, k
  <2>4. job'[h] = k /\ \A g \in Handlers \ {h} : job'[g] = job[g]
    BY <2>1, GotoFrame
  <2>5. \A j : Audit(j)' <=> Audit(j)
    BY <2>1 DEF Audit
  <2>6. tokens[nextJti] = None /\ ~Audit(nextJti)
    BY <2>1 DEF Record, Unused, Jtis
  <2>7. \A s \in held : s.jti # nextJti
    BY <2>6 DEF Record, HeldOnRecord
  <2>8. \A g \in Handlers : job[g].pc \in Writes => job[g].jwt.jti < nextJti
    BY DEF Record, Writing, Private
  <2>9. HeldOnRecord' /\ LastLoginHasToken'
    BY <2>1, <2>5 DEF Record, HeldOnRecord, LastLoginHasToken
  <2>10. CarriedHeld'
    BY <2>1, <2>2, <2>4 DEF Record, CarriedHeld, Requests
  <2>11. Writing'
    <3> SUFFICES ASSUME NEW g \in Handlers, job'[g].pc \in Writes PROVE Private(g)'
      BY DEF Writing
    <3>1. CASE g = h
      BY <2>1, <2>2, <2>3, <2>4, <2>5, <2>6, <2>7, <3>1 DEF Private, At, Jtis
    <3>2. CASE g # h
      <4>1. job'[g] = job[g] /\ Private(g)
        BY <2>4, <3>2 DEF Record, Writing
      <4>2. job[g].jwt.jti \in Nat /\ nextJti \in Nat
        BY <2>1, <4>1, JobType, JwtType DEF Jtis
      <4> QED BY <2>1, <2>5, <4>1, <4>2 DEF Private, At
    <3> QED BY <3>1, <3>2
  <2>12. Distinct'
    <3> SUFFICES ASSUME NEW f \in Handlers, NEW g \in Handlers, f # g,
                        job'[f].pc \in Writes, job'[g].pc \in Writes
                 PROVE  job'[f].jwt.jti # job'[g].jwt.jti
      BY DEF Distinct
    <3>1. \A e \in Handlers \ {h} : job'[e].pc \in Writes => job'[e].jwt.jti # nextJti
      BY <2>4, <2>8, <2>1, JobType, JwtType DEF Jtis
    <3>2. job'[h].jwt.jti = nextJti
      BY <2>2, <2>3, <2>4
    <3> QED BY <2>4, <3>1, <3>2 DEF Record, Distinct
  <2>13. Unused'
    BY <2>1, <2>5 DEF Record, Unused, Jtis
  <2> QED BY <2>9, <2>10, <2>11, <2>12, <2>13 DEF Record
<1>2. CASE ~(job[h].right /\ job[h].enabled)
  <2>1. Step(h, "logFailure") /\ UNCHANGED <<tables, nextJti, held>>
    BY <1>2 DEF Verify
  <2>2. job[h].op = "login"
    BY JobType DEF Verify, At
  <2>3. /\ job'[h].pc \notin Writes /\ job'[h].op \notin Requests
        /\ \A g \in Handlers \ {h} : job'[g] = job[g]
    BY <2>1, <2>2, StepFrame DEF Writes, Requests
  <2> QED BY <2>1, <2>3, QuietRecord DEF tables
<1> QED BY <1>1, <1>2

\* The calls of a login before its writes, and the log of a refused one.
LEMMA LookRecord ==
  ASSUME TypeOK, Record, NEW h \in Handlers, FindUser(h) \/ LogFailure(h)
  PROVE  Record'
<1>1. job[h] \in Locals /\ job[h].op = "login"
  BY JobType DEF FindUser, LogFailure, At
<1>2. CASE FindUser(h)
  <2>1. \/ Step(h, "logFailure")
        \/ Goto(h, [job[h] EXCEPT !.pc = "logFailure", !.user = None])
        \/ Goto(h, [job[h] EXCEPT !.pc = "verify", !.enabled = users[job[h].user].enabled])
    BY <1>2 DEF FindUser
  <2>2. /\ job'[h].pc \in {"logFailure", "verify"} /\ job'[h].op = "login"
        /\ \A g \in Handlers \ {h} : job'[g] = job[g]
    <3>1. CASE Step(h, "logFailure")
      BY <1>1, <3>1, StepFrame
    <3>2. ASSUME NEW k, Goto(h, k), k.pc \in {"logFailure", "verify"}, k.op = "login"
          PROVE  /\ job'[h].pc \in {"logFailure", "verify"} /\ job'[h].op = "login"
                 /\ \A g \in Handlers \ {h} : job'[g] = job[g]
      BY <3>2, GotoFrame
    <3>3. LET k == [job[h] EXCEPT !.pc = "logFailure", !.user = None]
              m == [job[h] EXCEPT !.pc = "verify", !.enabled = users[job[h].user].enabled]
          IN  k.pc = "logFailure" /\ k.op = "login" /\ m.pc = "verify" /\ m.op = "login"
      BY <1>1 DEF Locals
    <3> QED BY <2>1, <3>1, <3>2, <3>3
  <2>3. job'[h].pc \notin Writes /\ job'[h].op \notin Requests
    BY <2>2 DEF Writes, Requests
  <2> QED BY <1>2, <2>2, <2>3, QuietRecord DEF FindUser, tables
<1>3. CASE LogFailure(h)
  <2>1. \A j : Audit(j)' <=> Audit(j)
    BY <1>3 DEF LogFailure, Audit
  <2>2. /\ job'[h].pc \notin Writes /\ job'[h].op \notin Requests
        /\ \A g \in Handlers \ {h} : job'[g] = job[g]
    BY <1>3, EndFrame DEF LogFailure, Writes, Requests
  <2>3. UNCHANGED <<users, tokens, nextJti, held>>
    BY <1>3 DEF LogFailure
  <2>4. HeldOnRecord' /\ Unused' /\ LastLoginHasToken'
    BY <2>1, <2>3 DEF Record, HeldOnRecord, Unused, LastLoginHasToken
  <2>5. CarriedHeld' /\ Distinct'
    BY <2>2, <2>3 DEF Record, CarriedHeld, Distinct
  <2>6. Writing'
    <3> SUFFICES ASSUME NEW g \in Handlers, job'[g].pc \in Writes PROVE Private(g)'
      BY DEF Writing
    <3>1. job'[g] = job[g] /\ Private(g)
      BY <2>2 DEF Record, Writing
    <3> QED BY <2>1, <2>3, <3>1 DEF Private, At
  <2> QED BY <2>4, <2>5, <2>6 DEF Record
<1> QED BY <1>2, <1>3

\* The token a login writes about is its own, and it stays so until the answer.
LEMMA WriterOwns ==
  ASSUME TypeOK, Record, NEW h \in Handlers, job[h].pc \in Writes
  PROVE  /\ Private(h) /\ job[h].op = "login"
         /\ job[h].jwt \in Jwt /\ job[h].jwt.jti \in Jtis /\ job[h].user \in Users
         /\ \A g \in Handlers \ {h} : job[g].pc \in Writes => job[g].jwt.jti # job[h].jwt.jti
BY JobType, JwtType DEF Record, Writing, Distinct

LEMMA CreateRecord ==
  ASSUME TypeOK, Record, NEW h \in Handlers, CreateToken(h)
  PROVE  Record'
<1> DEFINE t == job[h].jwt
<1>1. /\ At(h, "create") /\ job[h].pc \in Writes /\ UNCHANGED <<users, log, nextJti>>
      /\ tokens' = [tokens EXCEPT ![t.jti] = [jwt |-> t, revoked |-> 0]]
      /\ Step(h, "touch") /\ UNCHANGED held
  BY WrittenLeads DEF CreateToken, Writes, At
<1>2. /\ Private(h) /\ job[h].op = "login" /\ t \in Jwt /\ t.jti \in Jtis
      /\ \A g \in Handlers \ {h} : job[g].pc \in Writes => job[g].jwt.jti # t.jti
  BY <1>1, WriterOwns
<1>3. /\ job'[h].pc = "touch" /\ job'[h].op = "login" /\ job'[h].jwt = t
      /\ job'[h].user = job[h].user
      /\ \A g \in Handlers \ {h} : job'[g] = job[g]
  BY <1>1, <1>2, StepFrame
<1>4. /\ tokens'[t.jti] = [jwt |-> t, revoked |-> 0] /\ tokens[t.jti] = None
      /\ \A j \in Jtis \ {t.jti} : tokens'[j] = tokens[j]
      /\ tokens'[t.jti] # None
  <2>1. [jwt |-> t, revoked |-> 0] \in Token
    BY <1>2, BoundsAssumption DEF Token
  <2> QED BY <1>1, <1>2, <2>1, NoneAssumption DEF Private, TypeOK
<1>5. \A j : Audit(j)' <=> Audit(j)
  BY <1>1 DEF Audit
<1>6. \A s \in held : s.jti # t.jti /\ s.jti \in Jtis
  BY <1>2, JwtType DEF Private, TypeOK
<1>7. HeldOnRecord'
  BY <1>1, <1>4, <1>5, <1>6 DEF Record, HeldOnRecord
<1>8. CarriedHeld'
  BY <1>1, <1>3 DEF Record, CarriedHeld, Requests
<1>9. Writing'
  <2> SUFFICES ASSUME NEW g \in Handlers, job'[g].pc \in Writes PROVE Private(g)'
    BY DEF Writing
  <2>1. CASE g = h
    BY <1>1, <1>2, <1>3, <1>4, <1>5, <2>1 DEF Private, At
  <2>2. CASE g # h
    <3>1. job'[g] = job[g] /\ Private(g) /\ job[g].jwt.jti \in Jtis \ {t.jti}
      BY <1>2, <1>3, <2>2, WriterOwns
    <3> QED BY <1>1, <1>4, <1>5, <3>1 DEF Private, At
  <2> QED BY <2>1, <2>2
<1>10. Distinct'
  BY <1>2, <1>3 DEF Record, Distinct
<1>11. Unused'
  <2>1. t.jti < nextJti
    BY <1>2 DEF Private
  <2>2. \A j \in Jtis : j >= nextJti => j # t.jti
    BY <1>2, <2>1 DEF Jtis, TypeOK
  <2> QED BY <1>1, <1>4, <1>5, <2>2 DEF Record, Unused
<1>12. LastLoginHasToken'
  <2>1. \A j \in Jtis : tokens[j] # None => tokens'[j] = tokens[j]
    BY <1>4
  <2> QED BY <1>1, <2>1 DEF Record, LastLoginHasToken
<1> QED BY <1>7, <1>8, <1>9, <1>10, <1>11, <1>12 DEF Record

LEMMA UpdateRecord ==
  ASSUME TypeOK, Record, NEW h \in Handlers, UpdateLoginInfo(h)
  PROVE  Record'
<1> DEFINE t == job[h].jwt
<1>1. /\ At(h, "touch") /\ job[h].pc \in Writes /\ UNCHANGED <<tokens, log, nextJti>>
      /\ Step(h, "log") /\ UNCHANGED held
  BY WrittenLeads DEF UpdateLoginInfo, Writes, At
<1>2. /\ Private(h) /\ job[h].op = "login" /\ t \in Jwt /\ t.jti \in Jtis /\ job[h].user \in Users
  BY <1>1, WriterOwns
<1>3. /\ job'[h].pc = "log" /\ job'[h].op = "login" /\ job'[h].jwt = t
      /\ job'[h].user = job[h].user
      /\ \A g \in Handlers \ {h} : job'[g] = job[g]
  BY <1>1, <1>2, StepFrame
<1>4. \A j : Audit(j)' <=> Audit(j)
  BY <1>1 DEF Audit
<1>5. HeldOnRecord' /\ Unused'
  BY <1>1, <1>4 DEF Record, HeldOnRecord, Unused
<1>6. CarriedHeld'
  BY <1>1, <1>3 DEF Record, CarriedHeld, Requests
<1>7. Writing'
  <2> SUFFICES ASSUME NEW g \in Handlers, job'[g].pc \in Writes PROVE Private(g)'
    BY DEF Writing
  <2>1. CASE g = h
    BY <1>1, <1>2, <1>3, <1>4, <2>1 DEF Private, At
  <2>2. CASE g # h
    BY <1>1, <1>3, <1>4, <2>2 DEF Record, Writing, Private, At
  <2> QED BY <2>1, <2>2
<1>8. Distinct'
  <2>1. \A g \in Handlers : job'[g].pc \in Writes => job[g].pc \in Writes /\ job'[g].jwt = job[g].jwt
    BY <1>1, <1>3
  <2> QED BY <2>1 DEF Record, Distinct
<1>9. LastLoginHasToken'
  <2> SUFFICES ASSUME NEW u \in Users, users'[u].lastLogin # 0
               PROVE  \E j \in Jtis : /\ tokens[j] # None /\ tokens[j].jwt.user = u
                                     /\ IssuedAt(tokens[j].jwt) = users'[u].lastLogin
    BY <1>1 DEF LastLoginHasToken
  <2>1. CASE u = job[h].user /\ users'[u].lastLogin = IssuedAt(t)
    <3>1. tokens[t.jti] = [jwt |-> t, revoked |-> 0] /\ t.user = u
      BY <1>1, <1>2, <2>1 DEF Private, At
    <3>2. tokens[t.jti] # None
      <4>1. [jwt |-> t, revoked |-> 0] \in Token
        BY <1>2, BoundsAssumption DEF Token
      <4> QED BY <3>1, <4>1, NoneAssumption
    <3> QED BY <1>2, <2>1, <3>1, <3>2
  <2>2. CASE users'[u].lastLogin = users[u].lastLogin
    BY <2>2 DEF Record, LastLoginHasToken
  <2>3. (u = job[h].user /\ users'[u].lastLogin = IssuedAt(t)) \/ users'[u].lastLogin = users[u].lastLogin
    BY <1>2 DEF UpdateLoginInfo, TypeOK, User
  <2> QED BY <2>1, <2>2, <2>3
<1> QED BY <1>5, <1>6, <1>7, <1>8, <1>9 DEF Record

LEMMA LogRecord ==
  ASSUME TypeOK, Record, NEW h \in Handlers, LogSuccess(h)
  PROVE  Record'
<1> DEFINE t == job[h].jwt
<1>1. /\ At(h, "log") /\ job[h].pc \in Writes /\ UNCHANGED <<users, tokens, nextJti>>
      /\ log' = log \cup {[user |-> job[h].user, jti |-> t.jti, ok |-> TRUE]}
      /\ End(h) /\ held' \in {held, held \cup {t}}
  BY WrittenLeads DEF LogSuccess, Writes, At
<1>2. /\ Private(h) /\ t \in Jwt /\ t.jti \in Jtis
      /\ \A g \in Handlers \ {h} : job[g].pc \in Writes => job[g].jwt.jti # t.jti
  BY <1>1, WriterOwns
<1>3. /\ job'[h].pc \notin Writes /\ job'[h].op \notin Requests
      /\ \A g \in Handlers \ {h} : job'[g] = job[g]
  BY <1>1, EndFrame DEF Writes, Requests
<1>4. \A j : Audit(j)' <=> Audit(j) \/ j = t.jti
  <2> DEFINE e == [user |-> job[h].user, jti |-> t.jti, ok |-> TRUE]
  <2>1. e.ok = TRUE /\ e.jti = t.jti
    OBVIOUS
  <2>2. log' = log \cup {e}
    BY <1>1
  <2> HIDE DEF e
  <2> QED BY <2>1, <2>2 DEF Audit
<1>5. HeldOnRecord'
  <2>1. tokens[t.jti] = [jwt |-> t, revoked |-> 0]
    BY <1>1, <1>2 DEF Private, At
  <2>2. tokens[t.jti] # None
    <3>1. [jwt |-> t, revoked |-> 0] \in Token
      BY <1>2, BoundsAssumption DEF Token
    <3> QED BY <2>1, <3>1, NoneAssumption
  <2> QED BY <1>1, <1>4, <2>1, <2>2 DEF Record, HeldOnRecord
<1>6. CarriedHeld'
  BY <1>1, <1>3 DEF Record, CarriedHeld
<1>7. Writing'
  <2> SUFFICES ASSUME NEW g \in Handlers, job'[g].pc \in Writes PROVE Private(g)'
    BY DEF Writing
  <2>1. g # h /\ job'[g] = job[g] /\ Private(g) /\ job[g].jwt.jti # t.jti
    BY <1>2, <1>3 DEF Record, Writing
  <2> QED BY <1>1, <1>4, <2>1 DEF Private, At
<1>8. Distinct'
  BY <1>3 DEF Record, Distinct
<1>9. Unused'
  <2>1. t.jti < nextJti
    BY <1>2 DEF Private
  <2> QED BY <1>1, <1>2, <1>4, <2>1 DEF Record, Unused, Jtis, TypeOK
<1>10. LastLoginHasToken'
  BY <1>1 DEF Record, LastLoginHasToken
<1> QED BY <1>5, <1>6, <1>7, <1>8, <1>9, <1>10 DEF Record

LEMMA NextRecord == TypeOK /\ Record /\ [Next]_vars => Record'
<1> SUFFICES ASSUME TypeOK, Record, [Next]_vars PROVE Record'
  OBVIOUS
<1>1. ASSUME NEW h \in Handlers, Login(h) PROVE Record'
  BY <1>1, VerifyRecord, LookRecord, CreateRecord, UpdateRecord, LogRecord DEF Login
<1>2. CASE UNCHANGED vars
  BY <1>2, QuietRecord DEF vars
<1> QED BY <1>1, <1>2, Cases, BeginRecord, AuthenticateRecord, WorldRecord

\* sys_user and sys_login_token agree: each last login is that of a stored token.
THEOREM LastLoginsHaveTokens == Spec => []LastLoginHasToken
<1>1. Record => LastLoginHasToken
  BY DEF Record
<1> QED BY InitRecord, NextRecord, TypeCorrect, <1>1, PTL DEF Spec

-----------------------------------------------------------------------------
(***************************************************************************)
(* What happens to a request whose token had ended, and why a request is   *)
(* refused.                                                                *)
(***************************************************************************)

\* A stored token changes by its own logout alone, and what has ended stays so.
LEMMA TokensMonotone ==
  ASSUME TypeOK, Record, [Next]_vars
  PROVE  /\ \A u \in Users : users[u].deleted => users'[u].deleted
         /\ \A j \in Jtis : tokens[j] # None =>
              /\ tokens'[j] # None
              /\ tokens'[j].jwt = tokens[j].jwt
              /\ tokens[j].revoked # 0 => tokens'[j].revoked # 0
         /\ \A j \in Jtis : tokens[j] # None /\ tokens'[j] # tokens[j] =>
              \E h \in Handlers : At(h, "revoke") /\ job[h].jwt.jti = j
<1>1. ASSUME NEW h \in Handlers, CreateToken(h)
      PROVE  UNCHANGED users /\ \A j \in Jtis : tokens[j] # None => tokens'[j] = tokens[j]
  <2>1. At(h, "create") /\ job[h].pc \in Writes /\ UNCHANGED users
    BY <1>1 DEF CreateToken, At, Writes
  <2>2. tokens[job[h].jwt.jti] = None /\ job[h].jwt.jti \in Jtis
    BY <2>1, WriterOwns DEF Private
  <2>3. tokens' = [tokens EXCEPT ![job[h].jwt.jti] = [jwt |-> job[h].jwt, revoked |-> 0]]
    BY <1>1 DEF CreateToken
  <2> QED BY <2>1, <2>2, <2>3 DEF TypeOK
<1>2. ASSUME NEW h \in Handlers, UpdateLoginInfo(h)
      PROVE  UNCHANGED tokens /\ \A u \in Users : users'[u].deleted = users[u].deleted
  BY <1>2 DEF UpdateLoginInfo, TypeOK, User
<1>3. ASSUME NEW h \in Handlers, Revoke(h)
      PROVE  /\ UNCHANGED users /\ At(h, "revoke")
             /\ \A j \in Jtis : \/ tokens'[j] = tokens[j]
                                \/ /\ j = job[h].jwt.jti
                                   /\ tokens'[j] # None /\ tokens'[j].jwt = tokens[j].jwt
                                   /\ tokens'[j].revoked # 0
  <2> DEFINE i == job[h].jwt.jti
  <2>1. At(h, "revoke") /\ UNCHANGED users
    BY <1>3 DEF Revoke
  <2>2. i \in Jtis
    BY <2>1, JobType, JwtType DEF Requests
  <2>3. CASE tokens[i] # None /\ tokens' = [tokens EXCEPT ![i].revoked = now]
    <3>1. tokens[i] \in Token /\ now \in 0..MaxTime /\ now # 0
      BY <2>2, <2>3, BoundsAssumption DEF TypeOK, Time
    <3>2. tokens'[i] = [tokens[i] EXCEPT !.revoked = now] /\ tokens'[i] \in Token
      BY <2>2, <2>3, <3>1 DEF TypeOK, Token
    <3>3. tokens'[i] # None /\ tokens'[i].jwt = tokens[i].jwt /\ tokens'[i].revoked # 0
      BY <3>1, <3>2, NoneAssumption DEF Token
    <3>4. \A j \in Jtis \ {i} : tokens'[j] = tokens[j]
      BY <2>3 DEF TypeOK
    <3> QED BY <2>1, <3>3, <3>4
  <2>4. CASE UNCHANGED tokens
    BY <2>1, <2>4
  <2> QED BY <1>3, <2>3, <2>4 DEF Revoke
<1>4. CASE Administer
  BY <1>4 DEF Administer, TypeOK, User
<1>5. \/ \E h \in Handlers : CreateToken(h) \/ UpdateLoginInfo(h) \/ Revoke(h)
      \/ Administer
      \/ UNCHANGED <<users, tokens>>
  BY DEF Next, Begin, BeginLogin, BeginRequest, Login, Authenticate, FindUser, Verify,
         LogFailure, LogSuccess, FindToken, Admit, TurnAway, CallFails, Crash, Tick, tables, vars
<1> QED BY <1>1, <1>2, <1>3, <1>4, <1>5

\* A dead request can get no further than a user who is deleted.
Doomed(h) ==
  LET t == job[h].jwt IN
  /\ job[h].op \in Requests
  /\ At(h, "findToken") => Revoked(t) \/ users[t.user].deleted
  /\ At(h, "loadUser") => users[t.user].deleted

DeadEnd == \A h \in Handlers : job[h].dead => Doomed(h)

LEMMA DoomedStays ==
  ASSUME TypeOK, Record, [Next]_vars, NEW g \in Handlers, Doomed(g), job'[g] = job[g]
  PROVE  Doomed(g)'
<1>1. job[g].jwt \in Jwt /\ job[g].jwt.user \in Users /\ job[g].jwt.jti \in Jtis
  BY JobType, JwtType DEF Doomed
<1>2. Revoked(job[g].jwt) => Revoked(job[g].jwt)'
  BY <1>1, TokensMonotone DEF Revoked
<1>3. users[job[g].jwt.user].deleted => users'[job[g].jwt.user].deleted
  BY <1>1, TokensMonotone
<1> QED BY <1>2, <1>3 DEF Doomed, At, Revoked

LEMMA LoginAlive ==
  ASSUME TypeOK, NEW h \in Handlers, Login(h), ~job[h].dead
  PROVE  ~job'[h].dead /\ \A g \in Handlers \ {h} : job'[g] = job[g]
<1>1. job[h] \in Locals
  BY JobType
<1>0. ASSUME NEW k, Goto(h, k), ~k.dead
      PROVE  ~job'[h].dead /\ \A g \in Handlers \ {h} : job'[g] = job[g]
  BY <1>0, GotoFrame
<1>2. CASE FindUser(h)
  <2> DEFINE k == [job[h] EXCEPT !.pc = "logFailure", !.user = None]
             m == [job[h] EXCEPT !.pc = "verify", !.enabled = users[job[h].user].enabled]
  <2>1. Step(h, "logFailure") \/ Goto(h, k) \/ Goto(h, m)
    BY <1>2 DEF FindUser
  <2>2. ~k.dead /\ ~m.dead
    BY <1>1 DEF Locals
  <2> HIDE DEF k, m
  <2> QED BY <1>0, <2>1, <2>2, StepFrame
<1>3. CASE Verify(h)
  <2> DEFINE t == [user |-> job[h].user, jti |-> nextJti, exp |-> now + Lifetime]
             k == [job[h] EXCEPT !.pc = LoginSteps[1], !.jwt = t]
  <2>1. Goto(h, k) \/ Step(h, "logFailure")
    BY <1>3 DEF Verify
  <2>2. ~k.dead
    <3> HIDE DEF t
    <3> QED BY <1>1 DEF Locals
  <2> HIDE DEF k
  <2> QED BY <1>0, <2>1, <2>2, StepFrame
<1>4. CASE LogFailure(h)
  BY <1>4, EndFrame DEF LogFailure
<1>5. CASE CreateToken(h) \/ UpdateLoginInfo(h) \/ LogSuccess(h)
  <2>1. Written(h) /\ job[h].pc \in Writes
    BY <1>5 DEF CreateToken, UpdateLoginInfo, LogSuccess, At, Writes
  <2>2. Step(h, "touch") \/ Step(h, "log") \/ End(h)
    BY <2>1, WrittenLeads DEF Writes, At
  <2> QED BY <2>2, StepFrame, EndFrame
<1> QED BY <1>2, <1>3, <1>4, <1>5 DEF Login

LEMMA DeadEndStep == TypeOK /\ Record /\ DeadEnd /\ [Next]_vars => DeadEnd'
<1> SUFFICES ASSUME TypeOK, Record, DeadEnd, [Next]_vars PROVE DeadEnd'
  OBVIOUS
<1>1. ASSUME NEW h \in Handlers, \A g \in Handlers \ {h} : job'[g] = job[g],
             job'[h].dead => Doomed(h)'
      PROVE  DeadEnd'
  BY <1>1, DoomedStays DEF DeadEnd
<1>2. ASSUME NEW h \in Handlers, BeginLogin(h) PROVE DeadEnd'
  <2>1. PICK u \in Users \cup {None}, right \in BOOLEAN :
          Goto(h, Started("login", "findUser", u, right, None, FALSE))
    BY <1>2 DEF BeginLogin
  <2> QED BY <1>1, <2>1, GotoFrame DEF Started
<1>3. ASSUME NEW h \in Handlers, BeginRequest(h) PROVE DeadEnd'
  <2>1. PICK t \in held, op \in Requests :
          ~Expired(t) /\ Goto(h, Started(op, "findToken", None, FALSE, t, Ended(t)))
    BY <1>3 DEF BeginRequest
  <2>2. /\ job'[h] = Started(op, "findToken", None, FALSE, t, Ended(t))
        /\ \A g \in Handlers \ {h} : job'[g] = job[g]
    BY <2>1, GotoFrame
  <2>3. UNCHANGED <<users, tokens>>
    BY <1>3 DEF BeginRequest, tables
  <2>4. job'[h].op \in Requests /\ job'[h].pc = "findToken" /\ job'[h].jwt = t
        /\ job'[h].dead = Ended(t)
    BY <2>2 DEF Started
  <2>5. Ended(t) => Revoked(t) \/ users[t.user].deleted
    BY <2>1 DEF Ended
  <2>6. job'[h].dead => Doomed(h)'
    BY <2>3, <2>4, <2>5 DEF Doomed, At, Revoked
  <2> QED BY <1>1, <2>2, <2>6
<1>4. ASSUME NEW h \in Handlers, Login(h) PROVE DeadEnd'
  <2>1. job[h].op = "login"
    BY <1>4, JobType DEF Login, FindUser, Verify, LogFailure, CreateToken, UpdateLoginInfo,
                         LogSuccess, At, Writes
  <2>2. ~job[h].dead
    BY <2>1 DEF DeadEnd, Doomed, Requests
  <2> QED BY <1>1, <1>4, <2>2, LoginAlive
<1>5. ASSUME NEW h \in Handlers, FindToken(h) PROVE DeadEnd'
  <2>1. At(h, "findToken") /\ UNCHANGED <<users, tokens>>
    BY <1>5 DEF FindToken, tables
  <2>2. CASE End(h)
    BY <1>1, <2>2, EndFrame
  <2>3. CASE ActiveRow(job[h].jwt) /\ Step(h, "loadUser")
    <3>1. /\ job'[h].pc = "loadUser" /\ job'[h].op = job[h].op /\ job'[h].jwt = job[h].jwt
          /\ job'[h].dead = job[h].dead /\ \A g \in Handlers \ {h} : job'[g] = job[g]
      BY <2>3, StepFrame
    <3>2. ~Revoked(job[h].jwt)
      BY <2>3 DEF ActiveRow, Revoked
    <3>3. job[h].dead => users[job[h].jwt.user].deleted /\ job[h].op \in Requests
      BY <2>1, <3>2 DEF DeadEnd, Doomed
    <3>4. job'[h].dead => Doomed(h)'
      BY <2>1, <3>1, <3>3 DEF Doomed, At
    <3> QED BY <1>1, <3>1, <3>4
  <2> QED BY <1>5, <2>2, <2>3 DEF FindToken
<1>6. ASSUME NEW h \in Handlers, Admit(h) PROVE DeadEnd'
  <2>1. CASE End(h)
    BY <1>1, <2>1, EndFrame
  <2>2. CASE job[h].op = "logout" /\ Step(h, "revoke")
    <3>1. /\ job'[h].pc = "revoke" /\ job'[h].op = "logout"
          /\ \A g \in Handlers \ {h} : job'[g] = job[g]
      BY <2>2, StepFrame
    <3> QED BY <1>1, <3>1 DEF Doomed, At, Requests
  <2> QED BY <1>6, <2>1, <2>2 DEF Admit
<1>7. ASSUME NEW h \in Handlers, TurnAway(h) \/ Revoke(h) \/ CallFails(h) PROVE DeadEnd'
  BY <1>1, <1>7, EndFrame DEF TurnAway, Revoke, CallFails
<1>8. CASE Crash
  BY <1>8 DEF Crash, DeadEnd, Idle, Started
<1>9. CASE Tick \/ Administer \/ UNCHANGED vars
  <2>1. job' = job
    BY <1>9 DEF Tick, Administer, vars
  <2> QED BY <2>1, DoomedStays DEF DeadEnd
<1> QED BY <1>2, <1>3, <1>4, <1>5, <1>6, <1>7, <1>8, <1>9, Cases DEF Authenticate

\* No request is let through whose token had ended when it arrived.
THEOREM EndedTokensStayOut == Spec => EndedStaysOut
<1>1. Init => DeadEnd
  BY DEF Init, DeadEnd, Idle, Started
<1>2. TypeOK /\ DeadEnd => \A h \in Handlers : Admit(h) => ~job[h].dead
  <2> SUFFICES ASSUME TypeOK, DeadEnd, NEW h \in Handlers, Admit(h), job[h].dead PROVE FALSE
    OBVIOUS
  <2>1. users[job[h].jwt.user].deleted
    BY DEF Admit, DeadEnd, Doomed
  <2> QED BY <2>1 DEF Admit, Welcome
<1>3. TypeOK /\ DeadEnd /\ [Next]_vars => [\A h \in Handlers : Admit(h) => ~job[h].dead]_vars
  BY <1>2
<1> QED BY <1>1, <1>3, InitRecord, NextRecord, DeadEndStep, TypeCorrect, PTL
        DEF Spec, EndedStaysOut

\* A request is refused only for a reason, and only a logout revokes its token.
THEOREM TokensWork == Spec => RefusalJustified
<1> DEFINE Why ==
      /\ \A h \in Handlers :
           (FindToken(h) \/ TurnAway(h)) /\ job'[h] = Idle
             => Revoked(job[h].jwt) \/ ~Welcome(h)
      /\ \A j \in Jtis : tokens[j] # None /\ tokens'[j] # tokens[j] =>
           \E h \in Handlers : At(h, "revoke") /\ job[h].jwt.jti = j
<1>1. TypeOK /\ Record /\ [Next]_vars => Why
  <2> SUFFICES ASSUME TypeOK, Record, [Next]_vars PROVE Why
    OBVIOUS
  <2>1. ASSUME NEW h \in Handlers, FindToken(h), job'[h] = Idle
        PROVE  Revoked(job[h].jwt)
    <3>1. job[h].jwt \in held
      BY <2>1, JobType DEF Record, CarriedHeld, FindToken, At
    <3>2. tokens[job[h].jwt.jti] # None /\ tokens[job[h].jwt.jti].jwt = job[h].jwt
      BY <3>1 DEF Record, HeldOnRecord
    <3>3. ~Step(h, "loadUser")
      BY <2>1, StepFrame DEF Idle, Started
    <3>4. ~ActiveRow(job[h].jwt)
      BY <2>1, <3>3 DEF FindToken
    <3> QED BY <3>2, <3>4 DEF ActiveRow, Revoked
  <2>2. \A h \in Handlers : TurnAway(h) => ~Welcome(h)
    BY DEF TurnAway
  <2> QED BY <2>1, <2>2, TokensMonotone
<1> HIDE DEF Why
<1>2. TypeOK /\ Record /\ [Next]_vars => [Why]_vars
  BY <1>1
<1>3. [][Why]_vars => RefusalJustified
  BY PTL DEF RefusalJustified, Why
<1> QED BY <1>2, <1>3, InitRecord, NextRecord, TypeCorrect, PTL DEF Spec

-----------------------------------------------------------------------------
(***************************************************************************)
(* The ledger.                                                             *)
(***************************************************************************)


\* One line moves and the others stay, or none does.
Moved(j, a, b) == /\ <<a, b>> \in Ledger!Moves
                  /\ Line(j) = a /\ Line(j)' = b
                  /\ \A i \in Jtis \ {j} : Line(i)' = Line(i)
Still == \A i \in Jtis : Line(i)' = Line(i)

\* A line whose parts do not change does not change.
LEMMA LineSame ==
  ASSUME NEW i, tokens'[i] = tokens[i], Audit(i)' <=> Audit(i),
         (\E t \in held' : t.jti = i) <=> (\E t \in held : t.jti = i)
  PROVE  Line(i)' = Line(i)
BY DEF Line

LEMMA LedgerMoves ==
  /\ <<{}, {"stored"}>> \in Ledger!Moves
  /\ <<{"stored"}, {"stored", "audited"}>> \in Ledger!Moves
  /\ <<{"stored"}, {"stored", "audited", "held"}>> \in Ledger!Moves
  /\ <<{"stored", "audited", "held"}, {"stored", "audited", "held", "closed"}>> \in Ledger!Moves
BY DEF Ledger!Moves, Ledger!Facts

LEMMA CreateMoves ==
  ASSUME TypeOK, Record, NEW h \in Handlers, CreateToken(h)
  PROVE  \E j \in Jtis : \E a, b : Moved(j, a, b)
<1>0. job[h].jwt.jti \in Jtis
  BY WriterOwns DEF CreateToken, Writes, At
<1> PICK i \in Jtis : i = job[h].jwt.jti
  BY <1>0
<1>1. /\ At(h, "create") /\ job[h].pc \in Writes /\ UNCHANGED <<log, held>>
      /\ tokens' = [tokens EXCEPT ![i] = [jwt |-> job[h].jwt, revoked |-> 0]]
  BY WrittenLeads DEF CreateToken, Writes, At
<1>2. Private(h) /\ job[h].jwt \in Jwt /\ i \in Jtis
  BY <1>1, WriterOwns
<1>3. [jwt |-> job[h].jwt, revoked |-> 0] \in Token
  BY <1>2, BoundsAssumption DEF Token
<1>4. /\ tokens[i] = None /\ tokens'[i] # None /\ tokens'[i].revoked = 0
      /\ \A k \in Jtis \ {i} : tokens'[k] = tokens[k]
  BY <1>1, <1>2, <1>3, NoneAssumption DEF Private, TypeOK
<1>5. ~Audit(i) /\ ~(\E t \in held : t.jti = i) /\ \A k : Audit(k)' <=> Audit(k)
  BY <1>1, <1>2 DEF Private, Audit
<1>6. Line(i) = {}
  BY <1>4, <1>5 DEF Line
<1>7. Line(i)' = {"stored"}
  BY <1>1, <1>4, <1>5 DEF Line
<1>8. \A k \in Jtis \ {i} : Line(k)' = Line(k)
  BY <1>1, <1>4, <1>5, LineSame
<1>9. Moved(i, {}, {"stored"})
  BY <1>6, <1>7, <1>8, LedgerMoves DEF Moved
<1> QED BY <1>2, <1>9

LEMMA LogMoves ==
  ASSUME TypeOK, Record, NEW h \in Handlers, LogSuccess(h)
  PROVE  \E j \in Jtis : \E a, b : Moved(j, a, b)
<1> DEFINE t == job[h].jwt
<1>0. job[h].jwt.jti \in Jtis
  BY WriterOwns DEF LogSuccess, Writes, At
<1> PICK i \in Jtis : i = t.jti
  BY <1>0
<1>1. /\ At(h, "log") /\ job[h].pc \in Writes /\ UNCHANGED tokens
      /\ log' = log \cup {[user |-> job[h].user, jti |-> i, ok |-> TRUE]}
      /\ held' \in {held, held \cup {t}}
  BY WrittenLeads DEF LogSuccess, Writes, At
<1>2. /\ Private(h) /\ t \in Jwt /\ t.jti \in Jtis
  BY <1>1, WriterOwns
<1>3. \A k : Audit(k)' <=> Audit(k) \/ k = i
  <2> DEFINE e == [user |-> job[h].user, jti |-> i, ok |-> TRUE]
  <2>1. e.ok = TRUE /\ e.jti = i /\ log' = log \cup {e}
    BY <1>1
  <2> HIDE DEF e
  <2> QED BY <2>1 DEF Audit
<1>4. tokens[i] # None /\ tokens[i].revoked = 0
  <2>1. [jwt |-> t, revoked |-> 0] \in Token
    BY <1>2, BoundsAssumption DEF Token
  <2>2. tokens[i] = [jwt |-> t, revoked |-> 0]
    BY <1>1, <1>2 DEF Private, At
  <2> QED BY <2>1, <2>2, NoneAssumption
<1>5. ~Audit(i) /\ ~(\E s \in held : s.jti = i)
  BY <1>2 DEF Private
<1>6. Line(i) = {"stored"}
  BY <1>4, <1>5 DEF Line
<1>7. \A k \in Jtis \ {i} : Line(k)' = Line(k)
  BY <1>1, <1>3, LineSame
<1>8. CASE held' = held
  <2>1. Line(i)' = {"stored", "audited"}
    BY <1>1, <1>3, <1>4, <1>5, <1>8 DEF Line
  <2>2. Moved(i, {"stored"}, {"stored", "audited"})
    BY <1>6, <1>7, <2>1, LedgerMoves DEF Moved
  <2> QED BY <1>2, <2>2
<1>9. CASE held' = held \cup {t}
  <2>1. Line(i)' = {"stored", "audited", "held"}
    BY <1>1, <1>3, <1>4, <1>9 DEF Line
  <2>2. Moved(i, {"stored"}, {"stored", "audited", "held"})
    BY <1>6, <1>7, <2>1, LedgerMoves DEF Moved
  <2> QED BY <1>2, <2>2
<1> QED BY <1>1, <1>8, <1>9

LEMMA RevokeMoves ==
  ASSUME TypeOK, Record, NEW h \in Handlers, Revoke(h)
  PROVE  Still \/ \E j \in Jtis : \E a, b : Moved(j, a, b)
<1> DEFINE t == job[h].jwt
<1>0. job[h].jwt.jti \in Jtis
  BY JobType, JwtType DEF Revoke, At, Requests
<1> PICK i \in Jtis : i = t.jti
  BY <1>0
<1>1. At(h, "revoke") /\ UNCHANGED <<log, held>>
  BY DEF Revoke
<1>2. t \in held /\ t.jti \in Jtis
  BY <1>1, JobType, JwtType DEF Record, CarriedHeld, Requests
<1>3. Audit(i) /\ tokens[i] # None
  BY <1>2 DEF Record, HeldOnRecord
<1>4. \A k : Audit(k)' <=> Audit(k)
  BY <1>1 DEF Audit
<1>5. CASE UNCHANGED tokens
  BY <1>1, <1>4, <1>5, LineSame DEF Still
<1>6. CASE tokens[i].revoked = 0 /\ tokens' = [tokens EXCEPT ![i].revoked = now]
  <2>1. tokens[i] \in Token /\ now \in 0..MaxTime /\ now # 0
    BY <1>2, <1>3, BoundsAssumption DEF TypeOK, Time
  <2>2. tokens'[i] = [tokens[i] EXCEPT !.revoked = now] /\ tokens'[i] \in Token
    BY <1>2, <1>6, <2>1 DEF TypeOK, Token
  <2>3. tokens'[i] # None /\ tokens'[i].revoked # 0
    BY <2>1, <2>2, NoneAssumption DEF Token
  <2>4. \A k \in Jtis \ {i} : tokens'[k] = tokens[k]
    BY <1>6 DEF TypeOK
  <2>5. Line(i) = {"stored", "audited", "held"}
    BY <1>2, <1>3, <1>6 DEF Line
  <2>6. Line(i)' = {"stored", "audited", "held", "closed"}
    BY <1>1, <1>2, <1>3, <1>4, <2>3 DEF Line
  <2>7. \A k \in Jtis \ {i} : Line(k)' = Line(k)
    BY <1>1, <1>4, <2>4, LineSame
  <2>8. Moved(i, {"stored", "audited", "held"}, {"stored", "audited", "held", "closed"})
    BY <2>5, <2>6, <2>7, LedgerMoves DEF Moved
  <2> QED BY <1>2, <2>8
<1> QED BY <1>5, <1>6 DEF Revoke

LEMMA NextMoves ==
  ASSUME TypeOK, Record, [Next]_vars
  PROVE  Still \/ \E j \in Jtis : \E a, b : Moved(j, a, b)
<1>1. ASSUME UNCHANGED <<tokens, held>>, \A k : Audit(k)' <=> Audit(k) PROVE Still
  BY <1>1, LineSame DEF Still
<1>2. ASSUME UNCHANGED <<tokens, held, log>> PROVE Still
  BY <1>1, <1>2 DEF Audit
<1>3. ASSUME NEW h \in Handlers, LogFailure(h) PROVE Still
  BY <1>1, <1>3 DEF LogFailure, Audit
<1>4. ASSUME NEW h \in Handlers, UpdateLoginInfo(h) PROVE Still
  BY <1>2, <1>4, WrittenLeads DEF UpdateLoginInfo, At
<1>5. \/ \E h \in Handlers : \/ CreateToken(h) \/ UpdateLoginInfo(h) \/ Revoke(h)
                             \/ LogFailure(h) \/ LogSuccess(h)
      \/ UNCHANGED <<tokens, held, log>>
  BY DEF Next, Begin, BeginLogin, BeginRequest, Login, Authenticate, FindUser, Verify,
         FindToken, Admit, TurnAway, CallFails, Crash, Tick, Administer, tables, vars
<1> QED BY <1>2, <1>3, <1>4, <1>5, CreateMoves, LogMoves, RevokeMoves

\* Tables, log and clients together implement the ledger.
THEOREM LedgerImplemented == Spec => ImplementsLedger
<1>1. Init => Ledger!Init
  <2> SUFFICES ASSUME Init PROVE Ledger!Init
    OBVIOUS
  <2>1. \A j \in Jtis : tokens[j] = None /\ ~Audit(j) /\ held = {}
    BY DEF Init, Audit
  <2>2. \A j \in Jtis : Line(j) = {}
    BY <2>1 DEF Line
  <2> QED BY <2>2 DEF Ledger!Init, Lines
<1>2. TypeOK /\ Record /\ [Next]_vars => [Ledger!Next]_Lines
  <2> SUFFICES ASSUME TypeOK, Record, [Next]_vars PROVE Ledger!Next \/ UNCHANGED Lines
    OBVIOUS
  <2>1. CASE Still
    BY <2>1 DEF Still, Lines
  <2>2. ASSUME NEW j \in Jtis, NEW a, NEW b, Moved(j, a, b) PROVE Ledger!Next
    <3>1. <<a, b>> \in Ledger!Moves /\ Lines[j] = a
      BY <2>2 DEF Moved, Lines
    <3>2. Lines' = [Lines EXCEPT ![j] = b]
      BY <2>2 DEF Moved, Lines
    <3>3. Lines[j] = <<a, b>>[1] /\ Lines' = [Lines EXCEPT ![j] = <<a, b>>[2]]
      BY <3>1, <3>2
    <3> QED BY <3>1, <3>3 DEF Ledger!Next
  <2> QED BY <2>1, <2>2, NextMoves
<1> QED BY <1>1, <1>2, InitRecord, NextRecord, TypeCorrect, PTL
        DEF Spec, ImplementsLedger, Ledger!Spec
=============================================================================
