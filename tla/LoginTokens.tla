----------------------------- MODULE LoginTokens -----------------------------
(***************************************************************************)
(* Login, authentication and logout.  A login writes a token row, the      *)
(* user's last login and a log row in three database calls without a       *)
(* transaction, then answers with a JWT; a request that carries the JWT is *)
(* let through after two more queries; a logout is such a request that     *)
(* ends by revoking its own token row.  Every awaited call is one action,  *)
(* and other requests, administrators and the clock run between any two.   *)
(***************************************************************************)
EXTENDS Naturals, FiniteSets, Sequences

CONSTANTS
  Handlers,     \* requests that can be in flight together
  Users,        \* rows of sys_user
  MaxTokens,    \* bound: tokens ever signed
  MaxTime,      \* bound: the clock
  Lifetime,     \* access_token_expire_minutes
  MaxFaults,    \* bound: failed calls, lost answers and crashes
  MaxChanges,   \* bound: changes an administrator makes to users
  None          \* "no row", "no token", "no such user"

Jtis == 1..MaxTokens                 \* uuid4: never the same twice
Time == 1..MaxTime

\* The signed payload (sub, jti, exp).  An honest client presents a token as
\* it was answered, so the token row's digest is the JWT itself.
Jwt   == [user : Users, jti : Jtis, exp : {t + Lifetime : t \in Time}]
Token == [jwt : Jwt, revoked : 0..MaxTime]           \* 0: revoked_time is NULL
User  == [enabled : BOOLEAN, deleted : BOOLEAN, lastLogin : 0..MaxTime]
Entry == [user : Users \cup {None}, jti : 0..MaxTokens, ok : BOOLEAN]

ASSUME BoundsAssumption == /\ MaxTokens \in Nat /\ MaxFaults \in Nat /\ MaxChanges \in Nat
                           /\ MaxTime \in Nat \ {0}
ASSUME LifetimeAssumption == Lifetime \in Nat \ {0}
ASSUME NoneAssumption     == None \notin Users /\ None \notin Jwt /\ None \notin Token

VARIABLES
  users,      \* sys_user
  tokens,     \* sys_login_token, by its unique jti
  log,        \* sys_login_log; equal entries are kept once
  nextJti,    \* the next jti to be signed
  held,       \* the JWTs clients were answered with
  job,        \* the requests in flight
  now, faults, changes

tables == <<users, tokens, log>>
world  == <<now, changes>>
vars   == <<users, tokens, log, nextJti, held, job, now, faults, changes>>

(***************************************************************************)
(* A request in flight.  dead is a history field, read by no guard: the    *)
(* token it carries had ended when the request arrived.                    *)
(***************************************************************************)
\* mutant: the log is written before the token it names
LoginStepsLogFirst == <<"log", "create", "touch">>

\* mutant: the user row is updated before the token is stored
LoginStepsTouchFirst == <<"touch", "create", "log">>
LoginSteps == <<"create", "touch", "log">>

Steps == [login  |-> {"findUser", "verify", "logFailure", "create", "touch", "log"},
          use    |-> {"findToken", "loadUser"},
          logout |-> {"findToken", "loadUser", "revoke"},
          idle   |-> {"done"}]

Locals == [op : DOMAIN Steps, pc : UNION {Steps[o] : o \in DOMAIN Steps},
           user : Users \cup {None}, right : BOOLEAN, enabled : BOOLEAN,
           jwt : Jwt \cup {None}, dead : BOOLEAN]

Requests == {"use", "logout"}        \* carry a token
Writes   == {"create", "touch", "log"}

Job == {j \in Locals : /\ j.pc \in Steps[j.op]
                       /\ j.pc \in {"verify"} \cup Writes => j.user # None
                       /\ j.op \in Requests \/ j.pc \in Writes => j.jwt # None}

Started(op, pc, u, right, t, dead) ==
  [op |-> op, pc |-> pc, user |-> u, right |-> right, enabled |-> FALSE,
   jwt |-> t, dead |-> dead]

Idle == Started("idle", "done", None, FALSE, None, FALSE)

Busy(h)    == job[h].op # "idle"
At(h, s)   == job[h].pc = s
Goto(h, j) == job' = [job EXCEPT ![h] = j]
Step(h, s) == Goto(h, [job[h] EXCEPT !.pc = s])
End(h)     == Goto(h, Idle)

Fault == faults < MaxFaults /\ faults' = faults + 1

\* A user deleted before the start is nobody to every query, as None is.
Init ==
  /\ users \in [Users -> [enabled : BOOLEAN, deleted : {FALSE}, lastLogin : {0}]]
  /\ tokens = [j \in Jtis |-> None]
  /\ log = {}
  /\ nextJti = 1
  /\ held = {}
  /\ job = [h \in Handlers |-> Idle]
  /\ now = 1
  /\ faults = 0
  /\ changes = 0

-----------------------------------------------------------------------------
(***************************************************************************)
(* Login.                                                                  *)
(***************************************************************************)
Unsigned == {h \in Handlers : job[h].pc \in {"findUser", "verify"}}

\* None stands for a name nobody has.  A blank name or password is answered
\* with 422 or a ParamError and changes nothing.
BeginLogin(h) ==
  /\ nextJti + Cardinality(Unsigned) <= MaxTokens            \* bound
  /\ \E u \in Users \cup {None}, right \in BOOLEAN :
       Goto(h, Started("login", "findUser", u, right, None, FALSE))
  /\ UNCHANGED <<tables, nextJti, held, world, faults>>

\* The record read here is the one every later check of the login looks at.
FindUser(h) ==
  LET u == job[h].user IN
  /\ At(h, "findUser")
  /\ IF u = None THEN Step(h, "logFailure")
     ELSE IF users[u].deleted
     THEN Goto(h, [job[h] EXCEPT !.pc = "logFailure", !.user = None])
     ELSE Goto(h, [job[h] EXCEPT !.pc = "verify", !.enabled = users[u].enabled])
  /\ UNCHANGED <<tables, nextJti, held, world, faults>>

\* bcrypt runs in a thread of the pool; what follows it up to the first write
\* (status check, signing) runs without another await.
Verify(h) ==
  LET j == job[h] IN
  /\ At(h, "verify")
  /\ IF j.right /\ j.enabled
     THEN /\ nextJti \in Jtis                                 \* bound, see BeginLogin
          /\ Goto(h, [j EXCEPT !.pc = LoginSteps[1],
                        !.jwt = [user |-> j.user, jti |-> nextJti, exp |-> now + Lifetime]])
          /\ nextJti' = nextJti + 1
     ELSE Step(h, "logFailure") /\ UNCHANGED nextJti
  /\ UNCHANGED <<tables, held, world, faults>>

LogFailure(h) ==
  /\ At(h, "logFailure")
  /\ log' = log \cup {[user |-> job[h].user, jti |-> 0, ok |-> FALSE]}
  /\ End(h)
  /\ UNCHANGED <<users, tokens, nextJti, held, world, faults>>

\* A write of the login is done: the next one follows, and after the last the
\* client gets its token, unless the answer is lost.
Written(h) ==
  LET k == CHOOSE i \in DOMAIN LoginSteps : LoginSteps[i] = job[h].pc IN
  IF k < Len(LoginSteps)
  THEN Step(h, LoginSteps[k + 1]) /\ UNCHANGED <<held, faults>>
  ELSE /\ End(h)
       /\ \/ held' = held \cup {job[h].jwt} /\ UNCHANGED faults
          \/ Fault /\ UNCHANGED held

CreateToken(h) ==
  LET t == job[h].jwt IN
  /\ At(h, "create")
  /\ tokens' = [tokens EXCEPT ![t.jti] = [jwt |-> t, revoked |-> 0]]
  /\ Written(h)
  /\ UNCHANGED <<users, log, nextJti, world>>

IssuedAt(t) == t.exp - Lifetime

\* mutant: the expiry is written instead of the time of issue
UpdateLoginInfoExpiry(h) ==
  /\ At(h, "touch")
  /\ users' = [users EXCEPT ![job[h].user].lastLogin = job[h].jwt.exp]
  /\ Written(h)
  /\ UNCHANGED <<tokens, log, nextJti, world>>

\* UPDATE ... WHERE id AND is_deleted = 0.
UpdateLoginInfo(h) ==
  LET j == job[h] IN
  /\ At(h, "touch")
  /\ IF users[j.user].deleted
     THEN UNCHANGED users
     ELSE users' = [users EXCEPT ![j.user].lastLogin = IssuedAt(j.jwt)]
  /\ Written(h)
  /\ UNCHANGED <<tokens, log, nextJti, world>>

LogSuccess(h) ==
  LET j == job[h] IN
  /\ At(h, "log")
  /\ log' = log \cup {[user |-> j.user, jti |-> j.jwt.jti, ok |-> TRUE]}
  /\ Written(h)
  /\ UNCHANGED <<users, tokens, nextJti, world>>

-----------------------------------------------------------------------------
(***************************************************************************)
(* A request that carries a token.                                         *)
(***************************************************************************)
Expired(t) == t.exp <= now
Revoked(t) == tokens[t.jti] # None /\ tokens[t.jti].revoked # 0

Ended(t) == Expired(t) \/ Revoked(t) \/ users[t.user].deleted

\* Decoding needs no await: an expired token is refused on arrival.
BeginRequest(h) ==
  /\ \E t \in held, op \in Requests :
       /\ ~Expired(t)
       /\ Goto(h, Started(op, "findToken", None, FALSE, t, Ended(t)))
  /\ UNCHANGED <<tables, nextJti, held, world, faults>>

\* mutant: the query leaves out revoked_time IS NULL
ActiveRowAnyTime(t) == tokens[t.jti] # None /\ tokens[t.jti].jwt = t

\* mutant: a newer login of the user ends the older ones
ActiveRowLatest(t) == /\ tokens[t.jti] # None
                      /\ tokens[t.jti].revoked = 0
                      /\ IssuedAt(t) = users[t.user].lastLogin

\* find_active_token by user and jti, then the comparison of the digests.
ActiveRow(t) == /\ tokens[t.jti] # None
                /\ tokens[t.jti].jwt = t
                /\ tokens[t.jti].revoked = 0

FindToken(h) ==
  /\ At(h, "findToken")
  /\ IF ActiveRow(job[h].jwt) THEN Step(h, "loadUser") ELSE End(h)
  /\ UNCHANGED <<tables, nextJti, held, world, faults>>

Welcome(h) == LET u == users[job[h].jwt.user] IN u.enabled /\ ~u.deleted

\* The request is let through: a use answers, a logout goes on to revoke.
Admit(h) ==
  /\ At(h, "loadUser")
  /\ Welcome(h)
  /\ IF job[h].op = "logout" THEN Step(h, "revoke") ELSE End(h)
  /\ UNCHANGED <<tables, nextJti, held, world, faults>>

TurnAway(h) ==
  /\ At(h, "loadUser")
  /\ ~Welcome(h)
  /\ End(h)
  /\ UNCHANGED <<tables, nextJti, held, world, faults>>

\* mutant: a logout revokes every token of its user
RevokeAll(h) ==
  LET Own(j) == tokens[j] # None /\ tokens[j].jwt.user = job[h].jwt.user IN
  /\ At(h, "revoke")
  /\ tokens' = [j \in Jtis |-> IF Own(j) THEN [tokens[j] EXCEPT !.revoked = now]
                                         ELSE tokens[j]]
  /\ End(h)
  /\ UNCHANGED <<users, log, nextJti, held, world, faults>>

\* UPDATE ... WHERE id AND revoked_time IS NULL.
Revoke(h) ==
  LET j == job[h].jwt.jti IN
  /\ At(h, "revoke")
  /\ IF tokens[j] # None /\ tokens[j].revoked = 0
     THEN tokens' = [tokens EXCEPT ![j].revoked = now]
     ELSE UNCHANGED tokens
  /\ End(h)
  /\ UNCHANGED <<users, log, nextJti, held, world, faults>>

-----------------------------------------------------------------------------
(***************************************************************************)
(* Faults, the clock, and administrators (external: the code never changes *)
(* status or is_deleted of a user).                                        *)
(***************************************************************************)
CallFails(h) ==
  /\ Busy(h)
  /\ Fault
  /\ End(h)
  /\ UNCHANGED <<tables, nextJti, held, world>>

Crash ==
  /\ \E h \in Handlers : Busy(h)
  /\ Fault
  /\ job' = [h \in Handlers |-> Idle]
  /\ UNCHANGED <<tables, nextJti, held, world>>

Tick ==
  /\ now < MaxTime                                            \* bound
  /\ now' = now + 1
  /\ UNCHANGED <<tables, nextJti, held, job, faults, changes>>

Administer ==
  /\ changes < MaxChanges                                     \* bound
  /\ changes' = changes + 1
  /\ \E u \in Users :
       \/ users' = [users EXCEPT ![u].enabled = ~@]
       \/ users' = [users EXCEPT ![u].deleted = TRUE]
  /\ UNCHANGED <<tokens, log, nextJti, held, job, now, faults>>

Begin(h) == ~Busy(h) /\ (BeginLogin(h) \/ BeginRequest(h))

Login(h) == \/ FindUser(h) \/ Verify(h) \/ LogFailure(h)
            \/ CreateToken(h) \/ UpdateLoginInfo(h) \/ LogSuccess(h)

Authenticate(h) == FindToken(h) \/ Admit(h) \/ TurnAway(h) \/ Revoke(h)

Next == \/ \E h \in Handlers :
             Begin(h) \/ Login(h) \/ Authenticate(h) \/ CallFails(h)
        \/ Crash \/ Tick \/ Administer

Spec == Init /\ [][Next]_vars

-----------------------------------------------------------------------------
(***************************************************************************)
(* Properties.                                                             *)
(***************************************************************************)

\* Every variable keeps its shape; a request that carries or writes a token has
\* it, and one that verifies a password or writes has read its user.  Times lie
\* within the bounds of the clock and of a token's expiry.
TypeOK ==
  /\ users \in [Users -> User]
  /\ tokens \in [Jtis -> Token \cup {None}]
  /\ log \in SUBSET Entry
  /\ nextJti \in 1..(MaxTokens + 1)
  /\ held \in SUBSET Jwt
  /\ job \in [Handlers -> Job]
  /\ now \in Time
  /\ faults \in 0..MaxFaults
  /\ changes \in 0..MaxChanges

\* "A later request with the same token is refused at once" (logout in
\* app/api/auth.py): whatever the requests in flight do, none is let through
\* whose token was revoked or expired, or its user deleted, when it arrived.
EndedStaysOut ==
  [][\A h \in Handlers : Admit(h) => ~job[h].dead]_vars

\* A client's token works until its own logout: a request is refused only when
\* its token was revoked or its user is disabled or deleted, and only a logout
\* that carries a token revokes it, however many logins of the same user
\* failed, overlapped or were closed around it.
RefusalJustified ==
  [][/\ \A h \in Handlers :
          (FindToken(h) \/ TurnAway(h)) /\ job'[h] = Idle
            => Revoked(job[h].jwt) \/ ~Welcome(h)
     /\ \A j \in Jtis : tokens[j] # None /\ tokens'[j] # tokens[j] =>
          \E h \in Handlers : At(h, "revoke") /\ job[h].jwt.jti = j]_vars

\* sys_user, sys_login_token and sys_login_log agree although each login writes
\* them in separate calls: a last login is the time of issue of a stored token of that user.
LastLoginHasToken ==
  \A u \in Users : users[u].lastLogin # 0 =>
    \E j \in Jtis : /\ tokens[j] # None
                    /\ tokens[j].jwt.user = u
                    /\ IssuedAt(tokens[j].jwt) = users[u].lastLogin

\* Read together, the token table, the log and the clients behave like a
\* ledger: no token is handed out that is not stored and audited, none is
\* closed that nobody holds, a logout closes its own token alone, and no closed
\* one opens again, for any mix of crashed, failed and concurrent logins.
Audit(j) == \E e \in log : e.ok /\ e.jti = j

Line(j) == {f \in {"stored", "audited", "held", "closed"} :
              \/ f = "stored"  /\ tokens[j] # None
              \/ f = "audited" /\ Audit(j)
              \/ f = "held"    /\ \E t \in held : t.jti = j
              \/ f = "closed"  /\ tokens[j] # None /\ tokens[j].revoked # 0}
Lines   == [j \in Jtis |-> Line(j)]

Ledger == INSTANCE TokenLedger WITH ledger <- Lines

ImplementsLedger == Ledger!Spec
=============================================================================
