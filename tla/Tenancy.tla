------------------------------- MODULE Tenancy -------------------------------
(***************************************************************************)
(* The request transaction of the API (tx, guard) and the rows it keeps in *)
(* order: organizations with their members, projects, retry policies and   *)
(* queues, sessions, and the audit log.                                    *)
(*                                                                         *)
(* A request authenticates, finds what it is about and the caller's role   *)
(* there, in one read; looks up the policy it names, in another; writes,   *)
(* adds a row to the audit log and commits.  Others come between the two   *)
(* reads and the write.  A deadlock sends it back to its start.            *)
(***************************************************************************)
EXTENDS Integers, FiniteSets

CONSTANTS
  User, Org, Project, Policy, Queue,
  Client,    \* requests under way
  Caller,    \* bound: users that log in and send requests
  Name,      \* names of projects, policies and queues
  Delay,     \* values of base_delay_ms and max_delay_ms
  StartRow,  \* the tables at the start
  StartRole,
  MaxTries,  \* maxTxRetries
  MaxCalls,  \* bound: requests
  None

Entity == Org \cup Project \cup Policy \cup Queue
Rank == 0 .. 3                 \* viewer, member, admin, owner
Roles == Rank \cup {-1}        \* and no member
Call == 1 .. MaxCalls

ASSUME TenancyAssumption ==
  /\ Caller \subseteq User
  /\ Delay \subseteq Nat /\ 1 \in Delay /\ MaxTries \in Nat \ {0} /\ MaxCalls \in Nat
  /\ StartRole \in [Org \X User -> Roles]
  /\ \A e \in Entity : StartRow[e].at \in {"unborn", "live"}

VARIABLES
  row,      \* Entity -> its row: what it belongs to, its name, policy and delays
  role,     \* Org, User -> role
  users,    \* registered
  session,  \* User -> whether there is a session that has not ended
  req,      \* Client -> the request it handles
  calls,    \* requests so far
  level,    \* Call -> whether it is about a project, an organization or the caller
  done,     \* Call -> how often it has been committed
  audited,  \* Call -> rows of the audit log it has written
  told      \* Call -> the answer

tenancyVars == <<row, role, users, session, req, calls, level, done, audited, told>>

Idle == [pc |-> "idle", n |-> 0, who |-> None, act |-> "none", on |-> None, arg |-> None, tries |-> 0]

Live(e) == e \in Entity /\ row[e].at = "live"

TenancyTypeOK ==
  /\ \A e \in Entity : /\ row[e].at \in {"unborn", "live", "gone"}
                       /\ row[e].name \in Name /\ row[e].lo \in Delay /\ row[e].hi \in Delay
                       /\ row[e].at = "live" /\ e \notin Org => Live(row[e].up)
  /\ role \in [Org \X User -> Roles] /\ users \subseteq User /\ session \in [User -> BOOLEAN]
  /\ \A c \in Client : /\ req[c].pc \in {"idle", "guard", "check", "write"}
                       /\ req[c].tries < MaxTries
  /\ calls \in 0 .. MaxCalls
  /\ level \in [Call -> {"self", "org", "project"}]
  /\ done \in [Call -> Nat] /\ audited \in [Call -> Nat]
  /\ told \in [Call -> {"nothing", "ok", "refused", "failed"}]

TenancyInit ==
  /\ row = StartRow /\ role = StartRole
  /\ users = {u \in User : \E o \in Org : StartRole[o, u] >= 0} /\ session = [u \in User |-> FALSE]
  /\ req = [c \in Client |-> Idle]
  /\ calls = 0
  /\ level = [n \in Call |-> "self"]
  /\ done = [n \in Call |-> 0] /\ audited = [n \in Call |-> 0]
  /\ told = [n \in Call |-> "nothing"]

-----------------------------------------------------------------------------
(* Where things belong.                                                    *)

ProjectOf(e) == IF e \in Project THEN e ELSE IF e \in Policy \cup Queue THEN row[e].up ELSE None
OrgOf(e) == IF e \in Org THEN e ELSE row[ProjectOf(e)].up

\* on delete cascade
Under(e) == {x \in Entity : Live(x) /\ (x = e \/ ProjectOf(x) = e \/ OrgOf(x) = e)}

\* unique (org_id, name), (project_id, name)
NameFree(e, up, name, kind) ==
  \A x \in kind : Live(x) /\ x # e => row[x].up # up \/ row[x].name # name

\* What a caller has to be (the routes of Handler).
MinRole(act, on) ==
  CASE act \in {"create_org", "logout"} -> 0
    [] act = "pause" -> 1
    [] act = "delete" /\ on \in Org -> 3
    [] OTHER -> 2

\* orgScope, scopeBy: nothing is found without a membership.
Found(act, on, who) == act \in {"create_org", "logout"} \/ (Live(on) /\ role[OrgOf(on), who] >= 0)

\* none; parseRole
RoleAt(act, on, who) == IF act \in {"create_org", "logout"} THEN 3 ELSE role[OrgOf(on), who]

-----------------------------------------------------------------------------
(* A request.                                                              *)

Level(act, on) ==
  IF act \in {"create_org", "logout"} THEN "self"
  ELSE IF on \in Org /\ act # "create" THEN "org" ELSE "project"

Ask(c, act, on, who, arg) ==
  /\ req[c].pc = "idle" /\ calls < MaxCalls
  /\ calls' = calls + 1
  /\ level' = [level EXCEPT ![calls + 1] = Level(act, on)]
  /\ req' = [req EXCEPT ![c] = [pc |-> "guard", n |-> calls + 1, who |-> who, act |-> act,
                                on |-> on, arg |-> arg, tries |-> 0]]
  /\ UNCHANGED <<row, role, users, session, done, audited, told>>

New(kind, name, policy, lo, hi) ==
  [kind |-> kind, name |-> name, policy |-> policy, lo |-> lo, hi |-> hi]

\* Ids are random (fl.uuidv7): nobody asks for one before it exists.
Given(kind) == {e \in kind : row[e].at # "unborn"}

AskAny(c, who) ==
  \/ \E act \in {"create_org", "logout"} : Ask(c, act, None, who, None)
  \/ \E e \in Given(Org), u \in User, k \in Rank :
       Ask(c, "add_member", e, who, [user |-> u, rank |-> k])
  \/ \E e \in Given(Org), nm \in Name : Ask(c, "create", e, who, New(Project, nm, None, 1, 1))
  \/ \E e \in Given(Project), nm \in Name, lo, hi \in Delay :
       Ask(c, "create", e, who, New(Policy, nm, None, lo, hi))
  \/ \E e \in Given(Project), nm \in Name, y \in Given(Policy) :
       Ask(c, "create", e, who, New(Queue, nm, y, 1, 1))
  \/ \E e \in Given(Org \cup Project), nm \in Name : Ask(c, "rename", e, who, nm)
  \/ \E e \in Given(Policy), lo, hi \in Delay \cup {None} :
       Ask(c, "patch", e, who, [lo |-> lo, hi |-> hi])
  \/ \E e \in Given(Queue), y \in Given(Policy) : Ask(c, "set_policy", e, who, [policy |-> y])
  \/ \E e \in Given(Queue) : Ask(c, "pause", e, who, None)
  \/ \E e \in Given(Entity) : Ask(c, "delete", e, who, None)

End(c, answer) ==
  /\ told' = [told EXCEPT ![req[c].n] = answer]
  /\ req' = [req EXCEPT ![c] = Idle]

NamesPolicy(r) == r.act = "set_policy" \/ (r.act = "create" /\ r.arg.kind = Queue)

\* authuser, the locator and the role, in guard
Guard(c) ==
  LET r == req[c]
      may == /\ session[r.who] /\ Found(r.act, r.on, r.who)
             /\ RoleAt(r.act, r.on, r.who) >= MinRole(r.act, r.on)
  IN /\ r.pc = "guard"
     /\ \/ /\ may
           /\ req' = [req EXCEPT ![c].pc = IF NamesPolicy(r) THEN "check" ELSE "write"]
           /\ UNCHANGED told
        \/ ~may /\ End(c, "refused")
     /\ UNCHANGED <<row, role, users, session, calls, level, done, audited>>

\* (mutant) any policy will do
PolicyOwnedAny(y, p) == Live(y)

\* policyOwnedSQL
PolicyOwned(y, p) == Live(y) /\ row[y].up = p

\* assertPolicyOwned
CheckPolicy(c) ==
  LET r == req[c]
      p == IF r.act = "create" THEN r.on ELSE ProjectOf(r.on)
  IN /\ r.pc = "check"
     /\ \/ /\ PolicyOwned(r.arg.policy, p)
           /\ req' = [req EXCEPT ![c].pc = "write"] /\ UNCHANGED told
        \/ ~PolicyOwned(r.arg.policy, p) /\ End(c, "refused")
     /\ UNCHANGED <<row, role, users, session, calls, level, done, audited>>

-----------------------------------------------------------------------------
(* What the handlers write.                                                *)

\* coalesce($n, column)
Coalesce(v, old) == IF v = None THEN old ELSE v

\* check (max_delay_ms >= base_delay_ms)
DelaysFit(lo, hi) == lo <= hi

\* on delete restrict
InUse(e) == \E q \in Queue : Live(q) /\ row[q].policy = e

\* What the database says to the statement of a request.  A row that is gone,
\* or one it refers to, is an error nobody has a better answer for.
Verdict(r) ==
  LET lo == Coalesce(r.arg.lo, row[r.on].lo)
      hi == Coalesce(r.arg.hi, row[r.on].hi)
  IN CASE r.act \in {"create_org", "logout"} -> "ok"
       [] r.act = "delete" -> IF InUse(r.on) THEN "refused" ELSE "ok"
       [] r.act = "add_member" /\ r.arg.user \notin users -> "refused"
       [] ~Live(r.on) -> "failed"
       [] NamesPolicy(r) /\ ~Live(r.arg.policy) -> "failed"
       [] r.act = "create" -> IF NameFree(None, r.on, r.arg.name, r.arg.kind) /\ DelaysFit(r.arg.lo, r.arg.hi)
                              THEN "ok" ELSE "refused"
       [] r.act = "rename" -> IF r.on \in Org \/ NameFree(r.on, row[r.on].up, r.arg, Project)
                              THEN "ok" ELSE "refused"
       [] r.act = "patch" -> IF DelaysFit(lo, hi) THEN "ok" ELSE "refused"
       [] OTHER -> "ok"

\* createProject, createPolicy, createQueue
ProjectRow(up, a) ==
  [at |-> "live", up |-> up, name |-> a.name, policy |-> None, lo |-> 1, hi |-> 1]
PolicyRow(up, a) ==
  [at |-> "live", up |-> up, name |-> a.name, policy |-> None, lo |-> a.lo, hi |-> a.hi]
QueueRow(up, a) ==
  [at |-> "live", up |-> up, name |-> a.name, policy |-> a.policy, lo |-> 1, hi |-> 1]

\* createOrg makes the caller its owner.
NewOrg(x) == [row EXCEPT ![x].at = "live"]
Owner(x, who) == [role EXCEPT ![x, who] = 3]

\* addMember
Member(o, a) == [role EXCEPT ![o, a.user] = a.rank]

\* updateOrg, updateProject
Renamed(e, name) == [row EXCEPT ![e].name = name]

\* updatePolicy
Patched(e, a) == [row EXCEPT ![e].lo = Coalesce(a.lo, @), ![e].hi = Coalesce(a.hi, @)]

\* updateQueue
WithPolicy(e, a) == [row EXCEPT ![e].policy = a.policy]

Deleted(e) == [x \in Entity |-> IF x \in Under(e) THEN [row[x] EXCEPT !.at = "gone"] ELSE row[x]]
Left(o) == [ou \in Org \X User |-> IF ou[1] = o THEN -1 ELSE role[ou]]

\* The new rows; x is the id that create and create_org get.
RowAfter(r, x) ==
  CASE r.act = "create" /\ x \in Project -> [row EXCEPT ![x] = ProjectRow(r.on, r.arg)]
    [] r.act = "create" /\ x \in Policy -> [row EXCEPT ![x] = PolicyRow(r.on, r.arg)]
    [] r.act = "create" /\ x \in Queue -> [row EXCEPT ![x] = QueueRow(r.on, r.arg)]
    [] r.act = "create_org" -> NewOrg(x)
    [] r.act = "rename" -> Renamed(r.on, r.arg)
    [] r.act = "patch" -> Patched(r.on, r.arg)
    [] r.act = "set_policy" -> WithPolicy(r.on, r.arg)
    [] r.act = "delete" -> Deleted(r.on)
    [] OTHER -> row

RoleAfter(r, x) ==
  CASE r.act = "create_org" -> Owner(x, r.who)
    [] r.act = "add_member" -> Member(r.on, r.arg)
    [] r.act = "delete" -> Left(r.on)
    [] OTHER -> role

NewIds(r) ==
  LET fresh(S) == {e \in S : row[e].at = "unborn"}
  IN CASE r.act = "create" -> fresh(r.arg.kind)
       [] r.act = "create_org" -> fresh(Org)
       [] OTHER -> {None}

\* The audit row needs a project: that of the scope, or a new one.
AuditRows(r, x) ==
  IF r.act \notin {"create_org", "logout"} /\ (ProjectOf(r.on) # None \/ x \in Project) THEN 1 ELSE 0

\* (mutant) every error of a commit is tried again
RetryableAny(error) == TRUE

\* retryable: not a connection that broke while committing
Retryable(error) == error = "deadlock"

Fails(c, error) ==
  IF Retryable(error) /\ req[c].tries + 1 < MaxTries
  THEN req' = [req EXCEPT ![c].pc = "guard", ![c].tries = @ + 1] /\ UNCHANGED told
  ELSE End(c, "failed")

\* The handler, the audit row and the commit, whose answer may be lost
Commit(c, heard) ==
  LET r == req[c]
  IN /\ r.pc = "write" /\ Verdict(r) = "ok"
     /\ \E x \in NewIds(r) :
          /\ row' = RowAfter(r, x) /\ role' = RoleAfter(r, x)
          /\ audited' = [audited EXCEPT ![r.n] = @ + AuditRows(r, x)]
     /\ session' = IF r.act = "logout" THEN [session EXCEPT ![r.who] = FALSE] ELSE session
     /\ done' = [done EXCEPT ![r.n] = @ + 1]
     /\ IF heard THEN End(c, "ok") ELSE Fails(c, "lost")
     /\ UNCHANGED <<users, calls, level>>

Refuse(c) ==
  /\ req[c].pc = "write" /\ Verdict(req[c]) # "ok"
  /\ End(c, Verdict(req[c]))
  /\ UNCHANGED <<row, role, users, session, calls, level, done, audited>>

\* The database breaks a deadlock.
Deadlock(c) ==
  /\ req[c].pc = "write"
  /\ Fails(c, "deadlock")
  /\ UNCHANGED <<row, role, users, session, calls, level, done, audited>>

\* register, for an address that is not taken
Register(u) ==
  /\ users' = users \cup {u} /\ u \notin users
  /\ UNCHANGED <<row, role, session, req, calls, level, done, audited, told>>

Login(u) ==
  /\ u \in users /\ ~session[u]
  /\ session' = [session EXCEPT ![u] = TRUE]
  /\ UNCHANGED <<row, role, users, req, calls, level, done, audited, told>>

\* expires_at passes.
Expire(u) ==
  /\ session[u]
  /\ session' = [session EXCEPT ![u] = FALSE]
  /\ UNCHANGED <<row, role, users, req, calls, level, done, audited, told>>

TenancyNext ==
  \/ \E c \in Client : \/ \E u \in Caller : AskAny(c, u)
                       \/ Guard(c) \/ CheckPolicy(c) \/ Refuse(c) \/ Deadlock(c)
                       \/ \E heard \in BOOLEAN : Commit(c, heard)
  \/ \E u \in User : Register(u)
  \/ \E u \in Caller : Login(u) \/ Expire(u)

TenancySpec == TenancyInit /\ [][TenancyNext]_tenancyVars

-----------------------------------------------------------------------------
(* Properties.                                                             *)

\* However often its transaction is tried, a request is applied at most once,
\* what the caller is told is true (done, or nothing changed), and a request
\* about a project or something in it leaves one row in the audit log when it is
\* applied and none otherwise (tx, guard).
AppliedOnce ==
  \A n \in Call : /\ done[n] <= 1
                  /\ told[n] = "ok" => done[n] = 1
                  /\ told[n] = "refused" => done[n] = 0
                  /\ level[n] = "project" => audited[n] = done[n]

\* A queue uses a policy that exists and belongs to its own project, whatever
\* is deleted between the look at the policy and the write (assertPolicyOwned,
\* createQueue, updateQueue, deletePolicy, deleteProject).
QueuePolicyOwned ==
  \A q \in Queue : Live(q) => Live(row[q].policy) /\ row[row[q].policy].up = row[q].up

\* The base delay of a policy never exceeds its maximum, when two patches that
\* each name one of them meet (updatePolicySQL).
DelaysOrdered == \A y \in Policy : Live(y) => row[y].lo <= row[y].hi

\* What holds in every state: the types, nothing that is left without what it
\* belongs to, policies of the queue's own project, and delays in order (the
\* cascades, assertPolicyOwned, updatePolicySQL).
TenancySafe == TenancyTypeOK /\ QueuePolicyOwned /\ DelaysOrdered
=============================================================================
