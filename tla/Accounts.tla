------------------------------ MODULE Accounts ------------------------------
(***************************************************************************)
(* The account endpoints of the backend (UserService, OrganizationService, *)
(* and the get_current_user / require_admin dependencies in front of them) *)
(* over the users and organizations tables.                                *)
(*                                                                         *)
(* Each uvicorn worker is a process with one event loop.  The service      *)
(* methods are synchronous, so between two awaits a worker runs one        *)
(* request only: task[w] is the stretch of a request that worker w is in.  *)
(* Statements of different workers interleave as READ COMMITTED allows,    *)
(* each reading what was committed last; an ORM commit writes only the     *)
(* columns whose value differs from the one that was loaded.               *)
(***************************************************************************)
EXTENDS Naturals, FiniteSets

CONSTANTS
    Users,          \* Supabase Auth identities; u's verified phone number is u
    Organizations,  \* the ids that uuid4() can draw for an organization
    Clients,        \* client ids
    Workers,        \* the uvicorn worker processes
    Suspendable,    \* the organizations that an operator may switch off and on
    MaxRotations,   \* bound on the join-code rotations of one organization
    NoRow, NoOrg, NoTask, Nobody

VARIABLES
    users,          \* the users table
    organizations,  \* the organizations table
    owner,          \* assigned_to of the live clients
    task,           \* what each worker is in the middle of
    parked,         \* authorised requests waiting for a thread-pool hop
    trail           \* the last audit event on each user's status

vars == <<users, organizations, owner, task, parked, trail>>

-----------------------------------------------------------------------------
(* Tables *)

Roles == {"ADMIN", "MANAGER", "EMPLOYEE"}
Approvals == {"pending", "approved", "rejected"}

UserRow ==
    [role: Roles, org: Organizations \cup {NoOrg}, phone: Users,
     approval: Approvals, active: BOOLEAN, archived: BOOLEAN]

OrganizationRow == [founder: Users, active: BOOLEAN, rotations: 0..MaxRotations]

Operations ==
    {"none", "bootstrap", "signup", "create", "update", "verify", "access",
     "archive"}

Task ==
    [pc: {"authorised", "count", "commit"}, op: Operations,
     actor: Users, org: Organizations \cup {NoOrg}, target: Users,
     code: 0..MaxRotations,
     read: UserRow \cup {NoRow}, write: UserRow \cup {NoRow}]

Events ==
    {"none", "bootstrapped", "signup_requested", "created", "approved",
     "rejected", "access_updated", "archived"}

ASSUME SentinelAssumption ==
    /\ NoRow \notin UserRow
    /\ NoRow \notin OrganizationRow
    /\ NoOrg \notin Organizations
    /\ NoTask \notin Task
    /\ Nobody \notin Users

ASSUME BoundsAssumption ==
    /\ MaxRotations \in Nat
    /\ Suspendable \subseteq Organizations

TypeOK ==
    /\ users \in [Users -> UserRow \cup {NoRow}]
    /\ organizations \in [Organizations -> OrganizationRow \cup {NoRow}]
    /\ owner \in [Clients -> Users \cup {Nobody}]
    /\ task \in [Workers -> Task \cup {NoTask}]
    /\ parked \subseteq [actor: Users, org: Organizations \cup {NoOrg}]
    /\ trail \in [Users -> [event: Events, active: BOOLEAN]]

\* An ADMIN profile from before migration 004, which has no organization yet.
LegacyAdmin(u) ==
    [role |-> "ADMIN", org |-> NoOrg, phone |-> u,
     approval |-> "approved", active |-> TRUE, archived |-> FALSE]

Init ==
    /\ \E legacy \in SUBSET Users :
           users = [u \in Users |-> IF u \in legacy THEN LegacyAdmin(u) ELSE NoRow]
    /\ organizations = [o \in Organizations |-> NoRow]
    /\ owner = [c \in Clients |-> Nobody]
    /\ task = [w \in Workers |-> NoTask]
    /\ parked = {}
    /\ trail = [u \in Users |-> [event |-> "none", active |-> FALSE]]

Exists(u) == users[u] # NoRow

\* get_by_id finds u: archived profiles are out of sight
Visible(u) == Exists(u) /\ ~ users[u].archived

Idle(w) == task[w] = NoTask

Run(w, t) == task' = [task EXCEPT ![w] = t]

Finish(w) == Run(w, NoTask)

\* get_by_phone sees archived profiles too, and so does users_phone_unique
PhoneTaken(p) == \E v \in Users : Exists(v) /\ users[v].phone = p

-----------------------------------------------------------------------------
(* Authentication *)

\* get_current_user lets u through
SignedIn(u) ==
    /\ Visible(u)
    /\ users[u].approval = "approved"
    /\ users[u].active
    /\ users[u].org # NoOrg => organizations[users[u].org].active

\* Mutant: require_admin is missing from the endpoint.
AuthenticateAnyone(w, a) ==
    /\ Idle(w)
    /\ SignedIn(a)
    /\ users[a].org # NoOrg
    /\ Run(w, [pc |-> "authorised", op |-> "none", actor |-> a,
               org |-> users[a].org, target |-> a, code |-> 0,
               read |-> NoRow, write |-> NoRow])
    /\ UNCHANGED <<users, organizations, owner, parked, trail>>

\* get_current_user, require_admin and _organization_id let the admin a through.
\* The user endpoints run on to their service method without another await.
Authenticate(w, a) ==
    /\ Idle(w)
    /\ SignedIn(a)
    /\ users[a].role = "ADMIN"
    /\ users[a].org # NoOrg
    /\ Run(w, [pc |-> "authorised", op |-> "none", actor |-> a,
               org |-> users[a].org, target |-> a, code |-> 0,
               read |-> NoRow, write |-> NoRow])
    /\ UNCHANGED <<users, organizations, owner, parked, trail>>

\* The service raises, or the connection or the worker is lost: get_db_session
\* rolls back and nothing of the request remains.
RollBack(w) ==
    /\ ~ Idle(w)
    /\ Finish(w)
    /\ UNCHANGED <<users, organizations, owner, parked, trail>>

-----------------------------------------------------------------------------
(* UserService: the admin's operations, up to their commit *)

\* _ensure_user_exists within the organization of the request
Found(w, u) ==
    /\ Visible(u)
    /\ users[u].org = task[w].org

\* The method has loaded u's row and set attributes on it; it goes on at pc.
Load(w, u, op, pc, write) ==
    /\ task[w].pc = "authorised"
    /\ Run(w, [task[w] EXCEPT !.pc = pc, !.op = op, !.target = u,
                              !.read = users[u], !.write = write])
    /\ UNCHANGED <<users, organizations, owner, parked, trail>>

\* A payload without approval_status leaves the column to its default "pending",
\* while is_active is computed as if the status were the "approved" of the model.
CreateUser(w, u, p, role, sets, approval) ==
    /\ ~ Idle(w)
    /\ task[w].pc = "authorised"
    /\ ~ PhoneTaken(p)
    /\ Run(w, [task[w] EXCEPT
           !.pc = "commit", !.op = "create", !.target = u,
           !.write = [role |-> role, org |-> task[w].org, phone |-> p,
                      approval |-> IF sets THEN approval ELSE "pending",
                      active |-> (sets => approval = "approved"),
                      archived |-> FALSE]])
    /\ UNCHANGED <<users, organizations, owner, parked, trail>>

UpdateUser(w, u, role) ==
    /\ ~ Idle(w)
    /\ Found(w, u)
    /\ Load(w, u, "update", "commit", [users[u] EXCEPT !.role = role])

\* Mutant: verify_user forgets that only pending requests are decided.
VerifyAnyone(w, u, approval) ==
    /\ ~ Idle(w)
    /\ Found(w, u)
    /\ Load(w, u, "verify", "commit",
             [users[u] EXCEPT !.approval = approval,
                              !.active = (approval = "approved")])

VerifyUser(w, u, approval) ==
    /\ ~ Idle(w)
    /\ Found(w, u)
    /\ users[u].approval = "pending"
    /\ Load(w, u, "verify", "commit",
             [users[u] EXCEPT !.approval = approval,
                              !.active = (approval = "approved")])

Granted(u, setsRole, role, setsActive, active) ==
    [users[u] EXCEPT !.role = IF setsRole THEN role ELSE @,
                     !.active = IF setsActive THEN active ELSE @]

\* Mutant: is_active is stored although the payload does not carry it.
UpdateAccessUnset(w, u, setsRole, role, setsActive, active) ==
    /\ ~ Idle(w)
    /\ Found(w, u)
    /\ users[u].approval = "approved"
    /\ ~ (u = task[w].actor /\ setsActive /\ ~ active)
    /\ ~ (users[u].role = "ADMIN" /\ setsRole)
    /\ Load(w, u, "access", "commit",
             Granted(u, setsRole, role, TRUE, IF setsActive THEN active ELSE NoRow))

\* Mutant: update_access also serves requests that are still pending.
UpdateAccessOfAnyone(w, u, setsRole, role, setsActive, active) ==
    /\ ~ Idle(w)
    /\ Found(w, u)
    /\ ~ (u = task[w].actor /\ setsActive /\ ~ active)
    /\ ~ (users[u].role = "ADMIN" /\ setsRole)
    /\ Load(w, u, "access", "commit", Granted(u, setsRole, role, setsActive, active))

\* Mutant: update_access lets admins deactivate themselves.
UpdateAccessOfSelf(w, u, setsRole, role, setsActive, active) ==
    /\ ~ Idle(w)
    /\ Found(w, u)
    /\ users[u].approval = "approved"
    /\ ~ (users[u].role = "ADMIN" /\ setsRole)
    /\ Load(w, u, "access", "commit", Granted(u, setsRole, role, setsActive, active))

\* The payload may carry a role, an is_active, or both.
UpdateAccess(w, u, setsRole, role, setsActive, active) ==
    /\ ~ Idle(w)
    /\ Found(w, u)
    /\ users[u].approval = "approved"
    /\ ~ (u = task[w].actor /\ setsActive /\ ~ active)
    /\ ~ (users[u].role = "ADMIN" /\ setsRole)
    /\ Load(w, u, "access", "commit", Granted(u, setsRole, role, setsActive, active))

DeleteUser(w, u) ==
    /\ ~ Idle(w)
    /\ Found(w, u)
    /\ u # task[w].actor
    /\ users[u].role # "ADMIN"
    /\ Load(w, u, "archive", "count",
             [users[u] EXCEPT !.active = FALSE, !.approval = "rejected",
                              !.archived = TRUE])

\* Mutant: delete_user does not look at the clients.
CountNothing(w) ==
    /\ ~ Idle(w)
    /\ task[w].pc = "count"
    /\ Run(w, [task[w] EXCEPT !.pc = "commit"])
    /\ UNCHANGED <<users, organizations, owner, parked, trail>>

\* delete_user counts the live clients of the user in a statement of its own.
CountAssignedClients(w) ==
    /\ ~ Idle(w)
    /\ task[w].pc = "count"
    /\ \A c \in Clients : owner[c] # task[w].target
    /\ Run(w, [task[w] EXCEPT !.pc = "commit"])
    /\ UNCHANGED <<users, organizations, owner, parked, trail>>

-----------------------------------------------------------------------------
(* The endpoints that need a verified token only *)

Newcomer(w, u, o) ==
    /\ Idle(w)
    /\ ~ Exists(u)
    /\ ~ PhoneTaken(u)
    /\ organizations[o] # NoRow
    /\ organizations[o].active

SubmitSignup(w, u, o, code, role) ==
    /\ Run(w, [pc |-> "commit", op |-> "signup", actor |-> u, org |-> o,
               target |-> u, code |-> code, read |-> NoRow,
               write |-> [role |-> role, org |-> o, phone |-> u,
                          approval |-> "pending", active |-> FALSE,
                          archived |-> FALSE]])
    /\ UNCHANGED <<users, organizations, owner, parked, trail>>

\* Mutant: a rotated code still finds the organization.
RequestSignupWithOldCode(w, u, o, code, role) ==
    /\ Newcomer(w, u, o)
    /\ code <= organizations[o].rotations
    /\ SubmitSignup(w, u, o, code, role)

\* The select statements of request_signup; the code is one that was issued.
RequestSignup(w, u, o, code, role) ==
    /\ Newcomer(w, u, o)
    /\ organizations[o].rotations = code
    /\ SubmitSignup(w, u, o, code, role)

SubmitBootstrap(w, u) ==
    /\ Run(w, [pc |-> "commit", op |-> "bootstrap", actor |-> u, org |-> NoOrg,
               target |-> u, code |-> 0,
               read |-> IF Visible(u) THEN users[u] ELSE NoRow,
               write |-> IF Visible(u) THEN users[u] ELSE LegacyAdmin(u)])
    /\ UNCHANGED <<users, organizations, owner, parked, trail>>

\* Mutant: bootstrap does not ask whether the admin has an organization.
BootstrapAgain(w, u) ==
    /\ Idle(w)
    /\ IF Visible(u)
       THEN /\ users[u].role = "ADMIN"
            /\ users[u].approval = "approved"
            /\ users[u].active
       ELSE ~ PhoneTaken(u)
    /\ SubmitBootstrap(w, u)

\* bootstrap: a newcomer, or an approved admin without an organization
Bootstrap(w, u) ==
    /\ Idle(w)
    /\ IF Visible(u)
       THEN /\ users[u].org = NoOrg
            /\ users[u].role = "ADMIN"
            /\ users[u].approval = "approved"
            /\ users[u].active
       ELSE ~ PhoneTaken(u)
    /\ SubmitBootstrap(w, u)

-----------------------------------------------------------------------------
(* Commits *)

\* A column is part of the UPDATE when its value differs from the loaded one.
Column(loaded, set, current) == IF set # loaded THEN set ELSE current

Merge(read, write, row) ==
    [role |-> Column(read.role, write.role, row.role),
     org |-> Column(read.org, write.org, row.org),
     phone |-> row.phone,
     approval |-> Column(read.approval, write.approval, row.approval),
     active |-> Column(read.active, write.active, row.active),
     archived |-> Column(read.archived, write.archived, row.archived)]

\* Mutant: session.merge in place of session.add
InsertOrReplace(u, row) ==
    /\ \A v \in Users \ {u} : Exists(v) => users[v].phone # row.phone
    /\ users' = [users EXCEPT ![u] = row]

\* INSERT of a profile: primary key and phone are unique, or the flush fails
Insert(u, row) ==
    /\ ~ Exists(u)
    /\ ~ PhoneTaken(row.phone)
    /\ users' = [users EXCEPT ![u] = row]

Record(u, event, active) ==
    trail' = [trail EXCEPT ![u] = [event |-> event, active |-> active]]

CommitInsert(w) ==
    /\ ~ Idle(w)
    /\ task[w].pc = "commit"
    /\ task[w].op \in {"signup", "create"}
    /\ Insert(task[w].target, task[w].write)
    /\ Record(task[w].target,
              IF task[w].op = "signup" THEN "signup_requested" ELSE "created",
              FALSE)
    /\ Finish(w)
    /\ UNCHANGED <<organizations, owner, parked>>

\* update_user's event names the changed fields only, so it says nothing of
\* the user's status and leaves the last status event in place.
RecordUpdate(t) ==
    CASE t.op = "verify"  -> Record(t.target, t.write.approval, FALSE)
      [] t.op = "access"  -> Record(t.target, "access_updated", t.write.active)
      [] t.op = "archive" -> Record(t.target, "archived", FALSE)
      [] t.op = "update"  -> UNCHANGED trail

CommitUpdate(w) ==
    /\ ~ Idle(w)
    /\ task[w].pc = "commit"
    /\ task[w].op \in {"update", "verify", "access", "archive"}
    /\ LET u == task[w].target
       IN  users' = [users EXCEPT
                        ![u] = Merge(task[w].read, task[w].write, users[u])]
    /\ RecordUpdate(task[w])
    /\ Finish(w)
    /\ UNCHANGED <<organizations, owner, parked>>

\* The organization with a fresh id, and its admin, in one transaction
CommitBootstrap(w, o) ==
    /\ ~ Idle(w)
    /\ task[w].pc = "commit"
    /\ task[w].op = "bootstrap"
    /\ organizations[o] = NoRow
    /\ LET u == task[w].target
           admin == [task[w].write EXCEPT !.org = o]
       IN  /\ IF task[w].read = NoRow
              THEN Insert(u, admin)
              ELSE users' = [users EXCEPT
                                ![u] = Merge(task[w].read, admin, users[u])]
           /\ organizations' = [organizations EXCEPT
                  ![o] = [founder |-> u, active |-> TRUE, rotations |-> 0]]
           /\ Record(u, "bootstrapped", FALSE)
    /\ Finish(w)
    /\ UNCHANGED <<owner, parked>>

-----------------------------------------------------------------------------
(* Join-code rotation: its service is built in the thread pool, so the     *)
(* request waits between its authentication and its body.                  *)

ParkForOrganizationService(w) ==
    /\ ~ Idle(w)
    /\ task[w].pc = "authorised"
    /\ organizations[task[w].org].rotations < MaxRotations
    /\ parked' = parked \cup {[actor |-> task[w].actor, org |-> task[w].org]}
    /\ Finish(w)
    /\ UNCHANGED <<users, organizations, owner, trail>>

RotateJoinCode(w, p) ==
    /\ Idle(w)
    /\ p \in parked
    /\ organizations[p.org] # NoRow
    /\ organizations[p.org].rotations < MaxRotations
    /\ organizations' = [organizations EXCEPT ![p.org].rotations = @ + 1]
    /\ parked' = parked \ {p}
    /\ UNCHANGED <<users, owner, task, trail>>

-----------------------------------------------------------------------------
(* What happens around the account endpoints *)

\* _ensure_assignable_user of the client service
Assignable(u) ==
    /\ Visible(u)
    /\ users[u].approval = "approved"
    /\ users[u].active
    /\ users[u].org # NoOrg

\* A client request that a free worker runs from its check to its commit
AssignClient(w, c, u) ==
    /\ Idle(w)
    /\ Assignable(u)
    /\ owner' = [owner EXCEPT ![c] = u]
    /\ UNCHANGED <<users, organizations, task, parked, trail>>

ArchiveClient(w, c) ==
    /\ Idle(w)
    /\ owner' = [owner EXCEPT ![c] = Nobody]
    /\ UNCHANGED <<users, organizations, task, parked, trail>>

\* is_active of an organization is set by an operator, with SQL
OperatorSetsActive(o, active) ==
    /\ organizations[o] # NoRow
    /\ organizations' = [organizations EXCEPT ![o].active = active]
    /\ UNCHANGED <<users, owner, task, parked, trail>>

-----------------------------------------------------------------------------

AdminStep(w) ==
    \/ \E a \in Users : Authenticate(w, a)
    \/ \E u, p \in Users, r \in Roles \ {"ADMIN"}, sd \in BOOLEAN, d \in Approvals :
           CreateUser(w, u, p, r, sd, d)
    \/ \E u \in Users, r \in Roles \ {"ADMIN"} : UpdateUser(w, u, r)
    \/ \E u \in Users, d \in {"approved", "rejected"} : VerifyUser(w, u, d)
    \/ \E u \in Users, sr, sa, b \in BOOLEAN, r \in Roles \ {"ADMIN"} :
           UpdateAccess(w, u, sr, r, sa, b)
    \/ \E u \in Users : DeleteUser(w, u)
    \/ CountAssignedClients(w)
    \/ ParkForOrganizationService(w)
    \/ \E p \in parked : RotateJoinCode(w, p)

NewcomerStep(w) ==
    \E u \in Users :
        \/ \E o \in Organizations, n \in 0..MaxRotations, r \in Roles \ {"ADMIN"} :
               RequestSignup(w, u, o, n, r)
        \/ Bootstrap(w, u)

CommitStep(w) ==
    \/ CommitInsert(w)
    \/ CommitUpdate(w)
    \/ \E o \in Organizations : CommitBootstrap(w, o)

AccountStep(w) == AdminStep(w) \/ NewcomerStep(w) \/ CommitStep(w) \/ RollBack(w)

ClientStep(w) ==
    \E c \in Clients : ArchiveClient(w, c) \/ \E u \in Users : AssignClient(w, c, u)

OperatorStep ==
    \E o \in Suspendable, b \in BOOLEAN : OperatorSetsActive(o, b)

Next == OperatorStep \/ \E w \in Workers : AccountStep(w) \/ ClientStep(w)

Spec == Init /\ [][Next]_vars
-----------------------------------------------------------------------------
(* Properties *)

\* The lifecycle stage that a row encodes; is_active of a pending profile says
\* nothing, since get_current_user asks for the approval too.  "torn" is a row
\* that carries columns of two different decisions.
StageOf(row) ==
    CASE row = NoRow -> "none"
      [] row # NoRow /\ row.archived ->
             IF row.approval = "rejected" /\ ~ row.active THEN "archived" ELSE "torn"
      [] row # NoRow /\ ~ row.archived /\ row.approval = "approved" ->
             IF row.active THEN "active" ELSE "suspended"
      [] row # NoRow /\ ~ row.archived /\ row.approval = "rejected" ->
             IF row.active THEN "torn" ELSE "rejected"
      [] row # NoRow /\ ~ row.archived /\ row.approval = "pending" -> "pending"

HomeOf(row) == IF row = NoRow THEN NoOrg ELSE row.org

Admins == {u \in Users : Exists(u) /\ users[u].role = "ADMIN"}

Lifecycle == INSTANCE Membership WITH
    stage <- [u \in Users |-> StageOf(users[u])],
    home <- [u \in Users |-> HomeOf(users[u])],
    admins <- Admins

\* With one worker, the statements of the endpoints add up to the lifecycle of
\* Membership: nobody is ever left between two decisions, every decision is
\* taken by the active admin of the person's own company, and from the stage
\* it may be taken from.
ImplementsMembership == Lifecycle!Spec

\* An ADMIN profile is always an approved, active and unarchived one, and two
\* of them never share a company, however the requests of any number of workers
\* interleave: no sequence of guarded admin operations suspends or archives
\* the admin of a company (update_access and delete_user guard only against
\* the acting admin, or the loaded role).
AdminsInCharge ==
    /\ \A u \in Admins : users[u].approval = "approved"
                         /\ users[u].active /\ ~ users[u].archived
    /\ \A u, v \in Admins : users[u].org = users[v].org /\ users[u].org # NoOrg
                                => u = v

\* o was founded by a
Chartered(orgs, o, a) ==
    o \in Organizations /\ orgs[o] # NoRow /\ orgs[o].founder = a

\* What holds of a request t between its statements, whatever the other workers
\* commit meanwhile: the admin who sent it founded the organization it acts on,
\* and what it is going to write cannot harm the profile of an ADMIN.
Updates == {"update", "verify", "access", "archive"}

TaskSound(us, orgs, t) ==
    /\ t.op \in {"none", "create"} \cup Updates => Chartered(orgs, t.org, t.actor)
    /\ t.op = "none" <=> t.pc = "authorised"
    /\ t.op \in {"none", "signup", "create"} => t.read = NoRow
    /\ t.op \in {"signup", "create"} => t.write # NoRow /\ t.write.role # "ADMIN"
    /\ t.op = "bootstrap" =>
           /\ t.target = t.actor
           /\ IF t.read = NoRow
              THEN t.write = LegacyAdmin(t.actor)
              ELSE us[t.actor] # NoRow /\ t.write = t.read /\ ~ t.read.archived
    /\ t.op \in Updates =>
           /\ us[t.target] # NoRow /\ t.read # NoRow /\ t.write # NoRow
           /\ ~ t.read.archived
           /\ t.write.org = t.read.org
           /\ t.write.role # t.read.role => t.write.role # "ADMIN"
           /\ t.op # "archive" => ~ t.write.archived
           /\ t.op = "verify" => t.write.approval \in {"approved", "rejected"}
           /\ t.op \in {"update", "access"} => t.write.approval = t.read.approval
           /\ t.op = "update" => t.write.active = t.read.active
           /\ \/ us[t.target].role # "ADMIN"
              \/ t.op = "update"
              \/ t.op = "access" /\ (t.write.active \/ ~ t.read.active)

TasksSound ==
    \A w \in Workers : ~ Idle(w) => TaskSound(users, organizations, task[w])

AdminsSound ==
    \A u \in Admins :
        /\ users[u].approval = "approved" /\ users[u].active /\ ~ users[u].archived
        /\ users[u].org # NoOrg => Chartered(organizations, users[u].org, u)

\* The inductive invariant behind TypeOK, AdminsInCharge and ArchiveIsFinal
IInv == TypeOK /\ TasksSound /\ AdminsSound

\* The backend is one process: uvicorn without --workers, as README.md:28 has it.
OneWorker == \A v, w \in Workers : v = w

\* What a request t knows is what the tables hold.  The admin who sent it is
\* still the ADMIN of the company; the row that it read is the row that it will
\* write over, and passed the guards of the method; an archiving that counted no
\* client still finds none; the code of a signup is the current one.
AdminFresh(us, t) ==
    /\ us[t.actor] # NoRow /\ us[t.actor].role = "ADMIN"
    /\ us[t.actor].org = t.org

InsertFresh(orgs, t) ==
    /\ t.write.org = t.org
    /\ ~ t.write.archived
    /\ t.op = "signup" =>
           /\ t.org \in Organizations /\ orgs[t.org] # NoRow
           /\ orgs[t.org].rotations = t.code
           /\ t.write.approval = "pending" /\ ~ t.write.active
    /\ t.op = "create" =>
           /\ t.write.approval = "approved" => t.write.active
           /\ t.write.approval = "rejected" => ~ t.write.active

UpdateFresh(us, own, t) ==
    /\ t.read = us[t.target] /\ t.read.org = t.org
    /\ t.op = "update" => t.write.role # "ADMIN"
    /\ t.op # "update" /\ t.read.role = "ADMIN" => t.write.role = "ADMIN"
    /\ t.op = "verify" =>
           t.read.approval = "pending" /\ t.write.active = (t.write.approval = "approved")
    /\ t.op = "access" =>
           /\ t.read.approval = "approved"
           /\ t.target = t.actor => t.write.active \/ ~ t.read.active
    /\ t.op = "archive" =>
           /\ t.target # t.actor /\ t.read.role # "ADMIN"
           /\ t.write.archived /\ t.write.approval = "rejected" /\ ~ t.write.active
           /\ t.pc = "commit" => \A c \in Clients : own[c] # t.target

BootstrapFresh(us, t) ==
    t.read # NoRow => /\ t.read = us[t.actor]
                      /\ t.read.role = "ADMIN" /\ t.read.org = NoOrg

TaskFresh(us, orgs, own, t) ==
    /\ t.op \in {"none", "create"} \cup Updates => AdminFresh(us, t)
    /\ t.op \in {"signup", "create"} => InsertFresh(orgs, t)
    /\ t.op \in Updates => UpdateFresh(us, own, t)
    /\ t.op = "bootstrap" => BootstrapFresh(us, t)

TasksFresh ==
    \A w \in Workers : ~ Idle(w) => TaskFresh(users, organizations, owner, task[w])

\* Every company has the profile of its founder, and every profile its company.
CompaniesFounded ==
    \A o \in Organizations : organizations[o] # NoRow =>
        /\ Exists(organizations[o].founder)
        /\ users[organizations[o].founder].org = o

ProfilesPlaced ==
    \A u \in Users : Exists(u) /\ users[u].org # NoOrg
                        => organizations[users[u].org] # NoRow

RejectedInactive ==
    \A u \in Users : Exists(u) /\ users[u].approval = "rejected" => ~ users[u].active

\* The inductive invariant of a backend of one worker, behind ImplementsMembership
\* and the other properties that several workers can break: nothing that a
\* request has checked or loaded is stale when it commits.
SoloInv ==
    IInv /\ TasksFresh /\ CompaniesFounded /\ ProfilesPlaced /\ RejectedInactive

\* The last status event in the append-only trail describes the row: an
\* approval left a user who can sign in, a rejection one who cannot, and so on.
EventDescribes(e, row) ==
    CASE e.event = "none" -> row.role = "ADMIN" /\ row.org = NoOrg
      [] e.event = "bootstrapped" -> row.approval = "approved" /\ row.active
      [] e.event = "signup_requested" -> row.approval = "pending" /\ ~ row.active
      [] e.event = "created" -> row.approval = "approved" => row.active
      [] e.event = "approved" -> row.approval = "approved" /\ row.active
      [] e.event = "rejected" -> row.approval = "rejected" /\ ~ row.active
      [] e.event = "access_updated" ->
             row.approval = "approved" /\ row.active = e.active
      [] e.event = "archived" -> row.archived /\ ~ row.active

AuditDescribesRows ==
    \A u \in Users :
        /\ Exists(u) => /\ EventDescribes(trail[u], users[u])
                        /\ users[u].archived => trail[u].event = "archived"
        /\ ~ Exists(u) => trail[u].event = "none"

\* docs/organization-admin-setup.md: only users "who do not own client records"
\* are archived.  The count of delete_user and its commit are two statements.
ArchivedOwnNoClient ==
    \A c \in Clients : owner[c] # Nobody => ~ users[owner[c]].archived

\* No company is left without the profile that founded it.
FoundersBelong ==
    \A o \in Organizations :
        organizations[o] # NoRow => users[organizations[o].founder].org = o

\* Nobody joins with a join code that has been rotated away.
RotatedCodesAdmitNobody ==
    [][\A w \in Workers :
          task[w] # NoTask /\ task[w].op = "signup" /\ users' # users
          /\ users'[task[w].target] # users[task[w].target]
              => organizations[task[w].org].rotations = task[w].code]_vars

\* An archived profile stays archived: neither a second signup nor any
\* interleaved admin request brings it back, and its phone stays taken.
ArchiveIsFinal ==
    [][\A u \in Users : Exists(u) /\ users[u].archived
           => users'[u] # NoRow /\ users'[u].archived
              /\ users'[u].phone = users[u].phone]_vars

\* services/user/user_service.py:293: "Only pending signup requests can be
\* approved or rejected".  A decision, once committed, is only ever replaced
\* by the archiving of the profile.
DecisionsAreFinal ==
    [][\A u \in Users :
          Exists(u) /\ users[u].approval # "pending"
              => users'[u].approval = users[u].approval \/ users'[u].archived]_vars
=============================================================================
