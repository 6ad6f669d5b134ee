-------------------------- MODULE MembershipProofs --------------------------
(***************************************************************************)
(* Accounts served by one worker implements Membership, and keeps its      *)
(* audit trail, its join codes and the ownership of clients in order, for  *)
(* every number of users, organizations and clients.                       *)
(***************************************************************************)
EXTENDS AccountsProofs

-----------------------------------------------------------------------------
(* Nothing that a request has loaded is stale when it commits *)

\* With one worker, the request that a step moves is the only one there is.
LEMMA FreshByRun ==
  ASSUME TypeOK, OneWorker, NEW w \in Workers, NEW t, Run(w, t),
         t # NoTask => TaskFresh(users', organizations', owner', t)
  PROVE  TasksFresh'
  BY DEF TypeOK, OneWorker, Run, TasksFresh, Idle

LEMMA RequestFresh ==
  ASSUME SoloInv, OneWorker, NEW w \in Workers,
         AdminStep(w), \A p \in parked : ~ RotateJoinCode(w, p)
  PROVE  TasksFresh'
  <1> USE DEF Idle
  <1>0. /\ IInv /\ TypeOK
        /\ task[w] # NoTask =>
               /\ task[w] \in Task
               /\ TaskSound(users, organizations, task[w])
               /\ TaskFresh(users, organizations, owner, task[w])
    BY DEF SoloInv, IInv, TypeOK, TasksSound, TasksFresh
  <1>1. ASSUME NEW a \in Users, Authenticate(w, a) PROVE TasksFresh'
    <2> DEFINE t == [pc |-> "authorised", op |-> "none", actor |-> a,
                     org |-> users[a].org, target |-> a, code |-> 0,
                     read |-> NoRow, write |-> NoRow]
    <2>1. /\ Run(w, t) /\ users' = users
          /\ users[a] # NoRow /\ users[a].role = "ADMIN"
      BY <1>1 DEF Authenticate, SignedIn, Visible, Exists
    <2>2. TaskFresh(users', organizations', owner', t)
      BY <2>1 DEF TaskFresh, AdminFresh, Updates
    <2>3. QED
      BY <1>0, <2>1, <2>2, FreshByRun
  <1>2. ASSUME NEW u \in Users, NEW p \in Users, NEW r \in Roles \ {"ADMIN"},
               NEW sd \in BOOLEAN, NEW d \in Approvals,
               CreateUser(w, u, p, r, sd, d)
        PROVE  TasksFresh'
    <2> DEFINE row == [role |-> r, org |-> task[w].org, phone |-> p,
                       approval |-> IF sd THEN d ELSE "pending",
                       active |-> (sd => d = "approved"), archived |-> FALSE]
               t == [task[w] EXCEPT !.pc = "commit", !.op = "create",
                                    !.target = u, !.write = row]
    <2>1. /\ task[w] \in Task /\ Run(w, t) /\ users' = users
          /\ AdminFresh(users, task[w])
      BY <1>0, <1>2 DEF CreateUser, TaskSound, TaskFresh
    <2>2. /\ t.op = "create" /\ t.write = row /\ t.org = task[w].org
          /\ t.actor = task[w].actor
      BY <2>1 DEF Task
    <2>3. /\ row.approval = "approved" => row.active
          /\ row.approval = "rejected" => ~ row.active
          /\ row.org = task[w].org /\ ~ row.archived
      OBVIOUS
    <2> HIDE DEF row, t
    <2>4. TaskFresh(users', organizations', owner', t)
      BY <2>1, <2>2, <2>3 DEF TaskFresh, AdminFresh, InsertFresh, Updates
    <2>5. QED
      BY <1>0, <2>1, <2>4, FreshByRun
  <1>3. ASSUME NEW u \in Users, NEW op \in Updates, NEW pc \in {"count", "commit"},
               NEW row, ~ Idle(w), Found(w, u), Load(w, u, op, pc, row),
               op = "update" => row.role # "ADMIN",
               op # "update" /\ users[u].role = "ADMIN" => row.role = "ADMIN",
               op = "verify" => /\ users[u].approval = "pending"
                                /\ row.active = (row.approval = "approved"),
               op = "access" =>
                   /\ users[u].approval = "approved"
                   /\ u = task[w].actor => row.active \/ ~ users[u].active,
               op = "archive" =>
                   /\ u # task[w].actor /\ users[u].role # "ADMIN"
                   /\ row.archived /\ row.approval = "rejected" /\ ~ row.active
                   /\ pc = "count"
        PROVE  TasksFresh'
    <2> DEFINE t == [task[w] EXCEPT !.pc = pc, !.op = op, !.target = u,
                                    !.read = users[u], !.write = row]
    <2>1. /\ task[w] \in Task /\ task[w].op = "none" /\ Run(w, t)
          /\ users' = users /\ AdminFresh(users, task[w])
      BY <1>0, <1>3 DEF Load, TaskSound, TaskFresh
    <2>2. /\ t.op = op /\ t.pc = pc /\ t.target = u /\ t.read = users[u]
          /\ t.write = row /\ t.org = task[w].org /\ t.actor = task[w].actor
      BY <2>1 DEF Task
    <2>3. users[u].org = task[w].org
      BY <1>3 DEF Found
    <2> HIDE DEF t
    <2>4. AdminFresh(users', t)
      BY <2>1, <2>2 DEF AdminFresh
    <2>5. UpdateFresh(users', owner', t)
      BY <1>3, <2>1, <2>2, <2>3 DEF UpdateFresh
    <2>6. t.op \notin {"signup", "create", "bootstrap"}
      BY <2>2 DEF Updates
    <2>7. QED
      BY <1>0, <2>1, <2>4, <2>5, <2>6, FreshByRun DEF TaskFresh
  <1>4. ASSUME NEW u \in Users, ~ Idle(w), Found(w, u) PROVE users[u] \in UserRow
    BY <1>0, <1>4 DEF Found, Visible, Exists, TypeOK
  <1>5. ASSUME NEW u \in Users, NEW r \in Roles \ {"ADMIN"}, UpdateUser(w, u, r)
        PROVE  TasksFresh'
    <2> DEFINE row == [users[u] EXCEPT !.role = r]
    <2>1. Found(w, u) /\ ~ Idle(w) /\ Load(w, u, "update", "commit", row)
      BY <1>5 DEF UpdateUser
    <2>2. row.role # "ADMIN"
      BY <1>4, <2>1 DEF UserRow
    <2> HIDE DEF row
    <2>3. QED
      BY <1>3, <2>1, <2>2 DEF Updates
  <1>6. ASSUME NEW u \in Users, NEW d \in {"approved", "rejected"}, VerifyUser(w, u, d)
        PROVE  TasksFresh'
    <2> DEFINE row == [users[u] EXCEPT !.approval = d, !.active = (d = "approved")]
    <2>1. /\ Found(w, u) /\ ~ Idle(w) /\ users[u].approval = "pending"
          /\ Load(w, u, "verify", "commit", row)
      BY <1>6 DEF VerifyUser
    <2>2. /\ row.role = users[u].role /\ row.active = (row.approval = "approved")
      BY <1>4, <2>1 DEF UserRow
    <2> HIDE DEF row
    <2>3. QED
      BY <1>3, <2>1, <2>2 DEF Updates
  <1>7. ASSUME NEW u \in Users, NEW sr \in BOOLEAN, NEW sa \in BOOLEAN,
               NEW b \in BOOLEAN, NEW r \in Roles \ {"ADMIN"},
               UpdateAccess(w, u, sr, r, sa, b)
        PROVE  TasksFresh'
    <2> DEFINE row == [users[u] EXCEPT !.role = IF sr THEN r ELSE @,
                                       !.active = IF sa THEN b ELSE @]
    <2>1. /\ Found(w, u) /\ ~ Idle(w) /\ users[u].approval = "approved"
          /\ Load(w, u, "access", "commit", row)
          /\ ~ (u = task[w].actor /\ sa /\ ~ b)
          /\ ~ (users[u].role = "ADMIN" /\ sr)
      BY <1>7 DEF UpdateAccess, Granted
    <2>2. /\ row.role = IF sr THEN r ELSE users[u].role
          /\ row.active = IF sa THEN b ELSE users[u].active
      BY <1>4, <2>1 DEF UserRow
    <2> HIDE DEF row
    <2>3. u = task[w].actor => row.active \/ ~ users[u].active
      BY <2>1, <2>2
    <2>4. users[u].role = "ADMIN" => row.role = "ADMIN"
      BY <2>1, <2>2
    <2>5. QED
      BY <1>3, <2>1, <2>3, <2>4 DEF Updates
  <1>8. ASSUME NEW u \in Users, DeleteUser(w, u) PROVE TasksFresh'
    <2> DEFINE row == [users[u] EXCEPT !.active = FALSE, !.approval = "rejected",
                                       !.archived = TRUE]
    <2>1. /\ Found(w, u) /\ ~ Idle(w) /\ Load(w, u, "archive", "count", row)
          /\ u # task[w].actor /\ users[u].role # "ADMIN"
      BY <1>8 DEF DeleteUser
    <2>2. row.archived /\ row.approval = "rejected" /\ ~ row.active
      BY <1>4, <2>1 DEF UserRow
    <2> HIDE DEF row
    <2>3. QED
      BY <1>3, <2>1, <2>2 DEF Updates
  <1>9. ASSUME CountAssignedClients(w) PROVE TasksFresh'
    <2> DEFINE t == [task[w] EXCEPT !.pc = "commit"]
    <2>1. /\ task[w] \in Task /\ TaskFresh(users, organizations, owner, task[w])
          /\ Run(w, t) /\ UNCHANGED <<users, organizations, owner>>
          /\ \A c \in Clients : owner[c] # task[w].target
      BY <1>0, <1>9 DEF CountAssignedClients
    <2>2. /\ t.op = task[w].op /\ t.actor = task[w].actor /\ t.org = task[w].org
          /\ t.target = task[w].target /\ t.code = task[w].code
          /\ t.read = task[w].read /\ t.write = task[w].write
      BY <2>1 DEF Task
    <2> HIDE DEF t
    <2>3. TaskFresh(users', organizations', owner', t)
      BY <2>1, <2>2 DEF TaskFresh, AdminFresh, InsertFresh, UpdateFresh, BootstrapFresh
    <2>4. QED
      BY <1>0, <2>1, <2>3, FreshByRun
  <1>10. ASSUME ParkForOrganizationService(w) PROVE TasksFresh'
    BY <1>0, <1>10, FreshByRun DEF ParkForOrganizationService, Finish
  <1>11. QED
    BY <1>1, <1>2, <1>5, <1>6, <1>7, <1>8, <1>9, <1>10 DEF AdminStep

LEMMA NewcomerFresh ==
  ASSUME SoloInv, OneWorker, NEW w \in Workers, NewcomerStep(w)
  PROVE  TasksFresh'
  <1>0. TypeOK
    BY DEF SoloInv, IInv
  <1>1. ASSUME NEW u \in Users, NEW o \in Organizations,
               NEW n \in 0..MaxRotations, NEW r \in Roles \ {"ADMIN"},
               RequestSignup(w, u, o, n, r)
        PROVE  TasksFresh'
    <2> DEFINE row == [role |-> r, org |-> o, phone |-> u, approval |-> "pending",
                       active |-> FALSE, archived |-> FALSE]
               t == [pc |-> "commit", op |-> "signup", actor |-> u, org |-> o,
                     target |-> u, code |-> n, read |-> NoRow, write |-> row]
    <2>1. /\ Run(w, t) /\ organizations' = organizations
          /\ organizations[o] # NoRow /\ organizations[o].rotations = n
      BY <1>1 DEF RequestSignup, Newcomer, SubmitSignup
    <2>2. TaskFresh(users', organizations', owner', t)
      BY <2>1 DEF TaskFresh, InsertFresh, Updates
    <2>3. QED
      BY <1>0, <2>1, <2>2, FreshByRun
  <1>2. ASSUME NEW u \in Users, Bootstrap(w, u) PROVE TasksFresh'
    <2> DEFINE t == [pc |-> "commit", op |-> "bootstrap", actor |-> u, org |-> NoOrg,
                     target |-> u, code |-> 0,
                     read |-> IF Visible(u) THEN users[u] ELSE NoRow,
                     write |-> IF Visible(u) THEN users[u] ELSE LegacyAdmin(u)]
    <2>1. /\ Run(w, t) /\ users' = users
          /\ Visible(u) => users[u].org = NoOrg /\ users[u].role = "ADMIN"
      BY <1>2 DEF Bootstrap, SubmitBootstrap
    <2>2. TaskFresh(users', organizations', owner', t)
      BY <2>1 DEF TaskFresh, BootstrapFresh, Updates
    <2>3. QED
      BY <1>0, <2>1, <2>2, FreshByRun
  <1>3. QED
    BY <1>1, <1>2 DEF NewcomerStep

-----------------------------------------------------------------------------
(* What the commits leave in the tables *)

\* The columns that a commit stores over the row it loaded are those that were set.
LEMMA StoredAsSet ==
  ASSUME NEW write, NEW row
  PROVE  LET m == Merge(row, write, row)
         IN  /\ m.role = write.role /\ m.org = write.org
             /\ m.approval = write.approval /\ m.active = write.active
             /\ m.archived = write.archived
  BY DEF Merge, Column

\* A commit that writes the profile u, places it and founds at most one company.
LEMMA TablesPlaced ==
  ASSUME SoloInv, NEW u \in Users, NEW row \in UserRow,
         users' = [users EXCEPT ![u] = row],
         \A o \in Organizations : organizations[o] # NoRow =>
             organizations'[o] # NoRow
             /\ organizations'[o].founder = organizations[o].founder,
         \A o \in Organizations : organizations[o] = NoRow /\ organizations'[o] # NoRow =>
             organizations'[o].founder = u /\ row.org = o,
         Exists(u) /\ users[u].org # NoOrg => row.org = users[u].org,
         row.org # NoOrg => organizations'[row.org] # NoRow,
         row.approval = "rejected" => ~ row.active
  PROVE  CompaniesFounded' /\ ProfilesPlaced' /\ RejectedInactive'
  <1>1. /\ users \in [Users -> UserRow \cup {NoRow}] /\ row # NoRow
        /\ users'[u] = row /\ \A v \in Users : v # u => users'[v] = users[v]
    BY SentinelAssumption DEF SoloInv, IInv, TypeOK
  <1>2. CompaniesFounded'
    <2> SUFFICES ASSUME NEW o \in Organizations, organizations'[o] # NoRow
                 PROVE  /\ users'[organizations'[o].founder] # NoRow
                        /\ users'[organizations'[o].founder].org = o
      BY DEF CompaniesFounded, Exists
    <2>1. CASE organizations[o] = NoRow
      BY <1>1, <2>1
    <2>2. CASE organizations[o] # NoRow
      <3> DEFINE f == organizations[o].founder
      <3>1. f \in Users /\ Exists(f) /\ users[f].org = o /\ o # NoOrg
            /\ organizations'[o].founder = f
        BY <2>2, SentinelAssumption
           DEF SoloInv, IInv, TypeOK, OrganizationRow, CompaniesFounded
      <3>2. QED
        BY <1>1, <3>1 DEF Exists
    <2>3. QED
      BY <2>1, <2>2
  <1>3. ProfilesPlaced'
    <2> SUFFICES ASSUME NEW v \in Users, users'[v] # NoRow, users'[v].org # NoOrg
                 PROVE  organizations'[users'[v].org] # NoRow
      BY DEF ProfilesPlaced, Exists
    <2>1. CASE v = u
      BY <1>1, <2>1
    <2>2. CASE v # u
      <3>1. users[v] \in UserRow /\ organizations[users[v].org] # NoRow
        BY <1>1, <2>2 DEF SoloInv, ProfilesPlaced, Exists
      <3>2. users[v].org \in Organizations
        BY <1>1, <2>2, <3>1 DEF UserRow
      <3>3. QED
        BY <1>1, <2>2, <3>1, <3>2
    <2>3. QED
      BY <2>1, <2>2
  <1>4. RejectedInactive'
    BY <1>1 DEF SoloInv, RejectedInactive, Exists
  <1>5. QED
    BY <1>2, <1>3, <1>4

\* The admin whose request t is, is in charge of the company.
LEMMA AdminInCharge ==
  ASSUME SoloInv, NEW t \in Task, TaskSound(users, organizations, t),
         TaskFresh(users, organizations, owner, t),
         t.op \in {"none", "create"} \cup Updates
  PROVE  /\ t.actor \in Users /\ Exists(t.actor) /\ users[t.actor] \in UserRow
         /\ users[t.actor].role = "ADMIN" /\ users[t.actor].org = t.org
         /\ users[t.actor].approval = "approved"
         /\ users[t.actor].active /\ ~ users[t.actor].archived
         /\ t.org \in Organizations /\ organizations[t.org] # NoRow
  <1>1. /\ t.actor \in Users /\ Exists(t.actor)
        /\ users[t.actor].role = "ADMIN" /\ users[t.actor].org = t.org
    BY DEF TaskFresh, AdminFresh, Exists, Task
  <1>2. t.org \in Organizations /\ organizations[t.org] # NoRow
    BY DEF TaskSound, Chartered
  <1>3. t.actor \in Admins
    BY <1>1 DEF Admins
  <1>4. QED
    BY <1>1, <1>2, <1>3 DEF SoloInv, IInv, TypeOK, AdminsSound, Exists

LEMMA FreshInsert ==
  ASSUME SoloInv, NEW w \in Workers, CommitInsert(w)
  PROVE  LET t == task[w]
         IN  /\ t \in Task /\ TaskSound(users, organizations, t)
             /\ TaskFresh(users, organizations, owner, t)
             /\ t.op \in {"signup", "create"} /\ InsertFresh(organizations, t)
             /\ t.target \in Users /\ ~ Exists(t.target)
             /\ t.write \in UserRow /\ t.write.role # "ADMIN"
             /\ t.write.org \in Organizations /\ organizations[t.write.org] # NoRow
             /\ users' = [users EXCEPT ![t.target] = t.write]
             /\ UNCHANGED <<organizations, owner>> /\ Run(w, NoTask)
  <1> DEFINE t == task[w]
  <1>1. TypeOK /\ TasksSound
    BY DEF SoloInv, IInv
  <1>2. /\ t \in Task /\ t.op \in {"signup", "create"}
        /\ TaskSound(users, organizations, t) /\ TaskFresh(users, organizations, owner, t)
        /\ UNCHANGED <<organizations, owner>> /\ Run(w, NoTask)
    BY DEF SoloInv, IInv, TypeOK, TasksSound, TasksFresh, CommitInsert, Idle, Finish
  <1>3. InsertFresh(organizations, t)
    BY <1>2 DEF TaskFresh
  <1>4. t.org \in Organizations /\ organizations[t.org] # NoRow
    BY <1>2, <1>3, AdminInCharge DEF InsertFresh
  <1>5. QED
    BY <1>1, <1>2, <1>3, <1>4, InsertWrites DEF InsertFresh

LEMMA FreshUpdate ==
  ASSUME SoloInv, NEW w \in Workers, CommitUpdate(w)
  PROVE  LET t == task[w]
             row == users'[t.target]
         IN  /\ t \in Task /\ TaskSound(users, organizations, t)
             /\ TaskFresh(users, organizations, owner, t)
             /\ t.op \in Updates /\ UpdateFresh(users, owner, t) /\ t.pc = "commit"
             /\ t.target \in Users /\ Exists(t.target)
             /\ t.read = users[t.target] /\ t.read \in UserRow
             /\ t.write \in UserRow /\ row \in UserRow
             /\ users' = [users EXCEPT ![t.target] = row]
             /\ row.role = t.write.role /\ row.org = users[t.target].org
             /\ row.approval = t.write.approval /\ row.active = t.write.active
             /\ row.archived = t.write.archived
             /\ row.approval = "rejected" => ~ row.active
             /\ UNCHANGED <<organizations, owner>> /\ Run(w, NoTask)
  <1> DEFINE t == task[w]
             m == Merge(t.read, t.write, users[t.target])
  <1>1. TypeOK /\ TasksSound
    BY DEF SoloInv, IInv
  <1>2. /\ t \in Task /\ TaskSound(users, organizations, t) /\ t.op \in Updates
        /\ TaskFresh(users, organizations, owner, t) /\ t.pc = "commit"
        /\ t.target \in Users /\ Exists(t.target)
        /\ t.read \in UserRow /\ t.write \in UserRow /\ m \in UserRow
        /\ users' = [users EXCEPT ![t.target] = m]
        /\ UNCHANGED <<organizations, owner>> /\ Run(w, NoTask)
    BY <1>1, UpdateWrites DEF SoloInv, TasksFresh, CommitUpdate, Finish
  <1>3. UpdateFresh(users, owner, t) /\ t.read = users[t.target]
    BY <1>2 DEF TaskFresh, UpdateFresh
  <1>4. users'[t.target] = m
    BY <1>1, <1>2 DEF TypeOK
  <1>5. /\ m.role = t.write.role /\ m.org = t.write.org
        /\ m.approval = t.write.approval /\ m.active = t.write.active
        /\ m.archived = t.write.archived
    BY <1>3, StoredAsSet
  <1>6. t.write.org = users[t.target].org
    BY <1>2, <1>3 DEF TaskSound
  <1>7. t.write.approval = "rejected" => ~ t.write.active
    <2>1. t.read.approval = "rejected" => ~ t.read.active
      BY <1>2, <1>3 DEF SoloInv, RejectedInactive
    <2>2. QED
      BY <1>2, <1>3, <2>1 DEF Updates, TaskSound, UpdateFresh
  <1> HIDE DEF m
  <1>8. QED
    BY <1>2, <1>3, <1>4, <1>5, <1>6, <1>7

LEMMA FreshBootstrap ==
  ASSUME SoloInv, NEW w \in Workers, NEW o \in Organizations, CommitBootstrap(w, o)
  PROVE  LET a == task[w].actor
             row == users'[a]
         IN  /\ a \in Users /\ task[w].target = a /\ task[w].op = "bootstrap"
             /\ organizations[o] = NoRow
             /\ organizations' = [organizations EXCEPT
                    ![o] = [founder |-> a, active |-> TRUE, rotations |-> 0]]
             /\ users' = [users EXCEPT ![a] = row]
             /\ Exists(a) => a \in Admins /\ users[a].org = NoOrg
             /\ row \in UserRow /\ row.role = "ADMIN" /\ row.org = o
             /\ row.approval = "approved" /\ row.active /\ ~ row.archived
             /\ UNCHANGED owner /\ Run(w, NoTask)
  <1> DEFINE t == task[w]
             a == t.actor
             row == users'[a]
  <1>1. TypeOK /\ TasksSound
    BY DEF SoloInv, IInv
  <1>2. /\ t \in Task /\ TaskSound(users, organizations, t) /\ t.op = "bootstrap"
        /\ BootstrapFresh(users, t) /\ t.target = a
        /\ UNCHANGED owner /\ Run(w, NoTask)
    BY DEF SoloInv, IInv, TypeOK, TasksSound, TasksFresh, CommitBootstrap, Idle, Finish,
           TaskFresh, TaskSound
  <1>3. /\ a \in Users /\ organizations[o] = NoRow
        /\ organizations' = [organizations EXCEPT
                ![o] = [founder |-> a, active |-> TRUE, rotations |-> 0]]
        /\ users' = [users EXCEPT ![a] = row] /\ row \in UserRow
    BY <1>1, BootstrapWrites
  <1>4. CASE ~ Exists(a)
    <2>1. row = [LegacyAdmin(a) EXCEPT !.org = o]
      BY <1>1, <1>4, BootstrapWrites
    <2>2. /\ row.role = "ADMIN" /\ row.org = o
          /\ row.approval = "approved" /\ row.active /\ ~ row.archived
      BY <2>1 DEF LegacyAdmin
    <2>3. QED
      BY <1>2, <1>3, <1>4, <2>2
  <1>5. CASE Exists(a)
    <2>1. t.read # NoRow
      BY <1>2, <1>5 DEF CommitBootstrap, Insert
    <2>2. /\ t.read = users[a] /\ users[a].role = "ADMIN" /\ users[a].org = NoOrg
          /\ t.write = t.read
      BY <1>2, <2>1 DEF BootstrapFresh, TaskSound
    <2>3. a \in Admins /\ users[a] \in UserRow
      BY <1>1, <1>3, <1>5, <2>2 DEF Admins, TypeOK, Exists
    <2>4. /\ users[a].approval = "approved" /\ users[a].active /\ ~ users[a].archived
      BY <2>3 DEF SoloInv, IInv, AdminsSound
    <2> DEFINE admin == [t.write EXCEPT !.org = o]
    <2>5. /\ admin.role = users[a].role /\ admin.org = o
          /\ admin.approval = users[a].approval /\ admin.active = users[a].active
          /\ admin.archived = users[a].archived
      BY <2>2, <2>3 DEF UserRow
    <2>6. users' = [users EXCEPT ![a] = Merge(users[a], admin, users[a])]
      BY <1>2, <2>1, <2>2 DEF CommitBootstrap
    <2> HIDE DEF admin
    <2>7. row = Merge(users[a], admin, users[a])
      BY <1>1, <1>3, <2>6 DEF TypeOK
    <2>8. /\ row.role = admin.role /\ row.org = admin.org
          /\ row.approval = admin.approval /\ row.active = admin.active
          /\ row.archived = admin.archived
      BY <2>7, StoredAsSet
    <2>9. QED
      BY <1>2, <1>3, <2>2, <2>3, <2>4, <2>5, <2>8
  <1>6. QED
    BY <1>4, <1>5

-----------------------------------------------------------------------------
(* A commit is one step of Membership *)

Stage == [v \in Users |-> StageOf(users[v])]
Home == [v \in Users |-> HomeOf(users[v])]

\* The stage of a profile, read off its columns
LEMMA Stages ==
  /\ StageOf(NoRow) = "none"
  /\ \A row \in UserRow :
        /\ row.archived /\ row.approval = "rejected" /\ ~ row.active
              => StageOf(row) = "archived"
        /\ ~ row.archived =>
              /\ row.approval = "pending" => StageOf(row) = "pending"
              /\ row.approval = "approved" /\ row.active => StageOf(row) = "active"
              /\ row.approval = "approved" /\ ~ row.active => StageOf(row) = "suspended"
              /\ row.approval = "rejected" /\ ~ row.active => StageOf(row) = "rejected"
              /\ StageOf(row) # "archived"
  <1>1. StageOf(NoRow) = "none"
    BY DEF StageOf
  <1>2. ASSUME NEW row \in UserRow
        PROVE  /\ row # NoRow
               /\ row.approval \in {"pending", "approved", "rejected"}
               /\ row.active \in BOOLEAN /\ row.archived \in BOOLEAN
    BY SentinelAssumption DEF UserRow, Approvals
  <1>3. QED
    BY <1>1, <1>2 DEF StageOf

\* What the write of one row is to the three variables of Membership
LEMMA StagesMove ==
  ASSUME TypeOK, NEW u \in Users, NEW row \in UserRow,
         users' = [users EXCEPT ![u] = row]
  PROVE  /\ Stage' = [Stage EXCEPT ![u] = StageOf(row)]
         /\ Home' = [Home EXCEPT ![u] = row.org]
         /\ Admins' = IF row.role = "ADMIN" THEN Admins \cup {u} ELSE Admins \ {u}
         /\ row.org = HomeOf(users[u]) => Home' = Home
  <1>1. /\ row # NoRow /\ HomeOf(row) = row.org
        /\ users'[u] = row /\ \A v \in Users : v # u => users'[v] = users[v]
    BY SentinelAssumption DEF TypeOK, HomeOf
  <1>2. Stage' = [Stage EXCEPT ![u] = StageOf(row)]
    <2>1. Stage' = [v \in Users |-> StageOf(users'[v])]
      BY DEF Stage, StageOf
    <2>2. \A v \in Users : StageOf(users'[v]) =
              IF v = u THEN StageOf(row) ELSE StageOf(users[v])
      BY <1>1
    <2>3. QED
      BY <2>1, <2>2 DEF Stage
  <1>3. Home' = [Home EXCEPT ![u] = row.org]
    <2>1. Home' = [v \in Users |-> HomeOf(users'[v])]
      BY DEF Home, HomeOf
    <2>2. \A v \in Users : HomeOf(users'[v]) =
              IF v = u THEN row.org ELSE HomeOf(users[v])
      BY <1>1
    <2>3. QED
      BY <2>1, <2>2 DEF Home
  <1>4. Admins' = IF row.role = "ADMIN" THEN Admins \cup {u} ELSE Admins \ {u}
    BY <1>1 DEF Admins, Exists
  <1>5. row.org = HomeOf(users[u]) => Home' = Home
    BY <1>3 DEF Home
  <1>6. QED
    BY <1>2, <1>3, <1>4, <1>5

\* The companies that Membership sees are those of the table.
LEMMA FoundedCompanies ==
  ASSUME SoloInv, NEW o \in Organizations
  PROVE  organizations[o] # NoRow <=> \E u \in Users : HomeOf(users[u]) = o
  <1>1. o # NoOrg
    BY SentinelAssumption
  <1>2. ASSUME organizations[o] # NoRow PROVE \E u \in Users : HomeOf(users[u]) = o
    BY <1>2 DEF SoloInv, IInv, TypeOK, OrganizationRow, CompaniesFounded, HomeOf, Exists
  <1>3. ASSUME NEW u \in Users, HomeOf(users[u]) = o PROVE organizations[o] # NoRow
    BY <1>1, <1>3 DEF SoloInv, ProfilesPlaced, HomeOf, Exists
  <1>4. QED
    BY <1>2, <1>3

\* The admin of a request is in charge in Membership too.
LEMMA InChargeThere ==
  ASSUME SoloInv, NEW t \in Task, TaskSound(users, organizations, t),
         TaskFresh(users, organizations, owner, t),
         t.op \in {"none", "create"} \cup Updates
  PROVE  /\ t.actor \in Users /\ t.actor \in Admins
         /\ Stage[t.actor] = "active" /\ Home[t.actor] = t.org
         /\ t.org # NoOrg
  <1>1. /\ t.actor \in Users /\ Exists(t.actor) /\ users[t.actor] \in UserRow
        /\ users[t.actor].role = "ADMIN" /\ users[t.actor].org = t.org
        /\ users[t.actor].approval = "approved"
        /\ users[t.actor].active /\ ~ users[t.actor].archived
        /\ t.org \in Organizations
    BY AdminInCharge
  <1>2. StageOf(users[t.actor]) = "active"
    BY <1>1, Stages
  <1>3. QED
    BY <1>1, <1>2, SentinelAssumption DEF Stage, Home, HomeOf, Admins, Exists

LEMMA InsertStroke ==
  ASSUME SoloInv, NEW w \in Workers, CommitInsert(w)
  PROVE  Lifecycle!Next /\ CompaniesFounded' /\ ProfilesPlaced' /\ RejectedInactive'
  <1> DEFINE t == task[w]
             u == t.target
             row == t.write
  <1>1. /\ t \in Task /\ TaskSound(users, organizations, t)
        /\ TaskFresh(users, organizations, owner, t)
        /\ t.op \in {"signup", "create"} /\ InsertFresh(organizations, t)
        /\ u \in Users /\ ~ Exists(u) /\ row \in UserRow /\ row.role # "ADMIN"
        /\ row.org \in Organizations /\ organizations[row.org] # NoRow
        /\ users' = [users EXCEPT ![u] = row] /\ UNCHANGED organizations
    BY FreshInsert
  <1>2. ~ row.archived /\ row.org = t.org
        /\ (row.approval = "rejected" => ~ row.active)
    BY <1>1 DEF InsertFresh
  <1>3. TypeOK
    BY DEF SoloInv, IInv
  <1>4. /\ Stage' = [Stage EXCEPT ![u] = StageOf(row)]
        /\ Home' = [Home EXCEPT ![u] = row.org]
        /\ Admins' = Admins /\ Stage[u] = "none"
    <2>1. u \notin Admins /\ Stage[u] = "none"
      BY <1>1, Stages DEF Admins, Stage, Exists
    <2> HIDE DEF row, u
    <2>2. /\ Stage' = [Stage EXCEPT ![u] = StageOf(row)]
          /\ Home' = [Home EXCEPT ![u] = row.org]
          /\ Admins' = IF row.role = "ADMIN" THEN Admins \cup {u} ELSE Admins \ {u}
      BY <1>1, <1>3, StagesMove
    <2>3. Admins \ {u} = Admins
      BY <2>1
    <2>4. QED
      BY <1>1, <2>1, <2>2, <2>3
  <1>5. ASSUME t.op = "signup" PROVE Lifecycle!Next
    <2>1. StageOf(row) = "pending"
      BY <1>1, <1>2, <1>5, Stages DEF InsertFresh
    <2>2. \E v \in Users : Home[v] = row.org
      BY <1>1, FoundedCompanies DEF Home
    <2>3. Lifecycle!Apply(u, row.org)
      BY <1>4, <2>1, <2>2 DEF Lifecycle!Apply, Lifecycle!Founded, Stage, Home
    <2>4. QED
      BY <1>1, <2>3 DEF Lifecycle!Next
  <1>6. ASSUME t.op = "create" PROVE Lifecycle!Next
    <2>1. /\ t.actor \in Users /\ t.actor \in Admins
          /\ Stage[t.actor] = "active" /\ Home[t.actor] = t.org /\ t.org # NoOrg
      BY <1>1, <1>6, InChargeThere
    <2>2. StageOf(row) \in {"pending", "active", "rejected"}
      <3>1. row.approval \in {"pending", "approved", "rejected"}
        BY <1>1 DEF UserRow, Approvals
      <3>2. /\ row.approval = "approved" => row.active
            /\ row.approval = "rejected" => ~ row.active
        BY <1>1, <1>6 DEF InsertFresh
      <3>3. QED
        BY <1>1, <1>2, <3>1, <3>2, Stages
    <2>3. Lifecycle!Enrol(t.actor, u) /\ Lifecycle!InCharge(t.actor)
      BY <1>2, <1>4, <2>1, <2>2 DEF Lifecycle!Enrol, Lifecycle!InCharge, Stage, Home
    <2>4. QED
      BY <1>1, <2>1, <2>3 DEF Lifecycle!Next, Lifecycle!ByAdmin
  <1>7. CompaniesFounded' /\ ProfilesPlaced' /\ RejectedInactive'
    BY <1>1, <1>2, TablesPlaced
  <1>8. QED
    BY <1>1, <1>5, <1>6, <1>7

LEMMA BootstrapStroke ==
  ASSUME SoloInv, NEW w \in Workers, NEW o \in Organizations, CommitBootstrap(w, o)
  PROVE  Lifecycle!Next /\ CompaniesFounded' /\ ProfilesPlaced' /\ RejectedInactive'
  <1> DEFINE a == task[w].actor
             row == users'[a]
             company == [founder |-> a, active |-> TRUE, rotations |-> 0]
  <1>1. /\ a \in Users /\ organizations[o] = NoRow
        /\ organizations' = [organizations EXCEPT ![o] = company]
        /\ users' = [users EXCEPT ![a] = row]
        /\ Exists(a) => a \in Admins /\ users[a].org = NoOrg
        /\ row \in UserRow /\ row.role = "ADMIN" /\ row.org = o
        /\ row.approval = "approved" /\ row.active /\ ~ row.archived
    BY FreshBootstrap
  <1>2. TypeOK
    BY DEF SoloInv, IInv
  <1>3. company # NoRow /\ company.founder = a
    <2>1. company \in OrganizationRow
      BY <1>1, BoundsAssumption DEF OrganizationRow
    <2>2. QED
      BY <2>1, SentinelAssumption
  <1>4. /\ organizations'[o] = company
        /\ \A q \in Organizations : q # o => organizations'[q] = organizations[q]
    BY <1>1, <1>2 DEF TypeOK
  <1>5. Stage' = [Stage EXCEPT ![a] = "active"]
        /\ Home' = [Home EXCEPT ![a] = o] /\ Admins' = Admins \cup {a}
    <2> HIDE DEF row
    <2>1. StageOf(row) = "active"
      BY <1>1, Stages
    <2>2. QED
      BY <1>1, <1>2, <2>1, StagesMove
  <1>6. Stage[a] = "none" \/ (Stage[a] = "active" /\ a \in Admins /\ Home[a] = NoOrg)
    <2>1. CASE ~ Exists(a)
      BY <1>1, <2>1, Stages DEF Stage, Exists
    <2>2. CASE Exists(a)
      <3>1. /\ users[a] \in UserRow /\ a \in Admins /\ users[a].org = NoOrg
            /\ users[a].approval = "approved" /\ users[a].active
            /\ ~ users[a].archived
        BY <1>1, <2>2 DEF SoloInv, IInv, TypeOK, AdminsSound, Exists
      <3>2. StageOf(users[a]) = "active"
        BY <3>1, Stages
      <3>3. QED
        BY <1>1, <2>2, <3>1, <3>2 DEF Stage, Home, HomeOf, Exists
    <2>3. QED
      BY <2>1, <2>2
  <1>7. ~ \E v \in Users : Home[v] = o
    BY <1>1, FoundedCompanies DEF Home
  <1>8. Lifecycle!Found(a, o)
    BY <1>5, <1>6, <1>7 DEF Lifecycle!Found, Lifecycle!Founded, Stage, Home
  <1>9. CompaniesFounded' /\ ProfilesPlaced' /\ RejectedInactive'
    <2> HIDE DEF a, row, company
    <2>1. \A q \in Organizations : organizations[q] # NoRow =>
              organizations'[q] # NoRow
              /\ organizations'[q].founder = organizations[q].founder
      BY <1>1, <1>4
    <2>2. \A q \in Organizations : organizations[q] = NoRow /\ organizations'[q] # NoRow =>
              organizations'[q].founder = a /\ row.org = q
      BY <1>1, <1>3, <1>4
    <2>3. row.org # NoOrg => organizations'[row.org] # NoRow
      BY <1>1, <1>3, <1>4
    <2>4. QED
      BY <1>1, <2>1, <2>2, <2>3, TablesPlaced
  <1>10. QED
    BY <1>1, <1>8, <1>9 DEF Lifecycle!Next

LEMMA UpdateStroke ==
  ASSUME SoloInv, NEW w \in Workers, CommitUpdate(w)
  PROVE  /\ [Lifecycle!Next]_(Lifecycle!vars)
         /\ CompaniesFounded' /\ ProfilesPlaced' /\ RejectedInactive'
  <1> DEFINE t == task[w]
             u == t.target
             a == t.actor
             read == t.read
             row == users'[u]
  <1>1. /\ t \in Task /\ TaskSound(users, organizations, t)
        /\ TaskFresh(users, organizations, owner, t)
        /\ t.op \in Updates /\ UpdateFresh(users, owner, t)
        /\ u \in Users /\ Exists(u) /\ read = users[u] /\ read \in UserRow
        /\ t.write \in UserRow /\ row \in UserRow
        /\ users' = [users EXCEPT ![u] = row]
        /\ row.role = t.write.role /\ row.org = read.org
        /\ row.approval = t.write.approval /\ row.active = t.write.active
        /\ row.archived = t.write.archived
        /\ row.approval = "rejected" => ~ row.active
        /\ UNCHANGED organizations
    BY FreshUpdate
  <1>2. /\ a \in Users /\ a \in Admins /\ Stage[a] = "active"
        /\ Home[a] = t.org /\ t.org # NoOrg
    BY <1>1, InChargeThere
  <1>3. Lifecycle!InCharge(a)
    BY <1>2 DEF Lifecycle!InCharge, Stage, Home
  <1>4. /\ ~ read.archived /\ read.org = t.org
        /\ Home[u] = Home[a] /\ Stage[u] = StageOf(read)
    BY <1>1, <1>2 DEF TaskSound, UpdateFresh, Home, HomeOf, Stage, Exists
  <1>5. /\ Stage' = [Stage EXCEPT ![u] = StageOf(row)] /\ Home' = Home
        /\ Admins' = IF row.role = "ADMIN" THEN Admins \cup {u} ELSE Admins \ {u}
    <2>1. HomeOf(users[u]) = row.org /\ TypeOK
      BY <1>1 DEF HomeOf, Exists, SoloInv, IInv
    <2> HIDE DEF row
    <2>2. QED
      BY <1>1, <2>1, StagesMove
  <1>6. /\ read.approval \in {"pending", "approved", "rejected"}
        /\ read.approval = "rejected" => ~ read.active
        /\ u \in Admins <=> read.role = "ADMIN"
    BY <1>1 DEF SoloInv, RejectedInactive, UserRow, Approvals, Admins
  <1> HIDE DEF row
  <1>7. t.op # "update" => Admins' = Admins
    <2>1. t.op # "update" => (read.role = "ADMIN" <=> row.role = "ADMIN")
      BY <1>1 DEF UpdateFresh, TaskSound
    <2>2. QED
      BY <1>5, <1>6, <2>1
  <1>8. ASSUME NEW from, Stage[u] \in from, NEW to, StageOf(row) = to,
               t.op # "update"
        PROVE  Lifecycle!Move(a, u, from, to)
    BY <1>4, <1>5, <1>7, <1>8 DEF Lifecycle!Move, Stage, Home
  <1>9. ASSUME StageOf(row) = Stage[u], t.op # "update"
        PROVE  UNCHANGED Lifecycle!vars
    <2>1. Stage' = Stage
      BY <1>5, <1>9 DEF Stage
    <2>2. QED
      BY <1>5, <1>7, <1>9, <2>1 DEF Lifecycle!vars, Stage, Home
  <1>10. ASSUME t.op = "update" PROVE [Lifecycle!Next]_(Lifecycle!vars)
    <2>1. Stage' = Stage
      <3>1. /\ row.approval = read.approval /\ row.active = read.active
            /\ row.archived = read.archived
        BY <1>1, <1>4, <1>10 DEF TaskSound, UserRow
      <3>2. StageOf(row) = StageOf(read)
        BY <1>1, <3>1, SentinelAssumption DEF StageOf
      <3>3. QED
        BY <1>4, <1>5, <3>2 DEF Stage
    <2>2. Stage[u] # "archived"
      BY <1>1, <1>4, Stages
    <2>3. Admins' = Admins \ {u}
      BY <1>1, <1>5, <1>10 DEF UpdateFresh
    <2>4. Lifecycle!Demote(a, u)
      BY <1>4, <1>5, <2>1, <2>2, <2>3 DEF Lifecycle!Demote, Stage, Home
    <2>5. QED
      BY <1>1, <1>2, <1>3, <2>4 DEF Lifecycle!Next, Lifecycle!ByAdmin
  <1>11. ASSUME t.op = "verify" PROVE [Lifecycle!Next]_(Lifecycle!vars)
    <2>1. Stage[u] = "pending"
      BY <1>1, <1>4, <1>11, Stages DEF UpdateFresh
    <2>2. StageOf(row) \in {"active", "rejected"}
      <3>1. /\ ~ row.archived /\ row.approval \in {"approved", "rejected"}
            /\ row.active = (row.approval = "approved")
        BY <1>1, <1>11 DEF TaskSound, UpdateFresh
      <3>2. QED
        BY <1>1, <3>1, Stages
    <2>3. Lifecycle!Decide(a, u)
      BY <1>8, <1>11, <2>1, <2>2 DEF Lifecycle!Decide
    <2>4. QED
      BY <1>1, <1>2, <1>3, <2>3 DEF Lifecycle!Next, Lifecycle!ByAdmin
  <1>12. ASSUME t.op = "access" PROVE [Lifecycle!Next]_(Lifecycle!vars)
    <2>1. /\ ~ row.archived /\ row.approval = "approved" /\ read.approval = "approved"
          /\ u = a => row.active \/ ~ read.active
      BY <1>1, <1>12 DEF TaskSound, UpdateFresh
    <2>2. /\ Stage[u] = IF read.active THEN "active" ELSE "suspended"
          /\ StageOf(row) = IF row.active THEN "active" ELSE "suspended"
      BY <1>1, <1>4, <2>1, Stages
    <2>3. CASE read.active <=> row.active
      BY <1>9, <1>12, <2>2, <2>3
    <2>4. CASE read.active /\ ~ row.active
      <3>1. Lifecycle!Suspend(a, u)
        BY <1>8, <1>12, <2>1, <2>2, <2>4 DEF Lifecycle!Suspend
      <3>2. QED
        BY <1>1, <1>2, <1>3, <3>1 DEF Lifecycle!Next, Lifecycle!ByAdmin
    <2>5. CASE ~ read.active /\ row.active
      <3>1. Lifecycle!Reinstate(a, u)
        BY <1>8, <1>12, <2>1, <2>2, <2>5 DEF Lifecycle!Reinstate
      <3>2. QED
        BY <1>1, <1>2, <1>3, <3>1 DEF Lifecycle!Next, Lifecycle!ByAdmin
    <2>6. QED
      BY <2>3, <2>4, <2>5
  <1>13. ASSUME t.op = "archive" PROVE [Lifecycle!Next]_(Lifecycle!vars)
    <2>1. /\ row.archived /\ row.approval = "rejected" /\ ~ row.active
          /\ u # a /\ read.role # "ADMIN"
      BY <1>1, <1>13 DEF UpdateFresh
    <2>2. StageOf(row) = "archived"
      BY <1>1, <2>1, Stages
    <2>3. Stage[u] \in {"pending", "active", "suspended", "rejected"}
      BY <1>1, <1>4, <1>6, Stages
    <2>4. Lifecycle!Archive(a, u)
      BY <1>6, <1>8, <1>13, <2>1, <2>2, <2>3 DEF Lifecycle!Archive
    <2>5. QED
      BY <1>1, <1>2, <1>3, <2>4 DEF Lifecycle!Next, Lifecycle!ByAdmin
  <1>14. CompaniesFounded' /\ ProfilesPlaced' /\ RejectedInactive'
    <2>1. row.org # NoOrg => organizations'[row.org] # NoRow
      BY <1>1 DEF SoloInv, ProfilesPlaced, Exists
    <2>2. QED
      BY <1>1, <2>1, TablesPlaced
  <1>15. QED
    BY <1>1, <1>10, <1>11, <1>12, <1>13, <1>14 DEF Updates

-----------------------------------------------------------------------------
(* The invariant of one worker is inductive *)

\* Neither the operator nor a rotation makes or unmakes a company.
LEMMA CompaniesKept ==
  ASSUME TypeOK, OperatorStep \/ \E w \in Workers, p \in parked : RotateJoinCode(w, p)
  PROVE  /\ \A o \in Organizations :
               /\ organizations'[o] = NoRow <=> organizations[o] = NoRow
               /\ organizations[o] # NoRow =>
                     /\ organizations'[o].founder = organizations[o].founder
                     /\ OperatorStep =>
                           organizations'[o].rotations = organizations[o].rotations
         /\ UNCHANGED <<users, owner, task, trail>>
  <1>1. ASSUME NEW o \in Organizations, NEW row \in OrganizationRow,
               organizations[o] # NoRow,
               organizations' = [organizations EXCEPT ![o] = row],
               row.founder = organizations[o].founder,
               OperatorStep => row.rotations = organizations[o].rotations,
               UNCHANGED <<users, owner, task, trail>>
        PROVE  /\ \A q \in Organizations :
                     /\ organizations'[q] = NoRow <=> organizations[q] = NoRow
                     /\ organizations[q] # NoRow =>
                           /\ organizations'[q].founder = organizations[q].founder
                           /\ OperatorStep =>
                                 organizations'[q].rotations = organizations[q].rotations
               /\ UNCHANGED <<users, owner, task, trail>>
    BY <1>1, SentinelAssumption DEF TypeOK
  <1>2. CASE OperatorStep
    <2>1. PICK o \in Suspendable, b \in BOOLEAN : OperatorSetsActive(o, b)
      BY <1>2 DEF OperatorStep
    <2> DEFINE row == [organizations[o] EXCEPT !.active = b]
    <2>2. /\ o \in Organizations /\ organizations[o] # NoRow
          /\ organizations[o] \in OrganizationRow
          /\ organizations' = [organizations EXCEPT ![o] = row]
          /\ UNCHANGED <<users, owner, task, trail>>
      BY <2>1, BoundsAssumption DEF OperatorSetsActive, TypeOK
    <2>3. /\ row \in OrganizationRow /\ row.founder = organizations[o].founder
          /\ row.rotations = organizations[o].rotations
      BY <2>2 DEF OrganizationRow
    <2> HIDE DEF row
    <2>4. QED
      BY <1>1, <2>2, <2>3
  <1>3. CASE ~ OperatorStep
    <2>1. PICK w \in Workers, p \in parked : RotateJoinCode(w, p)
      BY <1>3
    <2> DEFINE o == p.org
               row == [organizations[o] EXCEPT !.rotations = @ + 1]
    <2>2. /\ organizations[o] # NoRow /\ organizations[o].rotations < MaxRotations
          /\ organizations' = [organizations EXCEPT ![o] = row]
          /\ UNCHANGED <<users, owner, task, trail>>
      BY <2>1 DEF RotateJoinCode
    <2>3. CASE o \in Organizations
      <3>1. organizations[o] \in OrganizationRow
        BY <2>2, <2>3 DEF TypeOK
      <3>2. row \in OrganizationRow /\ row.founder = organizations[o].founder
        BY <2>2, <3>1, BoundsAssumption DEF OrganizationRow
      <3> HIDE DEF o, row
      <3>3. QED
        BY <1>1, <1>3, <2>2, <2>3, <3>2
    <2>4. CASE o \notin Organizations
      BY <1>3, <2>2, <2>4 DEF TypeOK
    <2>5. QED
      BY <2>3, <2>4
  <1>4. QED
    BY <1>2, <1>3

\* What does not write the users table is a stutter of Membership.
LEMMA NoStroke ==
  ASSUME UNCHANGED users
  PROVE  UNCHANGED Lifecycle!vars
  <1>1. Stage' = Stage
    BY DEF Stage, StageOf
  <1>2. Home' = Home
    BY DEF Home, HomeOf
  <1>3. Admins' = Admins
    BY DEF Admins, Exists
  <1>4. QED
    BY <1>1, <1>2, <1>3 DEF Lifecycle!vars, Stage, Home

\* A step that writes neither users nor the existence of a company keeps both placed.
LEMMA StillPlaced ==
  ASSUME SoloInv, UNCHANGED users,
         \A o \in Organizations :
            /\ organizations'[o] = NoRow <=> organizations[o] = NoRow
            /\ organizations[o] # NoRow =>
                  organizations'[o].founder = organizations[o].founder
  PROVE  CompaniesFounded' /\ ProfilesPlaced' /\ RejectedInactive'
  <1>1. \A u \in Users : Exists(u) /\ users[u].org # NoOrg => users[u].org \in Organizations
    BY DEF SoloInv, IInv, TypeOK, UserRow, Exists
  <1>2. CompaniesFounded'
    BY DEF SoloInv, CompaniesFounded, Exists
  <1>3. ProfilesPlaced'
    BY <1>1 DEF SoloInv, ProfilesPlaced, Exists
  <1>4. QED
    BY <1>2, <1>3 DEF SoloInv, RejectedInactive, Exists

\* The steps that write no profile
LEMMA QuietStep ==
  ASSUME SoloInv, OneWorker, Next, \A w \in Workers : ~ CommitStep(w)
  PROVE  /\ UNCHANGED <<users, trail>> /\ TasksFresh'
         /\ CompaniesFounded' /\ ProfilesPlaced' /\ RejectedInactive'
  <1>0. TypeOK
    BY DEF SoloInv, IInv
  <1>1. CASE OperatorStep
    <2>1. /\ UNCHANGED <<users, owner, task, trail>>
          /\ \A o \in Organizations :
                /\ organizations'[o] = NoRow <=> organizations[o] = NoRow
                /\ organizations[o] # NoRow =>
                      /\ organizations'[o].founder = organizations[o].founder
                      /\ organizations'[o].rotations = organizations[o].rotations
      BY <1>0, <1>1, CompaniesKept
    <2>2. TasksFresh'
      <3> SUFFICES ASSUME NEW w \in Workers, task[w] # NoTask
                   PROVE  TaskFresh(users', organizations', owner', task[w])
        BY <2>1 DEF TasksFresh, Idle
      <3>1. TaskFresh(users, organizations, owner, task[w])
        BY DEF SoloInv, TasksFresh, Idle
      <3>2. task[w].op \in {"signup", "create"} => InsertFresh(organizations', task[w])
        BY <2>1, <3>1 DEF TaskFresh, InsertFresh
      <3>3. QED
        BY <2>1, <3>1, <3>2 DEF TaskFresh
    <2>3. QED
      BY <2>1, <2>2, StillPlaced
  <1>2. ASSUME NEW w \in Workers, NEW p \in parked, RotateJoinCode(w, p)
        PROVE  /\ UNCHANGED <<users, trail>> /\ TasksFresh'
               /\ CompaniesFounded' /\ ProfilesPlaced' /\ RejectedInactive'
    <2>1. /\ UNCHANGED <<users, owner, task, trail>>
          /\ \A o \in Organizations :
                /\ organizations'[o] = NoRow <=> organizations[o] = NoRow
                /\ organizations[o] # NoRow =>
                      organizations'[o].founder = organizations[o].founder
      BY <1>0, <1>2, CompaniesKept
    <2>2. TasksFresh'
      BY <1>2, <2>1 DEF RotateJoinCode, Idle, OneWorker, TasksFresh
    <2>3. QED
      BY <2>1, <2>2, StillPlaced
  <1>3. ASSUME NEW w \in Workers, RollBack(w) \/ ClientStep(w) PROVE TasksFresh'
    <2>1. CASE RollBack(w)
      BY <1>0, <2>1, FreshByRun DEF RollBack, Finish
    <2>2. CASE ClientStep(w)
      <3>1. UNCHANGED task /\ task[w] = NoTask
        BY <2>2 DEF ClientStep, ArchiveClient, AssignClient, Idle
      <3>2. QED
        BY <3>1 DEF OneWorker, TasksFresh, Idle
    <2>3. QED
      BY <1>3, <2>1, <2>2
  <1>4. ASSUME NEW w \in Workers,
               AdminStep(w) \/ NewcomerStep(w) \/ RollBack(w) \/ ClientStep(w),
               \A p \in parked : ~ RotateJoinCode(w, p)
        PROVE  UNCHANGED <<users, organizations, trail>>
    BY <1>4 DEF AdminStep, Authenticate, CreateUser, UpdateUser, VerifyUser,
                UpdateAccess, Granted, DeleteUser, CountAssignedClients, Load,
                ParkForOrganizationService, NewcomerStep, RequestSignup, SubmitSignup,
                Bootstrap, SubmitBootstrap, RollBack, ClientStep, ArchiveClient,
                AssignClient
  <1>5. ASSUME UNCHANGED <<users, organizations>>
        PROVE  CompaniesFounded' /\ ProfilesPlaced' /\ RejectedInactive'
    BY <1>5, StillPlaced
  <1>6. ASSUME NEW w \in Workers,
               AdminStep(w) \/ NewcomerStep(w) \/ RollBack(w) \/ ClientStep(w),
               \A p \in parked : ~ RotateJoinCode(w, p)
        PROVE  TasksFresh'
    BY <1>3, <1>6, RequestFresh, NewcomerFresh
  <1>7. QED
    BY <1>1, <1>2, <1>4, <1>5, <1>6 DEF Next, AccountStep

LEMMA SoloStep ==
  ASSUME SoloInv, OneWorker, [Next]_vars
  PROVE  SoloInv' /\ [Lifecycle!Next]_(Lifecycle!vars)
  <1>1. IInv'
    BY Inductive DEF SoloInv
  <1>2. CASE UNCHANGED vars
    <2>1. UNCHANGED <<users, organizations, owner, task>>
      BY <1>2 DEF vars
    <2>2. TasksFresh'
      BY <2>1 DEF SoloInv, TasksFresh, Idle
    <2>3. QED
      BY <1>1, <2>1, <2>2, StillPlaced, NoStroke DEF SoloInv
  <1>3. ASSUME NEW w \in Workers, CommitStep(w)
        PROVE  SoloInv' /\ [Lifecycle!Next]_(Lifecycle!vars)
    <2>1. Run(w, NoTask) /\ TypeOK
      BY <1>3 DEF CommitStep, CommitInsert, CommitUpdate, CommitBootstrap, Finish,
                  SoloInv, IInv
    <2>2. TasksFresh'
      BY <2>1, FreshByRun
    <2>3. /\ CompaniesFounded' /\ ProfilesPlaced' /\ RejectedInactive'
          /\ [Lifecycle!Next]_(Lifecycle!vars)
      BY <1>3, InsertStroke, UpdateStroke, BootstrapStroke DEF CommitStep
    <2>4. QED
      BY <1>1, <2>2, <2>3 DEF SoloInv
  <1>4. CASE Next /\ \A w \in Workers : ~ CommitStep(w)
    <2>1. /\ UNCHANGED <<users, trail>> /\ TasksFresh'
          /\ CompaniesFounded' /\ ProfilesPlaced' /\ RejectedInactive'
      BY <1>4, QuietStep
    <2>2. QED
      BY <1>1, <2>1, NoStroke DEF SoloInv
  <1>5. QED
    BY <1>2, <1>3, <1>4

-----------------------------------------------------------------------------
(* The theorems *)

LEMMA SoloInit == Init => SoloInv /\ Lifecycle!Init
  <1> SUFFICES ASSUME Init PROVE SoloInv /\ Lifecycle!Init
    OBVIOUS
  <1>1. PICK legacy \in SUBSET Users :
            users = [u \in Users |-> IF u \in legacy THEN LegacyAdmin(u) ELSE NoRow]
    BY DEF Init
  <1>2. /\ organizations = [o \in Organizations |-> NoRow]
        /\ task = [w \in Workers |-> NoTask]
    BY DEF Init
  <1>3. ASSUME NEW u \in Users
        PROVE  /\ Exists(u) <=> u \in legacy
               /\ ~ Exists(u) => users[u] = NoRow
               /\ Exists(u) =>
                     /\ users[u] \in UserRow
                     /\ users[u].role = "ADMIN" /\ users[u].org = NoOrg
                     /\ users[u].approval = "approved"
                     /\ users[u].active /\ ~ users[u].archived
    <2>1. /\ LegacyAdmin(u) \in UserRow /\ LegacyAdmin(u).role = "ADMIN"
          /\ LegacyAdmin(u).org = NoOrg /\ LegacyAdmin(u).approval = "approved"
          /\ LegacyAdmin(u).active /\ ~ LegacyAdmin(u).archived
      BY LegacyAdminTyped DEF LegacyAdmin
    <2>2. QED
      BY <1>1, <2>1, SentinelAssumption DEF Exists
  <1>4. IInv
    <2>1. TypeOK
      BY InitTyped
    <2>2. TasksSound /\ AdminsSound
      BY <1>2, <1>3 DEF TasksSound, Idle, AdminsSound, Admins
    <2>3. QED
      BY <2>1, <2>2 DEF IInv
  <1>5. TasksFresh /\ CompaniesFounded /\ ProfilesPlaced /\ RejectedInactive
    BY <1>2, <1>3 DEF TasksFresh, Idle, CompaniesFounded, ProfilesPlaced,
                      RejectedInactive
  <1>6. Lifecycle!Init
    <2>1. \A u \in Users :
             /\ StageOf(users[u]) = IF u \in legacy THEN "active" ELSE "none"
             /\ HomeOf(users[u]) = NoOrg
      <3>1. \A u \in Users : Exists(u) => StageOf(users[u]) = "active"
        BY <1>3, Stages
      <3>2. QED
        BY <1>3, <3>1, Stages DEF HomeOf, Exists
    <2>2. Admins = legacy
      BY <1>3 DEF Admins
    <2>3. QED
      BY <2>1, <2>2 DEF Lifecycle!Init
  <1>7. QED
    BY <1>4, <1>5, <1>6 DEF SoloInv

\* Served by one worker, no request commits anything that it checked or loaded
\* and that is no longer so, every company has its founder and every profile
\* its company (the endpoints of users and organizations).
THEOREM OneWorkerInvariance ==
  ASSUME OneWorker
  PROVE  Spec => []SoloInv
  <1>1. SoloInv /\ [Next]_vars => SoloInv'
    BY OneWorker, SoloStep
  <1>2. QED
    BY <1>1, SoloInit, PTL DEF Spec

\* Served by one worker, the statements of the account endpoints add up to the
\* lifecycle of Membership: each commit is one decision of the active admin of
\* the person's own company, a newcomer's application, or a foundation.
THEOREM OneWorkerImplementsMembership ==
  ASSUME OneWorker
  PROVE  Spec => ImplementsMembership
  <1>1. SoloInv /\ [Next]_vars => [Lifecycle!Next]_(Lifecycle!vars)
    BY OneWorker, SoloStep
  <1>2. QED
    BY <1>1, SoloInit, OneWorkerInvariance, OneWorker, PTL
       DEF Spec, ImplementsMembership, Lifecycle!Spec, Lifecycle!vars

\* Served by one worker, no company is left without the profile that founded it
\* (bootstrap refuses an admin who has a company).
THEOREM FoundersAlwaysBelong ==
  ASSUME OneWorker
  PROVE  Spec => []FoundersBelong
  <1>1. SoloInv => FoundersBelong
    BY DEF SoloInv, CompaniesFounded, FoundersBelong
  <1>2. QED
    BY <1>1, OneWorkerInvariance, OneWorker, PTL

LEMMA AuditStep ==
  ASSUME SoloInv, OneWorker, AuditDescribesRows, [Next]_vars
  PROVE  AuditDescribesRows'
  <1>0. TypeOK
    BY DEF SoloInv, IInv
  <1>1. ASSUME NEW u \in Users, NEW row \in UserRow, NEW event \in Events, NEW active,
               users' = [users EXCEPT ![u] = row], Record(u, event, active),
               EventDescribes([event |-> event, active |-> active], row),
               row.archived => event = "archived"
        PROVE  AuditDescribesRows'
    <2>1. /\ users'[u] = row /\ row # NoRow
          /\ trail'[u] = [event |-> event, active |-> active]
          /\ \A v \in Users : v # u => users'[v] = users[v] /\ trail'[v] = trail[v]
      BY <1>0, <1>1, SentinelAssumption DEF TypeOK, Record
    <2>2. ASSUME NEW v \in Users
          PROVE  /\ users'[v] # NoRow =>
                        /\ EventDescribes(trail'[v], users'[v])
                        /\ users'[v].archived => trail'[v].event = "archived"
                 /\ users'[v] = NoRow => trail'[v].event = "none"
      BY <1>1, <2>1 DEF AuditDescribesRows, Exists
    <2>3. QED
      BY <2>2 DEF AuditDescribesRows, Exists, EventDescribes
  <1>2. ASSUME NEW w \in Workers, CommitInsert(w) PROVE AuditDescribesRows'
    <2> DEFINE t == task[w]
               event == IF t.op = "signup" THEN "signup_requested" ELSE "created"
    <2>1. /\ t.op \in {"signup", "create"} /\ InsertFresh(organizations, t)
          /\ t.target \in Users /\ t.write \in UserRow
          /\ users' = [users EXCEPT ![t.target] = t.write]
      BY <1>2, FreshInsert
    <2>2. Record(t.target, event, FALSE)
      BY <1>2 DEF CommitInsert
    <2>3. EventDescribes([event |-> event, active |-> FALSE], t.write)
      BY <2>1 DEF EventDescribes, InsertFresh
    <2>4. ~ t.write.archived /\ event \in Events
      BY <2>1 DEF InsertFresh, Events
    <2> HIDE DEF event, t
    <2>5. QED
      BY <1>1, <2>1, <2>2, <2>3, <2>4
  <1>3. ASSUME NEW w \in Workers, NEW o \in Organizations, CommitBootstrap(w, o)
        PROVE  AuditDescribesRows'
    <2> DEFINE a == task[w].actor
               row == users'[a]
    <2>1. /\ a \in Users /\ task[w].target = a /\ users' = [users EXCEPT ![a] = row]
          /\ row \in UserRow /\ row.approval = "approved" /\ row.active
          /\ ~ row.archived
      BY <1>3, FreshBootstrap
    <2>2. Record(a, "bootstrapped", FALSE)
      BY <1>3, <2>1 DEF CommitBootstrap
    <2>3. EventDescribes([event |-> "bootstrapped", active |-> FALSE], row)
          /\ "bootstrapped" \in Events
      BY <2>1 DEF EventDescribes, Events
    <2> HIDE DEF a, row
    <2>4. QED
      BY <1>1, <2>1, <2>2, <2>3
  <1>4. ASSUME NEW w \in Workers, CommitUpdate(w) PROVE AuditDescribesRows'
    <2> DEFINE t == task[w]
               u == t.target
               row == users'[u]
    <2>1. /\ TaskSound(users, organizations, t) /\ t.op \in Updates
          /\ TaskFresh(users, organizations, owner, t)
          /\ t \in Task /\ UpdateFresh(users, owner, t)
          /\ u \in Users /\ Exists(u) /\ t.read = users[u] /\ t.read \in UserRow
          /\ row \in UserRow /\ users' = [users EXCEPT ![u] = row]
          /\ row.org = users[u].org
          /\ row.approval = t.write.approval /\ row.active = t.write.active
          /\ row.archived = t.write.archived
          /\ RecordUpdate(t)
      BY <1>4, FreshUpdate DEF CommitUpdate
    <2>2. ASSUME NEW event \in Events, NEW active, Record(u, event, active),
                 EventDescribes([event |-> event, active |-> active], row),
                 row.archived => event = "archived"
          PROVE  AuditDescribesRows'
      <3> HIDE DEF row, u
      <3>1. QED
        BY <1>1, <2>1, <2>2
    <2>3. CASE t.op = "verify"
      <3>1. /\ row.approval \in {"approved", "rejected"} /\ ~ row.archived
            /\ row.active = (row.approval = "approved")
            /\ Record(u, row.approval, FALSE)
        BY <2>1, <2>3 DEF TaskSound, UpdateFresh, RecordUpdate
      <3> HIDE DEF row, u
      <3>2. EventDescribes([event |-> row.approval, active |-> FALSE], row)
            /\ row.approval \in Events
        BY <3>1 DEF EventDescribes, Events
      <3>3. QED
        BY <2>2, <3>1, <3>2
    <2>4. CASE t.op = "access"
      <3>1. /\ row.approval = "approved" /\ ~ row.archived
            /\ Record(u, "access_updated", row.active)
        BY <2>1, <2>4 DEF TaskSound, UpdateFresh, RecordUpdate
      <3> HIDE DEF row, u
      <3>2. EventDescribes([event |-> "access_updated", active |-> row.active], row)
            /\ "access_updated" \in Events
        BY <3>1 DEF EventDescribes, Events
      <3>3. QED
        BY <2>2, <3>1, <3>2
    <2>5. CASE t.op = "archive"
      <3>1. /\ row.archived /\ ~ row.active /\ Record(u, "archived", FALSE)
        BY <2>1, <2>5 DEF UpdateFresh, RecordUpdate
      <3> HIDE DEF row, u
      <3>2. EventDescribes([event |-> "archived", active |-> FALSE], row)
            /\ "archived" \in Events
        BY <3>1 DEF EventDescribes, Events
      <3>3. QED
        BY <2>2, <3>1, <3>2
    <2>6. CASE t.op = "update"
      <3>1. /\ row.approval = users[u].approval /\ row.active = users[u].active
            /\ ~ row.archived /\ ~ users[u].archived /\ UNCHANGED trail
        BY <2>1, <2>6 DEF TaskSound, UserRow, RecordUpdate
      <3>2. users[u].org # NoOrg
        BY <2>1, <2>6, AdminInCharge, SentinelAssumption DEF UpdateFresh
      <3>3. row # NoRow /\ users'[u] = row
            /\ \A v \in Users : v # u => users'[v] = users[v]
        BY <1>0, <2>1, SentinelAssumption DEF TypeOK
      <3>4. EventDescribes(trail[u], users[u])
            /\ trail[u].event \in Events
        BY <1>0, <2>1 DEF AuditDescribesRows, TypeOK
      <3>5. trail[u].event \notin {"none", "archived"}
        BY <1>0, <2>1, <3>1, <3>2, <3>4 DEF EventDescribes
      <3>6. EventDescribes(trail[u], row)
        BY <3>1, <3>4, <3>5 DEF EventDescribes, Events
      <3> HIDE DEF row, u
      <3>7. QED
        BY <2>1, <3>1, <3>3, <3>6 DEF AuditDescribesRows, Exists
    <2>7. QED
      BY <2>1, <2>3, <2>4, <2>5, <2>6 DEF Updates
  <1>5. CASE UNCHANGED <<users, trail>>
    BY <1>5 DEF AuditDescribesRows, Exists
  <1>6. QED
    BY <1>2, <1>3, <1>4, <1>5, QuietStep DEF CommitStep, vars

\* Served by one worker, the last event on a user's status in the append-only
\* trail always describes the profile (record in every account endpoint).
THEOREM AuditAlwaysDescribes ==
  ASSUME OneWorker
  PROVE  Spec => []AuditDescribesRows
  <1>1. Init => AuditDescribesRows
    <2> SUFFICES ASSUME Init PROVE AuditDescribesRows
      OBVIOUS
    <2>1. ASSUME NEW u \in Users, Exists(u)
          PROVE  users[u].role = "ADMIN" /\ users[u].org = NoOrg /\ ~ users[u].archived
      BY <2>1 DEF Init, Exists, LegacyAdmin
    <2>2. \A u \in Users : trail[u].event = "none"
      BY DEF Init
    <2>3. QED
      BY <2>1, <2>2 DEF AuditDescribesRows, EventDescribes
  <1>2. SoloInv /\ AuditDescribesRows /\ [Next]_vars => AuditDescribesRows'
    BY OneWorker, AuditStep
  <1>3. QED
    BY <1>1, <1>2, OneWorkerInvariance, OneWorker, PTL DEF Spec

LEMMA OwnersStep ==
  ASSUME SoloInv, OneWorker, ArchivedOwnNoClient, [Next]_vars
  PROVE  ArchivedOwnNoClient'
  <1>0. TypeOK
    BY DEF SoloInv, IInv
  <1>1. ASSUME NEW w \in Workers, ClientStep(w) PROVE ArchivedOwnNoClient'
    <2>1. CASE \E c \in Clients : ArchiveClient(w, c)
      BY <1>0, <2>1 DEF ArchiveClient, ArchivedOwnNoClient, TypeOK
    <2>2. CASE \E c \in Clients, u \in Users : AssignClient(w, c, u)
      BY <1>0, <2>2 DEF AssignClient, Assignable, Visible, ArchivedOwnNoClient, TypeOK
    <2>3. QED
      BY <1>1, <2>1, <2>2 DEF ClientStep
  <1>2. ASSUME NEW u \in Users, NEW row \in UserRow, UNCHANGED owner,
               users' = [users EXCEPT ![u] = row],
               row.archived => \A c \in Clients : owner[c] # u
        PROVE  ArchivedOwnNoClient'
    BY <1>0, <1>2 DEF ArchivedOwnNoClient, TypeOK
  <1>3. ASSUME NEW w \in Workers, CommitInsert(w) PROVE ArchivedOwnNoClient'
    <2> DEFINE u == task[w].target
               row == task[w].write
    <2>1. /\ u \in Users /\ row \in UserRow /\ ~ row.archived
          /\ users' = [users EXCEPT ![u] = row] /\ UNCHANGED owner
      BY <1>3, FreshInsert DEF InsertFresh
    <2> HIDE DEF u, row
    <2>2. QED
      BY <1>2, <2>1
  <1>4. ASSUME NEW w \in Workers, NEW o \in Organizations, CommitBootstrap(w, o)
        PROVE  ArchivedOwnNoClient'
    <2> DEFINE u == task[w].actor
               row == users'[u]
    <2>1. /\ u \in Users /\ row \in UserRow /\ ~ row.archived
          /\ users' = [users EXCEPT ![u] = row] /\ UNCHANGED owner
      BY <1>4, FreshBootstrap
    <2> HIDE DEF u, row
    <2>2. QED
      BY <1>2, <2>1
  <1>5. ASSUME NEW w \in Workers, CommitUpdate(w) PROVE ArchivedOwnNoClient'
    <2> DEFINE t == task[w]
               u == t.target
               row == users'[u]
    <2>1. /\ TaskSound(users, organizations, t) /\ t.op \in Updates
          /\ UpdateFresh(users, owner, t) /\ t.pc = "commit"
          /\ u \in Users /\ row \in UserRow /\ row.archived = t.write.archived
          /\ users' = [users EXCEPT ![u] = row] /\ UNCHANGED owner
      BY <1>5, FreshUpdate
    <2>2. row.archived => t.op = "archive"
      BY <2>1 DEF TaskSound
    <2>3. row.archived => \A c \in Clients : owner[c] # u
      BY <2>1, <2>2 DEF UpdateFresh
    <2> HIDE DEF u, row
    <2>4. QED
      BY <1>2, <2>1, <2>3
  <1>6. CASE UNCHANGED <<users, owner>>
    BY <1>6 DEF ArchivedOwnNoClient
  <1>7. ASSUME Next, \A w \in Workers : ~ CommitStep(w) /\ ~ ClientStep(w)
        PROVE  UNCHANGED <<users, owner>>
    <2>1. UNCHANGED users
      BY <1>7, QuietStep
    <2>2. OperatorStep => UNCHANGED owner
      BY DEF OperatorStep, OperatorSetsActive
    <2>3. ASSUME NEW w \in Workers, AdminStep(w) \/ NewcomerStep(w) \/ RollBack(w)
          PROVE  UNCHANGED owner
      BY <2>3 DEF AdminStep, Authenticate, CreateUser, UpdateUser, VerifyUser,
                  UpdateAccess, DeleteUser, CountAssignedClients, Load,
                  ParkForOrganizationService, RotateJoinCode, NewcomerStep,
                  RequestSignup, SubmitSignup, Bootstrap, SubmitBootstrap, RollBack
    <2>4. QED
      BY <1>7, <2>1, <2>2, <2>3 DEF Next, AccountStep
  <1>8. QED
    BY <1>1, <1>3, <1>4, <1>5, <1>6, <1>7 DEF CommitStep, vars

\* Served by one worker, an archived user owns no client: nobody can be given
\* one between the count of delete_user and its commit.
THEOREM ArchivedNeverOwn ==
  ASSUME OneWorker
  PROVE  Spec => []ArchivedOwnNoClient
  <1>1. Init => ArchivedOwnNoClient
    BY DEF Init, ArchivedOwnNoClient
  <1>2. SoloInv /\ ArchivedOwnNoClient /\ [Next]_vars => ArchivedOwnNoClient'
    BY OneWorker, OwnersStep
  <1>3. QED
    BY <1>1, <1>2, OneWorkerInvariance, OneWorker, PTL DEF Spec

\* Served by one worker, a signup is admitted by the join code that is current
\* when it commits (request_signup and rotate_join_code).
THEOREM RotatedCodesNeverAdmit ==
  ASSUME OneWorker
  PROVE  Spec => RotatedCodesAdmitNobody
  <1>1. ASSUME SoloInv, [Next]_vars, NEW w \in Workers,
               task[w] # NoTask, task[w].op = "signup", users' # users
        PROVE  organizations[task[w].org].rotations = task[w].code
    <2>1. CommitStep(w)
      BY <1>1, QuietStep, OneWorker DEF OneWorker, vars
    <2>2. CommitInsert(w)
      BY <1>1, <2>1 DEF CommitStep, CommitUpdate, CommitBootstrap
    <2>3. QED
      BY <1>1, <2>2, FreshInsert DEF InsertFresh
  <1>2. SoloInv /\ [Next]_vars =>
          [\A w \in Workers :
              task[w] # NoTask /\ task[w].op = "signup" /\ users' # users
              /\ users'[task[w].target] # users[task[w].target]
                  => organizations[task[w].org].rotations = task[w].code]_vars
    BY <1>1
  <1>3. QED
    BY <1>2, OneWorkerInvariance, OneWorker, PTL DEF Spec, RotatedCodesAdmitNobody
=============================================================================
