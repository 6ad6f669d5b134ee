--------------------------- MODULE AccountsProofs ---------------------------
(***************************************************************************)
(* Theorems about Accounts, for every number of users, organizations and   *)
(* workers.                                                                *)
(***************************************************************************)
EXTENDS Accounts, TLAPS

-----------------------------------------------------------------------------
(* The model's steps are typed *)

LEMMA LegacyAdminTyped ==
  ASSUME NEW u \in Users
  PROVE  LegacyAdmin(u) \in UserRow
  BY DEF LegacyAdmin, UserRow, Roles, Approvals

LEMMA InitTyped == Init => TypeOK
  <1> SUFFICES ASSUME Init PROVE TypeOK
    OBVIOUS
  <1>1. PICK legacy \in SUBSET Users :
            users = [u \in Users |-> IF u \in legacy THEN LegacyAdmin(u) ELSE NoRow]
    BY DEF Init
  <1>2. \A u \in Users : LegacyAdmin(u) \in UserRow
    BY LegacyAdminTyped
  <1>3. users \in [Users -> UserRow \cup {NoRow}]
    BY <1>1, <1>2
  <1>4. QED
    BY <1>3 DEF Init, TypeOK, Events

\* What Merge writes is a row, and it writes nothing to the phone.
LEMMA MergeTyped ==
  ASSUME NEW read \in UserRow, NEW write \in UserRow, NEW row \in UserRow
  PROVE  /\ Merge(read, write, row) \in UserRow
         /\ Merge(read, write, row).phone = row.phone
  BY DEF Merge, Column, UserRow

\* A step that only moves the task of w keeps the types if the new task is typed.
LEMMA RunTyped ==
  ASSUME TypeOK, NEW w \in Workers, NEW t \in Task \cup {NoTask}, Run(w, t),
         UNCHANGED <<users, organizations, owner, trail>>,
         parked' \subseteq [actor: Users, org: Organizations \cup {NoOrg}]
  PROVE  TypeOK'
  BY DEF TypeOK, Run

LEMMA AdminStepTyped ==
  ASSUME TypeOK, NEW w \in Workers, AdminStep(w)
  PROVE  TypeOK'
  <1> USE DEF Idle
  <1>0. users \in [Users -> UserRow \cup {NoRow}] /\ task[w] \in Task \cup {NoTask}
        /\ parked \subseteq [actor: Users, org: Organizations \cup {NoOrg}]
    BY DEF TypeOK
  <1>1. ASSUME NEW a \in Users, Authenticate(w, a) PROVE TypeOK'
    <2>1. users[a] \in UserRow
      BY <1>0, <1>1 DEF Authenticate, SignedIn, Visible, Exists
    <2> DEFINE t == [pc |-> "authorised", op |-> "none", actor |-> a,
                     org |-> users[a].org, target |-> a, code |-> 0,
                     read |-> NoRow, write |-> NoRow]
    <2>2. t \in Task
      BY <2>1, BoundsAssumption DEF Task, UserRow, Operations
    <2>3. Run(w, t) /\ UNCHANGED <<users, organizations, owner, parked, trail>>
      BY <1>1 DEF Authenticate
    <2>4. QED
      BY <2>2, <2>3, <1>0, RunTyped
  <1>2. ASSUME NEW u \in Users, NEW p \in Users, NEW r \in Roles \ {"ADMIN"},
               NEW sd \in BOOLEAN, NEW d \in Approvals,
               CreateUser(w, u, p, r, sd, d)
        PROVE  TypeOK'
    <2> DEFINE row == [role |-> r, org |-> task[w].org, phone |-> p,
                       approval |-> IF sd THEN d ELSE "pending",
                       active |-> (sd => d = "approved"), archived |-> FALSE]
               t == [task[w] EXCEPT !.pc = "commit", !.op = "create",
                                    !.target = u, !.write = row]
    <2>1. task[w] \in Task
      BY <1>0, <1>2 DEF CreateUser
    <2>2. (sd => d = "approved") \in BOOLEAN /\ (IF sd THEN d ELSE "pending") \in Approvals
      BY DEF Approvals
    <2>3. row \in UserRow
      BY <2>1, <2>2 DEF UserRow, Task
    <2>4. t \in Task
      BY <2>1, <2>3 DEF Task, Operations
    <2>5. Run(w, t) /\ UNCHANGED <<users, organizations, owner, parked, trail>>
      BY <1>2 DEF CreateUser
    <2>6. QED
      BY <2>4, <2>5, <1>0, RunTyped
  <1>3. ASSUME NEW u \in Users, NEW op \in Operations, NEW pc \in {"count", "commit"},
               NEW row \in UserRow, ~ Idle(w), Visible(u), Load(w, u, op, pc, row)
        PROVE  TypeOK'
    <2> DEFINE t == [task[w] EXCEPT !.pc = pc, !.op = op, !.target = u,
                                    !.read = users[u], !.write = row]
    <2>1. t \in Task
      BY <1>0, <1>3 DEF Task, Operations
    <2>2. QED
      BY <1>3, <2>1, <1>0, RunTyped DEF Load
  <1>4. ASSUME NEW u \in Users, NEW r \in Roles \ {"ADMIN"}, UpdateUser(w, u, r)
        PROVE  TypeOK'
    BY <1>0, <1>3, <1>4 DEF UpdateUser, Found, Visible, Exists, UserRow, Operations
  <1>5. ASSUME NEW u \in Users, NEW d \in {"approved", "rejected"}, VerifyUser(w, u, d)
        PROVE  TypeOK'
    <2>1. (d = "approved") \in BOOLEAN
      OBVIOUS
    <2>2. [users[u] EXCEPT !.approval = d, !.active = (d = "approved")] \in UserRow
      BY <1>0, <1>5, <2>1 DEF VerifyUser, Found, Visible, Exists, UserRow, Approvals
    <2>3. QED
      BY <1>3, <1>5, <2>2 DEF VerifyUser, Found, Operations
  <1>6. ASSUME NEW u \in Users, NEW sr \in BOOLEAN, NEW sa \in BOOLEAN,
               NEW b \in BOOLEAN, NEW r \in Roles \ {"ADMIN"},
               UpdateAccess(w, u, sr, r, sa, b)
        PROVE  TypeOK'
    <2>1. [users[u] EXCEPT !.role = IF sr THEN r ELSE @,
                           !.active = IF sa THEN b ELSE @] \in UserRow
      BY <1>0, <1>6 DEF UpdateAccess, Granted, Found, Visible, Exists, UserRow
    <2>2. QED
      BY <1>3, <1>6, <2>1 DEF UpdateAccess, Granted, Found, Operations
  <1>7. ASSUME NEW u \in Users, DeleteUser(w, u) PROVE TypeOK'
    <2>1. [users[u] EXCEPT !.active = FALSE, !.approval = "rejected",
                           !.archived = TRUE] \in UserRow
      BY <1>0, <1>7 DEF DeleteUser, Found, Visible, Exists, UserRow, Approvals
    <2>2. QED
      BY <1>3, <1>7, <2>1 DEF DeleteUser, Found, Operations
  <1>8. ASSUME CountAssignedClients(w) PROVE TypeOK'
    <2>1. [task[w] EXCEPT !.pc = "commit"] \in Task
      BY <1>0, <1>8 DEF CountAssignedClients, Task
    <2>2. QED
      BY <1>0, <1>8, <2>1, RunTyped DEF CountAssignedClients
  <1>9. ASSUME ParkForOrganizationService(w) PROVE TypeOK'
    <2>1. task[w] \in Task
      BY <1>0, <1>9 DEF ParkForOrganizationService
    <2>2. parked' \subseteq [actor: Users, org: Organizations \cup {NoOrg}]
      BY <1>0, <1>9, <2>1 DEF ParkForOrganizationService, Task
    <2>3. QED
      BY <1>9, <2>2, RunTyped DEF ParkForOrganizationService, Finish
  <1>10. ASSUME NEW p \in parked, RotateJoinCode(w, p) PROVE TypeOK'
    <2>1. CASE p.org \in Organizations
      <3>1. organizations[p.org] \in OrganizationRow
        BY <1>10, <2>1 DEF RotateJoinCode, TypeOK
      <3>2. organizations[p.org].rotations + 1 \in 0..MaxRotations
        BY <1>10, <3>1, BoundsAssumption DEF RotateJoinCode, OrganizationRow
      <3>3. organizations' \in [Organizations -> OrganizationRow \cup {NoRow}]
        BY <1>10, <2>1, <3>1, <3>2 DEF RotateJoinCode, TypeOK, OrganizationRow
      <3>4. QED
        BY <1>10, <3>3 DEF RotateJoinCode, TypeOK
    <2>2. CASE p.org \notin Organizations
      BY <1>10, <2>2 DEF RotateJoinCode, TypeOK
    <2>3. QED
      BY <2>1, <2>2
  <1>11. QED
    BY <1>1, <1>2, <1>4, <1>5, <1>6, <1>7, <1>8, <1>9, <1>10 DEF AdminStep

LEMMA NewcomerStepTyped ==
  ASSUME TypeOK, NEW w \in Workers, NewcomerStep(w)
  PROVE  TypeOK'
  <1>0. users \in [Users -> UserRow \cup {NoRow}]
        /\ parked \subseteq [actor: Users, org: Organizations \cup {NoOrg}]
    BY DEF TypeOK
  <1>1. ASSUME NEW u \in Users, NEW o \in Organizations,
               NEW n \in 0..MaxRotations, NEW r \in Roles \ {"ADMIN"},
               RequestSignup(w, u, o, n, r)
        PROVE  TypeOK'
    <2> DEFINE row == [role |-> r, org |-> o, phone |-> u, approval |-> "pending",
                       active |-> FALSE, archived |-> FALSE]
               t == [pc |-> "commit", op |-> "signup", actor |-> u, org |-> o,
                     target |-> u, code |-> n, read |-> NoRow, write |-> row]
    <2>1. row \in UserRow
      BY DEF UserRow, Approvals
    <2>2. t \in Task
      BY <2>1 DEF Task, Operations
    <2>3. QED
      BY <1>0, <1>1, <2>2, RunTyped DEF RequestSignup, SubmitSignup
  <1>2. ASSUME NEW u \in Users, Bootstrap(w, u) PROVE TypeOK'
    <2> DEFINE t == [pc |-> "commit", op |-> "bootstrap", actor |-> u, org |-> NoOrg,
                     target |-> u, code |-> 0,
                     read |-> IF Visible(u) THEN users[u] ELSE NoRow,
                     write |-> IF Visible(u) THEN users[u] ELSE LegacyAdmin(u)]
    <2>1. LegacyAdmin(u) \in UserRow
      BY LegacyAdminTyped
    <2>2. Visible(u) => users[u] \in UserRow
      BY <1>0 DEF Visible, Exists
    <2>3. t \in Task
      BY <2>1, <2>2, BoundsAssumption DEF Task, Operations
    <2>4. QED
      BY <1>0, <1>2, <2>3, RunTyped DEF Bootstrap, SubmitBootstrap
  <1>3. QED
    BY <1>1, <1>2 DEF NewcomerStep

\* Commits write rows where rows are expected: tasks are sound.
LEMMA CommitStepTyped ==
  ASSUME TypeOK, TasksSound, NEW w \in Workers, CommitStep(w)
  PROVE  TypeOK'
  <1>0. task[w] # NoTask /\ task[w] \in Task /\ TaskSound(users, organizations, task[w])
    BY DEF TypeOK, TasksSound, CommitStep, CommitInsert, CommitUpdate, CommitBootstrap, Idle
  <1>1. ASSUME NEW u \in Users, NEW e \in Events, NEW b \in BOOLEAN, Record(u, e, b)
        PROVE  trail' \in [Users -> [event: Events, active: BOOLEAN]]
    BY <1>1 DEF Record, TypeOK
  <1>2. task[w].target \in Users /\ task[w].read \in UserRow \cup {NoRow}
        /\ task[w].write \in UserRow \cup {NoRow}
    BY <1>0 DEF Task
  <1>3. Finish(w) => task' \in [Workers -> Task \cup {NoTask}]
    BY DEF Finish, Run, TypeOK
  <1>4. CASE CommitInsert(w)
    <2>1. task[w].write \in UserRow
      BY <1>0, <1>2, <1>4 DEF CommitInsert, TaskSound
    <2>2. users' \in [Users -> UserRow \cup {NoRow}]
      BY <1>2, <1>4, <2>1 DEF CommitInsert, Insert, TypeOK
    <2>3. trail' \in [Users -> [event: Events, active: BOOLEAN]]
      BY <1>1, <1>2, <1>4 DEF CommitInsert, Events
    <2>4. QED
      BY <1>3, <1>4, <2>2, <2>3 DEF CommitInsert, TypeOK
  <1>5. CASE CommitUpdate(w)
    <2> DEFINE t == task[w]
    <2>1. t.op \in Updates /\ t.target \in Users
      BY <1>2, <1>5 DEF CommitUpdate, Updates
    <2>2. users[t.target] \in UserRow /\ t.read \in UserRow /\ t.write \in UserRow
      BY <1>0, <1>2, <2>1 DEF TaskSound, TypeOK
    <2>3. users' \in [Users -> UserRow \cup {NoRow}]
      <3>1. Merge(t.read, t.write, users[t.target]) \in UserRow
        BY <2>2, MergeTyped
      <3>2. QED
        BY <1>5, <2>1, <3>1 DEF CommitUpdate, TypeOK
    <2>4. trail' \in [Users -> [event: Events, active: BOOLEAN]]
      <3>1. t.write.active \in BOOLEAN
        BY <2>2 DEF UserRow
      <3>2. t.op = "verify" => t.write.approval \in Events
        BY <1>0, <2>1 DEF TaskSound, Events
      <3>3. RecordUpdate(t)
        BY <1>5 DEF CommitUpdate
      <3>4. CASE t.op = "verify"
        BY <1>1, <2>1, <3>2, <3>3, <3>4 DEF RecordUpdate
      <3>5. CASE t.op = "access"
        BY <1>1, <2>1, <3>1, <3>3, <3>5 DEF RecordUpdate, Events
      <3>6. CASE t.op = "archive"
        BY <1>1, <2>1, <3>3, <3>6 DEF RecordUpdate, Events
      <3>7. CASE t.op = "update"
        BY <3>3, <3>7 DEF RecordUpdate, TypeOK
      <3>8. QED
        BY <2>1, <3>4, <3>5, <3>6, <3>7 DEF Updates
    <2>5. QED
      BY <1>3, <1>5, <2>3, <2>4 DEF CommitUpdate, TypeOK
  <1>6. ASSUME NEW o \in Organizations, CommitBootstrap(w, o) PROVE TypeOK'
    <2> DEFINE t == task[w]
               admin == [t.write EXCEPT !.org = o]
    <2>1. t.write \in UserRow /\ t.actor \in Users /\ t.target = t.actor
      <3>1. t.op = "bootstrap" /\ t.actor \in Users
        BY <1>0, <1>6 DEF CommitBootstrap, Task
      <3>2. LegacyAdmin(t.actor) \in UserRow
        BY <3>1, LegacyAdminTyped
      <3>3. t.write \in UserRow
        BY <1>0, <1>2, <3>1, <3>2, SentinelAssumption DEF TaskSound
      <3>4. QED
        BY <1>0, <3>1, <3>3 DEF TaskSound
    <2>2. admin \in UserRow
      BY <2>1 DEF UserRow
    <2>3. users' \in [Users -> UserRow \cup {NoRow}]
      <3>1. CASE t.read = NoRow
        BY <1>6, <2>1, <2>2, <3>1 DEF CommitBootstrap, Insert, TypeOK
      <3>2. CASE t.read # NoRow
        <4>1. t.read \in UserRow /\ users[t.target] \in UserRow
          BY <1>0, <1>2, <1>6, <2>1, <3>2 DEF CommitBootstrap, TaskSound, TypeOK
        <4>2. Merge(t.read, admin, users[t.target]) \in UserRow
          BY <2>2, <4>1, MergeTyped
        <4>3. QED
          BY <1>6, <2>1, <3>2, <4>2 DEF CommitBootstrap, TypeOK
      <3>3. QED
        BY <3>1, <3>2
    <2>4. organizations' \in [Organizations -> OrganizationRow \cup {NoRow}]
      BY <1>6, <2>1, BoundsAssumption DEF CommitBootstrap, TypeOK, OrganizationRow
    <2>5. trail' \in [Users -> [event: Events, active: BOOLEAN]]
      BY <1>1, <1>2, <1>6 DEF CommitBootstrap, Events
    <2>6. QED
      BY <1>3, <1>6, <2>3, <2>4, <2>5 DEF CommitBootstrap, TypeOK
  <1>7. QED
    BY <1>4, <1>5, <1>6 DEF CommitStep

LEMMA NextTyped ==
  ASSUME TypeOK, TasksSound, [Next]_vars
  PROVE  TypeOK'
  <1>1. CASE UNCHANGED vars
    BY <1>1 DEF vars, TypeOK
  <1>2. CASE OperatorStep
    <2>1. PICK o \in Suspendable, b \in BOOLEAN : OperatorSetsActive(o, b)
      BY <1>2 DEF OperatorStep
    <2>2. o \in Organizations /\ organizations[o] \in OrganizationRow
      BY <2>1, BoundsAssumption DEF OperatorSetsActive, TypeOK
    <2>3. organizations' \in [Organizations -> OrganizationRow \cup {NoRow}]
      BY <2>1, <2>2 DEF OperatorSetsActive, TypeOK, OrganizationRow
    <2>4. QED
      BY <2>1, <2>3 DEF OperatorSetsActive, TypeOK
  <1>3. ASSUME NEW w \in Workers, RollBack(w) PROVE TypeOK'
    BY <1>3, RunTyped DEF RollBack, Finish, TypeOK
  <1>4. ASSUME NEW w \in Workers, ClientStep(w) PROVE TypeOK'
    BY <1>4 DEF ClientStep, ArchiveClient, AssignClient, TypeOK
  <1>5. QED
    BY <1>1, <1>2, <1>3, <1>4, AdminStepTyped, NewcomerStepTyped, CommitStepTyped
       DEF Next, AccountStep

-----------------------------------------------------------------------------
(* What no commit undoes *)

\* A profile never vanishes, never acquires the ADMIN role once it exists, and
\* the founder of an organization never changes.
Grows ==
    /\ \A u \in Users : Exists(u) => users'[u] # NoRow
    /\ \A u \in Users : Exists(u) /\ users[u].role # "ADMIN"
                            => users'[u].role # "ADMIN"
    /\ \A o \in Organizations, a \in Users :
           Chartered(organizations, o, a) => Chartered(organizations', o, a)

\* The profile that a commit merges into stays as it was in the columns that
\* the request did not set.
LEMMA MergeKeeps ==
  ASSUME NEW read, NEW write, NEW row
  PROVE  LET m == Merge(read, write, row)
         IN  /\ write.role = read.role => m.role = row.role
             /\ write.role # read.role => m.role = write.role
             /\ write.org = read.org => m.org = row.org
             /\ write.org # read.org => m.org = write.org
             /\ write.approval = read.approval => m.approval = row.approval
             /\ write.active = read.active => m.active = row.active
             /\ write.active # read.active => m.active = write.active
             /\ write.archived = read.archived => m.archived = row.archived
             /\ write.archived # read.archived => m.archived = write.archived
             /\ m.phone = row.phone
  BY DEF Merge, Column

\* What a commit of an update leaves in the row of its target
LEMMA UpdateWrites ==
  ASSUME TypeOK, TasksSound, NEW w \in Workers, CommitUpdate(w)
  PROVE  LET t == task[w]
         IN  /\ t \in Task /\ TaskSound(users, organizations, t)
             /\ t.op \in Updates /\ t.target \in Users
             /\ t.read \in UserRow /\ t.write \in UserRow
             /\ Exists(t.target)
             /\ users' = [users EXCEPT ![t.target] =
                              Merge(t.read, t.write, users[t.target])]
             /\ Merge(t.read, t.write, users[t.target]) \in UserRow
             /\ UNCHANGED organizations /\ Finish(w)
  <1> DEFINE t == task[w]
  <1>1. t \in Task /\ TaskSound(users, organizations, t) /\ t.op \in Updates
    BY DEF TypeOK, TasksSound, CommitUpdate, Idle, Updates
  <1>2. t.target \in Users /\ t.read \in UserRow \cup {NoRow}
        /\ t.write \in UserRow \cup {NoRow}
    BY <1>1 DEF Task
  <1>3. t.read \in UserRow /\ t.write \in UserRow /\ Exists(t.target)
    BY <1>1, <1>2 DEF TaskSound, Exists
  <1>4. Merge(t.read, t.write, users[t.target]) \in UserRow
    BY <1>2, <1>3, MergeTyped DEF TypeOK, Exists
  <1>5. QED
    BY <1>1, <1>2, <1>3, <1>4 DEF CommitUpdate

\* What a bootstrap leaves in the tables
LEMMA BootstrapWrites ==
  ASSUME TypeOK, TasksSound, NEW w \in Workers, NEW o \in Organizations,
         CommitBootstrap(w, o)
  PROVE  LET t == task[w]
             row == users'[t.actor]
         IN  /\ t.actor \in Users
             /\ organizations[o] = NoRow
             /\ organizations' = [organizations EXCEPT
                    ![o] = [founder |-> t.actor, active |-> TRUE, rotations |-> 0]]
             /\ users' = [users EXCEPT ![t.actor] = row]
             /\ row \in UserRow
             /\ \/ /\ ~ Exists(t.actor) /\ ~ PhoneTaken(t.actor)
                   /\ row = [LegacyAdmin(t.actor) EXCEPT !.org = o]
                \/ /\ Exists(t.actor)
                   /\ row \in {users[t.actor], [users[t.actor] EXCEPT !.org = o]}
             /\ Finish(w)
  <1> DEFINE t == task[w]
             admin == [t.write EXCEPT !.org = o]
  <1>1. t \in Task /\ TaskSound(users, organizations, t) /\ t.op = "bootstrap"
    BY DEF TypeOK, TasksSound, CommitBootstrap, Idle
  <1>2. t.actor \in Users /\ t.target = t.actor /\ t.read \in UserRow \cup {NoRow}
        /\ LegacyAdmin(t.actor) \in UserRow
    BY <1>1, LegacyAdminTyped DEF Task, TaskSound
  <1>3. CASE t.read = NoRow
    <2>1. t.write = LegacyAdmin(t.actor)
      BY <1>1, <1>3 DEF TaskSound
    <2>2. admin \in UserRow
      BY <1>2, <2>1 DEF UserRow
    <2>3. /\ ~ Exists(t.actor) /\ ~ PhoneTaken(admin.phone)
          /\ users' = [users EXCEPT ![t.actor] = admin]
      BY <1>2, <1>3 DEF CommitBootstrap, Insert
    <2>4. users'[t.actor] = admin
      BY <1>2, <2>3 DEF TypeOK
    <2>5. admin.phone = t.actor
      BY <2>1 DEF LegacyAdmin
    <2>6. QED
      BY <1>2, <2>1, <2>2, <2>3, <2>4, <2>5 DEF CommitBootstrap
  <1>4. CASE t.read # NoRow
    <2>1. t.write = t.read /\ t.read \in UserRow /\ Exists(t.actor)
      BY <1>1, <1>2, <1>4 DEF TaskSound, Exists
    <2> DEFINE row == users[t.actor]
               merged == Merge(t.read, admin, row)
    <2>2. row \in UserRow
      BY <1>2, <2>1 DEF TypeOK, Exists
    <2>3. users' = [users EXCEPT ![t.actor] = merged]
      BY <1>2, <1>4 DEF CommitBootstrap
    <2>4. merged \in {row, [row EXCEPT !.org = o]} /\ merged \in UserRow
      BY <2>1, <2>2 DEF Merge, Column, UserRow
    <2>5. users'[t.actor] = merged
      BY <1>2, <2>3 DEF TypeOK
    <2>6. QED
      BY <1>2, <2>1, <2>3, <2>4, <2>5 DEF CommitBootstrap
  <1>5. QED
    BY <1>3, <1>4

\* What a commit of an INSERT leaves in the table
LEMMA InsertWrites ==
  ASSUME TypeOK, TasksSound, NEW w \in Workers, CommitInsert(w)
  PROVE  LET t == task[w]
         IN  /\ t.target \in Users /\ ~ Exists(t.target)
             /\ ~ PhoneTaken(t.write.phone)
             /\ t.write \in UserRow /\ t.write.role # "ADMIN"
             /\ users' = [users EXCEPT ![t.target] = t.write]
             /\ UNCHANGED organizations /\ Finish(w)
  <1>1. task[w] \in Task /\ TaskSound(users, organizations, task[w])
        /\ task[w].op \in {"signup", "create"}
    BY DEF TypeOK, TasksSound, CommitInsert, Idle
  <1>2. task[w].target \in Users /\ task[w].write \in UserRow \cup {NoRow}
    BY <1>1 DEF Task
  <1>3. QED
    BY <1>1, <1>2 DEF CommitInsert, Insert, TaskSound

\* A step other than a commit writes neither table, but for the two columns of
\* an organization that say nothing of its founder.
LEMMA OtherStepsWriteNoProfile ==
  ASSUME TypeOK, Next
  PROVE  \/ \E w \in Workers : CommitStep(w)
         \/ /\ UNCHANGED users
            /\ \A o \in Organizations, a \in Users :
                  Chartered(organizations, o, a) => Chartered(organizations', o, a)
  <1>1. CASE OperatorStep
    <2>1. PICK o \in Suspendable, b \in BOOLEAN : OperatorSetsActive(o, b)
      BY <1>1 DEF OperatorStep
    <2>2. o \in Organizations /\ organizations[o] \in OrganizationRow
      BY <2>1, BoundsAssumption DEF OperatorSetsActive, TypeOK
    <2>3. [organizations[o] EXCEPT !.active = b] \in OrganizationRow
          /\ [organizations[o] EXCEPT !.active = b].founder = organizations[o].founder
      BY <2>2 DEF OrganizationRow
    <2>4. QED
      BY <2>1, <2>2, <2>3, SentinelAssumption DEF OperatorSetsActive, Chartered, TypeOK
  <1>2. ASSUME NEW w \in Workers, NEW p \in parked, RotateJoinCode(w, p)
        PROVE  /\ UNCHANGED users
               /\ \A o \in Organizations, a \in Users :
                  Chartered(organizations, o, a) => Chartered(organizations', o, a)
    <2>1. CASE p.org \in Organizations
      <3>1. organizations[p.org] \in OrganizationRow
        BY <1>2, <2>1 DEF RotateJoinCode, TypeOK
      <3> DEFINE row == [organizations[p.org] EXCEPT !.rotations = @ + 1]
      <3>2. row \in OrganizationRow /\ row.founder = organizations[p.org].founder
        BY <1>2, <3>1, BoundsAssumption DEF RotateJoinCode, OrganizationRow
      <3>3. QED
        BY <1>2, <2>1, <3>2, SentinelAssumption DEF RotateJoinCode, Chartered, TypeOK
    <2>2. CASE p.org \notin Organizations
      <3>1. \A o \in Organizations : organizations'[o] = organizations[o]
        BY <1>2, <2>2 DEF RotateJoinCode, TypeOK
      <3>2. QED
        BY <1>2, <3>1 DEF RotateJoinCode, Chartered
    <2>3. QED
      BY <2>1, <2>2
  <1>3. ASSUME NEW w \in Workers,
               AdminStep(w) \/ NewcomerStep(w) \/ RollBack(w) \/ ClientStep(w),
               \A p \in parked : ~ RotateJoinCode(w, p)
        PROVE  UNCHANGED <<users, organizations>>
    BY <1>3 DEF AdminStep, Authenticate, CreateUser, UpdateUser, VerifyUser,
                UpdateAccess, Granted, DeleteUser, CountAssignedClients, Load,
                ParkForOrganizationService, NewcomerStep, RequestSignup, SubmitSignup, Bootstrap, SubmitBootstrap,
                RollBack, ClientStep, ArchiveClient, AssignClient
  <1>4. QED
    BY <1>1, <1>2, <1>3 DEF Next, AccountStep

LEMMA TablesGrow ==
  ASSUME TypeOK, TasksSound, Next
  PROVE  Grows
  <1>1. ASSUME NEW w \in Workers, CommitInsert(w) PROVE Grows
    BY <1>1, InsertWrites DEF Grows, Exists, Chartered, TypeOK
  <1>2. ASSUME NEW w \in Workers, CommitUpdate(w) PROVE Grows
    <2> DEFINE t == task[w]
               m == Merge(t.read, t.write, users[t.target])
    <2>1. m # NoRow
      BY <1>2, UpdateWrites, SentinelAssumption
    <2>2. users[t.target].role # "ADMIN" => m.role # "ADMIN"
      BY <1>2, UpdateWrites, MergeKeeps DEF TaskSound
    <2>3. t.target \in Users /\ users' = [users EXCEPT ![t.target] = m]
          /\ UNCHANGED organizations
      BY <1>2, UpdateWrites
    <2>4. users'[t.target] = m /\ \A u \in Users : u # t.target => users'[u] = users[u]
      BY <2>3 DEF TypeOK
    <2>5. QED
      BY <2>1, <2>2, <2>3, <2>4 DEF Grows, Exists, Chartered
  <1>3. ASSUME NEW w \in Workers, NEW o \in Organizations, CommitBootstrap(w, o)
        PROVE  Grows
    <2> DEFINE a == task[w].actor
    <2>1. a \in Users /\ users' = [users EXCEPT ![a] = users'[a]]
          /\ users'[a] # NoRow
      BY <1>3, BootstrapWrites, SentinelAssumption
    <2>2. Exists(a) => users'[a].role = users[a].role
      <3>1. Exists(a) => users[a] \in UserRow
        BY <2>1 DEF TypeOK, Exists
      <3>2. Exists(a) => users'[a] \in {users[a], [users[a] EXCEPT !.org = o]}
        BY <1>3, BootstrapWrites
      <3>3. QED
        BY <3>1, <3>2 DEF UserRow
    <2>3. \A p \in Organizations, b \in Users :
              Chartered(organizations, p, b) => Chartered(organizations', p, b)
      BY <1>3, BootstrapWrites DEF Chartered, TypeOK
    <2>4. \A u \in Users : u # a => users'[u] = users[u]
      BY <2>1 DEF TypeOK
    <2>5. QED
      BY <2>1, <2>2, <2>3, <2>4 DEF Grows, Exists
  <1>4. QED
    BY <1>1, <1>2, <1>3, OtherStepsWriteNoProfile DEF CommitStep, Grows, Exists

-----------------------------------------------------------------------------
(* The invariant is inductive *)

\* A request that is sound stays sound whatever the others commit.
LEMMA SoundPersists ==
  ASSUME TypeOK, Grows, NEW t \in Task, TaskSound(users, organizations, t)
  PROVE  TaskSound(users', organizations', t)
  <1>1. t.actor \in Users /\ t.target \in Users
    BY DEF Task
  <1>2. Chartered(organizations, t.org, t.actor) => Chartered(organizations', t.org, t.actor)
    BY <1>1 DEF Grows, Chartered
  <1>3. \A u \in {t.actor, t.target} :
            users[u] # NoRow =>
               users'[u] # NoRow /\ (users[u].role # "ADMIN" => users'[u].role # "ADMIN")
    BY <1>1 DEF Grows, Exists
  <1>4. QED
    BY <1>2, <1>3 DEF TaskSound

\* So a step need only show the soundness of the request it moves.
LEMMA TasksKept ==
  ASSUME TypeOK, TasksSound, Grows, NEW w \in Workers, NEW t, Run(w, t),
         t # NoTask => TaskSound(users', organizations', t)
  PROVE  TasksSound'
  <1>1. \A v \in Workers : v # w => task'[v] = task[v]
    BY DEF Run, TypeOK
  <1>2. task'[w] = t
    BY DEF Run, TypeOK
  <1>3. \A v \in Workers : task[v] # NoTask => TaskSound(users', organizations', task[v])
    BY SoundPersists DEF TasksSound, Idle, TypeOK
  <1>4. QED
    BY <1>1, <1>2, <1>3 DEF TasksSound, Idle

LEMMA AdminStepSound ==
  ASSUME IInv, Grows, NEW w \in Workers, AdminStep(w)
  PROVE  TasksSound'
  <1> USE DEF IInv
  <1>0. task[w] # NoTask => task[w] \in Task /\ TaskSound(users, organizations, task[w])
    BY DEF TasksSound, Idle, TypeOK
  <1>1. ASSUME NEW a \in Users, Authenticate(w, a) PROVE TasksSound'
    <2> DEFINE t == [pc |-> "authorised", op |-> "none", actor |-> a,
                     org |-> users[a].org, target |-> a, code |-> 0,
                     read |-> NoRow, write |-> NoRow]
    <2>1. a \in Admins /\ users[a].org # NoOrg
      BY <1>1 DEF Authenticate, SignedIn, Visible, Admins
    <2>2. Chartered(organizations, users[a].org, a)
      BY <2>1 DEF AdminsSound
    <2>3. Chartered(organizations', users[a].org, a)
      BY <2>2 DEF Grows, Chartered
    <2>4. TaskSound(users', organizations', t)
      BY <2>3 DEF TaskSound, Updates
    <2>5. QED
      BY <1>1, <2>4, TasksKept DEF Authenticate
  <1>2. ASSUME NEW u \in Users, NEW p \in Users, NEW r \in Roles \ {"ADMIN"},
               NEW sd \in BOOLEAN, NEW d \in Approvals,
               CreateUser(w, u, p, r, sd, d)
        PROVE  TasksSound'
    <2> DEFINE row == [role |-> r, org |-> task[w].org, phone |-> p,
                       approval |-> IF sd THEN d ELSE "pending",
                       active |-> (sd => d = "approved"), archived |-> FALSE]
               t == [task[w] EXCEPT !.pc = "commit", !.op = "create",
                                    !.target = u, !.write = row]
    <2>1. task[w] \in Task /\ TaskSound(users, organizations, task[w])
          /\ task[w].op = "none"
      BY <1>0, <1>2 DEF CreateUser, Idle, TaskSound
    <2>2. Chartered(organizations', task[w].org, task[w].actor)
      BY <2>1 DEF TaskSound, Grows, Chartered, Task
    <2>3. row \in UserRow
      <3>1. (sd => d = "approved") \in BOOLEAN
            /\ (IF sd THEN d ELSE "pending") \in Approvals
        BY DEF Approvals
      <3>2. QED
        BY <2>1, <3>1 DEF Task, UserRow
    <2>4. TaskSound(users', organizations', t)
      BY <2>1, <2>2, <2>3, SentinelAssumption DEF TaskSound, Task, Updates
    <2>5. QED
      BY <1>2, <2>4, TasksKept DEF CreateUser
  <1>3. ASSUME NEW u \in Users, NEW op \in Updates, NEW pc \in {"count", "commit"},
               NEW row \in UserRow, ~ Idle(w), Found(w, u), Load(w, u, op, pc, row),
               row.org = users[u].org,
               row.role # users[u].role => row.role # "ADMIN",
               op # "archive" => ~ row.archived,
               op = "verify" => row.approval \in {"approved", "rejected"},
               op \in {"update", "access"} => row.approval = users[u].approval,
               op = "update" => row.active = users[u].active,
               \/ users[u].role # "ADMIN"
               \/ op = "update"
               \/ op = "access" /\ (row.active \/ ~ users[u].active)
        PROVE  TasksSound'
    <2> DEFINE t == [task[w] EXCEPT !.pc = pc, !.op = op, !.target = u,
                                    !.read = users[u], !.write = row]
    <2>1. task[w] \in Task /\ TaskSound(users, organizations, task[w])
          /\ task[w].op = "none"
      BY <1>0, <1>3 DEF Load, Idle, TaskSound
    <2>2. Chartered(organizations', task[w].org, task[w].actor)
      BY <2>1 DEF TaskSound, Grows, Chartered, Task
    <2>3. users[u] # NoRow /\ ~ users[u].archived /\ users' = users
      BY <1>3 DEF Found, Visible, Exists, Load
    <2>4. /\ t.pc = pc /\ t.op = op /\ t.target = u /\ t.read = users[u]
          /\ t.write = row /\ t.org = task[w].org /\ t.actor = task[w].actor
      BY <2>1 DEF Task
    <2>5. t.op \notin {"none", "signup", "create", "bootstrap"} /\ t.pc # "authorised"
      BY <2>4 DEF Updates
    <2>6. TaskSound(users', organizations', t)
      BY <1>3, <2>2, <2>3, <2>4, <2>5, SentinelAssumption DEF TaskSound
    <2>7. QED
      BY <1>3, <2>6, TasksKept DEF Load
  <1>4. ASSUME NEW u \in Users, Found(w, u), ~ Idle(w), task[w].pc = "authorised"
        PROVE  /\ users[u] \in UserRow /\ ~ users[u].archived
               /\ users[u].role = "ADMIN" =>
                     /\ users[u].approval = "approved" /\ users[u].active
                     /\ u = task[w].actor
    <2>1. users[u] \in UserRow /\ ~ users[u].archived /\ users[u].org = task[w].org
      BY <1>4 DEF Found, Visible, Exists, TypeOK
    <2>2. task[w] \in Task /\ Chartered(organizations, task[w].org, task[w].actor)
      BY <1>0, <1>4 DEF Idle, TaskSound
    <2>3. CASE users[u].role = "ADMIN"
      <3>1. u \in Admins
        BY <1>4, <2>3 DEF Admins, Found, Visible
      <3>2. users[u].org # NoOrg
        BY <2>1, <2>2, SentinelAssumption DEF Chartered
      <3>3. Chartered(organizations, users[u].org, u)
        BY <3>1, <3>2 DEF AdminsSound
      <3>4. QED
        BY <2>1, <2>2, <3>1, <3>3 DEF AdminsSound, Chartered
    <2>4. QED
      BY <2>1, <2>3
  <1>5. ASSUME NEW u \in Users, NEW r \in Roles \ {"ADMIN"}, UpdateUser(w, u, r)
        PROVE  TasksSound'
    <2> DEFINE row == [users[u] EXCEPT !.role = r]
    <2>1. Found(w, u) /\ ~ Idle(w) /\ Load(w, u, "update", "commit", row)
          /\ task[w].pc = "authorised"
      BY <1>5 DEF UpdateUser, Load
    <2>2. users[u] \in UserRow /\ ~ users[u].archived
      BY <1>4, <2>1
    <2>3. /\ row \in UserRow /\ row.org = users[u].org /\ row.role = r
          /\ ~ row.archived /\ row.approval = users[u].approval
          /\ row.active = users[u].active
      BY <2>2 DEF UserRow
    <2>4. QED
      BY <1>3, <2>1, <2>3 DEF Updates
  <1>6. ASSUME NEW u \in Users, NEW d \in {"approved", "rejected"}, VerifyUser(w, u, d)
        PROVE  TasksSound'
    <2> DEFINE b == (d = "approved")
               row == [users[u] EXCEPT !.approval = d, !.active = b]
    <2>1. Found(w, u) /\ ~ Idle(w) /\ Load(w, u, "verify", "commit", row)
          /\ task[w].pc = "authorised" /\ users[u].approval = "pending"
      BY <1>6 DEF VerifyUser, Load
    <2>2. users[u] \in UserRow /\ ~ users[u].archived /\ users[u].role # "ADMIN"
      BY <1>4, <2>1
    <2>3. b \in BOOLEAN
      OBVIOUS
    <2>4. /\ row \in UserRow /\ row.org = users[u].org /\ row.role = users[u].role
          /\ ~ row.archived /\ row.approval = d
      BY <2>2, <2>3 DEF UserRow, Approvals
    <2>5. QED
      BY <1>3, <2>1, <2>2, <2>4 DEF Updates
  <1>7. ASSUME NEW u \in Users, NEW sr \in BOOLEAN, NEW sa \in BOOLEAN,
               NEW b \in BOOLEAN, NEW r \in Roles \ {"ADMIN"},
               UpdateAccess(w, u, sr, r, sa, b)
        PROVE  TasksSound'
    <2> DEFINE row == [users[u] EXCEPT !.role = IF sr THEN r ELSE @,
                                       !.active = IF sa THEN b ELSE @]
    <2>1. Found(w, u) /\ ~ Idle(w) /\ Load(w, u, "access", "commit", row)
          /\ task[w].pc = "authorised" /\ ~ (u = task[w].actor /\ sa /\ ~ b)
      BY <1>7 DEF UpdateAccess, Granted, Load
    <2>2. users[u] \in UserRow /\ ~ users[u].archived
          /\ (users[u].role = "ADMIN" => users[u].active /\ u = task[w].actor)
      BY <1>4, <2>1
    <2>3. /\ row \in UserRow /\ row.org = users[u].org
          /\ row.role \in {users[u].role, r}
          /\ ~ row.archived /\ row.approval = users[u].approval
          /\ row.active = IF sa THEN b ELSE users[u].active
      BY <2>2 DEF UserRow
    <2>4. users[u].role = "ADMIN" => row.active
      BY <2>1, <2>2, <2>3
    <2>5. QED
      BY <1>3, <2>1, <2>3, <2>4 DEF Updates
  <1>8. ASSUME NEW u \in Users, DeleteUser(w, u) PROVE TasksSound'
    <2> DEFINE row == [users[u] EXCEPT !.active = FALSE, !.approval = "rejected",
                                       !.archived = TRUE]
    <2>1. Found(w, u) /\ ~ Idle(w) /\ Load(w, u, "archive", "count", row)
          /\ task[w].pc = "authorised" /\ users[u].role # "ADMIN"
      BY <1>8 DEF DeleteUser, Load
    <2>2. users[u] \in UserRow
      BY <1>4, <2>1
    <2>3. row \in UserRow /\ row.org = users[u].org /\ row.role = users[u].role
      BY <2>2 DEF UserRow, Approvals
    <2>4. QED
      BY <1>3, <2>1, <2>3 DEF Updates
  <1>9. ASSUME CountAssignedClients(w) PROVE TasksSound'
    <2> DEFINE t == [task[w] EXCEPT !.pc = "commit"]
    <2>1. task[w] \in Task /\ TaskSound(users', organizations', task[w])
          /\ task[w].op # "none"
      BY <1>0, <1>9, SoundPersists DEF CountAssignedClients, Idle, TaskSound
    <2>2. TaskSound(users', organizations', t)
      BY <2>1 DEF TaskSound, Task
    <2>3. QED
      BY <1>9, <2>2, TasksKept DEF CountAssignedClients
  <1>10. ASSUME ParkForOrganizationService(w) PROVE TasksSound'
    BY <1>10, TasksKept DEF ParkForOrganizationService, Finish
  <1>11. ASSUME NEW p \in parked, RotateJoinCode(w, p) PROVE TasksSound'
    <2>1. UNCHANGED task
      BY <1>11 DEF RotateJoinCode
    <2>2. QED
      BY <2>1, SoundPersists DEF TasksSound, Idle, TypeOK
  <1>12. QED
    BY <1>1, <1>2, <1>5, <1>6, <1>7, <1>8, <1>9, <1>10, <1>11 DEF AdminStep

LEMMA NewcomerStepSound ==
  ASSUME IInv, Grows, NEW w \in Workers, NewcomerStep(w)
  PROVE  TasksSound'
  <1> USE DEF IInv
  <1>1. ASSUME NEW u \in Users, NEW o \in Organizations,
               NEW n \in 0..MaxRotations, NEW r \in Roles \ {"ADMIN"},
               RequestSignup(w, u, o, n, r)
        PROVE  TasksSound'
    <2> DEFINE row == [role |-> r, org |-> o, phone |-> u, approval |-> "pending",
                       active |-> FALSE, archived |-> FALSE]
               t == [pc |-> "commit", op |-> "signup", actor |-> u, org |-> o,
                     target |-> u, code |-> n, read |-> NoRow, write |-> row]
    <2>1. row \in UserRow
      BY DEF UserRow, Approvals
    <2>2. TaskSound(users', organizations', t)
      BY <2>1, SentinelAssumption DEF TaskSound, Updates
    <2>3. QED
      BY <1>1, <2>2, TasksKept DEF RequestSignup, SubmitSignup
  <1>2. ASSUME NEW u \in Users, Bootstrap(w, u) PROVE TasksSound'
    <2> DEFINE t == [pc |-> "commit", op |-> "bootstrap", actor |-> u, org |-> NoOrg,
                     target |-> u, code |-> 0,
                     read |-> IF Visible(u) THEN users[u] ELSE NoRow,
                     write |-> IF Visible(u) THEN users[u] ELSE LegacyAdmin(u)]
    <2>1. TaskSound(users', organizations', t)
      BY <1>2 DEF TaskSound, Updates, Bootstrap, SubmitBootstrap, Visible, Exists
    <2>2. QED
      BY <1>2, <2>1, TasksKept DEF Bootstrap, SubmitBootstrap
  <1>3. QED
    BY <1>1, <1>2 DEF NewcomerStep

\* Whoever commits is done, and no other request is harmed.
LEMMA CommitStepSound ==
  ASSUME IInv, Grows, NEW w \in Workers, CommitStep(w)
  PROVE  TasksSound'
  <1>1. Run(w, NoTask)
    BY DEF CommitStep, CommitInsert, CommitUpdate, CommitBootstrap, Finish
  <1>2. QED
    BY <1>1, TasksKept DEF IInv

\* The profiles of admins survive every commit.
LEMMA CommitStepKeepsAdmins ==
  ASSUME IInv, Grows, NEW w \in Workers, CommitStep(w)
  PROVE  AdminsSound'
  <1> USE DEF IInv
  <1> DEFINE Sound(u) ==
        users'[u] # NoRow /\ users'[u].role = "ADMIN" =>
           /\ users'[u].approval = "approved" /\ users'[u].active
           /\ ~ users'[u].archived
           /\ users'[u].org # NoOrg => Chartered(organizations', users'[u].org, u)
  <1>1. ASSUME NEW u \in Users, users'[u] = users[u] PROVE Sound(u)
    <2>1. users[u].org # NoOrg /\ Chartered(organizations, users[u].org, u)
             => Chartered(organizations', users[u].org, u)
      BY DEF Grows, Chartered
    <2>2. QED
      BY <1>1, <2>1 DEF AdminsSound, Admins, Exists
  <1>2. CASE CommitInsert(w)
    <2>1. \A u \in Users : u # task[w].target => users'[u] = users[u]
      BY <1>2, InsertWrites DEF TypeOK
    <2>2. users'[task[w].target].role # "ADMIN"
      BY <1>2, InsertWrites DEF TypeOK
    <2>3. QED
      BY <1>1, <2>1, <2>2 DEF AdminsSound, Admins, Exists
  <1>3. CASE CommitUpdate(w)
    <2> DEFINE t == task[w]
               u == t.target
               m == Merge(t.read, t.write, users[u])
    <2>1. /\ u \in Users /\ Exists(u) /\ t.op \in Updates
          /\ TaskSound(users, organizations, t) /\ UNCHANGED organizations
          /\ users' = [users EXCEPT ![u] = m]
          /\ t.read \in UserRow /\ t.write \in UserRow
      BY <1>3, UpdateWrites
    <2>2. users'[u] = m /\ \A v \in Users : v # u => users'[v] = users[v]
      BY <2>1 DEF TypeOK
    <2>3. ASSUME m.role = "ADMIN" PROVE Sound(u)
      <3>1. users[u].role = "ADMIN"
        BY <2>1, <2>2, <2>3 DEF Grows
      <3>2. u \in Admins
        BY <2>1, <3>1 DEF Admins
      <3>3. /\ ~ t.read.archived /\ ~ t.write.archived /\ t.write.org = t.read.org
            /\ t.write.approval = t.read.approval
            /\ \/ t.write.active = t.read.active
               \/ t.write.active \/ ~ t.read.active
        BY <2>1, <3>1 DEF TaskSound
      <3>4. t.write.archived = t.read.archived
            /\ (t.write.active # t.read.active => t.write.active)
        BY <2>1, <3>3 DEF UserRow
      <3>5. /\ m.archived = users[u].archived /\ m.org = users[u].org
            /\ m.approval = users[u].approval
            /\ m.active = users[u].active \/ m.active
        BY <3>3, <3>4, MergeKeeps
      <3>6. QED
        BY <2>1, <2>2, <3>2, <3>5 DEF AdminsSound
    <2>4. QED
      BY <1>1, <2>1, <2>2, <2>3 DEF AdminsSound, Admins, Exists
  <1>4. ASSUME NEW o \in Organizations, CommitBootstrap(w, o) PROVE AdminsSound'
    <2> DEFINE a == task[w].actor
    <2>1. /\ a \in Users /\ users' = [users EXCEPT ![a] = users'[a]]
          /\ organizations' = [organizations EXCEPT
                ![o] = [founder |-> a, active |-> TRUE, rotations |-> 0]]
          /\ \/ ~ Exists(a) /\ users'[a] = [LegacyAdmin(a) EXCEPT !.org = o]
             \/ /\ Exists(a)
                /\ users'[a] \in {users[a], [users[a] EXCEPT !.org = o]}
      BY <1>4, BootstrapWrites
    <2>2. \A v \in Users : v # a => users'[v] = users[v]
      BY <2>1 DEF TypeOK
    <2>3. Chartered(organizations', o, a)
      <3> DEFINE row == [founder |-> a, active |-> TRUE, rotations |-> 0]
      <3>1. row \in OrganizationRow
        BY <2>1, BoundsAssumption DEF OrganizationRow
      <3>2. organizations'[o] = row /\ row # NoRow
        BY <2>1, <3>1, SentinelAssumption DEF TypeOK
      <3>3. QED
        BY <3>2 DEF Chartered
    <2>4. ASSUME users'[a] = [LegacyAdmin(a) EXCEPT !.org = o] PROVE Sound(a)
      BY <2>3, <2>4 DEF LegacyAdmin
    <2>5. ASSUME Exists(a), users'[a] = [users[a] EXCEPT !.org = o] PROVE Sound(a)
      <3>1. users[a] \in UserRow
        BY <2>1, <2>5 DEF TypeOK, Exists
      <3>2. /\ users'[a].org = o /\ users'[a].role = users[a].role
            /\ users'[a].approval = users[a].approval
            /\ users'[a].active = users[a].active
            /\ users'[a].archived = users[a].archived
        BY <2>5, <3>1 DEF UserRow
      <3>3. QED
        BY <2>1, <2>3, <2>5, <3>2 DEF AdminsSound, Admins
    <2>6. Sound(a)
      BY <1>1, <2>1, <2>4, <2>5
    <2>7. QED
      BY <1>1, <2>2, <2>6 DEF AdminsSound, Admins, Exists
  <1>5. QED
    BY <1>2, <1>3, <1>4 DEF CommitStep

LEMMA Inductive ==
  ASSUME IInv, [Next]_vars
  PROVE  IInv'
  <1> USE DEF IInv
  <1>1. TypeOK'
    BY NextTyped
  <1>2. CASE UNCHANGED vars
    BY <1>1, <1>2 DEF vars, TasksSound, AdminsSound, Idle, Admins, Exists
  <1>3. CASE Next
    <2>1. Grows
      BY <1>3, TablesGrow
    <2>2. ASSUME NEW w \in Workers, CommitStep(w) PROVE TasksSound' /\ AdminsSound'
      BY <2>1, <2>2, CommitStepSound, CommitStepKeepsAdmins
    <2>3. ASSUME \A w \in Workers : ~ CommitStep(w) PROVE AdminsSound'
      <3>1. UNCHANGED users
        BY <1>3, <2>3, OtherStepsWriteNoProfile
      <3>2. QED
        BY <2>1, <3>1 DEF AdminsSound, Admins, Exists, Grows, Chartered
    <2>4. ASSUME UNCHANGED task PROVE TasksSound'
      BY <2>1, <2>4, SoundPersists DEF TasksSound, Idle, TypeOK
    <2>5. ASSUME NEW w \in Workers, RollBack(w) PROVE TasksSound'
      BY <2>1, <2>5, TasksKept DEF RollBack, Finish
    <2>6. OperatorStep => UNCHANGED task
      BY DEF OperatorStep, OperatorSetsActive
    <2>7. \A w \in Workers : ClientStep(w) => UNCHANGED task
      BY DEF ClientStep, ArchiveClient, AssignClient
    <2>8. TasksSound'
      BY <1>3, <2>1, <2>2, <2>4, <2>5, <2>6, <2>7, AdminStepSound, NewcomerStepSound
         DEF Next, AccountStep
    <2>9. QED
      BY <1>1, <2>2, <2>3, <2>8
  <1>4. QED
    BY <1>2, <1>3

\* The invariant holds of every reachable state, whatever the number of users,
\* organizations and workers.
THEOREM Invariance == Spec => []IInv
  <1>1. Init => IInv
    <2>1. Init => TypeOK
      BY InitTyped
    <2>2. Init => TasksSound
      BY DEF Init, TasksSound, Idle
    <2>3. Init => AdminsSound
      BY DEF Init, AdminsSound, Admins, Exists, LegacyAdmin
    <2>4. QED
      BY <2>1, <2>2, <2>3 DEF IInv
  <1>2. IInv /\ [Next]_vars => IInv'
    BY Inductive
  <1>3. QED
    BY <1>1, <1>2, PTL DEF Spec

-----------------------------------------------------------------------------
(* The theorems *)

\* Every table, request and event has its type.
THEOREM TypeCorrect == Spec => []TypeOK
  BY Invariance, PTL DEF IInv

\* An ADMIN profile is always an approved, active, unarchived one and alone in
\* its company (update_access and delete_user, under any interleaving).
THEOREM AdminsAlwaysInCharge == Spec => []AdminsInCharge
  <1>1. IInv => AdminsInCharge
    <2> SUFFICES ASSUME IInv PROVE AdminsInCharge
      OBVIOUS
    <2>1. ASSUME NEW u \in Admins, NEW v \in Admins,
                 users[u].org = users[v].org, users[u].org # NoOrg
          PROVE  u = v
      BY <2>1 DEF IInv, AdminsSound, Chartered
    <2>2. QED
      BY <2>1 DEF IInv, AdminsSound, AdminsInCharge
  <1>2. QED
    BY <1>1, Invariance, PTL

\* How any step changes the row of a profile that exists: its phone stays, and
\* once archived it stays archived.
LEMMA RowsKeepPhoneAndArchive ==
  ASSUME IInv, [Next]_vars, NEW u \in Users, Exists(u)
  PROVE  /\ users'[u] # NoRow
         /\ users'[u].phone = users[u].phone
         /\ users[u].archived => users'[u].archived
  <1> USE DEF IInv
  <1>1. CASE users' = users
    BY <1>1 DEF Exists
  <1>2. ASSUME NEW w \in Workers, CommitInsert(w) PROVE users'[u] = users[u]
    BY <1>2, InsertWrites DEF TypeOK
  <1>3. ASSUME NEW w \in Workers, CommitUpdate(w)
        PROVE  /\ users'[u] # NoRow
               /\ users'[u].phone = users[u].phone
               /\ users[u].archived => users'[u].archived
    <2> DEFINE t == task[w]
               m == Merge(t.read, t.write, users[t.target])
    <2>1. /\ t.target \in Users /\ users' = [users EXCEPT ![t.target] = m]
          /\ TaskSound(users, organizations, t) /\ t.op \in Updates
          /\ m \in UserRow /\ t.read \in UserRow /\ t.write \in UserRow
      BY <1>3, UpdateWrites
    <2>2. CASE u # t.target
      BY <2>1, <2>2 DEF TypeOK, Exists
    <2>3. CASE u = t.target
      <3>1. users'[u] = m /\ m # NoRow
        BY <2>1, <2>3, SentinelAssumption DEF TypeOK
      <3>2. t.write.archived # t.read.archived => t.write.archived
        BY <2>1 DEF TaskSound, UserRow
      <3>3. QED
        BY <2>3, <3>1, <3>2, MergeKeeps
    <2>4. QED
      BY <2>2, <2>3
  <1>4. ASSUME NEW w \in Workers, NEW o \in Organizations, CommitBootstrap(w, o)
        PROVE  /\ users'[u] # NoRow
               /\ users'[u].phone = users[u].phone
               /\ users[u].archived => users'[u].archived
    <2> DEFINE a == task[w].actor
    <2>1. /\ a \in Users /\ users' = [users EXCEPT ![a] = users'[a]]
          /\ users'[a] \in UserRow
          /\ Exists(a) => users'[a] \in {users[a], [users[a] EXCEPT !.org = o]}
      BY <1>4, BootstrapWrites
    <2>2. CASE u # a
      BY <2>1, <2>2 DEF TypeOK, Exists
    <2>3. CASE u = a
      <3>1. users[a] \in UserRow
        BY <2>1, <2>3 DEF TypeOK, Exists
      <3>2. QED
        BY <2>1, <2>3, <3>1, SentinelAssumption DEF UserRow
    <2>4. QED
      BY <2>2, <2>3
  <1>5. users' = users \/ \E w \in Workers : CommitStep(w)
    BY OtherStepsWriteNoProfile DEF vars
  <1>6. QED
    BY <1>1, <1>2, <1>3, <1>4, <1>5 DEF CommitStep, Exists

\* No interleaving of requests brings an archived profile back or frees its
\* phone number (delete_user and everything that may commit after it).
THEOREM ArchiveIsAlwaysFinal == Spec => ArchiveIsFinal
  <1>1. IInv /\ [Next]_vars =>
          [\A u \in Users : Exists(u) /\ users[u].archived
              => users'[u] # NoRow /\ users'[u].archived
                 /\ users'[u].phone = users[u].phone]_vars
    BY RowsKeepPhoneAndArchive
  <1>2. QED
    BY <1>1, Invariance, PTL DEF Spec, ArchiveIsFinal
=============================================================================
