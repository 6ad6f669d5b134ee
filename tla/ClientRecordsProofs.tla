------------------------- MODULE ClientRecordsProofs -------------------------
(***************************************************************************)
(* Theorems about ClientRecords, for every number of clients, companies,   *)
(* employees and workers.                                                  *)
(***************************************************************************)
EXTENDS ClientRecords, TLAPS

LEMMA Sentinels ==
  /\ NoRow \notin ClientRow /\ NoRow \notin Ids
  /\ NoRow \notin Companies /\ NoRow \notin Staff
  /\ NoCompany \notin Companies /\ NoCompany # NoRow
  /\ NoJob \notin Job /\ NoJob \notin Founding
  BY SentinelAssumption

LEMMA MergeTyped ==
  ASSUME NEW read \in ClientRow, NEW write \in ClientRow, NEW row \in ClientRow
  PROVE  /\ Merge(read, write, row) \in ClientRow
         /\ Merge(read, write, row).org = row.org
         /\ Merge(read, write, row).owner = (IF write.owner # read.owner
                                             THEN write.owner ELSE row.owner)
         /\ row.archived /\ ~ read.archived => Merge(read, write, row).archived
  BY DEF Merge, Column, ClientRow

-----------------------------------------------------------------------------
(* Commits *)

\* What a commit writes: a row of the same company at an existing id, or the
\* new row of the company of the request.
LEMMA CommitWrites ==
  ASSUME IInv, NEW w \in Workers, CommitStep(w)
  PROVE  \E c \in Ids, row \in ClientRow :
            /\ WriteRow(c, row)
            /\ clients[c] # NoRow => row.org = clients[c].org
            /\ clients[c] # NoRow /\ clients[c].archived => row.archived
            /\ Belongs(row.owner, row.org)
            /\ history' \in Seq(Change)
            /\ UNCHANGED staff /\ Finish(w)
  <1>1. job[w] \in Job /\ JobSound(clients, company, founder, job[w]) /\ job[w].checks = {}
    BY DEF IInv, TypeOK, CommitStep, CommitCreate, CommitChange, CommitStatus,
           Ready, Idle
  <1>2. /\ job[w].write \in ClientRow /\ job[w].read \in ClientRow \cup {NoRow}
        /\ job[w].id \in Ids \cup {NoRow} /\ job[w].org \in Companies
    BY <1>1 DEF Job
  <1>3. ASSUME NEW c \in Ids, CommitCreate(w, c)
        PROVE  /\ WriteRow(c, job[w].write)
               /\ clients[c] = NoRow
               /\ Belongs(job[w].write.owner, job[w].write.org)
               /\ UNCHANGED history
               /\ UNCHANGED staff /\ Finish(w)
    BY <1>1, <1>3 DEF CommitCreate, Ready, JobSound, Belongs
  <1> DEFINE c == job[w].id
             row == Merge(job[w].read, job[w].write, clients[c])
  <1>4. CASE CommitChange(w) \/ CommitStatus(w)
    <2>1. job[w].op # "create"
      BY <1>4 DEF CommitChange, CommitStatus, Ready
    <2>2. /\ c \in Ids /\ clients[c] \in ClientRow /\ job[w].read \in ClientRow
          /\ clients[c].org = job[w].org /\ ~ job[w].read.archived
      BY <1>1, <1>2, <2>1 DEF JobSound, IInv, TypeOK
    <2>3. /\ row \in ClientRow /\ row.org = clients[c].org
          /\ row.owner = (IF job[w].write.owner # job[w].read.owner
                          THEN job[w].write.owner ELSE clients[c].owner)
          /\ (clients[c].archived /\ ~ job[w].read.archived => row.archived)
      BY <1>2, <2>2, MergeTyped
    <2>4. Belongs(clients[c].owner, clients[c].org)
      BY <2>2, Sentinels DEF IInv, OwnersBelong
    <2>5. Belongs(row.owner, row.org)
      BY <1>1, <2>1, <2>2, <2>3, <2>4 DEF JobSound, Belongs
    <2>6. history' \in Seq(Change)
      <3>1. CASE CommitChange(w)
        BY <3>1 DEF CommitChange, IInv, TypeOK
      <3>2. CASE CommitStatus(w)
        <4> DEFINE e == [client |-> c, old |-> job[w].read.status, new |-> job[w].write.status]
        <4>1. e \in Change
          BY <1>2, <2>2 DEF Change, ClientRow
        <4>2. history \in Seq(Change)
          BY DEF IInv, TypeOK
        <4>3. history' = Append(history, e)
          BY <3>2 DEF CommitStatus
        <4> HIDE DEF e
        <4>4. QED
          BY <4>1, <4>2, <4>3
      <3>3. QED
        BY <1>4, <3>1, <3>2
    <2>7. WriteRow(c, row) /\ UNCHANGED staff /\ Finish(w)
      BY <1>4 DEF CommitChange, CommitStatus
    <2>8. QED
      BY <2>2, <2>3, <2>5, <2>6, <2>7
  <1>5. QED
    BY <1>2, <1>3, <1>4 DEF CommitStep, IInv, TypeOK

\* Rows are never removed, never move to another company and never come back
\* from the archive.
RowsStay ==
    \A c \in Ids : clients[c] # NoRow =>
        /\ clients'[c] # NoRow
        /\ clients'[c].org = clients[c].org
        /\ clients[c].archived => clients'[c].archived

LEMMA CommitKeepsTables ==
  ASSUME IInv, NEW w \in Workers, CommitStep(w)
  PROVE  /\ clients' \in [Ids -> ClientRow \cup {NoRow}]
         /\ RowsStay /\ LivePhonesUnique' /\ OwnersBelong'
  <1>1. PICK c \in Ids, row \in ClientRow :
            /\ WriteRow(c, row)
            /\ clients[c] # NoRow => row.org = clients[c].org
            /\ clients[c] # NoRow /\ clients[c].archived => row.archived
            /\ Belongs(row.owner, row.org)
            /\ UNCHANGED staff
    BY CommitWrites
  <1>2. clients \in [Ids -> ClientRow \cup {NoRow}]
    BY DEF IInv, TypeOK
  <1>3. /\ clients' \in [Ids -> ClientRow \cup {NoRow}]
        /\ clients'[c] = row /\ row # NoRow
        /\ \A d \in Ids : d # c => clients'[d] = clients[d]
    BY <1>1, <1>2, Sentinels DEF WriteRow
  <1>4. RowsStay
    BY <1>1, <1>3 DEF RowsStay
  <1>5. OwnersBelong'
    BY <1>1, <1>3 DEF IInv, OwnersBelong, Belongs, staff
  <1>6. LivePhonesUnique'
    <2> SUFFICES ASSUME NEW d \in Ids, NEW e \in Ids, Live(d)', Live(e)',
                        clients'[d].org = clients'[e].org,
                        clients'[d].phone = clients'[e].phone
                 PROVE  d = e
      BY DEF LivePhonesUnique
    <2>1. CASE d # c /\ e # c
      BY <1>3, <2>1 DEF Live, IInv, LivePhonesUnique
    <2>2. CASE d = c
      BY <1>1, <1>3, <2>2 DEF Live, WriteRow, PhoneTaken
    <2>3. CASE e = c
      BY <1>1, <1>3, <2>3 DEF Live, WriteRow, PhoneTaken
    <2>4. QED
      BY <2>1, <2>2, <2>3
  <1>7. QED
    BY <1>3, <1>4, <1>5, <1>6

-----------------------------------------------------------------------------
(* Requests *)

\* Whoever belongs to a company goes on belonging to it.
BelongingStays ==
    \A u \in Staff, o \in Companies :
        company[u] = o \/ founder[o] = u => company'[u] = o \/ founder'[o] = u

LEMMA SoundPersists ==
  ASSUME NEW j \in Job, JobSound(clients, company, founder, j), RowsStay, BelongingStays
  PROVE  JobSound(clients', company', founder', j)
  <1>1. j.op # "create" => j.id \in Ids
    BY DEF Job, JobSound
  <1>2. j.org \in Companies /\ j.write.owner \in Staff
    BY DEF Job, ClientRow
  <1>3. QED
    BY <1>1, <1>2 DEF JobSound, RowsStay, BelongingStays

\* A step need only show that the request it moves is typed and sound.
LEMMA JobsKept ==
  ASSUME IInv, RowsStay, BelongingStays, NEW w \in Workers, NEW j, Run(w, j),
         j # NoJob => j \in Job /\ JobSound(clients', company', founder', j)
  PROVE  /\ job' \in [Workers -> Job \cup {NoJob}]
         /\ \A v \in Workers : job'[v] # NoJob => JobSound(clients', company', founder', job'[v])
  <1>1. job \in [Workers -> Job \cup {NoJob}]
    BY DEF IInv, TypeOK
  <1>2. job'[w] = j /\ \A v \in Workers : v # w => job'[v] = job[v]
    BY <1>1 DEF Run
  <1>3. \A v \in Workers : job[v] # NoJob => JobSound(clients', company', founder', job[v])
    BY <1>1, SoundPersists DEF IInv, Idle
  <1>4. QED
    BY <1>1, <1>2, <1>3 DEF Run

LEMMA FinishKeeps ==
  ASSUME IInv, RowsStay, BelongingStays, NEW w \in Workers, Finish(w)
  PROVE  /\ job' \in [Workers -> Job \cup {NoJob}]
         /\ \A v \in Workers : job'[v] # NoJob => JobSound(clients', company', founder', job'[v])
  <1>1. Run(w, NoJob)
    BY DEF Finish
  <1>2. QED
    BY ONLY IInv, RowsStay, BelongingStays, <1>1, w \in Workers, JobsKept

LEMMA RequestStepSound ==
  ASSUME IInv, NEW w \in Workers, RequestStep(w)
  PROVE  \E j \in Job : Run(w, j) /\ JobSound(clients, company, founder, j)
                        /\ UNCHANGED <<clients, history, staff>>
  <1>1. PICK o \in Companies, p \in Phones, u \in Staff, s \in Statuses :
            \/ CreateClient(w, o, p, u, s)
            \/ \E c \in Ids :
                  \/ \E fields \in Payloads :
                         PatchClient(w, o, c, fields, p, u, s)
                  \/ ChangeClientStatus(w, o, c, s)
                  \/ DeleteClient(w, o, c)
    BY DEF RequestStep
  <1>2. CASE CreateClient(w, o, p, u, s)
    <2> DEFINE row == [org |-> o, phone |-> p, owner |-> u, status |-> s,
                       archived |-> FALSE]
               j == [op |-> "create", org |-> o, id |-> NoRow, read |-> NoRow,
                     write |-> row, checks |-> Checks]
    <2>1. row \in ClientRow
      BY DEF ClientRow
    <2>2. j \in Job
      BY <2>1 DEF Job
    <2>3. JobSound(clients, company, founder, j)
      BY DEF JobSound, Checks
    <2>4. QED
      BY <1>2, <2>2, <2>3 DEF CreateClient, Begin
  <1>3. ASSUME NEW c \in Ids, Found(o, c), NEW row \in ClientRow,
               NEW op \in {"patch", "status", "archive"}, NEW checks \in SUBSET Checks,
               Begin(w, o, op, c, row, checks), row.org = clients[c].org,
               "owner" \notin checks => row.owner = clients[c].owner
        PROVE  \E j \in Job : Run(w, j) /\ JobSound(clients, company, founder, j)
                        /\ UNCHANGED <<clients, history, staff>>
    <2> DEFINE j == [op |-> op, org |-> o, id |-> c, read |-> clients[c],
                     write |-> row, checks |-> checks]
    <2>1. clients[c] \in ClientRow /\ clients[c].org = o /\ ~ clients[c].archived
      BY <1>3 DEF IInv, TypeOK, Found, Live
    <2>2. j \in Job
      BY <1>3, <2>1 DEF Job
    <2>3. JobSound(clients, company, founder, j)
      BY <1>3, <2>1, Sentinels DEF JobSound
    <2>4. QED
      BY <1>3, <2>2, <2>3 DEF Begin
  <1>4. ASSUME NEW c \in Ids, NEW fields \in Payloads,
               PatchClient(w, o, c, fields, p, u, s)
        PROVE  \E j \in Job : Run(w, j) /\ JobSound(clients, company, founder, j)
                        /\ UNCHANGED <<clients, history, staff>>
    <2> DEFINE row == [clients[c] EXCEPT !.phone = IF "phone" \in fields THEN p ELSE @,
                                         !.owner = IF "owner" \in fields THEN u ELSE @,
                                         !.status = IF "status" \in fields THEN s ELSE @]
    <2>1. clients[c] \in ClientRow
      BY <1>4 DEF PatchClient, Found, Live, IInv, TypeOK
    <2>2. row \in ClientRow /\ row.org = clients[c].org
          /\ ("owner" \notin fields => row.owner = clients[c].owner)
      BY <2>1 DEF ClientRow
    <2>3. "owner" \notin fields \cap Checks => "owner" \notin fields
      BY DEF Checks
    <2>4. Found(o, c) /\ Begin(w, o, "patch", c, row, fields \cap Checks)
      BY <1>4 DEF PatchClient
    <2>5. fields \cap Checks \in SUBSET Checks
      OBVIOUS
    <2>6. QED
      BY <1>3, <2>2, <2>3, <2>4, <2>5
  <1>5. ASSUME NEW c \in Ids, ChangeClientStatus(w, o, c, s)
        PROVE  \E j \in Job : Run(w, j) /\ JobSound(clients, company, founder, j)
                        /\ UNCHANGED <<clients, history, staff>>
    <2> DEFINE row == [clients[c] EXCEPT !.status = s]
    <2>1. clients[c] \in ClientRow
      BY <1>5 DEF ChangeClientStatus, Found, Live, IInv, TypeOK
    <2>2. row \in ClientRow /\ row.org = clients[c].org /\ row.owner = clients[c].owner
      BY <2>1 DEF ClientRow
    <2>3. Found(o, c) /\ Begin(w, o, "status", c, row, {})
      BY <1>5 DEF ChangeClientStatus
    <2>4. {} \in SUBSET Checks
      OBVIOUS
    <2>5. QED
      BY <1>3, <2>2, <2>3, <2>4
  <1>6. ASSUME NEW c \in Ids, DeleteClient(w, o, c)
        PROVE  \E j \in Job : Run(w, j) /\ JobSound(clients, company, founder, j)
                        /\ UNCHANGED <<clients, history, staff>>
    <2> DEFINE row == [clients[c] EXCEPT !.archived = TRUE]
    <2>1. clients[c] \in ClientRow
      BY <1>6 DEF DeleteClient, Found, Live, IInv, TypeOK
    <2>2. row \in ClientRow /\ row.org = clients[c].org /\ row.owner = clients[c].owner
      BY <2>1 DEF ClientRow
    <2>3. Found(o, c) /\ Begin(w, o, "archive", c, row, {})
      BY <1>6 DEF DeleteClient
    <2>4. {} \in SUBSET Checks
      OBVIOUS
    <2>5. QED
      BY <1>3, <2>2, <2>3, <2>4
  <1>7. QED
    BY <1>1, <1>2, <1>4, <1>5, <1>6

LEMMA CheckStepSound ==
  ASSUME IInv, NEW w \in Workers, EnsureAssignableUser(w) \/ EnsurePhoneFree(w)
  PROVE  \E j \in Job : Run(w, j) /\ JobSound(clients, company, founder, j)
                        /\ UNCHANGED <<clients, history, staff>>
  <1>1. job[w] \in Job /\ JobSound(clients, company, founder, job[w])
    BY DEF IInv, TypeOK, EnsureAssignableUser, EnsurePhoneFree, Idle
  <1> DEFINE passed(check) == [job[w] EXCEPT !.checks = @ \ {check}]
  <1>2. CASE EnsureAssignableUser(w)
    <2>1. passed("owner") \in Job
      BY <1>1 DEF Job
    <2>2. JobSound(clients, company, founder, passed("owner"))
      BY <1>1, <1>2 DEF JobSound, EnsureAssignableUser, Job
    <2>3. QED
      BY <1>2, <2>1, <2>2 DEF EnsureAssignableUser, Passed
  <1>3. CASE EnsurePhoneFree(w)
    <2>1. passed("phone") \in Job
      BY <1>1 DEF Job
    <2>2. JobSound(clients, company, founder, passed("phone"))
      BY <1>1, <1>3 DEF JobSound, EnsurePhoneFree, Job
    <2>3. QED
      BY <1>3, <2>1, <2>2 DEF EnsurePhoneFree, Passed
  <1>4. QED
    BY <1>2, <1>3

-----------------------------------------------------------------------------
(* The theorems *)

FoundingsSound ==
    \A w \in Workers : founding[w] # NoJob => FoundingSound(company, founder, founding[w])

\* While no account request moves, everybody goes on belonging where they do.
LEMMA StaffStill ==
  ASSUME UNCHANGED staff
  PROVE  BelongingStays
  BY DEF staff, BelongingStays

\* A step of an account request need only show what becomes of the profiles.
LEMMA StaffKept ==
  ASSUME IInv, UNCHANGED <<clients, history, job>>, BelongingStays, FoundingsSound',
         company' \in [Staff -> Companies \cup {NoCompany, NoRow}],
         founder' \in [Companies -> Staff \cup {NoRow}],
         assignable' \subseteq Staff,
         founding' \in [Workers -> Founding \cup {NoJob}]
  PROVE  IInv'
  <1>1. TypeOK'
    BY DEF IInv, TypeOK
  <1>2. \A w \in Workers : ~ Idle(w)' => JobSound(clients', company', founder', job'[w])
    <2> SUFFICES ASSUME NEW w \in Workers, job[w] # NoJob
                 PROVE  JobSound(clients', company', founder', job[w])
      BY DEF Idle
    <2>1. job[w] \in Job /\ JobSound(clients, company, founder, job[w])
      BY DEF IInv, TypeOK, Idle
    <2>2. RowsStay
      BY DEF RowsStay
    <2>3. QED
      BY <2>1, <2>2, SoundPersists
  <1>3. LivePhonesUnique'
    BY DEF IInv, LivePhonesUnique, Live
  <1>4. OwnersBelong'
    <2> SUFFICES ASSUME NEW c \in Ids, clients[c] # NoRow
                 PROVE  Belongs(clients[c].owner, clients[c].org)'
      BY DEF OwnersBelong
    <2>1. clients[c].owner \in Staff /\ clients[c].org \in Companies
      BY DEF IInv, TypeOK, ClientRow
    <2>2. QED
      BY <2>1 DEF IInv, OwnersBelong, Belongs, BelongingStays
  <1>5. QED
    BY <1>1, <1>2, <1>3, <1>4 DEF IInv, FoundingsSound

LEMMA AccountStepKeeps ==
  ASSUME IInv, NEW w \in Workers, AccountStep(w)
  PROVE  IInv'
  <1>1. /\ company \in [Staff -> Companies \cup {NoCompany, NoRow}]
        /\ founder \in [Companies -> Staff \cup {NoRow}]
        /\ assignable \subseteq Staff
        /\ founding \in [Workers -> Founding \cup {NoJob}]
        /\ FoundingsSound
    BY DEF IInv, TypeOK, FoundingsSound
  <1>2. ASSUME NEW u \in Staff, StaffChange(w, u) PROVE IInv'
    BY <1>1, <1>2, StaffKept DEF StaffChange, BelongingStays, FoundingsSound
  <1>3. ASSUME NEW u \in Staff, NEW o \in Companies, Join(w, u, o) PROVE IInv'
    <2>1. /\ company[u] = NoRow /\ company' = [company EXCEPT ![u] = o]
          /\ UNCHANGED <<clients, history, founder, assignable, founding, job>>
      BY <1>3 DEF Join
    <2>2. BelongingStays
      BY <1>1, <2>1, Sentinels DEF BelongingStays
    <2>3. FoundingsSound'
      BY <1>1, <2>1, Sentinels DEF FoundingsSound, FoundingSound
    <2>4. QED
      BY <1>1, <2>1, <2>2, <2>3, StaffKept
  <1>4. ASSUME NEW u \in Staff, Bootstrap(w, u) PROVE IInv'
    <2> DEFINE f == [admin |-> u, read |-> company[u]]
    <2>1. /\ company[u] \in {NoRow, NoCompany} /\ founding' = [founding EXCEPT ![w] = f]
          /\ UNCHANGED <<clients, history, company, founder, assignable, job>>
      BY <1>4 DEF Bootstrap
    <2>2. f \in Founding /\ FoundingSound(company, founder, f)
      BY <2>1 DEF Founding, FoundingSound
    <2>3. BelongingStays
      BY <2>1 DEF BelongingStays
    <2>4. FoundingsSound'
      BY <1>1, <2>1, <2>2 DEF FoundingsSound
    <2>5. founding' \in [Workers -> Founding \cup {NoJob}]
      BY <1>1, <2>1, <2>2
    <2>6. QED
      BY <1>1, <2>1, <2>3, <2>4, <2>5, StaffKept
  <1>5. ASSUME NEW o \in Companies, CommitBootstrap(w, o) PROVE IInv'
    <2> DEFINE u == founding[w].admin
    <2>1. /\ founding[w] \in Founding /\ FoundingSound(company, founder, founding[w])
          /\ u \in Staff /\ founding[w].read \in {NoRow, NoCompany}
      BY <1>1, <1>5 DEF CommitBootstrap, FoundingsSound, Founding
    <2>2. /\ founder[o] = NoRow
          /\ founding[w].read = NoRow => company[u] = NoRow
          /\ company' = [company EXCEPT ![u] = o]
          /\ founder' = [founder EXCEPT ![o] = u]
          /\ assignable' \subseteq Staff
          /\ founding' = [founding EXCEPT ![w] = NoJob]
          /\ UNCHANGED <<clients, history, job>>
      BY <1>1, <1>5, <2>1 DEF CommitBootstrap
    <2>3. company[u] \notin Companies \/ founder[company[u]] = u
      BY <2>1, <2>2, Sentinels DEF FoundingSound
    <2>4. /\ company'[u] = o /\ founder'[o] = u
          /\ \A v \in Staff : v # u => company'[v] = company[v]
          /\ \A p \in Companies : p # o => founder'[p] = founder[p]
      BY <1>1, <2>1, <2>2
    <2>5. BelongingStays
      <3> SUFFICES ASSUME NEW v \in Staff, NEW p \in Companies,
                          company[v] = p \/ founder[p] = v
                   PROVE  company'[v] = p \/ founder'[p] = v
        BY DEF BelongingStays
      <3>1. founder[p] = v => p # o
        BY <2>2, Sentinels
      <3>2. CASE v = u
        BY <2>3, <2>4, <3>1, <3>2
      <3>3. CASE v # u
        BY <2>4, <3>1, <3>3
      <3>4. QED
        BY <3>2, <3>3
    <2>6. FoundingsSound'
      <3> SUFFICES ASSUME NEW x \in Workers, founding'[x] # NoJob,
                          founding'[x].read = NoCompany
                   PROVE  LET a == founding'[x].admin
                          IN  \/ company'[a] = NoCompany
                              \/ company'[a] \in Companies /\ founder'[company'[a]] = a
        BY DEF FoundingsSound, FoundingSound
      <3> DEFINE a == founding[x].admin
      <3>1. founding'[x] = founding[x] /\ founding[x] \in Founding /\ a \in Staff
        BY <1>1, <2>2 DEF Founding
      <3>2. company[a] = NoCompany \/ (company[a] \in Companies /\ founder[company[a]] = a)
        BY <1>1, <3>1 DEF FoundingsSound, FoundingSound
      <3>3. company[a] \in Companies => company[a] # o \/ a = u
        BY <2>2, <3>1, <3>2, Sentinels
      <3>4. QED
        BY <2>4, <3>1, <3>2, <3>3
    <2>7. /\ company' \in [Staff -> Companies \cup {NoCompany, NoRow}]
          /\ founder' \in [Companies -> Staff \cup {NoRow}]
          /\ founding' \in [Workers -> Founding \cup {NoJob}]
      BY <1>1, <2>1, <2>2
    <2>8. QED
      BY <2>2, <2>5, <2>6, <2>7, StaffKept
  <1>6. ASSUME RollBackBootstrap(w) PROVE IInv'
    <2>1. /\ founding' = [founding EXCEPT ![w] = NoJob]
          /\ UNCHANGED <<clients, history, company, founder, assignable, job>>
      BY <1>6 DEF RollBackBootstrap
    <2>2. FoundingsSound' /\ BelongingStays
      BY <1>1, <2>1 DEF FoundingsSound, BelongingStays
    <2>3. QED
      BY <1>1, <2>1, <2>2, StaffKept
  <1>7. QED
    BY <1>2, <1>3, <1>4, <1>5, <1>6 DEF AccountStep

LEMMA Inductive ==
  ASSUME IInv, [Next]_vars
  PROVE  IInv'
  <1> DEFINE JobsSound ==
                 \A w \in Workers : ~ Idle(w) => JobSound(clients, company, founder, job[w])
  <1>0. UNCHANGED staff =>
            /\ FoundingsSound' /\ BelongingStays
            /\ company' \in [Staff -> Companies \cup {NoCompany, NoRow}]
            /\ founder' \in [Companies -> Staff \cup {NoRow}]
            /\ assignable' \subseteq Staff
            /\ founding' \in [Workers -> Founding \cup {NoJob}]
    BY StaffStill DEF IInv, TypeOK, FoundingsSound, staff
  <1>1. UNCHANGED <<clients, staff>> =>
            RowsStay /\ LivePhonesUnique' /\ OwnersBelong'
            /\ clients' \in [Ids -> ClientRow \cup {NoRow}]
    BY DEF IInv, TypeOK, RowsStay, LivePhonesUnique, OwnersBelong, Belongs, Live, staff
  <1>2. ASSUME NEW w \in Workers, CommitStep(w) PROVE IInv'
    <2>1. /\ clients' \in [Ids -> ClientRow \cup {NoRow}]
          /\ RowsStay /\ LivePhonesUnique' /\ OwnersBelong'
      BY <1>2, CommitKeepsTables
    <2>2. history' \in Seq(Change) /\ UNCHANGED staff /\ Finish(w)
      BY <1>2, CommitWrites
    <2>3. /\ job' \in [Workers -> Job \cup {NoJob}]
          /\ \A v \in Workers :
                 job'[v] # NoJob => JobSound(clients', company', founder', job'[v])
      BY <1>0, <1>2, <2>1, <2>2, FinishKeeps
    <2>4. QED
      BY <1>0, <2>1, <2>2, <2>3 DEF IInv, TypeOK, Idle, FoundingsSound
  <1>3. ASSUME NEW w \in Workers, NEW j \in Job \cup {NoJob}, Run(w, j),
               j # NoJob => JobSound(clients, company, founder, j),
               UNCHANGED <<clients, history, staff>>
        PROVE  IInv'
    <2>1. JobSound(clients, company, founder, j) => JobSound(clients', company', founder', j)
      BY <1>3 DEF staff
    <2>2. job' \in [Workers -> Job \cup {NoJob}] /\ JobsSound'
      BY <1>0, <1>1, <1>3, <2>1, JobsKept DEF Idle
    <2>3. QED
      BY <1>0, <1>1, <1>3, <2>2 DEF IInv, TypeOK, FoundingsSound
  <1>4. CASE UNCHANGED vars
    BY <1>0, <1>1, <1>4 DEF vars, staff, IInv, TypeOK, Idle, FoundingsSound
  <1>5. ASSUME NEW w \in Workers, RollBack(w) PROVE IInv'
    <2>1. Run(w, NoJob) /\ UNCHANGED <<clients, history, staff>>
      BY <1>5 DEF RollBack, Finish
    <2>2. QED
      BY <1>3, <2>1
  <1>6. ASSUME NEW w \in Workers,
               RequestStep(w) \/ EnsureAssignableUser(w) \/ EnsurePhoneFree(w)
        PROVE  IInv'
    BY <1>3, <1>6, RequestStepSound, CheckStepSound
  <1>7. QED
    BY <1>2, <1>4, <1>5, <1>6, AccountStepKeeps DEF Next, WorkerStep

\* No step takes a client row away, to another company or out of the archive.
LEMMA RowsAlwaysStay ==
  ASSUME IInv, [Next]_vars
  PROVE  RowsStay
  <1>1. UNCHANGED clients => RowsStay
    BY DEF RowsStay
  <1>2. ASSUME NEW w \in Workers, WorkerStep(w) PROVE UNCHANGED clients \/ CommitStep(w)
    BY <1>2, RequestStepSound, CheckStepSound
       DEF WorkerStep, AccountStep, StaffChange, Join, Bootstrap, CommitBootstrap,
           RollBackBootstrap, RollBack
  <1>3. QED
    BY <1>1, <1>2, CommitKeepsTables DEF Next, vars

\* The invariant holds of every reachable state, for any number of workers.
THEOREM Invariance == Spec => []IInv
  <1>1. Init => IInv
    <2> SUFFICES ASSUME Init PROVE IInv
      OBVIOUS
    <2>1. history \in Seq(Change)
      BY DEF Init
    <2>2. TypeOK
      BY <2>1, LegacyAssumption DEF Init, TypeOK
    <2>3. QED
      BY <2>2 DEF Init, IInv, Idle, LivePhonesUnique, OwnersBelong, Live
  <1>2. IInv /\ [Next]_vars => IInv'
    BY Inductive
  <1>3. QED
    BY <1>1, <1>2, PTL DEF Spec

\* Live clients of one company never share a phone number.
THEOREM LivePhonesAlwaysUnique == Spec => []LivePhonesUnique
  BY Invariance, PTL DEF IInv

\* A client is always assigned to somebody who belongs to its company or
\* founded it, however the requests of the workers interleave.
THEOREM OwnersAlwaysBelong == Spec => []OwnersBelong
  BY Invariance, PTL DEF IInv

\* An archived client stays archived and every client stays with its company,
\* whatever request commits late.
THEOREM ArchivedAlwaysForGood == Spec => ArchivedForGood
  <1>1. IInv /\ [Next]_vars => RowsStay
    BY RowsAlwaysStay
  <1>2. RowsStay => [\A c \in Ids : clients[c] # NoRow =>
                         /\ clients'[c] # NoRow
                         /\ clients'[c].org = clients[c].org
                         /\ clients[c].archived => clients'[c].archived]_vars
    BY DEF RowsStay
  <1>3. QED
    BY <1>1, <1>2, Invariance, PTL DEF Spec, ArchivedForGood

-----------------------------------------------------------------------------
(* One worker: the refinement of ClientBook                                 *)

OneWorker == \A v, w \in Workers : v = w

\* What a request has loaded is still there when it commits, and the assignee
\* whom it has checked is still active.
JobFresh(rows, hands, j) ==
    /\ j.op \in {"create", "patch"} =>
           /\ ~ j.write.archived
           /\ "owner" \in j.checks
              \/ j.write.owner \in hands[j.write.org]
              \/ (j.op = "patch" /\ j.write.owner = j.read.owner)
    /\ j.op # "create" => j.read = rows[j.id] /\ ~ j.read.archived
    /\ j.op = "status" =>
           \E s \in Statuses \ {j.read.status} : j.write = [j.read EXCEPT !.status = s]
    /\ j.op = "archive" => j.write = [j.read EXCEPT !.archived = TRUE]

JobsFresh ==
    \A w \in Workers : ~ Idle(w) =>
        founding[w] = NoJob /\ JobFresh(clients, Colleagues, job[w])

\* A step of the only worker need only show that its own request is fresh.
LEMMA FreshByRun ==
  ASSUME OneWorker, TypeOK, NEW w \in Workers, NEW j, Run(w, j),
         j # NoJob => founding'[w] = NoJob /\ JobFresh(clients', Colleagues', j)
  PROVE  JobsFresh'
  BY DEF OneWorker, TypeOK, Run, JobsFresh, Idle

LEMMA ColleaguesStill ==
  ASSUME UNCHANGED staff
  PROVE  UNCHANGED <<Colleagues, founding>>
  BY DEF staff, Colleagues

LEMMA RequestFresh ==
  ASSUME IInv, OneWorker, NEW w \in Workers, RequestStep(w)
  PROVE  JobsFresh' /\ UNCHANGED <<clients, history, staff>>
  <1>0. TypeOK
    BY DEF IInv
  <1>1. PICK o \in Companies, p \in Phones, u \in Staff, s \in Statuses :
            \/ CreateClient(w, o, p, u, s)
            \/ \E c \in Ids :
                  \/ \E fields \in Payloads :
                         PatchClient(w, o, c, fields, p, u, s)
                  \/ ChangeClientStatus(w, o, c, s)
                  \/ DeleteClient(w, o, c)
    BY DEF RequestStep
  <1>2. CASE CreateClient(w, o, p, u, s)
    <2> DEFINE row == [org |-> o, phone |-> p, owner |-> u, status |-> s,
                       archived |-> FALSE]
               j == [op |-> "create", org |-> o, id |-> NoRow, read |-> NoRow,
                     write |-> row, checks |-> Checks]
    <2>1. Run(w, j) /\ UNCHANGED <<clients, history, staff>> /\ founding'[w] = NoJob
      BY <1>2, ColleaguesStill DEF CreateClient, Begin, Free
    <2>2. JobFresh(clients', Colleagues', j)
      BY DEF JobFresh, Checks
    <2> HIDE DEF j
    <2>3. QED
      BY <1>0, <2>1, <2>2, FreshByRun
  <1>3. ASSUME NEW c \in Ids, Found(o, c), NEW row, NEW op \in {"patch", "status", "archive"},
               NEW checks, Begin(w, o, op, c, row, checks),
               op = "patch" => /\ ~ row.archived
                               /\ "owner" \in checks \/ row.owner = clients[c].owner,
               op = "status" => \E d \in Statuses \ {clients[c].status} :
                                    row = [clients[c] EXCEPT !.status = d],
               op = "archive" => row = [clients[c] EXCEPT !.archived = TRUE]
        PROVE  JobsFresh' /\ UNCHANGED <<clients, history, staff>>
    <2> DEFINE j == [op |-> op, org |-> o, id |-> c, read |-> clients[c],
                     write |-> row, checks |-> checks]
    <2>1. /\ Run(w, j) /\ UNCHANGED <<clients, history, staff>>
          /\ UNCHANGED Colleagues /\ founding'[w] = NoJob
      BY <1>3, ColleaguesStill DEF Begin, Free
    <2>2. JobFresh(clients', Colleagues', j)
      BY <1>3, <2>1 DEF JobFresh, Found, Live
    <2> HIDE DEF j
    <2>3. QED
      BY <1>0, <2>1, <2>2, FreshByRun
  <1>4. ASSUME NEW c \in Ids, NEW fields \in Payloads,
               PatchClient(w, o, c, fields, p, u, s)
        PROVE  JobsFresh' /\ UNCHANGED <<clients, history, staff>>
    <2> DEFINE row == [clients[c] EXCEPT !.phone = IF "phone" \in fields THEN p ELSE @,
                                         !.owner = IF "owner" \in fields THEN u ELSE @,
                                         !.status = IF "status" \in fields THEN s ELSE @]
    <2>1. clients[c] \in ClientRow /\ ~ clients[c].archived
      BY <1>4, <1>0 DEF PatchClient, Found, Live, TypeOK
    <2>2. ~ row.archived /\ ("owner" \notin fields => row.owner = clients[c].owner)
      BY <2>1 DEF ClientRow
    <2>3. "owner" \in fields => "owner" \in fields \cap Checks
      BY DEF Checks
    <2>4. Found(o, c) /\ Begin(w, o, "patch", c, row, fields \cap Checks)
      BY <1>4 DEF PatchClient
    <2> HIDE DEF row
    <2>5. QED
      BY <1>3, <2>2, <2>3, <2>4
  <1>5. ASSUME NEW c \in Ids, ChangeClientStatus(w, o, c, s)
        PROVE  JobsFresh' /\ UNCHANGED <<clients, history, staff>>
    <2>1. /\ Found(o, c) /\ s # clients[c].status
          /\ Begin(w, o, "status", c, [clients[c] EXCEPT !.status = s], {})
      BY <1>5 DEF ChangeClientStatus
    <2>2. QED
      BY <1>3, <2>1
  <1>6. ASSUME NEW c \in Ids, DeleteClient(w, o, c)
        PROVE  JobsFresh' /\ UNCHANGED <<clients, history, staff>>
    <2>1. /\ Found(o, c)
          /\ Begin(w, o, "archive", c, [clients[c] EXCEPT !.archived = TRUE], {})
      BY <1>6 DEF DeleteClient
    <2>2. QED
      BY <1>3, <2>1
  <1>7. QED
    BY <1>1, <1>2, <1>4, <1>5, <1>6

LEMMA ChecksFresh ==
  ASSUME IInv, JobsFresh, OneWorker, NEW w \in Workers,
         EnsureAssignableUser(w) \/ EnsurePhoneFree(w)
  PROVE  JobsFresh' /\ UNCHANGED <<clients, history, staff>>
  <1>1. /\ TypeOK /\ job[w] \in Job /\ JobFresh(clients, Colleagues, job[w])
        /\ UNCHANGED <<clients, history, staff>> /\ founding[w] = NoJob
        /\ job[w].org \in Companies /\ JobSound(clients, company, founder, job[w])
    BY DEF IInv, TypeOK, JobsFresh, EnsureAssignableUser, EnsurePhoneFree, Passed, Idle, Job
  <1>a. UNCHANGED <<Colleagues, founding>>
    BY <1>1, ColleaguesStill
  <1>2. PICK check \in Checks :
            /\ Run(w, [job[w] EXCEPT !.checks = @ \ {check}])
            /\ check = "owner" => /\ job[w].write.owner \in assignable
                                  /\ company[job[w].write.owner] = job[w].org
    BY DEF EnsureAssignableUser, EnsurePhoneFree, Passed, Checks
  <1> DEFINE j == [job[w] EXCEPT !.checks = @ \ {check}]
  <1>3. /\ j.op = job[w].op /\ j.read = job[w].read /\ j.write = job[w].write
        /\ j.id = job[w].id /\ j.checks = job[w].checks \ {check}
    BY <1>1 DEF Job
  <1>b. check = "owner" => job[w].write.owner \in Colleagues[job[w].write.org]
    <2>1. job[w].write.org = job[w].org /\ job[w].write.owner \in Staff
      BY <1>1 DEF JobSound, Job, ClientRow
    <2>2. QED
      BY <1>1, <1>2, <2>1 DEF Colleagues
  <1> HIDE DEF j
  <1>4. JobFresh(clients, Colleagues, j)
    BY <1>1, <1>2, <1>3, <1>b DEF JobFresh
  <1>5. JobFresh(clients', Colleagues', j)
    BY <1>1, <1>a, <1>4
  <1>6. QED
    BY <1>1, <1>2, <1>5, <1>a, FreshByRun DEF j

\* Nobody else has written meanwhile, so a commit stores the row that was set.
LEMMA MergeOfFresh ==
  ASSUME NEW write \in ClientRow, NEW row \in ClientRow, write.org = row.org
  PROVE  Merge(row, write, row) = write
  BY DEF Merge, Column, ClientRow

\* The commit is the stroke of ClientBook.
LEMMA CommitIsStroke ==
  ASSUME IInv, JobsFresh, NEW w \in Workers, CommitStep(w)
  PROVE  Book!Next
  <1>1. /\ job[w] \in Job /\ job[w].checks = {}
        /\ JobSound(clients, company, founder, job[w]) /\ JobFresh(clients, Colleagues, job[w])
    BY DEF IInv, TypeOK, JobsFresh, CommitStep, CommitCreate, CommitChange,
           CommitStatus, Ready, Idle
  <1> DEFINE read == job[w].read
             write == job[w].write
  <1>2. write \in ClientRow
    BY <1>1 DEF Job
  <1>3. ASSUME NEW c \in Ids, NEW row, WriteRow(c, row), ~ row.archived
        PROVE  Book!PhoneFree(c, row) /\ Book!Write(c, row)
    BY <1>3 DEF WriteRow, PhoneTaken, Live, Book!PhoneFree, Book!Live, Book!Write
  <1>4. ASSUME NEW c \in Ids, CommitCreate(w, c)
        PROVE  Book!Open(c, write)
    <2>1. /\ job[w].op = "create" /\ clients[c] = NoRow /\ WriteRow(c, write)
          /\ UNCHANGED <<history, Colleagues>>
      BY <1>4, ColleaguesStill DEF CommitCreate, Ready
    <2>2. ~ write.archived /\ write.owner \in Colleagues[write.org]
      BY <1>1, <2>1 DEF JobFresh, JobSound
    <2>3. QED
      BY <1>3, <2>1, <2>2 DEF Book!Open, Book!MayOwn
  <1> DEFINE c == job[w].id
  <1>5. ASSUME job[w].op # "create"
        PROVE  /\ c \in Ids /\ clients[c] \in ClientRow /\ read = clients[c]
               /\ ~ clients[c].archived
               /\ write.org = clients[c].org
               /\ Merge(read, write, clients[c]) = write
               /\ Book!Live(c)
    <2>1. c \in Ids /\ clients[c] # NoRow /\ read = clients[c] /\ ~ read.archived
          /\ write.org = clients[c].org
      BY <1>1, <1>5 DEF Job, JobSound, JobFresh
    <2>2. clients[c] \in ClientRow
      BY <2>1 DEF IInv, TypeOK
    <2>3. QED
      BY <1>2, <2>1, <2>2, MergeOfFresh DEF Book!Live
  <1>6. CASE CommitChange(w) /\ job[w].op = "patch"
    <2>1. /\ WriteRow(c, write) /\ UNCHANGED <<history, Colleagues>>
      BY <1>5, <1>6, ColleaguesStill DEF CommitChange
    <2>2. ~ write.archived /\ (write.owner # clients[c].owner =>
              write.owner \in Colleagues[write.org])
      BY <1>1, <1>5, <1>6 DEF JobFresh, JobSound
    <2>3. Book!Edit(c, write)
      BY <1>3, <1>5, <1>6, <2>1, <2>2 DEF Book!Edit, Book!MayOwn
    <2>4. QED
      BY <1>2, <1>5, <1>6, <2>3 DEF Book!Next, Book!Entry, ClientRow
  <1>7. CASE CommitChange(w) /\ job[w].op = "archive"
    <2>1. /\ WriteRow(c, write) /\ UNCHANGED <<history, Colleagues>>
      BY <1>5, <1>7, ColleaguesStill DEF CommitChange
    <2>2. write = [clients[c] EXCEPT !.archived = TRUE]
      BY <1>1, <1>5, <1>7 DEF JobFresh
    <2>3. Book!Close(c)
      BY <1>5, <1>7, <2>1, <2>2 DEF Book!Close, Book!Write, WriteRow
    <2>4. QED
      BY <1>5, <1>7, <2>3 DEF Book!Next
  <1>8. CASE CommitStatus(w)
    <2>1. /\ job[w].op = "status" /\ UNCHANGED Colleagues
          /\ clients' = [clients EXCEPT ![c] = Merge(read, write, clients[c])]
          /\ history' = Append(history,
                 [client |-> c, old |-> read.status, new |-> write.status])
      BY <1>8, ColleaguesStill DEF CommitStatus, Ready, WriteRow
    <2>2. PICK s \in Statuses \ {read.status} : write = [read EXCEPT !.status = s]
      BY <1>1, <2>1 DEF JobFresh
    <2>3. write.status = s
      BY <1>5, <2>1, <2>2 DEF ClientRow
    <2>4. Book!ChangeStatus(c, s)
      BY <1>5, <2>1, <2>2, <2>3 DEF Book!ChangeStatus, Book!Write
    <2>5. QED
      BY <1>5, <2>1, <2>4 DEF Book!Next
  <1>9. QED
    <2>1. write \in Book!Entry
      BY <1>2 DEF Book!Entry, ClientRow
    <2>2. ASSUME NEW d \in Ids, CommitCreate(w, d) PROVE Book!Next
      BY <1>4, <2>1, <2>2 DEF Book!Next
    <2>3. CommitChange(w) => job[w].op \in {"patch", "archive"}
      BY DEF CommitChange, Ready
    <2>4. QED
      BY <1>6, <1>7, <1>8, <2>2, <2>3 DEF CommitStep

LEMMA StaysFresh ==
  ASSUME IInv, JobsFresh, OneWorker, [Next]_vars
  PROVE  JobsFresh' /\ [Book!Next]_<<clients, history, Colleagues>>
  <1>1. CASE UNCHANGED vars
    BY <1>1, ColleaguesStill DEF vars, JobsFresh, Idle
  <1>2. ASSUME NEW w \in Workers, CommitStep(w)
        PROVE  JobsFresh' /\ Book!Next
    <2>1. Run(w, NoJob) /\ TypeOK
      BY <1>2 DEF CommitStep, CommitCreate, CommitChange, CommitStatus, Finish, IInv
    <2>2. QED
      BY <1>2, <2>1, FreshByRun, CommitIsStroke
  <1>3. ASSUME NEW w \in Workers, RollBack(w)
        PROVE  JobsFresh' /\ UNCHANGED <<clients, history, staff>>
    BY <1>3, FreshByRun DEF RollBack, Finish, IInv
  <1>4. ASSUME NEW w \in Workers, AccountStep(w)
        PROVE  JobsFresh' /\ Book!Next
    <2>1. Idle(w) /\ UNCHANGED <<clients, history, job>>
      BY <1>4 DEF AccountStep, StaffChange, Join, Bootstrap, CommitBootstrap,
                  RollBackBootstrap, Free, JobsFresh
    <2>2. JobsFresh'
      BY <2>1 DEF OneWorker, JobsFresh, Idle
    <2>3. assignable' \subseteq Staff
      BY <1>4, AccountStepKeeps DEF IInv, TypeOK
    <2>4. Colleagues' \in [Companies -> SUBSET Staff]
      BY <2>3 DEF Colleagues
    <2>5. QED
      BY <2>1, <2>2, <2>4 DEF Book!Next, Book!StaffChanges
  <1>5. UNCHANGED staff => UNCHANGED Colleagues
    BY ColleaguesStill
  <1>6. ASSUME NEW w \in Workers,
               RequestStep(w) \/ EnsureAssignableUser(w) \/ EnsurePhoneFree(w)
        PROVE  JobsFresh' /\ UNCHANGED <<clients, history, staff>>
    BY <1>6, RequestFresh, ChecksFresh
  <1>7. QED
    BY <1>1, <1>2, <1>3, <1>4, <1>5, <1>6 DEF Next, WorkerStep

\* Served by one worker, the client endpoints keep the promises of ClientBook:
\* the statements of a request add up to one stroke, whatever the requests.
THEOREM OneWorkerImplementsClientBook ==
  ASSUME OneWorker
  PROVE  Spec => ImplementsClientBook
  <1>1. Init => Book!Init /\ JobsFresh
    <2>1. Init => Colleagues = [o \in Companies |-> {}]
      <3> SUFFICES ASSUME Init, NEW o \in Companies
                   PROVE  {u \in assignable : company[u] = o} = {}
        BY DEF Colleagues
      <3>1. \A u \in Legacy : company[u] = NoCompany
        BY LegacyAssumption DEF Init
      <3>2. QED
        BY <3>1, Sentinels DEF Init
    <2>2. QED
      BY <2>1 DEF Init, Book!Init, JobsFresh, Idle
  <1>2. IInv /\ JobsFresh /\ [Next]_vars =>
            JobsFresh' /\ [Book!Next]_<<clients, history, Colleagues>>
    BY StaysFresh, OneWorker
  <1>3. QED
    BY <1>1, <1>2, Invariance, PTL DEF Spec, ImplementsClientBook, Book!Spec, Book!vars

\* Rows, histories, staff and requests have their types.
THEOREM TypeCorrect == Spec => []TypeOK
  BY Invariance, PTL DEF IInv
=============================================================================
