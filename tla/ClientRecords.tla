---------------------------- MODULE ClientRecords ----------------------------
(***************************************************************************)
(* The client endpoints of the backend (ClientService) over the client_info *)
(* and client_updates tables, one step per SQL statement.                   *)
(*                                                                         *)
(* Authentication leaves only the company of the request behind: the       *)
(* service methods never look at the acting user again.  As in Accounts,   *)
(* job[w] is the synchronous stretch that worker w is in, statements of    *)
(* different workers interleave, and a commit writes the columns that      *)
(* differ from what was loaded.                                            *)
(*                                                                         *)
(* Of the account endpoints, those that decide who may own a client are    *)
(* here too: a profile joins a company, is taken in or out, and founds a   *)
(* company.  The last is the one request that moves a profile, and two     *)
(* workers that serve it for the same admin move the admin twice; so it    *)
(* has its two steps, founding[w] being the stretch between them.          *)
(***************************************************************************)
EXTENDS Naturals, Sequences

CONSTANTS
    Ids,         \* the values of the client_id sequence
    Companies,
    Staff,       \* the people who have or get a profile
    Legacy,      \* the admins from before migration 004, without a company
    Phones,
    Statuses,    \* status_master
    Workers,     \* the uvicorn worker processes
    Payloads,    \* the sets of columns, of those told apart, that a patch may carry
    MaxChanges,  \* bound on the status changes
    NoRow, NoCompany, NoJob

VARIABLES
    clients,     \* client_info
    history,     \* client_updates, in the order of the commits
    company,     \* users.organization_id, NoCompany for null, NoRow without profile
    founder,     \* organizations.created_by, NoRow without organization
    assignable,  \* the staff whose profile is approved, active and unarchived
    founding,    \* the bootstrap request that each worker is in the middle of
    job          \* the client request that each worker is in the middle of

staff == <<company, founder, assignable, founding>>

vars == <<clients, history, staff, job>>

ClientRow ==
    [org: Companies, phone: Phones, owner: Staff, status: Statuses,
     archived: BOOLEAN]

Checks == {"owner", "phone"}

Job ==
    [op: {"create", "patch", "status", "archive"}, org: Companies,
     id: Ids \cup {NoRow}, read: ClientRow \cup {NoRow}, write: ClientRow,
     checks: SUBSET Checks]

\* What bootstrap has read of the profile of its user
Founding == [admin: Staff, read: {NoRow, NoCompany}]

ASSUME SentinelAssumption ==
    /\ NoRow \notin ClientRow \cup Ids \cup Companies \cup Staff
    /\ NoCompany \notin Companies \cup {NoRow}
    /\ NoJob \notin Job \cup Founding

ASSUME LegacyAssumption == Legacy \subseteq Staff

ASSUME BoundsAssumption ==
    /\ MaxChanges \in Nat
    /\ Payloads \subseteq SUBSET {"phone", "owner", "status"}

Change == [client: Ids, old: Statuses, new: Statuses]

TypeOK ==
    /\ clients \in [Ids -> ClientRow \cup {NoRow}]
    /\ history \in Seq(Change)
    /\ company \in [Staff -> Companies \cup {NoCompany, NoRow}]
    /\ founder \in [Companies -> Staff \cup {NoRow}]
    /\ assignable \subseteq Staff
    /\ founding \in [Workers -> Founding \cup {NoJob}]
    /\ job \in [Workers -> Job \cup {NoJob}]

Init ==
    /\ clients = [c \in Ids |-> NoRow]
    /\ history = << >>
    /\ company = [u \in Staff |-> IF u \in Legacy THEN NoCompany ELSE NoRow]
    /\ founder = [o \in Companies |-> NoRow]
    /\ assignable = Legacy
    /\ founding = [w \in Workers |-> NoJob]
    /\ job = [w \in Workers |-> NoJob]

Idle(w) == job[w] = NoJob

\* The event loop of w is at an await: it can take up a request.
Free(w) == Idle(w) /\ founding[w] = NoJob

Run(w, j) == job' = [job EXCEPT ![w] = j]

Finish(w) == Run(w, NoJob)

Live(c) == clients[c] # NoRow /\ ~ clients[c].archived

\* Mutant: archived clients are found too.
FoundArchived(o, c) == clients[c] # NoRow /\ clients[c].org = o

\* _ensure_client_exists within the company of the request
Found(o, c) == Live(c) /\ clients[c].org = o

\* get_by_phone finds a live client other than c
PhoneTaken(c, o, p) ==
    \E d \in Ids \ {c} : Live(d) /\ clients[d].org = o /\ clients[d].phone = p

-----------------------------------------------------------------------------
(* The first statement of each service method.  The company o was that of   *)
(* an active member when the request was authenticated, so it exists.      *)

Begin(w, o, op, c, write, checks) ==
    /\ Free(w)
    /\ founder[o] # NoRow
    /\ Run(w, [op |-> op, org |-> o, id |-> c,
               read |-> IF op = "create" THEN NoRow ELSE clients[c],
               write |-> write, checks |-> checks])
    /\ UNCHANGED <<clients, history, staff>>

CreateClient(w, o, p, u, s) ==
    Begin(w, o, "create", NoRow,
          [org |-> o, phone |-> p, owner |-> u, status |-> s, archived |-> FALSE],
          Checks)

\* Mutant: a column that is not sent is set to null (exclude_unset is missing).
PatchClientNulls(w, o, c, fields, p, u, s) ==
    /\ Found(o, c)
    /\ Begin(w, o, "patch", c,
             [clients[c] EXCEPT !.phone = IF "phone" \in fields THEN p ELSE NoRow,
                                !.owner = IF "owner" \in fields THEN u ELSE NoRow],
             fields \cap Checks)

\* fields are the columns that the payload carries; what is not sent is not
\* checked.
PatchClient(w, o, c, fields, p, u, s) ==
    /\ Found(o, c)
    /\ Begin(w, o, "patch", c,
             [clients[c] EXCEPT !.phone = IF "phone" \in fields THEN p ELSE @,
                                !.owner = IF "owner" \in fields THEN u ELSE @,
                                !.status = IF "status" \in fields THEN s ELSE @],
             fields \cap Checks)

ChangeClientStatus(w, o, c, s) ==
    /\ Found(o, c)
    /\ clients[c].status # s
    /\ Begin(w, o, "status", c, [clients[c] EXCEPT !.status = s], {})

DeleteClient(w, o, c) ==
    /\ Found(o, c)
    /\ Begin(w, o, "archive", c, [clients[c] EXCEPT !.archived = TRUE], {})

-----------------------------------------------------------------------------
(* The checks, each a statement of its own *)

Passed(w, check) ==
    /\ Run(w, [job[w] EXCEPT !.checks = @ \ {check}])
    /\ UNCHANGED <<clients, history, staff>>

EnsureAssignableUser(w) ==
    /\ ~ Idle(w)
    /\ "owner" \in job[w].checks
    /\ job[w].write.owner \in assignable
    /\ company[job[w].write.owner] = job[w].org
    /\ Passed(w, "owner")

EnsurePhoneFree(w) ==
    /\ ~ Idle(w)
    /\ job[w].checks = {"phone"}
    /\ ~ PhoneTaken(job[w].id, job[w].org, job[w].write.phone)
    /\ Passed(w, "phone")

RollBack(w) ==
    /\ ~ Idle(w)
    /\ Finish(w)
    /\ UNCHANGED <<clients, history, staff>>

-----------------------------------------------------------------------------
(* Commits *)

Column(loaded, set, current) == IF set # loaded THEN set ELSE current

\* Mutant: the UPDATE writes every column of the loaded row.
MergeAll(read, write, row) == [write EXCEPT !.org = row.org]

Merge(read, write, row) ==
    [org |-> row.org,
     phone |-> Column(read.phone, write.phone, row.phone),
     owner |-> Column(read.owner, write.owner, row.owner),
     status |-> Column(read.status, write.status, row.status),
     archived |-> Column(read.archived, write.archived, row.archived)]

\* Mutant: the unique index is missing and get_by_phone alone guards the number.
WriteRowUnindexed(c, row) == clients' = [clients EXCEPT ![c] = row]

\* The partial unique index on (organization_id, phone) of live clients
WriteRow(c, row) ==
    /\ ~ row.archived => ~ PhoneTaken(c, row.org, row.phone)
    /\ clients' = [clients EXCEPT ![c] = row]

Ready(w, ops) ==
    /\ ~ Idle(w)
    /\ job[w].checks = {}
    /\ job[w].op \in ops

CommitCreate(w, c) ==
    /\ Ready(w, {"create"})
    /\ clients[c] = NoRow
    /\ WriteRow(c, job[w].write)
    /\ Finish(w)
    /\ UNCHANGED <<history, staff>>

CommitChange(w) ==
    /\ Ready(w, {"patch", "archive"})
    /\ WriteRow(job[w].id, Merge(job[w].read, job[w].write, clients[job[w].id]))
    /\ Finish(w)
    /\ UNCHANGED <<history, staff>>

\* change_client_status writes the row and its client_updates entry together.
CommitStatus(w) ==
    /\ Ready(w, {"status"})
    /\ LET c == job[w].id
           read == job[w].read
           write == job[w].write
       IN  /\ Len(history) < MaxChanges
           /\ WriteRow(c, Merge(read, write, clients[c]))
           /\ history' = Append(history,
                  [client |-> c, old |-> read.status, new |-> write.status])
    /\ Finish(w)
    /\ UNCHANGED staff

-----------------------------------------------------------------------------
(* The account requests that decide who may own a client *)

\* The commit of an account request of w (Accounts) takes u in or out.
StaffChange(w, u) ==
    /\ Free(w)
    /\ company[u] \in Companies
    /\ assignable' = IF u \in assignable THEN assignable \ {u}
                                         ELSE assignable \cup {u}
    /\ UNCHANGED <<clients, history, company, founder, founding, job>>

\* The commit of a signup or of a creation: u's profile in company o
Join(w, u, o) ==
    /\ Free(w)
    /\ company[u] = NoRow
    /\ founder[o] # NoRow
    /\ company' = [company EXCEPT ![u] = o]
    /\ UNCHANGED <<clients, history, founder, assignable, founding, job>>

\* Mutant: bootstrap does not ask whether the admin has a company.
BootstrapAgain(w, u) ==
    /\ Free(w)
    /\ company[u] # NoRow => u \in assignable
    /\ founding' = [founding EXCEPT
           ![w] = [admin |-> u, read |-> IF company[u] = NoRow THEN NoRow ELSE NoCompany]]
    /\ UNCHANGED <<clients, history, company, founder, assignable, job>>

\* bootstrap looks for the profile of its user: there is none, or it is that
\* of an approved, active admin without a company.
Bootstrap(w, u) ==
    /\ Free(w)
    /\ company[u] = NoRow \/ (company[u] = NoCompany /\ u \in assignable)
    /\ founding' = [founding EXCEPT ![w] = [admin |-> u, read |-> company[u]]]
    /\ UNCHANGED <<clients, history, company, founder, assignable, job>>

\* Mutant: session.merge in place of session.add
InsertOrReplace(w, o) ==
    /\ founding[w] # NoJob
    /\ founder[o] = NoRow
    /\ LET u == founding[w].admin
       IN  /\ company' = [company EXCEPT ![u] = o]
           /\ founder' = [founder EXCEPT ![o] = u]
           /\ assignable' = IF company[u] = NoRow THEN assignable \cup {u} ELSE assignable
    /\ founding' = [founding EXCEPT ![w] = NoJob]
    /\ UNCHANGED <<clients, history, job>>

\* bootstrap commits the company under a fresh id o.  A profile that was not
\* there is inserted, unless one has come into being meanwhile; one that was
\* there gets the column it lacked, whatever another worker put there.
CommitBootstrap(w, o) ==
    /\ founding[w] # NoJob
    /\ founder[o] = NoRow
    /\ LET u == founding[w].admin
       IN  /\ founding[w].read = NoRow => company[u] = NoRow
           /\ company' = [company EXCEPT ![u] = o]
           /\ founder' = [founder EXCEPT ![o] = u]
           /\ assignable' = IF company[u] = NoRow THEN assignable \cup {u} ELSE assignable
    /\ founding' = [founding EXCEPT ![w] = NoJob]
    /\ UNCHANGED <<clients, history, job>>

RollBackBootstrap(w) ==
    /\ founding[w] # NoJob
    /\ founding' = [founding EXCEPT ![w] = NoJob]
    /\ UNCHANGED <<clients, history, company, founder, assignable, job>>

-----------------------------------------------------------------------------

RequestStep(w) ==
    \E o \in Companies, p \in Phones, u \in Staff, s \in Statuses :
        \/ CreateClient(w, o, p, u, s)
        \/ \E c \in Ids :
              \/ \E fields \in Payloads :
                     PatchClient(w, o, c, fields, p, u, s)
              \/ ChangeClientStatus(w, o, c, s)
              \/ DeleteClient(w, o, c)

CommitStep(w) ==
    \/ \E c \in Ids : CommitCreate(w, c)
    \/ CommitChange(w)
    \/ CommitStatus(w)

AccountStep(w) ==
    \/ \E u \in Staff :
          \/ StaffChange(w, u)
          \/ Bootstrap(w, u)
          \/ \E o \in Companies : Join(w, u, o)
    \/ \E o \in Companies : CommitBootstrap(w, o)
    \/ RollBackBootstrap(w)

WorkerStep(w) ==
    \/ RequestStep(w)
    \/ EnsureAssignableUser(w)
    \/ EnsurePhoneFree(w)
    \/ CommitStep(w)
    \/ RollBack(w)
    \/ AccountStep(w)

Next == \E w \in Workers : WorkerStep(w)

Spec == Init /\ [][Next]_vars

-----------------------------------------------------------------------------
(* Properties *)

\* Those who may be given clients of each company
Colleagues == [o \in Companies |-> {u \in assignable : company[u] = o}]

Book == INSTANCE ClientBook WITH
    book <- clients, changes <- history, available <- Colleagues, Blank <- NoRow

\* With one worker, the statements of every client request add up to one
\* stroke of ClientBook: archived clients stay as they were, every recorded
\* status change starts at the status the client had, and nobody is given a
\* client after having been deactivated.
ImplementsClientBook == Book!Spec

\* Live clients of a company have distinct phone numbers under any number of
\* workers: both get_by_phone checks may be stale, and patch_client can move
\* a client onto a number that another worker has just used.
LivePhonesUnique ==
    \A c, d \in Ids :
        Live(c) /\ Live(d) /\ clients[c].org = clients[d].org
            /\ clients[c].phone = clients[d].phone => c = d

\* u is of company o, or founded it and was then moved by a second bootstrap.
Belongs(u, o) == company[u] = o \/ founder[o] = u

\* Nobody owns a client of a company that is neither theirs nor founded by
\* them, under any number of workers: the assignment is checked against the
\* company of the request, merging two requests never mixes companies, and
\* of the profiles that may own clients a late bootstrap moves only that of
\* the founder, who had no company when it was read.
OwnersBelong ==
    \A c \in Ids : clients[c] # NoRow => Belongs(clients[c].owner, clients[c].org)

\* No request brings an archived client back or takes a client to another
\* company: a patch, a status change or another archiving that loaded the
\* client before it was archived writes its own columns only.
ArchivedForGood ==
    [][\A c \in Ids : clients[c] # NoRow =>
           /\ clients'[c] # NoRow
           /\ clients'[c].org = clients[c].org
           /\ clients[c].archived => clients'[c].archived]_vars

\* What holds of a client request between its statements
JobSound(rows, home, head, j) ==
    /\ j.op = "create" => j.read = NoRow /\ j.write.org = j.org
    /\ j.op # "create" =>
           /\ j.id # NoRow
           /\ rows[j.id] # NoRow /\ j.read # NoRow /\ ~ j.read.archived
           /\ rows[j.id].org = j.org /\ j.write.org = j.org
    /\ "owner" \notin j.checks =>
           \/ home[j.write.owner] = j.org \/ head[j.org] = j.write.owner
           \/ j.op # "create" /\ j.write.owner = j.read.owner

\* What holds of a bootstrap before its commit: the profile that had no
\* company has none, or one that its user founded.
FoundingSound(home, head, f) ==
    f.read = NoCompany =>
        \/ home[f.admin] = NoCompany
        \/ home[f.admin] \in Companies /\ head[home[f.admin]] = f.admin

\* The inductive invariant behind LivePhonesUnique, OwnersBelong and
\* ArchivedForGood
IInv ==
    /\ TypeOK
    /\ \A w \in Workers : ~ Idle(w) => JobSound(clients, company, founder, job[w])
    /\ \A w \in Workers :
           founding[w] # NoJob => FoundingSound(company, founder, founding[w])
    /\ LivePhonesUnique
    /\ OwnersBelong
=============================================================================
