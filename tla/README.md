# CRMX: a TLA+ verification project

CRMX is a small CRM: a FastAPI backend over Supabase Postgres and Supabase Auth
(phone OTP), and a Flutter app for its employees. Companies ("organizations")
are isolated from each other; an admin approves employees; employees work on
clients. This directory holds TLA+ modules of the parts whose correctness
depends on ordering and concurrency, TLC configurations that check them on small
instances, and TLAPS proofs of the safety properties that hold for every instance.

## 1. Inventory

| component | state | operations | interacts with |
|---|---|---|---|
| User accounts (`services/user`) | rows of `public.users`: role, organization, approval, is_active, deleted_at, phone | request_signup, create_user, update_user, verify_user, update_access, delete_user | audit trail, organizations, clients (delete_user counts them) |
| Organizations (`services/organization`) | rows of `public.organizations`: founder, join code, is_active | bootstrap, rotate_join_code | users |
| Authentication of requests (`services/auth/dependencies.py`, `services/postgres/dependencies.py`) | none of its own; order of dependencies, awaits and thread-pool hops | get_current_user, require_admin, get_db_session | every endpoint |
| Clients (`services/client`) | `client_info`, `client_updates` | create, patch, change status, archive, sync seeded test data | users (assignee), statuses |
| Audit trail (`services/audit`) | `audit_events` (append-only by trigger) | record_audit_event, in the transaction of the change | every writer |
| OTP and refresh (`services/auth/auth_service.py`) | none; Supabase keeps refresh-token families | send_otp, verify_otp, refresh | users, the app |
| Mobile session (`api_client.dart`, `backend_auth_repository.dart`, `auth_controller.dart`, `secure_storage_service.dart`) | tokens in memory and in secure storage, auth state, one pending refresh per ApiClient | sign-in, requests with retry after 401, refresh, sign-out, start-up check | backend auth endpoints |
| Mobile cache and dashboard (`cache_service.dart`, `client_controller.dart`) | cached answers with TTL, list state | load, refresh, invalidate | clients |
| Connection pool (`db/postgres/postgres.py`, `main.py`) | 5 + 10 connections, 30 s checkout timeout | create_session, close, ping | event loop, thread pool |
| Migrations (`scripts/apply_migrations.py`) | `schema_migrations` ledger, advisory lock | apply, baseline, dry run | SQL files |
| Status catalogue (`services/status`) | `status_master` | list, create | clients |
| Logging, configuration, legacy (`utils`, `services/poc`, `services/mongo`, `services/whatsapp`, `home_shell.dart`) | - | - | not on any path modelled |

What is hard to test here:

* The backend runs as several uvicorn workers (`Dockerfile`, `--workers
  ${WEB_CONCURRENCY:-2}`) over one database with READ COMMITTED transactions, no
  row locks and no version columns. Every check-then-write of a service method is
  a race between workers, and only unique constraints settle some of them.
* SQLAlchemy writes only the columns that changed, so two racing requests can
  leave a row that carries columns of both.
* Within one worker, handlers are `async def` whose bodies call synchronous
  services: a stretch without `await` is atomic with respect to the worker's
  other requests. The user endpoints have `require_admin` (async) last in front of
  a service that was already built, so check and body are one stretch; the client
  and organization endpoints still build their service in the thread pool after the
  authentication, so there the world may change in between.
* The app keeps tokens in memory and in secure storage, refreshes them on a 401
  with a rotating refresh token, from several ApiClient instances, while the user
  may sign out.
* The screen of the app follows from a profile that is read, cached and read again
  while an admin decides about it; a signup that the app gave up on may still be
  served.
* Queries run on the event loop of a worker, so an exhausted connection pool stops
  the requests that would give connections back.
* Migrations commit one by one under an advisory lock that belongs to a pooled
  connection, and a run may be killed or interrupted at any statement.

What makes each component correct is stated in section 3; `PROJECT.json` lists
each hazard at its line with the property that covers it.

## 2. Modules

| module | models |
|---|---|
| `Membership` | abstract: the lifecycle of a person (none, pending, active, suspended, rejected, archived), their company and the admin role; one action per decision |
| `Accounts` | users, organizations, authentication and audit: one step per SQL statement that another worker can separate, any number of workers |
| `AccountsProofs` | theorems about `Accounts`, for any number of workers |
| `MembershipProofs` | theorems about `Accounts` with one worker, its refinement of `Membership` among them |
| `ClientBook` | abstract: a book of client entries that every request changes in one stroke |
| `ClientRecords` | the client endpoints, statement by statement, and the account requests that decide who may own a client |
| `ClientRecordsProofs` | theorems about `ClientRecords`, its refinement of `ClientBook` among them |
| `Session` | the tokens of one installation of the app: memory, secure storage, requests, shared refresh, start-up check, sign-in, sign-out, Supabase's rotation |
| `SessionProofs` | theorems about `Session` |
| `SignIn` | one person, one installation and the backend: OTP sign-in, signup and bootstrap, "Check again", refresh, protected requests, sign-out, relaunch; its configurations instantiate it directly |
| `SignInProofs` | theorems about `SignIn` |
| `SchemaHistory` | abstract: a database that moves by whole migrations, each with its row, and by baselines; strays only after an interrupt |
| `Migrations` | runs of `apply_migrations.py` that overlap, statement by statement, with ledger, lock, transactions and pooled connections |
| `MigrationsProofs` | theorems about `Migrations`, its refinement of `SchemaHistory` among them |
| `Pool` | the event loop, the threads and the connections of one worker |
| `PoolProofs` | theorems about `Pool` |
| `MCAccounts`, `MCClientRecords`, `MCSession`, `MCMigrations`, `MCPool` | instances for TLC (symmetry, the columns a patch may carry, the ApiClient of each request, two releases, the endpoint of each request) |

### Accounts

`users` and `organizations` are the tables (`NoRow`: no such row). A user is its
Supabase identity; the identity `u` has the verified phone number `u`, but
`create_user` may give another number to a profile, so `phone` is a column. A join
code is the number of rotations of its organization so far. Names, contact
texts and timestamps are left out: no guard reads them.

`task[w]` is the stretch of a request that worker `w` is in, a record with the
operation, the acting admin and the company (what `require_admin` returned), the
row as it was loaded (`read`) and as the service method set it (`write`). The steps
of a request are `Authenticate` (get_current_user, require_admin), the method up to
its last check (`VerifyUser`, `UpdateAccess`, ...; `DeleteUser` goes on to
`CountAssignedClients`, a statement of its own), and the commit (`CommitUpdate`,
`CommitInsert`, `CommitBootstrap`) with the audit event in the same transaction. A
commit merges: `Merge` writes the columns whose value differs from the loaded
one. `Insert` fails on the primary key and on `users_phone_unique`. `RollBack`
stands for every exception, lost connection and killed worker.

With `Workers = {w1}` a worker finishes one stretch before it starts the next, so
the single-worker instance is exactly the single-process deployment; with two it is
the deployment of the `Dockerfile`. `rotate_join_code` is the endpoint of this module
that suspends between authentication and body: the request waits in `parked`, and a
free worker runs it later, whatever became of the admin.

`owner` is the slice of `client_info` that `delete_user` looks at; `AssignClient`
and `ArchiveClient` are the client endpoints reduced to it. The full client
endpoints are in `ClientRecords`. `OperatorSetsActive` is the operator who switches an
organization off and on with SQL (no endpoint does).

`Init` has any set of ADMIN profiles without a company: migration 003 left them so,
and migration 004 adds the nullable `organization_id`. The `DEV` role of the enum
can be given only by SQL or seeds and is left out.

### ClientRecords

`clients` is `client_info` reduced to company, phone, assignee, status and
`deleted_at`; `history` is `client_updates`. The acting user is left out: after
authentication the code uses only their company, as it was then, so a request
starts at its first statement in the service. `job[w].checks` are the checks still to
run, in the order of the code (assignee before phone).

Who may own a client is decided by the account requests. `company` is
`users.organization_id`, `founder` is `organizations.created_by`, and `assignable` the set
of profiles that are approved, active and unarchived. `Join` commits a signup or a
creation, `StaffChange` takes a profile in or out; each is one step, while the worker
serves nothing else. `bootstrap` is two, because it is the one request that moves a
profile: `Bootstrap` reads it, `CommitBootstrap` writes the company it lacked, whatever
another worker has put there meanwhile. So an admin from before migration 004
(`Legacy`) who submits twice on two workers founds two companies and leaves the first,
perhaps with clients in it. What `Accounts` has of these requests beyond that (who sends
them, codes, approval) is left out, so that `ClientRecords` allows more than `Accounts`.

### Session

Dart runs one continuation at a time, so a step of `Session` is what an asynchronous
function of the app does between two awaits. `thread[t].pc` names what thread `t` awaits:
an answer of secure storage (`calls` is the queue of those who wait: the platform
channel answers in order), of the backend (`sent`, `posted`, `otp`), or the shared
refresh of its ApiClient (`joined`). A thread is a request, the refresh that an
ApiClient has in flight, `checkSession`, or the person who signs in and out.
`thread[t].token` is the token it carries, `stage` its attempt.

A token is a session and the number of rotations before it; access and refresh token
of one exchange carry the same number. `memory` and `store` are the two places
where the app keeps them: `GetAccessToken` and the steps after it are
`_getAccessToken` with its two reads, each of which caches what it found; an
exchange is answered into memory at once and into storage by two saves. `supabase`
is external: it rotates the current refresh token and takes its parent within the reuse
interval; any refusal, a session that was ended included, is a refresh that fails. Rotation
(`Exchange`) and the answer (`ExchangeAnswered`) are two steps, and between
them the answer may be lost. `get`, `post`, `patch` and `delete` of `ApiClient` have the same control
and are one kind of request. `Relaunch` kills the app at any step, the saves in
progress included. An access token expires when nothing is running
(`AccessExpires`): an hour has passed since the last exchange, which is longer than
anything that ran then. A request on which the hour strikes
is refused like one that began after it.

Left out: the ApiClient of `auth_controller.dart:19`, which never sends a request;
what the app does with a profile, which is `SignIn`; what sign-out does when secure storage
itself fails (`auth_controller.dart:209-211`, `backend_auth_repository.dart:307-309`: it stops
after the first clearing of the memory and shows the error); and an access token that expires
while a refresh hangs, since `AccessExpires` waits until nothing is running.

### SignIn

`Session` asks which tokens are where; `SignIn` asks which screen a person gets to. Its
tokens are therefore only absent, good or expired, renewable or not, and the columns of a
profile are its stage (`account`), except `deleted_at` (`archived`). A `pending` profile may have
`is_active` set, as `create_user` leaves it; `setup` is an ADMIN profile without a company, `admin`
one with a company, `demoted` what `update_user` can make of it. In an answer and in the memory of
the app a profile is the screen it calls for (`Profile`): `_stateForUser` is all that reads it.

`thread` has the two flows of the app that may overlap: the check at launch, which
runs behind the login screen, and what the person started. A record says which
request it awaits (`call`), for which function of the repository (`for`: `getCurrentUser`
is `user`, `getAppProfile` is `profile`), whether a refresh was tried (`again`), whether
the cache is to be bypassed (`force`), with which token, and what the answer is. A request
is served (`StatusServed`, `SignupServed`, ...) and answered in different steps, so the
admin and the operator act in between. The thread-pool hop of a client endpoint is not in this
module (`Pool` has it). `Fails` is a refused, failed, lost or
timed-out request; a signup or bootstrap that the app gave up on may stay in `late` and
be served afterwards. `Relaunch` kills the app.

`AdminActs` is one request of the admin: create, decide, suspend, reinstate, archive, demote.
With two workers a decision may also be late: `DecisionLoads` is a worker that has loaded the
pending profile and passed the check of `verify_user`, and `DecidesLate` its commit, on top of
whatever the other worker has decided meanwhile. So a rejected profile can become active,
an approved one rejected, and an approval that lands after `delete_user` leaves
an archived profile whose columns say approved and active. Such a person is shown the clients
screen, where every request is refused (`Admits`): `EntryWasEarned` is about
what the columns said. The other races of two workers end in states that these reach too.

`seen` is history: which verdicts (in use, rejected) were true of the account since the thread
started. `Observes` keeps it in every step; after a relaunch, where both threads are new, it
starts anew (`ObservesAnew`).

### Migrations

An action is one statement sent to Postgres with the code that handles its answer;
`runner[r].pc` is the next statement, `tx[r]` the open transaction (`ran`, the migration it
executed; `rows`, the ledger entries it inserted), `ledger` and `schema` what is committed.
A checkout gives each version a text or none; equal checksums are equal texts. A process
reads only its own checkout, which nothing writes during a run, so the two re-checks of the
code (lines 117 and 138) cannot fail and have no action. A baseline inserts its rows one
by one (`BaselineInsert`) and commits them together.

`Commit` ends in `CheckOut`: the pool hands out the same connection or, because of
`pool_recycle` or `pool_pre_ping`, another one, and then the lock is gone. `StatementFails`
breaks the transaction; the unlock in `finally` fails with it, and the lock goes when the
engine is disposed. `Interrupt` is Ctrl-C between two statements: `finally` unlocks and commits
on a healthy transaction, so that a migration may be committed without its row (`strays`).
`Killed` ends the process. The race of two `create table if not exists` is left out.

The advisory lock is a session lock, and the module lets it go with the connection of the client
(`Disconnect`, `Killed`). That is so on a direct connection. docs/production-readiness.md:27
recommends the transaction pooler for the hosted backend; a script that connected through it would
take the lock on a server connection that outlives it and might never be unlocked, so `RunsEnd` and
`PlansStayFresh` say nothing of such a deployment.

### Pool

`pc[r]` is where a request is, `owner` who has each connection, `loop` the request whose
checkout blocks the event loop. A request is prepared in a thread (session, services,
`decode_jwt_token`), queries on the loop, for client, organization and status endpoints goes
through the thread pool once more (`Hop`), and after the response its session is closed in a
thread with a limiter of its own. `/ready` pings with no session of its own, and
`/postgres/health` pings while its session has a connection. While `loop` is taken,
only threads move. `TimesOut` is the checkout timeout.

## 3. Runs

| run | instance | shows |
|---|---|---|
| `accounts_one_worker` | 3 people, 2 companies, 1 client, 1 rotation each, 1 worker | the endpoints implement `Membership`; every user's last status event describes the row; nobody who owns a client is archived; no company loses its founder; no signup commits with a code that was rotated away; the invariant of the proofs for one worker |
| `accounts_two_workers` | 2 people, 2 companies that may be suspended, 2 workers | admins stay approved, active and alone in their company; archived profiles stay archived; the invariant of the proofs holds |
| `clients_one_worker` | 2 clients, 2 companies, 2 people, 1 of them an admin from before migration 004, 2 phones, 2 statuses, 2 status changes | every request is one stroke of `ClientBook` |
| `clients_two_workers` | 2 clients, 2 companies, 2 people, 1 phone, 2 statuses, 1 status change, patches with and without a phone, 2 workers | distinct phones among live clients; nobody owns a client of a company that is neither theirs nor founded by them, double bootstraps included; archived clients stay archived and in their company; the invariant of the proofs |
| `session` | 2 requests over 1 ApiClient, 2 sign-ins, 1 rotation each, fairness | sign-out leaves no token unless a refresh answers after it; a request is repeated once, with another token than the one refused; every request ends, unless the backend never answers the refresh it waits for; the loading screen goes away; the invariant of the proofs |
| `signin` | 1 person, decisions by two workers, 2 faults, fairness | the clients screen opens for no account that was not in use since the app began to find out, and the rejected screen for none that was not rejected since then; no request of the person, late ones included, changes a rejected or archived profile; whoever stays in use gets to the clients |
| `migrations` | 2 runners, 2 migrations, 2 releases, 3 runs, 1 replaced connection, 1 Ctrl-C, fairness | no migration is committed twice and its row has the text that ran, an interrupted run aside; success means that the ledger is that of the release (a baselined version has its row, whatever the schema has); while connections are kept, plans stay fresh; every run ends; `SchemaHistory` is implemented, in which a failed or killed run leaves no migration without its row |
| `pool` | 5 requests of all kinds, 2 connections, 2 threads, fairness | connections come back; the loop blocks only when the requests need more connections than there are; every request ends |

Runs that end in a counterexample, each a disagreement between the code and what
the code itself or the documentation says (`findings` in `PROJECT.json`):

| run | statement refuted | how |
|---|---|---|
| `accounts_decided_twice` | only pending requests are decided | two workers load the pending profile and commit one decision after the other |
| `session_after_sign_out` | signing out clears memory and storage | a refresh in flight at sign-out writes its tokens back |
| `signin_refresh` | a refresh rechecks the organization | `refresh_access_token` checks approval and `is_active`, never the organization |
| `migrations_lock` | migrations are applied under the advisory lock | a commit gives the connection to the pool, which may replace it; the lock goes with it |

More disagreements were met while modelling, which have no run of their own:

* `update_user` sets the role of any profile of the company, the admin's own included,
  although no screen hands the role on (`user_service.py:252` and `:344`); `Membership` has
  the step as `Demote`.
* `create_user` without `approval_status` leaves an active profile pending
  (`user_service.py:203`: `exclude_unset` drops the default of the request model).
* `delete_user` archives active users as well (`user_service.py:366-408`), where
  docs/organization-admin-setup.md:13-14 speaks of "inactive users"; `Archive` of `Membership` and
  of `Accounts` does what the code does.
* `verify_user` writes no `is_active` or `deleted_at` that it did not change, so a late approval of an
  archived profile leaves one that reads approved and active to the app and is refused by every
  endpoint.
* A client that is assigned between the count and the commit of `delete_user` stays with an
  archived user: `ArchivedOwnNoClient` holds with one worker and fails with two.
* Two bootstraps of one admin on two workers create two companies (`FoundersBelong` fails in
  the instance of `accounts_two_workers`), and clients of the first stay with an owner who is now
  in the second (`Belongs` in `ClientRecords` has the founder for this reason).
* A signup that read a join code before another worker rotated it commits with the old one
  (`RotatedCodesAdmitNobody` fails with two workers).
* The refresh of `ApiClient` has no timeout (`api_client.dart:43`), so the requests that wait for
  it wait as long as the backend keeps the connection.
* Two workers that change a client to the same status both record the change, the second of
  which changes nothing.
* docs/auth-workflow.md:61 speaks of "one shared refresh operation", while each ApiClient
  shares its own, and the client screens use two (`client_controller.dart:11` and `:21`).
* A request that starts during a refresh reads the spent refresh token from storage and caches
  it over the new one (`backend_auth_repository.dart:441`).
* `requestSignup` by a person whose profile exists already shows "pending", whatever the
  profile says; a suspended person is shown as waiting for approval; and a person with a profile
  gets the signup form when the second request of "Check again" fails (`getAppProfile` returns
  null for an error as for a missing profile).
* A newcomer gets no refresh token from `verifyOtp`, so a signup form that is an hour old
  can only be left by signing in again.
* The migration script unlocks before its last commit (`apply_migrations.py:176`), and a file
  with a lower number that comes later runs after the higher ones.
* `/ready` answers 503 in a burst of requests although the database is up.

Bounds. Three people are an admin, a member and a newcomer; two people are an admin
and a target, enough for a race of two requests about one profile; two companies
let a request reach for the wrong one. Two workers give every race of two requests,
and no check of the code relates more than two. `MaxRotations` bounds the join-code
rotations of a company and `MaxChanges` the status changes of a client; a request
beyond the bound does not start (rotation) or does not commit (status).

What `accounts_one_worker` and `clients_one_worker` check is about whole requests in any order,
not about two that overlap: the hazards of racing workers that `PROJECT.json` lists at the
same lines are outside them, and the disagreements above say which of their properties
fail with two workers. In `ClientRecords` two people are an admin who can bootstrap twice and
a newcomer who joins or founds; one phone and two clients of one company collide at
every insert, and what patches carry is limited to the columns that two requests can mix up.

`CHECK_DEADLOCK FALSE` stands in the configurations of `Accounts` without clients
and without newcomers: a company whose only admin was demoted has nobody left who may
send an account request, so the modelled system really can stop.

`MaxSignIns` and `MaxGen` bound the sign-ins and the rotations of a session; a
refresh beyond the bound fails. Two sign-ins let threads of the first session live into the
second; after one rotation a session has a spent, a current and an expired token,
which is all that the code can tell apart. Two requests share a refresh, or one comes
after the refresh of the other and spends the token that its own read has put
back into the cache. The instance with two ApiClients is that of
`session_after_sign_out`.

`MaxFaults` bounds what goes wrong for the person of `SignIn`, switches of the company
included: two faults let a lost signup, or a token that expires, be followed by a failed
refresh or a relaunch, or a company be switched off and on. Decisions are not bounded.
`MaxRuns`, `MaxReplacements` and `MaxInterrupts` bound `Migrations`: a run that was cut off
meets the next one and a third that overlaps both; failed statements and kills are not
bounded. A release and a branch that edited one migration and lacks the other give every
answer of the checksum comparison. In `Pool` two connections and five requests have every
order of a burst beyond capacity, with requests at each place where they hold a connection.

`CHECK_DEADLOCK FALSE` also stands in the configurations of `Migrations`: after `MaxRuns`
runs nothing starts. `SignIn_refresh.cfg` and `SignIn_entry.cfg`, and `MCPool_burst.cfg`,
check deadlock.

Fairness (`FairSpec` of each module):

* `Session`: weak fairness of the steps of every request, of the storage steps of every refresh, of the
  start-up check and of the person's sign-in or sign-out once begun. Secure storage answers; every HTTP
  request has a timeout of 30 s (`AppConfig.apiTimeout`) except the refresh of `ApiClient`. Nothing
  makes the backend answer that one or the connection break, and `RequestsEnd` says so: a request
  ends again and again, or it waits for ever for a refresh that is never answered. Nothing makes a person
  act, and nothing makes time pass.
* `SignIn`: requests are served or fail and their answers are handled (the same timeouts; the refresh for a
  load of clients, which has none, holds up only who has the clients screen open already).
  Here the property is about a person who wants to get in, so the person does what the screens
  ask for: enters the phone number and the code, submits the form, and, as
  docs/organization-admin-setup.md:52 says, "taps Check again or signs in again". Signing out of a
  signup or setup form is strongly fair, because after a failed bootstrap the form comes back
  without the choice to join, and its sign-out button is the only other way.
* `Migrations`: a process that does not wait runs on, and Postgres serves the waiters of a lock
  (strong fairness of `Lock`).
* `Pool`: the event loop and the limiter of the thread pool serve in the order of arrival
  (strong fairness of a request's steps), threads return because JWKS and Supabase calls have
  timeouts, and a checkout times out.

## 4. Proofs

`AccountsProofs` proves, for any number of people, companies, clients, workers and
rotations, from `SentinelAssumption` (the sentinels are not values) and
`BoundsAssumption`:

* `TypeCorrect`: `Spec => []TypeOK`.
* `Invariance`: `Spec => []IInv`, with `IInv == TypeOK /\ TasksSound /\ AdminsSound`.
  `AdminsInCharge` is not inductive: a request that was checked long ago may still
  commit, so the invariant must say what every request in progress is about to
  write. `TaskSound` says that the admin who sent it founded the organization it acts on, that
  its row is not that of an ADMIN unless its write is harmless to one, that it does
  not set ADMIN, and that it does not resurrect a profile. The key lemma is that this survives
  the commits of the other workers (`TasksKept`, `TablesGrow`): rows never disappear,
  founders never change, and nobody but a bootstrap makes an ADMIN.
* `AdminsAlwaysInCharge` and `ArchiveIsAlwaysFinal` (an action property) follow.

`MembershipProofs` proves, for any number of people, companies, clients and rotations but
under the hypothesis `OneWorker`, what the run `accounts_one_worker` checks:

* `OneWorkerInvariance`: `Spec => []SoloInv`. `SoloInv` adds to `IInv` that nothing is stale
  (`TasksFresh`): the row that the request in progress loaded is still the row, the newcomer it
  inserts has none, the founder it serves has no company yet, and what it checked of companies,
  codes and clients holds. That is what one worker gives: from its checks to its commit no
  other request runs. A rotation that waits in `parked` is the exception, and the
  invariant claims nothing of it but what `IInv` does. `CompaniesFounded`, `ProfilesPlaced`
  and `RejectedInactive` say which rows can exist.
* `OneWorkerImplementsMembership`: a commit is the step of `Membership` that its operation is
  named for, shown stage by stage (`Stages`, `StagesMove`, and one lemma for each kind of commit);
  every other step stutters.
* `FoundersAlwaysBelong`, `AuditAlwaysDescribes`, `ArchivedNeverOwn` and
  `RotatedCodesNeverAdmit` follow: each is a sentence about a commit whose request has
  fresh data.

`OneWorker` is the backend as README.md:28 starts it, and cannot go: with the two workers that the
`Dockerfile` starts by default, TLC finds `ImplementsMembership`, `FoundersBelong`,
`AuditDescribesRows` and `ArchivedOwnNoClient` violated. It is a hypothesis of these theorems and
not an assumption of the module, so what `AccountsProofs` proves does not rest on it.

`ClientRecordsProofs` proves `TypeCorrect`, `Invariance`, `LivePhonesAlwaysUnique`,
`OwnersAlwaysBelong` and `ArchivedAlwaysForGood` (an action property) for any number of people,
companies and workers, from `SentinelAssumption`, `LegacyAssumption` and `BoundsAssumption`. `JobSound`
says that a request in progress stays within the company it was authorised for and, once the assignee
was checked, writes only somebody who belongs to it or the owner it loaded. That this survives the
account requests of other workers is `FoundingSound`: a bootstrap that moves a profile read it without
a company, and if it has one by now, its person founded that company; founders never change
(`created_by`), so who is moved still `Belongs`. `OneWorkerImplementsClientBook` is the refinement of
`ClientBook`, with one worker: the record that the request loaded is still the record, so that the
columns its commit merges make up one stroke of the book.

`SessionProofs` proves, for any number of requests, ApiClients, sign-ins and rotations, from
`ThreadsAssumption`, `BoundsAssumption` and `TokenAssumption`:

* `TokensInvariance`: `Spec => []TokensInv`. That no request is repeated with the token that was
  refused does not follow from where the repeating request is: another read of storage, begun
  before the refresh, may still come back and put the old token into memory. It is the queue
  of storage that prevents it. A read is `Covered` if a refused access token that is in storage
  will be overwritten or deleted by a call in front of it. `ReadsCovered` says that all reads
  behind a place of the queue are covered once a thread waits there for a refresh token,
  or is past it; that a thread gets there by finding memory or storage good, or behind
  such a call, is the induction. `MemoryRenewed` says that from the answer to a refresh to the
  repetition no refused token is in memory. `SessionsSound`, `QueueSound` and
  `ThreadsSound` say what Supabase, the queue and single threads may be.
* The proof is split accordingly: lemmas about a queue whose first call is answered and to which
  one is added (`Shifted`, `CoverShifts`, `PastKept`), the steps that move one thread
  (`MoveKeeps`, which asks of memory and storage only what `Lawful` says), those that wake all who
  wait for a refresh (`WakeKeeps`), and those that happen when nothing is under way
  (`RestingIsSound`).
* `TypeCorrect`, and `RepeatsUseNewTokens` (an action property), follow.
* `SignOutAlwaysClears`: from a sign-out on, if no refresh was being saved and until one is answered,
  memory and storage are empty and nobody is about to save, so that a read finds nothing to cache.

`MigrationsProofs` proves, for any number of runners, migrations, texts, releases, runs
and faults, from `SizesAssumption` and `CheckoutsAssumption`:

* `InvariantHolds`: `IInv`, which adds to `AppliedOnce` what makes it inductive. `RowsSound`: a
  version that an open transaction has inserted is not in the ledger and in no other transaction.
  That is the primary key's doing, not the lock's. `TxSound` says what a transaction may hold at
  each statement, `PlanSound` that every file outside the plan of a run is in the ledger with
  the text of its checkout.
* `TypeCorrect`, `MigrationsApplyOnce`, `SuccessMeansCurrent`, and `RecordedForGood` (an action
  property) follow.
* `LockKeepsPlansFresh` needs a second invariant, of the lock: while no connection was replaced and
  no run interrupted, a run that works holds the lock and its plan is what the ledger lacks.
* `Refinement`: `Spec => ImplementsSchemaHistory`. `Start` to `InsertRow` and `Disconnect` stutter, `Commit`
  and `LastCommit` are `Apply`, `Baseline`, `Stray` or a stutter, and `Stray` only after an `Interrupt`: `TxSound`
  says that without one, a transaction that reaches the last commit is empty.

`PoolProofs` proves `TypeCorrect`, `ConnectionsComeBack` and `LoopRunsWithinCapacity` for any
worker from `WorkerAssumption`. The invariant adds that `/ready` never owns a connection and that
only `/ready` and health checks ping. For the capacity, a stall makes `owner` an injection
of the connections into the requests in progress; either the request that waits is not among its
values, or it is a health check, counted twice; both contradict the pigeonhole principle.

`SignInProofs` proves `TypeCorrect`, `EntryIsEarned`, `RefusalIsTrue` and
`RequestsAlwaysLeaveRefused` for any number of failures, kills, expiries and switches of the company
(`FaultsAssumption`), with the decisions of two workers. What a screen shows follows from what the app knows, so the
invariant says what each piece of it proves: an answer (`AnswersTrue`), the user data in
memory, which either thread may have put there (`MemoryTrue`), and the data of a sign-in
while its tokens are saved and the check at launch may replace them (`SavedWithUser`).
It rests on two facts about the check at launch: it never bypasses the memory
(`ThreadsSound`), and as it begins with the app and once only, it has seen all that the
person's flow has (`LaunchSeesMore`). Every action is shown to satisfy `StepSound`, which says what a step may
do to this knowledge, and `StepKeeps` concludes from it once.

Only model-checked: liveness under fairness (`RequestsEnd` and `LoadingEnds` of `Session`,
`RunsEnd`, `InUseGetsIn`, `RequestsEnd` of `Pool`), which needs ENABLED and is out of the
prover's reach, as is induction over data. Every safety property and refinement of a
passing run is a theorem too.

## 5. Not modelled

* Reading endpoints, searches, response formats, names and notes.
* JWT verification, TLS, Supabase itself (external: an identity is a verified user).
* `sync_seeded_test_clients` (developers' test data), `create_status` (one insert
  behind a primary key).
* The dashboard, its cache and the admin screens: they show what came last and decide nothing.
* What the SQL of a migration does, the creation and shutdown of the engine.
* Logging, configuration, and the legacy services that `main.py` does not mount.

## 6. Plan

1. Proofs of what two workers cannot break beyond `IInv`: which of the one-worker theorems hold
   of a company whose requests do not overlap.
2. `Dashboard`: loads, silent reloads and searches whose answers arrive out of order.
3. `sync_seeded_test_clients` as an operation of `ClientRecords`.
