----------------------------- MODULE Migrations -----------------------------
(***************************************************************************)
(* scripts/apply_migrations.py: runs that overlap, each on its own checkout *)
(* of the migration files and its own connection, against the ledger of the *)
(* database and its advisory lock.                                         *)
(*                                                                         *)
(* An action is one statement sent to Postgres (READ COMMITTED) with the    *)
(* code that handles its answer.  A run may be killed, a statement may      *)
(* fail, and Ctrl-C may arrive between two statements.  A commit gives the  *)
(* connection back to the pool; pool_recycle and pool_pre_ping may replace  *)
(* it there, and the advisory lock, which belongs to the connection, goes   *)
(* with it.  Behind a transaction pooler (docs/production-readiness.md:27)  *)
(* the lock belongs to a server connection of the pooler instead, which     *)
(* outlives the client: such a deployment is not modelled.                 *)
(***************************************************************************)
EXTENDS Naturals, Sequences, FiniteSets

CONSTANTS
    Runners,          \* processes that run the script, any number of times
    NMigrations,      \* the versions are 1..NMigrations, in the order of their names
    Texts,            \* contents of a file; equal checksums mean equal contents
    Checkouts,        \* the releases: the text of each migration, NoRow if absent
    NoRow,
    None,
    MaxRuns,          \* bound on the runs
    MaxReplacements,  \* bound on the connections that the pool replaces
    MaxInterrupts     \* bound on Ctrl-C

Versions == 1..NMigrations

ASSUME SizesAssumption ==
    /\ NMigrations \in Nat
    /\ MaxRuns \in Nat
    /\ MaxReplacements \in Nat
    /\ MaxInterrupts \in Nat

ASSUME CheckoutsAssumption ==
    /\ NoRow \notin Texts
    /\ None \notin Runners
    /\ Checkouts \subseteq [Versions -> Texts \cup {NoRow}]

VARIABLES
    ledger,   \* public.schema_migrations: the checksum of each version
    schema,   \* the migrations executed and committed, in order
    strays,   \* history: migrations committed without a row
    holder,   \* the runner whose connection has the advisory lock
    runner,   \* each runner: where it is, what it was asked, its plan
    tx,       \* the open transaction of each runner: what it executed, its rows
    used      \* the bounds spent so far

vars == <<ledger, schema, strays, holder, runner, tx, used>>

\* `target` counts for --baseline-through alone.
Modes == {"apply", "dry_run", "baseline"}

Pcs == {"idle", "lock", "plan", "baseline", "execute", "insert", "commit",
        "unlock", "last_commit", "disconnect"}

NoTx == [ran |-> 0, rows |-> {}]

NoFiles == [m \in Versions |-> NoRow]

Idle == [pc |-> "idle", mode |-> "apply", target |-> 0, checkout |-> NoFiles,
         pending |-> {}, ok |-> FALSE]

At(r, pc) == runner[r].pc = pc

Goto(r, pc) == runner' = [runner EXCEPT ![r].pc = pc]

\* The `finally` after the lock, entered with the outcome of the run.
Finally(r, ok) ==
    runner' = [runner EXCEPT ![r].pc = "unlock", ![r].ok = ok, ![r].pending = {}]

\* Mutant: names that are no file of the checkout count too.
MigrationFilesUnfiltered(checkout) == Versions

MigrationFiles(checkout) == {m \in Versions : checkout[m] # NoRow}

\* The checkout is not written during a run, so that the checksum of the plan
\* and the text that is executed later are those of the same file.
FileChecksum(r, m) == runner[r].checkout[m]

BaselineFiles(r) ==
    {m \in MigrationFiles(runner[r].checkout) : m <= runner[r].target}

Pending(r) ==
    {m \in MigrationFiles(runner[r].checkout) : ledger[m] = NoRow}

\* Mutant: checksums are not compared.
AppliedWasModifiedNever(r) == FALSE

AppliedWasModified(r) ==
    \E m \in MigrationFiles(runner[r].checkout) :
        ledger[m] \notin {NoRow, FileChecksum(r, m)}

IsNext(m, files) == \A n \in files : m <= n

\* The files of a baseline that have no row yet.
BaselineLeft(r) == (runner[r].pending \cap BaselineFiles(r)) \ tx[r].rows

TypeOK ==
    /\ ledger \in [Versions -> Texts \cup {NoRow}]
    /\ schema \in Seq([migration: Versions, text: Texts])
    /\ strays \subseteq Versions
    /\ holder \in Runners \cup {None}
    /\ runner \in [Runners -> [pc: Pcs, mode: Modes, target: Versions \cup {0},
                               checkout: Checkouts \cup {NoFiles}, pending: SUBSET Versions,
                               ok: BOOLEAN]]
    /\ tx \in [Runners -> [ran: Versions \cup {0}, rows: SUBSET Versions]]
    /\ used \in [runs: 0..MaxRuns, replacements: 0..MaxReplacements,
                 interrupts: 0..MaxInterrupts]

Init ==
    /\ ledger = [m \in Versions |-> NoRow]
    /\ schema = <<>>
    /\ strays = {}
    /\ holder = None
    /\ runner = [r \in Runners |-> Idle]
    /\ tx = [r \in Runners |-> NoTx]
    /\ used = [runs |-> 0, replacements |-> 0, interrupts |-> 0]
-----------------------------------------------------------------------------
UnchangedDatabase == UNCHANGED <<ledger, schema, strays>>

\* The script connects, creates the ledger if there is none and commits.
Start(r) ==
    /\ At(r, "idle")
    /\ used.runs < MaxRuns
    /\ used' = [used EXCEPT !.runs = @ + 1]
    /\ \E mode \in Modes, checkout \in Checkouts :
       \E target \in (IF mode = "baseline" THEN Versions ELSE {0}) :
           runner' = [runner EXCEPT ![r] =
                         [Idle EXCEPT !.pc = "lock", !.mode = mode,
                                      !.target = target, !.checkout = checkout]]
    /\ UNCHANGED <<holder, tx>> /\ UnchangedDatabase

\* Mutant: no advisory lock.
LockNothing(r) ==
    /\ At(r, "lock")
    /\ holder' = r
    /\ Goto(r, "plan")
    /\ UNCHANGED <<tx, used>> /\ UnchangedDatabase

Lock(r) ==
    /\ At(r, "lock")
    /\ holder = None
    /\ holder' = r
    /\ Goto(r, "plan")
    /\ UNCHANGED <<tx, used>> /\ UnchangedDatabase

\* One SELECT of the ledger; the rest of a plan reads files.
Plans(r, pc) == runner' = [runner EXCEPT ![r].pc = pc, ![r].pending = Pending(r)]

PlanStops(r) ==
    /\ At(r, "plan")
    /\ \/ AppliedWasModified(r)
       \/ /\ runner[r].mode = "baseline"
          /\ runner[r].target \notin MigrationFiles(runner[r].checkout)
    /\ Finally(r, FALSE)
    /\ UNCHANGED <<holder, tx, used>> /\ UnchangedDatabase

PlanBaseline(r) ==
    /\ At(r, "plan")
    /\ ~ AppliedWasModified(r)
    /\ runner[r].mode = "baseline"
    /\ runner[r].target \in MigrationFiles(runner[r].checkout)
    /\ Plans(r, "baseline")
    /\ UNCHANGED <<holder, tx, used>> /\ UnchangedDatabase

PlanDryRun(r) ==
    /\ At(r, "plan")
    /\ ~ AppliedWasModified(r)
    /\ runner[r].mode = "dry_run"
    /\ Finally(r, TRUE)
    /\ UNCHANGED <<holder, tx, used>> /\ UnchangedDatabase

PlanApply(r) ==
    /\ At(r, "plan")
    /\ ~ AppliedWasModified(r)
    /\ runner[r].mode = "apply"
    /\ IF Pending(r) = {} THEN Finally(r, TRUE) ELSE Plans(r, "execute")
    /\ UNCHANGED <<holder, tx, used>> /\ UnchangedDatabase

\* Mutant: a failed run commits in `finally` what it had executed.
AbortsIntoFinally(r) ==
    /\ Finally(r, FALSE)
    /\ UNCHANGED <<holder, tx, used>> /\ UnchangedDatabase

\* The session dies with what it wrote.  Its connection keeps the lock until
\* the engine is disposed.
Aborts(r) ==
    /\ runner' = [runner EXCEPT ![r].pc = "disconnect", ![r].pending = {}, ![r].ok = FALSE]
    /\ tx' = [tx EXCEPT ![r] = NoTx]
    /\ UNCHANGED <<holder, used>> /\ UnchangedDatabase

\* The primary key of the ledger: an INSERT waits for the open transaction that
\* inserted the same version, and fails when that version is there.
Free(r, m) == \A q \in Runners \ {r} : m \notin tx[q].rows

\* Mutant: version is no primary key.
InsertsAnyway(r, m, pc) ==
    /\ tx' = [tx EXCEPT ![r].rows = @ \cup {m}]
    /\ Goto(r, pc)
    /\ UNCHANGED <<holder, used>> /\ UnchangedDatabase

Inserts(r, m, pc) ==
    /\ Free(r, m)
    /\ IF ledger[m] # NoRow
       THEN Aborts(r)
       ELSE /\ tx' = [tx EXCEPT ![r].rows = @ \cup {m}]
            /\ Goto(r, pc)
            /\ UNCHANGED <<holder, used>> /\ UnchangedDatabase

BaselineInsert(r) ==
    /\ At(r, "baseline")
    /\ \E m \in BaselineLeft(r) : IsNext(m, BaselineLeft(r)) /\ Inserts(r, m, "baseline")

BaselineEnds(r) ==
    /\ At(r, "baseline")
    /\ BaselineLeft(r) = {}
    /\ Goto(r, "commit")
    /\ UNCHANGED <<holder, tx, used>> /\ UnchangedDatabase

\* Mutant: the SQL of a migration commits on its own.
ExecuteAutocommits(r) ==
    /\ At(r, "execute")
    /\ \E m \in runner[r].pending :
           /\ IsNext(m, runner[r].pending)
           /\ tx' = [tx EXCEPT ![r].ran = m]
           /\ schema' = Append(schema, [migration |-> m, text |-> FileChecksum(r, m)])
    /\ Goto(r, "insert")
    /\ UNCHANGED <<ledger, strays, holder, used>>

Execute(r) ==
    /\ At(r, "execute")
    /\ \E m \in runner[r].pending :
           IsNext(m, runner[r].pending) /\ tx' = [tx EXCEPT ![r].ran = m]
    /\ Goto(r, "insert")
    /\ UNCHANGED <<holder, used>> /\ UnchangedDatabase

InsertRow(r) ==
    /\ At(r, "insert")
    /\ Inserts(r, tx[r].ran, "commit")

\* What COMMIT makes of the transaction of r.
Commits(r) ==
    /\ ledger' = [m \in Versions |->
                     IF m \in tx[r].rows THEN FileChecksum(r, m) ELSE ledger[m]]
    /\ schema' = IF tx[r].ran = 0 THEN schema
                 ELSE Append(schema, [migration |-> tx[r].ran,
                                      text |-> FileChecksum(r, tx[r].ran)])
    /\ strays' = IF tx[r].ran \in tx[r].rows \cup {0} THEN strays
                 ELSE strays \cup {tx[r].ran}
    /\ tx' = [tx EXCEPT ![r] = NoTx]

\* The connection goes through the pool: the next statement finds the same one,
\* or a new one without the lock.
CheckOut(r) ==
    \/ UNCHANGED <<holder, used>>
    \/ /\ used.replacements < MaxReplacements
       /\ used' = [used EXCEPT !.replacements = @ + 1]
       /\ holder = r
       /\ holder' = None

Commit(r) ==
    /\ At(r, "commit")
    /\ Commits(r)
    /\ CheckOut(r)
    /\ LET left == runner[r].pending \ tx[r].rows
       IN IF runner[r].mode = "baseline" \/ left = {}
          THEN Finally(r, TRUE)
          ELSE runner' = [runner EXCEPT ![r].pc = "execute", ![r].pending = left]

\* pg_advisory_unlock answers false and does nothing when the lock is not held.
Release(r) == holder' = IF holder = r THEN None ELSE holder

Unlock(r) ==
    /\ At(r, "unlock")
    /\ Release(r)
    /\ Goto(r, "last_commit")
    /\ UNCHANGED <<tx, used>> /\ UnchangedDatabase

\* The commit of the `finally`: of whatever the transaction still holds.
LastCommit(r) ==
    /\ At(r, "last_commit")
    /\ Commits(r)
    /\ Goto(r, "disconnect")
    /\ UNCHANGED <<holder, used>>

\* Mutant: the engine is not disposed, and the process lives on.
DisconnectLeaks(r) ==
    /\ At(r, "disconnect")
    /\ runner' = [runner EXCEPT ![r] = Idle]
    /\ UNCHANGED <<holder, tx, used>> /\ UnchangedDatabase

Disconnect(r) ==
    /\ At(r, "disconnect")
    /\ Release(r)
    /\ runner' = [runner EXCEPT ![r] = Idle]
    /\ UNCHANGED <<tx, used>> /\ UnchangedDatabase
-----------------------------------------------------------------------------
Working == {"plan", "baseline", "execute", "insert", "commit"}

\* A statement fails, or its connection does: the unlock in `finally` fails too.
StatementFails(r) ==
    /\ runner[r].pc \in Working \cup {"lock", "unlock", "last_commit"}
    /\ Aborts(r)

\* Ctrl-C between two statements: `finally` runs on a healthy transaction.
Interrupt(r) ==
    /\ runner[r].pc \in Working
    /\ used.interrupts < MaxInterrupts
    /\ used' = [used EXCEPT !.interrupts = @ + 1]
    /\ Finally(r, FALSE)
    /\ UNCHANGED <<holder, tx>> /\ UnchangedDatabase

Killed(r) ==
    /\ ~ At(r, "idle")
    /\ Release(r)
    /\ tx' = [tx EXCEPT ![r] = NoTx]
    /\ runner' = [runner EXCEPT ![r] = Idle]
    /\ UNCHANGED used /\ UnchangedDatabase

Step(r) ==
    \/ Lock(r)
    \/ PlanStops(r) \/ PlanBaseline(r) \/ PlanDryRun(r) \/ PlanApply(r)
    \/ BaselineInsert(r) \/ BaselineEnds(r) \/ Execute(r) \/ InsertRow(r) \/ Commit(r)
    \/ Unlock(r) \/ LastCommit(r) \/ Disconnect(r)

Next ==
    \E r \in Runners :
        \/ Start(r) \/ Step(r)
        \/ StatementFails(r) \/ Interrupt(r) \/ Killed(r)

Spec == Init /\ [][Next]_vars

\* A process that is not waiting runs on; Postgres queues the waiters of a lock.
FairSpec == Spec /\ \A r \in Runners : WF_vars(Step(r)) /\ SF_vars(Lock(r))
-----------------------------------------------------------------------------
\* No migration is committed twice, and its row holds the checksum of the text
\* that ran, whatever overlaps: of two runners that lost the lock, the primary
\* key lets one commit the migration and its row, and the other rolls back both.
\* Only an interrupted run leaves a migration without its row.
AppliedOnce ==
    /\ \A i, j \in DOMAIN schema :
           schema[i].migration = schema[j].migration =>
               i = j \/ schema[i].migration \in strays
    /\ \A i \in DOMAIN schema :
           ledger[schema[i].migration] = schema[i].text
               \/ schema[i].migration \in strays
    /\ used.interrupts = 0 => strays = {}

\* A run that ends well leaves a ledger that has every migration of its release,
\* with the contents of its release, even when other runs overlapped.  It is the
\* ledger that is meant: a version that was baselined has a row, whether or not
\* the schema ever had its migration.
SuccessIsCurrent ==
    \A r \in Runners :
        (runner[r].ok /\ runner[r].mode = "apply") =>
            \A m \in MigrationFiles(runner[r].checkout) : ledger[m] = FileChecksum(r, m)

\* While every runner keeps its connection, what a runner is about to execute
\* is what the ledger still lacks: no other run got in since the plan was made.
PlansStayFresh ==
    used.replacements = 0 /\ used.interrupts = 0 =>
        \A r \in Runners :
            runner[r].pc \in {"baseline", "execute", "insert", "commit"} =>
                /\ holder = r
                /\ \A m \in runner[r].pending : ledger[m] = NoRow

\* Once a version is in the ledger, applied or baselined, no run executes it
\* again (an interrupted run aside).
RecordedStaysDone ==
    [][\A m \in Versions \ strays' : ledger[m] # NoRow =>
           /\ ledger'[m] = ledger[m]
           /\ \A i \in DOMAIN schema' \ DOMAIN schema : schema'[i].migration # m]_vars

\* What each step keeps, for the proofs: a version that a transaction inserts is
\* not yet in the ledger and in no other transaction, which the primary key and
\* nothing else ensures, and a plan accounts for every file of its release.
RowsSound ==
    \A r \in Runners : \A m \in tx[r].rows :
        /\ ledger[m] = NoRow
        /\ m \in MigrationFiles(runner[r].checkout)
        /\ \A q \in Runners \ {r} : m \notin tx[q].rows

Current(r, files) == \A m \in files : ledger[m] = FileChecksum(r, m)

TxSound(r) ==
    /\ tx[r].ran # 0 => /\ tx[r].ran \in MigrationFiles(runner[r].checkout)
                        /\ tx[r].rows \subseteq {tx[r].ran}
    /\ runner[r].pc = "insert" => tx[r].ran # 0 /\ tx[r].rows = {}
    /\ runner[r].pc = "commit" => tx[r].ran \in tx[r].rows \cup {0}
    /\ runner[r].pc \in {"unlock", "last_commit"} /\ used.interrupts = 0 =>
           tx[r] = NoTx
    /\ runner[r].pc = "baseline" => tx[r].ran = 0
    /\ runner[r].pc \notin {"baseline", "insert", "commit", "unlock", "last_commit"} =>
           tx[r] = NoTx

PlanSound(r) ==
    LET files == MigrationFiles(runner[r].checkout)
    IN /\ runner[r].pending \subseteq files
       /\ runner[r].pc \in {"baseline", "execute", "insert", "commit"} =>
              Current(r, files \ runner[r].pending)
       /\ runner[r].ok => /\ runner[r].pc \in {"unlock", "last_commit", "disconnect"}
                          /\ runner[r].mode = "apply" => Current(r, files)

IInv ==
    /\ TypeOK /\ AppliedOnce /\ RowsSound
    /\ \A r \in Runners : TxSound(r) /\ PlanSound(r)

\* Every run ends, one that waits for the lock of a run that failed or was
\* killed included, since the lock goes with the connection of that run.
RunsEnd == \A r \in Runners : ~ At(r, "idle") ~> At(r, "idle")

\* The migration runner works under the advisory lock (production-readiness.md).
WorksUnderLock ==
    \A r \in Runners :
        runner[r].pc \in {"baseline", "execute", "insert", "commit"} => holder = r

History == INSTANCE SchemaHistory WITH
               Migrations <- Versions, interrupts <- used.interrupts

\* The runner implements SchemaHistory: whatever overlaps, fails or is killed,
\* a migration reaches the database with its row or not at all, and until
\* somebody interrupts a run no migration is left without one.
ImplementsSchemaHistory == History!Spec
=============================================================================
