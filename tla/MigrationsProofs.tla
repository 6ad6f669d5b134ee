-------------------------- MODULE MigrationsProofs --------------------------
(***************************************************************************)
(* Theorems about Migrations, for every number of runners, migrations and  *)
(* releases, and for every bound.                                          *)
(***************************************************************************)
EXTENDS Migrations, TLAPS

Job == [pc: Pcs, mode: Modes, target: Versions \cup {0},
        checkout: Checkouts \cup {NoFiles}, pending: SUBSET Versions, ok: BOOLEAN]

Tx == [ran: Versions \cup {0}, rows: SUBSET Versions]

LEMMA IdleTyped == Idle \in Job /\ NoTx \in Tx /\ 0 \notin Versions
  BY DEF Idle, Job, Pcs, Modes, NoTx, Tx, Versions, NoFiles

\* The text of a file that is there.
LEMMA FilesTyped ==
  ASSUME NEW checkout \in Checkouts \cup {NoFiles}, NEW m \in MigrationFiles(checkout)
  PROVE  m \in Versions /\ m # 0 /\ checkout[m] \in Texts
  <1>1. m \in Versions /\ checkout[m] # NoRow
    BY DEF MigrationFiles
  <1>2. checkout \in [Versions -> Texts \cup {NoRow}]
    BY CheckoutsAssumption DEF NoFiles
  <1>3. QED
    BY <1>1, <1>2, IdleTyped

-----------------------------------------------------------------------------
(* Commits *)

\* A row that the ledger has stays as it is, and the new rows are those of the
\* transaction, which no other transaction holds.
LEMMA CommitsLedger ==
  ASSUME IInv, NEW r \in Runners, Commits(r)
  PROVE  /\ ledger' \in [Versions -> Texts \cup {NoRow}]
         /\ \A m \in Versions : ledger[m] # NoRow => ledger'[m] = ledger[m]
         /\ \A m \in tx[r].rows : ledger'[m] = FileChecksum(r, m) /\ ledger[m] = NoRow
         /\ \A m \in Versions \ tx[r].rows : ledger'[m] = ledger[m]
  <1>1. /\ ledger \in [Versions -> Texts \cup {NoRow}]
        /\ tx[r].rows \subseteq Versions
        /\ runner[r].checkout \in Checkouts \cup {NoFiles}
    BY DEF IInv, TypeOK
  <1>2. \A m \in tx[r].rows : ledger[m] = NoRow /\ runner[r].checkout[m] \in Texts
    BY <1>1, FilesTyped DEF IInv, RowsSound
  <1>3. QED
    BY <1>1, <1>2 DEF Commits, FileChecksum

\* What a commit adds to the schema.
LEMMA CommitsSchema ==
  ASSUME IInv, NEW r \in Runners, Commits(r)
  PROVE  \/ UNCHANGED <<schema, strays>> /\ tx[r].ran = 0
         \/ /\ tx[r].ran \in MigrationFiles(runner[r].checkout)
            /\ tx[r].ran \in Versions
            /\ FileChecksum(r, tx[r].ran) \in Texts
            /\ schema' = Append(schema, [migration |-> tx[r].ran,
                                         text |-> FileChecksum(r, tx[r].ran)])
            /\ \/ tx[r].rows = {tx[r].ran} /\ UNCHANGED strays
               \/ tx[r].rows = {} /\ strays' = strays \cup {tx[r].ran}
  <1>1. runner[r].checkout \in Checkouts \cup {NoFiles}
    BY DEF IInv, TypeOK
  <1>2. CASE tx[r].ran = 0
    BY <1>2 DEF Commits
  <1>3. CASE tx[r].ran # 0
    <2>1. tx[r].ran \in MigrationFiles(runner[r].checkout) /\ tx[r].rows \subseteq {tx[r].ran}
      BY <1>3 DEF IInv, TxSound
    <2>2. tx[r].ran \in Versions /\ FileChecksum(r, tx[r].ran) \in Texts
      BY <1>1, <2>1, FilesTyped DEF FileChecksum
    <2>3. QED
      BY <1>3, <2>1, <2>2 DEF Commits
  <1>4. QED
    BY <1>2, <1>3

\* A migration that commits with its row was not in the schema, a stray aside.
LEMMA CommitsOnce ==
  ASSUME IInv, NEW r \in Runners, Commits(r)
  PROVE  /\ schema' \in Seq([migration: Versions, text: Texts])
         /\ strays' \subseteq Versions
         /\ \A i, j \in DOMAIN schema' :
                schema'[i].migration = schema'[j].migration =>
                    i = j \/ schema'[i].migration \in strays'
         /\ \A i \in DOMAIN schema' :
                ledger'[schema'[i].migration] = schema'[i].text
                    \/ schema'[i].migration \in strays'
  <1>1. /\ schema \in Seq([migration: Versions, text: Texts])
        /\ strays \subseteq Versions
        /\ ledger \in [Versions -> Texts \cup {NoRow}]
    BY DEF IInv, TypeOK
  <1>2. /\ \A i, j \in DOMAIN schema :
               schema[i].migration = schema[j].migration =>
                   i = j \/ schema[i].migration \in strays
        /\ \A i \in DOMAIN schema :
               ledger[schema[i].migration] = schema[i].text
                   \/ schema[i].migration \in strays
    BY DEF IInv, AppliedOnce
  <1>3. \A i \in DOMAIN schema :
            /\ schema[i].migration \in Versions
            /\ schema[i].text \in Texts /\ schema[i].text # NoRow
    <2>1. ASSUME NEW S, schema \in Seq(S), NEW i \in DOMAIN schema
          PROVE  schema[i] \in S
      BY <2>1
    <2>2. ASSUME NEW i \in DOMAIN schema
          PROVE  schema[i].migration \in Versions /\ schema[i].text \in Texts
      <3>1. schema[i] \in [migration: Versions, text: Texts]
        BY <1>1, <2>1, <2>2
      <3>2. QED
        BY <3>1
    <2>3. QED
      BY <2>2, CheckoutsAssumption
  <1>4. \A m \in Versions : ledger[m] # NoRow => ledger'[m] = ledger[m]
    BY CommitsLedger
  <1>5. \A i \in DOMAIN schema :
            ledger'[schema[i].migration] = schema[i].text
                \/ schema[i].migration \in strays
    BY <1>2, <1>3, <1>4
  <1>6. CASE UNCHANGED <<schema, strays>>
    BY <1>1, <1>2, <1>5, <1>6
  <1>7. CASE tx[r].ran # 0
    <2> DEFINE m == tx[r].ran
               e == [migration |-> m, text |-> FileChecksum(r, m)]
    <2>1. /\ m \in Versions /\ FileChecksum(r, m) \in Texts
          /\ schema' = Append(schema, e)
          /\ \/ tx[r].rows = {m} /\ UNCHANGED strays
             \/ tx[r].rows = {} /\ strays' = strays \cup {m}
      BY <1>7, CommitsSchema
    <2>2. schema' \in Seq([migration: Versions, text: Texts]) /\ strays' \subseteq Versions
      BY <1>1, <2>1
    <2>3. /\ DOMAIN schema' = DOMAIN schema \cup {Len(schema) + 1}
          /\ \A i \in DOMAIN schema : schema'[i] = schema[i]
          /\ schema'[Len(schema) + 1] = e
      BY <1>1, <2>1
    <2>4. m \in strays' \/ (ledger'[m] = e.text /\ ledger[m] = NoRow)
      BY <2>1, CommitsLedger
    <2>5. \A i \in DOMAIN schema : schema[i].migration = m => m \in strays'
      BY <1>2, <1>3, <2>1, <2>4
    <2>6. strays \subseteq strays'
      BY <2>1
    <2>7. QED
      BY <1>2, <1>5, <2>2, <2>3, <2>4, <2>5, <2>6
  <1>8. QED
    BY <1>6, <1>7, CommitsSchema, IdleTyped

-----------------------------------------------------------------------------
(* The invariant *)

\* A step of r leaves the job and the transaction of the other runners alone.
LEMMA OthersKeep ==
  ASSUME IInv, NEW r \in Runners, NEW job \in Job, NEW t \in Tx,
         runner' = [runner EXCEPT ![r] = job],
         tx' = [tx EXCEPT ![r] = t]
  PROVE  /\ runner' \in [Runners -> Job] /\ tx' \in [Runners -> Tx]
         /\ runner'[r] = job /\ tx'[r] = t
         /\ \A q \in Runners \ {r} : runner'[q] = runner[q] /\ tx'[q] = tx[q]
  BY DEF IInv, TypeOK, Job, Tx

\* A step that commits nothing keeps the invariant when it keeps that of the
\* runner that takes it.
LEMMA QuietStep ==
  ASSUME IInv, NEW r \in Runners, NEW job \in Job, NEW t \in Tx,
         runner' = [runner EXCEPT ![r] = job],
         tx' = [tx EXCEPT ![r] = t],
         UnchangedDatabase,
         holder' \in Runners \cup {None},
         used' \in [runs: 0..MaxRuns, replacements: 0..MaxReplacements,
                    interrupts: 0..MaxInterrupts],
         used'.interrupts = 0 => used.interrupts = 0,
         TxSound(r)', PlanSound(r)',
         \A m \in t.rows : /\ ledger[m] = NoRow
                           /\ m \in MigrationFiles(job.checkout)
                           /\ \A q \in Runners \ {r} : m \notin tx[q].rows
  PROVE  IInv'
  <1>1. /\ runner' \in [Runners -> Job] /\ tx' \in [Runners -> Tx]
        /\ runner'[r] = job /\ tx'[r] = t
        /\ \A q \in Runners \ {r} : runner'[q] = runner[q] /\ tx'[q] = tx[q]
    BY OthersKeep
  <1>2. TypeOK'
    BY <1>1 DEF IInv, TypeOK, UnchangedDatabase, Job, Tx
  <1>3. AppliedOnce'
    BY DEF IInv, AppliedOnce, UnchangedDatabase
  <1>4. RowsSound'
    BY <1>1 DEF IInv, RowsSound, UnchangedDatabase
  <1>5. \A q \in Runners : TxSound(q)' /\ PlanSound(q)'
    BY <1>1 DEF IInv, TxSound, PlanSound, UnchangedDatabase, Current, FileChecksum
  <1>6. QED
    BY <1>2, <1>3, <1>4, <1>5 DEF IInv

LEMMA InitSound == Init => IInv
  <1> SUFFICES ASSUME Init PROVE IInv
    OBVIOUS
  <1>1. TypeOK
    BY IdleTyped, SizesAssumption DEF Init, TypeOK, Job, Tx, Versions
  <1>2. AppliedOnce
    BY DEF Init, AppliedOnce
  <1>3. RowsSound
    BY DEF Init, RowsSound, NoTx
  <1>4. \A r \in Runners : TxSound(r)
    BY DEF Init, TxSound, Idle, NoTx
  <1>5. \A r \in Runners : PlanSound(r)
    BY DEF Init, PlanSound, Idle
  <1>6. QED
    BY <1>1, <1>2, <1>3, <1>4, <1>5 DEF IInv

\* What the invariant says of one runner.
LEMMA RunnerTyped ==
  ASSUME IInv, NEW r \in Runners
  PROVE  /\ runner \in [Runners -> Job] /\ tx \in [Runners -> Tx]
         /\ runner[r] \in Job /\ tx[r] \in Tx
         /\ holder \in Runners \cup {None}
         /\ used \in [runs: 0..MaxRuns, replacements: 0..MaxReplacements,
                      interrupts: 0..MaxInterrupts]
         /\ TxSound(r) /\ PlanSound(r)
         /\ \A m \in tx[r].rows :
                /\ ledger[m] = NoRow
                /\ m \in MigrationFiles(runner[r].checkout)
                /\ \A q \in Runners \ {r} : m \notin tx[q].rows
  BY DEF IInv, TypeOK, Job, Tx, RowsSound

LEMMA StartSound ==
  ASSUME IInv, NEW r \in Runners, Start(r)
  PROVE  IInv'
  <1>1. PICK mode \in Modes, checkout \in Checkouts :
           \E target \in Versions \cup {0} :
              runner' = [runner EXCEPT ![r] =
                            [Idle EXCEPT !.pc = "lock", !.mode = mode,
                                         !.target = target, !.checkout = checkout]]
    BY DEF Start
  <1>2. PICK target \in Versions \cup {0} :
           runner' = [runner EXCEPT ![r] =
                         [Idle EXCEPT !.pc = "lock", !.mode = mode,
                                      !.target = target, !.checkout = checkout]]
    BY <1>1
  <1> DEFINE job == [Idle EXCEPT !.pc = "lock", !.mode = mode,
                                 !.target = target, !.checkout = checkout]
  <1>3. /\ job \in Job /\ job.pc = "lock" /\ job.pending = {} /\ ~ job.ok
    BY DEF Job, Idle, Pcs
  <1>4. /\ tx[r] = NoTx /\ tx' = [tx EXCEPT ![r] = tx[r]] /\ tx[r] \in Tx
        /\ UnchangedDatabase /\ UNCHANGED holder
        /\ used' \in [runs: 0..MaxRuns, replacements: 0..MaxReplacements,
                      interrupts: 0..MaxInterrupts]
        /\ used'.interrupts = used.interrupts
    BY RunnerTyped, SizesAssumption DEF Start, At, TxSound
  <1>5. runner'[r] = job /\ tx'[r] = tx[r]
    BY <1>2, <1>4, RunnerTyped
  <1>6. TxSound(r)' /\ PlanSound(r)'
    BY <1>3, <1>4, <1>5 DEF TxSound, PlanSound, NoTx
  <1>7. \A m \in tx[r].rows : FALSE
    BY <1>4 DEF NoTx
  <1>8. runner' = [runner EXCEPT ![r] = job]
    BY <1>2
  <1> HIDE DEF job
  <1>9. QED
    BY <1>3, <1>4, <1>6, <1>7, <1>8, RunnerTyped, QuietStep

\* A step that only moves the program counter, or plans.
LEMMA MoveSound ==
  ASSUME IInv, NEW r \in Runners, NEW job \in Job,
         runner' = [runner EXCEPT ![r] = job],
         job.checkout = runner[r].checkout,
         UNCHANGED tx, UnchangedDatabase,
         holder' \in Runners \cup {None},
         used' \in [runs: 0..MaxRuns, replacements: 0..MaxReplacements,
                    interrupts: 0..MaxInterrupts],
         used'.interrupts = 0 => used.interrupts = 0,
         TxSound(r)', PlanSound(r)'
  PROVE  IInv'
  <1>1. tx' = [tx EXCEPT ![r] = tx[r]]
    BY RunnerTyped
  <1>2. QED
    BY <1>1, RunnerTyped, QuietStep

LEMMA LockSound ==
  ASSUME IInv, NEW r \in Runners, Lock(r)
  PROVE  IInv'
  <1> DEFINE job == [runner[r] EXCEPT !.pc = "plan"]
  <1>1. /\ job \in Job /\ job.pc = "plan" /\ job.checkout = runner[r].checkout
        /\ job.ok = runner[r].ok /\ job.pending = runner[r].pending
    BY RunnerTyped DEF Job, Pcs
  <1>2. runner' = [runner EXCEPT ![r] = job] /\ runner'[r] = job
    BY RunnerTyped DEF Lock, Goto
  <1>3. TxSound(r)' /\ PlanSound(r)'
    BY <1>1, <1>2, RunnerTyped DEF Lock, At, TxSound, PlanSound, UnchangedDatabase
  <1> HIDE DEF job
  <1>4. QED
    BY <1>1, <1>2, <1>3, RunnerTyped, MoveSound DEF Lock

\* Going to `finally`: by a plan with nothing to do, or by an interrupt.
LEMMA FinallySound ==
  ASSUME IInv, NEW r \in Runners, NEW ok \in BOOLEAN, Finally(r, ok),
         runner[r].pc \in Working,
         used' \in [runs: 0..MaxRuns, replacements: 0..MaxReplacements,
                    interrupts: 0..MaxInterrupts],
         used'.interrupts = 0 => used.interrupts = 0 /\ tx[r] = NoTx,
         UNCHANGED <<holder, tx>>, UnchangedDatabase,
         ok /\ runner[r].mode = "apply" =>
             Current(r, MigrationFiles(runner[r].checkout))
  PROVE  IInv'
  <1> DEFINE job == [runner[r] EXCEPT !.pc = "unlock", !.ok = ok, !.pending = {}]
  <1>1. /\ job \in Job /\ job.pc = "unlock" /\ job.checkout = runner[r].checkout
        /\ job.ok = ok /\ job.pending = {} /\ job.mode = runner[r].mode
    BY RunnerTyped DEF Job, Pcs
  <1>2. runner' = [runner EXCEPT ![r] = job] /\ runner'[r] = job
    BY RunnerTyped DEF Finally
  <1>3. TxSound(r)'
    BY <1>1, <1>2, RunnerTyped DEF TxSound
  <1> HIDE DEF job
  <1>4. PlanSound(r)'
    <2>1. ok /\ job.mode = "apply" => Current(r, MigrationFiles(runner[r].checkout))'
      BY <1>1, <1>2 DEF Current, FileChecksum, MigrationFiles, UnchangedDatabase
    <2>2. QED
      BY <1>1, <1>2, <2>1 DEF PlanSound
  <1> HIDE DEF job
  <1>5. QED
    BY <1>1, <1>2, <1>3, <1>4, RunnerTyped, MoveSound

\* Files that the plan does not leave pending are in the ledger as they are.
LEMMA PlanComplete ==
  ASSUME IInv, NEW r \in Runners, ~ AppliedWasModified(r)
  PROVE  Current(r, MigrationFiles(runner[r].checkout) \ Pending(r))
  BY DEF AppliedWasModified, Current, Pending

LEMMA PlansSound ==
  ASSUME IInv, NEW r \in Runners, NEW pc \in {"baseline", "execute"}, Plans(r, pc),
         At(r, "plan"), ~ AppliedWasModified(r),
         UNCHANGED <<holder, tx, used>>, UnchangedDatabase
  PROVE  IInv'
  <1> DEFINE job == [runner[r] EXCEPT !.pc = pc, !.pending = Pending(r)]
  <1>1. Pending(r) \subseteq Versions
    BY DEF Pending, MigrationFiles
  <1>2. /\ job \in Job /\ job.pc = pc /\ job.checkout = runner[r].checkout
        /\ job.ok = runner[r].ok /\ job.pending = Pending(r)
    BY <1>1, RunnerTyped DEF Job, Pcs
  <1>3. runner' = [runner EXCEPT ![r] = job] /\ runner'[r] = job
    BY RunnerTyped DEF Plans
  <1>4. TxSound(r)'
    BY <1>2, <1>3, RunnerTyped DEF TxSound, At, NoTx
  <1>5. PlanSound(r)'
    <2>1. Current(r, MigrationFiles(runner[r].checkout) \ runner[r].pending)'
      <3>1. job.checkout = runner[r].checkout /\ job.pending = Pending(r)
        BY <1>2
      <3>2. \A m \in MigrationFiles(runner[r].checkout) \ Pending(r) :
                ledger'[m] = runner'[r].checkout[m]
        BY <1>2, <1>3, PlanComplete DEF Current, FileChecksum, UnchangedDatabase
      <3>3. MigrationFiles(runner'[r].checkout) = MigrationFiles(runner[r].checkout)
        BY <1>2, <1>3
      <3>4. QED
        BY <1>3, <3>1, <3>2, <3>3 DEF Current, FileChecksum
    <2>2. Pending(r) \subseteq MigrationFiles(runner[r].checkout)
      BY DEF Pending
    <2> HIDE DEF job
    <2>3. QED
      BY <1>2, <1>3, <2>1, <2>2, RunnerTyped DEF PlanSound, At
  <1> HIDE DEF job
  <1>6. QED
    BY <1>2, <1>3, <1>4, <1>5, RunnerTyped, MoveSound

LEMMA PlanStepsSound ==
  ASSUME IInv, NEW r \in Runners,
         PlanStops(r) \/ PlanBaseline(r) \/ PlanDryRun(r) \/ PlanApply(r)
  PROVE  IInv'
  <1>1. tx[r] = NoTx /\ runner[r].pc \in Working
    BY RunnerTyped DEF PlanStops, PlanBaseline, PlanDryRun, PlanApply, At, TxSound, Working
  <1>2. CASE PlanStops(r)
    BY <1>1, <1>2, RunnerTyped, FinallySound DEF PlanStops
  <1>3. CASE PlanBaseline(r)
    BY <1>3, PlansSound DEF PlanBaseline
  <1>4. CASE PlanDryRun(r)
    BY <1>1, <1>4, RunnerTyped, FinallySound DEF PlanDryRun
  <1>5. CASE PlanApply(r)
    <2>1. CASE Pending(r) = {}
      <3>1. Current(r, MigrationFiles(runner[r].checkout))
        BY <1>5, <2>1, PlanComplete DEF PlanApply, Current
      <3>2. QED
        BY <1>1, <1>5, <2>1, <3>1, RunnerTyped, FinallySound DEF PlanApply
    <2>2. CASE Pending(r) # {}
      BY <1>5, <2>2, PlansSound DEF PlanApply
    <2>3. QED
      BY <2>1, <2>2
  <1>6. QED
    BY <1>2, <1>3, <1>4, <1>5

\* The session and its transaction are gone: a failure, the end or a kill.
LEMMA GoneSound ==
  ASSUME IInv, NEW r \in Runners, NEW job \in Job,
         runner' = [runner EXCEPT ![r] = job],
         tx' = [tx EXCEPT ![r] = NoTx],
         job.pc \in {"disconnect", "idle"}, job.pending = {}, ~ job.ok,
         UnchangedDatabase, UNCHANGED used,
         holder' \in Runners \cup {None}
  PROVE  IInv'
  <1>1. runner'[r] = job /\ tx'[r] = NoTx
    BY RunnerTyped
  <1>2. TxSound(r)' /\ PlanSound(r)'
    BY <1>1 DEF TxSound, PlanSound, NoTx
  <1>3. NoTx \in Tx /\ \A m \in NoTx.rows : FALSE
    BY IdleTyped DEF NoTx
  <1>4. QED
    BY <1>2, <1>3, RunnerTyped, QuietStep

LEMMA AbortsSound ==
  ASSUME IInv, NEW r \in Runners, Aborts(r)
  PROVE  IInv'
  <1> DEFINE job == [runner[r] EXCEPT !.pc = "disconnect", !.pending = {}, !.ok = FALSE]
  <1>1. job \in Job /\ job.pc = "disconnect" /\ job.pending = {} /\ ~ job.ok
    BY RunnerTyped DEF Job, Pcs
  <1>2. runner' = [runner EXCEPT ![r] = job]
    BY RunnerTyped DEF Aborts
  <1> HIDE DEF job
  <1>3. QED
    BY <1>1, <1>2, RunnerTyped, GoneSound DEF Aborts

LEMMA EndsSound ==
  ASSUME IInv, NEW r \in Runners, Disconnect(r) \/ Killed(r)
  PROVE  IInv'
  <1>1. tx' = [tx EXCEPT ![r] = NoTx]
    <2>1. CASE Disconnect(r)
      <3>1. tx[r] = NoTx
        BY <2>1, RunnerTyped DEF Disconnect, At, TxSound
      <3>2. QED
        BY <2>1, <3>1, RunnerTyped DEF Disconnect
    <2>2. QED
      BY <2>1 DEF Killed
  <1>2. Idle \in Job /\ Idle.pc = "idle" /\ Idle.pending = {} /\ ~ Idle.ok
    BY IdleTyped DEF Idle
  <1>3. QED
    BY <1>1, <1>2, RunnerTyped, GoneSound DEF Disconnect, Killed, Release

LEMMA InterruptSound ==
  ASSUME IInv, NEW r \in Runners, Interrupt(r)
  PROVE  IInv'
  <1>1. /\ used' \in [runs: 0..MaxRuns, replacements: 0..MaxReplacements,
                      interrupts: 0..MaxInterrupts]
        /\ used'.interrupts # 0
    BY RunnerTyped, SizesAssumption DEF Interrupt
  <1>2. QED
    BY <1>1, FinallySound DEF Interrupt

LEMMA ExecuteSound ==
  ASSUME IInv, NEW r \in Runners, Execute(r)
  PROVE  IInv'
  <1> DEFINE job == [runner[r] EXCEPT !.pc = "insert"]
  <1>1. PICK m \in runner[r].pending : tx' = [tx EXCEPT ![r].ran = m]
    BY DEF Execute
  <1> DEFINE t == [tx[r] EXCEPT !.ran = m]
  <1>2. m \in MigrationFiles(runner[r].checkout) /\ m \in Versions /\ m # 0
    BY RunnerTyped, IdleTyped DEF PlanSound, Job
  <1>3. /\ job \in Job /\ job.pc = "insert" /\ job.checkout = runner[r].checkout
        /\ job.pending = runner[r].pending /\ job.ok = runner[r].ok
    BY RunnerTyped DEF Job, Pcs
  <1>4. t \in Tx /\ t.ran = m /\ t.rows = {}
    BY <1>2, RunnerTyped DEF Execute, At, TxSound, Tx, NoTx
  <1>5. runner' = [runner EXCEPT ![r] = job] /\ tx' = [tx EXCEPT ![r] = t]
    BY <1>1, RunnerTyped DEF Execute, Goto
  <1>6. runner'[r] = job /\ tx'[r] = t
    BY <1>5, RunnerTyped
  <1> HIDE DEF job, t
  <1>7. TxSound(r)'
    BY <1>2, <1>3, <1>4, <1>6 DEF TxSound, MigrationFiles
  <1>8. PlanSound(r)'
    BY <1>3, <1>6, RunnerTyped
       DEF Execute, At, PlanSound, Current, FileChecksum, MigrationFiles, UnchangedDatabase
  <1>9. QED
    BY <1>3, <1>4, <1>5, <1>7, <1>8, RunnerTyped, QuietStep DEF Execute

\* The row of an INSERT is new and in no other transaction.
LEMMA InsertsSound ==
  ASSUME IInv, NEW r \in Runners, NEW m \in MigrationFiles(runner[r].checkout),
         NEW pc, Inserts(r, m, pc),
         \/ At(r, "baseline") /\ pc = "baseline"
         \/ At(r, "insert") /\ pc = "commit" /\ m = tx[r].ran
  PROVE  IInv'
  <1>1. CASE ledger[m] # NoRow
    BY <1>1, AbortsSound DEF Inserts
  <1>2. CASE ledger[m] = NoRow
    <2> DEFINE job == [runner[r] EXCEPT !.pc = pc]
               t == [tx[r] EXCEPT !.rows = @ \cup {m}]
    <2>1. /\ job \in Job /\ job.pc = pc /\ job.checkout = runner[r].checkout
          /\ job.pending = runner[r].pending /\ job.ok = runner[r].ok
      BY RunnerTyped DEF Job, Pcs
    <2>2. t \in Tx /\ t.ran = tx[r].ran /\ t.rows = tx[r].rows \cup {m}
      BY RunnerTyped DEF Tx, MigrationFiles
    <2>3. runner' = [runner EXCEPT ![r] = job] /\ tx' = [tx EXCEPT ![r] = t]
      BY <1>2, RunnerTyped DEF Inserts, Goto
    <2>4. runner'[r] = job /\ tx'[r] = t
      BY <2>3, RunnerTyped
    <2> HIDE DEF job, t
    <2>5. /\ At(r, "baseline") => tx[r].ran = 0
          /\ At(r, "insert") => /\ tx[r].ran # 0 /\ tx[r].rows = {}
                                /\ tx[r].ran \in MigrationFiles(runner[r].checkout)
      BY RunnerTyped DEF At, TxSound
    <2>6. TxSound(r)'
      <3>1. MigrationFiles(runner[r].checkout)' = MigrationFiles(runner[r].checkout)
        BY <2>1, <2>4 DEF MigrationFiles
      <3>2. CASE pc = "baseline"
        BY <2>1, <2>2, <2>4, <2>5, <3>2 DEF TxSound, At
      <3>3. CASE pc = "commit"
        BY <2>1, <2>2, <2>4, <2>5, <3>1, <3>3 DEF TxSound
      <3>4. QED
        BY <3>2, <3>3
    <2>7. Current(r, MigrationFiles(runner[r].checkout) \ runner[r].pending) /\ ~ runner[r].ok
      BY RunnerTyped DEF At, PlanSound
    <2>8. PlanSound(r)'
      <3>1. Current(r, MigrationFiles(runner[r].checkout) \ runner[r].pending)'
        <4>1. UNCHANGED ledger
          BY <1>2 DEF Inserts, UnchangedDatabase
        <4>2. runner'[r].checkout = runner[r].checkout /\ runner'[r].pending = runner[r].pending
          BY <2>1, <2>4
        <4>3. QED
          BY <2>7, <4>1, <4>2 DEF Current, FileChecksum, MigrationFiles
      <3>2. runner[r].pending \subseteq MigrationFiles(runner[r].checkout)
        BY RunnerTyped DEF PlanSound
      <3>3. runner'[r].checkout = runner[r].checkout /\ runner'[r].pending = runner[r].pending
        BY <2>1, <2>4
      <3>4. runner'[r].ok = FALSE
        BY <2>1, <2>4, <2>7, RunnerTyped DEF Job
      <3>5. MigrationFiles(runner[r].checkout)' = MigrationFiles(runner[r].checkout)
        BY <3>3 DEF MigrationFiles
      <3>6. QED
        BY <3>1, <3>2, <3>3, <3>4, <3>5 DEF PlanSound
    <2>9. \A n \in t.rows : /\ ledger[n] = NoRow
                            /\ n \in MigrationFiles(job.checkout)
                            /\ \A q \in Runners \ {r} : n \notin tx[q].rows
      <3>1. \A q \in Runners \ {r} : m \notin tx[q].rows
        BY DEF Inserts, Free
      <3>2. QED
        BY <1>2, <2>1, <2>2, <3>1, RunnerTyped
    <2>10. UnchangedDatabase /\ UNCHANGED <<holder, used>>
      BY <1>2 DEF Inserts
    <2>11. QED
      BY <2>1, <2>2, <2>3, <2>6, <2>8, <2>9, <2>10, RunnerTyped, QuietStep
  <1>3. QED
    BY <1>1, <1>2

LEMMA BaselineEndsSound ==
  ASSUME IInv, NEW r \in Runners, BaselineEnds(r)
  PROVE  IInv'
  <1> DEFINE job == [runner[r] EXCEPT !.pc = "commit"]
  <1>1. /\ job \in Job /\ job.pc = "commit" /\ job.checkout = runner[r].checkout
        /\ job.ok = runner[r].ok /\ job.pending = runner[r].pending
        /\ job.mode = runner[r].mode
    BY RunnerTyped DEF Job, Pcs
  <1>2. runner' = [runner EXCEPT ![r] = job] /\ runner'[r] = job
    BY RunnerTyped DEF BaselineEnds, Goto
  <1> HIDE DEF job
  <1>3. TxSound(r)'
    BY <1>1, <1>2, RunnerTyped DEF BaselineEnds, At, TxSound, MigrationFiles
  <1>4. PlanSound(r)'
    BY <1>1, <1>2, RunnerTyped
       DEF BaselineEnds, At, PlanSound, Current, FileChecksum, MigrationFiles,
           UnchangedDatabase
  <1>5. QED
    BY <1>1, <1>2, <1>3, <1>4, RunnerTyped, MoveSound DEF BaselineEnds

LEMMA InsertStepsSound ==
  ASSUME IInv, NEW r \in Runners, BaselineInsert(r) \/ InsertRow(r)
  PROVE  IInv'
  <1>1. CASE BaselineInsert(r)
    <2>1. PICK m \in BaselineLeft(r) : Inserts(r, m, "baseline")
      BY <1>1 DEF BaselineInsert
    <2>2. m \in MigrationFiles(runner[r].checkout)
      BY DEF BaselineLeft, BaselineFiles
    <2>3. QED
      BY <1>1, <2>1, <2>2, InsertsSound DEF BaselineInsert
  <1>2. CASE InsertRow(r)
    <2>1. tx[r].ran \in MigrationFiles(runner[r].checkout)
      BY <1>2, RunnerTyped DEF InsertRow, At, TxSound
    <2>2. QED
      BY <1>2, <2>1, InsertsSound DEF InsertRow
  <1>3. QED
    BY <1>1, <1>2

LEMMA UnlockSound ==
  ASSUME IInv, NEW r \in Runners, Unlock(r)
  PROVE  IInv'
  <1> DEFINE job == [runner[r] EXCEPT !.pc = "last_commit"]
  <1>1. /\ job \in Job /\ job.pc = "last_commit" /\ job.checkout = runner[r].checkout
        /\ job.ok = runner[r].ok /\ job.pending = runner[r].pending
        /\ job.mode = runner[r].mode
    BY RunnerTyped DEF Job, Pcs
  <1>2. runner' = [runner EXCEPT ![r] = job] /\ runner'[r] = job
    BY RunnerTyped DEF Unlock, Goto
  <1> HIDE DEF job
  <1>3. TxSound(r)'
    BY <1>1, <1>2, RunnerTyped DEF Unlock, At, TxSound, MigrationFiles
  <1>4. PlanSound(r)'
    <2>1. runner[r].ok /\ runner[r].mode = "apply" =>
              Current(r, MigrationFiles(runner[r].checkout))'
      BY <1>1, <1>2, RunnerTyped
         DEF Unlock, PlanSound, Current, FileChecksum, MigrationFiles, UnchangedDatabase
    <2>2. QED
      BY <1>1, <1>2, <2>1, RunnerTyped DEF PlanSound, MigrationFiles
  <1>5. QED
    BY <1>1, <1>2, <1>3, <1>4, RunnerTyped, MoveSound DEF Unlock, Release

\* A commit keeps the invariant when it keeps that of the runner that commits.
LEMMA CommitsKeep ==
  ASSUME IInv, NEW r \in Runners, NEW job \in Job, Commits(r),
         At(r, "commit") \/ At(r, "last_commit"),
         runner' = [runner EXCEPT ![r] = job],
         job.pc \in {"execute", "unlock", "disconnect"},
         holder' \in Runners \cup {None},
         used' \in [runs: 0..MaxRuns, replacements: 0..MaxReplacements,
                    interrupts: 0..MaxInterrupts],
         used'.interrupts = used.interrupts,
         PlanSound(r)'
  PROVE  IInv'
  <1>1. tx' = [tx EXCEPT ![r] = NoTx] /\ NoTx \in Tx
    BY IdleTyped DEF Commits
  <1>2. /\ runner' \in [Runners -> Job] /\ tx' \in [Runners -> Tx]
        /\ runner'[r] = job /\ tx'[r] = NoTx
        /\ \A q \in Runners \ {r} : runner'[q] = runner[q] /\ tx'[q] = tx[q]
    BY <1>1, OthersKeep
  <1>3. TypeOK'
    BY <1>2, CommitsLedger, CommitsOnce DEF TypeOK, Job, Tx
  <1>4. used.interrupts = 0 => strays' = {}
    <2>1. used.interrupts = 0 => tx[r].ran \in tx[r].rows \cup {0}
      BY RunnerTyped DEF At, TxSound, NoTx
    <2>2. QED
      BY <2>1 DEF IInv, AppliedOnce, Commits
  <1>5. AppliedOnce'
    BY <1>4, CommitsOnce DEF AppliedOnce
  <1>6. RowsSound'
    <2>1. ASSUME NEW q \in Runners \ {r}, NEW m \in tx[q].rows
          PROVE  ledger'[m] = NoRow
      BY <2>1, CommitsLedger DEF IInv, RowsSound, MigrationFiles
    <2>2. QED
      BY <1>2, <2>1 DEF IInv, RowsSound, NoTx
  <1>7. TxSound(r)'
    BY <1>2 DEF TxSound, NoTx
  <1>8. ASSUME NEW q \in Runners \ {r}
        PROVE  TxSound(q)' /\ PlanSound(q)'
    <2>1. TxSound(q) /\ PlanSound(q)
      BY DEF IInv
    <2>2. TxSound(q)'
      BY <1>2, <2>1 DEF TxSound, MigrationFiles
    <2>3. ASSUME NEW files \in SUBSET MigrationFiles(runner[q].checkout), Current(q, files)
          PROVE  \A m \in files : ledger'[m] = runner'[q].checkout[m]
      BY <1>2, <2>3, CommitsLedger DEF Current, FileChecksum, MigrationFiles
    <2>4. /\ runner'[q] = runner[q]
          /\ MigrationFiles(runner[q].checkout)' = MigrationFiles(runner[q].checkout)
      BY <1>2 DEF MigrationFiles
    <2>5. runner[q].pc \in {"baseline", "execute", "insert", "commit"} =>
              Current(q, MigrationFiles(runner[q].checkout) \ runner[q].pending)'
      <3> DEFINE left == MigrationFiles(runner[q].checkout) \ runner[q].pending
      <3>1. ASSUME runner[q].pc \in {"baseline", "execute", "insert", "commit"}
            PROVE  \A m \in left : ledger'[m] = runner'[q].checkout[m]
        <4>1. Current(q, left)
          BY <2>1, <3>1 DEF PlanSound
        <4>2. QED
          BY <2>3, <4>1
      <3>2. left' = left
        BY <2>4
      <3> HIDE DEF left
      <3>3. QED
        BY <3>1, <3>2 DEF Current, FileChecksum, left
    <2>6. runner[q].ok /\ runner[q].mode = "apply" =>
              Current(q, MigrationFiles(runner[q].checkout))'
      BY <2>1, <2>3, <2>4 DEF PlanSound, Current, FileChecksum
    <2>7. QED
      BY <2>1, <2>2, <2>4, <2>5, <2>6 DEF PlanSound
  <1>9. QED
    BY <1>3, <1>5, <1>6, <1>7, <1>8 DEF IInv

\* What the ledger has stays; the rows of a commit are current.
LEMMA CommitsCurrent ==
  ASSUME IInv, NEW r \in Runners, Commits(r),
         NEW files \in SUBSET MigrationFiles(runner[r].checkout),
         Current(r, files \ tx[r].rows)
  PROVE  \A m \in files : ledger'[m] = runner[r].checkout[m]
  BY CommitsLedger DEF Current, FileChecksum, MigrationFiles

LEMMA CommitSound ==
  ASSUME IInv, NEW r \in Runners, Commit(r)
  PROVE  IInv'
  <1> DEFINE files == MigrationFiles(runner[r].checkout)
             left == runner[r].pending \ tx[r].rows
             ends == runner[r].mode = "baseline" \/ left = {}
             job == IF ends
                    THEN [runner[r] EXCEPT !.pc = "unlock", !.ok = TRUE, !.pending = {}]
                    ELSE [runner[r] EXCEPT !.pc = "execute", !.pending = left]
  <1>1. At(r, "commit") /\ Commits(r)
    BY DEF Commit
  <1>2. /\ job \in Job /\ job.checkout = runner[r].checkout /\ job.mode = runner[r].mode
        /\ job.pc = (IF ends THEN "unlock" ELSE "execute")
        /\ job.pending = (IF ends THEN {} ELSE left)
        /\ job.ok = (IF ends THEN TRUE ELSE runner[r].ok)
    BY RunnerTyped DEF Job, Pcs
  <1>3. runner' = [runner EXCEPT ![r] = job] /\ runner'[r] = job
    BY RunnerTyped DEF Commit, Finally
  <1>4. /\ holder' \in Runners \cup {None}
        /\ used' \in [runs: 0..MaxRuns, replacements: 0..MaxReplacements,
                      interrupts: 0..MaxInterrupts]
        /\ used'.interrupts = used.interrupts
    BY RunnerTyped, SizesAssumption DEF Commit, CheckOut
  <1>5. /\ Current(r, files \ runner[r].pending)
        /\ runner[r].pending \subseteq files /\ ~ runner[r].ok
    BY <1>1, RunnerTyped DEF PlanSound, At
  <1>6. \A m \in files \ left : ledger'[m] = runner[r].checkout[m]
    <2>1. Current(r, (files \ left) \ tx[r].rows)
      BY <1>5 DEF Current
    <2>2. QED
      BY <1>1, <2>1, CommitsCurrent
  <1>7. files' = files
    BY <1>2, <1>3 DEF MigrationFiles
  <1>8. PlanSound(r)'
    <2> HIDE DEF files, left, ends, job
    <2>1. ends /\ runner[r].mode = "apply" => left = {}
      BY DEF ends
    <2>2. left \subseteq files
      BY <1>5 DEF left
    <2>3. MigrationFiles(runner[r].checkout)' = files
      BY <1>7 DEF files
    <2>4. CASE ends
      BY <1>2, <1>3, <1>6, <2>1, <2>3, <2>4 DEF PlanSound, Current, FileChecksum
    <2>5. CASE ~ ends
      BY <1>2, <1>3, <1>5, <1>6, <2>2, <2>3, <2>5, RunnerTyped
         DEF PlanSound, Current, FileChecksum, Job
    <2>6. QED
      BY <2>4, <2>5
  <1> HIDE DEF job
  <1>9. QED
    BY <1>1, <1>2, <1>3, <1>4, <1>8, CommitsKeep

LEMMA LastCommitSound ==
  ASSUME IInv, NEW r \in Runners, LastCommit(r)
  PROVE  IInv'
  <1> DEFINE files == MigrationFiles(runner[r].checkout)
             job == [runner[r] EXCEPT !.pc = "disconnect"]
  <1>1. At(r, "last_commit") /\ Commits(r)
    BY DEF LastCommit
  <1>2. /\ job \in Job /\ job.checkout = runner[r].checkout /\ job.mode = runner[r].mode
        /\ job.pc = "disconnect" /\ job.pending = runner[r].pending
        /\ job.ok = runner[r].ok
    BY RunnerTyped DEF Job, Pcs
  <1>3. runner' = [runner EXCEPT ![r] = job] /\ runner'[r] = job
    BY RunnerTyped DEF LastCommit, Goto
  <1>4. /\ runner[r].pending \subseteq files
        /\ runner[r].ok /\ runner[r].mode = "apply" => Current(r, files)
    BY RunnerTyped DEF PlanSound
  <1>5. runner[r].ok /\ runner[r].mode = "apply" =>
            \A m \in files : ledger'[m] = runner[r].checkout[m]
    <2>1. Current(r, files) => Current(r, files \ tx[r].rows)
      BY DEF Current
    <2>2. QED
      BY <1>1, <1>4, <2>1, CommitsCurrent
  <1>6. MigrationFiles(runner[r].checkout)' = files
    BY <1>2, <1>3 DEF MigrationFiles
  <1>7. PlanSound(r)'
    <2> HIDE DEF files, job
    <2>1. QED
      BY <1>2, <1>3, <1>4, <1>5, <1>6, RunnerTyped DEF PlanSound, Current, FileChecksum
  <1> HIDE DEF job
  <1>8. QED
    BY <1>1, <1>2, <1>3, <1>7, RunnerTyped, CommitsKeep DEF LastCommit

LEMMA NextSound == IInv /\ [Next]_vars => IInv'
  <1> SUFFICES ASSUME IInv, [Next]_vars PROVE IInv'
    OBVIOUS
  <1>1. CASE UNCHANGED vars
    BY <1>1 DEF vars, IInv, TypeOK, AppliedOnce, RowsSound, TxSound, PlanSound,
                Current, FileChecksum, MigrationFiles
  <1>2. CASE Next
    <2>1. PICK r \in Runners : Start(r) \/ Step(r) \/ StatementFails(r) \/ Interrupt(r)
                                 \/ Killed(r)
      BY <1>2 DEF Next
    <2>2. CASE Start(r)
      BY <2>2, StartSound
    <2>3. CASE Step(r)
      BY <2>3, LockSound, PlanStepsSound, InsertStepsSound, BaselineEndsSound, ExecuteSound,
         CommitSound, UnlockSound, LastCommitSound, EndsSound DEF Step
    <2>4. CASE StatementFails(r)
      BY <2>4, AbortsSound DEF StatementFails
    <2>5. CASE Interrupt(r)
      BY <2>5, InterruptSound
    <2>6. CASE Killed(r)
      BY <2>6, EndsSound
    <2>7. QED
      BY <2>1, <2>2, <2>3, <2>4, <2>5, <2>6
  <1>3. QED
    BY <1>1, <1>2

THEOREM InvariantHolds == Spec => []IInv
  <1>1. QED
    BY InitSound, NextSound, PTL DEF Spec

-----------------------------------------------------------------------------
(* What it gives *)

\* Types hold in every state.
THEOREM TypeCorrect == Spec => []TypeOK
  <1>1. IInv => TypeOK
    BY DEF IInv
  <1>2. QED
    BY <1>1, InvariantHolds, PTL

\* No migration is committed twice, and rows and schema agree.
THEOREM MigrationsApplyOnce == Spec => []AppliedOnce
  <1>1. IInv => AppliedOnce
    BY DEF IInv
  <1>2. QED
    BY <1>1, InvariantHolds, PTL

\* A run that ends well leaves every migration of its release in the ledger.
THEOREM SuccessMeansCurrent == Spec => []SuccessIsCurrent
  <1>1. IInv => SuccessIsCurrent
    BY DEF IInv, PlanSound, SuccessIsCurrent, Current
  <1>2. QED
    BY <1>1, InvariantHolds, PTL

\* Every step but a commit leaves the database alone.
LEMMA DatabaseSteps ==
  ASSUME IInv, Next
  PROVE  UnchangedDatabase \/ \E r \in Runners : Commits(r)
  BY DEF Next, Step, Start, Lock, PlanStops, PlanBaseline, PlanDryRun, PlanApply,
         BaselineInsert, BaselineEnds, InsertRow, Inserts, Aborts, Execute, Commit, Unlock,
         LastCommit, Disconnect, StatementFails, Interrupt, Killed

\* A version that is in the ledger is not executed again, interrupts aside.
THEOREM RecordedForGood == Spec => RecordedStaysDone
  <1> DEFINE Kept == \A m \in Versions \ strays' : ledger[m] # NoRow =>
                         /\ ledger'[m] = ledger[m]
                         /\ \A i \in DOMAIN schema' \ DOMAIN schema :
                                schema'[i].migration # m
  <1>1. IInv /\ [Next]_vars => [Kept]_vars
    <2> SUFFICES ASSUME IInv, Next PROVE Kept
      OBVIOUS
    <2>1. CASE UnchangedDatabase
      BY <2>1 DEF UnchangedDatabase
    <2>2. CASE \E r \in Runners : Commits(r)
      <3>1. PICK r \in Runners : Commits(r)
        BY <2>2
      <3>2. schema \in Seq([migration: Versions, text: Texts])
        BY DEF IInv, TypeOK
      <3>3. CASE UNCHANGED schema
        BY <3>1, <3>3, CommitsLedger
      <3>4. CASE tx[r].ran # 0
        <4> DEFINE e == [migration |-> tx[r].ran, text |-> FileChecksum(r, tx[r].ran)]
        <4>1. /\ schema' = Append(schema, e)
              /\ tx[r].ran \in strays' \/ tx[r].rows = {tx[r].ran}
          BY <3>1, <3>4, CommitsSchema
        <4>2. \A i \in DOMAIN schema' \ DOMAIN schema : schema'[i] = e
          BY <3>2, <4>1
        <4>3. QED
          BY <3>1, <4>1, <4>2, CommitsLedger
      <3>5. QED
        BY <3>1, <3>3, <3>4, CommitsSchema, IdleTyped
    <2>3. QED
      BY <2>1, <2>2, DatabaseSteps
  <1>2. QED
    BY <1>1, InvariantHolds, PTL DEF Spec, RecordedStaysDone

-----------------------------------------------------------------------------
(* The refinement *)

\* The commit of a runner is a step of SchemaHistory: a migration without its row
\* only after an interrupt.
LEMMA CommitsRefine ==
  ASSUME IInv, NEW r \in Runners, Commits(r), At(r, "commit") \/ At(r, "last_commit"),
         used'.interrupts = used.interrupts
  PROVE  [History!Next]_<<ledger, schema, strays, used.interrupts>>
  <1> DEFINE n == tx[r].ran
             rows == tx[r].rows
             text == FileChecksum(r, n)
  <1>1. /\ ledger \in [Versions -> Texts \cup {NoRow}]
        /\ rows \subseteq Versions
        /\ runner[r].checkout \in [Versions -> Texts \cup {NoRow}]
    BY CheckoutsAssumption DEF IInv, TypeOK, NoFiles
  <1>2. /\ \A m \in rows : ledger[m] = NoRow
        /\ ledger' = [m \in Versions |-> IF m \in rows THEN runner[r].checkout[m]
                                         ELSE ledger[m]]
    BY DEF IInv, RowsSound, Commits, FileChecksum
  <1>3. CASE UNCHANGED <<schema, strays>> /\ n = 0
    <2>1. History!Baseline(rows, runner[r].checkout)
      BY <1>2, <1>3 DEF History!Baseline
    <2>2. QED
      BY <1>1, <2>1 DEF History!Next
  <1>4. CASE /\ n \in Versions /\ text \in Texts
             /\ schema' = Append(schema, [migration |-> n, text |-> text])
             /\ rows = {n} /\ UNCHANGED strays
    <2>1. ledger' = [ledger EXCEPT ![n] = text] /\ ledger[n] = NoRow
      BY <1>1, <1>2, <1>4 DEF FileChecksum
    <2>2. History!Apply(n, text)
      BY <1>4, <2>1 DEF History!Apply
    <2>3. QED
      BY <1>4, <2>2 DEF History!Next
  <1>5. CASE /\ n \in Versions /\ text \in Texts
             /\ schema' = Append(schema, [migration |-> n, text |-> text])
             /\ rows = {} /\ strays' = strays \cup {n}
    <2>1. ledger' = ledger
      BY <1>1, <1>2, <1>5
    <2>2. used.interrupts > 0
      <3>1. used.interrupts # 0
        BY <1>5, IdleTyped, RunnerTyped DEF At, TxSound, NoTx
      <3>2. used.interrupts \in Nat
        BY SizesAssumption, RunnerTyped
      <3>3. QED
        BY <3>1, <3>2
    <2>3. History!Stray(n, text)
      BY <1>5, <2>1, <2>2 DEF History!Stray
    <2>4. QED
      BY <1>5, <2>3 DEF History!Next
  <1>6. QED
    BY <1>3, <1>4, <1>5, CommitsSchema

\* What a step does to the database and to the count of interrupts.
LEMMA InterruptSteps ==
  ASSUME IInv, Next
  PROVE  \/ UnchangedDatabase /\ used'.interrupts \in {used.interrupts, used.interrupts + 1}
         \/ \E r \in Runners : /\ Commits(r) /\ (At(r, "commit") \/ At(r, "last_commit"))
                               /\ used'.interrupts = used.interrupts
  <1>1. PICK r \in Runners : Start(r) \/ Step(r) \/ StatementFails(r) \/ Interrupt(r)
                               \/ Killed(r)
    BY DEF Next
  <1>2. used \in [runs: 0..MaxRuns, replacements: 0..MaxReplacements,
                  interrupts: 0..MaxInterrupts]
    BY RunnerTyped
  <1>3. CASE Start(r) \/ Interrupt(r)
    BY <1>2, <1>3 DEF Start, Interrupt
  <1>4. CASE Commit(r)
    BY <1>2, <1>4 DEF Commit, CheckOut
  <1>5. CASE LastCommit(r)
    BY <1>5 DEF LastCommit
  <1>6. CASE \/ Lock(r) \/ PlanStops(r) \/ PlanBaseline(r) \/ PlanDryRun(r) \/ PlanApply(r)
             \/ BaselineInsert(r) \/ BaselineEnds(r) \/ Execute(r) \/ InsertRow(r)
             \/ Unlock(r) \/ Disconnect(r) \/ StatementFails(r) \/ Killed(r)
    BY <1>6 DEF Lock, PlanStops, PlanBaseline, PlanDryRun, PlanApply, BaselineInsert,
                BaselineEnds, InsertRow, Inserts, Aborts, Execute, Unlock, Disconnect,
                StatementFails, Killed
  <1>7. QED
    BY <1>1, <1>3, <1>4, <1>5, <1>6 DEF Step

\* The runner implements SchemaHistory.
THEOREM Refinement == Spec => ImplementsSchemaHistory
  <1>1. Init => History!Init
    BY DEF Init, History!Init
  <1>2. IInv /\ [Next]_vars => [History!Next]_<<ledger, schema, strays, used.interrupts>>
    <2> SUFFICES ASSUME IInv, [Next]_vars
                 PROVE  [History!Next]_<<ledger, schema, strays, used.interrupts>>
      OBVIOUS
    <2>1. CASE UNCHANGED vars
      BY <2>1 DEF vars
    <2>2. CASE UnchangedDatabase /\ used'.interrupts = used.interrupts
      BY <2>2 DEF UnchangedDatabase
    <2>3. CASE UnchangedDatabase /\ used'.interrupts = used.interrupts + 1
      BY <2>3 DEF UnchangedDatabase, History!Interrupt, History!Next
    <2>4. CASE \E r \in Runners : /\ Commits(r) /\ (At(r, "commit") \/ At(r, "last_commit"))
                                  /\ used'.interrupts = used.interrupts
      BY <2>4, CommitsRefine
    <2>5. QED
      BY <2>1, <2>2, <2>3, <2>4, InterruptSteps
  <1>3. QED
    BY <1>1, <1>2, InvariantHolds, PTL
       DEF Spec, ImplementsSchemaHistory, History!Spec, History!historyVars

-----------------------------------------------------------------------------
(* The lock *)

LockHeld ==
  used.replacements = 0 =>
    \A r \in Runners : runner[r].pc \in Working \cup {"unlock"} => holder = r

PlansFresh ==
  used.replacements = 0 /\ used.interrupts = 0 =>
    \A r \in Runners :
      runner[r].pc \in {"baseline", "execute", "insert", "commit"} =>
        \A m \in runner[r].pending : ledger[m] = NoRow

LEMMA LockHeldSound == TypeOK /\ LockHeld /\ [Next]_vars => LockHeld'
  <1> SUFFICES ASSUME TypeOK, LockHeld, [Next]_vars PROVE LockHeld'
    OBVIOUS
  <1>1. CASE UNCHANGED vars
    BY <1>1 DEF vars, LockHeld
  <1>2. ASSUME NEW r \in Runners, Start(r) \/ Lock(r)
        PROVE  LockHeld'
    <2>1. CASE Start(r)
      <3>1. /\ \A q \in Runners \ {r} : runner'[q] = runner[q]
            /\ runner'[r].pc = "lock"
            /\ used'.replacements = used.replacements /\ holder' = holder
        BY <2>1 DEF TypeOK, Start, Idle
      <3>2. QED
        BY <3>1 DEF LockHeld, Working
    <2>2. CASE Lock(r)
      <3>1. \A q \in Runners : used.replacements = 0 =>
                runner[q].pc \notin Working \cup {"unlock"}
        BY <2>2, CheckoutsAssumption DEF Lock, LockHeld
      <3>2. /\ \A q \in Runners \ {r} : runner'[q] = runner[q]
            /\ used' = used /\ holder' = r
        BY <2>2 DEF TypeOK, Lock, Goto
      <3>3. QED
        BY <3>1, <3>2 DEF LockHeld
    <2>3. QED
      BY <1>2, <2>1, <2>2
  <1>3. ASSUME NEW r \in Runners,
               PlanStops(r) \/ PlanBaseline(r) \/ PlanDryRun(r) \/ PlanApply(r) \/ Interrupt(r)
        PROVE  LockHeld'
    BY <1>3 DEF TypeOK, LockHeld, PlanStops, PlanBaseline, PlanDryRun, PlanApply,
                Interrupt, Plans, Finally, At, Working
  <1>4. ASSUME NEW r \in Runners,
               BaselineInsert(r) \/ BaselineEnds(r) \/ Execute(r) \/ InsertRow(r) \/ StatementFails(r)
        PROVE  LockHeld'
    <2>1. runner[r].pc \in Working \/ StatementFails(r)
      BY <1>4 DEF BaselineInsert, BaselineEnds, Execute, InsertRow, At, Working
    <2>2. CASE Aborts(r)
      BY <2>2 DEF TypeOK, LockHeld, Aborts, Working
    <2>3. CASE runner[r].pc \in Working /\ UNCHANGED <<holder, used>>
               /\ \E pc \in Pcs : Goto(r, pc)
      BY <2>3 DEF TypeOK, LockHeld, Goto
    <2>4. QED
      BY <1>4, <2>1, <2>2, <2>3
         DEF BaselineInsert, BaselineEnds, Execute, InsertRow, StatementFails, Inserts, Pcs
  <1>5. ASSUME NEW r \in Runners, Commit(r)
        PROVE  LockHeld'
    <2>1. CASE UNCHANGED <<holder, used>>
      BY <1>5, <2>1 DEF TypeOK, LockHeld, Commit, Finally, At, Working
    <2>2. CASE used' = [used EXCEPT !.replacements = @ + 1]
      <3>1. used'.replacements # 0
        BY <2>2, SizesAssumption DEF TypeOK
      <3>2. QED
        BY <3>1 DEF LockHeld
    <2>3. QED
      BY <1>5, <2>1, <2>2 DEF Commit, CheckOut
  <1>6. ASSUME NEW r \in Runners,
               Unlock(r) \/ LastCommit(r) \/ Disconnect(r) \/ Killed(r)
        PROVE  LockHeld'
    BY <1>6 DEF TypeOK, LockHeld, Unlock, LastCommit, Disconnect, Killed, Release, Idle,
                Goto, At, Working
  <1>7. QED
    BY <1>1, <1>2, <1>3, <1>4, <1>5, <1>6 DEF Next, Step

\* What a commit that matters to the plans of others needs: the lock.
LEMMA PlansFreshSound ==
  IInv /\ LockHeld /\ PlansFresh /\ [Next]_vars => PlansFresh'
  <1> SUFFICES ASSUME IInv, LockHeld, PlansFresh, [Next]_vars,
                      used'.replacements = 0, used'.interrupts = 0,
                      NEW r \in Runners,
                      runner'[r].pc \in {"baseline", "execute", "insert", "commit"},
                      NEW m \in runner'[r].pending
               PROVE  ledger'[m] = NoRow
    BY DEF PlansFresh
  <1>1. CASE UNCHANGED vars
    BY <1>1 DEF vars, PlansFresh
  <1>2. CASE Next
    <2>1. PICK q \in Runners : Start(q) \/ Step(q) \/ StatementFails(q) \/ Interrupt(q)
                                 \/ Killed(q)
      BY <1>2 DEF Next
    <2>2. used.replacements = 0 /\ used.interrupts = 0
      <3>1. \/ UNCHANGED used
            \/ used' = [used EXCEPT !.runs = @ + 1]
            \/ used' = [used EXCEPT !.replacements = @ + 1]
            \/ used' = [used EXCEPT !.interrupts = @ + 1]
        BY <2>1 DEF Start, Step, Lock, PlanStops, PlanBaseline, PlanDryRun, PlanApply,
                    BaselineInsert, BaselineEnds, Execute, InsertRow, Inserts, Aborts, Commit, CheckOut,
                    Unlock, LastCommit, Disconnect, StatementFails, Interrupt, Killed
      <3>2. /\ used.replacements \in Nat /\ used.interrupts \in Nat
            /\ used \in [runs: 0..MaxRuns, replacements: 0..MaxReplacements,
                         interrupts: 0..MaxInterrupts]
        BY SizesAssumption DEF IInv, TypeOK
      <3>3. QED
        BY <3>1, <3>2
    <2>3. runner[r].pc \in {"baseline", "execute", "insert", "commit"} =>
              /\ holder = r
              /\ \A n \in runner[r].pending : ledger[n] = NoRow
      BY <2>2 DEF LockHeld, PlansFresh, Working
    <2>4. CASE q # r
      <3>1. runner'[r] = runner[r]
        BY <2>1, <2>4, RunnerTyped
           DEF Start, Step, Lock, PlanStops, PlanBaseline, PlanDryRun, PlanApply,
               BaselineInsert, BaselineEnds, Execute, InsertRow, Inserts, Aborts, Commit, Goto, Finally,
               Plans, Unlock, LastCommit, Disconnect, StatementFails, Interrupt, Killed
      <3>2. CASE Commit(q)
        <4>1. holder = q
          BY <2>2, <3>2 DEF Commit, At, LockHeld, Working
        <4>2. QED
          BY <2>3, <2>4, <3>1, <4>1
      <3>3. CASE LastCommit(q)
        <4>1. tx[q] = NoTx
          BY <2>2, <3>3, RunnerTyped DEF LastCommit, At, TxSound
        <4>2. ledger' = ledger
          BY <3>3, <4>1 DEF LastCommit, Commits, NoTx, IInv, TypeOK
        <4>3. QED
          BY <2>3, <3>1, <4>2
      <3>4. CASE UnchangedDatabase
        BY <2>3, <3>1, <3>4 DEF UnchangedDatabase
      <3>5. QED
        BY <2>1, <3>2, <3>3, <3>4
           DEF Start, Step, Lock, PlanStops, PlanBaseline, PlanDryRun, PlanApply,
               BaselineInsert, BaselineEnds, Execute, InsertRow, Inserts, Aborts, Unlock, Disconnect,
               StatementFails, Interrupt, Killed
    <2>5. CASE q = r
      <3>1. runner \in [Runners -> Job] /\ runner[r] \in Job
        BY RunnerTyped
      <3>2. CASE Start(r) \/ Lock(r) \/ Unlock(r) \/ LastCommit(r) \/ Disconnect(r)
                 \/ Killed(r)
        <4>1. CASE Start(r)
          <5>1. runner'[r].pc = "lock"
            BY <3>1, <4>1 DEF Start, Idle
          <5>2. QED
            BY <5>1
        <4>2. CASE Lock(r) \/ Unlock(r) \/ LastCommit(r)
          <5>1. PICK pc \in {"plan", "last_commit", "disconnect"} : Goto(r, pc)
            BY <4>2 DEF Lock, Unlock, LastCommit
          <5>2. runner'[r].pc = pc
            BY <3>1, <5>1 DEF Goto
          <5>3. QED
            BY <5>2
        <4>3. CASE Disconnect(r) \/ Killed(r)
          <5>1. runner'[r].pc = "idle"
            BY <3>1, <4>3 DEF Disconnect, Killed, Idle
          <5>2. QED
            BY <5>1
        <4>4. QED
          BY <3>2, <4>1, <4>2, <4>3
      <3>3. CASE PlanStops(r) \/ PlanBaseline(r) \/ PlanDryRun(r) \/ PlanApply(r)
                 \/ Interrupt(r)
        <4>1. CASE \E ok \in BOOLEAN : Finally(r, ok)
          <5>1. runner'[r].pc = "unlock"
            BY <3>1, <4>1 DEF Finally
          <5>2. QED
            BY <5>1
        <4>2. CASE UnchangedDatabase /\ \E pc \in Pcs : Plans(r, pc)
          <5>1. m \in Pending(r)
            BY <3>1, <4>2 DEF Plans
          <5>2. QED
            BY <4>2, <5>1 DEF Pending, UnchangedDatabase
        <4>3. QED
          BY <3>3, <4>1, <4>2
             DEF PlanStops, PlanBaseline, PlanDryRun, PlanApply, Interrupt, Pcs
      <3>4. CASE Aborts(r)
        <4>1. runner'[r].pc = "disconnect"
          BY <3>1, <3>4 DEF Aborts
        <4>2. QED
          BY <4>1
      <3>5. CASE /\ runner[r].pc \in {"baseline", "execute", "insert"}
                 /\ Goto(r, "insert") \/ Goto(r, "commit") \/ Goto(r, "baseline")
                 /\ UnchangedDatabase
        <4>1. runner'[r].pending = runner[r].pending
          <5>1. PICK pc \in {"insert", "commit", "baseline"} : Goto(r, pc)
            BY <3>5
          <5>2. QED
            BY <3>1, <5>1 DEF Goto
        <4>2. QED
          BY <2>3, <3>5, <4>1 DEF UnchangedDatabase
      <3>6. CASE Commit(r)
        <4> DEFINE left == runner[r].pending \ tx[r].rows
        <4>1. runner[r].pc = "commit" /\ Commits(r)
          BY <3>6 DEF Commit, At
        <4>2. CASE Finally(r, TRUE)
          <5>1. runner'[r].pc = "unlock"
            BY <3>1, <4>2 DEF Finally
          <5>2. QED
            BY <5>1
        <4>3. CASE runner' = [runner EXCEPT ![r].pc = "execute", ![r].pending = left]
          <5>1. m \in runner[r].pending \ tx[r].rows
            BY <3>1, <4>3
          <5>2. m \in Versions
            BY <3>1, <5>1 DEF Job
          <5>3. QED
            BY <2>3, <4>1, <5>1, <5>2, CommitsLedger
        <4>4. QED
          BY <3>6, <4>2, <4>3 DEF Commit
      <3>7. QED
        BY <2>1, <2>5, <3>2, <3>3, <3>4, <3>5, <3>6
           DEF Step, BaselineInsert, BaselineEnds, Execute, InsertRow, Inserts, StatementFails, At
    <2>6. QED
      BY <2>4, <2>5
  <1>3. QED
    BY <1>1, <1>2

\* While no connection is replaced and nobody interrupts, the lock keeps the
\* plan of a runner fresh.
THEOREM LockKeepsPlansFresh == Spec => []PlansStayFresh
  <1>1. Init => LockHeld /\ PlansFresh
    BY DEF Init, LockHeld, PlansFresh, Idle, Working
  <1>2. IInv => TypeOK
    BY DEF IInv
  <1>3. LockHeld /\ PlansFresh => PlansStayFresh
    BY DEF LockHeld, PlansFresh, PlansStayFresh, Working
  <1>4. QED
    BY <1>1, <1>2, <1>3, LockHeldSound, PlansFreshSound, InvariantHolds, PTL DEF Spec
=============================================================================
