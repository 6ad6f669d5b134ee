---------------------------- MODULE SchemaHistory ----------------------------
(***************************************************************************)
(* What the migration runner promises, one commit of the database per step: *)
(* a migration reaches the schema together with its row in the ledger, and *)
(* only when the ledger has no row for it; a baseline adds rows and leaves  *)
(* the schema alone.  The one step the runner does not promise away is      *)
(* Stray: once a run was interrupted, a migration may stay in the schema    *)
(* that the ledger does not know.  A failure or a kill leaves none.         *)
(***************************************************************************)
EXTENDS Naturals, Sequences

CONSTANTS Migrations, Texts, NoRow

VARIABLES
    ledger,    \* public.schema_migrations: the checksum of each version
    schema,    \* the migrations executed and committed, in order
    strays,    \* those that were committed without a row
    interrupts \* how often a run was interrupted

historyVars == <<ledger, schema, strays, interrupts>>

Execution == [migration: Migrations, text: Texts]

Init ==
    /\ ledger = [m \in Migrations |-> NoRow]
    /\ schema = <<>>
    /\ strays = {}
    /\ interrupts = 0

Apply(m, t) ==
    /\ ledger[m] = NoRow
    /\ ledger' = [ledger EXCEPT ![m] = t]
    /\ schema' = Append(schema, [migration |-> m, text |-> t])
    /\ UNCHANGED <<strays, interrupts>>

Baseline(rows, checkout) ==
    /\ \A m \in rows : ledger[m] = NoRow
    /\ ledger' = [m \in Migrations |-> IF m \in rows THEN checkout[m] ELSE ledger[m]]
    /\ UNCHANGED <<schema, strays, interrupts>>

Interrupt ==
    /\ interrupts' = interrupts + 1
    /\ UNCHANGED <<ledger, schema, strays>>

Stray(m, t) ==
    /\ interrupts > 0
    /\ schema' = Append(schema, [migration |-> m, text |-> t])
    /\ strays' = strays \cup {m}
    /\ UNCHANGED <<ledger, interrupts>>

Next ==
    \/ \E m \in Migrations, t \in Texts : Apply(m, t) \/ Stray(m, t)
    \/ \E rows \in SUBSET Migrations, checkout \in [Migrations -> Texts \cup {NoRow}] :
           Baseline(rows, checkout)
    \/ Interrupt

Spec == Init /\ [][Next]_historyVars
=============================================================================
