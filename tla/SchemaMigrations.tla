-------------------------- MODULE SchemaMigrations --------------------------
(***************************************************************************)
(* Opening a ledger (src/core/db.ts, src/core/schema-version.ts): every    *)
(* process checks the history of migrations, normalises the tables of the  *)
(* first schema, restores the triggers of that schema, applies what the    *)
(* history lacks, and puts back the triggers later migrations replaced.    *)
(* Each of these steps commits by itself, what a step finds is read        *)
(* outside the transaction that acts on it, and any other process may open *)
(* the same file in between.                                               *)
(*                                                                         *)
(* A guard is a trigger; its body is known by the migration it is from, 1  *)
(* for the first schema and 0 when there is none; a body no migration has  *)
(* is the program's own.  A program is known by the last migration it has. *)
(* Columns added to old tables, the views and damage done to the file by   *)
(* hand are left out.                                                      *)
(***************************************************************************)
EXTENDS Integers, Sequences, FiniteSets

CONSTANTS
  Openers,       \* processes that open the ledger
  Versions,      \* programs they run, each known by its last migration
  OldTables,     \* the guards of the tables that may have to be rebuilt
  BaselineGuards,  \* guards that schema.sql creates
  LastGuard,       \* the one of them replaced last, outside a transaction
  Reassertions,  \* <<m, g, b>>: once m is applied, guard g gets the body of b
  MaxCrashes     \* bound on the processes that die while they open

Newest == CHOOSE n \in Versions : \A v \in Versions : v <= n

Migrations == 1..Newest
Guards == BaselineGuards \union {Reassertions[i][2] : i \in DOMAIN Reassertions}
Bodies == {0, 1} \union {Reassertions[i][3] : i \in DOMAIN Reassertions}

ASSUME SchemaAssumption ==
  /\ Versions \subseteq Nat \ {0} /\ MaxCrashes \in Nat
  /\ \E n \in Versions : \A v \in Versions : v <= n
  /\ OldTables \in Seq(BaselineGuards) /\ LastGuard \in BaselineGuards
  /\ Reassertions \in Seq(Migrations \X Guards \X Bodies)
  /\ \A i \in DOMAIN Reassertions : Reassertions[i][2] # LastGuard

VARIABLES
  history,   \* rows of schema_migrations
  loose,     \* whether that table still has the definition from before
  readRows,      \* the rows each process found in it then
  built,     \* how often each migration has committed
  old,       \* tables that still have their definition from before
  disputed,  \* whether the old periods, the first table, contradict each other
  body,      \* body in force of each guard
  opener,    \* where each process is
  mixed,     \* whether two programs have been opening it at the same time
  doubled,   \* whether two processes set out to rebuild the loose table
  crashes    \* processes that have died so far

schemaVars == <<history, loose, readRows, built, old, disputed, body, opener,
                mixed, doubled, crashes>>
migrationVars == <<history, loose, readRows, built, doubled>>

-----------------------------------------------------------------------------
(* The history.                                                             *)

Closed == [step |-> "closed", at |-> 0, version |-> 0]
MoveTo(o, s, n) == opener' = [opener EXCEPT ![o].step = s, ![o].at = n]

Opening == {o \in Openers : opener[o].step \notin {"closed", "ready"}}

(* validateSchemaMigrationHistory: a prefix, and none the program lacks.    *)
Compatible(v) ==
  /\ history \subseteq 1..v
  /\ \A m \in history : 1..m \subseteq history

(* The body a guard gets in a transaction that runs the script of migration *)
(* m, which creates or replaces the guards that m defines.                  *)
BodyAfter(m) ==
  [g \in Guards |->
     IF \E i \in DOMAIN Reassertions : Reassertions[i] = <<m, g, m>>
     THEN m ELSE body[g]]

-----------------------------------------------------------------------------
(* The steps of openDb and migrate.                                         *)

(* A refusal, an error or the end of the process: what is committed stays.  *)
AbandonOpening(o) ==
  /\ opener' = [opener EXCEPT ![o] = Closed]
  /\ UNCHANGED <<migrationVars, old, disputed, body>>

(* assertSchemaCompatibility, on a connection of its own.                   *)
Preflight(o, v) ==
  /\ opener[o] = Closed
  /\ Compatible(v)
  /\ opener' = [opener EXCEPT ![o] =
                              [step |-> "check", at |-> 0, version |-> v]]
  /\ mixed' = (mixed \/ \E q \in Opening : opener[q].version # v)
  /\ UNCHANGED <<migrationVars, old, disputed, body, crashes>>

(* The same check again, and schema.sql, which creates what is missing.     *)
EvaluateSchema(o) ==
  /\ opener[o].step = "check"
  /\ IF Compatible(opener[o].version)
     THEN /\ MoveTo(o, "inspect", 1)
          /\ body' = [g \in Guards |->
                        IF g \in BaselineGuards /\ body[g] = 0
                        THEN 1 ELSE body[g]]
          /\ UNCHANGED <<migrationVars, old, disputed>>
     ELSE AbandonOpening(o)
  /\ UNCHANGED <<mixed, crashes>>

(* migrateLegacyVatPeriodKind and migrateGdprErasureTable, one table after  *)
(* the other: whether it is from before, and whether its rows can be kept.  *)
InspectTable(o) ==
  LET i == opener[o].at
  IN /\ opener[o].step = "inspect"
     /\ IF i \in old /\ i = 1 /\ disputed
        THEN AbandonOpening(o)
        ELSE /\ IF i \notin DOMAIN OldTables THEN MoveTo(o, "restore", 0)
                ELSE MoveTo(o, IF i \in old THEN "rebuild" ELSE "inspect",
                            IF i \in old THEN i ELSE i + 1)
             /\ UNCHANGED <<migrationVars, old, disputed, body>>
     /\ UNCHANGED <<mixed, crashes>>

(* It is rebuilt in one transaction that does not look again, and its guard *)
(* goes with the old table.                                                 *)
RebuildTable(o) ==
  LET i == opener[o].at
  IN /\ opener[o].step = "rebuild"
     /\ old' = old \ {i}
     /\ body' = [body EXCEPT ![OldTables[i]] = 0]
     /\ MoveTo(o, "inspect", i + 1)
     /\ UNCHANGED <<migrationVars, disputed, mixed, crashes>>

(* restoreSchemaTriggers: all guards of the first schema, in a transaction. *)
RestoreTriggers(o) ==
  /\ opener[o].step = "restore"
  /\ body' = [g \in Guards |-> IF g \in BaselineGuards THEN 1 ELSE body[g]]
  /\ MoveTo(o, "record", 0)
  /\ UNCHANGED <<migrationVars, old, disputed, mixed, crashes>>

(* recordSchemaBaseline begins with the check once more, on rows it keeps.  *)
RecheckHistory(o) ==
  /\ opener[o].step = "record"
  /\ IF Compatible(opener[o].version)
     THEN /\ MoveTo(o, IF loose THEN "upgrade" ELSE "look", 1)
          /\ readRows' = [readRows EXCEPT ![o] = IF loose THEN history ELSE {}]
          /\ doubled' = (doubled \/ \E q \in Openers :
                                    loose /\ opener[q].step = "upgrade")
          /\ UNCHANGED <<history, loose, built, old, disputed, body>>
     ELSE AbandonOpening(o)
  /\ UNCHANGED <<mixed, crashes>>

(* The table without strict columns gives way to one with the rows that     *)
(* were read before the transaction, whoever has added any since.           *)
UpgradeHistory(o) ==
  /\ opener[o].step = "upgrade"
  /\ history' = readRows[o] /\ loose' = FALSE
  /\ readRows' = [readRows EXCEPT ![o] = {}]
  /\ MoveTo(o, "look", 1)
  /\ UNCHANGED <<built, old, disputed, body, mixed, doubled, crashes>>

(* The SELECT that tells whether the next row is missing.                   *)
LookForNext(o) ==
  LET m == opener[o].at
  IN /\ opener[o].step = "look"
     /\ IF m > opener[o].version THEN MoveTo(o, "reassert", 1)
        ELSE MoveTo(o, IF m \in history THEN "look" ELSE "apply",
                    IF m \in history THEN m + 1 ELSE m)
     /\ UNCHANGED <<migrationVars, old, disputed, body, mixed, crashes>>

(* A mutant of Migrate: the script runs in a transaction before the row's.  *)
MigrateScriptFirst(o) ==
  LET m == opener[o].at
  IN /\ opener[o].step = "apply"
     /\ built' = [built EXCEPT ![m] = @ + 1]
     /\ body' = BodyAfter(m)
     /\ history' = history \union {m}
     /\ IF m \in history THEN opener' = [opener EXCEPT ![o] = Closed]
                         ELSE MoveTo(o, "look", m + 1)
     /\ UNCHANGED <<loose, readRows, old, disputed, mixed, doubled, crashes>>

(* The transaction that runs its script and inserts the row; row 1, of the  *)
(* first schema, is inserted without a script.  The row of another process  *)
(* violates the primary key, and all is rolled back.                        *)
Migrate(o) ==
  LET m == opener[o].at
  IN /\ opener[o].step = "apply"
     /\ IF m \in history
        THEN AbandonOpening(o)
        ELSE /\ history' = history \union {m}
             /\ built' = [built EXCEPT ![m] = @ + 1]
             /\ body' = BodyAfter(m)
             /\ MoveTo(o, "look", m + 1)
             /\ UNCHANGED <<loose, readRows, old, disputed, doubled>>
     /\ UNCHANGED <<mixed, crashes>>

(* A mutant of Reassert: only a program that has just applied migrations    *)
(* reasserts their guards.                                                  *)
ReassertNothing(o) ==
  /\ opener[o].step = "reassert" /\ opener[o].at \in DOMAIN Reassertions
  /\ MoveTo(o, "reassert", opener[o].at + 1)
  /\ UNCHANGED <<migrationVars, old, disputed, body, mixed, crashes>>

(* The blocks that put guards back, each a transaction, in their order.     *)
Reassert(o) ==
  LET i == opener[o].at
  IN /\ opener[o].step = "reassert" /\ i \in DOMAIN Reassertions
     /\ body' =
          IF Reassertions[i][1] \in history \intersect 1..opener[o].version
          THEN [body EXCEPT ![Reassertions[i][2]] = Reassertions[i][3]]
          ELSE body
     /\ MoveTo(o, "reassert", i + 1)
     /\ UNCHANGED <<migrationVars, old, disputed, mixed, crashes>>

(* The guard of bank_accounts is dropped and created in two statements; the *)
(* second fails if another process has created it in between.               *)
DropLastGuard(o) ==
  /\ opener[o].step = "reassert" /\ opener[o].at \notin DOMAIN Reassertions
  /\ body' = [body EXCEPT ![LastGuard] = 0]
  /\ MoveTo(o, "create", 0)
  /\ UNCHANGED <<migrationVars, old, disputed, mixed, crashes>>

CreateLastGuard(o) ==
  /\ opener[o].step = "create"
  /\ IF body[LastGuard] = 0
     THEN /\ body' = [body EXCEPT ![LastGuard] = 1]
          /\ MoveTo(o, "ready", 0)
          /\ UNCHANGED <<migrationVars, old, disputed>>
     ELSE AbandonOpening(o)
  /\ UNCHANGED <<mixed, crashes>>

(* The program ends, or dies while it opens the ledger.                     *)
Close(o) ==
  /\ opener[o] # Closed
  /\ opener[o].step # "ready" => crashes < MaxCrashes
  /\ crashes' = IF opener[o].step = "ready" THEN crashes ELSE crashes + 1
  /\ AbandonOpening(o) /\ UNCHANGED mixed

-----------------------------------------------------------------------------

(* No ledger yet, one from before there was a history, or one whose history *)
(* is a table without strict columns, with the first row or without it.     *)
SchemaInit ==
  /\ loose \in BOOLEAN
  /\ history \in {{}, IF loose THEN {1} ELSE {}}
  /\ built = [m \in Migrations |-> IF m \in history THEN 1 ELSE 0]
  /\ readRows = [o \in Openers |-> {}]
  /\ old \in SUBSET DOMAIN OldTables
  /\ disputed \in BOOLEAN /\ (disputed => 1 \in old)
  /\ body = [g \in Guards |-> IF (loose \/ old # {}) /\ g \in BaselineGuards
                              THEN 1 ELSE 0]
  /\ opener = [o \in Openers |-> Closed]
  /\ mixed = FALSE /\ doubled = FALSE /\ crashes = 0

SchemaNext ==
  \E o \in Openers :
    \/ \E v \in Versions : Preflight(o, v)
    \/ EvaluateSchema(o)
    \/ InspectTable(o)
    \/ RebuildTable(o)
    \/ RestoreTriggers(o)
    \/ RecheckHistory(o)
    \/ UpgradeHistory(o)
    \/ LookForNext(o)
    \/ Migrate(o)
    \/ Reassert(o)
    \/ DropLastGuard(o)
    \/ CreateLastGuard(o)
    \/ Close(o)

SchemaSpec == SchemaInit /\ [][SchemaNext]_schemaVars

-----------------------------------------------------------------------------
(* Properties.                                                              *)

SchemaTypeOK ==
  /\ history \subseteq Migrations /\ old \subseteq DOMAIN OldTables
  /\ loose \in BOOLEAN /\ doubled \in BOOLEAN
  /\ \A o \in Openers : readRows[o] \subseteq Migrations
  /\ \A g \in Guards : body[g] \in Bodies
  /\ \A o \in Openers : opener[o].version \in Versions \union {0}
  /\ mixed \in BOOLEAN
  /\ \A o \in Openers : opener[o].step \in
       {"closed", "check", "inspect", "rebuild", "restore", "record", "upgrade",
        "look", "apply", "reassert", "create", "ready"}
  /\ crashes \in 0..MaxCrashes

(* What the history tells has happened: a migration in it has committed.    *)
(* It tells all, a migration in it has committed exactly once, one that is  *)
(* not has left nothing, and none is skipped, whichever programs open the   *)
(* ledger at once and wherever they die, as long as no two of them set out  *)
(* to rebuild the loose table of an old ledger: the second then puts back   *)
(* the rows it read before the first added its own.                         *)
HistoryIsTrue ==
  \A m \in Migrations :
    /\ m \in history => built[m] >= 1
    /\ ~doubled => /\ built[m] = IF m \in history THEN 1 ELSE 0
                   /\ m \in history => 1..m \subseteq history

(* The last word of the blocks on a guard, among migrations applied.        *)
LastWord(g) ==
  LET said == {i \in DOMAIN Reassertions :
                 Reassertions[i][2] = g /\ Reassertions[i][1] \in history}
  IN IF said = {} THEN IF g \in BaselineGuards THEN 1 ELSE 0
     ELSE Reassertions[CHOOSE i \in said : \A j \in said : j <= i][3]

(* A ledger that some program has open and none is opening has the guards   *)
(* a process leaves that opens it alone: those of the last block on each.   *)
(* Every opening first puts the weaker ones of the first schema back, and   *)
(* one that loses the race for a migration gives up before it would         *)
(* reassert; that harms nothing as long as no two versions opened it at     *)
(* once, none died and the loose table was rebuilt once.  Whether the last  *)
(* block is the one that is meant to win is the matter of OwnGuardsWin.     *)
GuardsAtRest ==
  /\ Opening = {} /\ crashes = 0 /\ ~mixed /\ ~doubled
  /\ \E o \in Openers : opener[o].step = "ready"
  => \A g \in Guards : body[g] = LastWord(g)

(* Whoever opens the ledger, the schema is what its history says.           *)
SchemaStands == HistoryIsTrue /\ GuardsAtRest

(* A guard the program itself makes stricter than the migration that brings *)
(* it, "on every open instead", is that strict once an opening has ended.   *)
OwnGuardsWin ==
  /\ Opening = {} /\ crashes = 0 /\ ~mixed /\ ~doubled
  /\ \E o \in Openers : opener[o].step = "ready"
  => \A i \in DOMAIN Reassertions :
       /\ Reassertions[i][1] \in history
       /\ Reassertions[i][3] \notin Migrations
       => body[Reassertions[i][2]] = Reassertions[i][3]

=============================================================================
