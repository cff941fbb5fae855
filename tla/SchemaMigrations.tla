-------------------------- MODULE SchemaMigrations --------------------------
(***************************************************************************)
(* The schema of a database is brought to another revision, one migration  *)
(* after another, by runners that may be two at once, fail or be killed,   *)
(* and start again (migrations/run.py, env.py and Alembic below them).     *)
(* Every migration is a transaction of its own.  On PostgreSQL its         *)
(* statements are part of it, except those in an autocommit_block, which   *)
(* commits what precedes.  On SQLite a statement is committed at once,     *)
(* unless the transaction has begun: it begins with the first row written, *)
(* which a table copy or an UPDATE does.                                   *)
(***************************************************************************)
EXTENDS MigrationScripts, Database

CONSTANTS
    MaxStarts,  \* bound: runs that are started
    MaxSteps    \* bound: migrations that are completed

VARIABLES
    target,  \* the database migrated
    schema,  \* its schema, parts and keys as pairs <<table, ...>>, the tables with rows, and
             \* the restrictions some row breaks: [tables, parts, keys, rows, breaks]
    version, \* alembic_version: how many migrations are applied
    runner,  \* what each runner does: [way, from, step, open, work, kept]
    torn,    \* the migration in the middle of which a run ended, after it had committed
             \* something; or 0
    spent    \* [starts, steps]

migrating == <<target, schema, version, runner, torn, spent>>

Versions ==
    [d \in {"admin", "control", "registry"} |->
        CASE d = "admin"    -> AdminVersions
          [] d = "control"  -> ControlVersions
          [] d = "registry" -> RegistryVersions]

Nothing == [tables |-> {}, parts |-> {}, keys |-> {}, rows |-> {}, breaks |-> {}]

Idle == [way |-> "none", from |-> 0, step |-> 0, open |-> FALSE, work |-> Nothing, kept |-> FALSE]

-----------------------------------------------------------------------------
(* What a statement needs and does.                                        *)

Without(t, pairs) == {p \in pairs : p[1] # t}
Pairs(t, things) == {<<t, x>> : x \in things}

\* What a table copy of SQLite keeps.
Kept(dialect, s, parts) ==
    IF s.do = "copy" /\ dialect = "sqlite" THEN parts \ Pairs(s.on, OverExpressions) ELSE parts

Applied(dialect, s, sc) ==
    CASE s.do = "create" ->
             [sc EXCEPT !.tables = @ \cup {s.on}, !.parts = @ \cup Pairs(s.on, s.come),
                        !.keys = @ \cup Pairs(s.on, s.refs)]
      [] s.do = "drop" ->
             [tables |-> sc.tables \ {s.on}, parts |-> Without(s.on, sc.parts),
              keys |-> Without(s.on, sc.keys), rows |-> sc.rows \ {s.on},
              breaks |-> Without(s.on, sc.breaks)]
      [] s.do = "unlink" -> [sc EXCEPT !.keys = @ \ Pairs(s.on, s.refs)]
      [] OTHER ->
             [sc EXCEPT !.parts = (Kept(dialect, s, @) \ Pairs(s.on, s.gone)) \cup Pairs(s.on, s.come),
                        !.keys = @ \cup Pairs(s.on, s.refs)]

\* What breaks a restriction that a statement adds: a row without a value the column has
\* no default for, a missing value, a value too long.
Restrictions(dialect) == NotNull \cup (IF dialect = "postgres" THEN Widths ELSE {})

Tolerated(dialect, s, sc) ==
    s.do # "create" =>
        /\ s.come \cap NoDefault # {} => s.on \notin sc.rows
        /\ Pairs(s.on, s.come \cap Restrictions(dialect)) \cap sc.breaks = {}

Applicable(dialect, s, sc) ==
    /\ (s.on \in sc.tables) = (s.do # "create")
    /\ s.do \in {"create", "alter", "copy"} =>
           /\ s.refs \subseteq sc.tables \cup {s.on}
           /\ Pairs(s.on, s.gone) \subseteq sc.parts
           /\ Pairs(s.on, s.come) \cap Kept(dialect, s, sc.parts) = {}
    /\ s.do = "unlink" => Pairs(s.on, s.refs) \subseteq sc.keys
    /\ s.do = "drop" /\ dialect = "postgres" => \A k \in sc.keys : k[2] = s.on => k[1] = s.on

Statements(dialect, script) == SelectSeq(script, LAMBDA s : dialect \in s.only)

\* The schema of each revision, as the upgrades make it.
SchemasOf(dialect, scripts) ==
    FoldLeft(LAMBDA scs, m : Append(scs, FoldLeft(LAMBDA sc, s : Applied(dialect, s, sc), Last(scs),
                                                  Statements(dialect, m.up))),
             <<Nothing>>, scripts)

Schemas == [dialect \in Dialects |-> [d \in DOMAIN Versions |-> SchemasOf(dialect, Versions[d])]]

SchemaAt(v) == Schemas[db][target][v + 1]

Shape(sc) == <<sc.tables, sc.parts, sc.keys>>

-----------------------------------------------------------------------------
(* A run.                                                                  *)

\* The services write rows to every table, of every kind its columns allow.
InUse(sc) ==
    [sc EXCEPT !.rows = sc.tables,
               !.breaks = @ \cup ((sc.tables \X (NotNull \cup Widths)) \ sc.parts)]

\* A database of some revision, empty or in use since that revision.
MigrationsInit ==
    /\ target \in DOMAIN Versions /\ version \in 0..Len(Versions[target])
    /\ schema \in {SchemaAt(version), InUse(SchemaAt(version))}
    /\ runner = [w \in Workers |-> Idle] /\ torn = 0
    /\ spent = [starts |-> 0, steps |-> 0]

To(w) == IF runner[w].way = "up" THEN runner[w].from + 1 ELSE runner[w].from - 1

\* The migration a runner is at, and its statements.
MigrationOf(w) == IF runner[w].way = "up" THEN runner[w].from + 1 ELSE runner[w].from

ScriptOf(w) ==
    LET m == Versions[target][MigrationOf(w)]
    IN Statements(db, IF runner[w].way = "up" THEN m.up ELSE m.down)

Remaining(w) == runner[w].way # "none" /\ runner[w].step < Len(ScriptOf(w))

Upcoming(w) == ScriptOf(w)[runner[w].step + 1]

\* The schema as a runner sees it.
Sees(w) == IF runner[w].open THEN runner[w].work ELSE schema

\* A statement waits for the tables that an open transaction changed, or on SQLite for the
\* transaction.
Waits(w) == \E v \in Workers \ {w} : runner[v].open

Stop(w) ==
    /\ runner' = [runner EXCEPT ![w] = Idle]
    /\ torn' = IF runner[w].kept THEN MigrationOf(w) ELSE torn

\* main, upgrade: the plan is made from the revision found at the start.
StartRun(w, way) ==
    /\ runner[w].way = "none" /\ spent.starts < MaxStarts
    /\ IF way = "up" THEN version < Len(Versions[target]) ELSE version > 0
    /\ runner' = [runner EXCEPT ![w] = [Idle EXCEPT !.way = way, !.from = version]]
    /\ spent' = [spent EXCEPT !.starts = @ + 1]
    /\ UNCHANGED <<target, schema, version, torn>>

Succeeds(w) ==
    /\ Applicable(db, Upcoming(w), Sees(w))
    /\ Tolerated(db, Upcoming(w), Sees(w))

\* One statement, in the transaction of the migration ...
RunInTransaction(w) ==
    /\ Remaining(w) /\ ~Waits(w) /\ Succeeds(w) /\ ~Upcoming(w).alone
    /\ ~Serial \/ runner[w].open \/ Upcoming(w).do \in {"copy", "rewrite"}
    /\ runner' = [runner EXCEPT ![w].step = @ + 1, ![w].open = TRUE,
                                ![w].work = Applied(db, Upcoming(w), Sees(w))]
    /\ UNCHANGED <<target, schema, version, torn, spent>>

\* ... or by itself.
RunAlone(w) ==
    /\ Remaining(w) /\ ~Waits(w) /\ Succeeds(w) /\ ~runner[w].open
    /\ Serial \/ Upcoming(w).alone
    /\ ~(Serial /\ Upcoming(w).do \in {"copy", "rewrite"})
    /\ schema' = Applied(db, Upcoming(w), schema)
    /\ runner' = [runner EXCEPT ![w].step = @ + 1, ![w].kept = TRUE]
    /\ UNCHANGED <<target, version, torn, spent>>

\* autocommit_block commits what precedes it.
EnterAutocommit(w) ==
    /\ Remaining(w) /\ Upcoming(w).alone /\ runner[w].open
    /\ schema' = runner[w].work
    /\ runner' = [runner EXCEPT ![w].open = FALSE, ![w].work = Nothing, ![w].kept = TRUE]
    /\ UNCHANGED <<target, version, torn, spent>>

\* The new revision is written over the one that was found (UPDATE ... WHERE version_num),
\* with what the transaction holds, and the next migration begins, or the run is over.
CompleteMigration(w) ==
    /\ runner[w].way # "none" /\ ~Remaining(w) /\ ~Waits(w) /\ version = runner[w].from
    /\ spent.steps < MaxSteps /\ spent' = [spent EXCEPT !.steps = @ + 1]
    /\ version' = To(w) /\ schema' = Sees(w)
    /\ \/ runner' = [runner EXCEPT ![w] = Idle]
       \/ /\ IF runner[w].way = "up" THEN To(w) < Len(Versions[target]) ELSE To(w) > 0
          /\ runner' = [runner EXCEPT ![w] = [Idle EXCEPT !.way = runner[w].way, !.from = To(w)]]
    /\ UNCHANGED <<target, torn>>

\* A statement fails, or another runner moved the revision: the transaction rolls back.
FailRun(w) ==
    /\ runner[w].way # "none" /\ ~Waits(w)
    /\ IF Remaining(w) THEN ~Succeeds(w) ELSE version # runner[w].from
    /\ Stop(w)
    /\ UNCHANGED <<target, schema, version, spent>>

\* The Job is killed, or its connection is lost.
KillRun(w) ==
    /\ runner[w].way # "none" /\ Stop(w)
    /\ UNCHANGED <<target, schema, version, spent>>

\* The services run at whatever revision the database is.
ServeRequests ==
    /\ \A w \in Workers : runner[w].way = "none"
    /\ schema' = InUse(schema)
    /\ UNCHANGED <<target, version, runner, torn, spent>>

RunnerStep(w) ==
    \/ \E way \in {"up", "down"} : StartRun(w, way)
    \/ RunInTransaction(w) \/ RunAlone(w) \/ EnterAutocommit(w) \/ CompleteMigration(w)
    \/ FailRun(w) \/ KillRun(w)

MigrationNext == UNCHANGED tx /\ (ServeRequests \/ \E w \in Workers : RunnerStep(w))

MigrationsTypeOK ==
    /\ target \in DOMAIN Versions
    /\ version \in 0..Len(Versions[target]) /\ torn \in 0..Len(Versions[target])
    /\ \A w \in Workers :
          /\ runner[w].way \in {"none", "up", "down"} /\ runner[w].from \in 0..Len(Versions[target])
          /\ runner[w].step \in Nat /\ runner[w].open \in BOOLEAN /\ runner[w].kept \in BOOLEAN
    /\ schema.rows \subseteq schema.tables

\* Whatever runs fail, are killed, race or go back, a database in which none was torn has
\* the schema of its revision, the one a fresh installation gets: every downgrade undoes
\* its upgrade, and no statement outlives a migration that did not complete.  On
\* PostgreSQL only a migration with an autocommit_block can be torn (env.py: "Each
\* migration owns its own transaction ... only commit their own work, never a sibling's").
SchemaOfRevision ==
    /\ torn = 0 /\ (\A w \in Workers : ~runner[w].kept) => Shape(schema) = Shape(SchemaAt(version))
    /\ torn # 0 /\ ~Serial => \E s \in Range(Versions[target][torn].up) : s.alone
=============================================================================
