----------------------------- MODULE Migrations -----------------------------
(***************************************************************************)
(* `bridge migrate up|down' (RunMigrations) and the four migrations, run   *)
(* by any image of the program, by several sessions at a time, beside the  *)
(* services that use the schema.                                           *)
(*                                                                         *)
(* A run is one transaction under READ COMMITTED: each statement sees what *)
(* is committed when it starts plus what its own session has changed.  DDL *)
(* locks what it changes until the commit.  An image is named by the       *)
(* number of migrations it carries.  schema_migrations itself exists: the  *)
(* first statement of a run creates it.                                    *)
(***************************************************************************)
EXTENDS Integers, Sequences

CONSTANTS Images,      \* the images that are ever deployed
          Sessions     \* runs of `bridge migrate' at the same time

Versions == 1 .. 4

ASSUME ImagesCarryMigrations == Images \subseteq Versions

(* max_users stands for all the tables 0001 creates.  A column is seen     *)
(* through one user's row: NULL in it, or a name.                          *)
Columns == {"absent", "null", "name"}
Schemas == [tables : BOOLEAN, function : BOOLEAN, split : Columns, full : Columns]

NoSchema == [tables |-> FALSE, function |-> FALSE, split |-> "absent", full |-> "absent"]

Transactions == [dir : {"none", "up", "down"}, image : Images \cup {0},
                 todo : Seq(Versions), at : {"idle", "check", "execute", "record"}]
Idle         == [dir |-> "none", image |-> 0, todo |-> <<>>, at |-> "idle"]

VARIABLES schema,     \* the committed schema; split is first_name and last_name
          applied,    \* the committed rows of schema_migrations
          run,        \* per session: direction, image, versions left, next statement
          draft,      \* per session: the schema as it has changed it
          holds,      \* per session: what it has locked, "users" or "function"
          added,      \* per session: rows it has inserted,
          removed     \* and rows it has deleted, uncommitted

sessionVars == <<run, draft, holds, added, removed>>

VARIABLES serving,    \* the image of the running services, 0 for none
          released,   \* images whose services may be started: their "up" went through
          named,      \* history: a name was stored, and no "down" has gone through since
          strayDown   \* history: an image older than the schema has migrated it down

vars == <<schema, applied, sessionVars, serving, released, named, strayDown>>

TypeOK ==
    /\ schema \in Schemas
    /\ ~schema.tables => schema.split = "absent" /\ schema.full = "absent"
    /\ applied \in SUBSET Versions
    /\ run \in [Sessions -> Transactions]
    /\ \A m \in Sessions : run[m].at = "record" => run[m].todo # <<>>
    /\ draft \in [Sessions -> Schemas]
    /\ holds \in [Sessions -> SUBSET {"users", "function"}]
    /\ added \in [Sessions -> SUBSET Versions]
    /\ removed \in [Sessions -> SUBSET Versions]
    /\ serving \in Images \cup {0}
    /\ released \in SUBSET Images
    /\ named \in BOOLEAN /\ strayDown \in BOOLEAN

Init ==
    /\ schema = NoSchema
    /\ applied = {}
    /\ run = [m \in Sessions |-> Idle]
    /\ draft = [m \in Sessions |-> NoSchema]
    /\ holds = [m \in Sessions |-> {}]
    /\ added = [m \in Sessions |-> {}]
    /\ removed = [m \in Sessions |-> {}]
    /\ serving = 0
    /\ released = {}
    /\ named = FALSE
    /\ strayDown = FALSE

Seen(m) ==
    [tables   |-> IF "users" \in holds[m] THEN draft[m].tables ELSE schema.tables,
     split    |-> IF "users" \in holds[m] THEN draft[m].split ELSE schema.split,
     full     |-> IF "users" \in holds[m] THEN draft[m].full ELSE schema.full,
     function |-> IF "function" \in holds[m] THEN draft[m].function ELSE schema.function]

RowSeen(m, v) == v \in (applied \ removed[m]) \cup added[m]

-----------------------------------------------------------------------------
(* The files.  Runs is whether PostgreSQL can execute the file at all.     *)

Present(col) == col # "absent"
NameIn(a, b) == IF "name" \in {a, b} THEN "name" ELSE "null"

Runs(dir, v, s) ==
    /\ v \in {3, 4} => s.tables
    /\ v = 4 /\ dir = "up" => Present(s.split)
    /\ v = 4 /\ dir = "down" => Present(s.full)

UpForgets_M(v, s) ==
    CASE v = 1 -> [s EXCEPT !.tables = TRUE]
      [] v = 2 -> [s EXCEPT !.function = TRUE]
      [] v = 3 -> [s EXCEPT !.split = IF Present(@) THEN @ ELSE "null"]
      [] v = 4 -> [s EXCEPT !.full = IF Present(@) THEN @ ELSE "null", !.split = "absent"]

Up(v, s) ==
    CASE v = 1 -> [s EXCEPT !.tables = TRUE]
      [] v = 2 -> [s EXCEPT !.function = TRUE]
      [] v = 3 -> [s EXCEPT !.split = IF Present(@) THEN @ ELSE "null"]
      [] v = 4 -> [s EXCEPT !.full = NameIn(@, s.split), !.split = "absent"]

DownKeepsColumns_M(v, s) ==
    CASE v = 1 -> [s EXCEPT !.tables = FALSE]
      [] v = 2 -> [s EXCEPT !.function = FALSE]
      [] v = 3 -> s
      [] v = 4 -> [s EXCEPT !.split = NameIn(@, s.full), !.full = "absent"]

Down(v, s) ==
    CASE v = 1 -> [s EXCEPT !.tables = FALSE, !.split = "absent", !.full = "absent"]
      [] v = 2 -> [s EXCEPT !.function = FALSE]
      [] v = 3 -> [s EXCEPT !.split = "absent"]
      [] v = 4 -> [s EXCEPT !.split = NameIn(@, s.full), !.full = "absent"]

Object(v) == IF v = 2 THEN "function" ELSE "users"
There(v, s) == IF v = 2 THEN s.function ELSE s.tables

-----------------------------------------------------------------------------
(* RunMigrations. *)

(* collectMigrationFiles sorts by version. *)
Files(dir, n) == [i \in 1 .. n |-> IF dir = "up" THEN i ELSE n + 1 - i]

FirstStatement(dir) == IF dir = "up" THEN "check" ELSE "execute"

Start(m, dir, n) ==
    /\ run[m] = Idle
    /\ run' = [run EXCEPT ![m] = [dir |-> dir, image |-> n, todo |-> Files(dir, n),
                                  at |-> FirstStatement(dir)]]
    /\ UNCHANGED <<schema, applied, draft, holds, added, removed, serving, released, named, strayDown>>

At(m, statement) == run[m].at = statement /\ run[m].todo # <<>>

NextFile(m) ==
    run' = [run EXCEPT ![m].todo = Tail(@), ![m].at = FirstStatement(run[m].dir)]

(* SELECT EXISTS: a version that is recorded is passed over ("up" only). *)
CheckVersion(m) ==
    /\ At(m, "check")
    /\ IF RowSeen(m, Head(run[m].todo))
       THEN NextFile(m)
       ELSE run' = [run EXCEPT ![m].at = "execute"]
    /\ UNCHANGED <<schema, applied, draft, holds, added, removed, serving, released, named, strayDown>>

(* What another session has locked is waited for.  A DROP IF EXISTS of     *)
(* what another session has created and not committed finds nothing.       *)
MustWait(m, v) ==
    /\ \E k \in Sessions \ {m} : Object(v) \in holds[k]
    /\ run[m].dir = "up" \/ There(v, Seen(m))

ExecuteFile(m) ==
    LET v == Head(run[m].todo)
        after == IF run[m].dir = "up" THEN Up(v, Seen(m)) ELSE Down(v, Seen(m))
    IN  /\ At(m, "execute")
        /\ Runs(run[m].dir, v, Seen(m)) /\ ~MustWait(m, v)
        /\ run' = [run EXCEPT ![m].at = "record"]
        /\ IF run[m].dir = "up" \/ There(v, Seen(m))
           THEN /\ draft' = [draft EXCEPT ![m] = after]
                /\ holds' = [holds EXCEPT ![m] = @ \cup {Object(v)}]
           ELSE UNCHANGED <<draft, holds>>
        /\ UNCHANGED <<schema, applied, added, removed, serving, released, named, strayDown>>

InsertVersionAnyway_M(m) ==
    LET v == Head(run[m].todo) IN
    /\ At(m, "record") /\ run[m].dir = "up"
    /\ \A k \in Sessions \ {m} : v \notin added[k] \cup removed[k]
    /\ added' = [added EXCEPT ![m] = @ \cup {v}]
    /\ NextFile(m)
    /\ UNCHANGED <<schema, applied, draft, holds, removed, serving, released, named, strayDown>>

(* The primary key: another session's uncommitted row is waited for, a     *)
(* committed one is an error.                                              *)
InsertVersion(m) ==
    LET v == Head(run[m].todo) IN
    /\ At(m, "record") /\ run[m].dir = "up"
    /\ v \notin applied
    /\ \A k \in Sessions \ {m} : v \notin added[k]
    /\ added' = [added EXCEPT ![m] = @ \cup {v}]
    /\ NextFile(m)
    /\ UNCHANGED <<schema, applied, draft, holds, removed, serving, released, named, strayDown>>

DeleteVersion(m) ==
    LET v == Head(run[m].todo) IN
    /\ At(m, "record") /\ run[m].dir = "down"
    /\ \A k \in Sessions \ {m} : v \notin removed[k]
    /\ removed' = [removed EXCEPT ![m] = @ \cup ({v} \cap applied)]
    /\ NextFile(m)
    /\ UNCHANGED <<schema, applied, draft, holds, added, serving, released, named, strayDown>>

End(m) ==
    /\ run' = [run EXCEPT ![m] = Idle]
    /\ draft' = [draft EXCEPT ![m] = NoSchema]
    /\ holds' = [holds EXCEPT ![m] = {}]
    /\ added' = [added EXCEPT ![m] = {}]
    /\ removed' = [removed EXCEPT ![m] = {}]

Commits(m) == run[m] # Idle /\ run[m].todo = <<>>

Commit(m) ==
    LET down == run[m].dir = "down" IN
    /\ Commits(m)
    /\ schema' = Seen(m)
    /\ applied' = (applied \ removed[m]) \cup added[m]
    /\ released' = IF down THEN released ELSE released \cup {run[m].image}
    /\ named' = (named /\ ~down)
    /\ strayDown' = (strayDown \/ (down /\ \E v \in applied : v > run[m].image))
    /\ End(m)
    /\ UNCHANGED serving

(* Any error rolls the whole run back: a statement that fails, a lock      *)
(* nobody gives up, a connection that is lost.                             *)
Fail(m) ==
    /\ run[m] # Idle
    /\ End(m)
    /\ UNCHANGED <<schema, applied, serving, released, named, strayDown>>

-----------------------------------------------------------------------------
(* The services, which nothing stops while a migration runs. *)

(* A release, or the rollback to an earlier one. *)
StartServices(n) ==
    /\ n \in released /\ n # serving
    /\ serving' = n
    /\ UNCHANGED <<schema, applied, sessionVars, released, named, strayDown>>

UsersUnlocked == \A m \in Sessions : "users" \notin holds[m]

(* A user links or is renamed; image 3 knows the split columns only. *)
SaveName ==
    /\ UsersUnlocked
    /\ \/ serving = 4 /\ Present(schema.full) /\ schema' = [schema EXCEPT !.full = "name"]
       \/ serving = 3 /\ Present(schema.split) /\ schema' = [schema EXCEPT !.split = "name"]
    /\ named' = TRUE
    /\ UNCHANGED <<applied, sessionVars, serving, released, strayDown>>

SessionStep(m) ==
    CheckVersion(m) \/ ExecuteFile(m) \/ InsertVersion(m) \/ DeleteVersion(m) \/ Commit(m) \/ Fail(m)

Next ==
    \/ \E m \in Sessions : SessionStep(m) \/ \E dir \in {"up", "down"}, n \in Images : Start(m, dir, n)
    \/ \E n \in Images : StartServices(n)
    \/ SaveName

Spec == Init /\ [][Next]_vars

-----------------------------------------------------------------------------
(* Properties. *)

(* The rows of schema_migrations, which are all an "up" goes by, are the   *)
(* first k versions and say what the schema is, however sessions of images *)
(* that carry 0003 run into each other (it fails with image 2: see         *)
(* RecentImages in MigrationsProofs).  The exception is a "down" by an     *)
(* image older than the schema: it leaves the later rows behind, and the   *)
(* next "up" passes over what they stand for.                              *)
VersionsMeanSchema ==
    strayDown \/ \E k \in Versions \cup {0} :
        /\ applied = 1 .. k
        /\ schema.tables <=> k >= 1
        /\ schema.function <=> k >= 2
        /\ Present(schema.split) <=> k = 3
        /\ Present(schema.full) <=> k = 4

(* 0004 moves the names to another column under the services that write    *)
(* them: a name that was stored is in one of the columns until somebody    *)
(* migrates down.                                                          *)
NamesSurvive == named => "name" \in {schema.split, schema.full}
=============================================================================
