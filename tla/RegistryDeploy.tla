---------------------------- MODULE RegistryDeploy ----------------------------
(***************************************************************************)
(* Containers of the registry API coming up beside each other: each stamps *)
(* a database that is older than the migrations, upgrades it to the head   *)
(* revision, creates the first administrator and serves; a container that  *)
(* fails or dies is started again.  A revision runs in one transaction of  *)
(* the database (external: a statement waits for a transaction that is     *)
(* making or dropping its table, sees what is committed and its own        *)
(* changes, and an error rolls everything back).                           *)
(*   Dockerfile, app/alembic/env.py, app/alembic/versions/, app/auth.py    *)
(***************************************************************************)
EXTENDS RegistrySchema, Naturals

CONSTANTS Containers,
          Filled,        \* tables the API writes rows to
          MaxCrashes,    \* bound: containers that die
          MaxDowngrades  \* bound: downgrades an operator makes

VARIABLES
  tables,   \* tables of the database, with their references
  version,  \* alembic_version: "absent" without that table
  rows,     \* tables that hold rows of the API
  admins,   \* users bootstrap_admin has created
  run,      \* what each container is doing
  crashes, downgrades

vars == <<tables, version, rows, admins, run, crashes, downgrades>>

Started == [pc |-> "start", read |-> "none", script |-> <<>>, created |-> <<>>, dropped |-> {}]

Merge(f, g) == [t \in DOMAIN f \cup DOMAIN g |-> IF t \in DOMAIN g THEN g[t] ELSE f[t]]
Without(f, names) == [t \in DOMAIN f \ names |-> f[t]]

VersionTable == [alembic_version |-> {}]

AtBaseline == Merge(AuthModels, VersionTable)

AtHead == Merge(AtBaseline, Merge(MasterModels,
            Merge(OccurrenceModels, Merge(StatementModels, DocumentModels))))

Legacy == Merge(AuthModels, [t \in {LegacyTables[i] : i \in DOMAIN LegacyTables} |-> {}])

\* A fresh database, one that create_all has made, and one at the first revision.
Init == /\ \/ tables = Without(AtHead, DOMAIN AtHead) /\ version = "absent"
           \/ tables = Legacy /\ version = "absent"
           \/ tables = AtBaseline /\ version = "0001"
        /\ rows = {} /\ admins = 0
        /\ run = [c \in Containers |-> Started]
        /\ crashes = 0 /\ downgrades = 0

-----------------------------------------------------------------------------
\* What a transaction sees.
Visible(c) == Merge(Without(tables, run[c].dropped), run[c].created)

\* A statement waits for a transaction that makes the table it would make, or takes away
\* the one it would take away; a table another one has just made is not there to be
\* dropped, and one that is still there cannot be made again.
Blocks(d, s, c) == IF s.op = "create" THEN s.table \in DOMAIN run[d].created \ DOMAIN Visible(c)
                                      ELSE s.table \in run[d].dropped
Held(s, c) == \E d \in Containers \ {c} : Blocks(d, s, c)

\* _maybe_autostamp_baseline looks for the two tables,
CheckStamp(c) ==
  /\ run[c].pc = "start"
  /\ run' = [run EXCEPT ![c].pc =
       IF version = "absent" /\ "user" \in DOMAIN tables THEN "stamp" ELSE "upgrade"]
  /\ UNCHANGED <<tables, version, rows, admins, crashes, downgrades>>

\* creates the version table, unless somebody else just did, and stamps it.
Stamp(c) ==
  /\ run[c].pc = "stamp"
  /\ ~Held(Create("alembic_version", {}), c)
  /\ IF version = "absent"
       THEN /\ version' = "0001" /\ tables' = Merge(tables, VersionTable)
            /\ run' = [run EXCEPT ![c].pc = "upgrade"]
       ELSE run' = [run EXCEPT ![c] = Started] /\ UNCHANGED <<version, tables>>
  /\ UNCHANGED <<rows, admins, crashes, downgrades>>

\* The statements from a version to the head, and back by one.
Script(from) == CASE from = "absent" -> <<Create("alembic_version", {})>> \o Baseline \o DocxTables
                  [] from = "0001" -> DocxTables
                  [] from = "0002" -> <<>>

\* alembic upgrade head begins its transaction and reads the version.
BeginUpgrade(c) ==
  /\ run[c].pc = "upgrade"
  /\ run' = [run EXCEPT ![c] = [Started EXCEPT !.pc = "ddl", !.read = version,
                                         !.script = Script(version)]]
  /\ UNCHANGED <<tables, version, rows, admins, crashes, downgrades>>

\* An operator steps back, between two starts of a container.
BeginDowngrade(c) ==
  /\ run[c].pc = "start" /\ version = "0002"
  /\ downgrades < MaxDowngrades /\ downgrades' = downgrades + 1
  /\ run' = [run EXCEPT ![c] = [Started EXCEPT !.pc = "ddl", !.read = "down",
                                         !.script = DowngradeDocx]]
  /\ UNCHANGED <<tables, version, rows, admins, crashes>>


Fails(view, s) ==
  CASE s.op = "create" -> \/ s.table \in DOMAIN view
                          \/ \E r \in s.references : r[2] \notin DOMAIN view \cup {s.table}
    [] s.op = "drop" -> \/ s.table \notin DOMAIN view
                        \/ \E t \in DOMAIN view \ {s.table} : \E r \in view[t] : r[2] = s.table
    [] OTHER -> FALSE

\* One statement of the revision.
Statement(c) ==
  LET now == run[c]
      s == Head(now.script)
  IN /\ now.pc = "ddl" /\ now.script # <<>>
     /\ ~Held(s, c)
     /\ run' = [run EXCEPT ![c] =
          IF Fails(Visible(c), s) THEN Started
          ELSE [now EXCEPT !.script = Tail(@),
                 !.created = IF s.op = "create" THEN Merge(@, [t \in {s.table} |-> s.references])
                             ELSE Without(@, {s.table}),
                 !.dropped = IF s.op # "create" /\ s.table \in DOMAIN tables
                               THEN @ \cup {s.table} ELSE @]]
     /\ UNCHANGED <<tables, version, rows, admins, crashes, downgrades>>

\* The database finds two transactions that wait for each other and ends one of them.
BreakDeadlock(c) ==
  LET Waits(a, b) == /\ run[a].pc = "ddl" /\ run[a].script # <<>>
                     /\ Blocks(b, Head(run[a].script), a)
  IN /\ \E d \in Containers \ {c} : Waits(c, d) /\ Waits(d, c)
     /\ run' = [run EXCEPT ![c] = Started]
     /\ UNCHANGED <<tables, version, rows, admins, crashes, downgrades>>

\* The version row moves on, if it still is the one that was read, and all is committed.
CommitEachStatement(c) ==
  /\ run[c].pc = "ddl"
  /\ tables' = Visible(c) /\ rows' = rows \ run[c].dropped
  /\ version' = IF run[c].script = <<>>
                  THEN IF run[c].read = "down" THEN "0001" ELSE "0002" ELSE version
  /\ run' = [run EXCEPT ![c] = [Started EXCEPT !.pc =
               IF run[c].script = <<>> THEN "boot" ELSE "start"]]
  /\ UNCHANGED <<admins, crashes, downgrades>>

CommitUpgrade(c) ==
  /\ run[c].pc = "ddl" /\ run[c].script = <<>>
  /\ IF version = IF run[c].read = "down" THEN "0002" ELSE run[c].read
       THEN /\ tables' = Visible(c)
            /\ rows' = rows \ run[c].dropped
            /\ version' = IF run[c].read = "down" THEN "0001" ELSE "0002"
            /\ run' = [run EXCEPT ![c] =
                 [Started EXCEPT !.pc = IF run[c].read = "down" THEN "start" ELSE "boot"]]
       ELSE run' = [run EXCEPT ![c] = Started] /\ UNCHANGED <<tables, version, rows>>
  /\ UNCHANGED <<admins, crashes, downgrades>>

\* bootstrap_admin looks for an administrator; the name is unique, so a second one
\* that was added in between makes the insert fail and the container with it.
BootUnchecked(c) ==
  /\ run[c].pc = "boot"
  /\ run' = [run EXCEPT ![c].pc = "insert"]
  /\ UNCHANGED <<tables, version, rows, admins, crashes, downgrades>>

Boot(c) ==
  /\ run[c].pc = "boot"
  /\ run' = [run EXCEPT ![c].pc = IF admins = 0 THEN "insert" ELSE "serving"]
  /\ UNCHANGED <<tables, version, rows, admins, crashes, downgrades>>

InsertAdmin(c) ==
  /\ run[c].pc = "insert"
  /\ admins' = 1
  /\ run' = [run EXCEPT ![c] = IF admins = 0 THEN [Started EXCEPT !.pc = "serving"] ELSE Started]
  /\ UNCHANGED <<tables, version, rows, crashes, downgrades>>

\* A request stores a row; a transaction that drops the table makes it wait.
Serve(c, t) ==
  /\ run[c].pc = "serving" /\ t \in DOMAIN tables \ rows
  /\ \A d \in Containers : t \notin run[d].dropped
  /\ rows' = rows \cup {t}
  /\ UNCHANGED <<tables, version, admins, run, crashes, downgrades>>

\* A container dies at any moment, its transaction with it.
Crash(c) ==
  /\ crashes < MaxCrashes /\ crashes' = crashes + 1
  /\ run[c] # Started /\ run' = [run EXCEPT ![c] = Started]
  /\ UNCHANGED <<tables, version, rows, admins, downgrades>>

Step(c) == \/ CheckStamp(c) \/ Stamp(c) \/ BeginUpgrade(c) \/ Statement(c)
           \/ BreakDeadlock(c) \/ CommitUpgrade(c) \/ Boot(c) \/ InsertAdmin(c)

Next == \E c \in Containers : \/ Step(c) \/ BeginDowngrade(c) \/ Crash(c)
                              \/ \E t \in Filled : Serve(c, t)

\* The cluster keeps its containers running.
Spec == Init /\ [][Next]_vars /\ \A c \in Containers : WF_vars(Step(c))

-----------------------------------------------------------------------------
\* The version tells which tables there are, whoever ran the revisions and however
\* often they failed; at the head they are, reference for reference, those of db.py
\* (the migrations are written by hand: alembic/env.py:5).
VersionTellsSchema ==
  /\ version = "0002" => tables = AtHead
  /\ version = "0001" => \A t \in DOMAIN AuthModels : tables[t] = AuthModels[t]
  /\ version \in {"absent", "0001", "0002"}

\* No upgrade destroys rows of the API: revision 0002 drops tables by name
\* (0002_docx_tables.py:66), and a container that read the old version runs it against
\* tables another container has just made.  Only a downgrade loses rows.
RowsSurvive == [][rows \subseteq rows' \/ \E c \in Containers : run[c].read = "down" /\ run'[c] # run[c]]_vars

\* In the end all containers serve, however they collide on the stamp, the revisions and
\* the administrator (Dockerfile:25-30).
AllServe == []<>(\A c \in Containers : run[c].pc = "serving")
=============================================================================
