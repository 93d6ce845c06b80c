------------------------------ MODULE StateDb ------------------------------
(***************************************************************************)
(* The home state.db (crates/store/src/lib.rs, jobs.rs, title_index.rs).   *)
(*                                                                         *)
(* Store::open migrates the file forward. user_version is read once; the   *)
(* statements of the missing steps then run one by one, and SQLite commits *)
(* each of them by itself because no transaction is open. A process may    *)
(* die after any of them. Several processes may open the file: `doctor`    *)
(* and `seedbox bootstrap` do not take the lock the other commands hold.   *)
(*                                                                         *)
(* After the open, create_job, advance_job and import_rows are one         *)
(* transaction each, while record_install is a read, an UPDATE and an      *)
(* INSERT that other processes can come between, and rewrite_absolute_     *)
(* prefix reads its rows before its transaction starts.                    *)
(***************************************************************************)
EXTENDS StateRows

CONSTANTS
    Procs,          \* processes that open the file
    Titles, Digests,
    Paths,          \* library paths rows can carry
    Moved,          \* partial function: absolute path under the old root -> new path
    LegacyVersions, \* user_version values a file may start with
    LegacyRows,     \* title_index contents a file may start with (sets of rows)
    LegacyJobs,     \* TRUE when a version 2 file may hold an anonymous jobs table
    MaxJobs, MaxDeaths, MaxOps

VARIABLES
    version,   \* PRAGMA user_version
    tables,    \* names of the tables in the file
    titled,    \* jobs has its title_id column
    index,     \* rows of title_index
    staged,    \* rows of title_index_v7 while it exists
    jobs,      \* rows of jobs, ids 1..Len
    proc,      \* per process: what it is doing
    legacy,    \* the rows the file started with
    deaths, ops

vars == <<version, tables, titled, index, staged, jobs, proc, legacy, deaths, ops>>

(***************************************************************************)
(* migrate(): the statements of each step, in order.                       *)
(***************************************************************************)

Step(n) ==
    CASE n = 1 -> <<"probes", "set">>
      [] n = 2 -> <<"title_index", "jobs", "set">>
      [] n = 3 -> <<"dropAnonymousJobs", "makeJobs", "set">>
      [] n = 4 -> <<"machine", "set">>
      [] n = 5 -> <<"addPath", "set">>
      [] n = 6 -> <<"holds_decisions", "set">>
      [] n = 7 -> <<"title_index_v7", "copyRows", "dropIndex", "rename", "unique", "set">>

SchemaVersion == 7
TablesOf(n) == (IF n >= 1 THEN {"probes"} ELSE {})
          \cup (IF n >= 2 THEN {"title_index", "jobs"} ELSE {})
          \cup (IF n >= 4 THEN {"machine"} ELSE {})
          \cup (IF n >= 6 THEN {"holds_decisions"} ELSE {})

Creates == {"probes", "title_index", "machine", "holds_decisions", "title_index_v7"}

\* A statement SQLite can execute; another one ends Store::open with an error.
Accepts(stmt) ==
    CASE stmt \in Creates \cup {"jobs"} -> stmt \notin tables
      [] stmt = "dropAnonymousJobs" -> titled \/ ("jobs" \in tables /\ jobs = <<>>)
      [] stmt = "makeJobs" -> TRUE
      [] stmt \in {"addPath", "copyRows", "dropIndex"} ->
            "title_index" \in tables /\ (stmt = "copyRows" => "title_index_v7" \in tables)
      [] stmt = "rename" -> "title_index_v7" \in tables /\ "title_index" \notin tables
      [] stmt = "unique" -> "title_index" \in tables /\ PathsUnique(index)
      [] stmt = "set" -> TRUE

RunStatement(stmt, n) ==
    /\ version' = IF stmt = "set" THEN n ELSE version
    /\ tables' = CASE stmt \in Creates \cup {"jobs"} -> tables \cup {stmt}
                   [] stmt = "dropAnonymousJobs" /\ ~titled -> tables \ {"jobs"}
                   [] stmt = "makeJobs" -> tables \cup {"jobs"}
                   [] stmt = "dropIndex" -> tables \ {"title_index"}
                   [] stmt = "rename" -> (tables \ {"title_index_v7"}) \cup {"title_index"}
                   [] OTHER -> tables
    /\ titled' = (titled \/ stmt \in {"jobs", "makeJobs"})
    /\ staged' = CASE stmt = "copyRows" -> staged \cup index
                   [] stmt = "rename" -> {}
                   [] OTHER -> staged
    /\ index' = CASE stmt = "dropIndex" -> {}
                  [] stmt = "rename" -> staged
                  [] OTHER -> index

(***************************************************************************)
(* Processes.                                                              *)
(***************************************************************************)
Idle == [at |-> "idle"]
Ready == [at |-> "ready"]

Init ==
    \E v \in LegacyVersions, rows \in LegacyRows, anonymous \in {FALSE, LegacyJobs} :
        /\ v < 2 => rows = {}
        /\ v < 5 => \A r \in rows : r.path = NoPath
        /\ v < 7 => \A r, s \in rows : r # s => r.title # s.title
        /\ PathsUnique(rows)
        /\ anonymous => v = 2
        /\ version = v
        /\ tables = TablesOf(v)
        /\ titled = (v >= 2 /\ ~anonymous)
        /\ index = rows
        /\ staged = {}
        /\ jobs = <<>>
        /\ proc = [p \in Procs |-> Idle]
        /\ legacy = rows
        /\ deaths = 0
        /\ ops = 0

fileVars == <<version, tables, titled, staged>>

\* Store::open reads user_version once and migrates from there.
Open(p) ==
    /\ proc[p] = Idle
    /\ proc' = [proc EXCEPT ![p] =
                  IF version = SchemaVersion THEN Ready
                  ELSE [at |-> "migrate", step |-> version + 1, next |-> 1]]
    /\ UNCHANGED <<fileVars, index, jobs, legacy, deaths, ops>>

\* The statement after this one, or the open store.
After(p) ==
    LET m == proc[p] IN
    CASE m.next < Len(Step(m.step)) -> [m EXCEPT !.next = @ + 1]
      [] m.step < SchemaVersion -> [m EXCEPT !.step = @ + 1, !.next = 1]
      [] OTHER -> Ready

Migrate(p) ==
    /\ proc[p].at = "migrate"
    /\ LET stmt == Step(proc[p].step)[proc[p].next]
       IN  IF Accepts(stmt)
           THEN /\ RunStatement(stmt, proc[p].step)
                /\ proc' = [proc EXCEPT ![p] = After(p)]
           ELSE /\ proc' = [proc EXCEPT ![p] = Idle]
                /\ UNCHANGED <<fileVars, index>>
    /\ UNCHANGED <<jobs, legacy, deaths, ops>>

Die(p) ==
    /\ deaths < MaxDeaths
    /\ proc[p].at \in {"migrate", "install", "rewrite"}
    /\ proc' = [proc EXCEPT ![p] = Idle]
    /\ deaths' = deaths + 1
    /\ UNCHANGED <<fileVars, index, jobs, legacy, ops>>

(***************************************************************************)
(* Repository calls of an open store.                                      *)
(***************************************************************************)
Call(p) ==
    /\ proc[p].at = "ready"
    /\ ops < MaxOps
    /\ ops' = ops + 1

Create(p) ==
    /\ Call(p)
    /\ \E kind \in Kinds, title \in Titles, parent \in 0 .. MaxJobs :
         /\ Len(jobs) < MaxJobs
         /\ ParentAllowed(jobs, kind, parent)
         /\ jobs' = CreateJob(jobs, kind, title, parent)
    /\ UNCHANGED <<fileVars, index, proc, legacy, deaths>>

AdvanceRow(p) ==
    /\ Call(p)
    /\ \E id \in DOMAIN jobs : \E event \in Events :
         /\ Advance(jobs[id], event) # {}
         /\ jobs' = AdvanceJob(jobs, id, event)
    /\ UNCHANGED <<fileVars, index, proc, legacy, deaths>>

\* record_install, first statement: a row of this path answers the call.
StartInstall(p) ==
    /\ Call(p)
    /\ "title_index" \in tables
    /\ \E title \in Titles, digest \in Digests, path \in Paths :
         /\ RowsAt(index, path) = {}
         /\ proc' = [proc EXCEPT ![p] = [at |-> "install", next |-> "backfill",
                                         title |-> title, digest |-> digest, path |-> path]]
    /\ UNCHANGED <<fileVars, index, jobs, legacy, deaths>>

\* Second statement: the UPDATE of a pre-v5 row. SQLite refuses one that gives
\* two rows the same path.
BackfillRow(p) ==
    /\ proc[p].at = "install"
    /\ proc[p].next = "backfill"
    /\ LET c == proc[p]
           after == Backfill(index, c.title, c.digest, c.path)
       IN  IF Backfillable(index, c.title, c.digest) = {}
           THEN /\ proc' = [proc EXCEPT ![p].next = "insert"]
                /\ UNCHANGED index
           ELSE /\ proc' = [proc EXCEPT ![p] = Ready]
                /\ index' = IF PathsUnique(after) /\ "title_index" \in tables THEN after ELSE index
    /\ UNCHANGED <<fileVars, jobs, legacy, deaths, ops>>

InsertInstalled(p) ==
    /\ proc[p].at = "install"
    /\ proc[p].next = "insert"
    /\ LET c == proc[p]
       IN  index' = IF RowsAt(index, c.path) = {} /\ "title_index" \in tables
                    THEN InsertRow(index, c.title, c.digest, c.path)
                    ELSE index
    /\ proc' = [proc EXCEPT ![p] = Ready]
    /\ UNCHANGED <<fileVars, jobs, legacy, deaths, ops>>

RecordReplace(p) ==
    /\ Call(p)
    /\ \E path \in Paths, digest \in Digests :
         /\ RowsAt(index, path) # {}
         /\ index' = ReplaceRow(index, path, digest)
    /\ UNCHANGED <<fileVars, jobs, proc, legacy, deaths>>

\* import_rows: full rows, two different digests included, into an empty index.
ImportRows(p) ==
    /\ Call(p)
    /\ "title_index" \in tables
    /\ index = {}
    /\ \E rows \in LegacyRows :
         /\ PathsUnique(rows)
         /\ index' = rows
    /\ UNCHANGED <<fileVars, jobs, proc, legacy, deaths>>

\* rewrite_absolute_prefix: the rows are listed first, ...
StartRewrite(p) ==
    /\ Call(p)
    /\ "title_index" \in tables
    /\ proc' = [proc EXCEPT ![p] = [at |-> "rewrite",
                  paths |-> {r.path : r \in index} \cap DOMAIN Moved]]
    /\ UNCHANGED <<fileVars, index, jobs, legacy, deaths>>

\* ... and renamed in a transaction that rolls back when a path is taken.
Rewrite(p) ==
    /\ proc[p].at = "rewrite"
    /\ LET after == {IF r.path \in proc[p].paths THEN [r EXCEPT !.path = Moved[r.path]]
                                                  ELSE r : r \in index}
       IN  index' = IF PathsUnique(after) /\ Cardinality(after) = Cardinality(index)
                    THEN after ELSE index
    /\ proc' = [proc EXCEPT ![p] = Ready]
    /\ UNCHANGED <<fileVars, jobs, legacy, deaths, ops>>

Next == \E p \in Procs :
    \/ Open(p) \/ Migrate(p) \/ Die(p)
    \/ Create(p) \/ AdvanceRow(p)
    \/ StartInstall(p) \/ BackfillRow(p) \/ InsertInstalled(p) \/ RecordReplace(p)
    \/ ImportRows(p) \/ StartRewrite(p) \/ Rewrite(p)

Spec == Init /\ [][Next]_vars

(***************************************************************************)
(* Properties.                                                             *)
(***************************************************************************)
Rows == [title : Titles, path : Paths \cup {NoPath}, install : Digests, current : Digests]

\* Types of the file and of the processes.
StateTypeOK ==
    /\ version \in 0 .. SchemaVersion
    /\ tables \subseteq Creates \cup {"jobs"}
    /\ titled \in BOOLEAN
    /\ index \subseteq Rows
    /\ staged \subseteq Rows
    /\ \A i \in DOMAIN jobs :
         jobs[i] \in [title : Titles, kind : Kinds, state : JobStates, parent : 0 .. MaxJobs]
    /\ \A p \in Procs : proc[p].at \in {"idle", "ready", "migrate", "install", "rewrite"}

\* Store::open never loses an install proof: whichever statement of the
\* migration a process dies after, and however two opens interleave, every row
\* the file started with still exists in title_index or in its version 7 copy
\* with the digest it was installed under (possibly with a path filled in).
LegacyRowsSurvive ==
    \A old \in legacy : \E r \in index \cup staged :
        /\ r.title = old.title
        /\ r.install = old.install
        /\ old.path = NoPath \/ r.path \in {old.path} \cup
             (IF old.path \in DOMAIN Moved THEN {Moved[old.path]} ELSE {})

\* When one process at a time opens the file, user_version tells the truth: a
\* crash in the middle of a step never leaves a version whose tables are not
\* all there, so a store that opened can run every query.
VersionMatchesTables ==
    version = SchemaVersion => TablesOf(SchemaVersion) \subseteq tables /\ staged = {}

\* Processes that race create_job for the same title share one open Want.
OneOpenWant == \A t \in Titles : Cardinality(OpenWants(jobs, t)) <= 1

\* install_b3 is the proof reclaim relies on: whatever two processes do between
\* the statements of record_install, the digest recorded for a path is never
\* replaced by another one, and no two rows claim a path.
KeepsDigests ==
    /\ PathsUnique(index')
    /\ \A r \in index, s \in index' :
         r.path = s.path /\ r.path # NoPath /\ r.title = s.title => r.install = s.install
    /\ \A r \in index : r.path # NoPath /\ "title_index" \in tables' =>
         \E s \in index' : s.install = r.install /\ s.title = r.title
=============================================================================
