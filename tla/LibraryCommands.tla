--------------------------- MODULE LibraryCommands ---------------------------
(***************************************************************************)
(* The library commands of the CLI: manual `pull`, `library reindex`,      *)
(* `library relocate` and `library bootstrap` (bins/mediaops/src/home.rs,  *)
(* library.rs and home_library.rs).  A flock admits one of them at a time; *)
(* the first three pause scheduling through Cluster.spec.lock and give the *)
(* lock back.  Each call to the API is a step, so that Jobs, the           *)
(* controllers, the operator's own edits, other users of the disk, lost    *)
(* replies and kills come in between.                                      *)
(*                                                                         *)
(* A path stands for a placement; every file has the same length.          *)
(***************************************************************************)
EXTENDS Integers, FiniteSets, FiniteSetsExt

CONSTANTS
    Paths,
    TitleOf,      \* the Title a path belongs to
    KeyOf,        \* the FileKey of its placement
    Split,        \* paths whose schema directory links another disk
    Roots,        \* library roots, each a filesystem of its own
    Unlinked,     \* the filesystem the Split directories lie on
    FileLen, Room,    \* length of a file; free bytes of an empty filesystem
    Reserves,     \* values of min_free
    Absent,       \* whether there is no Cluster yet
    Present,      \* paths that are in the first root at the start
    Starts,       \* the commands given, as records of the operator's arguments
    Attempts,     \* tries of an optimistic write (5 in the code)
    JobPaths,     \* paths that Jobs may pull
    MaxStarts, MaxFaults, MaxEdits, MaxWorld,
    Operator,     \* whether the operator reindexes while a file has no proof
    None

\* What an instance gives the constants.
LibraryAssumption ==
    /\ Reserves # {} /\ Reserves \subseteq Nat
    /\ {FileLen, Room, Attempts, MaxStarts, MaxFaults, MaxEdits, MaxWorld} \subseteq Nat
    /\ FileLen > 0 /\ Attempts > 0

VARIABLES
    cluster,  \* None, or the spec: root, reserve, lock
    laid,     \* roots that have their directories
    free,     \* free bytes of each filesystem
    taken,    \* bytes that others have taken of it
    disk,     \* root -> path -> what the file holds, or "none"
    staged,   \* root -> path -> bytes allocated below _incoming
    proof,    \* path -> None or the Title's file status
    job,      \* path -> the Job that pulls it
    cmd,      \* the command that holds the flock
    last,     \* what the last command reported
    frozen,   \* observer: a lock that is for a person to clear (see FreezeStays)
    left      \* what remains of the bounds

vars == <<cluster, laid, free, taken, disk, staged, proof, job, cmd, last, frozen, left>>
files == <<laid, free, taken, disk, staged>>

Disks == Roots \cup {Unlinked}
DiskOf(r, p) == IF p \in Split THEN Unlinked ELSE r
NoJob == [st |-> "none", root |-> None]
Idle == [pc |-> "idle", arg |-> None, root |-> None, reserve |-> 0, held |-> None,
         fresh |-> FALSE, set |-> FALSE, was |-> FALSE, then |-> "none", tries |-> 0,
         rows |-> {}, titles |-> {}, seen |-> None, touched |-> {}]
Quiet == [result |-> "none", arg |-> None, whole |-> TRUE]

LibraryInit ==
    /\ cluster = IF Absent THEN None
                 ELSE [root |-> Min(Roots), reserve |-> Min(Reserves), lock |-> FALSE]
    /\ laid = {Min(Roots)}
    /\ free = [d \in Disks |-> Room] /\ taken = [d \in Disks |-> 0]
    /\ disk = [r \in Roots |-> [p \in Paths |->
                 IF r = Min(Roots) /\ p \in Present THEN "a" ELSE "none"]]
    /\ staged = [r \in Roots |-> [p \in Paths |-> 0]]
    /\ proof = [p \in Paths |->
                 IF p \in Present THEN [install |-> "a", current |-> "a", drifted |-> FALSE]
                 ELSE None]
    /\ job = [p \in Paths |-> NoJob]
    /\ cmd = Idle /\ last = Quiet /\ frozen = FALSE
    /\ left = [starts |-> MaxStarts, faults |-> MaxFaults, edits |-> MaxEdits, world |-> MaxWorld]

At(pc) == cmd.pc = pc
To(pc) == cmd' = [cmd EXCEPT !.pc = pc]
Spend(b) == left[b] > 0 /\ left' = [left EXCEPT ![b] = @ - 1]
Locked == IF cluster = None THEN FALSE ELSE cluster.lock
Is(kind) == cmd.arg.kind = kind

\* Every file of the scanned root that nobody touched has a proof of what it holds.
Whole == \A p \in Paths \ cmd.touched :
    disk[cmd.root][p] # "none" =>
        /\ proof[p] # None
        /\ ~proof[p].drifted
        /\ proof[p].current = disk[cmd.root][p]

\* The command ends and drops the flock; an error inside the maintenance leaves the lock.
Report(result) ==
    /\ cmd' = Idle
    /\ last' = [result |-> result, arg |-> cmd.arg,
                whole |-> (result = "ok" /\ Is("reindex")) => Whole]
Refuse == Report("refused") /\ UNCHANGED frozen
Fail == Report("failed") /\ frozen' = (frozen \/ Locked)

-----------------------------------------------------------------------------
(* Free space *)

PullFits(available, reserve, bound, bytes) == available - (bound + bytes) >= reserve
Remaining(r, p) == FileLen - staged[r][p]

\* check_manual_budget.  One file never exceeds max_copy here.
ManualBudget(r, p, reserve) == PullFits(free[r], reserve, 0, Remaining(r, p))

\* A destination on the filesystem of the root is a rename; elsewhere it is a copy.
InstallFits(r, p, reserve) ==
    DiskOf(r, p) = r \/ PullFits(free[DiskOf(r, p)], reserve, 0, FileLen)

\* refuse_below_watermark.
AboveWatermark(r, reserve) == free[r] >= reserve

\* Putting a staged file in its place.
Placed(r, p) ==
    /\ disk' = [disk EXCEPT ![r][p] = "a"]
    /\ staged' = [staged EXCEPT ![r][p] = 0]
    /\ free' = IF DiskOf(r, p) = r THEN free
               ELSE [free EXCEPT ![r] = @ + FileLen, ![DiskOf(r, p)] = @ - FileLen]

Allocate(r, p) ==
    /\ staged' = [staged EXCEPT ![r][p] = @ + 1]
    /\ free' = [free EXCEPT ![r] = @ - 1]

-----------------------------------------------------------------------------
(* The arguments, and the Cluster as loaded *)

\* placement_for: a schema-shaped remote path names its placement and must agree with the
\* title; any other needs the fields of its kind, and an album cannot be described by them.
PlacementFor(arg) ==
    IF arg.remote = "schema" THEN arg.title = TitleOf[arg.path]
    ELSE CASE arg.kindOf = "movie" -> {"ext", "title", "year"} \subseteq arg.given
           [] arg.kindOf = "series" ->
                {"ext", "title", "year", "season", "episode"} \subseteq arg.given
           [] OTHER -> FALSE

\* The flock is taken.
Start(arg) ==
    /\ At("idle") /\ Spend("starts")
    /\ cmd' = [Idle EXCEPT !.arg = arg,
                           !.pc = IF arg.kind = "bootstrap" THEN "layout" ELSE "load"]
    /\ UNCHANGED <<cluster, files, proof, job, last, frozen>>

\* The Cluster is read.  A locked one freezes the manual pull; its copy keeps the settings it
\* read here.
Load ==
    /\ At("load")
    /\ IF cluster = None THEN Fail
       ELSE IF /\ Is("pull")
               /\ cluster.lock \/ (cmd.arg.install /\ ~PlacementFor(cmd.arg))
       THEN Refuse
       ELSE /\ cmd' = [cmd EXCEPT !.held = cluster, !.reserve = cluster.reserve,
                         !.root = IF Is("relocate") THEN cmd.arg.root ELSE cluster.root,
                         !.pc = CASE Is("pull") -> "budget" [] Is("reindex") -> "lockget"
                                  [] OTHER -> "layout",
                         !.set = TRUE, !.then = "jobs"]
            /\ UNCHANGED <<last, frozen>>
    /\ UNCHANGED <<cluster, files, proof, job, left>>

\* The destination must be free, the remote file is looked at, and the copy must fit.
FirstCheck ==
    /\ At("budget")
    /\ IF \/ cmd.arg.install /\ disk[cmd.root][cmd.arg.path] # "none"
          \/ ~ManualBudget(cmd.root, cmd.arg.path, cmd.reserve)
       THEN Refuse
       ELSE To("lockget") /\ UNCHANGED <<last, frozen>>
    /\ UNCHANGED <<cluster, files, proof, job, left>>

\* layout_canonical_root: a filesystem below the watermark is refused before anything is made.
Layout ==
    /\ At("layout")
    /\ LET root == cmd.arg.root
           reserve == IF Is("bootstrap") THEN cmd.arg.reserve ELSE cmd.reserve IN
       IF ~AboveWatermark(root, reserve) THEN Refuse /\ UNCHANGED laid
       ELSE /\ laid' = laid \cup {root}
            /\ To(IF Is("bootstrap") THEN "find" ELSE "lockget")
            /\ UNCHANGED <<last, frozen>>
    /\ UNCHANGED <<cluster, free, taken, disk, staged, proof, job, left>>

-----------------------------------------------------------------------------
(* The maintenance lock: set_lock, begin_maintenance, finish_maintenance *)

LockGet ==
    /\ At("lockget")
    /\ cmd' = [cmd EXCEPT !.pc = "lockpatch", !.held = cluster, !.fresh = TRUE]
    /\ UNCHANGED <<cluster, files, proof, job, last, frozen, left>>

\* The patch of what was read: a conflict is tried again, the value it replaces is the one
\* to give back.
LockPatch ==
    /\ At("lockpatch")
    /\ IF cmd.fresh
       THEN /\ cluster' = [cluster EXCEPT !.lock = cmd.set]
            /\ IF cmd.then \in {"ok", "refused"}
               THEN Report(cmd.then)
               ELSE /\ cmd' = [cmd EXCEPT !.pc = cmd.then, !.was = cluster.lock, !.tries = 0,
                                          !.held = [cluster EXCEPT !.lock = TRUE]]
                    /\ UNCHANGED last
            /\ UNCHANGED frozen
       ELSE IF cmd.tries + 1 < Attempts
       THEN cmd' = [cmd EXCEPT !.pc = "lockget", !.tries = @ + 1]
            /\ UNCHANGED <<cluster, last, frozen>>
       ELSE Fail /\ UNCHANGED cluster
    /\ UNCHANGED <<files, proof, job, left>>

FinishMaintenance(result) ==
    cmd' = [cmd EXCEPT !.pc = "lockget", !.set = cmd.was, !.then = result, !.tries = 0]

\* A bound Job that has not ended gives the lock back and refuses.
ListJobs ==
    /\ At("jobs")
    /\ IF \E p \in Paths : job[p].st = "bound" THEN FinishMaintenance("refused")
       ELSE To(CASE Is("pull") -> "check" [] Is("reindex") -> "rows" [] OTHER -> "setroot")
    /\ UNCHANGED <<cluster, files, proof, job, last, frozen, left>>

-----------------------------------------------------------------------------
(* The manual pull *)

SecondCheck ==
    /\ At("check")
    /\ IF ManualBudget(cmd.root, cmd.arg.path, cmd.reserve)
       THEN To("copy") /\ UNCHANGED <<last, frozen>>
       ELSE Fail
    /\ UNCHANGED <<cluster, files, proof, job, left>>

\* The staged copy, which resumes what an earlier one left; then verify and the checks for
\* the destination.  A full disk ends it, as does a title the path does not belong to.
Copy ==
    /\ At("copy")
    /\ LET r == cmd.root  p == cmd.arg.path IN
       IF staged[r][p] < FileLen
       THEN IF free[r] > 0 THEN Allocate(r, p) /\ UNCHANGED <<cmd, last, frozen>>
            ELSE Fail /\ UNCHANGED <<staged, free>>
       ELSE /\ UNCHANGED <<staged, free>>
            /\ IF ~cmd.arg.install THEN FinishMaintenance("ok") /\ UNCHANGED <<last, frozen>>
               ELSE IF cmd.arg.title # TitleOf[p] THEN Fail
               ELSE /\ UNCHANGED <<last, frozen>>
                    /\ IF /\ InstallFits(r, p, cmd.reserve)
                          /\ ManualBudget(r, p, cmd.reserve)
                       THEN To("install") ELSE FinishMaintenance("refused")
    /\ UNCHANGED <<cluster, laid, taken, disk, proof, job, left>>

\* install never replaces: what has appeared at the destination ends the command.
Install ==
    /\ At("install")
    /\ LET r == cmd.root  p == cmd.arg.path IN
       IF disk[r][p] = "none"
       THEN /\ Placed(r, p)
            /\ cmd' = [cmd EXCEPT !.pc = "pubget", !.titles = {cmd.arg.title},
                        !.rows = {[path |-> p, install |-> "a", current |-> "a"]}]
            /\ UNCHANGED <<last, frozen>>
       ELSE Fail /\ UNCHANGED <<disk, staged, free>>
    /\ UNCHANGED <<cluster, laid, taken, proof, job, left>>

-----------------------------------------------------------------------------
(* Reindex, and the publication of proof *)

\* rows(true): the proof of every Title, drifted or not.  The root must be a directory.
Rows ==
    /\ At("rows")
    /\ IF cmd.held.root \in laid
       THEN cmd' = [cmd EXCEPT !.pc = "scan", !.seen = proof, !.root = cmd.held.root] /\ UNCHANGED <<last, frozen>>
       ELSE Fail
    /\ UNCHANGED <<cluster, files, proof, job, left>>

\* The rows to publish: what was proved before, and what the scan found new.
Row(p) ==
    IF cmd.seen[p] = None
    THEN [path |-> p, install |-> disk[cmd.held.root][p], current |-> disk[cmd.held.root][p]]
    ELSE [path |-> p, install |-> cmd.seen[p].install, current |-> cmd.seen[p].current]

Found == {p \in Paths : disk[cmd.held.root][p] # "none"}

\* scan_schema_files and the hash of every file.  A digest that differs from the recorded
\* one is drift, and nothing is published.
Scan ==
    /\ At("scan")
    /\ IF \E p \in Found : cmd.seen[p] # None /\ cmd.seen[p].current # disk[cmd.held.root][p]
       THEN Fail
       ELSE /\ cmd' = [cmd EXCEPT !.pc = "pubget", !.rows = {Row(p) : p \in Found},
                                  !.titles = {TitleOf[p] : p \in Found}, !.seen = None]
            /\ UNCHANGED <<last, frozen>>
    /\ UNCHANGED <<cluster, files, proof, job, left>>

\* publish_rows: Title by Title, the object is read (or created) first.
PublishGet ==
    /\ At("pubget")
    /\ IF cmd.titles = {} THEN FinishMaintenance("ok")
       ELSE \E t \in cmd.titles :
              cmd' = [cmd EXCEPT !.pc = "pubpatch", !.titles = @ \ {t}, !.fresh = TRUE,
                        !.seen = [title |-> t, files |-> [p \in Paths |->
                            IF TitleOf[p] = t THEN proof[p] ELSE None]]]
    /\ UNCHANGED <<cluster, files, proof, job, last, frozen, left>>

RowsOf(t) == {row \in cmd.rows : TitleOf[row.path] = t}

\* The status the client sends.
Status(t) == [p \in Paths |->
    IF \E row \in RowsOf(t) : row.path = p
    THEN LET row == CHOOSE x \in RowsOf(t) : x.path = p IN
         [install |-> row.install, current |-> row.current, drifted |-> FALSE]
    ELSE cmd.seen.files[p]]

\* What the client checks of a row: the file holds what it says, the install digest stays.
RowHolds(row) ==
    /\ disk[cmd.held.root][row.path] = row.current
    /\ IF cmd.seen.files[row.path] = None THEN TRUE
       ELSE cmd.seen.files[row.path].install = row.install

\* What the API checks: one file for each FileKey, and the bytes of every changed entry.
Admits(status) ==
    /\ \A p, q \in {x \in Paths : status[x] # None} : KeyOf[p] = KeyOf[q] => p = q
    /\ \A p \in Paths :
         status[p] # None /\ status[p] # proof[p] => disk[cluster.root][p] = status[p].current

PublishPatch ==
    /\ At("pubpatch")
    /\ LET t == cmd.seen.title  status == Status(t) IN
       IF ~\A row \in RowsOf(t) : RowHolds(row) THEN Fail /\ UNCHANGED proof
       ELSE IF ~cmd.fresh
       THEN IF cmd.tries + 1 < Attempts
            THEN cmd' = [cmd EXCEPT !.pc = "pubget", !.titles = @ \cup {t}, !.seen = None,
                                    !.tries = @ + 1]
                 /\ UNCHANGED <<proof, last, frozen>>
            ELSE Fail /\ UNCHANGED proof
       ELSE IF Admits(status)
       THEN /\ proof' = [p \in Paths |-> IF TitleOf[p] = t THEN status[p] ELSE proof[p]]
            /\ cmd' = [cmd EXCEPT !.pc = "pubget", !.seen = None, !.tries = 0]
            /\ UNCHANGED <<last, frozen>>
       ELSE Fail /\ UNCHANGED proof
    /\ UNCHANGED <<cluster, files, job, left>>

-----------------------------------------------------------------------------
(* Relocate and bootstrap *)

\* validate_root_change: no Job that has not ended may point to another root.
RootMayBe(r) == \A p \in Paths : job[p].st \in {"pending", "bound"} => job[p].root = r

\* The patch carries the version the lock was written with.
SetRoot ==
    /\ At("setroot")
    /\ IF cmd.fresh /\ (cmd.root # cluster.root => RootMayBe(cmd.root))
       THEN cluster' = [cmd.held EXCEPT !.root = cmd.root] /\ To("units")
            /\ UNCHANGED <<last, frozen>>
       ELSE Fail /\ UNCHANGED cluster
    /\ UNCHANGED <<files, proof, job, left>>

\* The unit files are written and enabled, which may fail on its own.
WriteUnits ==
    /\ At("units")
    /\ \/ FinishMaintenance("ok") /\ UNCHANGED <<last, frozen, left>>
       \/ Spend("faults") /\ Fail
    /\ UNCHANGED <<cluster, files, proof, job>>

\* bootstrap_home looks for the Cluster, or makes one of the configuration.
FindCluster ==
    /\ At("find")
    /\ IF cluster # None /\ cluster.root # cmd.arg.root THEN Refuse
       ELSE /\ cmd' = [cmd EXCEPT !.pc = "apply",
                         !.held = IF cluster # None THEN cluster
                                  ELSE [root |-> cmd.arg.root, reserve |-> cmd.arg.reserve,
                                        lock |-> FALSE]]
            /\ UNCHANGED <<last, frozen>>
    /\ UNCHANGED <<cluster, files, proof, job, left>>

\* apply_spec reads the metadata of the moment and writes the spec it brought: two calls,
\* between which only a conflict could stop it.
ApplySpec ==
    /\ At("apply")
    /\ IF cluster # None /\ cluster.root # cmd.held.root /\ ~RootMayBe(cmd.held.root)
       THEN Fail /\ UNCHANGED cluster
       ELSE cluster' = cmd.held /\ Report("ok") /\ UNCHANGED frozen
    /\ UNCHANGED <<files, proof, job, left>>

-----------------------------------------------------------------------------
(* Failures *)

\* A call fails; a write may have taken effect all the same.
ApiFails ==
    /\ cmd.pc \in {"load", "budget", "lockget", "lockpatch", "jobs", "copy", "rows", "pubget",
                   "pubpatch", "setroot", "find", "apply"}
    /\ Spend("faults")
    /\ \/ Fail /\ UNCHANGED cluster
       \/ /\ At("lockpatch") /\ cmd.fresh
          /\ cluster' = [cluster EXCEPT !.lock = cmd.set]
          /\ Report("failed") /\ frozen' = (frozen \/ cmd.set)
    /\ UNCHANGED <<files, proof, job>>

\* The command is killed, wherever it is.
Killed ==
    /\ ~At("idle")
    /\ Spend("faults") /\ Report("killed") /\ frozen' = (frozen \/ Locked)
    /\ UNCHANGED <<cluster, files, proof, job>>

Command ==
    \/ Load \/ FirstCheck \/ Layout \/ LockGet \/ LockPatch \/ ListJobs
    \/ SecondCheck \/ Copy \/ Install \/ Rows \/ Scan \/ PublishGet \/ PublishPatch
    \/ SetRoot \/ WriteUnits \/ FindCluster \/ ApplySpec

-----------------------------------------------------------------------------
(* The rest of the house *)

\* Somebody else writes the Cluster, or a Title, under a running command.
ClusterMoves == cmd' = IF At("lockpatch") \/ At("jobs") \/ At("setroot")
                       THEN [cmd EXCEPT !.fresh = FALSE] ELSE cmd
TitleMoves(p) == cmd' = [cmd EXCEPT !.touched = @ \cup {p},
                            !.fresh = IF At("pubpatch") /\ cmd.seen.title = TitleOf[p]
                                      THEN FALSE ELSE @]
FileMoves(p) == cmd' = IF At("idle") THEN cmd ELSE [cmd EXCEPT !.touched = @ \cup {p}]

\* The running command will write a lock it has read before: finish_maintenance the one it
\* found at the start, bootstrap's apply_spec the one of the spec it brings.
WritesBack ==
    \/ cmd.pc \in {"jobs", "check", "copy", "install", "rows", "scan", "pubget", "pubpatch",
                   "setroot", "units", "apply"}
    \/ cmd.pc \in {"lockget", "lockpatch"} /\ cmd.then # "jobs"

\* The operator freezes the Cluster, whether or not it is locked, clears a lock that was left
\* while nothing runs, or clears the lock of a running command.
Freeze ==
    /\ cluster # None /\ Spend("edits")
    /\ cluster' = [cluster EXCEPT !.lock = TRUE] /\ frozen' = (frozen \/ ~WritesBack)
    /\ ClusterMoves
    /\ UNCHANGED <<files, proof, job, last>>
Unlock ==
    /\ At("idle") /\ cluster # None /\ cluster.lock
    /\ cluster' = [cluster EXCEPT !.lock = FALSE] /\ frozen' = FALSE
    /\ UNCHANGED <<files, proof, job, cmd, last, left>>
Thaw ==
    /\ ~At("idle") /\ Locked /\ Spend("edits")
    /\ cluster' = [cluster EXCEPT !.lock = FALSE] /\ frozen' = FALSE
    /\ ClusterMoves
    /\ UNCHANGED <<files, proof, job, last>>

\* Other settings of the Cluster are applied.
EditCluster ==
    /\ cluster # None /\ Spend("edits")
    /\ \E r \in Roots, n \in Reserves :
         /\ r # cluster.root => RootMayBe(r)
         /\ <<r, n>> # <<cluster.root, cluster.reserve>>
         /\ cluster' = [cluster EXCEPT !.root = r, !.reserve = n]
    /\ ClusterMoves
    /\ UNCHANGED <<files, proof, job, last, frozen>>

\* A Job is created, bound, copies and ends (JobControl and PullWorker have the details).
CreateJob(p) ==
    /\ cluster # None /\ ~cluster.lock /\ job[p].st = "none" /\ proof[p] = None
    /\ job' = [job EXCEPT ![p] = [st |-> "pending", root |-> cluster.root]]
    /\ UNCHANGED <<cluster, files, proof, cmd, last, frozen, left>>
BindJob(p) ==
    /\ cluster # None /\ ~cluster.lock
    /\ job[p].st = "pending" /\ job[p].root = cluster.root
    /\ LET r == cluster.root IN
       /\ PullFits(free[r], cluster.reserve,
                   MapThenSumSet(LAMBDA q : Remaining(r, q), {q \in Paths : job[q].st = "bound"}),
                   Remaining(r, p))
       /\ InstallFits(r, p, cluster.reserve)
    /\ job' = [job EXCEPT ![p].st = "bound"]
    /\ UNCHANGED <<cluster, files, proof, cmd, last, frozen, left>>
RunJob(p) ==
    /\ job[p].st = "bound"
    /\ LET r == job[p].root IN
       \/ /\ staged[r][p] < FileLen /\ free[r] > 0 /\ Allocate(r, p)
          /\ UNCHANGED <<job, disk, proof, cmd>>
       \/ /\ staged[r][p] = FileLen /\ disk[r][p] = "none" /\ InstallFits(r, p, Min(Reserves))
          /\ Placed(r, p)
          /\ proof' = [proof EXCEPT ![p] = [install |-> "a", current |-> "a", drifted |-> FALSE]]
          /\ job' = [job EXCEPT ![p].st = "ended"]
          /\ TitleMoves(p)
       \/ /\ job' = [job EXCEPT ![p].st = "ended"]
          /\ UNCHANGED <<staged, free, disk, proof, cmd>>
    /\ UNCHANGED <<cluster, laid, taken, last, frozen, left>>

\* Others fill a disk, change a file of the library or put it back, and copy media to another root.
Fill(d) ==
    /\ free[d] > 0 /\ Spend("world")
    /\ free' = [free EXCEPT ![d] = @ - 1] /\ taken' = [taken EXCEPT ![d] = @ + 1]
    /\ UNCHANGED <<cluster, laid, disk, staged, proof, job, cmd, last, frozen>>
Change(r, p) ==
    /\ disk[r][p] # "none" /\ Spend("world")
    /\ disk' = [disk EXCEPT ![r][p] = IF @ = "a" THEN "b" ELSE "a"]
    /\ FileMoves(p)
    /\ UNCHANGED <<cluster, laid, free, taken, staged, proof, job, last, frozen>>
CopyMedia(r, s) ==
    /\ r # s /\ Spend("world")
    /\ \E p \in Paths :
         /\ disk[r][p] # "none" /\ disk[s][p] = "none"
         /\ disk' = [disk EXCEPT ![s][p] = disk[r][p]]
         /\ FileMoves(p)
    /\ UNCHANGED <<cluster, laid, free, taken, staged, proof, job, last, frozen>>

\* The controllers mark a proof whose file no longer holds what it says.
MarkDrift(p) ==
    /\ cluster # None
    /\ IF proof[p] = None THEN FALSE
       ELSE ~proof[p].drifted /\ disk[cluster.root][p] # proof[p].current
    /\ proof' = [proof EXCEPT ![p].drifted = TRUE]
    /\ TitleMoves(p)
    /\ UNCHANGED <<cluster, files, job, last, frozen, left>>

House ==
    \/ Freeze \/ Unlock \/ Thaw \/ EditCluster
    \/ \E p \in JobPaths : CreateJob(p) \/ BindJob(p) \/ RunJob(p)
    \/ \E d \in Disks : Fill(d)
    \/ \E p \in Paths : MarkDrift(p) \/ \E r \in Roots : Change(r, p)
    \/ \E r, s \in Roots : CopyMedia(r, s)

\* The operator does as the failure says.
Recover ==
    /\ Operator /\ At("idle") /\ cluster # None /\ ~cluster.lock
    /\ \E p \in Paths : disk[cluster.root][p] # "none" /\ proof[p] = None
    /\ cmd' = [Idle EXCEPT !.pc = "load", !.arg = [kind |-> "reindex"]]
    /\ UNCHANGED <<cluster, files, proof, job, last, frozen, left>>

LibraryNext ==
    Command \/ ApiFails \/ Killed \/ House \/ Recover \/ \E arg \in Starts : Start(arg)

\* A command runs on; the operator clears what was left and reindexes.
LibrarySpec ==
    /\ LibraryInit /\ [][LibraryNext]_vars
    /\ WF_vars(Command) /\ WF_vars(Unlock) /\ WF_vars(Recover)

-----------------------------------------------------------------------------
(* Properties *)

\* Neither Jobs nor a manual pull take a filesystem below the reserve, whatever was bound
\* between the first look and the lock; what others take is not theirs.
ReserveKept == \A d \in Disks : free[d] + taken[d] >= Min(Reserves)

\* "With --install, success includes a verified Title file record."
SuccessMeansProof ==
    IF last.result = "ok" /\ last.arg.kind = "pull" /\ last.arg.install
    THEN proof[last.arg.path] # None
    ELSE TRUE

\* A reindex that reports success has left every file nobody touched meanwhile with a proof
\* of what it holds, drift marks of another time included.
ReindexIsWhole == last.whole

\* A lock the operator set, or a failed command left, stays until he clears it, also across
\* commands that pause scheduling and give the lock back.  The observer leaves out exactly
\* the two cases in which the code gives back an older value (WritesBack): a lock set
\* while a maintenance is under way is replaced by what begin_maintenance found
\* (finish_maintenance, home_library.rs:147), and one set between bootstrap's read of the
\* Cluster and its apply_spec by the spec that was read (home_library.rs:76).
FreezeStays == frozen => Locked

\* Relocation refuses while a Job that has not ended, even an unbound one, points to the
\* root: a Job's root is a snapshot.
JobsFollowRoot == cluster # None =>
    \A p \in Paths : job[p].st \in {"pending", "bound"} => job[p].root = cluster.root

\* "run library reindex to recover its proof": a file in the library gets one in the end.
Unproved(p) == disk[cluster.root][p] # "none" /\ proof[p] = None
ProofRecovered == \A p \in Paths : Unproved(p) ~> ~Unproved(p)
===============================================================================
