----------------------------- MODULE NewMachine -----------------------------
(***************************************************************************)
(* new-machine import: restore an export bundle into a Home, against its   *)
(* controllers, workers and operator.  The command pauses the Cluster it   *)
(* finds, checks that the bundle is compatible, replaces the Cluster,      *)
(* writes configuration, certificates and Secret, publishes the missing    *)
(* rows one Title at a time, and sets the lock the bundle had.  It may die *)
(* or fail at every step and is then repeated.                             *)
(***************************************************************************)
EXTENDS Integers, Sequences, FiniteSets

CONSTANTS
    Titles,      \* Titles, in the order publish_rows groups them
    Paths,       \* files of a Title
    BundleRows,  \* the rows of title-index.json: [title, path] -> [install, current]
    BundleLock,  \* lock of the exported Cluster
    BundleSecret,\* whether there is a secret.json
    BundleTls,   \* files of the bundle's tls/
    OldTls,      \* files a home may hold already
    Digests,     \* contents of library files
    Roots, NewRoot,
    MaxFaults, MaxEvents, \* bounds: faults of the import; steps of others
    None

VARIABLES
    cluster,  \* None or [root, lock]
    job,      \* None or [root, phase]
    title,    \* Title -> whether the object exists
    row,      \* file -> None or [install, current, drifted]
    file,     \* file -> content in the new root, or None
    disk,     \* [conf, secret: whether ours is in place, tls: name -> ours | old | torn | None]
    imp,      \* the import
    faults, events

vars == <<cluster, job, title, row, file, disk, imp, faults, events>>

Files == [title : {Titles[i] : i \in DOMAIN Titles}, path : Paths]
TitleSet == {Titles[i] : i \in DOMAIN Titles}
TlsNames == BundleTls \cup OldTls
Bundled == DOMAIN BundleRows

\* stale: the Cluster was written by somebody else since the import last did.
NoImport == [pc |-> "idle", was |-> FALSE, stale |-> FALSE, had |-> FALSE, missing |-> {}, at |-> 1]

ImportInit ==
    /\ cluster \in {None} \cup [root : Roots, lock : BOOLEAN]
    /\ job = None
    /\ title = [t \in TitleSet |-> FALSE]
    /\ row = [f \in Files |-> None]
    /\ file \in [Files -> Digests \cup {None}]
    /\ disk \in [conf : {FALSE}, secret : {FALSE}, tls : {[n \in TlsNames |-> IF n \in OldTls THEN "old" ELSE "none"]}]
    /\ imp = NoImport
    /\ faults = 0 /\ events = 0

---------------------------------------------------------------------------
At(pc) == imp.pc = pc
Goto(pc) == imp' = [imp EXCEPT !.pc = pc, !.at = 1]
Home == <<job, title, row, file>>
Bounds == <<faults, events>>

\* flock, git work tree, the bundle parses and its paths are relative; then the
\* Cluster that is there, or that there is none.
Start ==
    /\ At("idle")
    /\ imp' = [NoImport EXCEPT !.pc = IF cluster = None THEN "check" ELSE "pause", !.had = cluster # None]
    /\ UNCHANGED <<cluster, Home, disk, Bounds>>

\* set_lock: read and patch, repeated on a conflict.
Locks(l) == cluster' = [cluster EXCEPT !.lock = l]

\* begin_maintenance locks first ...
Pause ==
    /\ At("pause") /\ Locks(TRUE)
    /\ imp' = [imp EXCEPT !.pc = "look", !.was = cluster.lock, !.stale = FALSE]
    /\ UNCHANGED <<Home, disk, Bounds>>

\* ... then gives up, with the previous lock, while a bound Job is alive.
LookForBound ==
    /\ At("look")
    /\ IF job # None /\ job.phase = "bound"
       THEN imp' = NoImport /\ Locks(imp.was)
       ELSE Goto("check") /\ UNCHANGED cluster
    /\ UNCHANGED <<Home, disk, Bounds>>

\* compatible_missing_rows: rows of the bundle nobody has observed yet.
MissingRows == {f \in Bundled : row[f] = None}

\* The Titles and files that are there belong to the bundle, in its root.
Compatible ==
    /\ \A t \in TitleSet : title[t] => \E f \in Bundled : f.title = t
    /\ \A f \in Files : row[f] # None => f \in Bundled /\ row[f].install = BundleRows[f].install
    /\ (\E t \in TitleSet : title[t]) => cluster # None /\ cluster.root = NewRoot

\* Any Job refuses the import; a refusal gives the previous lock back.
Preflight ==
    /\ At("check")
    /\ IF job = None /\ Compatible
       THEN imp' = [imp EXCEPT !.pc = "replace", !.missing = MissingRows] /\ UNCHANGED cluster
       ELSE /\ imp' = NoImport
            /\ IF imp.had /\ cluster # None THEN Locks(imp.was) ELSE UNCHANGED cluster
    /\ UNCHANGED <<Home, disk, Bounds>>

\* apply, bound to the Cluster that was paused, or create-only; then locked again.
Replace ==
    /\ At("replace")
    /\ IF imp.stale \/ (~imp.had /\ cluster # None)
       THEN imp' = NoImport /\ UNCHANGED cluster
       ELSE cluster' = [root |-> NewRoot, lock |-> TRUE] /\ Goto("conf")
    /\ UNCHANGED <<Home, disk, Bounds>>

\* write_private of config.toml, over what is there.
WriteConfig ==
    /\ At("conf") /\ disk' = [disk EXCEPT !.conf = TRUE] /\ Goto("tls")
    /\ UNCHANGED <<cluster, Home, Bounds>>

\* copy_tls_dir: each file of the bundle, in the order of the directory, then the
\* files it does not have are removed.
CopyTls ==
    /\ At("tls")
    /\ \/ \E n \in BundleTls : disk.tls[n] # "ours" /\ disk' = [disk EXCEPT !.tls[n] = "ours"] /\ UNCHANGED imp
       \/ /\ \A n \in BundleTls : disk.tls[n] = "ours"
          /\ \E n \in TlsNames \ BundleTls : disk.tls[n] # "none" /\ disk' = [disk EXCEPT !.tls[n] = "none"]
          /\ UNCHANGED imp
       \/ /\ \A n \in TlsNames : disk.tls[n] = IF n \in BundleTls THEN "ours" ELSE "none"
          /\ Goto("secret") /\ UNCHANGED disk
    /\ UNCHANGED <<cluster, Home, Bounds>>

\* apply_spec of secret.json, if there is one.
ApplySecret ==
    /\ At("secret") /\ Goto("title")
    /\ disk' = [disk EXCEPT !.secret = @ \/ BundleSecret]
    /\ UNCHANGED <<cluster, Home, Bounds>>

Group == {f \in imp.missing : f.title = Titles[imp.at]}
NextTitle == IF imp.at = Len(Titles) THEN Goto("finish") ELSE imp' = [imp EXCEPT !.pc = "title", !.at = @ + 1]

\* publish_rows: the Title is created first, without observations ...
CreateTitle ==
    /\ At("title")
    /\ IF Group = {} THEN NextTitle /\ UNCHANGED title
       ELSE title' = [title EXCEPT ![Titles[imp.at]] = TRUE] /\ imp' = [imp EXCEPT !.pc = "status"]
    /\ UNCHANGED <<cluster, job, row, file, disk, Bounds>>

\* Mutant of Observation: a missing file does not drift.
ObservationOfRecord(f) == [install |-> BundleRows[f].install, current |-> BundleRows[f].current, drifted |-> FALSE]

\* A row for the bundle's record; it drifts unless the file has the recorded content.
Observation(f) ==
    [install |-> BundleRows[f].install, current |-> BundleRows[f].current,
     drifted |-> file[f] # BundleRows[f].current]

\* ... then all its missing rows in one patch of the status, which the API verifies.
PublishRows ==
    /\ At("status")
    /\ IF \E f \in Group : row[f] # None /\ row[f].install # BundleRows[f].install
       THEN imp' = NoImport /\ UNCHANGED row
       ELSE row' = [f \in Files |-> IF f \in Group THEN Observation(f) ELSE row[f]] /\ NextTitle
    /\ UNCHANGED <<cluster, job, title, file, disk, Bounds>>

\* finish_maintenance(originally_locked) and the report.
Finish ==
    /\ At("finish")
    /\ Locks(BundleLock) /\ Goto("done")
    /\ UNCHANGED <<Home, disk, Bounds>>

Report ==
    /\ At("done") /\ imp' = NoImport
    /\ UNCHANGED <<cluster, Home, disk, Bounds>>

\* The process dies or a call fails; a file being written may be left torn.
Fault ==
    /\ ~At("idle") /\ ~At("done") /\ faults < MaxFaults /\ faults' = faults + 1
    /\ imp' = NoImport
    /\ \/ UNCHANGED disk
       \/ At("conf") /\ disk' = [disk EXCEPT !.conf = FALSE]
       \/ At("tls") /\ \E n \in BundleTls : disk' = [disk EXCEPT !.tls[n] = "torn"]
    /\ UNCHANGED <<cluster, Home, events>>

---------------------------------------------------------------------------
(* The rest of Home                                                        *)

Event == events < MaxEvents /\ events' = events + 1
Others == <<disk, faults>>

\* The operator applies a Cluster or clears a lock that was left; not the lock of
\* maintenance that runs.
EditCluster ==
    /\ Event
    /\ \E r \in Roots, l \in BOOLEAN :
           /\ cluster # None => [root |-> r, lock |-> l] # cluster
           /\ ~At("idle") /\ cluster # None => l = cluster.lock
           /\ job # None /\ cluster # None => r = cluster.root
           /\ cluster' = [root |-> r, lock |-> l]
    /\ imp' = [imp EXCEPT !.stale = TRUE]
    /\ UNCHANGED <<Home, Others>>

\* A Want becomes a Job: creation checks the lock under the mutation lock.
CreateJob ==
    /\ Event /\ job = None
    /\ cluster # None /\ ~cluster.lock
    /\ job' = [root |-> cluster.root, phase |-> "unbound"]
    /\ UNCHANGED <<cluster, title, row, file, imp, Others>>

BindJob ==
    /\ Event /\ job # None /\ job.phase = "unbound"
    /\ cluster # None /\ ~cluster.lock /\ cluster.root = job.root
    /\ job' = [job EXCEPT !.phase = "bound"]
    /\ UNCHANGED <<cluster, title, row, file, imp, Others>>

\* The Job publishes a file and its proof, in the root it was created with; a path
\* that has a row keeps it.
FinishJob ==
    /\ Event /\ job # None /\ job.phase = "bound"
    /\ job' = [job EXCEPT !.phase = "done"]
    /\ \E f \in Files, d \in Digests :
           /\ row[f] = None
           /\ title' = [title EXCEPT ![f.title] = TRUE]
           /\ row' = [row EXCEPT ![f] = [install |-> d, current |-> d, drifted |-> FALSE]]
           /\ file' = IF job.root = NewRoot THEN [file EXCEPT ![f] = d] ELSE file
    /\ UNCHANGED <<cluster, imp, Others>>

DeleteJob ==
    /\ Event /\ job # None /\ job.phase # "bound" /\ job' = None
    /\ UNCHANGED <<cluster, title, row, file, imp, Others>>

\* encode replaces the file and its current digest; it is maintenance of its own.
EncodeFile ==
    /\ Event /\ At("idle")
    /\ \E f \in Files, d \in Digests :
           /\ row[f] # None /\ ~row[f].drifted /\ d # row[f].current
           /\ row' = [row EXCEPT ![f].current = d] /\ file' = [file EXCEPT ![f] = d]
    /\ UNCHANGED <<cluster, job, title, imp, Others>>

ImportStep ==
    \/ Start \/ Pause \/ LookForBound \/ Preflight \/ Replace \/ WriteConfig \/ CopyTls \/ ApplySecret
    \/ CreateTitle \/ PublishRows \/ Finish \/ Report

ImportNext == ImportStep \/ Fault \/ EditCluster \/ CreateJob \/ BindJob \/ FinishJob \/ DeleteJob \/ EncodeFile

Spec == ImportInit /\ [][ImportNext]_vars
LiveSpec == Spec /\ WF_vars(ImportStep)

---------------------------------------------------------------------------
(* Properties                                                              *)

\* Type correctness; the API keeps the lock and root of one Cluster.
ImportTypeOK ==
    /\ cluster = None \/ cluster \in [root : Roots, lock : BOOLEAN]
    /\ job = None \/ job \in [root : Roots, phase : {"unbound", "bound", "done"}]
    /\ \A f \in Files : row[f] # None => title[f.title]
    /\ imp.missing \subseteq Bundled /\ imp.at \in DOMAIN Titles

\* "Pause existing scheduling before compatibility preflight. Otherwise a Want can
\* create/bind work between those checks and replacement of the root": from the
\* replacement of the Cluster to the final lock there is no Job, whoever edits what.
RestoredWithoutJobs ==
    imp.pc \in {"conf", "tls", "secret", "title", "status", "finish"} => job = None /\ cluster.lock

\* When the import reports success, after any number of runs that died, all of the
\* bundle is in place: configuration, exactly its certificates, its Secret and
\* an observation of every row.
DoneIsWhole ==
    At("done") =>
        /\ disk.conf /\ (BundleSecret => disk.secret)
        /\ {n \in TlsNames : disk.tls[n] # "none"} = BundleTls
        /\ \A n \in BundleTls : disk.tls[n] = "ours"
        /\ \A f \in Bundled : row[f] # None /\ row[f].install = BundleRows[f].install

\* "Newer current digests and drift state are retained": the import adds
\* observations and changes none that is there.
KeepsRows ==
    At("status") => \A f \in Files : row[f] # None => row'[f] = row[f]

\* "imported records alone never prove": a row the import publishes counts as a
\* copy only when the file is there with the recorded content.
PublishesTruth ==
    At("status") => \A f \in Files : row'[f] # row[f] => row'[f].drifted \/ file[f] = row'[f].current

\* On a home nobody else works on, an import that is repeated after it died at any
\* step ends with success.
RetryCompletes == <>At("done")
===============================================================================
