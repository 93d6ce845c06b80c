---------------------------- MODULE Publication ----------------------------
(***************************************************************************)
(* The readable-media publication of the install gate                      *)
(* (crates/core/src/install.rs) with the two callers that report its       *)
(* result: the pull worker (place_verified, installed_matches), which      *)
(* decides from the bytes on disk after an error or a restart, and the     *)
(* manual pull, which only reports what install returned.                  *)
(*                                                                         *)
(* PullWorker has the contents of files; here are their modes, those of    *)
(* the directories above them, and what a power loss takes back.  A mode   *)
(* is open (0644, 0755) or private.  A directory lives below the library   *)
(* root under Kind, or below Kind under the name of its file.  The inode   *)
(* "pull" is the verified staged file, "copy" the cross-device temporary.  *)
(***************************************************************************)
EXTENDS Integers, Sequences

CONSTANTS
    Files,        \* one verified staged file for each installation
    Kind,         \* the schema directory all of them share
    Manual,       \* files installed by the command, the others by the worker
    CrossDevice,  \* files whose directory is on another filesystem
    Restrictive,  \* files whose installer runs under a umask like 077
    MaxCrashes, MaxPower, MaxFaults, MaxAdmin   \* bounds on the environment

\* What an instance gives the constants.
PublicationAssumption ==
    /\ Kind \notin Files
    /\ Manual \subseteq Files /\ CrossDevice \subseteq Files /\ Restrictive \subseteq Files
    /\ {MaxCrashes, MaxPower, MaxFaults, MaxAdmin} \subseteq Nat

VARIABLES
    dir, file, inode,          \* what the system calls see
    kdir, kfile, kinode,       \* what has been synced
    status,                    \* what has been reported for each file
    proc,                      \* the step of each file's installer
    policy,                    \* observer: the mode the administrator chose for a directory
    hidden,                    \* observer: directories the administrator made private
    left                       \* environment budgets
seen == <<dir, file, inode>>
synced == <<kdir, kfile, kinode>>
observers == <<policy, hidden>>
vars == <<seen, synced, status, proc, observers, left>>

Dirs == {Kind} \union Files
Chain(f) == <<Kind, f>>
Idle == [pc |-> "idle", i |-> 1]
Private(whole) == [mode |-> "private", whole |-> whole]

\* The administrator may have made the shared directory already.
Init ==
    /\ \E mode \in {"none", "private", "open"} :
        /\ dir = [d \in Dirs |-> IF d = Kind THEN mode ELSE "none"]
        /\ hidden = IF mode = "private" THEN {Kind} ELSE {}
    /\ policy = dir
    /\ kdir = [d \in Dirs |-> [entry |-> dir[d] # "none", mode |-> dir[d]]]
    /\ file = [f \in Files |-> [staged |-> TRUE, temp |-> FALSE, dest |-> "none"]]
    /\ kfile = file
    /\ inode = [f \in Files |-> [pull |-> Private(TRUE), copy |-> Private(FALSE)]]
    /\ kinode = inode
    /\ status = [f \in Files |-> "Verifying"]
    /\ proc = [f \in Files |-> Idle]
    /\ left = [crash |-> MaxCrashes, power |-> MaxPower, fault |-> MaxFaults, admin |-> MaxAdmin]

-----------------------------------------------------------------------------
(* Control *)

At(f, pc) == proc[f].pc = pc
Go(f, pc) == proc' = [proc EXCEPT ![f].pc = pc]
Here(f) == Chain(f)[proc[f].i]
Traversable(f) == \A i \in 1..Len(Chain(f)) : dir[Chain(f)[i]] = "open"

\* The command reports the error; the worker asks the disk whether the file
\* was published all the same.
Errs(f) ==
    IF f \in Manual
    THEN /\ proc' = [proc EXCEPT ![f] = Idle]
         /\ status' = [status EXCEPT ![f] = "Failed"]
    ELSE Go(f, "judge") /\ UNCHANGED status

Ends(f, result) ==
    /\ proc' = [proc EXCEPT ![f] = Idle]
    /\ status' = [status EXCEPT ![f] = result]

\* A retryable error leaves the Job Verifying, for the worker's next pass.
Retries(f) == proc' = [proc EXCEPT ![f] = Idle] /\ UNCHANGED status

\* VerifiedStagingHandle::verify finds a regular file under the staged name.
Handled(f) == file[f].staged

\* cleanup_install_temporary, which the worker calls before it installs and
\* after an installation that failed.
ClearOwned(f) ==
    /\ file' = [file EXCEPT ![f].temp = FALSE]
    /\ kfile' = [kfile EXCEPT ![f].temp = FALSE]

\* The worker places one Job at a time and looks at the destination first; the
\* command finds an existing one as an error.
Begin(f) ==
    /\ At(f, "idle") /\ status[f] = "Verifying"
    /\ f \notin Manual => \A g \in Files \ Manual : At(g, "idle")
    /\ IF f \notin Manual /\ file[f].dest # "none"
       THEN Go(f, "match") /\ UNCHANGED <<file, kfile, status>>
       ELSE /\ IF f \in Manual THEN UNCHANGED <<file, kfile>> ELSE ClearOwned(f)
            /\ IF Handled(f) /\ file[f].dest = "none"
               THEN Go(f, "mkdir") /\ UNCHANGED status
               ELSE Ends(f, "Failed")
    /\ UNCHANGED <<dir, inode, kdir, kinode, observers, left>>

-----------------------------------------------------------------------------
(* create_library_directories *)

Mkdir(f) ==
    /\ At(f, "mkdir")
    /\ IF dir[Here(f)] = "none"
       THEN LET mode == IF f \in Restrictive THEN "private" ELSE "open" IN
            /\ dir' = [dir EXCEPT ![Here(f)] = mode]
            /\ kdir' = [kdir EXCEPT ![Here(f)].mode = mode]
            /\ Go(f, "chmod")
       ELSE Go(f, "check") /\ UNCHANGED <<dir, kdir>>
    /\ UNCHANGED <<file, inode, kfile, kinode, status, observers, left>>

ChmodDir(f) ==
    /\ At(f, "chmod")
    /\ dir' = [dir EXCEPT ![Here(f)] = "open"]
    /\ Go(f, "syncdir")
    /\ UNCHANGED <<file, inode, synced, status, observers, left>>

SyncDir(f) ==
    /\ At(f, "syncdir")
    /\ kdir' = [kdir EXCEPT ![Here(f)].mode = dir[Here(f)]]
    /\ Go(f, "syncparent")
    /\ UNCHANGED <<seen, kfile, kinode, status, observers, left>>

SyncParent(f) ==
    /\ At(f, "syncparent")
    /\ kdir' = [kdir EXCEPT ![Here(f)].entry = TRUE]
    /\ Go(f, "check")
    /\ UNCHANGED <<seen, kfile, kinode, status, observers, left>>

\* check_schema_parent of one directory, before its children are made.
CheckParent(f) ==
    /\ At(f, "check")
    /\ IF dir[Here(f)] # "open" THEN Errs(f)
       ELSE /\ IF proc[f].i < Len(Chain(f))
               THEN proc' = [proc EXCEPT ![f] = [pc |-> "mkdir", i |-> proc[f].i + 1]]
               ELSE Go(f, "parents")
            /\ UNCHANGED status
    /\ UNCHANGED <<seen, synced, observers, left>>

\* check_publication_parents of the whole chain.
CheckParents(f) ==
    /\ At(f, "parents")
    /\ IF Traversable(f) THEN Go(f, "promote") /\ UNCHANGED status ELSE Errs(f)
    /\ UNCHANGED <<seen, synced, observers, left>>

-----------------------------------------------------------------------------
(* make_media_readable and copy_into_place_checked *)

Promote(f) ==
    /\ At(f, "promote")
    /\ inode' = [inode EXCEPT ![f].pull.mode = "open"]
    /\ Go(f, "syncmedia")
    /\ UNCHANGED <<dir, file, synced, status, observers, left>>

SyncMedia(f) ==
    /\ At(f, "syncmedia")
    /\ kinode' = [kinode EXCEPT ![f].pull = inode[f].pull]
    /\ Go(f, "link")
    /\ UNCHANGED <<seen, kdir, kfile, status, observers, left>>

\* hard_link, or EXDEV and a copy in the private slot beside the destination.
Link(f) ==
    /\ At(f, "link")
    /\ IF f \in CrossDevice
       THEN /\ file' = [file EXCEPT ![f].temp = TRUE]
            /\ inode' = [inode EXCEPT ![f].copy = Private(FALSE)]
            /\ kinode' = [kinode EXCEPT ![f].copy = Private(FALSE)]
            /\ Go(f, "copy")
       ELSE /\ file' = [file EXCEPT ![f].dest = "pull"]
            /\ Go(f, "syncdest")
            /\ UNCHANGED <<inode, kinode>>
    /\ UNCHANGED <<dir, kdir, kfile, status, observers, left>>

\* copy_across_devices: the whole file is written, then made readable.
CopyAcross(f) ==
    /\ At(f, "copy")
    /\ inode' = [inode EXCEPT ![f].copy = [mode |-> "open", whole |-> TRUE]]
    /\ Go(f, "synccopy")
    /\ UNCHANGED <<dir, file, synced, status, observers, left>>

SyncCopy(f) ==
    /\ At(f, "synccopy")
    /\ kinode' = [kinode EXCEPT ![f].copy = inode[f].copy]
    /\ Go(f, "linkcopy")
    /\ UNCHANGED <<seen, kdir, kfile, status, observers, left>>

LinkCopy(f) ==
    /\ At(f, "linkcopy")
    /\ file' = [file EXCEPT ![f].dest = "copy"]
    /\ Go(f, "cleardata")
    /\ UNCHANGED <<dir, inode, synced, status, observers, left>>

\* clear_data, with the sync of its directory.
ClearData(f) ==
    /\ At(f, "cleardata")
    /\ ClearOwned(f)
    /\ Go(f, "syncdest")
    /\ UNCHANGED <<dir, inode, kdir, kinode, status, observers, left>>

\* sync_parent of the destination, before the staged name is given up.
SyncDest(f) ==
    /\ At(f, "syncdest")
    /\ kfile' = [kfile EXCEPT ![f].dest = file[f].dest]
    /\ Go(f, "unlink")
    /\ UNCHANGED <<seen, kdir, kinode, status, observers, left>>

RemoveStaged(f) ==
    /\ At(f, "unlink")
    /\ file' = [file EXCEPT ![f].staged = FALSE]
    /\ Go(f, "syncstaged")
    /\ UNCHANGED <<dir, inode, synced, status, observers, left>>

SyncStaged(f) ==
    /\ At(f, "syncstaged")
    /\ kfile' = [kfile EXCEPT ![f].staged = FALSE]
    /\ Go(f, "report")
    /\ UNCHANGED <<seen, kdir, kinode, status, observers, left>>

\* The proof and the final status; PullWorker has the steps of these writes.
Report(f) ==
    /\ At(f, "report")
    /\ Ends(f, "Installed")
    /\ UNCHANGED <<seen, synced, observers, left>>

-----------------------------------------------------------------------------
(* The worker decides from the disk *)

\* The error arm of place_verified.
Judge(f) ==
    /\ At(f, "judge")
    /\ IF file[f].dest # "none"
       THEN Go(f, "match") /\ UNCHANGED <<file, kfile, status>>
       ELSE /\ ClearOwned(f)
            /\ Ends(f, "Failed")
    /\ UNCHANGED <<dir, inode, kdir, kinode, observers, left>>

\* installed_matches: the bytes, then the directories above them.
Match(f) ==
    /\ At(f, "match")
    /\ IF ~inode[f][file[f].dest].whole THEN Ends(f, "Failed")
       ELSE IF Traversable(f) THEN Go(f, "normalise") /\ UNCHANGED status
       ELSE Retries(f)
    /\ UNCHANGED <<seen, synced, observers, left>>

Normalise(f) ==
    /\ At(f, "normalise")
    /\ inode' = [inode EXCEPT ![f][file[f].dest].mode = "open"]
    /\ Go(f, "syncinode")
    /\ UNCHANGED <<dir, file, synced, status, observers, left>>

SyncInode(f) ==
    /\ At(f, "syncinode")
    /\ kinode' = [kinode EXCEPT ![f][file[f].dest] = inode[f][file[f].dest]]
    /\ Go(f, "cleanup")
    /\ UNCHANGED <<seen, kdir, kfile, status, observers, left>>

\* cleanup_owned_staging and cleanup_install_temporary.
Cleanup(f) ==
    /\ At(f, "cleanup")
    /\ file' = [file EXCEPT ![f].staged = FALSE, ![f].temp = FALSE]
    /\ kfile' = [kfile EXCEPT ![f].staged = FALSE, ![f].temp = FALSE]
    /\ Go(f, "report")
    /\ UNCHANGED <<dir, inode, kdir, kinode, status, observers, left>>

-----------------------------------------------------------------------------
(* The environment *)

Spend(budget) == left[budget] > 0 /\ left' = [left EXCEPT ![budget] = @ - 1]

Installing == {"chmod", "syncdir", "syncparent", "mkdir", "syncmedia", "promote", "link", "copy",
               "synccopy", "linkcopy", "cleardata", "syncdest", "unlink", "syncstaged"}

\* A system call fails.
Fault(f) ==
    /\ Spend("fault")
    /\ \/ proc[f].pc \in Installing /\ Errs(f)
       \/ proc[f].pc \in {"match", "normalise", "syncinode", "cleanup"} /\ Retries(f)
    /\ UNCHANGED <<seen, synced, observers>>

\* The process dies; nobody resumes a command.
Crash(f) ==
    /\ ~At(f, "idle") /\ Spend("crash")
    /\ IF f \in Manual THEN Ends(f, "Failed") ELSE Retries(f)
    /\ UNCHANGED <<seen, synced, observers>>

\* What may be found of a directory, an entry, or an inode after power loss.
DirAfter(d) ==
    IF dir[d] = "none" THEN {"none"}
    ELSE {dir[d], kdir[d].mode} \union (IF kdir[d].entry THEN {} ELSE {"none"})

PowerLoss ==
    /\ Spend("power")
    /\ proc' = [f \in Files |-> Idle]
    /\ status' = [f \in Files |-> IF f \in Manual /\ ~At(f, "idle") THEN "Failed" ELSE status[f]]
    /\ \E top \in DirAfter(Kind), leaves \in [Files -> {"none", "private", "open"}] :
        /\ \A f \in Files : leaves[f] \in (IF top = "none" THEN {"none"} ELSE DirAfter(f))
        /\ dir' = [d \in Dirs |-> IF d = Kind THEN top ELSE leaves[d]]
    /\ kdir' = [d \in Dirs |-> [entry |-> dir'[d] # "none", mode |-> dir'[d]]]
    /\ \E staged \in [Files -> BOOLEAN], temp \in [Files -> BOOLEAN],
          dest \in [Files -> {"none", "pull", "copy"}] :
        /\ \A f \in Files :
            /\ staged[f] \in {file[f].staged, kfile[f].staged}
            /\ temp[f] \in (IF dir'[f] = "none" THEN {FALSE} ELSE {file[f].temp, kfile[f].temp})
            /\ dest[f] \in (IF dir'[f] = "none" THEN {"none"} ELSE {file[f].dest, kfile[f].dest})
        /\ file' = [f \in Files |-> [staged |-> staged[f], temp |-> temp[f], dest |-> dest[f]]]
    /\ kfile' = file'
    /\ \E lost \in SUBSET Files :
        inode' = [f \in Files |-> IF f \in lost THEN kinode[f] ELSE inode[f]]
    /\ kinode' = inode'
    /\ policy' = [d \in Dirs |-> IF dir'[d] = "none" THEN "none" ELSE policy[d]]
    /\ UNCHANGED hidden

\* The moment between an installer's mkdir and its chmod.
Fresh(d) == \E f \in Files : At(f, "chmod") /\ Here(f) = d

\* The administrator makes a directory or changes the mode of one.
SetMode(d, mode) ==
    /\ d # Kind => dir[Kind] # "none"
    /\ dir[d] # mode
    /\ dir' = [dir EXCEPT ![d] = mode]
    /\ kdir' = [kdir EXCEPT ![d] = [entry |-> TRUE, mode |-> mode]]
    /\ policy' = IF Fresh(d) THEN policy ELSE [policy EXCEPT ![d] = mode]
    /\ hidden' = IF mode = "private" THEN hidden \union {d} ELSE hidden
    /\ UNCHANGED <<file, inode, kfile, kinode, status, proc>>

Administer == \E d \in Dirs, mode \in {"private", "open"} : SetMode(d, mode) /\ Spend("admin")

\* The repair the error message asks for.
Repair(d) == dir[d] = "private" /\ ~Fresh(d) /\ SetMode(d, "open") /\ UNCHANGED left

Step(f) ==
    \/ Begin(f) \/ Mkdir(f) \/ ChmodDir(f) \/ SyncDir(f) \/ SyncParent(f) \/ CheckParent(f)
    \/ CheckParents(f) \/ Promote(f) \/ SyncMedia(f) \/ Link(f) \/ CopyAcross(f) \/ SyncCopy(f)
    \/ LinkCopy(f) \/ ClearData(f) \/ SyncDest(f) \/ RemoveStaged(f) \/ SyncStaged(f) \/ Report(f)
    \/ Judge(f) \/ Match(f) \/ Normalise(f) \/ SyncInode(f) \/ Cleanup(f)

Next ==
    \/ \E f \in Files : Step(f) \/ Fault(f) \/ Crash(f)
    \/ PowerLoss
    \/ Administer
    \/ \E d \in Dirs : Repair(d)

\* The worker is restarted and repeats its pass; a command runs to its end;
\* the administrator repairs what an error message asks to repair.
Spec == Init /\ [][Next]_vars /\ (\A f \in Files : WF_vars(Step(f))) /\ (\A d \in Dirs : WF_vars(Repair(d)))

-----------------------------------------------------------------------------
(* Properties *)

Readable(f) ==
    /\ file[f].dest # "none"
    /\ inode[f][file[f].dest].mode = "open"
    /\ Traversable(f)

UntouchedAbove(f) == {Kind, f} \intersect hidden = {}

\* No process died, no call failed and no other installation shares the directories:
\* the report came from an installation that synced all it relies on.
Uninterrupted ==
    left.crash = MaxCrashes /\ left.fault = MaxFaults /\ \A f, g \in Files : f = g

\* What is reported as installed can be read by every user, whatever the umask, as
\* long as the administrator hid no directory above it: up to the first power loss
\* whichever way the report was reached (install, recovery after a crash or an
\* error), and after power losses for an installation nothing else interfered with.
\* Any other report may not survive a power loss: place_verified does not sync the
\* directory of a file it finds in place, and create_library_directories takes an
\* existing directory without a sync of its parent.
ReportedIsReadable ==
    left.power = MaxPower \/ Uninterrupted =>
        \A f \in Files : status[f] = "Installed" /\ UntouchedAbove(f) => Readable(f)

\* A library path never names incomplete bytes, after a power loss either:
\* copy_across_devices syncs before it links.
PublishedIsWhole == \A f \in Files : file[f].dest # "none" => inode[f][file[f].dest].whole

\* A mode the administrator chose is never changed by an installation ("never
\* change existing directory policy", create_library_directories).
PolicyKept == \A d \in Dirs : policy[d] # "none" /\ dir[d] # "none" => dir[d] = policy[d]

\* Once the worker has published a file its Job ends Installed: an error or a
\* death after the link, and a private directory, only delay the report.
Unreported(f) == file[f].dest # "none" /\ status[f] # "Installed"
PublishedIsInstalled == \A f \in Files \ Manual : Unreported(f) ~> status[f] = "Installed"
=============================================================================
