----------------------------- MODULE PullWorker -----------------------------
(***************************************************************************)
(* mediaops-pull (bins/mediaops-pull/src/main.rs): the one process that    *)
(* copies bound Jobs into staging, verifies them, publishes them into the  *)
(* library and records the proof.  It may die between any two steps and    *)
(* is restarted by the supervisor; API writes may fail or lose their       *)
(* answer; the deadline may pass at any moment; and the library belongs to *)
(* the user, who may add, remove or move files under it.                   *)
(*                                                                         *)
(* Files are directory entries naming inodes, since publication is by hard *)
(* link: "pull" is the downloaded file, "copy" the cross-device temporary, *)
(* any other name a user's file.  A digest is the content itself.          *)
(***************************************************************************)
EXTENDS Integers, FiniteSets

CONSTANTS
    Jobs,          \* Jobs by priority: a smaller number is claimed first
    CrossDevice,   \* Jobs whose destination is on another filesystem
    MaxAttempts,   \* PULL_MAX_ATTEMPTS
    NoDigest,
    MaxCrashes, MaxFaults, MaxUser, MaxCreations   \* bounds on the environment

ASSUME PullAssumption ==
    /\ Jobs \subseteq Nat \ {0}
    /\ CrossDevice \subseteq Jobs
    /\ MaxAttempts \in Nat \ {0}
    /\ {MaxCrashes, MaxFaults, MaxUser, MaxCreations} \subseteq Nat

\* Contents of a file: a partial download, the remote's bytes, rotten bytes,
\* and a user's file of the same length or of another one.
Contents == {"part", "media", "rot", "twin", "other"}
ASSUME NoDigestAssumption == NoDigest \notin Contents

VARIABLES
    job, proof,   \* the API's objects, see JobLifecycle
    late,         \* the Job's deadline has passed
    disk,         \* directory entries of each Job
    data,         \* contents of the inodes "pull" and "copy"
    worker,       \* what the process is doing, for which Job
    left,         \* environment budgets
    published,    \* observer: contents the worker ever linked at a destination
    disturbed,    \* observer: Jobs whose library files the user touched
    unremoved     \* observer: Jobs that ended on an error removing their temporary

Life == INSTANCE JobLifecycle WITH Digests <- Contents

apiVars == <<job, proof>>
diskVars == <<disk, data>>
observers == <<published, disturbed, unremoved>>
pullVars == <<apiVars, late, diskVars, worker, left, observers>>

Terminal == Life!Terminal
Idle == [pc |-> "idle", job |-> 0]

PullInit ==
    /\ Life!LifeInit
    /\ late = [j \in Jobs |-> FALSE]
    /\ disk = [j \in Jobs |-> [partial |-> "none", staged |-> "none", sidecar |-> FALSE,
                               slot |-> "none", temp |-> "none", dest |-> "none",
                               elsewhere |-> "none"]]
    /\ data = [j \in Jobs |-> [pull |-> "part", copy |-> "part"]]
    /\ worker = Idle
    /\ left = [crash |-> MaxCrashes, fault |-> MaxFaults,
               user |-> MaxUser, create |-> MaxCreations]
    /\ published = [j \in Jobs |-> {}]
    /\ disturbed = {} /\ unremoved = {}

(***************************************************************************)
(* Files                                                                   *)
(***************************************************************************)
Entries == {"partial", "staged", "temp", "dest", "elsewhere"}
Links(j, inode) == Cardinality({e \in Entries : disk[j][e] = inode})
Bytes(j, inode) == IF inode \in {"pull", "copy"} THEN data[j][inode] ELSE inode

\* What entry e is called once a new file takes the inode's name: the old file
\* it links keeps its bytes.
Kept(j, e, inode) == IF disk[j][e] = inode THEN data[j][inode] ELSE disk[j][e]

\* Mutant of Matches: a file of the right length is taken for ours.
MatchesByLength(j) == disk[j].dest \notin {"none", "other"}

\* installed_matches found the Job's verified bytes at its destination.
Matches(j) == disk[j].dest # "none" /\ Bytes(j, disk[j].dest) = job[j].verified

\* cleanup_install_temporary can remove the temporary: its slot has a complete
\* owner marker and the data file has no link but the destination.
Clearable(j) ==
    LET temp == disk[j].temp
    IN  /\ disk[j].slot # "torn"
        /\ \/ temp = "none"
           \/ Links(j, temp) = 1
           \/ Links(j, temp) = 2 /\ disk[j].dest = temp

ClearTemporary(j) == disk' = [disk EXCEPT ![j].temp = "none"]

(***************************************************************************)
(* API writes                                                              *)
(***************************************************************************)
Fault(kind) == left[kind] > 0 /\ left' = [left EXCEPT ![kind] = @ - 1]

Goto(j, pc) == worker' = [pc |-> pc, job |-> j]
Phase(j, phase) == [job[j] EXCEPT !.phase = phase]

\* save_job.  An error ends the pass, whether or not the write was committed;
\* the next pass starts from what the API holds.
Save(j, status, next) ==
    \/ /\ job' = [job EXCEPT ![j] = status]
       /\ worker' = next
       /\ UNCHANGED left
    \/ /\ Fault("fault")
       /\ worker' = Idle
       /\ job' \in {job, [job EXCEPT ![j] = status]}

\* The phase a failed attempt leads to.
AfterFailure(j) ==
    Phase(j, IF job[j].attempts >= MaxAttempts \/ late[j] THEN "Failed" ELSE "Pending")

(***************************************************************************)
(* claim_and_run and run_job                                               *)
(***************************************************************************)
Active(j) == job[j].bound /\ job[j].phase \in {"Pending", "Pulling", "Verifying"}

\* Jobs are served one at a time, the first active one in priority order.
Claims(j) == worker = Idle /\ Active(j) /\ \A k \in Jobs : k < j => ~Active(k)
At(j, pc) == worker = [pc |-> pc, job |-> j]

\* The retry limit or the deadline was reached before this pass.
GiveUp(j) ==
    /\ Claims(j)
    /\ job[j].phase \in {"Pending", "Pulling"}
    /\ late[j] \/ (job[j].phase = "Pending" /\ job[j].attempts >= MaxAttempts)
    /\ Save(j, Phase(j, "Failed"), Idle)
    /\ UNCHANGED <<proof, late, diskVars, observers>>

\* A new attempt is durable before any byte is copied.
Start(j) ==
    /\ Claims(j)
    /\ job[j].phase = "Pending" /\ ~late[j] /\ job[j].attempts < MaxAttempts
    /\ Save(j, [job[j] EXCEPT !.phase = "Pulling", !.attempts = @ + 1, !.started = TRUE],
             [pc |-> "check", job |-> j])
    /\ UNCHANGED <<proof, late, diskVars, observers>>

\* A restart continues the persisted attempt, or its verification.
Resume(j) ==
    /\ Claims(j)
    /\ \/ job[j].phase = "Pulling" /\ ~late[j] /\ Goto(j, "check")
       \/ job[j].phase = "Verifying" /\ Goto(j, "inspect")
    /\ UNCHANGED <<apiVars, late, diskVars, left, observers>>

\* The copy failed, or its deadline passed: back to Pending for another attempt,
\* or Failed after the last one.
FailAttempt(j) ==
    /\ \E pc \in {"check", "copy", "link", "drop", "hash"} : At(j, pc)
    /\ \/ late[j] /\ Save(j, AfterFailure(j), Idle)
       \/ /\ Fault("fault")
          /\ job' = [job EXCEPT ![j] = AfterFailure(j)]
          /\ worker' = Idle
    /\ UNCHANGED <<proof, late, diskVars, observers>>

\* copy_and_hash up to the transfer: an occupied destination or a full disk is
\* refused, a previous process's temporary is removed first.
Check(j) ==
    /\ At(j, "check")
    /\ \/ /\ disk[j].dest # "none"
          /\ Save(j, Phase(j, "Refused"), Idle)
          /\ UNCHANGED disk
       \/ /\ disk[j].dest = "none" /\ ~Clearable(j)
          /\ Save(j, AfterFailure(j), Idle)
          /\ UNCHANGED disk
       \/ /\ disk[j].dest = "none" /\ Clearable(j)
          /\ ClearTemporary(j)
          /\ \/ Save(j, Phase(j, "Refused"), Idle)
             \/ Goto(j, "copy") /\ UNCHANGED <<job, left>>
    /\ unremoved' = IF disk'[j].temp = "none" THEN unremoved \ {j} ELSE unremoved
    /\ UNCHANGED <<proof, late, data, published, disturbed>>

\* pull_file found a staged file: it is taken if its range proof still holds,
\* and a second name left by a crash is dropped.
Adopt(j) ==
    /\ At(j, "copy")
    /\ disk[j].staged # "none"
    /\ \/ /\ disk[j].sidecar /\ Bytes(j, disk[j].staged) = "media"
          /\ disk' = [disk EXCEPT ![j].partial = "none"]
          /\ Goto(j, "hash")
          /\ UNCHANGED <<job, left>>
       \/ /\ ~(disk[j].sidecar /\ Bytes(j, disk[j].staged) = "media")
          /\ Save(j, AfterFailure(j), Idle)
          /\ UNCHANGED disk
    /\ UNCHANGED <<proof, late, data, observers>>

\* pull_file fetches ranges into the partial file: some, or all that miss.
\* Ranges whose bytes no longer match the sidecar were dropped and come again.
Fetch(j) ==
    /\ At(j, "copy")
    /\ disk[j].staged = "none"
    /\ \/ /\ disk[j].partial = "none"
          /\ disk' = [disk EXCEPT ![j].partial = "pull", ![j].sidecar = TRUE,
                                  ![j].dest = Kept(j, "dest", "pull"),
                                  ![j].elsewhere = Kept(j, "elsewhere", "pull")]
       \/ /\ disk[j].partial # "none"
          /\ disk' = [disk EXCEPT ![j].sidecar = TRUE]
    /\ \/ /\ disk[j].partial = "none"
          /\ data' = [data EXCEPT ![j].pull = "part"]
          /\ UNCHANGED worker
       \/ /\ data' = [data EXCEPT ![j].pull = "media"]
          /\ Goto(j, "link")
    /\ UNCHANGED <<apiVars, late, left, observers>>

\* Every range is on disk: the partial file becomes the staged one, by a link...
LinkStaged(j) ==
    /\ At(j, "link")
    /\ disk' = [disk EXCEPT ![j].staged = disk[j].partial]
    /\ Goto(j, "drop")
    /\ UNCHANGED <<apiVars, late, data, left, observers>>

\* ... and the removal of its old name.
DropPartial(j) ==
    /\ At(j, "drop")
    /\ disk' = [disk EXCEPT ![j].partial = "none"]
    /\ Goto(j, "hash")
    /\ UNCHANGED <<apiVars, late, data, left, observers>>

\* hash_file and the durable whole-file digest, before the library changes.
Hash(j) ==
    /\ At(j, "hash")
    /\ ~late[j]
    /\ Save(j, [job[j] EXCEPT !.phase = "Verifying",
                              !.verified = Bytes(j, disk[j].staged)],
             [pc |-> "inspect", job |-> j])
    /\ UNCHANGED <<proof, late, diskVars, observers>>

(***************************************************************************)
(* finish_verifying: place_verified, record_title, Installed               *)
(***************************************************************************)

\* Mutant of Inspect: an I/O error starts the Job over instead of retrying.
InspectStartsOver(j) ==
    /\ At(j, "inspect")
    /\ \/ Matches(j) /\ Goto(j, "tidy") /\ UNCHANGED <<job, left>>
       \/ disk[j].dest = "none" /\ Goto(j, "prepare") /\ UNCHANGED <<job, left>>
       \/ /\ disk[j].dest # "none" /\ ~Matches(j)
          /\ Save(j, Phase(j, "Refused"), Idle)
       \/ Fault("fault") /\ worker' = Idle /\ job' = [job EXCEPT ![j].phase = "Pending"]
    /\ UNCHANGED <<proof, late, diskVars, observers>>

\* The destination decides: ours already, someone else's, or still free.  An
\* I/O error is retryable and leaves the Job Verifying.
Inspect(j) ==
    /\ At(j, "inspect")
    /\ \/ Matches(j) /\ Goto(j, "tidy") /\ UNCHANGED <<job, left>>
       \/ disk[j].dest = "none" /\ Goto(j, "prepare") /\ UNCHANGED <<job, left>>
       \/ /\ disk[j].dest # "none" /\ ~Matches(j)
          /\ Save(j, Phase(j, "Refused"), Idle)
       \/ Fault("fault") /\ worker' = Idle /\ UNCHANGED job
    /\ UNCHANGED <<proof, late, diskVars, observers>>

\* cleanup_install_temporary reports an I/O error where that ends the Job: it is
\* Failed, and its temporary is still there.
FailRemoval(j) ==
    /\ Fault("fault")
    /\ job' = [job EXCEPT ![j] = Phase(j, "Failed")]
    /\ worker' = Idle
    /\ unremoved' = unremoved \cup {j}
    /\ UNCHANGED disk

\* Before a fresh installation: remove a dead process's temporary, then check
\* deadline, space and the staged file.  Every error here is terminal.
Prepare(j) ==
    /\ At(j, "prepare")
    /\ \/ /\ Clearable(j)
          /\ ClearTemporary(j)
          /\ \/ late[j] /\ Save(j, Phase(j, "Failed"), Idle)
             \/ ~late[j] /\ Save(j, Phase(j, "Refused"), Idle)
             \/ /\ ~late[j] /\ disk[j].staged = "none"
                /\ Save(j, Phase(j, "Failed"), Idle)
             \/ /\ ~late[j] /\ disk[j].staged # "none"
                /\ Goto(j, "install") /\ UNCHANGED <<job, left>>
             \/ /\ Fault("fault")
                /\ job' = [job EXCEPT ![j] = Phase(j, "Failed")] /\ worker' = Idle
          /\ UNCHANGED unremoved
       \/ /\ ~Clearable(j)
          /\ Save(j, Phase(j, "Failed"), Idle)
          /\ UNCHANGED <<disk, unremoved>>
       \/ FailRemoval(j)
    /\ UNCHANGED <<proof, late, data, published, disturbed>>

\* Mutant of Installable: the staged bytes are not hashed again.
InstallableUnchecked(j) ==
    ~late[j] /\ disk[j].dest = "none" /\ Links(j, disk[j].staged) = 1

\* install_checked accepts the staged file: one link, the verified digest, a
\* free destination, and time left.
Installable(j) ==
    LET staged == disk[j].staged
    IN  /\ ~late[j]
        /\ disk[j].dest = "none"
        /\ Links(j, staged) = 1
        /\ Bytes(j, staged) = job[j].verified

\* Publish inode at a free destination; hard_link never replaces an entry.
Publish(j, inode, pc) ==
    /\ disk[j].dest = "none"
    /\ disk' = [disk EXCEPT ![j].dest = inode]
    /\ published' = [published EXCEPT ![j] = @ \cup {Bytes(j, inode)}]
    /\ Goto(j, pc)

\* install_checked up to the link.  On another device the copy slot is opened:
\* its directory exists before its owner marker is complete.
Install(j) ==
    /\ At(j, "install")
    /\ \/ /\ ~Installable(j)
          /\ Goto(j, "recheck")
          /\ UNCHANGED <<disk, published>>
       \/ Installable(j) /\ j \notin CrossDevice /\ Publish(j, disk[j].staged, "unlink")
       \/ /\ Installable(j) /\ j \in CrossDevice
          /\ disk' = [disk EXCEPT ![j].slot = IF @ = "none" THEN "torn" ELSE @]
          /\ Goto(j, "slot")
          /\ UNCHANGED published
    /\ UNCHANGED <<apiVars, late, data, left, disturbed, unremoved>>

\* InstallTemporary::open wrote and synced the owner marker; stale data in the
\* slot is removed and the copy starts.
OpenSlot(j) ==
    /\ At(j, "slot")
    /\ disk' = [disk EXCEPT ![j].slot = "owned", ![j].temp = "copy",
                            ![j].dest = Kept(j, "dest", "copy"),
                            ![j].elsewhere = Kept(j, "elsewhere", "copy")]
    /\ data' = [data EXCEPT ![j].copy = "part"]
    /\ Goto(j, "fill")
    /\ UNCHANGED <<apiVars, late, left, observers>>

\* The copy is complete and synced.
FillTemporary(j) ==
    /\ At(j, "fill")
    /\ data' = [data EXCEPT ![j].copy = data[j].pull]
    /\ Goto(j, "publish")
    /\ UNCHANGED <<apiVars, late, disk, left, observers>>

\* The copy is linked at the destination, if that is still free and in time.
PublishCopy(j) ==
    /\ At(j, "publish")
    /\ \/ ~late[j] /\ Publish(j, disk[j].temp, "clear")
       \/ /\ late[j] \/ disk[j].dest # "none"
          /\ Goto(j, "recheck")
          /\ UNCHANGED <<disk, published>>
    /\ UNCHANGED <<apiVars, late, data, left, disturbed, unremoved>>

\* The temporary's name is removed after publication.
ClearCopy(j) ==
    /\ At(j, "clear")
    /\ \/ Clearable(j) /\ ClearTemporary(j) /\ Goto(j, "unlink")
       \/ ~Clearable(j) /\ Goto(j, "recheck") /\ UNCHANGED disk
    /\ UNCHANGED <<apiVars, late, data, left, observers>>

\* move_into_place removes the staged source, cleanup_owned_staging the rest.
Unlink(j) ==
    /\ At(j, "unlink")
    /\ disk' = [disk EXCEPT ![j].staged = "none", ![j].sidecar = FALSE]
    /\ Goto(j, "record")
    /\ UNCHANGED <<apiVars, late, data, left, observers>>

\* Any step of the installation may fail, before or after the publication.
InstallError(j) ==
    /\ \E pc \in {"install", "slot", "fill", "publish", "clear", "unlink"} : At(j, pc)
    /\ Fault("fault")
    /\ Goto(j, "recheck")
    /\ UNCHANGED <<apiVars, late, diskVars, observers>>

\* Mutant of Recheck: an error is a failure, whatever is on disk by now.
RecheckGivesUp(j) ==
    /\ At(j, "recheck")
    /\ Clearable(j) /\ ClearTemporary(j)
    /\ Save(j, Phase(j, "Failed"), Idle)
    /\ UNCHANGED <<proof, late, data, observers>>

\* Mutant of Recheck: the failure keeps the partial copy.
RecheckKeepsCopy(j) ==
    /\ At(j, "recheck")
    /\ \/ Matches(j) /\ Goto(j, "tidy") /\ UNCHANGED <<job, left>>
       \/ disk[j].dest = "none" /\ Save(j, Phase(j, "Failed"), Idle)
       \/ disk[j].dest # "none" /\ ~Matches(j) /\ Save(j, Phase(j, "Refused"), Idle)
    /\ UNCHANGED <<proof, late, diskVars, observers>>

\* After an installation error the bytes on disk decide whether it completed; if
\* not, the copy space is released, and an error in that is terminal too.
Recheck(j) ==
    /\ At(j, "recheck")
    /\ \/ /\ \/ Matches(j) /\ Goto(j, "tidy") /\ UNCHANGED <<job, left, disk>>
             \/ /\ disk[j].dest = "none" /\ Clearable(j)
                /\ ClearTemporary(j)
                /\ Save(j, Phase(j, "Failed"), Idle)
             \/ /\ disk[j].dest = "none" /\ ~Clearable(j)
                /\ Save(j, Phase(j, "Failed"), Idle)
                /\ UNCHANGED disk
             \/ /\ disk[j].dest # "none" /\ ~Matches(j)
                /\ Save(j, Phase(j, "Refused"), Idle)
                /\ UNCHANGED disk
             \/ Fault("fault") /\ worker' = Idle /\ UNCHANGED <<job, disk>>
          /\ UNCHANGED unremoved
       \/ disk[j].dest = "none" /\ FailRemoval(j)
    /\ UNCHANGED <<proof, late, data, published, disturbed>>

\* The destination is ours: remove the staged files and the temporary.  Errors
\* are retryable.
Tidy(j) ==
    LET tidied == [disk[j] EXCEPT !.staged = "none", !.sidecar = FALSE]
    IN  /\ At(j, "tidy")
        /\ \/ /\ Clearable(j)
              /\ disk' = [disk EXCEPT ![j] = [tidied EXCEPT !.temp = "none"]]
              /\ Goto(j, "record")
              /\ UNCHANGED left
           \/ /\ ~Clearable(j)
              /\ disk' = [disk EXCEPT ![j] = tidied]
              /\ worker' = Idle
              /\ UNCHANGED left
           \/ /\ Fault("fault")
              /\ disk' \in {disk, [disk EXCEPT ![j] = tidied]}
              /\ worker' = Idle
        /\ UNCHANGED <<apiVars, late, data, observers>>

\* record_title: add the proof, or find it there.  Admission wants a regular
\* file of the right length at the destination.
RecordTitle(j) ==
    LET new == [b3 |-> job[j].verified, drifted |-> FALSE]
    IN  /\ At(j, "record")
        /\ \/ proof[j] = new /\ Goto(j, "finish") /\ UNCHANGED <<proof, left>>
           \/ /\ proof[j] = Life!NoProof
              /\ disk[j].dest \notin {"none", "other"}
              /\ proof' = [proof EXCEPT ![j] = new]
              /\ \/ Goto(j, "finish") /\ UNCHANGED left
                 \/ Fault("fault") /\ worker' = Idle
           \/ /\ proof[j] # new
              /\ proof[j] # Life!NoProof \/ disk[j].dest \in {"none", "other"}
              /\ worker' = Idle /\ UNCHANGED <<proof, left>>
           \/ Fault("fault") /\ worker' = Idle /\ UNCHANGED proof
        /\ UNCHANGED <<job, late, diskVars, observers>>

\* The terminal write; admission denies it when the proof drifted meanwhile.
Finish(j) ==
    /\ At(j, "finish")
    /\ \/ /\ proof[j] = [b3 |-> job[j].verified, drifted |-> FALSE]
          /\ Save(j, Phase(j, "Installed"), Idle)
       \/ /\ proof[j] # [b3 |-> job[j].verified, drifted |-> FALSE]
          /\ worker' = Idle /\ UNCHANGED <<job, left>>
    /\ UNCHANGED <<proof, late, diskVars, observers>>

Work(j) ==
    \/ GiveUp(j) \/ Start(j) \/ Resume(j) \/ FailAttempt(j) \/ Check(j)
    \/ Adopt(j) \/ Fetch(j) \/ LinkStaged(j) \/ DropPartial(j) \/ Hash(j)
    \/ Inspect(j) \/ Prepare(j) \/ Install(j) \/ OpenSlot(j) \/ FillTemporary(j)
    \/ PublishCopy(j) \/ ClearCopy(j) \/ Unlink(j) \/ InstallError(j)
    \/ Recheck(j) \/ Tidy(j) \/ RecordTitle(j) \/ Finish(j)

(***************************************************************************)
(* Everyone else                                                           *)
(***************************************************************************)

\* The process dies; the supervisor starts another, and claim_process keeps
\* two of them from running together.
Crash ==
    /\ worker # Idle
    /\ Fault("crash")
    /\ worker' = Idle
    /\ UNCHANGED <<apiVars, late, diskVars, observers>>

\* PULL_DEADLINE_SECS after the Job first started.
Expire(j) ==
    /\ Active(j) /\ job[j].started /\ ~late[j]
    /\ late' = [late EXCEPT ![j] = TRUE]
    /\ UNCHANGED <<apiVars, diskVars, worker, left, observers>>

\* Controllers, scheduler and operator, with their authorization abstracted: a
\* Job is created, bound, refused while unbound, or deleted to be tried again.
Control(j) ==
    /\ \/ Life!Create(j) /\ Fault("create") /\ UNCHANGED late
       \/ (Life!Bind(j) \/ Life!Revoke(j)) /\ UNCHANGED <<late, left>>
       \/ /\ Life!Delete(j)
          /\ late' = [late EXCEPT ![j] = FALSE]
          /\ UNCHANGED left
    /\ UNCHANGED <<diskVars, worker, observers>>

\* flag_drift: a proof whose file is gone is marked, whatever the worker does.
FlagDrift(j) ==
    /\ disk[j].dest = "none"
    /\ Life!FlagDrift(j)
    /\ UNCHANGED <<late, diskVars, worker, left, observers>>

\* The user adds a file, deletes one, moves one away or brings it back.
UserEdits(j) ==
    /\ Fault("user")
    /\ \/ /\ disk[j].dest = "none"
          /\ \E f \in {"twin", "other"} : disk' = [disk EXCEPT ![j].dest = f]
       \/ /\ disk[j].dest # "none"
          /\ disk' = [disk EXCEPT ![j].dest = "none"]
       \/ /\ disk[j].dest # "none" /\ disk[j].elsewhere = "none"
          /\ disk' = [disk EXCEPT ![j].dest = "none", ![j].elsewhere = disk[j].dest]
       \/ /\ disk[j].dest = "none" /\ disk[j].elsewhere # "none"
          /\ disk' = [disk EXCEPT ![j].dest = disk[j].elsewhere, ![j].elsewhere = "none"]
    /\ disturbed' = disturbed \cup {j}
    /\ UNCHANGED <<apiVars, late, data, worker, published, unremoved>>

\* A staged or partial file decays while no process works on it.
Rot(j) ==
    /\ worker.job # j
    /\ Fault("user")
    /\ "pull" \in {disk[j].partial, disk[j].staged}
    /\ data[j].pull = "media" /\ disk[j].dest # "pull" /\ disk[j].elsewhere # "pull"
    /\ data' = [data EXCEPT ![j].pull = "rot"]
    /\ UNCHANGED <<apiVars, late, disk, worker, observers>>

PullNext ==
    \/ Crash
    \/ \E j \in Jobs :
          \/ Work(j) \/ Expire(j) \/ Control(j) \/ FlagDrift(j)
          \/ UserEdits(j) \/ Rot(j)

\* The worker's loop keeps running, and time passes.
PullSpec ==
    /\ PullInit /\ [][PullNext]_pullVars
    /\ WF_pullVars(\E j \in Jobs : Work(j))
    /\ \A j \in Jobs : WF_pullVars(Expire(j))

-----------------------------------------------------------------------------
(* Properties *)

Steps == {"check", "copy", "link", "drop", "hash", "inspect", "prepare", "install", "slot",
          "fill", "publish", "clear", "unlink", "recheck", "tidy", "record", "finish"}

JobStatus == [phase : {"Absent", "Pending", "Pulling", "Verifying"} \cup Terminal,
              bound : BOOLEAN, attempts : 0..MaxAttempts, started : BOOLEAN,
              verified : Contents \cup {NoDigest}]
TitleProof == [b3 : Contents \cup {NoDigest}, drifted : BOOLEAN]
Placed == {"none", "pull", "copy", "media", "twin", "other"}
Directory == [partial : {"none", "pull"}, staged : {"none", "pull"}, sidecar : BOOLEAN,
              slot : {"none", "torn", "owned"}, temp : {"none", "copy"},
              dest : Placed, elsewhere : Placed]
Inodes == [pull : {"part", "media", "rot"}, copy : {"part", "media", "rot"}]

\* Type invariant of the worker, its files and the objects it writes.
PullTypeOK ==
    /\ job \in [Jobs -> JobStatus]
    /\ proof \in [Jobs -> TitleProof]
    /\ late \in [Jobs -> BOOLEAN]
    /\ disk \in [Jobs -> Directory]
    /\ data \in [Jobs -> Inodes]
    /\ worker \in {Idle} \cup [pc : Steps, job : Jobs]
    /\ left \in [{"crash", "fault", "user", "create"} -> Nat]
    /\ published \in [Jobs -> SUBSET Contents]
    /\ disturbed \subseteq Jobs /\ unremoved \subseteq Jobs

\* The worker's requests are the ones admission accepts: the system implements
\* the Job life cycle mediaops-api enforces.
ImplementsLifecycle == Life!LifeSpec

Library(j) == Bytes(j, disk[j].dest)

\* A library entry appears only as the verified bytes of a Verifying Job before
\* its deadline, and no step but the user's ever replaces one, removes it or
\* changes its contents.
PublishesOnlyVerified ==
    [][\A j \in Jobs : Library(j)' # Library(j) =>
          \/ left'.user < left.user
          \/ /\ disk[j].dest = "none"
             /\ job[j].phase = "Verifying" /\ ~late[j]
             /\ Library(j)' = job[j].verified]_pullVars

\* A recorded proof is the digest of bytes the worker really put at the
\* destination: crashes and lost answers never produce a proof first.
ProofFollowsPublication ==
    \A j \in Jobs : proof[j] # Life!NoProof => proof[j].b3 \in published[j]

\* A Job that ends Failed or Refused left nothing at its destination: once the
\* bytes are live, errors and crashes keep it Verifying until it is Installed.
FailureLeavesNothing ==
    \A j \in Jobs \ disturbed : job[j].phase \in {"Failed", "Refused"} =>
        disk[j].dest = "none"

\* A terminal Job holds no copy space, whatever crashes and errors came before,
\* but in two cases: the user touched its library files (another file took the
\* destination, or the temporary became a name of a moved one), or the removal
\* itself ended the Job with an I/O error, which the worker does not retry.
CopySpaceReleased ==
    \A j \in Jobs : job[j].phase \in Terminal /\ disk[j].temp # "none" =>
        j \in disturbed \cup unremoved

\* Every bound Job settles, whatever crashes and errors happened on the way,
\* unless a proof was flagged as drifted under a Job that had not finished.
JobsSettle ==
    \A j \in Jobs : Active(j) ~>
        (~Active(j) \/ \E k \in Jobs : proof[k].drifted)

=============================================================================
