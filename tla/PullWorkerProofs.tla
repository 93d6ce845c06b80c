-------------------------- MODULE PullWorkerProofs --------------------------
(***************************************************************************)
(* Proofs about PullWorker, for any set of Jobs, any placement of their    *)
(* destinations over devices and any number of crashes, errors and user    *)
(* edits.                                                                  *)
(***************************************************************************)
EXTENDS PullWorker, FiniteSetTheorems, TLAPS

-----------------------------------------------------------------------------
(* The inductive invariant, Job by Job *)

PullSteps == {"check", "copy", "link", "drop", "hash"}

\* What the API holds.  The only digest ever verified is that of the remote's
\* bytes, and only bytes that were published are proved.
LifeInv(j) ==
    /\ job[j].verified \in {NoDigest, "media"}
    /\ job[j].phase \in {"Pulling", "Verifying"} =>
          job[j].bound /\ job[j].started /\ job[j].attempts > 0
    /\ job[j].phase = "Verifying" => job[j].verified = "media"
    /\ job[j].phase = "Installed" => proof[j] # Life!NoProof
    /\ proof[j] # Life!NoProof => proof[j].b3 = "media" /\ "media" \in published[j]

\* What is on disk.  A library entry of ours holds verified bytes, whoever moved
\* it; a Job nobody disturbed has one only from its publication on, and a
\* temporary only while it is verified or after the removal of it failed.
FilesInv(j) ==
    /\ disk[j].temp # "none" => disk[j].slot = "owned"
    /\ \A e \in {"dest", "elsewhere"} :
          /\ disk[j][e] = "pull" => data[j].pull = "media"
          /\ disk[j][e] = "copy" => data[j].copy = "media"
          /\ disk[j][e] \in {"pull", "copy", "media"} => "media" \in published[j]
    /\ j \notin disturbed =>
          /\ disk[j].elsewhere = "none"
          /\ disk[j].dest \in {"none", "pull", "copy"}
          /\ disk[j].temp # "none" => job[j].phase = "Verifying" \/ j \in unremoved
          /\ disk[j].dest # "none" =>
                \/ job[j].phase \in {"Verifying", "Installed"}
                \/ job[j].phase = "Absent" /\ proof[j] # Life!NoProof

\* What the worker relies on at each step for the Job it serves.
WorkerInv(j) ==
    worker.job = j /\ worker.pc # "idle" =>
        LET pc == worker.pc
        IN  /\ job[j].phase = (IF pc \in PullSteps THEN "Pulling" ELSE "Verifying")
            /\ pc = "link" => disk[j].partial = "pull"
            /\ pc \in {"drop", "hash"} => disk[j].staged = "pull"
            /\ pc \in {"link", "drop", "hash", "slot", "fill"} => data[j].pull = "media"
            /\ pc \in {"install", "slot", "unlink", "record", "finish"} => disk[j].temp = "none"
            /\ pc \in {"fill", "publish"} =>
                  /\ disk[j].temp = "copy" /\ disk[j].slot = "owned"
                  /\ disk[j].dest # "copy" /\ disk[j].elsewhere # "copy"
            /\ pc = "publish" => data[j].copy = "media"
            /\ pc \in {"clear", "unlink", "tidy", "record", "finish"} => "media" \in published[j]
            /\ pc \in {"prepare", "install", "slot", "fill", "publish"} /\ j \notin disturbed =>
                  disk[j].dest = "none"

JobInv(j) == LifeInv(j) /\ FilesInv(j) /\ WorkerInv(j)

PullInv == PullTypeOK /\ \A j \in Jobs : JobInv(j)

-----------------------------------------------------------------------------
(* Steps and frames *)

\* A step that leaves everything of Job k alone and does not start to serve it.
Untouched(k) ==
    /\ job'[k] = job[k] /\ proof'[k] = proof[k]
    /\ disk'[k] = disk[k] /\ data'[k] = data[k] /\ published'[k] = published[k]
    /\ (k \in disturbed' <=> k \in disturbed) /\ (k \in unremoved' <=> k \in unremoved)
    /\ worker' = worker \/ worker'.pc = "idle" \/ worker'.job # k

\* What every action of a Job must keep.
Keeps(j) ==
    /\ PullTypeOK'
    /\ JobInv(j)'
    /\ \A k \in Jobs \ {j} : Untouched(k)

\* A Job whose object, files and pass are untouched keeps its invariant.
LEMMA Frame ==
    ASSUME NEW k \in Jobs, JobInv(k), Untouched(k)
    PROVE  JobInv(k)'
  BY DEF JobInv, LifeInv, FilesInv, WorkerInv, Untouched

\* The parts of the state that belong to one Job have their types.
LEMMA Typed ==
    ASSUME PullTypeOK, NEW j \in Jobs
    PROVE  /\ job[j] \in JobStatus /\ proof[j] \in TitleProof /\ late[j] \in BOOLEAN
           /\ disk[j] \in Directory /\ data[j] \in Inodes
           /\ left["fault"] \in Nat /\ left["crash"] \in Nat
           /\ left["user"] \in Nat /\ left["create"] \in Nat
  BY DEF PullTypeOK

\* Spending a fault keeps the counters natural numbers.
LEMMA FaultTyped ==
    ASSUME PullTypeOK, NEW kind \in {"crash", "fault", "user", "create"}, Fault(kind)
    PROVE  left' \in [{"crash", "fault", "user", "create"} -> Nat]
  BY DEF PullTypeOK, Fault

\* Both outcomes of save_job, whatever it writes.
LEMMA SaveEffect ==
    ASSUME PullTypeOK, NEW j \in Jobs, NEW status \in JobStatus,
           NEW next \in {Idle} \cup [pc : Steps, job : Jobs],
           Save(j, status, next)
    PROVE  /\ job' \in [Jobs -> JobStatus]
           /\ left' \in [{"crash", "fault", "user", "create"} -> Nat]
           /\ worker' \in {next, Idle}
           /\ \A k \in Jobs \ {j} : job'[k] = job[k]
           /\ job'[j] \in {job[j], status}
           /\ worker' # Idle => job'[j] = status
<1>1. CASE /\ job' = [job EXCEPT ![j] = status]
           /\ worker' = next
           /\ UNCHANGED left
  BY <1>1 DEF PullTypeOK
<1>2. CASE /\ Fault("fault")
           /\ worker' = Idle
           /\ job' \in {job, [job EXCEPT ![j] = status]}
  <2>1. left' \in [{"crash", "fault", "user", "create"} -> Nat]
    BY <1>2, FaultTyped
  <2> QED
    BY <1>2, <2>1 DEF PullTypeOK
<1> QED
  BY <1>1, <1>2 DEF Save

\* A status that differs by its phase only is a status, with the other fields as
\* they were.
LEMMA PhaseEffect ==
    ASSUME PullTypeOK, NEW j \in Jobs,
           NEW p \in {"Pending", "Pulling", "Verifying"} \cup Terminal
    PROVE  /\ Phase(j, p) \in JobStatus
           /\ Phase(j, p).phase = p
           /\ Phase(j, p).bound = job[j].bound
           /\ Phase(j, p).started = job[j].started
           /\ Phase(j, p).attempts = job[j].attempts
           /\ Phase(j, p).verified = job[j].verified
<1>1. job[j] \in JobStatus
  BY Typed
<1> QED
  BY <1>1 DEF Phase, JobStatus

\* Removing the temporary copy changes that name and nothing else.
LEMMA ClearEffect ==
    ASSUME PullTypeOK, NEW j \in Jobs, ClearTemporary(j)
    PROVE  /\ disk' \in [Jobs -> Directory]
           /\ disk'[j] = [disk[j] EXCEPT !.temp = "none"]
           /\ \A k \in Jobs \ {j} : disk'[k] = disk[k]
<1>1. disk[j] \in Directory
  BY Typed
<1>2. [disk[j] EXCEPT !.temp = "none"] \in Directory
  BY <1>1 DEF Directory
<1> QED
  BY <1>2 DEF PullTypeOK, ClearTemporary

\* An entry of a Job nobody disturbed that is not its own name is its destination,
\* so only a slot without a complete owner marker cannot be cleared, and that one
\* holds no copy.
LEMMA UndisturbedClearable ==
    ASSUME PullInv, NEW j \in Jobs, j \notin disturbed, ~Clearable(j)
    PROVE  disk[j].temp = "none"
<1> SUFFICES ASSUME disk[j].temp # "none" PROVE FALSE
  OBVIOUS
<1>1. disk[j] \in Directory
  BY Typed DEF PullInv
<1>2. /\ disk[j].temp = "copy" /\ disk[j].slot = "owned" /\ disk[j].elsewhere = "none"
      /\ disk[j].partial # "copy" /\ disk[j].staged # "copy"
  BY <1>1 DEF PullInv, JobInv, FilesInv, Directory
<1>3. CASE disk[j].dest = "copy"
  <2>1. {e \in Entries : disk[j][e] = "copy"} = {"temp", "dest"}
    BY <1>2, <1>3 DEF Entries
  <2>2. Cardinality({"temp"} \cup {"dest"}) = 2
    <3>1. IsFiniteSet({"temp"}) /\ Cardinality({"temp"}) = 1 /\ "dest" \notin {"temp"}
      BY FS_Singleton
    <3> QED
      BY <3>1, FS_AddElement
  <2>3. {"temp", "dest"} = {"temp"} \cup {"dest"}
    OBVIOUS
  <2>4. Links(j, "copy") = 2
    BY <2>1, <2>2, <2>3 DEF Links
  <2> QED
    BY <1>2, <1>3, <2>4 DEF Clearable
<1>4. CASE disk[j].dest # "copy"
  <2>1. {e \in Entries : disk[j][e] = "copy"} = {"temp"}
    BY <1>2, <1>4 DEF Entries
  <2>2. Links(j, "copy") = 1
    BY <2>1, FS_Singleton DEF Links
  <2> QED
    BY <1>2, <2>2 DEF Clearable
<1> QED
  BY <1>3, <1>4

\* The end of a pass: the Job keeps its phase or leaves it for a later attempt or
\* for good, and perhaps its temporary was removed.  An undisturbed Job that gives
\* up has nothing on disk to answer for.
LEMMA EndPass ==
    ASSUME PullInv, NEW j \in Jobs, NEW p \in {"Pending", "Failed", "Refused"},
           job' \in [Jobs -> JobStatus], job'[j] \in {job[j], Phase(j, p)},
           \A k \in Jobs \ {j} : job'[k] = job[k],
           UNCHANGED <<proof, late, data, published>>,
           disk' = disk \/ ClearTemporary(j),
           worker' = Idle,
           left' \in [{"crash", "fault", "user", "create"} -> Nat],
           UNCHANGED disturbed,
           unremoved' \in {unremoved, unremoved \cup {j}, unremoved \ {j}},
           j \in unremoved \ unremoved' => disk'[j].temp = "none",
           j \notin disturbed =>
              \/ job'[j] = job[j]
              \/ disk'[j].temp = "none" /\ disk[j].dest = "none"
              \/ j \in unremoved' /\ disk[j].dest = "none"
    PROVE  Keeps(j)
<1> DEFINE d == disk'[j]
<1>1. /\ disk' \in [Jobs -> Directory]
      /\ \A k \in Jobs \ {j} : disk'[k] = disk[k]
      /\ d = disk[j] \/ d = [disk[j] EXCEPT !.temp = "none"]
  BY ClearEffect DEF PullInv, PullTypeOK
<1>2. disk[j] \in Directory
  BY Typed DEF PullInv
<1>3. /\ d.temp \in {"none", disk[j].temp} /\ d.slot = disk[j].slot
      /\ d.dest = disk[j].dest /\ d.elsewhere = disk[j].elsewhere
  BY <1>1, <1>2 DEF Directory
<1>4. \/ job'[j] = job[j]
      \/ job'[j].phase = p /\ job'[j].verified = job[j].verified
  <2>1. p \in {"Pending", "Pulling", "Verifying"} \cup Terminal
    BY DEF Terminal, Life!Terminal
  <2> QED
    BY <2>1, PhaseEffect DEF PullInv
<1>5. PullTypeOK'
  BY <1>1 DEF PullInv, PullTypeOK
<1>6. LifeInv(j)'
  BY <1>4 DEF PullInv, JobInv, LifeInv
<1>7. FilesInv(j)'
  <2>1. /\ disk'[j].temp # "none" => disk'[j].slot = "owned"
        /\ \A e \in {"dest", "elsewhere"} :
              /\ disk'[j][e] = "pull" => data'[j].pull = "media"
              /\ disk'[j][e] = "copy" => data'[j].copy = "media"
              /\ disk'[j][e] \in {"pull", "copy", "media"} => "media" \in published'[j]
    BY <1>3 DEF PullInv, JobInv, FilesInv
  <2>2. ASSUME j \notin disturbed
        PROVE  /\ disk'[j].elsewhere = "none"
               /\ disk'[j].dest \in {"none", "pull", "copy"}
               /\ disk'[j].temp # "none" => job'[j].phase = "Verifying" \/ j \in unremoved'
               /\ disk'[j].dest # "none" =>
                     \/ job'[j].phase \in {"Verifying", "Installed"}
                     \/ job'[j].phase = "Absent" /\ proof'[j] # Life!NoProof
    BY <1>3, <2>2 DEF PullInv, JobInv, FilesInv
  <2> QED
    BY <2>1, <2>2 DEF FilesInv
<1>8. WorkerInv(j)'
  BY DEF WorkerInv, Idle
<1>9. \A k \in Jobs \ {j} : Untouched(k)
  BY <1>1 DEF Untouched, Idle
<1> QED
  BY <1>5, <1>6, <1>7, <1>8, <1>9 DEF Keeps, JobInv

\* A step that only moves the worker on.
LEMMA Advance ==
    ASSUME PullInv, NEW j \in Jobs, NEW pc \in Steps, Goto(j, pc),
           UNCHANGED <<apiVars, late, diskVars, observers>>,
           left' \in [{"crash", "fault", "user", "create"} -> Nat],
           WorkerInv(j)'
    PROVE  Keeps(j)
<1> USE DEF apiVars, diskVars, observers, Goto
<1>1. PullTypeOK'
  BY DEF PullInv, PullTypeOK
<1>2. LifeInv(j)' /\ FilesInv(j)'
  BY DEF PullInv, JobInv, LifeInv, FilesInv
<1>3. \A k \in Jobs \ {j} : Untouched(k)
  BY DEF Untouched
<1> QED
  BY <1>1, <1>2, <1>3 DEF Keeps, JobInv

\* The same for a pass that ends in a write of the new phase.
LEMMA SaveEndsPass ==
    ASSUME PullInv, NEW j \in Jobs, NEW p \in {"Pending", "Failed", "Refused"},
           Save(j, Phase(j, p), Idle),
           UNCHANGED <<proof, late, data, published, disturbed>>,
           disk' = disk \/ ClearTemporary(j),
           unremoved' \in {unremoved, unremoved \ {j}},
           j \in unremoved \ unremoved' => disk'[j].temp = "none",
           j \notin disturbed =>
              (disk'[j].temp = "none" \/ j \in unremoved') /\ disk[j].dest = "none"
    PROVE  Keeps(j)
<1>1. p \in {"Pending", "Pulling", "Verifying"} \cup Terminal
  BY DEF Terminal, Life!Terminal
<1>2. Phase(j, p) \in JobStatus
  BY <1>1, PhaseEffect DEF PullInv
<1>3. /\ job' \in [Jobs -> JobStatus]
      /\ left' \in [{"crash", "fault", "user", "create"} -> Nat]
      /\ worker' = Idle
      /\ \A k \in Jobs \ {j} : job'[k] = job[k]
      /\ job'[j] \in {job[j], Phase(j, p)}
  BY <1>2, SaveEffect DEF PullInv
<1> QED
  BY <1>3, EndPass

\* A step of the worker on the files of its Job, which may publish some bytes.
LEMMA FileStep ==
    ASSUME PullInv, NEW j \in Jobs,
           disk' \in [Jobs -> Directory], data' \in [Jobs -> Inodes],
           published' \in [Jobs -> SUBSET Contents], published[j] \subseteq published'[j],
           \A k \in Jobs \ {j} :
              disk'[k] = disk[k] /\ data'[k] = data[k] /\ published'[k] = published[k],
           UNCHANGED <<job, proof, late, disturbed, unremoved>>,
           left' \in [{"crash", "fault", "user", "create"} -> Nat],
           worker' \in {Idle} \cup [pc : Steps, job : {j}],
           FilesInv(j)', WorkerInv(j)'
    PROVE  Keeps(j)
<1>1. PullTypeOK'
  BY DEF PullInv, PullTypeOK
<1>2. LifeInv(j)'
  BY DEF PullInv, PullTypeOK, JobInv, LifeInv
<1>3. \A k \in Jobs \ {j} : Untouched(k)
  BY DEF PullInv, PullTypeOK, Untouched, Idle
<1> QED
  BY <1>1, <1>2, <1>3 DEF Keeps, JobInv

\* An undisturbed Job that is not verified has no library entry, and a copy only
\* from an earlier life whose removal failed.
LEMMA UnverifiedIsClean ==
    ASSUME PullInv, NEW j \in Jobs, j \notin disturbed,
           job[j].phase \in {"Pending", "Pulling"}
    PROVE  (disk[j].temp = "none" \/ j \in unremoved) /\ disk[j].dest = "none"
  BY DEF PullInv, JobInv, FilesInv

\* Where a pass stands decides which Job it works on and the phase that Job is in.
LEMMA AtStep ==
    ASSUME PullInv, NEW j \in Jobs, NEW pc \in Steps, At(j, pc)
    PROVE  /\ worker.pc = pc /\ worker.job = j /\ pc # "idle"
           /\ job[j].phase = IF pc \in PullSteps THEN "Pulling" ELSE "Verifying"
<1>1. worker.pc = pc /\ worker.job = j /\ pc # "idle"
  BY DEF At, Steps
<1> QED
  BY <1>1 DEF PullInv, JobInv, WorkerInv

\* A failed attempt is retried, or ends the Job as Failed or Refused.
LEMMA FailurePhase ==
    ASSUME NEW j \in Jobs
    PROVE  \E p \in {"Pending", "Failed", "Refused"} : AfterFailure(j) = Phase(j, p)
  BY DEF AfterFailure

-----------------------------------------------------------------------------
(* The actions of the worker *)

\* A Job out of attempts or of time ends before anything is written for it.
LEMMA GiveUpKeeps == ASSUME PullInv, NEW j \in Jobs, GiveUp(j) PROVE Keeps(j)
<1>1. j \notin disturbed =>
         (disk[j].temp = "none" \/ j \in unremoved) /\ disk[j].dest = "none"
  BY UnverifiedIsClean DEF GiveUp
<1> QED
  BY <1>1, SaveEndsPass DEF GiveUp, diskVars, observers

\* Starting an attempt: Pending becomes Pulling and the attempt is counted.
LEMMA StartKeeps == ASSUME PullInv, NEW j \in Jobs, Start(j) PROVE Keeps(j)
<1> DEFINE status == [job[j] EXCEPT !.phase = "Pulling", !.attempts = @ + 1, !.started = TRUE]
           next == [pc |-> "check", job |-> j]
<1>1. job[j] \in JobStatus /\ job[j].attempts < MaxAttempts /\ MaxAttempts \in Nat
  BY Typed, PullAssumption DEF PullInv, Start
<1>2. /\ status \in JobStatus
      /\ status.phase = "Pulling" /\ status.bound = job[j].bound /\ status.started
      /\ status.attempts > 0 /\ status.verified = job[j].verified
  <2>1. job[j].attempts + 1 \in 0..MaxAttempts /\ job[j].attempts + 1 > 0
    BY <1>1 DEF JobStatus
  <2> QED
    BY <1>1, <2>1 DEF JobStatus
<1>3. next \in [pc : Steps, job : Jobs]
  BY DEF Steps
<1> HIDE DEF status
<1>4. /\ job' \in [Jobs -> JobStatus]
      /\ left' \in [{"crash", "fault", "user", "create"} -> Nat]
      /\ worker' \in {next, Idle}
      /\ \A k \in Jobs \ {j} : job'[k] = job[k]
      /\ job'[j] \in {job[j], status}
      /\ worker' # Idle => job'[j] = status
  BY <1>2, <1>3, SaveEffect DEF PullInv, Start, status
<1>5. UNCHANGED <<proof, late, disk, data, published, disturbed, unremoved>>
  BY DEF Start, diskVars, observers
<1>6. job[j].bound /\ job[j].phase = "Pending"
  BY DEF Start, Claims, Active
<1>7. PullTypeOK'
  BY <1>3, <1>4, <1>5 DEF PullInv, PullTypeOK
<1>8. LifeInv(j)'
  BY <1>2, <1>4, <1>5, <1>6 DEF PullInv, JobInv, LifeInv
<1>9. FilesInv(j)'
  BY <1>2, <1>4, <1>5, <1>6 DEF PullInv, JobInv, FilesInv
<1>10. WorkerInv(j)'
  BY <1>2, <1>4 DEF WorkerInv, PullSteps, Idle
<1>11. \A k \in Jobs \ {j} : Untouched(k)
  BY <1>4, <1>5 DEF Untouched, Idle
<1> QED
  BY <1>7, <1>8, <1>9, <1>10, <1>11 DEF Keeps, JobInv

\* A worker that restarts takes up a Job in the phase the API recorded.
LEMMA ResumeKeeps == ASSUME PullInv, NEW j \in Jobs, Resume(j) PROVE Keeps(j)
<1>1. left' \in [{"crash", "fault", "user", "create"} -> Nat]
  BY DEF PullInv, PullTypeOK, Resume
<1>2. CASE job[j].phase = "Pulling" /\ Goto(j, "check")
  <2>1. WorkerInv(j)'
    BY <1>2 DEF WorkerInv, PullSteps, Goto, Resume, apiVars
  <2> QED
    BY <1>1, <1>2, <2>1, Advance DEF Resume, Steps
<1>3. CASE job[j].phase = "Verifying" /\ Goto(j, "inspect")
  <2>1. WorkerInv(j)'
    BY <1>3 DEF WorkerInv, PullSteps, Goto, Resume, apiVars
  <2> QED
    BY <1>1, <1>3, <2>1, Advance DEF Resume, Steps
<1> QED
  BY <1>2, <1>3 DEF Resume

\* An attempt that fails is saved as retried or ended, with no entry in the
\* library.
LEMMA FailAttemptKeeps == ASSUME PullInv, NEW j \in Jobs, FailAttempt(j) PROVE Keeps(j)
<1>1. job[j].phase = "Pulling"
  <2>1. PICK pc \in {"check", "copy", "link", "drop", "hash"} : At(j, pc)
    BY DEF FailAttempt
  <2> QED
    BY <2>1, AtStep DEF Steps, PullSteps
<1>2. j \notin disturbed =>
         (disk[j].temp = "none" \/ j \in unremoved) /\ disk[j].dest = "none"
  BY <1>1, UnverifiedIsClean
<1>3. PICK p \in {"Pending", "Failed", "Refused"} : AfterFailure(j) = Phase(j, p)
  BY FailurePhase
<1>4. CASE Save(j, AfterFailure(j), Idle)
  BY <1>2, <1>3, <1>4, SaveEndsPass DEF FailAttempt, diskVars, observers
<1>5. CASE /\ Fault("fault")
           /\ job' = [job EXCEPT ![j] = AfterFailure(j)]
           /\ worker' = Idle
  <2>1. Phase(j, p) \in JobStatus
    BY PhaseEffect DEF PullInv, Terminal, Life!Terminal
  <2>2. left' \in [{"crash", "fault", "user", "create"} -> Nat]
    BY <1>5, FaultTyped DEF PullInv
  <2>3. /\ job' \in [Jobs -> JobStatus]
        /\ job'[j] = Phase(j, p)
        /\ \A k \in Jobs \ {j} : job'[k] = job[k]
    BY <1>3, <1>5, <2>1 DEF PullInv, PullTypeOK
  <2> QED
    BY <1>2, <1>5, <2>2, <2>3, EndPass DEF FailAttempt, diskVars, observers
<1> QED
  BY <1>4, <1>5 DEF FailAttempt

\* An occupied destination ends the Job; a dead process's temporary is removed
\* first.
LEMMA CheckKeeps == ASSUME PullInv, NEW j \in Jobs, Check(j) PROVE Keeps(j)
<1>1. worker.pc = "check" /\ worker.job = j /\ job[j].phase = "Pulling"
  BY AtStep DEF Check, Steps, PullSteps
<1>2. j \notin disturbed =>
         (disk[j].temp = "none" \/ j \in unremoved) /\ disk[j].dest = "none"
  BY <1>1, UnverifiedIsClean
<1>3. /\ UNCHANGED <<proof, late, data, published, disturbed>>
      /\ unremoved' = IF disk'[j].temp = "none" THEN unremoved \ {j} ELSE unremoved
  BY DEF Check
<1>4. disk[j] \in Directory
  BY Typed DEF PullInv
<1>5. ClearTemporary(j) => disk'[j].temp = "none"
  BY <1>4, ClearEffect DEF PullInv, Directory
<1>6. PICK p \in {"Pending", "Failed", "Refused"} : AfterFailure(j) = Phase(j, p)
  BY FailurePhase
<1>7. CASE Save(j, Phase(j, "Refused"), Idle) /\ (UNCHANGED disk \/ ClearTemporary(j))
  BY <1>2, <1>3, <1>5, <1>7, SaveEndsPass
<1>8. CASE Save(j, AfterFailure(j), Idle) /\ UNCHANGED disk
  BY <1>2, <1>3, <1>6, <1>8, SaveEndsPass
<1>9. CASE ClearTemporary(j) /\ Goto(j, "copy") /\ UNCHANGED <<job, left>>
  <2>1. /\ disk' \in [Jobs -> Directory]
        /\ disk'[j] = [disk[j] EXCEPT !.temp = "none"]
        /\ \A k \in Jobs \ {j} : disk'[k] = disk[k]
    BY <1>9, ClearEffect DEF PullInv
  <2>2. /\ disk'[j].temp = "none" /\ disk'[j].dest = disk[j].dest
        /\ disk'[j].elsewhere = disk[j].elsewhere
    BY <1>4, <2>1 DEF Directory
  <2>3. PullTypeOK'
    BY <1>3, <1>9, <2>1 DEF PullInv, PullTypeOK, Goto, Steps
  <2>4. LifeInv(j)'
    BY <1>3, <1>9 DEF PullInv, JobInv, LifeInv
  <2>5. FilesInv(j)'
    BY <1>3, <1>9, <2>2 DEF PullInv, JobInv, FilesInv
  <2>6. WorkerInv(j)'
    BY <1>1, <1>9 DEF WorkerInv, Goto, PullSteps
  <2>7. \A k \in Jobs \ {j} : Untouched(k)
    BY <1>3, <1>9, <2>1 DEF Untouched, Goto
  <2> QED
    BY <2>3, <2>4, <2>5, <2>6, <2>7 DEF Keeps, JobInv
<1> QED
  BY <1>7, <1>8, <1>9 DEF Check

\* A staged file is taken over when its range proof still holds.
LEMMA AdoptKeeps == ASSUME PullInv, NEW j \in Jobs, Adopt(j) PROVE Keeps(j)
<1>1. worker.pc = "copy" /\ worker.job = j /\ job[j].phase = "Pulling"
  BY AtStep DEF Adopt, Steps, PullSteps
<1>2. UNCHANGED <<proof, late, data, published, disturbed, unremoved>>
  BY DEF Adopt, observers
<1>3. disk[j] \in Directory
  BY Typed DEF PullInv
<1>4. PICK p \in {"Pending", "Failed", "Refused"} : AfterFailure(j) = Phase(j, p)
  BY FailurePhase
<1>5. CASE Save(j, AfterFailure(j), Idle) /\ UNCHANGED disk
  <2>1. j \notin disturbed =>
         (disk[j].temp = "none" \/ j \in unremoved) /\ disk[j].dest = "none"
    BY <1>1, UnverifiedIsClean
  <2> QED
    BY <1>2, <1>4, <1>5, <2>1, SaveEndsPass
<1>6. CASE /\ disk[j].sidecar /\ Bytes(j, disk[j].staged) = "media"
           /\ disk' = [disk EXCEPT ![j].partial = "none"]
           /\ Goto(j, "hash")
           /\ UNCHANGED <<job, left>>
  <2>1. /\ disk' \in [Jobs -> Directory]
        /\ disk'[j] = [disk[j] EXCEPT !.partial = "none"]
        /\ \A k \in Jobs \ {j} : disk'[k] = disk[k]
    <3>1. [disk[j] EXCEPT !.partial = "none"] \in Directory
      BY <1>3 DEF Directory
    <3> QED
      BY <1>6, <3>1 DEF PullInv, PullTypeOK
  <2>2. /\ disk'[j].temp = disk[j].temp /\ disk'[j].slot = disk[j].slot
        /\ disk'[j].dest = disk[j].dest /\ disk'[j].elsewhere = disk[j].elsewhere
        /\ disk'[j].staged = disk[j].staged
    BY <1>3, <2>1 DEF Directory
  <2>3. disk[j].staged = "pull" /\ data[j].pull = "media"
    BY <1>3, <1>6 DEF Adopt, Bytes, Directory
  <2>4. PullTypeOK'
    BY <1>2, <1>6, <2>1 DEF PullInv, PullTypeOK, Goto, Steps
  <2>5. LifeInv(j)'
    BY <1>2, <1>6 DEF PullInv, JobInv, LifeInv
  <2>6. FilesInv(j)'
    BY <1>2, <1>6, <2>2 DEF PullInv, JobInv, FilesInv
  <2>7. WorkerInv(j)'
    BY <1>1, <1>2, <1>6, <2>2, <2>3 DEF WorkerInv, Goto, PullSteps
  <2>8. \A k \in Jobs \ {j} : Untouched(k)
    BY <1>2, <1>6, <2>1 DEF Untouched, Goto
  <2> QED
    BY <2>4, <2>5, <2>6, <2>7, <2>8 DEF Keeps, JobInv
<1> QED
  BY <1>5, <1>6 DEF Adopt

\* Bytes arriving in the partial file; a staged name never gets partial bytes.
LEMMA FetchKeeps == ASSUME PullInv, NEW j \in Jobs, Fetch(j) PROVE Keeps(j)
<1> DEFINE fresh == disk[j].partial = "none"
           d == IF fresh
                THEN [disk[j] EXCEPT !.partial = "pull", !.sidecar = TRUE,
                                     !.dest = Kept(j, "dest", "pull"),
                                     !.elsewhere = Kept(j, "elsewhere", "pull")]
                ELSE [disk[j] EXCEPT !.sidecar = TRUE]
<1>1. worker.pc = "copy" /\ worker.job = j /\ job[j].phase = "Pulling"
  BY AtStep DEF Fetch, Steps, PullSteps
<1>2. /\ disk[j] \in Directory /\ data[j] \in Inodes
      /\ disk \in [Jobs -> Directory] /\ data \in [Jobs -> Inodes]
      /\ published \in [Jobs -> SUBSET Contents]
  BY Typed DEF PullInv, PullTypeOK
<1>3. FilesInv(j)
  BY DEF PullInv, JobInv
<1>4. /\ Kept(j, "dest", "pull") \in Placed /\ Kept(j, "elsewhere", "pull") \in Placed
      /\ Kept(j, "dest", "pull") # "pull" /\ Kept(j, "elsewhere", "pull") # "pull"
      /\ \A e \in {"dest", "elsewhere"} :
            Kept(j, e, "pull") \in {disk[j][e], "media"}
      /\ \A e \in {"dest", "elsewhere"} :
            Kept(j, e, "pull") # disk[j][e] => "media" \in published[j]
      /\ j \notin disturbed =>
            disk[j].dest = "none" /\ Kept(j, "dest", "pull") = "none"
                                 /\ Kept(j, "elsewhere", "pull") = "none"
  BY <1>1, <1>2, <1>3 DEF Kept, FilesInv, Directory, Placed
<1>5. d \in Directory
  BY <1>2, <1>4 DEF Directory
<1>6. /\ d.partial = "pull" /\ d.slot = disk[j].slot /\ d.temp = disk[j].temp
      /\ d.dest = (IF fresh THEN Kept(j, "dest", "pull") ELSE disk[j].dest)
      /\ d.elsewhere = (IF fresh THEN Kept(j, "elsewhere", "pull") ELSE disk[j].elsewhere)
  BY <1>2 DEF Directory
<1>7. disk' = [disk EXCEPT ![j] = d] /\ disk'[j] = d
  BY <1>2 DEF Fetch
<1>8. PICK f \in {[data[j] EXCEPT !.pull = "part"], [data[j] EXCEPT !.pull = "media"]} :
         /\ data' = [data EXCEPT ![j] = f]
         /\ f.pull = "part" => fresh /\ UNCHANGED worker
         /\ f.pull = "media" => Goto(j, "link")
  <2>1. CASE fresh /\ data' = [data EXCEPT ![j].pull = "part"] /\ UNCHANGED worker
    BY <1>2, <2>1 DEF Inodes
  <2>2. CASE data' = [data EXCEPT ![j].pull = "media"] /\ Goto(j, "link")
    BY <1>2, <2>2 DEF Inodes
  <2> QED
    BY <2>1, <2>2 DEF Fetch
<1>9. /\ f \in Inodes /\ f.copy = data[j].copy /\ data'[j] = f
      /\ f.pull \in {"part", "media"}
  BY <1>2, <1>8 DEF Inodes
<1>10. UNCHANGED <<job, proof, late, left, published, disturbed, unremoved>>
  BY DEF Fetch, apiVars, observers
<1> HIDE DEF d
<1>11. FilesInv(j)'
  BY <1>3, <1>1, <1>4, <1>6, <1>7, <1>8, <1>9, <1>10 DEF FilesInv
<1>12. WorkerInv(j)'
  BY <1>1, <1>6, <1>7, <1>8, <1>9, <1>10 DEF WorkerInv, Goto, PullSteps
<1>13. worker' \in {Idle} \cup [pc : Steps, job : {j}]
  BY <1>8, <1>9 DEF Fetch, At, Goto, Steps
<1>14. /\ disk' \in [Jobs -> Directory] /\ data' \in [Jobs -> Inodes]
       /\ \A k \in Jobs \ {j} : disk'[k] = disk[k] /\ data'[k] = data[k]
  BY <1>2, <1>5, <1>7, <1>8, <1>9
<1>15. left' \in [{"crash", "fault", "user", "create"} -> Nat]
  BY <1>10 DEF PullInv, PullTypeOK
<1> QED
  BY <1>2, <1>10, <1>11, <1>12, <1>13, <1>14, <1>15, FileStep

\* A finished download becomes the staged file.
LEMMA LinkStagedKeeps == ASSUME PullInv, NEW j \in Jobs, LinkStaged(j) PROVE Keeps(j)
<1> DEFINE d == [disk[j] EXCEPT !.staged = disk[j].partial]
<1>1. worker.pc = "link" /\ worker.job = j /\ job[j].phase = "Pulling"
  BY AtStep DEF LinkStaged, Steps, PullSteps
<1>2. /\ disk[j] \in Directory /\ disk \in [Jobs -> Directory]
      /\ disk[j].partial = "pull" /\ data[j].pull = "media"
  BY <1>1, Typed DEF PullInv, PullTypeOK, JobInv, WorkerInv
<1>3. /\ d \in Directory /\ d.staged = "pull"
      /\ d.temp = disk[j].temp /\ d.slot = disk[j].slot
      /\ d.dest = disk[j].dest /\ d.elsewhere = disk[j].elsewhere
  BY <1>2 DEF Directory
<1>4. disk' = [disk EXCEPT ![j] = d]
  BY <1>2 DEF LinkStaged
<1> HIDE DEF d
<1>5. UNCHANGED <<job, proof, late, data, left, published, disturbed, unremoved>> /\ Goto(j, "drop")
  BY DEF LinkStaged, apiVars, observers
<1>6. FilesInv(j)'
  BY <1>2, <1>3, <1>4, <1>5 DEF PullInv, JobInv, FilesInv
<1>7. WorkerInv(j)'
  BY <1>1, <1>2, <1>3, <1>4, <1>5 DEF WorkerInv, Goto, PullSteps
<1> QED
  BY <1>2, <1>3, <1>4, <1>5, <1>6, <1>7, FileStep DEF PullInv, PullTypeOK, Goto, Steps

\* The partial name is dropped once the staged one stands.
LEMMA DropPartialKeeps == ASSUME PullInv, NEW j \in Jobs, DropPartial(j) PROVE Keeps(j)
<1> DEFINE d == [disk[j] EXCEPT !.partial = "none"]
<1>1. worker.pc = "drop" /\ worker.job = j /\ job[j].phase = "Pulling"
  BY AtStep DEF DropPartial, Steps, PullSteps
<1>2. /\ disk[j] \in Directory /\ disk \in [Jobs -> Directory]
      /\ disk[j].staged = "pull" /\ data[j].pull = "media"
  BY <1>1, Typed DEF PullInv, PullTypeOK, JobInv, WorkerInv
<1>3. /\ d \in Directory /\ d.staged = "pull"
      /\ d.temp = disk[j].temp /\ d.slot = disk[j].slot
      /\ d.dest = disk[j].dest /\ d.elsewhere = disk[j].elsewhere
  BY <1>2 DEF Directory
<1>4. disk' = [disk EXCEPT ![j] = d]
  BY <1>2 DEF DropPartial
<1> HIDE DEF d
<1>5. UNCHANGED <<job, proof, late, data, left, published, disturbed, unremoved>> /\ Goto(j, "hash")
  BY DEF DropPartial, apiVars, observers
<1>6. FilesInv(j)'
  BY <1>2, <1>3, <1>4, <1>5 DEF PullInv, JobInv, FilesInv
<1>7. WorkerInv(j)'
  BY <1>1, <1>2, <1>3, <1>4, <1>5 DEF WorkerInv, Goto, PullSteps
<1> QED
  BY <1>2, <1>3, <1>4, <1>5, <1>6, <1>7, FileStep DEF PullInv, PullTypeOK, Goto, Steps

\* The digest saved as verified is that of the bytes staged.
LEMMA HashKeeps == ASSUME PullInv, NEW j \in Jobs, Hash(j) PROVE Keeps(j)
<1> DEFINE status == [job[j] EXCEPT !.phase = "Verifying", !.verified = Bytes(j, disk[j].staged)]
           next == [pc |-> "inspect", job |-> j]
<1>1. worker.pc = "hash" /\ worker.job = j /\ job[j].phase = "Pulling"
  BY AtStep DEF Hash, Steps, PullSteps
<1>2. Bytes(j, disk[j].staged) = "media" /\ job[j] \in JobStatus
  BY <1>1, Typed DEF PullInv, JobInv, WorkerInv, Bytes
<1>3. /\ status \in JobStatus
      /\ status.phase = "Verifying" /\ status.verified = "media"
      /\ status.bound = job[j].bound /\ status.started = job[j].started
      /\ status.attempts = job[j].attempts
  BY <1>2 DEF JobStatus, Contents
<1>4. next \in [pc : Steps, job : Jobs]
  BY DEF Steps
<1> HIDE DEF status
<1>5. /\ job' \in [Jobs -> JobStatus]
      /\ left' \in [{"crash", "fault", "user", "create"} -> Nat]
      /\ worker' \in {next, Idle}
      /\ \A k \in Jobs \ {j} : job'[k] = job[k]
      /\ job'[j] \in {job[j], status}
      /\ worker' # Idle => job'[j] = status
  BY <1>3, <1>4, SaveEffect DEF PullInv, Hash, status
<1>6. UNCHANGED <<proof, late, disk, data, published, disturbed, unremoved>>
  BY DEF Hash, diskVars, observers
<1>7. PullTypeOK'
  BY <1>4, <1>5, <1>6 DEF PullInv, PullTypeOK
<1>8. LifeInv(j)'
  BY <1>1, <1>3, <1>5, <1>6 DEF PullInv, JobInv, LifeInv
<1>9. FilesInv(j)'
  BY <1>1, <1>3, <1>5, <1>6 DEF PullInv, JobInv, FilesInv
<1>10. WorkerInv(j)'
  BY <1>3, <1>5 DEF WorkerInv, PullSteps, Idle
<1>11. \A k \in Jobs \ {j} : Untouched(k)
  BY <1>5, <1>6 DEF Untouched, Idle
<1> QED
  BY <1>7, <1>8, <1>9, <1>10, <1>11 DEF Keeps, JobInv

\* The library entry of an undisturbed Job that is being verified is its own.
LEMMA UndisturbedMatches ==
    ASSUME PullInv, NEW j \in Jobs, j \notin disturbed,
           job[j].phase = "Verifying", disk[j].dest # "none"
    PROVE  Matches(j)
  BY DEF PullInv, JobInv, LifeInv, FilesInv, Matches, Bytes

\* Bytes that match were published by the worker.
LEMMA MatchesPublished ==
    ASSUME PullInv, NEW j \in Jobs, job[j].phase = "Verifying", Matches(j)
    PROVE  "media" \in published[j]
<1>1. disk[j] \in Directory /\ job[j].verified = "media"
  BY Typed DEF PullInv, JobInv, LifeInv
<1>2. disk[j].dest \in {"pull", "copy", "media"}
  BY <1>1 DEF Matches, Bytes, Directory, Placed
<1> QED
  BY <1>2 DEF PullInv, JobInv, FilesInv

\* The inspection of the staged file, which changes nothing on disk.
LEMMA InspectKeeps == ASSUME PullInv, NEW j \in Jobs, Inspect(j) PROVE Keeps(j)
<1>1. worker.pc = "inspect" /\ worker.job = j /\ job[j].phase = "Verifying"
  BY AtStep DEF Inspect, Steps, PullSteps
<1>2. UNCHANGED <<proof, late, disk, data, published, disturbed, unremoved>>
  BY DEF Inspect, diskVars, observers
<1>3. CASE Matches(j) /\ Goto(j, "tidy") /\ UNCHANGED <<job, left>>
  <2>1. WorkerInv(j)'
    BY <1>1, <1>2, <1>3, MatchesPublished DEF WorkerInv, Goto, PullSteps
  <2> QED
    BY <1>2, <1>3, <2>1, Advance DEF apiVars, diskVars, observers, Steps, PullInv, PullTypeOK
<1>4. CASE disk[j].dest = "none" /\ Goto(j, "prepare") /\ UNCHANGED <<job, left>>
  <2>1. WorkerInv(j)'
    BY <1>1, <1>2, <1>4 DEF WorkerInv, Goto, PullSteps
  <2> QED
    BY <1>2, <1>4, <2>1, Advance DEF apiVars, diskVars, observers, Steps, PullInv, PullTypeOK
<1>5. CASE /\ disk[j].dest # "none" /\ ~Matches(j)
           /\ Save(j, Phase(j, "Refused"), Idle)
  BY <1>1, <1>2, <1>5, UndisturbedMatches, SaveEndsPass
<1>6. CASE Fault("fault") /\ worker' = Idle /\ UNCHANGED job
  BY <1>2, <1>6, FaultTyped, EndPass DEF PullInv, PullTypeOK
<1> QED
  BY <1>3, <1>4, <1>5, <1>6 DEF Inspect

\* The Job is written Failed at the cost of an error.
LEMMA FailedWrite ==
    ASSUME PullInv, NEW j \in Jobs, Fault("fault"),
           job' = [job EXCEPT ![j] = Phase(j, "Failed")]
    PROVE  /\ job' \in [Jobs -> JobStatus] /\ job'[j] = Phase(j, "Failed")
           /\ \A k \in Jobs \ {j} : job'[k] = job[k]
           /\ left' \in [{"crash", "fault", "user", "create"} -> Nat]
<1>1. Phase(j, "Failed") \in JobStatus
  BY PhaseEffect DEF PullInv, Terminal, Life!Terminal
<1>2. left' \in [{"crash", "fault", "user", "create"} -> Nat]
  BY FaultTyped DEF PullInv
<1> QED
  BY <1>1, <1>2 DEF PullInv, PullTypeOK

\* A removal that fails ends the Job with its temporary, and is remembered.
LEMMA RemovalFails ==
    ASSUME PullInv, NEW j \in Jobs, FailRemoval(j),
           UNCHANGED <<proof, late, data, published, disturbed>>,
           j \notin disturbed => disk[j].dest = "none"
    PROVE  Keeps(j)
<1>1. /\ Fault("fault") /\ job' = [job EXCEPT ![j] = Phase(j, "Failed")]
      /\ worker' = Idle /\ UNCHANGED disk
      /\ unremoved' = unremoved \cup {j}
  BY DEF FailRemoval
<1> QED
  BY <1>1, FailedWrite, EndPass

\* Before an installation: the temporary is removed, every error is terminal.
LEMMA PrepareKeeps == ASSUME PullInv, NEW j \in Jobs, Prepare(j) PROVE Keeps(j)
<1>1. worker.pc = "prepare" /\ worker.job = j /\ job[j].phase = "Verifying"
  BY AtStep DEF Prepare, Steps, PullSteps
<1>2. j \notin disturbed => disk[j].dest = "none"
  BY <1>1 DEF PullInv, JobInv, WorkerInv
<1>3. UNCHANGED <<proof, late, data, published, disturbed>>
  BY DEF Prepare
<1>4. disk[j] \in Directory
  BY Typed DEF PullInv
<1>5. ClearTemporary(j) => disk'[j].temp = "none" /\ disk'[j].dest = disk[j].dest
  BY <1>4, ClearEffect DEF PullInv, Directory
<1>6. CASE /\ ClearTemporary(j) /\ UNCHANGED unremoved
           /\ \E p \in {"Failed", "Refused"} : Save(j, Phase(j, p), Idle)
  BY <1>2, <1>3, <1>5, <1>6, SaveEndsPass
<1>7. CASE /\ ClearTemporary(j) /\ UNCHANGED <<unremoved, job, left>>
           /\ Goto(j, "install")
  <2>1. /\ disk' \in [Jobs -> Directory]
        /\ disk'[j] = [disk[j] EXCEPT !.temp = "none"]
        /\ \A k \in Jobs \ {j} : disk'[k] = disk[k]
    BY <1>7, ClearEffect DEF PullInv
  <2>2. /\ disk'[j].temp = "none" /\ disk'[j].dest = disk[j].dest
        /\ disk'[j].elsewhere = disk[j].elsewhere
    BY <1>4, <2>1 DEF Directory
  <2>3. FilesInv(j)'
    BY <1>3, <1>7, <2>2 DEF PullInv, JobInv, FilesInv
  <2>4. WorkerInv(j)'
    BY <1>1, <1>2, <1>3, <1>7, <2>2 DEF WorkerInv, Goto, PullSteps
  <2> QED
    BY <1>3, <1>7, <2>1, <2>3, <2>4, FileStep DEF PullInv, PullTypeOK, Goto, Steps
<1>8. CASE ~Clearable(j) /\ Save(j, Phase(j, "Failed"), Idle) /\ UNCHANGED <<disk, unremoved>>
  BY <1>2, <1>3, <1>8, UndisturbedClearable, SaveEndsPass
<1>9. CASE FailRemoval(j)
  BY <1>2, <1>3, <1>9, RemovalFails
<1>10. CASE /\ ClearTemporary(j) /\ UNCHANGED unremoved /\ Fault("fault")
            /\ job' = [job EXCEPT ![j] = Phase(j, "Failed")] /\ worker' = Idle
  BY <1>2, <1>3, <1>5, <1>10, FailedWrite, EndPass
<1> QED
  BY <1>6, <1>7, <1>8, <1>9, <1>10 DEF Prepare

\* A publication of verified bytes: the entry appears in the library.
LEMMA PublishKeeps ==
    ASSUME PullInv, NEW j \in Jobs, NEW inode \in {"pull", "copy"},
           NEW pc \in {"unlink", "clear"},
           Publish(j, inode, pc), UNCHANGED <<job, proof, late, data, left, disturbed, unremoved>>,
           job[j].phase = "Verifying", data[j][inode] = "media",
           pc = "unlink" => disk[j].temp = "none"
    PROVE  Keeps(j)
<1> DEFINE d == [disk[j] EXCEPT !.dest = inode]
<1>1. disk[j] \in Directory /\ disk \in [Jobs -> Directory]
  BY Typed DEF PullInv, PullTypeOK
<1>2. /\ d \in Directory /\ d.dest = inode
      /\ d.temp = disk[j].temp /\ d.slot = disk[j].slot /\ d.elsewhere = disk[j].elsewhere
  BY <1>1 DEF Directory, Placed
<1>3. disk' = [disk EXCEPT ![j] = d]
  BY <1>1 DEF Publish
<1> HIDE DEF d
<1>4. /\ published' \in [Jobs -> SUBSET Contents]
      /\ published'[j] = published[j] \cup {"media"}
      /\ \A k \in Jobs \ {j} : published'[k] = published[k]
  <2>1. Bytes(j, inode) = "media" /\ "media" \in Contents
    BY DEF Bytes, Contents
  <2> QED
    BY <2>1 DEF Publish, PullInv, PullTypeOK
<1>5. FilesInv(j)'
  BY <1>1, <1>2, <1>3, <1>4 DEF PullInv, JobInv, FilesInv
<1>6. WorkerInv(j)'
  BY <1>1, <1>2, <1>3, <1>4 DEF WorkerInv, Publish, Goto, PullSteps
<1> QED
  BY <1>1, <1>2, <1>3, <1>4, <1>5, <1>6, FileStep DEF PullInv, PullTypeOK, Publish, Goto, Steps

\* Publication by a hard link: the destination appears only where there was none.
LEMMA InstallKeeps == ASSUME PullInv, NEW j \in Jobs, Install(j) PROVE Keeps(j)
<1>1. /\ worker.pc = "install" /\ worker.job = j /\ job[j].phase = "Verifying"
      /\ job[j].verified = "media" /\ disk[j].temp = "none"
      /\ j \notin disturbed => disk[j].dest = "none"
  BY AtStep DEF Install, Steps, PullSteps, PullInv, JobInv, LifeInv, WorkerInv
<1>2. UNCHANGED <<job, proof, late, data, left, disturbed, unremoved>>
  BY DEF Install, apiVars
<1>3. disk[j] \in Directory /\ disk \in [Jobs -> Directory]
  BY Typed DEF PullInv, PullTypeOK
<1>4. Installable(j) => disk[j].staged = "pull" /\ data[j].pull = "media"
  BY <1>1, <1>3 DEF Installable, Bytes, Directory
<1>5. CASE Goto(j, "recheck") /\ UNCHANGED <<disk, published>>
  <2>1. WorkerInv(j)'
    BY <1>1, <1>2, <1>5 DEF WorkerInv, Goto, PullSteps
  <2> QED
    BY <1>2, <1>5, <2>1, Advance DEF apiVars, diskVars, observers, Steps, PullInv, PullTypeOK
<1>6. CASE Installable(j) /\ Publish(j, disk[j].staged, "unlink")
  BY <1>1, <1>2, <1>4, <1>6, PublishKeeps
<1>7. CASE /\ Installable(j)
           /\ disk' = [disk EXCEPT ![j].slot = IF @ = "none" THEN "torn" ELSE @]
           /\ Goto(j, "slot")
           /\ UNCHANGED published
  <2> DEFINE d == [disk[j] EXCEPT !.slot = IF disk[j].slot = "none" THEN "torn" ELSE disk[j].slot]
  <2>1. /\ d \in Directory /\ d.temp = disk[j].temp
        /\ d.dest = disk[j].dest /\ d.elsewhere = disk[j].elsewhere
    BY <1>3 DEF Directory
  <2>2. disk' = [disk EXCEPT ![j] = d]
    BY <1>3, <1>7
  <2> HIDE DEF d
  <2>3. FilesInv(j)'
    BY <1>1, <1>2, <1>3, <1>7, <2>1, <2>2 DEF PullInv, JobInv, FilesInv
  <2>4. WorkerInv(j)'
    BY <1>1, <1>2, <1>3, <1>4, <1>7, <2>1, <2>2 DEF WorkerInv, Goto, PullSteps
  <2> QED
    BY <1>2, <1>3, <1>7, <2>1, <2>2, <2>3, <2>4, FileStep DEF PullInv, PullTypeOK, Goto, Steps
<1> QED
  BY <1>5, <1>6, <1>7 DEF Install

\* Across filesystems the copy starts in a new temporary.
LEMMA OpenSlotKeeps == ASSUME PullInv, NEW j \in Jobs, OpenSlot(j) PROVE Keeps(j)
<1> DEFINE d == [disk[j] EXCEPT !.slot = "owned", !.temp = "copy",
                                !.dest = Kept(j, "dest", "copy"),
                                !.elsewhere = Kept(j, "elsewhere", "copy")]
           f == [data[j] EXCEPT !.copy = "part"]
<1>1. /\ worker.pc = "slot" /\ worker.job = j /\ job[j].phase = "Verifying"
      /\ data[j].pull = "media"
      /\ j \notin disturbed => disk[j].dest = "none"
  BY AtStep DEF OpenSlot, Steps, PullSteps, PullInv, JobInv, WorkerInv
<1>2. UNCHANGED <<job, proof, late, left, published, disturbed, unremoved>> /\ Goto(j, "fill")
  BY DEF OpenSlot, apiVars, observers
<1>3. /\ disk[j] \in Directory /\ data[j] \in Inodes
      /\ disk \in [Jobs -> Directory] /\ data \in [Jobs -> Inodes]
  BY Typed DEF PullInv, PullTypeOK
<1>4. FilesInv(j)
  BY DEF PullInv, JobInv
<1>5. /\ Kept(j, "dest", "copy") \in Placed /\ Kept(j, "elsewhere", "copy") \in Placed
      /\ Kept(j, "dest", "copy") # "copy" /\ Kept(j, "elsewhere", "copy") # "copy"
      /\ \A e \in {"dest", "elsewhere"} :
            Kept(j, e, "copy") \in {disk[j][e], "media"}
      /\ \A e \in {"dest", "elsewhere"} :
            Kept(j, e, "copy") # disk[j][e] => "media" \in published[j]
      /\ j \notin disturbed =>
            Kept(j, "dest", "copy") = "none" /\ Kept(j, "elsewhere", "copy") = "none"
  BY <1>1, <1>3, <1>4 DEF Kept, FilesInv, Directory, Placed
<1>6. /\ d \in Directory /\ d.slot = "owned" /\ d.temp = "copy"
      /\ d.dest = Kept(j, "dest", "copy") /\ d.elsewhere = Kept(j, "elsewhere", "copy")
      /\ f \in Inodes /\ f.pull = data[j].pull
  BY <1>3, <1>5 DEF Directory, Inodes
<1>7. disk' = [disk EXCEPT ![j] = d] /\ data' = [data EXCEPT ![j] = f]
  BY <1>3 DEF OpenSlot
<1> HIDE DEF d, f
<1>8. FilesInv(j)'
  BY <1>1, <1>2, <1>3, <1>4, <1>5, <1>6, <1>7 DEF FilesInv
<1>9. WorkerInv(j)'
  BY <1>1, <1>2, <1>3, <1>5, <1>6, <1>7 DEF WorkerInv, Goto, PullSteps
<1> QED
  BY <1>2, <1>3, <1>6, <1>7, <1>8, <1>9, FileStep DEF PullInv, PullTypeOK, Goto, Steps

\* The temporary fills; no name of the library is bound to it yet.
LEMMA FillTemporaryKeeps == ASSUME PullInv, NEW j \in Jobs, FillTemporary(j) PROVE Keeps(j)
<1> DEFINE f == [data[j] EXCEPT !.copy = data[j].pull]
<1>1. /\ worker.pc = "fill" /\ worker.job = j /\ job[j].phase = "Verifying"
      /\ data[j].pull = "media" /\ disk[j].temp = "copy" /\ disk[j].slot = "owned"
      /\ disk[j].dest # "copy" /\ disk[j].elsewhere # "copy"
      /\ j \notin disturbed => disk[j].dest = "none"
  BY AtStep DEF FillTemporary, Steps, PullSteps, PullInv, JobInv, WorkerInv
<1>2. UNCHANGED <<job, proof, late, disk, left, published, disturbed, unremoved>> /\ Goto(j, "publish")
  BY DEF FillTemporary, apiVars, observers
<1>3. data[j] \in Inodes /\ data \in [Jobs -> Inodes]
  BY Typed DEF PullInv, PullTypeOK
<1>4. f \in Inodes /\ f.pull = "media" /\ f.copy = "media"
  BY <1>1, <1>3 DEF Inodes
<1>5. data' = [data EXCEPT ![j] = f]
  BY <1>3 DEF FillTemporary
<1> HIDE DEF f
<1>6. FilesInv(j)'
  BY <1>1, <1>2, <1>3, <1>4, <1>5 DEF PullInv, JobInv, FilesInv
<1>7. WorkerInv(j)'
  BY <1>1, <1>2, <1>3, <1>4, <1>5 DEF WorkerInv, Goto, PullSteps
<1> QED
  BY <1>2, <1>3, <1>4, <1>5, <1>6, <1>7, FileStep DEF PullInv, PullTypeOK, Goto, Steps

\* Publication of the filled and verified copy.
LEMMA PublishCopyKeeps == ASSUME PullInv, NEW j \in Jobs, PublishCopy(j) PROVE Keeps(j)
<1>1. /\ worker.pc = "publish" /\ worker.job = j /\ job[j].phase = "Verifying"
      /\ data[j].copy = "media" /\ disk[j].temp = "copy"
  BY AtStep DEF PublishCopy, Steps, PullSteps, PullInv, JobInv, WorkerInv
<1>2. UNCHANGED <<job, proof, late, data, left, disturbed, unremoved>>
  BY DEF PublishCopy, apiVars
<1>3. CASE Publish(j, disk[j].temp, "clear")
  BY <1>1, <1>2, <1>3, PublishKeeps
<1>4. CASE Goto(j, "recheck") /\ UNCHANGED <<disk, published>>
  <2>1. WorkerInv(j)'
    BY <1>1, <1>2, <1>4 DEF WorkerInv, Goto, PullSteps
  <2> QED
    BY <1>2, <1>4, <2>1, Advance DEF apiVars, diskVars, observers, Steps, PullInv, PullTypeOK
<1> QED
  BY <1>3, <1>4 DEF PublishCopy

\* The temporary's name goes after the publication.
LEMMA ClearCopyKeeps == ASSUME PullInv, NEW j \in Jobs, ClearCopy(j) PROVE Keeps(j)
<1>1. /\ worker.pc = "clear" /\ worker.job = j /\ job[j].phase = "Verifying"
      /\ "media" \in published[j]
  BY AtStep DEF ClearCopy, Steps, PullSteps, PullInv, JobInv, WorkerInv
<1>2. UNCHANGED <<job, proof, late, data, left, published, disturbed, unremoved>>
  BY DEF ClearCopy, apiVars, observers
<1>3. CASE ClearTemporary(j) /\ Goto(j, "unlink")
  <2>1. /\ disk' \in [Jobs -> Directory]
        /\ disk'[j] = [disk[j] EXCEPT !.temp = "none"]
        /\ \A k \in Jobs \ {j} : disk'[k] = disk[k]
    BY <1>3, ClearEffect DEF PullInv
  <2>2. disk[j] \in Directory
    BY Typed DEF PullInv
  <2>3. /\ disk'[j].temp = "none" /\ disk'[j].dest = disk[j].dest
        /\ disk'[j].elsewhere = disk[j].elsewhere
    BY <2>1, <2>2 DEF Directory
  <2>4. FilesInv(j)'
    BY <1>2, <2>3 DEF PullInv, JobInv, FilesInv
  <2>5. WorkerInv(j)'
    BY <1>1, <1>2, <1>3, <2>3 DEF WorkerInv, Goto, PullSteps
  <2> QED
    BY <1>2, <1>3, <2>1, <2>4, <2>5, FileStep DEF PullInv, PullTypeOK, Goto, Steps
<1>4. CASE Goto(j, "recheck") /\ UNCHANGED disk
  <2>1. WorkerInv(j)'
    BY <1>1, <1>2, <1>4 DEF WorkerInv, Goto, PullSteps
  <2> QED
    BY <1>2, <1>4, <2>1, Advance DEF apiVars, diskVars, observers, Steps, PullInv, PullTypeOK
<1> QED
  BY <1>3, <1>4 DEF ClearCopy

\* The staged files go after the publication.
LEMMA UnlinkKeeps == ASSUME PullInv, NEW j \in Jobs, Unlink(j) PROVE Keeps(j)
<1> DEFINE d == [disk[j] EXCEPT !.staged = "none", !.sidecar = FALSE]
<1>1. /\ worker.pc = "unlink" /\ worker.job = j /\ job[j].phase = "Verifying"
      /\ "media" \in published[j] /\ disk[j].temp = "none"
  BY AtStep DEF Unlink, Steps, PullSteps, PullInv, JobInv, WorkerInv
<1>2. UNCHANGED <<job, proof, late, data, left, published, disturbed, unremoved>> /\ Goto(j, "record")
  BY DEF Unlink, apiVars, observers
<1>3. disk[j] \in Directory /\ disk \in [Jobs -> Directory]
  BY Typed DEF PullInv, PullTypeOK
<1>4. /\ d \in Directory /\ d.temp = disk[j].temp /\ d.slot = disk[j].slot
      /\ d.dest = disk[j].dest /\ d.elsewhere = disk[j].elsewhere
  BY <1>3 DEF Directory
<1>5. disk' = [disk EXCEPT ![j] = d]
  BY <1>3 DEF Unlink
<1> HIDE DEF d
<1>6. FilesInv(j)'
  BY <1>2, <1>3, <1>4, <1>5 DEF PullInv, JobInv, FilesInv
<1>7. WorkerInv(j)'
  BY <1>1, <1>2, <1>3, <1>4, <1>5 DEF WorkerInv, Goto, PullSteps
<1> QED
  BY <1>2, <1>3, <1>4, <1>5, <1>6, <1>7, FileStep DEF PullInv, PullTypeOK, Goto, Steps

\* An error of the install leaves the Job to be judged by what the disk shows.
LEMMA InstallErrorKeeps == ASSUME PullInv, NEW j \in Jobs, InstallError(j) PROVE Keeps(j)
<1>1. job[j].phase = "Verifying"
  <2>1. PICK pc \in {"install", "slot", "fill", "publish", "clear", "unlink"} : At(j, pc)
    BY DEF InstallError
  <2> QED
    BY <2>1, AtStep DEF Steps, PullSteps
<1>2. WorkerInv(j)'
  BY <1>1 DEF InstallError, WorkerInv, Goto, PullSteps, apiVars
<1>3. left' \in [{"crash", "fault", "user", "create"} -> Nat]
  BY FaultTyped DEF InstallError, PullInv
<1> QED
  BY <1>2, <1>3, Advance DEF InstallError, Steps

\* After an error the destination itself tells whether the install happened.
LEMMA RecheckKeeps == ASSUME PullInv, NEW j \in Jobs, Recheck(j) PROVE Keeps(j)
<1>1. worker.pc = "recheck" /\ worker.job = j /\ job[j].phase = "Verifying"
  BY AtStep DEF Recheck, Steps, PullSteps
<1>2. UNCHANGED <<proof, late, data, published, disturbed>>
  BY DEF Recheck
<1>3. CASE Matches(j) /\ Goto(j, "tidy") /\ UNCHANGED <<job, left, disk, unremoved>>
  <2>1. WorkerInv(j)'
    BY <1>1, <1>2, <1>3, MatchesPublished DEF WorkerInv, Goto, PullSteps
  <2> QED
    BY <1>2, <1>3, <2>1, Advance DEF apiVars, diskVars, observers, Steps, PullInv, PullTypeOK
<1>4. CASE /\ disk[j].dest = "none" /\ ClearTemporary(j)
           /\ Save(j, Phase(j, "Failed"), Idle) /\ UNCHANGED unremoved
  <2>1. disk[j] \in Directory
    BY Typed DEF PullInv
  <2>2. disk'[j].temp = "none"
    BY <1>4, <2>1, ClearEffect DEF PullInv, Directory
  <2> QED
    BY <1>2, <1>4, <2>2, SaveEndsPass
<1>5. CASE /\ disk[j].dest = "none" /\ ~Clearable(j)
           /\ Save(j, Phase(j, "Failed"), Idle) /\ UNCHANGED <<disk, unremoved>>
  BY <1>2, <1>5, UndisturbedClearable, SaveEndsPass
<1>6. CASE /\ disk[j].dest # "none" /\ ~Matches(j)
           /\ Save(j, Phase(j, "Refused"), Idle) /\ UNCHANGED <<disk, unremoved>>
  BY <1>1, <1>2, <1>6, UndisturbedMatches, SaveEndsPass
<1>7. CASE Fault("fault") /\ worker' = Idle /\ UNCHANGED <<job, disk, unremoved>>
  BY <1>2, <1>7, FaultTyped, EndPass DEF PullInv, PullTypeOK
<1>8. CASE disk[j].dest = "none" /\ FailRemoval(j)
  BY <1>2, <1>8, RemovalFails
<1> QED
  BY <1>3, <1>4, <1>5, <1>6, <1>7, <1>8 DEF Recheck

\* The staged files and the temporary go; the library entry stays.
LEMMA TidyKeeps == ASSUME PullInv, NEW j \in Jobs, Tidy(j) PROVE Keeps(j)
<1> DEFINE tidied == [disk[j] EXCEPT !.staged = "none", !.sidecar = FALSE]
           cleared == [tidied EXCEPT !.temp = "none"]
<1>1. /\ worker.pc = "tidy" /\ worker.job = j /\ job[j].phase = "Verifying"
      /\ "media" \in published[j]
  BY AtStep DEF Tidy, Steps, PullSteps, PullInv, JobInv, WorkerInv
<1>2. UNCHANGED <<job, proof, late, data, published, disturbed, unremoved>>
  BY DEF Tidy, apiVars, observers
<1>3. disk[j] \in Directory /\ disk \in [Jobs -> Directory]
  BY Typed DEF PullInv, PullTypeOK
<1>4. /\ tidied \in Directory /\ tidied.temp = disk[j].temp /\ tidied.slot = disk[j].slot
      /\ tidied.dest = disk[j].dest /\ tidied.elsewhere = disk[j].elsewhere
  BY <1>3 DEF Directory
<1>5. /\ cleared \in Directory /\ cleared.temp = "none" /\ cleared.slot = disk[j].slot
      /\ cleared.dest = disk[j].dest /\ cleared.elsewhere = disk[j].elsewhere
  BY <1>3 DEF Directory
<1>6. /\ disk' \in {disk, [disk EXCEPT ![j] = tidied], [disk EXCEPT ![j] = cleared]}
      /\ \/ worker' = Idle
         \/ Goto(j, "record") /\ disk' = [disk EXCEPT ![j] = cleared]
  BY DEF Tidy
<1>7. left' \in [{"crash", "fault", "user", "create"} -> Nat]
  BY FaultTyped DEF Tidy, PullInv, PullTypeOK
<1> HIDE DEF tidied, cleared
<1>8. /\ disk' \in [Jobs -> Directory]
      /\ \A k \in Jobs \ {j} : disk'[k] = disk[k]
      /\ disk'[j].temp \in {"none", disk[j].temp} /\ disk'[j].slot = disk[j].slot
      /\ disk'[j].dest = disk[j].dest /\ disk'[j].elsewhere = disk[j].elsewhere
      /\ worker' # Idle => Goto(j, "record") /\ disk'[j].temp = "none"
  BY <1>3, <1>4, <1>5, <1>6
<1>9. FilesInv(j)'
  BY <1>2, <1>8 DEF PullInv, JobInv, FilesInv
<1>10. WorkerInv(j)'
  BY <1>1, <1>2, <1>8 DEF WorkerInv, Goto, PullSteps, Idle
<1>11. worker' \in {Idle} \cup [pc : Steps, job : {j}]
  BY <1>8 DEF Goto, Steps
<1> QED
  BY <1>2, <1>7, <1>8, <1>9, <1>10, <1>11, FileStep DEF PullInv, PullTypeOK

\* The proof written to the title is of the verified bytes.
LEMMA RecordTitleKeeps == ASSUME PullInv, NEW j \in Jobs, RecordTitle(j) PROVE Keeps(j)
<1> DEFINE new == [b3 |-> job[j].verified, drifted |-> FALSE]
<1>1. /\ worker.pc = "record" /\ worker.job = j /\ job[j].phase = "Verifying"
      /\ "media" \in published[j] /\ disk[j].temp = "none" /\ job[j].verified = "media"
  BY AtStep DEF RecordTitle, Steps, PullSteps, PullInv, JobInv, LifeInv, WorkerInv
<1>2. UNCHANGED <<job, late, disk, data, published, disturbed, unremoved>>
  BY DEF RecordTitle, diskVars, observers
<1>3. left' \in [{"crash", "fault", "user", "create"} -> Nat]
  BY FaultTyped DEF RecordTitle, PullInv, PullTypeOK
<1>4. new \in TitleProof /\ new.b3 = "media" /\ new # Life!NoProof
  BY <1>1, NoDigestAssumption DEF TitleProof, Contents, Life!NoProof
<1>5. /\ proof' = proof \/ proof' = [proof EXCEPT ![j] = new]
      /\ worker' = Idle \/ Goto(j, "finish")
  BY DEF RecordTitle
<1> HIDE DEF new
<1>6. /\ proof' \in [Jobs -> TitleProof] /\ proof'[j] \in {proof[j], new}
      /\ \A k \in Jobs \ {j} : proof'[k] = proof[k]
  BY <1>4, <1>5 DEF PullInv, PullTypeOK
<1>7. PullTypeOK'
  BY <1>2, <1>3, <1>5, <1>6 DEF PullInv, PullTypeOK, Goto, Steps
<1>8. LifeInv(j)'
  BY <1>1, <1>2, <1>4, <1>6 DEF PullInv, JobInv, LifeInv
<1>9. FilesInv(j)'
  BY <1>1, <1>2 DEF PullInv, JobInv, FilesInv
<1>10. WorkerInv(j)'
  BY <1>1, <1>2, <1>5 DEF WorkerInv, Goto, PullSteps, Idle
<1>11. \A k \in Jobs \ {j} : Untouched(k)
  BY <1>2, <1>5, <1>6 DEF Untouched, Goto, Idle
<1> QED
  BY <1>7, <1>8, <1>9, <1>10, <1>11 DEF Keeps, JobInv

\* Installed is saved after the proof.
LEMMA FinishKeeps == ASSUME PullInv, NEW j \in Jobs, Finish(j) PROVE Keeps(j)
<1>1. /\ worker.pc = "finish" /\ worker.job = j /\ job[j].phase = "Verifying"
      /\ disk[j].temp = "none" /\ job[j].verified = "media"
  BY AtStep DEF Finish, Steps, PullSteps, PullInv, JobInv, LifeInv, WorkerInv
<1>2. UNCHANGED <<proof, late, disk, data, published, disturbed, unremoved>>
  BY DEF Finish, diskVars, observers
<1>3. CASE /\ proof[j] = [b3 |-> job[j].verified, drifted |-> FALSE]
           /\ Save(j, Phase(j, "Installed"), Idle)
  <2>1. proof[j] # Life!NoProof
    BY <1>1, <1>3, NoDigestAssumption DEF Contents, Life!NoProof
  <2>2. "Installed" \in {"Pending", "Pulling", "Verifying"} \cup Terminal
    BY DEF Terminal, Life!Terminal
  <2>3. /\ Phase(j, "Installed") \in JobStatus
        /\ Phase(j, "Installed").phase = "Installed"
        /\ Phase(j, "Installed").verified = job[j].verified
    BY <2>2, PhaseEffect DEF PullInv
  <2>4. /\ job' \in [Jobs -> JobStatus]
        /\ left' \in [{"crash", "fault", "user", "create"} -> Nat]
        /\ worker' = Idle
        /\ \A k \in Jobs \ {j} : job'[k] = job[k]
        /\ job'[j] \in {job[j], Phase(j, "Installed")}
    BY <1>3, <2>3, SaveEffect DEF PullInv
  <2>5. PullTypeOK'
    BY <1>2, <2>4 DEF PullInv, PullTypeOK
  <2>6. LifeInv(j)'
    BY <1>2, <2>1, <2>3, <2>4 DEF PullInv, JobInv, LifeInv
  <2>7. FilesInv(j)'
    BY <1>1, <1>2, <2>3, <2>4 DEF PullInv, JobInv, FilesInv
  <2>8. WorkerInv(j)'
    BY <2>4 DEF WorkerInv, Idle
  <2>9. \A k \in Jobs \ {j} : Untouched(k)
    BY <1>2, <2>4 DEF Untouched, Idle
  <2> QED
    BY <2>5, <2>6, <2>7, <2>8, <2>9 DEF Keeps, JobInv
<1>4. CASE worker' = Idle /\ UNCHANGED <<job, left>>
  BY <1>2, <1>4, EndPass DEF PullInv, PullTypeOK
<1> QED
  BY <1>3, <1>4 DEF Finish

-----------------------------------------------------------------------------
(* Everyone else *)

\* No controller touches a Job the worker serves: it is bound and not terminal.
LEMMA ControlKeeps == ASSUME PullInv, NEW j \in Jobs, Control(j) PROVE Keeps(j)
<1>1. UNCHANGED <<proof, disk, data, worker, published, disturbed, unremoved>>
  BY DEF Control, diskVars, observers, Life!Create, Life!Bind, Life!Revoke, Life!Delete
<1>2. job[j] \in JobStatus /\ job \in [Jobs -> JobStatus]
  BY Typed DEF PullInv, PullTypeOK
<1>3. PICK status \in JobStatus :
         /\ job' = [job EXCEPT ![j] = status]
         /\ \/ /\ job[j].phase = "Absent" /\ proof[j] = Life!NoProof
               /\ status.phase = "Pending" /\ status.verified = NoDigest
            \/ /\ job[j].phase = "Pending" /\ ~job[j].bound
               /\ status.phase \in {"Pending", "Refused"}
               /\ status.verified = job[j].verified
            \/ /\ job[j].phase \in Terminal \/ (job[j].phase = "Pending" /\ ~job[j].bound)
               /\ status.phase = "Absent" /\ status.verified = NoDigest
  <2>1. CASE Life!Create(j)
    <3>1. /\ Life!Absent \in JobStatus /\ Life!Absent.verified = NoDigest
      BY PullAssumption DEF JobStatus, Life!Absent
    <3> DEFINE created(absent) == [absent EXCEPT !.phase = "Pending"]
    <3>2. ASSUME NEW absent \in JobStatus, absent.verified = NoDigest
          PROVE  /\ created(absent) \in JobStatus
                 /\ created(absent).phase = "Pending" /\ created(absent).verified = NoDigest
      BY <3>2 DEF JobStatus
    <3>3. job' = [job EXCEPT ![j] = created(Life!Absent)]
      BY <2>1 DEF Life!Create
    <3> HIDE DEF created
    <3>4. /\ created(Life!Absent) \in JobStatus
          /\ created(Life!Absent).phase = "Pending"
          /\ created(Life!Absent).verified = NoDigest
      BY <3>1, <3>2
    <3> QED
      BY <2>1, <3>3, <3>4 DEF Life!Create
  <2>2. CASE Life!Bind(j)
    <3>1. /\ [job[j] EXCEPT !.bound = TRUE] \in JobStatus
          /\ [job[j] EXCEPT !.bound = TRUE].phase = job[j].phase
          /\ [job[j] EXCEPT !.bound = TRUE].verified = job[j].verified
      BY <1>2 DEF JobStatus
    <3>2. job' = [job EXCEPT ![j] = [job[j] EXCEPT !.bound = TRUE]]
      BY <1>2, <2>2 DEF Life!Bind
    <3> QED
      BY <2>2, <3>1, <3>2 DEF Life!Bind
  <2>3. CASE Life!Revoke(j)
    <3>1. /\ [job[j] EXCEPT !.phase = "Refused"] \in JobStatus
          /\ [job[j] EXCEPT !.phase = "Refused"].phase = "Refused"
          /\ [job[j] EXCEPT !.phase = "Refused"].verified = job[j].verified
      BY <1>2 DEF JobStatus, Terminal, Life!Terminal
    <3>2. job' = [job EXCEPT ![j] = [job[j] EXCEPT !.phase = "Refused"]]
      BY <1>2, <2>3 DEF Life!Revoke
    <3> QED
      BY <2>3, <3>1, <3>2 DEF Life!Revoke
  <2>4. CASE Life!Delete(j)
    <3>1. /\ Life!Absent \in JobStatus
          /\ Life!Absent.phase = "Absent" /\ Life!Absent.verified = NoDigest
      BY PullAssumption DEF JobStatus, Life!Absent
    <3> QED
      BY <2>4, <3>1 DEF Life!Delete, Terminal
  <2> QED
    BY <2>1, <2>2, <2>3, <2>4 DEF Control
<1>4. /\ job' \in [Jobs -> JobStatus] /\ job'[j] = status
      /\ \A k \in Jobs \ {j} : job'[k] = job[k]
  BY <1>2, <1>3
<1>5. PullTypeOK'
  <2>1. left' \in [{"crash", "fault", "user", "create"} -> Nat]
    BY FaultTyped DEF Control, PullInv, PullTypeOK
  <2>2. late' \in [Jobs -> BOOLEAN]
    BY DEF Control, PullInv, PullTypeOK
  <2> QED
    BY <1>1, <1>4, <2>1, <2>2 DEF PullInv, PullTypeOK
<1>6. LifeInv(j)'
  BY <1>1, <1>3, <1>4 DEF PullInv, JobInv, LifeInv
<1>7. FilesInv(j)'
  BY <1>1, <1>3, <1>4 DEF PullInv, JobInv, LifeInv, FilesInv, Terminal, Life!Terminal
<1>8. WorkerInv(j)'
  <2>1. job[j].phase = "Verifying" => job[j].bound
    BY DEF PullInv, JobInv, LifeInv
  <2>2. ~(worker.job = j /\ worker.pc # "idle")
    BY <1>3 DEF PullInv, JobInv, WorkerInv, Terminal, Life!Terminal
  <2> QED
    BY <1>1, <2>2 DEF WorkerInv
<1>9. \A k \in Jobs \ {j} : Untouched(k)
  BY <1>1, <1>4 DEF Untouched
<1> QED
  BY <1>5, <1>6, <1>7, <1>8, <1>9 DEF Keeps, JobInv

\* Flagging the drift of a missing file leaves Job and files alone.
LEMMA FlagDriftKeeps == ASSUME PullInv, NEW j \in Jobs, FlagDrift(j) PROVE Keeps(j)
<1>1. UNCHANGED <<job, late, disk, data, worker, left, published, disturbed, unremoved>>
  BY DEF FlagDrift, diskVars, observers, Life!FlagDrift
<1>2. proof[j] \in TitleProof /\ proof \in [Jobs -> TitleProof]
  BY Typed DEF PullInv, PullTypeOK
<1>3. /\ [proof[j] EXCEPT !.drifted = TRUE] \in TitleProof
      /\ [proof[j] EXCEPT !.drifted = TRUE].b3 = proof[j].b3
      /\ [proof[j] EXCEPT !.drifted = TRUE] # Life!NoProof
  BY <1>2 DEF TitleProof, Life!NoProof
<1>4. /\ proof' \in [Jobs -> TitleProof]
      /\ proof'[j].b3 = proof[j].b3 /\ proof'[j] # Life!NoProof
      /\ \A k \in Jobs \ {j} : proof'[k] = proof[k]
  <2>1. proof' = [proof EXCEPT ![j] = [proof[j] EXCEPT !.drifted = TRUE]]
    BY <1>2 DEF FlagDrift, Life!FlagDrift
  <2> QED
    BY <1>2, <1>3, <2>1
<1>5. PullTypeOK'
  BY <1>1, <1>4 DEF PullInv, PullTypeOK
<1>6. LifeInv(j)'
  BY <1>1, <1>4 DEF PullInv, JobInv, LifeInv, FlagDrift, Life!FlagDrift
<1>7. FilesInv(j)' /\ WorkerInv(j)'
  BY <1>1, <1>4 DEF PullInv, JobInv, FilesInv, WorkerInv
<1>8. \A k \in Jobs \ {j} : Untouched(k)
  BY <1>1, <1>4 DEF Untouched
<1> QED
  BY <1>5, <1>6, <1>7, <1>8 DEF Keeps, JobInv

\* The user may replace or remove a library entry, which makes the Job disturbed.
LEMMA UserEditsKeeps == ASSUME PullInv, NEW j \in Jobs, UserEdits(j) PROVE Keeps(j)
<1>1. /\ UNCHANGED <<job, proof, late, data, worker, published, unremoved>>
      /\ disturbed' = disturbed \cup {j}
  BY DEF UserEdits, apiVars
<1>2. disk[j] \in Directory /\ disk \in [Jobs -> Directory]
  BY Typed DEF PullInv, PullTypeOK
<1>3. PICK d \in Directory :
         /\ disk' = [disk EXCEPT ![j] = d]
         /\ d.partial = disk[j].partial /\ d.staged = disk[j].staged
         /\ d.temp = disk[j].temp /\ d.slot = disk[j].slot
         /\ \A e \in {"dest", "elsewhere"} :
               d[e] \in {"none", "twin", "other", disk[j].dest, disk[j].elsewhere}
  <2>3. CASE \E f \in {"none", "twin", "other"} : disk' = [disk EXCEPT ![j].dest = f]
    <3>1. PICK f \in {"none", "twin", "other"} : disk' = [disk EXCEPT ![j].dest = f]
      BY <2>3
    <3> DEFINE d == [disk[j] EXCEPT !.dest = f]
    <3>2. d \in Directory /\ disk' = [disk EXCEPT ![j] = d]
      BY <1>2, <3>1 DEF Directory, Placed
    <3> QED
      BY <1>2, <3>2 DEF Directory
  <2>4. CASE disk' = [disk EXCEPT ![j].dest = "none", ![j].elsewhere = disk[j].dest]
    <3> DEFINE d == [disk[j] EXCEPT !.dest = "none", !.elsewhere = disk[j].dest]
    <3>1. d \in Directory /\ disk' = [disk EXCEPT ![j] = d]
      BY <1>2, <2>4 DEF Directory, Placed
    <3> QED
      BY <1>2, <3>1 DEF Directory
  <2>5. CASE disk' = [disk EXCEPT ![j].dest = disk[j].elsewhere, ![j].elsewhere = "none"]
    <3> DEFINE d == [disk[j] EXCEPT !.dest = disk[j].elsewhere, !.elsewhere = "none"]
    <3>1. d \in Directory /\ disk' = [disk EXCEPT ![j] = d]
      BY <1>2, <2>5 DEF Directory, Placed
    <3> QED
      BY <1>2, <3>1 DEF Directory
  <2> QED
    BY <2>3, <2>4, <2>5 DEF UserEdits
<1>4. /\ disk' \in [Jobs -> Directory] /\ disk'[j] = d
      /\ \A k \in Jobs \ {j} : disk'[k] = disk[k]
  BY <1>2, <1>3
<1>5. PullTypeOK'
  <2>1. left' \in [{"crash", "fault", "user", "create"} -> Nat]
    BY FaultTyped DEF UserEdits, PullInv
  <2> QED
    BY <1>1, <1>4, <2>1 DEF PullInv, PullTypeOK
<1>6. LifeInv(j)'
  BY <1>1 DEF PullInv, JobInv, LifeInv
<1>7. FilesInv(j)'
  BY <1>1, <1>3, <1>4 DEF PullInv, JobInv, FilesInv
<1>8. WorkerInv(j)'
  BY <1>1, <1>3, <1>4 DEF PullInv, JobInv, WorkerInv
<1>9. \A k \in Jobs \ {j} : Untouched(k)
  BY <1>1, <1>4 DEF Untouched
<1> QED
  BY <1>5, <1>6, <1>7, <1>8, <1>9 DEF Keeps, JobInv

\* Stored bytes may decay, which makes the Job disturbed.
LEMMA RotKeeps == ASSUME PullInv, NEW j \in Jobs, Rot(j) PROVE Keeps(j)
<1>1. UNCHANGED <<job, proof, late, disk, worker, published, disturbed, unremoved>>
  BY DEF Rot, apiVars, observers
<1>2. data[j] \in Inodes /\ data \in [Jobs -> Inodes]
  BY Typed DEF PullInv, PullTypeOK
<1>3. /\ data' \in [Jobs -> Inodes] /\ data'[j].copy = data[j].copy
      /\ \A k \in Jobs \ {j} : data'[k] = data[k]
  <2>1. data' = [data EXCEPT ![j] = [data[j] EXCEPT !.pull = "rot"]]
    BY <1>2 DEF Rot
  <2>2. /\ [data[j] EXCEPT !.pull = "rot"] \in Inodes
        /\ [data[j] EXCEPT !.pull = "rot"].copy = data[j].copy
    BY <1>2 DEF Inodes
  <2> QED
    BY <1>2, <2>1, <2>2
<1>4. PullTypeOK'
  <2>1. left' \in [{"crash", "fault", "user", "create"} -> Nat]
    BY FaultTyped DEF Rot, PullInv
  <2> QED
    BY <1>1, <1>3, <2>1 DEF PullInv, PullTypeOK
<1>5. LifeInv(j)'
  BY <1>1 DEF PullInv, JobInv, LifeInv
<1>6. FilesInv(j)'
  BY <1>1, <1>3 DEF Rot, PullInv, JobInv, FilesInv
<1>7. WorkerInv(j)'
  BY <1>1 DEF Rot, WorkerInv
<1>8. \A k \in Jobs \ {j} : Untouched(k)
  BY <1>1, <1>3 DEF Untouched
<1> QED
  BY <1>4, <1>5, <1>6, <1>7, <1>8 DEF Keeps, JobInv

\* A deadline passing changes only whether the Job is late.
LEMMA ExpireKeeps == ASSUME PullInv, NEW j \in Jobs, Expire(j) PROVE Keeps(j)
<1>1. UNCHANGED <<job, proof, disk, data, worker, left, published, disturbed, unremoved>>
  BY DEF Expire, apiVars, diskVars, observers
<1>2. PullTypeOK'
  BY <1>1 DEF Expire, PullInv, PullTypeOK
<1>3. JobInv(j)'
  BY <1>1 DEF PullInv, JobInv, LifeInv, FilesInv, WorkerInv
<1>4. \A k \in Jobs \ {j} : Untouched(k)
  BY <1>1 DEF Untouched
<1> QED
  BY <1>2, <1>3, <1>4 DEF Keeps

-----------------------------------------------------------------------------
(* The invariant *)

\* No Job, no file, an idle worker.
LEMMA PullInit_Inv == PullInit => PullInv
<1> SUFFICES ASSUME PullInit PROVE PullInv
  OBVIOUS
<1>1. Life!Absent \in JobStatus /\ Life!NoProof \in TitleProof
  BY PullAssumption DEF Life!Absent, Life!NoProof, JobStatus, TitleProof
<1>2. PullTypeOK
  <2>1. job \in [Jobs -> JobStatus] /\ proof \in [Jobs -> TitleProof]
    BY <1>1 DEF PullInit, Life!LifeInit
  <2>2. disk \in [Jobs -> Directory] /\ data \in [Jobs -> Inodes]
    BY DEF PullInit, Directory, Inodes, Placed
  <2>3. left \in [{"crash", "fault", "user", "create"} -> Nat]
    BY PullAssumption DEF PullInit
  <2> QED
    BY <2>1, <2>2, <2>3 DEF PullTypeOK, PullInit
<1>3. ASSUME NEW j \in Jobs PROVE JobInv(j)
  <2>1. LifeInv(j)
    BY DEF LifeInv, PullInit, Life!LifeInit, Life!Absent
  <2>2. FilesInv(j)
    BY DEF FilesInv, PullInit
  <2>3. WorkerInv(j)
    BY DEF WorkerInv, PullInit, Idle
  <2> QED
    BY <2>1, <2>2, <2>3 DEF JobInv
<1> QED
  BY <1>2, <1>3 DEF PullInv

\* Every action on behalf of a Job keeps that Job's invariant and leaves the
\* others.
LEMMA JobStepKeeps ==
    ASSUME PullInv, NEW j \in Jobs,
           Work(j) \/ Expire(j) \/ Control(j) \/ FlagDrift(j) \/ UserEdits(j) \/ Rot(j)
    PROVE  Keeps(j)
  BY GiveUpKeeps, StartKeeps, ResumeKeeps, FailAttemptKeeps, CheckKeeps, AdoptKeeps,
     FetchKeeps, LinkStagedKeeps, DropPartialKeeps, HashKeeps, InspectKeeps, PrepareKeeps,
     InstallKeeps, OpenSlotKeeps, FillTemporaryKeeps, PublishCopyKeeps, ClearCopyKeeps,
     UnlinkKeeps, InstallErrorKeeps, RecheckKeeps, TidyKeeps, RecordTitleKeeps, FinishKeeps,
     ExpireKeeps, ControlKeeps, FlagDriftKeeps, UserEditsKeeps, RotKeeps DEF Work

\* The invariant is inductive.
LEMMA PullStep_Inv == PullInv /\ [PullNext]_pullVars => PullInv'
<1> SUFFICES ASSUME PullInv, [PullNext]_pullVars PROVE PullInv'
  OBVIOUS
<1>1. CASE UNCHANGED pullVars
  BY <1>1 DEF pullVars, apiVars, diskVars, observers, PullInv, PullTypeOK,
              JobInv, LifeInv, FilesInv, WorkerInv
<1>2. CASE Crash
  <2>1. UNCHANGED <<job, proof, late, disk, data, published, disturbed, unremoved>> /\ worker' = Idle
    BY <1>2 DEF Crash, apiVars, diskVars, observers
  <2>2. PullTypeOK'
    BY <1>2, <2>1, FaultTyped DEF Crash, PullInv, PullTypeOK
  <2>3. \A k \in Jobs : JobInv(k)'
    BY <2>1, Frame DEF PullInv, Untouched, Idle
  <2> QED
    BY <2>2, <2>3 DEF PullInv
<1>3. CASE \E j \in Jobs : \/ Work(j) \/ Expire(j) \/ Control(j) \/ FlagDrift(j)
                            \/ UserEdits(j) \/ Rot(j)
  <2>1. PICK j \in Jobs : Keeps(j)
    BY <1>3, JobStepKeeps
  <2>2. ASSUME NEW k \in Jobs PROVE JobInv(k)'
    BY <2>1, Frame DEF Keeps, PullInv
  <2> QED
    BY <2>1, <2>2 DEF Keeps, PullInv
<1> QED
  BY <1>1, <1>2, <1>3 DEF PullNext

\* The inductive invariant holds throughout.
LEMMA PullInvHolds == PullSpec => []PullInv
  BY PullInit_Inv, PullStep_Inv, PTL DEF PullSpec

\* Type correctness of the worker, its files and the objects it writes.
THEOREM PullTypeCorrect == PullSpec => []PullTypeOK
<1>1. PullInv => PullTypeOK
  BY DEF PullInv
<1> QED
  BY <1>1, PullInvHolds, PTL

\* Every proof record_title ever writes is of bytes that were published first.
THEOREM ProofsFollowPublication == PullSpec => []ProofFollowsPublication
<1>1. PullInv => ProofFollowsPublication
  BY DEF PullInv, JobInv, LifeInv, ProofFollowsPublication
<1> QED
  BY <1>1, PullInvHolds, PTL

\* A Job that ends Failed or Refused left nothing in the library.
THEOREM FailuresLeaveNothing == PullSpec => []FailureLeavesNothing
<1>1. PullInv => FailureLeavesNothing
  BY DEF PullInv, JobInv, FilesInv, FailureLeavesNothing
<1> QED
  BY <1>1, PullInvHolds, PTL

\* A Job that ended holds no copy space, unless the user touched its library
\* files or the removal of the copy itself failed and ended it.
THEOREM CopySpaceIsReleased == PullSpec => []CopySpaceReleased
<1>1. PullInv => CopySpaceReleased
  BY DEF PullInv, JobInv, FilesInv, CopySpaceReleased, Terminal, Life!Terminal
<1> QED
  BY <1>1, PullInvHolds, PTL

-----------------------------------------------------------------------------
(* Publication: what may happen to the library *)

\* One step seen from the library entry of Job j.
LibraryStep(j) ==
    Library(j)' # Library(j) =>
        \/ left'.user < left.user
        \/ /\ disk[j].dest = "none"
           /\ job[j].phase = "Verifying" /\ ~late[j]
           /\ Library(j)' = job[j].verified

\* Nothing happens to an entry whose name and inode stay as they are.
LEMMA SameEntry ==
    ASSUME NEW j \in Jobs, disk'[j].dest = disk[j].dest, data'[j] = data[j]
    PROVE  LibraryStep(j)
  BY DEF LibraryStep, Library, Bytes

\* The user's own edits are the steps the property leaves to the user.
LEMMA UserStep ==
    ASSUME PullTypeOK, NEW j \in Jobs, Fault("user")
    PROVE  LibraryStep(j)
<1>1. left'.user < left.user
  BY DEF PullTypeOK, Fault
<1> QED
  BY <1>1 DEF LibraryStep

\* A new download does not disturb an entry of an older one.
LEMMA FetchLibrary == ASSUME PullInv, NEW j \in Jobs, Fetch(j) PROVE LibraryStep(j)
<1>1. /\ disk[j] \in Directory /\ disk \in [Jobs -> Directory]
      /\ data[j] \in Inodes /\ data \in [Jobs -> Inodes] /\ FilesInv(j)
  BY Typed DEF PullInv, PullTypeOK, JobInv
<1>2. /\ data'[j].copy = data[j].copy
      /\ data'[j].pull \in {"part", "media"}
      /\ data'[j].pull = "part" => disk[j].partial = "none"
  BY <1>1 DEF Fetch, Inodes
<1>3. disk'[j].dest = IF disk[j].partial = "none" THEN Kept(j, "dest", "pull") ELSE disk[j].dest
  BY <1>1 DEF Fetch, Directory
<1>4. Library(j)' = Library(j)
  BY <1>1, <1>2, <1>3 DEF Library, Bytes, Kept, FilesInv, Directory, Placed
<1> QED
  BY <1>4 DEF LibraryStep

\* A new temporary does not disturb an entry of an older one.
LEMMA OpenSlotLibrary == ASSUME PullInv, NEW j \in Jobs, OpenSlot(j) PROVE LibraryStep(j)
<1>1. /\ disk[j] \in Directory /\ disk \in [Jobs -> Directory]
      /\ data[j] \in Inodes /\ data \in [Jobs -> Inodes] /\ FilesInv(j)
  BY Typed DEF PullInv, PullTypeOK, JobInv
<1>2. data'[j].pull = data[j].pull /\ disk'[j].dest = Kept(j, "dest", "copy")
  BY <1>1 DEF OpenSlot, Inodes, Directory
<1>3. Library(j)' = Library(j)
  BY <1>1, <1>2 DEF Library, Bytes, Kept, FilesInv, Directory, Placed
<1> QED
  BY <1>3 DEF LibraryStep

\* Filling the temporary does not reach the library.
LEMMA FillLibrary == ASSUME PullInv, NEW j \in Jobs, FillTemporary(j) PROVE LibraryStep(j)
<1>1. data[j] \in Inodes /\ data \in [Jobs -> Inodes] /\ disk[j].dest # "copy"
  BY Typed, AtStep DEF FillTemporary, Steps, PullInv, PullTypeOK, JobInv, WorkerInv
<1>2. data'[j].pull = data[j].pull /\ UNCHANGED disk
  BY <1>1 DEF FillTemporary, Inodes
<1>3. Library(j)' = Library(j)
  BY <1>1, <1>2 DEF Library, Bytes
<1> QED
  BY <1>3 DEF LibraryStep

\* Publication binds an absent name to verified bytes.
LEMMA PublishLibrary ==
    ASSUME PullInv, NEW j \in Jobs, NEW inode \in {"pull", "copy"}, NEW pc,
           Publish(j, inode, pc), UNCHANGED data,
           job[j].phase = "Verifying", ~late[j], data[j][inode] = job[j].verified
    PROVE  LibraryStep(j)
<1>1. disk[j] \in Directory /\ disk \in [Jobs -> Directory]
  BY Typed DEF PullInv, PullTypeOK
<1>2. disk[j].dest = "none" /\ disk'[j].dest = inode
  BY <1>1 DEF Publish, Directory
<1>3. Library(j)' = job[j].verified
  BY <1>2 DEF Library, Bytes
<1> QED
  BY <1>2, <1>3 DEF LibraryStep

\* Every step of a pass respects the library entry of its Job.
LEMMA WorkLibrary == ASSUME PullInv, NEW j \in Jobs, Work(j) PROVE LibraryStep(j)
<1>1. disk[j] \in Directory /\ disk \in [Jobs -> Directory] /\ data \in [Jobs -> Inodes]
  BY Typed DEF PullInv, PullTypeOK
<1>2. CASE \/ GiveUp(j) \/ Start(j) \/ Resume(j) \/ FailAttempt(j) \/ Hash(j) \/ Inspect(j)
           \/ InstallError(j) \/ RecordTitle(j) \/ Finish(j)
  <2>1. UNCHANGED <<disk, data>>
    BY <1>2 DEF GiveUp, Start, Resume, FailAttempt, Hash, Inspect, InstallError,
                RecordTitle, Finish, diskVars
  <2> QED
    BY <2>1, SameEntry
<1>3. CASE \/ Check(j) \/ Prepare(j) \/ Recheck(j) \/ ClearCopy(j)
  <2>1. UNCHANGED data /\ (UNCHANGED disk \/ ClearTemporary(j))
    BY <1>3 DEF Check, Prepare, Recheck, FailRemoval, ClearCopy
  <2>2. disk'[j].dest = disk[j].dest
    <3>1. CASE UNCHANGED disk
      BY <3>1
    <3>2. CASE ClearTemporary(j)
      <4>1. disk'[j] = [disk[j] EXCEPT !.temp = "none"]
        BY <3>2, ClearEffect DEF PullInv
      <4> QED
        BY <1>1, <4>1 DEF Directory
    <3> QED
      BY <2>1, <3>1, <3>2
  <2> QED
    BY <2>1, <2>2, SameEntry
<1>4. CASE \/ Adopt(j) \/ LinkStaged(j) \/ DropPartial(j) \/ Unlink(j)
  <2>1. UNCHANGED data /\ disk'[j].dest = disk[j].dest
    BY <1>1, <1>4 DEF Adopt, LinkStaged, DropPartial, Unlink, Directory
  <2> QED
    BY <2>1, SameEntry
<1>5. CASE Tidy(j)
  <2> DEFINE tidied == [disk[j] EXCEPT !.staged = "none", !.sidecar = FALSE]
             cleared == [tidied EXCEPT !.temp = "none"]
  <2>1. UNCHANGED data /\ disk' \in {disk, [disk EXCEPT ![j] = tidied], [disk EXCEPT ![j] = cleared]}
    BY <1>5 DEF Tidy
  <2>2. tidied.dest = disk[j].dest /\ cleared.dest = disk[j].dest
    BY <1>1 DEF Directory
  <2>3. disk'[j].dest = disk[j].dest
    BY <1>1, <2>1, <2>2
  <2> QED
    BY <2>1, <2>3, SameEntry
<1>6. CASE Install(j)
  <2>1. UNCHANGED data
    BY <1>6 DEF Install
  <2>2. CASE Installable(j) /\ Publish(j, disk[j].staged, "unlink")
    <3>1. job[j].phase = "Verifying" /\ job[j].verified = "media"
      BY <1>6, AtStep DEF Install, Steps, PullSteps, PullInv, JobInv, LifeInv
    <3>2. disk[j].staged = "pull" /\ data[j].pull = job[j].verified /\ ~late[j]
      BY <1>1, <2>2, <3>1 DEF Installable, Bytes, Directory
    <3> QED
      BY <2>1, <2>2, <3>1, <3>2, PublishLibrary
  <2>3. CASE ~(Installable(j) /\ Publish(j, disk[j].staged, "unlink"))
    <3>1. disk'[j].dest = disk[j].dest
      BY <1>1, <1>6, <2>3 DEF Install, Directory
    <3> QED
      BY <2>1, <3>1, SameEntry
  <2> QED
    BY <2>2, <2>3
<1>7. CASE PublishCopy(j)
  <2>1. UNCHANGED data
    BY <1>7 DEF PublishCopy
  <2>2. CASE ~late[j] /\ Publish(j, disk[j].temp, "clear")
    <3>1. /\ job[j].phase = "Verifying" /\ job[j].verified = "media"
          /\ disk[j].temp = "copy" /\ data[j].copy = "media"
      BY <1>7, AtStep DEF PublishCopy, Steps, PullSteps, PullInv, JobInv, LifeInv, WorkerInv
    <3> QED
      BY <2>1, <2>2, <3>1, PublishLibrary
  <2>3. CASE UNCHANGED disk
    BY <2>1, <2>3, SameEntry
  <2> QED
    BY <1>7, <2>2, <2>3 DEF PublishCopy
<1> QED
  BY <1>2, <1>3, <1>4, <1>5, <1>6, <1>7, FetchLibrary, OpenSlotLibrary, FillLibrary DEF Work

\* Every step of the system respects every library entry.
LEMMA LibrarySteps ==
    ASSUME PullInv, [PullNext]_pullVars, NEW j \in Jobs
    PROVE  LibraryStep(j)
<1>1. CASE UNCHANGED pullVars \/ Crash
  BY <1>1, SameEntry DEF pullVars, Crash, diskVars
<1>2. ASSUME NEW k \in Jobs,
             Work(k) \/ Expire(k) \/ Control(k) \/ FlagDrift(k) \/ UserEdits(k) \/ Rot(k)
      PROVE  LibraryStep(j)
  <2>1. CASE k # j
    <3>1. Untouched(j)
      BY <1>2, <2>1, JobStepKeeps DEF Keeps
    <3> QED
      BY <3>1, SameEntry DEF Untouched
  <2>2. CASE k = j /\ Work(j)
    BY <2>2, WorkLibrary
  <2>3. CASE k = j /\ (Expire(j) \/ Control(j) \/ FlagDrift(j))
    BY <2>3, SameEntry DEF Expire, Control, FlagDrift, diskVars
  <2>4. CASE k = j /\ (UserEdits(j) \/ Rot(j))
    BY <2>4, UserStep DEF UserEdits, Rot, PullInv
  <2> QED
    BY <1>2, <2>1, <2>2, <2>3, <2>4
<1> QED
  BY <1>1, <1>2 DEF PullNext

\* Only verified bytes of a Job that is in time enter the library, and nothing
\* but the user replaces, removes or changes what is in it.
THEOREM OnlyVerifiedIsPublished == PullSpec => PublishesOnlyVerified
<1>1. PullInv /\ [PullNext]_pullVars => [\A j \in Jobs : LibraryStep(j)]_pullVars
  BY LibrarySteps
<1> QED
  BY <1>1, PullInvHolds, PTL DEF PullSpec, PublishesOnlyVerified, LibraryStep

-----------------------------------------------------------------------------
(* The worker implements the life cycle mediaops-api enforces *)

LifeStep == [Life!LifeNext]_(Life!lifeVars)

\* A step that writes no Job and no title is a stuttering step of the life cycle.
LEMMA LifeStutters == ASSUME UNCHANGED <<job, proof>> PROVE LifeStep
  BY DEF LifeStep, Life!lifeVars

\* A write whose status admission accepts is a step of the life cycle, whether it
\* is committed or lost.
LEMMA SaveAdmitted ==
    ASSUME PullInv, NEW j \in Jobs, NEW status \in JobStatus,
           job[j].phase # "Absent", Life!Admits(job[j], status, proof[j]),
           job' \in {job, [job EXCEPT ![j] = status]}, UNCHANGED proof
    PROVE  LifeStep
<1>1. CASE job' = job
  BY <1>1, LifeStutters
<1>2. CASE job' = [job EXCEPT ![j] = status]
  <2>1. /\ status.phase \in {"Pending", "Pulling", "Verifying"} \cup Life!Terminal
        /\ status.attempts \in 0..MaxAttempts /\ status.started \in BOOLEAN
        /\ status.verified \in Contents \cup {NoDigest}
        /\ status.bound = TRUE
    <3>1. status.phase # "Absent" /\ status.bound
      BY DEF Life!Admits, Life!Transition
    <3> QED
      BY <3>1 DEF JobStatus, Terminal
  <2> DEFINE after(phase, attempts, started, verified) ==
                [phase |-> phase, bound |-> TRUE, attempts |-> attempts,
                 started |-> started, verified |-> verified]
  <2>2. status = after(status.phase, status.attempts, status.started, status.verified)
    BY <2>1 DEF JobStatus
  <2> HIDE DEF after
  <2>3. \E phase \in {"Pending", "Pulling", "Verifying"} \cup Life!Terminal,
           attempts \in 0..MaxAttempts, started \in BOOLEAN,
           verified \in Contents \cup {NoDigest} :
           /\ Life!Admits(job[j], after(phase, attempts, started, verified), proof[j])
           /\ job' = [job EXCEPT ![j] = after(phase, attempts, started, verified)]
    <3>1. /\ Life!Admits(job[j], after(status.phase, status.attempts, status.started,
                                      status.verified), proof[j])
          /\ job' = [job EXCEPT ![j] = after(status.phase, status.attempts, status.started,
                                             status.verified)]
      BY <1>2, <2>2
    <3> USE <2>1
    <3> WITNESS status.phase \in {"Pending", "Pulling", "Verifying"} \cup Life!Terminal,
                status.attempts \in 0..MaxAttempts, status.started \in BOOLEAN,
                status.verified \in Contents \cup {NoDigest}
    <3> QED
      BY <3>1
  <2>4. Life!PatchStatus(j)
    BY <2>3 DEF Life!PatchStatus, after
  <2> QED
    BY <2>4 DEF LifeStep, Life!LifeNext
<1> QED
  BY <1>1, <1>2

\* Every phase the worker writes but a fresh attempt and a fresh digest.
LEMMA PhaseAdmitted ==
    ASSUME PullInv, NEW j \in Jobs, NEW p \in {"Pending", "Failed", "Refused", "Installed"},
           job[j].bound, job[j].phase \in {"Pending", "Pulling", "Verifying"},
           p = "Pending" => job[j].phase # "Verifying",
           p = "Installed" => /\ job[j].phase = "Verifying"
                              /\ proof[j] = [b3 |-> job[j].verified, drifted |-> FALSE]
    PROVE  Phase(j, p) \in JobStatus /\ Life!Admits(job[j], Phase(j, p), proof[j])
<1>1. p \in {"Pending", "Pulling", "Verifying"} \cup Terminal
  BY DEF Terminal, Life!Terminal
<1>2. /\ Phase(j, p) \in JobStatus
      /\ Phase(j, p).phase = p
      /\ Phase(j, p).bound = job[j].bound
      /\ Phase(j, p).started = job[j].started
      /\ Phase(j, p).attempts = job[j].attempts
      /\ Phase(j, p).verified = job[j].verified
  BY <1>1, PhaseEffect DEF PullInv
<1>3. job[j] \in JobStatus /\ LifeInv(j)
  BY Typed DEF PullInv, JobInv
<1>4. job[j].attempts \in 0..MaxAttempts /\ MaxAttempts \in Nat
  BY <1>3, PullAssumption DEF JobStatus
<1>5. job[j].phase \notin Life!Terminal
  BY DEF Life!Terminal
<1>6. Life!Transition(job[j].phase, p)
  BY DEF Life!Transition
<1>7. p = "Installed" => job[j].verified = "media" /\ job[j].started /\ job[j].attempts > 0
  BY <1>3 DEF LifeInv
<1> QED
  BY <1>2, <1>4, <1>5, <1>6, <1>7, NoDigestAssumption DEF Life!Admits, Contents

\* Saving a phase the worker may save is a step of the life cycle.
LEMMA SavedPhase ==
    ASSUME PullInv, NEW j \in Jobs, NEW p \in {"Pending", "Failed", "Refused", "Installed"},
           job[j].bound, job[j].phase \in {"Pending", "Pulling", "Verifying"},
           p = "Pending" => job[j].phase # "Verifying",
           p = "Installed" => /\ job[j].phase = "Verifying"
                              /\ proof[j] = [b3 |-> job[j].verified, drifted |-> FALSE],
           job' \in {job, [job EXCEPT ![j] = Phase(j, p)]}, UNCHANGED proof
    PROVE  LifeStep
  BY PhaseAdmitted, SaveAdmitted

\* save_job commits the status or loses it.
LEMMA SaveWrites ==
    ASSUME NEW j, NEW status, NEW next, Save(j, status, next)
    PROVE  job' \in {job, [job EXCEPT ![j] = status]}
  BY DEF Save

\* Starting an attempt is admitted.
LEMMA StartLife == ASSUME PullInv, NEW j \in Jobs, Start(j) PROVE LifeStep
<1> DEFINE status == [job[j] EXCEPT !.phase = "Pulling", !.attempts = @ + 1, !.started = TRUE]
<1>1. /\ job[j] \in JobStatus /\ job[j].attempts < MaxAttempts /\ MaxAttempts \in Nat
      /\ job[j].phase = "Pending" /\ job[j].bound
  BY Typed, PullAssumption DEF PullInv, Start, Claims, Active
<1>2. /\ job[j].attempts + 1 \in 0..MaxAttempts /\ job[j].attempts + 1 > 0
      /\ job[j].attempts \in Nat
  BY <1>1 DEF JobStatus
<1>3. /\ status \in JobStatus /\ status.phase = "Pulling" /\ status.bound = job[j].bound
      /\ status.started /\ status.attempts = job[j].attempts + 1
      /\ status.verified = job[j].verified
  BY <1>1, <1>2 DEF JobStatus
<1>4. job' \in {job, [job EXCEPT ![j] = status]} /\ UNCHANGED proof
  BY SaveWrites DEF Start
<1> HIDE DEF status
<1>5. Life!Admits(job[j], status, proof[j])
  BY <1>1, <1>2, <1>3 DEF Life!Admits, Life!Transition, Life!Terminal
<1> QED
  BY <1>1, <1>3, <1>4, <1>5, SaveAdmitted

\* Recording the verified digest is admitted.
LEMMA HashLife == ASSUME PullInv, NEW j \in Jobs, Hash(j) PROVE LifeStep
<1> DEFINE status == [job[j] EXCEPT !.phase = "Verifying", !.verified = Bytes(j, disk[j].staged)]
<1>1. worker.pc = "hash" /\ worker.job = j /\ job[j].phase = "Pulling"
  BY AtStep DEF Hash, Steps, PullSteps
<1>2. /\ Bytes(j, disk[j].staged) = "media" /\ job[j] \in JobStatus
      /\ job[j].bound /\ job[j].started /\ job[j].attempts > 0
      /\ job[j].verified \in {NoDigest, "media"}
  BY <1>1, Typed DEF PullInv, JobInv, LifeInv, WorkerInv, Bytes
<1>3. /\ status \in JobStatus /\ status.phase = "Verifying" /\ status.verified = "media"
      /\ status.bound = job[j].bound /\ status.started = job[j].started
      /\ status.attempts = job[j].attempts
  BY <1>2 DEF JobStatus, Contents
<1>4. job' \in {job, [job EXCEPT ![j] = status]} /\ UNCHANGED proof
  BY SaveWrites DEF Hash
<1>5. job[j].attempts \in 0..MaxAttempts /\ MaxAttempts \in Nat
  BY <1>2, PullAssumption DEF JobStatus
<1> HIDE DEF status
<1>6. Life!Admits(job[j], status, proof[j])
  BY <1>1, <1>2, <1>3, <1>5, NoDigestAssumption
     DEF Life!Admits, Life!Transition, Life!Terminal, Contents
<1> QED
  BY <1>1, <1>3, <1>4, <1>6, SaveAdmitted

\* The steps of a pass at which the Job is bound, and the phase it has there.
LEMMA AtBound ==
    ASSUME PullInv, NEW j \in Jobs, NEW pc \in Steps, At(j, pc)
    PROVE  job[j].bound /\ job[j].phase = IF pc \in PullSteps THEN "Pulling" ELSE "Verifying"
  BY AtStep DEF PullInv, JobInv, LifeInv

\* Every write of a pass is admitted.
LEMMA WorkLife == ASSUME PullInv, NEW j \in Jobs, Work(j) PROVE LifeStep
<1> USE SaveWrites
<1>1. CASE \/ Resume(j) \/ Fetch(j) \/ LinkStaged(j) \/ DropPartial(j) \/ Install(j)
           \/ OpenSlot(j) \/ FillTemporary(j) \/ PublishCopy(j) \/ ClearCopy(j)
           \/ Unlink(j) \/ InstallError(j) \/ Tidy(j)
  <2>1. UNCHANGED <<job, proof>>
    BY <1>1 DEF Resume, Fetch, LinkStaged, DropPartial, Install, OpenSlot, FillTemporary,
                PublishCopy, ClearCopy, Unlink, InstallError, Tidy, apiVars
  <2> QED
    BY <2>1, LifeStutters
<1>2. CASE GiveUp(j)
  <2>1. job[j].bound /\ job' \in {job, [job EXCEPT ![j] = Phase(j, "Failed")]}
    BY <1>2 DEF GiveUp, Claims, Active
  <2> QED
    BY <1>2, <2>1, SavedPhase DEF GiveUp
<1>3. CASE FailAttempt(j) \/ Check(j) \/ Adopt(j)
  <2>1. PICK pc \in PullSteps : At(j, pc)
    BY <1>3 DEF FailAttempt, Check, Adopt, PullSteps
  <2>2. job[j].bound /\ job[j].phase = "Pulling"
    BY <2>1, AtBound DEF Steps, PullSteps
  <2>3. PICK p \in {"Pending", "Failed", "Refused"} : AfterFailure(j) = Phase(j, p)
    BY FailurePhase
  <2>4. /\ UNCHANGED proof
        /\ job' \in {job, [job EXCEPT ![j] = Phase(j, p)], [job EXCEPT ![j] = Phase(j, "Refused")]}
    BY <1>3, <2>3 DEF FailAttempt, Check, Adopt
  <2> QED
    BY <2>2, <2>4, SavedPhase
<1>4. CASE Inspect(j) \/ Recheck(j) \/ Prepare(j)
  <2>1. PICK pc \in {"inspect", "recheck", "prepare"} : At(j, pc)
    BY <1>4 DEF Inspect, Recheck, Prepare, FailRemoval
  <2>2. job[j].bound /\ job[j].phase = "Verifying"
    BY <2>1, AtBound DEF Steps, PullSteps
  <2>3. UNCHANGED proof
    BY <1>4 DEF Inspect, Recheck, Prepare, FailRemoval
  <2>4. [job EXCEPT ![j].phase = "Failed"] = [job EXCEPT ![j] = Phase(j, "Failed")]
    BY DEF Phase, PullInv, PullTypeOK
  <2>5. job' \in {job, [job EXCEPT ![j] = Phase(j, "Failed")], [job EXCEPT ![j] = Phase(j, "Refused")]}
    BY <1>4 DEF Inspect, Recheck, Prepare, FailRemoval
  <2> QED
    BY <2>2, <2>3, <2>5, SavedPhase
<1>5. CASE RecordTitle(j)
  <2>1. job[j].bound /\ job[j].phase = "Verifying"
    BY <1>5, AtBound DEF RecordTitle, Steps, PullSteps
  <2>2. UNCHANGED <<job, proof>> \/ Life!RecordProof(j)
    BY <1>5, <2>1 DEF RecordTitle, Life!RecordProof
  <2> QED
    BY <2>2, LifeStutters DEF LifeStep, Life!LifeNext
<1>6. CASE Finish(j)
  <2>1. job[j].bound /\ job[j].phase = "Verifying"
    BY <1>6, AtBound DEF Finish, Steps, PullSteps
  <2>2. CASE /\ proof[j] = [b3 |-> job[j].verified, drifted |-> FALSE]
             /\ Save(j, Phase(j, "Installed"), Idle)
    <3>1. job' \in {job, [job EXCEPT ![j] = Phase(j, "Installed")]} /\ UNCHANGED proof
      BY <1>6, <2>2 DEF Finish
    <3> QED
      BY <2>1, <2>2, <3>1, SavedPhase
  <2>3. CASE UNCHANGED job
    BY <1>6, <2>3, LifeStutters DEF Finish
  <2> QED
    BY <1>6, <2>2, <2>3 DEF Finish
<1> QED
  BY <1>1, <1>2, <1>3, <1>4, <1>5, <1>6, StartLife, HashLife DEF Work

\* Every step of the system is one of the life cycle or stutters.
LEMMA LifeSteps == PullInv /\ [PullNext]_pullVars => LifeStep
<1> SUFFICES ASSUME PullInv, [PullNext]_pullVars PROVE LifeStep
  OBVIOUS
<1>1. CASE UNCHANGED pullVars \/ Crash
  BY <1>1, LifeStutters DEF pullVars, Crash, apiVars
<1>2. ASSUME NEW j \in Jobs, Work(j) PROVE LifeStep
  BY <1>2, WorkLife
<1>3. ASSUME NEW j \in Jobs, Expire(j) \/ UserEdits(j) \/ Rot(j) PROVE LifeStep
  BY <1>3, LifeStutters DEF Expire, UserEdits, Rot, apiVars
<1>4. ASSUME NEW j \in Jobs, Control(j) \/ FlagDrift(j) PROVE LifeStep
  BY <1>4 DEF Control, FlagDrift, LifeStep, Life!LifeNext
<1> QED
  BY <1>1, <1>2, <1>3, <1>4 DEF PullNext

\* Every behaviour of the worker, its crashes, the controllers and the user is one
\* the Job life cycle of mediaops-api allows.
THEOREM WorkerImplementsLifecycle == PullSpec => ImplementsLifecycle
<1>1. PullInit => Life!LifeInit
  BY DEF PullInit
<1> QED
  BY <1>1, LifeSteps, PullInvHolds, PTL
     DEF PullSpec, ImplementsLifecycle, Life!LifeSpec, LifeStep

=============================================================================
