---------------------------- MODULE JobLifecycle ----------------------------
(***************************************************************************)
(* What mediaops-api promises about a pull Job and its Title proof,        *)
(* whoever asks: controllers create and refuse Jobs, the scheduler binds   *)
(* them, the bound worker moves them through their phases, and admission   *)
(* (crates/api/src/admission.rs) denies everything else.  PullWorker is    *)
(* shown to implement this specification.                                  *)
(***************************************************************************)
EXTENDS Integers

CONSTANTS Jobs, MaxAttempts, Digests, NoDigest

VARIABLES
    job,    \* each Job's phase, binding, attempts, start and verified digest
    proof   \* the Title's proof of the Job's destination: digest and drift

lifeVars == <<job, proof>>

Terminal == {"Installed", "Failed", "Refused"}
NoProof == [b3 |-> NoDigest, drifted |-> FALSE]
Absent == [phase |-> "Absent", bound |-> FALSE, attempts |-> 0,
           started |-> FALSE, verified |-> NoDigest]

LifeInit ==
    /\ job = [j \in Jobs |-> Absent]
    /\ proof = [j \in Jobs |-> NoProof]

\* create_pull_job: a placement with a recorded proof is never pulled again.
Create(j) ==
    /\ job[j].phase = "Absent"
    /\ proof[j] = NoProof
    /\ job' = [job EXCEPT ![j] = [Absent EXCEPT !.phase = "Pending"]]
    /\ UNCHANGED proof

\* Patch of the bind subresource.
Bind(j) ==
    /\ job[j].phase = "Pending" /\ ~job[j].bound
    /\ proof[j] = NoProof
    /\ job' = [job EXCEPT ![j].bound = TRUE]
    /\ UNCHANGED proof

\* refuse_revoked_jobs.
Revoke(j) ==
    /\ job[j].phase = "Pending" /\ ~job[j].bound
    /\ job' = [job EXCEPT ![j].phase = "Refused"]
    /\ UNCHANGED proof

\* validate_delete: a bound active Job cannot be deleted.
Delete(j) ==
    /\ \/ job[j].phase \in Terminal
       \/ job[j].phase = "Pending" /\ ~job[j].bound
    /\ job' = [job EXCEPT ![j] = Absent]
    /\ UNCHANGED proof

\* The phase changes validate_patch accepts from the bound worker.
Transition(from, to) ==
    \/ from = to
    \/ from = "Pending" /\ to \in {"Pulling", "Refused", "Failed"}
    \/ from = "Pulling" /\ to \in {"Pending", "Verifying", "Failed", "Refused"}
    \/ from = "Verifying" /\ to \in {"Installed", "Failed", "Refused"}

\* validate_patch of a Job status.
Admits(before, after, title) ==
    /\ before.bound /\ after.bound
    /\ before.phase \notin Terminal
    /\ after.attempts \in before.attempts .. before.attempts + 1
    /\ after.attempts <= MaxAttempts
    /\ before.started => after.started
    /\ before.verified # NoDigest => after.verified = before.verified
    /\ Transition(before.phase, after.phase)
    /\ after.phase \in {"Pulling", "Verifying", "Installed"} =>
          after.started /\ after.attempts > 0
    /\ after.phase \in {"Verifying", "Installed"} => after.verified # NoDigest
    /\ after.phase = "Installed" => title = [b3 |-> after.verified, drifted |-> FALSE]

PatchStatus(j) ==
    /\ \E phase \in {"Pending", "Pulling", "Verifying"} \cup Terminal,
          attempts \in 0..MaxAttempts, started \in BOOLEAN,
          verified \in Digests \cup {NoDigest} :
          LET after == [phase |-> phase, bound |-> TRUE, attempts |-> attempts,
                        started |-> started, verified |-> verified]
          IN  /\ Admits(job[j], after, proof[j])
              /\ job' = [job EXCEPT ![j] = after]
    /\ UNCHANGED proof

\* verify_title: a proof is added by the Job that verified it, and then kept.
RecordProof(j) ==
    /\ job[j].bound /\ job[j].phase = "Verifying"
    /\ proof[j] = NoProof
    /\ proof' = [proof EXCEPT ![j] = [b3 |-> job[j].verified, drifted |-> FALSE]]
    /\ UNCHANGED job

\* flag_drift: the flag is sticky.
FlagDrift(j) ==
    /\ proof[j] # NoProof
    /\ proof' = [proof EXCEPT ![j].drifted = TRUE]
    /\ UNCHANGED job

LifeNext ==
    \E j \in Jobs :
        \/ Create(j) \/ Bind(j) \/ Revoke(j) \/ Delete(j)
        \/ PatchStatus(j) \/ RecordProof(j) \/ FlagDrift(j)

LifeSpec == LifeInit /\ [][LifeNext]_lifeVars

=============================================================================
