----------------------------- MODULE JobControl -----------------------------
(***************************************************************************)
(* The control plane of Home: who may have a file pulled.                  *)
(*                                                                         *)
(* Inventory publishes what the seedbox holds: RemoteFile rows and Holds   *)
(* first, then the Node's list generation, which commits them              *)
(* (bins/mediaops-inventory/src/main.rs).  The controllers of mediaops-api *)
(* turn Wants and approved Holds into Jobs from a snapshot that ages while *)
(* they work (crates/api/src/controllers.rs).  The scheduler binds them,   *)
(* the operator edits Wants, Holds, Jobs and the Cluster, and maintenance  *)
(* commands pause all of it through Cluster.spec.lock                      *)
(* (bins/mediaops/src/home_library.rs).  Admission judges every write      *)
(* under the API's mutation lock (crates/api/src/admission.rs), so a       *)
(* request is one step; a controller pass is many.                         *)
(*                                                                         *)
(* A file stands for its RemoteFile, its placement, the Hold that names    *)
(* it and the Job named after it.  How the worker copies is PullWorker's   *)
(* matter: here a bound Job records a proof, ends, or fails.               *)
(***************************************************************************)
EXTENDS Integers, FiniteSets, FiniteSetsExt, TLC

CONSTANTS
    Files, Titles,
    TitleOf,      \* the Title a file's placement belongs to
    Size,         \* length of a file
    Roots,        \* library roots
    Caps,         \* values of max_copy; 0 means no cap
    Held,         \* files whose release the seedbox may report as a Hold
    MaxScans, MaxEdits, MaxClusterEdits, MaxMaintenance, MaxLapses, MaxCrashes

ASSUME ControlAssumption ==
    /\ IsFiniteSet(Files) /\ Held \subseteq Files
    /\ TitleOf \in [Files -> Titles]
    /\ Size \in [Files -> Nat \ {0}]
    /\ Roots # {} /\ Caps # {} /\ Caps \subseteq Nat
    /\ {MaxScans, MaxEdits, MaxClusterEdits, MaxMaintenance, MaxLapses, MaxCrashes}
         \subseteq Nat

VARIABLES
    cluster,    \* spec of the Cluster, and whether the controllers accepted it
    want,       \* phase of each Title's Want, or "none"
    hold,       \* the Hold on each file
    row,        \* list generation of each RemoteFile, or 0 if it is absent
    node,       \* the inventory Node: committed generation and readiness
    proof,      \* the Title's proof of each placement
    disk,       \* files present at their placement in the library
    job,        \* the Job of each placement
    scan,       \* what inventory still has to publish
    pass,       \* where the controllers' pass is
    snap,       \* what the pass read
    stale,      \* objects written since: their resourceVersion has moved
    plan,       \* what the pass still has to do
    maint,      \* the running maintenance command
    left,       \* what remains of the bounds
    committed,  \* observer: the files and Holds of the committed scan
    installer   \* observer: who recorded each proof

spaceVars == <<cluster, want, hold, row, node, proof, disk, job>>
passVars == <<pass, snap, stale, plan>>
controlVars == <<spaceVars, scan, passVars, maint, left, committed, installer>>

Terminal == {"Installed", "Failed", "Refused"}
NoHold == [decision |-> "none", gen |-> 0, placed |-> FALSE]
NoJob == [phase |-> "none", bound |-> FALSE, auth |-> "none", root |-> "none", cap |-> 0]
NoSpec == [root |-> "none", lock |-> TRUE, cap |-> 0]
NoNode == [gen |-> 0, state |-> "down"]
NoSnap == [spec |-> NoSpec, accepted |-> FALSE, want |-> [t \in Titles |-> "none"],
           hold |-> [f \in Files |-> NoHold], row |-> [f \in Files |-> 0], node |-> NoNode,
           proof |-> [f \in Files |-> "none"], drift |-> {}]
NoPlan == [spec |-> NoSpec, wants |-> {}, phases |-> [t \in Titles |-> "keep"],
           holds |-> {}, close |-> FALSE]
NoMaintenance == [pc |-> "idle", was |-> FALSE, clean |-> FALSE]
IdleScan == [pc |-> "idle", gen |-> 0, rows |-> {}, gone |-> {}, holds |-> {},
             files |-> {}, held |-> {}]

FilesOf(t) == {f \in Files : TitleOf[f] = t}
Active(j) == j.bound /\ j.phase \notin Terminal
Bound == {f \in Files : Active(job[f])}
Ready(n) == n.state = "ready" /\ n.gen > 0
Queued(f) == job[f].phase = "Pending" /\ ~job[f].bound
ClusterSpec == [root |-> cluster.root, lock |-> cluster.lock, cap |-> cluster.cap]

ControlInit ==
    /\ \E r \in Roots, c \in Caps :
          cluster = [root |-> r, lock |-> FALSE, cap |-> c, accepted |-> FALSE]
    /\ want = [t \in Titles |-> "none"]
    /\ hold = [f \in Files |-> NoHold]
    /\ row = [f \in Files |-> 0]
    /\ node = NoNode
    /\ proof = [f \in Files |-> "none"]
    /\ disk = {}
    /\ job = [f \in Files |-> NoJob]
    /\ scan = IdleScan
    /\ pass = "idle" /\ snap = NoSnap /\ stale = {} /\ plan = NoPlan
    /\ maint = NoMaintenance
    /\ left = [scans |-> MaxScans, edits |-> MaxEdits, cluster |-> MaxClusterEdits,
               maint |-> MaxMaintenance, lapses |-> MaxLapses, crashes |-> MaxCrashes]
    /\ committed = [files |-> {}, holds |-> {}]
    /\ installer = [f \in Files |-> "none"]

Spend(b) == left[b] > 0 /\ left' = [left EXCEPT ![b] = @ - 1]

\* A write moves the resourceVersion of its object under a running pass.
Touch(objects) == stale' = IF pass \in {"drift", "act"} THEN stale \cup objects ELSE stale

-----------------------------------------------------------------------------
(* Authority *)

Live(h, gen) == h.decision # "none" /\ gen > 0 /\ h.gen = gen

\* held_remote: a live Hold, whatever its decision, names this file, or names
\* the Title without a file.
HeldRemote(f, holds, gen) ==
    \E g \in Files :
        /\ Live(holds[g], gen)
        /\ IF holds[g].placed THEN g = f ELSE TitleOf[g] = TitleOf[f]

\* Mutant: the Titles are not consulted.
AuthorizedIgnoringProof(f, auth) ==
    /\ Ready(node)
    /\ row[f] = node.gen
    /\ IF auth = "want"
         THEN want[TitleOf[f]] # "none" /\ ~HeldRemote(f, hold, node.gen)
         ELSE Live(hold[f], node.gen) /\ hold[f].decision = "Approved" /\ hold[f].placed

\* authorization_refusal returns None.
Authorized(f, auth) ==
    /\ Ready(node)
    /\ row[f] = node.gen
    /\ IF auth = "want"
         THEN want[TitleOf[f]] # "none" /\ ~HeldRemote(f, hold, node.gen)
         ELSE Live(hold[f], node.gen) /\ hold[f].decision = "Approved" /\ hold[f].placed
    /\ proof[f] = "none"

\* A queued Job whose Want or approval is gone.
Revoked(f, w, h) ==
    /\ Queued(f)
    /\ IF job[f].auth = "want" THEN w[TitleOf[f]] = "none"
                               ELSE h[f].decision # "Approved"

\* refuse_revoked_jobs, given the Wants and Holds just written.
RefuseRevoked(w, h) ==
    job' = [f \in Files |-> IF Revoked(f, w, h) THEN [job[f] EXCEPT !.phase = "Refused"]
                                                ELSE job[f]]

\* The API dies: the write before it is durable, the rest of the handler and
\* the controllers' pass are lost.
ApiDies == pass' = "idle" /\ snap' = NoSnap /\ stale' = {} /\ plan' = NoPlan

\* The request handlers of Wants and Holds end with refuse_revoked_jobs, in the
\* same lock section but not in the same transaction.
RevokeHandler(object, w, h) ==
    \/ RefuseRevoked(w, h) /\ Touch({object}) /\ Spend("edits") /\ UNCHANGED <<pass, snap, plan>>
    \/ /\ left.edits > 0 /\ left.crashes > 0
       /\ left' = [left EXCEPT !.edits = @ - 1, !.crashes = @ - 1]
       /\ ApiDies
       /\ UNCHANGED job

-----------------------------------------------------------------------------
(* The operator *)

\* Apply of a Want.
CreateWant(t) ==
    /\ want[t] = "none"
    /\ want' = [want EXCEPT ![t] = "Open"]
    /\ Touch({<<"want", t>>}) /\ Spend("edits")
    /\ UNCHANGED <<cluster, hold, row, node, proof, disk, job, scan, pass, snap, plan,
                   maint, committed, installer>>

\* Mutant: the Want is kept, marked Dropped.
DeleteWantMarksDropped(t) ==
    /\ want[t] # "none"
    /\ want' = [want EXCEPT ![t] = "Dropped"]
    /\ RevokeHandler(<<"want", t>>, want', hold)
    /\ UNCHANGED <<cluster, hold, row, node, proof, disk, scan, maint, committed, installer>>

\* Delete of a Want.  Nothing protects a Job that is already bound.
DeleteWant(t) ==
    /\ want[t] # "none"
    /\ want' = [want EXCEPT ![t] = "none"]
    /\ RevokeHandler(<<"want", t>>, want', hold)
    /\ UNCHANGED <<cluster, hold, row, node, proof, disk, scan, maint, committed, installer>>

\* Patch of a Hold's spec to Approved.
ApproveHold(f) ==
    /\ hold[f].decision \in {"Empty", "Rejected"}
    /\ hold[f].placed
    /\ Ready(node) /\ Live(hold[f], node.gen)
    /\ hold' = [hold EXCEPT ![f].decision = "Approved"]
    /\ RevokeHandler(<<"hold", f>>, want, hold')
    /\ UNCHANGED <<cluster, want, row, node, proof, disk, scan, maint, committed, installer>>

\* Mutant: only the queue is looked at.
QueuedUnderHold(f) == job[f].auth = "hold" /\ Queued(f)

\* refuse_active_hold_change.
ActiveUnderHold(f) == job[f].auth = "hold" /\ Active(job[f])

\* Patch of a Hold's spec to another decision.
RevokeHold(f) ==
    \E d \in {"Empty", "Rejected"} :
        /\ hold[f].decision \notin {"none", d}
        /\ hold[f].decision = "Approved" => ~ActiveUnderHold(f)
        /\ hold' = [hold EXCEPT ![f].decision = d]
        /\ RevokeHandler(<<"hold", f>>, want, hold')
        /\ UNCHANGED <<cluster, want, row, node, proof, disk, scan, maint, committed, installer>>

\* Delete of a Hold.
DeleteHold(f) ==
    /\ hold[f].decision # "none"
    /\ ~ActiveUnderHold(f)
    /\ hold' = [hold EXCEPT ![f] = NoHold]
    /\ RevokeHandler(<<"hold", f>>, want, hold')
    /\ UNCHANGED <<cluster, want, row, node, proof, disk, scan, maint, committed, installer>>

\* Delete of a Job.
DeleteJob(f) ==
    /\ job[f] # NoJob /\ ~Active(job[f])
    /\ job' = [job EXCEPT ![f] = NoJob]
    /\ Spend("edits")
    /\ UNCHANGED <<cluster, want, hold, row, node, proof, disk, scan, passVars, maint,
                   committed, installer>>

\* validate_root_change.
RootChangeAllowed(r) ==
    r # cluster.root =>
        \A f \in Files : job[f].phase \in Terminal \cup {"none"} \/ job[f].root = r

\* Apply or patch of the Cluster spec.  The operator leaves the lock alone
\* while a maintenance command runs, as the command's messages ask.
EditCluster ==
    \E r \in Roots, l \in BOOLEAN, c \in Caps :
        /\ maint.pc # "idle" => l = cluster.lock
        /\ [root |-> r, lock |-> l, cap |-> c] # ClusterSpec
        /\ RootChangeAllowed(r)
        /\ cluster' = [root |-> r, lock |-> l, cap |-> c, accepted |-> FALSE]
        /\ maint' = [maint EXCEPT !.clean = FALSE]
        /\ Touch({<<"cluster">>}) /\ Spend("cluster")
        /\ UNCHANGED <<want, hold, row, node, proof, disk, job, scan, pass, snap, plan,
                       committed, installer>>

\* A library file disappears from its placement, or is put back.
MoveFile(f) ==
    /\ proof[f] # "none"
    /\ disk' = IF f \in disk THEN disk \ {f} ELSE disk \cup {f}
    /\ Spend("edits")
    /\ UNCHANGED <<cluster, want, hold, row, node, proof, job, scan, passVars, maint,
                   committed, installer>>

-----------------------------------------------------------------------------
(* Inventory *)

\* Generations that rows, Holds and the Node carry.
Generations == {node.gen} \cup {row[f] : f \in Files} \cup {hold[f].gen : f \in Files}

\* Mutant: only the committed generation is counted from.
ListGenerationFromNode == {node.gen + 1}

\* The next generation: above every one in use, also those an abandoned scan
\* left behind.
ListGeneration == {g + 1 : g \in {m \in Generations : \A n \in Generations : n <= m}}

\* publish_inventory up to its first write.
BeginPublish ==
    /\ scan.pc = "idle"
    /\ \E files \in SUBSET Files, held \in SUBSET Held, gen \in ListGeneration :
          scan' = [pc |-> "rows", gen |-> gen, rows |-> files,
                   gone |-> {f \in Files : row[f] # 0} \ files, holds |-> held,
                   files |-> files, held |-> held]
    /\ Spend("scans")
    /\ UNCHANGED <<spaceVars, passVars, maint, committed, installer>>

\* Apply of a listed RemoteFile; then deletion of those no longer listed.
PublishRow(f) ==
    /\ scan.pc = "rows"
    /\ \/ /\ f \in scan.rows
          /\ row' = [row EXCEPT ![f] = scan.gen]
          /\ scan' = [scan EXCEPT !.rows = @ \ {f}]
       \/ /\ scan.rows = {} /\ f \in scan.gone
          /\ row' = [row EXCEPT ![f] = 0]
          /\ scan' = [scan EXCEPT !.gone = @ \ {f}]
    /\ Touch({<<"row", f>>})
    /\ UNCHANGED <<cluster, want, hold, node, proof, disk, job, pass, snap, plan, maint,
                   left, committed, installer>>

\* A reported Hold is created undecided, or its status is patched, which like
\* every patch of a Hold ends with refuse_revoked_jobs.
PublishHold(f) ==
    /\ scan.pc = "rows" /\ scan.rows = {} /\ scan.gone = {}
    /\ f \in scan.holds
    /\ \E placed \in BOOLEAN :
          hold' = [hold EXCEPT ![f] =
                      [decision |-> IF @.decision = "none" THEN "Empty" ELSE @.decision,
                       gen |-> scan.gen, placed |-> placed]]
    /\ IF hold[f].decision = "none" THEN UNCHANGED job ELSE RefuseRevoked(want, hold')
    /\ scan' = [scan EXCEPT !.holds = @ \ {f}]
    /\ Touch({<<"hold", f>>})
    /\ UNCHANGED <<cluster, want, row, node, proof, disk, pass, snap, plan, maint, left,
                   committed, installer>>

\* commit_listing.
CommitListing ==
    /\ scan.pc = "rows" /\ scan.rows = {} /\ scan.gone = {} /\ scan.holds = {}
    /\ node' = [gen |-> scan.gen, state |-> "ready"]
    /\ committed' = [files |-> scan.files, holds |-> scan.held]
    /\ scan' = IdleScan
    /\ Touch({<<"node">>})
    /\ UNCHANGED <<cluster, want, hold, row, proof, disk, job, pass, snap, plan, maint, left,
                   installer>>

\* A refresh fails: what it published stays.
AbandonScan ==
    /\ scan.pc # "idle"
    /\ scan' = IdleScan
    /\ UNCHANGED <<spaceVars, passVars, maint, left, committed, installer>>

\* Inventory dies and its successor starts by reporting itself not ready.
RestartInventory ==
    /\ node' = [node EXCEPT !.state = "down"]
    /\ scan' = IdleScan
    /\ Touch({<<"node">>}) /\ Spend("lapses")
    /\ UNCHANGED <<cluster, want, hold, row, proof, disk, job, pass, snap, plan, maint,
                   committed, installer>>

\* node_is_ready turns false: the heartbeat or the listing is too old.
Lapse ==
    /\ node.state = "ready"
    /\ node' = [node EXCEPT !.state = "late"]
    /\ Spend("lapses")
    /\ UNCHANGED <<cluster, want, hold, row, proof, disk, job, scan, passVars, maint,
                   committed, installer>>

\* touch_heartbeat keeps what the publisher wrote.
Heartbeat ==
    /\ node' = [node EXCEPT !.state = IF @ = "late" THEN "ready" ELSE @]
    /\ Touch({<<"node">>}) /\ Spend("lapses")
    /\ UNCHANGED <<cluster, want, hold, row, proof, disk, job, scan, pass, snap, plan, maint,
                   committed, installer>>

-----------------------------------------------------------------------------
(* The controllers' pass: reconcile_once *)

\* Mutant: revocation is left to the request handlers.
PassRefuseNothing ==
    /\ pass = "idle"
    /\ pass' = "snapshot" /\ stale' = {}
    /\ UNCHANGED <<spaceVars, scan, snap, plan, maint, left, committed, installer>>

\* refuse_revoked_jobs under the mutation lock.
PassRefuse ==
    /\ pass = "idle"
    /\ RefuseRevoked(want, hold)
    /\ pass' = "snapshot" /\ stale' = {}
    /\ UNCHANGED <<cluster, want, hold, row, node, proof, disk, scan, snap, plan, maint, left,
                   committed, installer>>

PassSnapshot ==
    /\ pass = "snapshot"
    /\ snap' = [spec |-> ClusterSpec, accepted |-> cluster.accepted,
                want |-> want, hold |-> hold, row |-> row,
                node |-> node, proof |-> proof, drift |-> Titles]
    /\ stale' = {}
    /\ pass' = "drift"
    /\ UNCHANGED <<spaceVars, scan, plan, maint, left, committed, installer>>

EndPass == pass' = "idle" /\ snap' = NoSnap /\ stale' = {} /\ plan' = NoPlan

\* flag_drift of one Title: proofs whose file is gone are marked, unless the
\* Title was written since the snapshot, which ends the pass.
PassDrift(t) ==
    /\ pass = "drift" /\ t \in snap.drift
    /\ LET lost == {f \in FilesOf(t) : snap.proof[f] = "healthy" /\ f \notin disk}
       IN  IF lost # {} /\ <<"title", t>> \in stale
             THEN EndPass /\ UNCHANGED proof
             ELSE /\ proof' = [f \in Files |-> IF f \in lost THEN "drifted" ELSE proof[f]]
                  /\ snap' = [snap EXCEPT !.drift = @ \ {t}]
                  /\ UNCHANGED <<pass, stale, plan>>
    /\ UNCHANGED <<cluster, want, hold, row, node, disk, job, scan, maint, left, committed,
                   installer>>

\* The rows of the snapshot's committed listing.
Listed == {f \in Files : snap.node.gen > 0 /\ snap.row[f] = snap.node.gen}

\* The phase the pass gives a Want: Satisfied when the listing has files of
\* the Title and all have a healthy proof.
WantPhase(files, proofs) ==
    IF files # {} /\ \A f \in files : proofs[f] = "healthy" THEN "Satisfied" ELSE "Open"

\* Mutant: a satisfied Want is not looked at again.
PhaseDueOnce(t) ==
    /\ snap.want[t] = "Open"
    /\ snap.want[t] # WantPhase(FilesOf(t) \cap Listed, proof)

\* Mutant: an approved Hold is only served for a wanted Title.
ApprovedWantedFiles ==
    {f \in Listed : /\ Live(snap.hold[f], snap.node.gen)
                    /\ snap.hold[f].decision = "Approved" /\ snap.hold[f].placed
                    /\ snap.want[TitleOf[f]] # "none"
                    /\ proof[f] = "none"}

\* Wants whose phase is to be rewritten, and files to be pulled for a Want or
\* for an approved Hold.
PhaseDue(t) ==
    /\ snap.want[t] # "none"
    /\ snap.want[t] # WantPhase(FilesOf(t) \cap Listed, proof)

WantedFiles ==
    {f \in Listed : /\ snap.want[TitleOf[f]] # "none"
                    /\ proof[f] = "none"
                    /\ ~HeldRemote(f, snap.hold, snap.node.gen)}

ApprovedFiles ==
    {f \in Listed : /\ Live(snap.hold[f], snap.node.gen)
                    /\ snap.hold[f].decision = "Approved" /\ snap.hold[f].placed
                    /\ proof[f] = "none"}

\* The Titles are listed again; everything else comes from the snapshot.
PassPlan ==
    /\ pass = "drift" /\ snap.drift = {}
    /\ IF snap.spec.lock \/ ~Ready(snap.node)
         THEN EndPass
         ELSE /\ plan' = [spec |-> snap.spec, wants |-> WantedFiles,
                          phases |-> [t \in Titles |->
                                        IF PhaseDue(t) THEN WantPhase(FilesOf(t) \cap Listed, proof)
                                                       ELSE "keep"],
                          holds |-> ApprovedFiles, close |-> ~snap.accepted]
              /\ pass' = "act"
              /\ snap' = NoSnap
              /\ UNCHANGED stale
    /\ UNCHANGED <<spaceVars, scan, maint, left, committed, installer>>

\* Mutant: the snapshot's Cluster is trusted.
CreatePullJobTrustingSnapshot(f, auth) ==
    LET authority == IF auth = "want" THEN <<"want", TitleOf[f]>> ELSE <<"hold", f>>
        proceeds == /\ ~cluster.lock
                    /\ stale \cap {authority, <<"node">>, <<"row", f>>} = {}
                    /\ job[f] = NoJob
                    /\ Authorized(f, auth)
    IN  job' = IF proceeds
                 THEN [job EXCEPT ![f] = [phase |-> "Pending", bound |-> FALSE, auth |-> auth,
                                          root |-> plan.spec.root, cap |-> plan.spec.cap]]
                 ELSE job

\* create_pull_job: the snapshot is evidence, not a lease.  The Cluster, the
\* authorizer, the Node and the row must still be the ones the pass read, the
\* Job's name must be free and the Job authorized now.
CreatePullJob(f, auth) ==
    LET authority == IF auth = "want" THEN <<"want", TitleOf[f]>> ELSE <<"hold", f>>
        proceeds == /\ ClusterSpec = plan.spec /\ ~cluster.lock
                    /\ stale \cap {authority, <<"node">>, <<"row", f>>} = {}
                    /\ job[f] = NoJob
                    /\ Authorized(f, auth)
    IN  job' = IF proceeds
                 THEN [job EXCEPT ![f] = [phase |-> "Pending", bound |-> FALSE, auth |-> auth,
                                          root |-> plan.spec.root, cap |-> plan.spec.cap]]
                 ELSE job

\* One file of a Want.
PassWantFile(f) ==
    /\ pass = "act" /\ f \in plan.wants
    /\ CreatePullJob(f, "want")
    /\ plan' = [plan EXCEPT !.wants = @ \ {f}]
    /\ UNCHANGED <<cluster, want, hold, row, node, proof, disk, scan, pass, snap, stale, maint,
                   left, committed, installer>>

\* The Want's phase is written if the Want is still the one that was read;
\* otherwise the pass ends with an error.
PassWantPhase(t) ==
    /\ pass = "act" /\ plan.phases[t] # "keep"
    /\ plan.wants \cap FilesOf(t) = {}
    /\ IF <<"want", t>> \in stale
         THEN EndPass /\ UNCHANGED want
         ELSE /\ want' = [want EXCEPT ![t] = plan.phases[t]]
              /\ stale' = stale \cup {<<"want", t>>}
              /\ plan' = [plan EXCEPT !.phases = [@ EXCEPT ![t] = "keep"]]
              /\ UNCHANGED <<pass, snap>>
    /\ UNCHANGED <<cluster, hold, row, node, proof, disk, job, scan, maint, left, committed,
                   installer>>

WantsDone == plan.wants = {} /\ \A t \in Titles : plan.phases[t] = "keep"

\* One approved Hold.
PassHold(f) ==
    /\ pass = "act" /\ WantsDone /\ f \in plan.holds
    /\ CreatePullJob(f, "hold")
    /\ plan' = [plan EXCEPT !.holds = @ \ {f}]
    /\ UNCHANGED <<cluster, want, hold, row, node, proof, disk, scan, pass, snap, stale, maint,
                   left, committed, installer>>

\* The pass ends by accepting the Cluster generation it worked from.
PassAccept ==
    /\ pass = "act" /\ WantsDone /\ plan.holds = {}
    /\ cluster' = IF plan.close /\ <<"cluster">> \notin stale
                    THEN [cluster EXCEPT !.accepted = TRUE] ELSE cluster
    /\ EndPass
    /\ UNCHANGED <<want, hold, row, node, proof, disk, job, scan, maint, left, committed,
                   installer>>

-----------------------------------------------------------------------------
(* The scheduler and the worker *)

\* The bytes of a set of files.
Total(files) == MapThenSumSet(LAMBDA g : Size[g], files)

\* Mutant: bytes already bound are not counted.
FitsAlone(f) == job[f].cap = 0 \/ Size[f] <= job[f].cap

\* The pull_fits of the copy budget.
Fits(f) ==
    \/ job[f].cap = 0
    \/ Total(Bound) + Size[f] <= job[f].cap

\* Mutant: the lock only stops creation.
BindIgnoringLock(f) ==
    /\ Queued(f)
    /\ cluster.root = job[f].root
    /\ Authorized(f, job[f].auth)
    /\ Fits(f)
    /\ job' = [job EXCEPT ![f].bound = TRUE]
    /\ UNCHANGED <<cluster, want, hold, row, node, proof, disk, scan, passVars, maint, left,
                   committed, installer>>

\* Patch of the bind subresource, for a Job of the scheduler's list.
Bind(f) ==
    /\ Queued(f)
    /\ ~cluster.lock /\ cluster.root = job[f].root
    /\ Authorized(f, job[f].auth)
    /\ Fits(f)
    /\ job' = [job EXCEPT ![f].bound = TRUE]
    /\ UNCHANGED <<cluster, want, hold, row, node, proof, disk, scan, passVars, maint, left,
                   committed, installer>>

\* The worker publishes the file and records its proof.
RecordProof(f) ==
    /\ Active(job[f]) /\ proof[f] = "none"
    /\ proof' = [proof EXCEPT ![f] = "healthy"]
    /\ disk' = disk \cup {f}
    /\ installer' = [installer EXCEPT ![f] = "worker"]
    /\ Touch({<<"title", TitleOf[f]>>})
    /\ UNCHANGED <<cluster, want, hold, row, node, job, scan, pass, snap, plan, maint, left,
                   committed>>

\* The worker ends its Job: Installed behind a healthy proof, or given up
\* before there was one.
EndJob(f) ==
    /\ Active(job[f])
    /\ \/ proof[f] = "healthy" /\ job' = [job EXCEPT ![f].phase = "Installed"]
       \/ /\ proof[f] = "none"
          /\ \E phase \in {"Failed", "Refused"} : job' = [job EXCEPT ![f].phase = phase]
    /\ UNCHANGED <<cluster, want, hold, row, node, proof, disk, scan, passVars, maint, left,
                   committed, installer>>

-----------------------------------------------------------------------------
(* Maintenance commands: the maintenance flock admits one at a time *)

SetLock(l) == cluster' = [cluster EXCEPT !.lock = l, !.accepted = @ /\ l = cluster.lock]

\* begin_maintenance locks first ...
MaintenanceLock ==
    /\ maint.pc = "idle"
    /\ maint' = [pc |-> "locked", was |-> cluster.lock, clean |-> TRUE]
    /\ SetLock(TRUE)
    /\ Touch({<<"cluster">>}) /\ Spend("maint")
    /\ UNCHANGED <<want, hold, row, node, proof, disk, job, scan, pass, snap, plan, committed,
                   installer>>

\* ... then looks for bound Jobs, and gives the lock back if there is one.
MaintenanceCheck ==
    /\ maint.pc = "locked"
    /\ IF Bound = {}
         THEN /\ maint' = [maint EXCEPT !.pc = "running"]
              /\ UNCHANGED <<cluster, stale>>
         ELSE /\ maint' = NoMaintenance
              /\ SetLock(maint.was)
              /\ Touch({<<"cluster">>})
    /\ UNCHANGED <<want, hold, row, node, proof, disk, job, scan, pass, snap, plan, left,
                   committed, installer>>

\* library relocate, from the Cluster that set_lock returned.
Relocate ==
    /\ maint.pc = "running" /\ maint.clean
    /\ \E r \in Roots \ {cluster.root} :
          /\ RootChangeAllowed(r)
          /\ cluster' = [cluster EXCEPT !.root = r, !.accepted = FALSE]
    /\ Touch({<<"cluster">>})
    /\ maint' = [maint EXCEPT !.pc = "done"]
    /\ UNCHANGED <<want, hold, row, node, proof, disk, job, scan, pass, snap, plan, left,
                   committed, installer>>

\* publish_rows as Import: manual pull installs a file and records its proof,
\* library reindex verifies a drifted one that is back.
ImportProof(f) ==
    /\ maint.pc = "running"
    /\ \/ /\ proof[f] = "none"
          /\ installer' = [installer EXCEPT ![f] = "import"]
       \/ /\ proof[f] = "drifted" /\ f \in disk
          /\ UNCHANGED installer
    /\ proof' = [proof EXCEPT ![f] = "healthy"]
    /\ disk' = disk \cup {f}
    /\ Touch({<<"title", TitleOf[f]>>})
    /\ maint' = [maint EXCEPT !.pc = "done"]
    /\ UNCHANGED <<cluster, want, hold, row, node, job, scan, pass, snap, plan, left, committed>>

\* finish_maintenance restores the lock it found.
MaintenanceFinish ==
    /\ maint.pc \in {"running", "done"}
    /\ SetLock(maint.was)
    /\ Touch({<<"cluster">>})
    /\ maint' = NoMaintenance
    /\ UNCHANGED <<want, hold, row, node, proof, disk, job, scan, pass, snap, plan, left,
                   committed, installer>>

\* maintenance_failure, or a killed command: the Cluster remains locked.
MaintenanceFails ==
    /\ maint.pc # "idle"
    /\ maint' = NoMaintenance
    /\ UNCHANGED <<spaceVars, scan, passVars, left, committed, installer>>

-----------------------------------------------------------------------------
OperatorStep ==
    \/ \E t \in Titles : CreateWant(t) \/ DeleteWant(t)
    \/ \E f \in Files : \/ ApproveHold(f) \/ RevokeHold(f) \/ DeleteHold(f)
                        \/ DeleteJob(f) \/ MoveFile(f)
    \/ EditCluster

InventoryStep ==
    \/ BeginPublish \/ CommitListing \/ AbandonScan \/ RestartInventory \/ Lapse \/ Heartbeat
    \/ \E f \in Files : PublishRow(f) \/ PublishHold(f)

ControllerStep ==
    \/ PassRefuse \/ PassSnapshot \/ PassPlan \/ PassAccept
    \/ \E t \in Titles : PassDrift(t) \/ PassWantPhase(t)
    \/ \E f \in Files : PassWantFile(f) \/ PassHold(f)

WorkerStep == \E f \in Files : RecordProof(f) \/ EndJob(f)

MaintenanceStep ==
    \/ MaintenanceLock \/ MaintenanceCheck \/ Relocate \/ MaintenanceFinish \/ MaintenanceFails
    \/ \E f \in Files : ImportProof(f)

ControlNext ==
    \/ OperatorStep \/ InventoryStep \/ ControllerStep
    \/ (\E f \in Files : Bind(f))
    \/ WorkerStep \/ MaintenanceStep

\* The controllers run in a loop of the API server, the scheduler and the
\* worker in loops of their own.
ControlFairness ==
    /\ WF_controlVars(ControllerStep)
    /\ \A f \in Files : WF_controlVars(Bind(f)) /\ WF_controlVars(RecordProof(f) \/ EndJob(f))

ControlSpec == ControlInit /\ [][ControlNext]_controlVars
FairControlSpec == ControlSpec /\ ControlFairness

-----------------------------------------------------------------------------
(* Properties *)

Specs == [root : Roots \cup {"none"}, lock : BOOLEAN, cap : Caps \cup {0}]
Wants == [Titles -> {"none", "Open", "Satisfied"}]
Holds == [Files -> [decision : {"none", "Empty", "Approved", "Rejected"},
                    gen : Nat, placed : BOOLEAN]]
Rows == [Files -> Nat]
Nodes == [gen : Nat, state : {"down", "late", "ready"}]
Proofs == [Files -> {"none", "healthy", "drifted"}]
JobObjects == [phase : Terminal \cup {"none", "Pending"}, bound : BOOLEAN,
               auth : {"none", "want", "hold"}, root : Roots \cup {"none"}, cap : Caps \cup {0}]

ClusterOK == cluster \in [root : Roots, lock : BOOLEAN, cap : Caps, accepted : BOOLEAN]
WantOK == want \in Wants
HoldOK == hold \in Holds
RowOK == row \in Rows
NodeOK == node \in Nodes
ProofOK == proof \in Proofs
DiskOK == disk \in SUBSET Files
JobOK == job \in [Files -> JobObjects]
ScanOK == scan \in [pc : {"idle", "rows"}, gen : Nat, rows : SUBSET Files, gone : SUBSET Files,
                    holds : SUBSET Files, files : SUBSET Files, held : SUBSET Files]
PassOK == pass \in {"idle", "snapshot", "drift", "act"}
SnapOK == snap \in [spec : Specs, accepted : BOOLEAN, want : Wants, hold : Holds, row : Rows,
                    node : Nodes, proof : Proofs, drift : SUBSET Titles]
PlanOK == plan \in [spec : Specs, wants : SUBSET Files,
                    phases : [Titles -> {"keep", "Open", "Satisfied"}], holds : SUBSET Files,
                    close : BOOLEAN]
MaintOK == maint \in [pc : {"idle", "locked", "running", "done"}, was : BOOLEAN, clean : BOOLEAN]
LeftOK == left \in [scans : Nat, edits : Nat, cluster : Nat, maint : Nat, lapses : Nat,
                    crashes : Nat]
CommittedOK == committed \in [files : SUBSET Files, holds : SUBSET Files]
InstallerOK == installer \in [Files -> {"none", "worker", "import"}]

\* Objects, the processes' positions and the observers have their types.
ControlTypeOK ==
    /\ ClusterOK /\ WantOK /\ HoldOK /\ RowOK /\ NodeOK /\ ProofOK /\ DiskOK /\ JobOK
    /\ ScanOK /\ PassOK /\ SnapOK /\ PlanOK /\ MaintOK /\ LeftOK
    /\ CommittedOK /\ InstallerOK

\* docs/usage.md: once a Job is bound, decision changes are refused until it
\* finishes.  A worker never copies under a Hold that is not approved.
ApprovalOutlivesJob ==
    \A f \in Files : f \in Bound /\ job[f].auth = "hold" => hold[f].decision = "Approved"

\* A Job that may still run was created for the library root in force, however
\* the Cluster was edited while the pass that created it was under way.
JobsFollowRoot ==
    \A f \in Files : job[f].phase = "Pending" => job[f].root = cluster.root

\* Bound bytes stay within the budget of some bound Job: the last one to be
\* bound counted all of them.
BudgetHolds ==
    Bound = {} \/ \E f \in Bound :
        job[f].cap = 0 \/ Total(Bound) <= job[f].cap

\* begin_maintenance: while a maintenance command works on the library no
\* Job is bound.
MaintenanceIsAlone == maint.pc \in {"running", "done"} => Bound = {}

\* Rows and Holds of the committed generation come from one scan, though scans
\* are abandoned halfway and Holds are never deleted.
ListingIsOneScan ==
    /\ \A f \in Files : node.gen > 0 /\ row[f] = node.gen => f \in committed.files
    /\ \A f \in Files : Live(hold[f], node.gen) => f \in committed.holds

\* A placement a maintenance command installed is never being pulled.
NoSecondInstall == \A f \in Bound : installer[f] # "import"

\* docs/architecture.md: revoked authorization refuses unbound work, also when
\* the API died between the revocation and the refusal.
RevokedIsRefused ==
    \A f \in Files : Revoked(f, want, hold) ~> ~Revoked(f, want, hold)

\* Once the world is quiet, a Want's phase says whether the committed listing is
\* completely and healthily installed.
WantConverges ==
    <>[](Ready(node) /\ ~cluster.lock =>
            \A t \in Titles : want[t] # "none" =>
                want[t] = WantPhase({f \in FilesOf(t) : row[f] = node.gen}, proof))

\* Once the world is quiet, every authorized file has its Job.
WorkIsOffered ==
    <>[](~cluster.lock =>
            \A f \in Files : Authorized(f, "want") \/ Authorized(f, "hold") => job[f] # NoJob)

\* docs/usage.md: the Hold controller creates a Pull Job after Approved.
ApprovedHoldGetsJob ==
    <>[](~cluster.lock =>
            \A f \in Files : Authorized(f, "hold") =>
                job[f].auth = "hold" \/ job[f].phase \in Terminal)

-----------------------------------------------------------------------------
(* Instances to check: one Title with up to two files of lengths 1 and 2. *)

OneFile == {1}
TwoFiles == {1, 2}
OneTitle == {"movie"}
MCTitleOf == [f \in Files |-> "movie"]
MCSize == [f \in Files |-> f]
RootSymmetry == Permutations(Roots)

=============================================================================
