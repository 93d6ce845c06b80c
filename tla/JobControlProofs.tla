-------------------------- MODULE JobControlProofs --------------------------
(***************************************************************************)
(* Proofs about the control plane, for any files, Titles, roots, budgets   *)
(* and bounds.                                                             *)
(***************************************************************************)
EXTENDS JobControl, TLAPS, FiniteSetTheorems, WellFoundedInduction

-----------------------------------------------------------------------------
(* Type correctness *)

\* A variable that does not change keeps its type.
LEMMA Frame ==
    ASSUME ControlTypeOK
    PROVE  /\ UNCHANGED cluster => ClusterOK'
           /\ UNCHANGED want => WantOK'
           /\ UNCHANGED hold => HoldOK'
           /\ UNCHANGED row => RowOK'
           /\ UNCHANGED node => NodeOK'
           /\ UNCHANGED proof => ProofOK'
           /\ UNCHANGED disk => DiskOK'
           /\ UNCHANGED job => JobOK'
           /\ UNCHANGED scan => ScanOK'
           /\ UNCHANGED pass => PassOK'
           /\ UNCHANGED snap => SnapOK'
           /\ UNCHANGED plan => PlanOK'
           /\ UNCHANGED maint => MaintOK'
           /\ UNCHANGED left => LeftOK'
           /\ UNCHANGED committed => CommittedOK'
           /\ UNCHANGED installer => InstallerOK'
BY DEF ControlTypeOK, ClusterOK, WantOK, HoldOK, RowOK, NodeOK, ProofOK, DiskOK, JobOK, ScanOK,
       PassOK, SnapOK, PlanOK, MaintOK, LeftOK, CommittedOK, InstallerOK

\* Taking one unit from a bound keeps the bounds natural.
LEMMA SpendOK ==
    ASSUME LeftOK, NEW b \in {"scans", "edits", "cluster", "maint", "lapses", "crashes"}, Spend(b)
    PROVE  LeftOK'
BY DEF LeftOK, Spend

\* What a pass holds before it starts and after it ended.
LEMMA EmptyOK ==
    /\ NoSnap \in [spec : Specs, accepted : BOOLEAN, want : Wants, hold : Holds, row : Rows,
                   node : Nodes, proof : Proofs, drift : SUBSET Titles]
    /\ NoPlan \in [spec : Specs, wants : SUBSET Files,
                   phases : [Titles -> {"keep", "Open", "Satisfied"}], holds : SUBSET Files,
                   close : BOOLEAN]
<1>1. /\ [t \in Titles |-> "none"] \in Wants /\ [f \in Files |-> NoHold] \in Holds
      /\ [f \in Files |-> 0] \in Rows /\ NoNode \in Nodes /\ [f \in Files |-> "none"] \in Proofs
      /\ NoSpec \in Specs
  BY DEF Wants, Holds, Rows, Nodes, Proofs, Specs, NoHold, NoNode, NoSpec
<1>2. [t \in Titles |-> "keep"] \in [Titles -> {"keep", "Open", "Satisfied"}]
  OBVIOUS
<1> QED BY <1>1, <1>2 DEF NoSnap, NoPlan

\* The end of a pass leaves its variables typed.
LEMMA EndPassOK ==
    ASSUME EndPass
    PROVE  PassOK' /\ SnapOK' /\ PlanOK'
BY EmptyOK DEF EndPass, PassOK, SnapOK, PlanOK

\* refuse_revoked_jobs changes nothing but the phase of queued Jobs.
LEMMA RefuseOK ==
    ASSUME JobOK, NEW w, NEW h, RefuseRevoked(w, h)
    PROVE  /\ JobOK'
           /\ \A f \in Files : job'[f] = job[f] \/ job'[f] = [job[f] EXCEPT !.phase = "Refused"]
BY DEF JobOK, RefuseRevoked, JobObjects, Terminal

\* The end of a handler that may revoke an authority.
LEMMA RevokeHandlerOK ==
    ASSUME ControlTypeOK, NEW o, NEW w, NEW h, RevokeHandler(o, w, h)
    PROVE  /\ JobOK' /\ LeftOK' /\ PassOK' /\ SnapOK' /\ PlanOK'
           /\ \A f \in Files : job'[f] = job[f] \/ job'[f] = [job[f] EXCEPT !.phase = "Refused"]
<1>1. CASE RefuseRevoked(w, h) /\ Spend("edits") /\ UNCHANGED <<pass, snap, plan>>
  BY <1>1, RefuseOK, SpendOK, Frame DEF ControlTypeOK
<1>2. CASE /\ left.edits > 0 /\ left.crashes > 0
           /\ left' = [left EXCEPT !.edits = @ - 1, !.crashes = @ - 1]
           /\ ApiDies
           /\ UNCHANGED job
  <2>1. LeftOK'
    <3>1. /\ left \in [scans : Nat, edits : Nat, cluster : Nat, maint : Nat, lapses : Nat,
                      crashes : Nat]
          /\ left.edits - 1 \in Nat /\ left.crashes - 1 \in Nat
      BY <1>2 DEF ControlTypeOK, LeftOK
    <3>2. left' = [left EXCEPT !.edits = left.edits - 1, !.crashes = left.crashes - 1]
      BY <1>2, <3>1
    <3> QED BY <3>1, <3>2 DEF LeftOK
  <2>2. PassOK' /\ SnapOK' /\ PlanOK'
    BY <1>2, EndPassOK DEF ApiDies, EndPass
  <2> QED BY <1>2, <2>1, <2>2, Frame
<1> QED BY <1>1, <1>2 DEF RevokeHandler

\* create_pull_job adds an unbound Pending Job for the Cluster in force, or
\* nothing.
LEMMA CreateOK ==
    ASSUME JobOK, ClusterOK, NEW f \in Files, NEW auth \in {"want", "hold"}, CreatePullJob(f, auth)
    PROVE  /\ JobOK'
           /\ \A g \in Files : \/ job'[g] = job[g]
                               \/ /\ job'[g].phase = "Pending" /\ ~job'[g].bound
                                  /\ job'[g].root = cluster.root
BY DEF JobOK, ClusterOK, CreatePullJob, ClusterSpec, JobObjects, Terminal

\* Init is typed.
LEMMA TypeInit == ControlInit => ControlTypeOK
<1> SUFFICES ASSUME ControlInit PROVE ControlTypeOK
  OBVIOUS
<1>1. ClusterOK /\ WantOK /\ RowOK /\ NodeOK /\ ProofOK /\ DiskOK
  BY DEF ControlInit, ClusterOK, WantOK, RowOK, NodeOK, ProofOK, DiskOK, NoNode, Wants, Rows,
         Nodes, Proofs
<1>2. HoldOK
  BY DEF ControlInit, HoldOK, Holds, NoHold
<1>3. JobOK
  BY DEF ControlInit, JobOK, JobObjects, NoJob
<1>4. ScanOK /\ PassOK /\ SnapOK /\ PlanOK
  BY EmptyOK DEF ControlInit, ScanOK, PassOK, SnapOK, PlanOK, IdleScan
<1>5. MaintOK /\ CommittedOK /\ InstallerOK
  BY DEF ControlInit, MaintOK, CommittedOK, InstallerOK, NoMaintenance
<1>6. LeftOK
  BY ControlAssumption DEF ControlInit, LeftOK
<1> QED BY <1>1, <1>2, <1>3, <1>4, <1>5, <1>6 DEF ControlTypeOK

\* Every step keeps the types.
LEMMA TypeStep == ControlTypeOK /\ [ControlNext]_controlVars => ControlTypeOK'
<1> SUFFICES ASSUME ControlTypeOK, [ControlNext]_controlVars PROVE ControlTypeOK'
  OBVIOUS
<1>1. ASSUME NEW t \in Titles, CreateWant(t) PROVE ControlTypeOK'
  <2>1. WantOK'
    BY <1>1 DEF CreateWant, ControlTypeOK, WantOK, Wants
  <2>2. LeftOK'
    BY <1>1, SpendOK DEF CreateWant, ControlTypeOK
  <2> QED BY <1>1, <2>1, <2>2, Frame DEF CreateWant, ControlTypeOK
<1>2. ASSUME NEW t \in Titles, DeleteWant(t) PROVE ControlTypeOK'
  <2>1. WantOK'
    BY <1>2 DEF DeleteWant, ControlTypeOK, WantOK, Wants
  <2>2. JobOK' /\ LeftOK' /\ PassOK' /\ SnapOK' /\ PlanOK'
    BY <1>2, RevokeHandlerOK DEF DeleteWant
  <2> QED BY <1>2, <2>1, <2>2, Frame DEF DeleteWant, ControlTypeOK
<1>3. ASSUME NEW f \in Files, ApproveHold(f) PROVE ControlTypeOK'
  <2>1. HoldOK'
    BY <1>3 DEF ApproveHold, ControlTypeOK, HoldOK, Holds
  <2>2. JobOK' /\ LeftOK' /\ PassOK' /\ SnapOK' /\ PlanOK'
    BY <1>3, RevokeHandlerOK DEF ApproveHold
  <2> QED BY <1>3, <2>1, <2>2, Frame DEF ApproveHold, ControlTypeOK
<1>4. ASSUME NEW f \in Files, RevokeHold(f) PROVE ControlTypeOK'
  <2>1. HoldOK'
    BY <1>4 DEF RevokeHold, ControlTypeOK, HoldOK, Holds
  <2>2. JobOK' /\ LeftOK' /\ PassOK' /\ SnapOK' /\ PlanOK'
    BY <1>4, RevokeHandlerOK DEF RevokeHold
  <2> QED BY <1>4, <2>1, <2>2, Frame DEF RevokeHold, ControlTypeOK
<1>5. ASSUME NEW f \in Files, DeleteHold(f) PROVE ControlTypeOK'
  <2>1. HoldOK'
    BY <1>5 DEF DeleteHold, ControlTypeOK, HoldOK, Holds, NoHold
  <2>2. JobOK' /\ LeftOK' /\ PassOK' /\ SnapOK' /\ PlanOK'
    BY <1>5, RevokeHandlerOK DEF DeleteHold
  <2> QED BY <1>5, <2>1, <2>2, Frame DEF DeleteHold, ControlTypeOK
<1>6. ASSUME NEW f \in Files, DeleteJob(f) PROVE ControlTypeOK'
  <2>1. JobOK'
    BY <1>6 DEF DeleteJob, ControlTypeOK, JobOK, JobObjects, Terminal, NoJob
  <2>2. LeftOK'
    BY <1>6, SpendOK DEF DeleteJob, ControlTypeOK
  <2> QED BY <1>6, <2>1, <2>2, Frame DEF DeleteJob, passVars, ControlTypeOK
<1>7. ASSUME NEW f \in Files, MoveFile(f) PROVE ControlTypeOK'
  <2>1. DiskOK'
    BY <1>7 DEF MoveFile, ControlTypeOK, DiskOK
  <2>2. LeftOK'
    BY <1>7, SpendOK DEF MoveFile, ControlTypeOK
  <2> QED BY <1>7, <2>1, <2>2, Frame DEF MoveFile, passVars, ControlTypeOK
<1>8. ASSUME EditCluster PROVE ControlTypeOK'
  <2>1. ClusterOK'
    BY <1>8 DEF EditCluster, ControlTypeOK, ClusterOK
  <2>2. MaintOK'
    BY <1>8 DEF EditCluster, ControlTypeOK, MaintOK
  <2>3. LeftOK'
    BY <1>8, SpendOK DEF EditCluster, ControlTypeOK
  <2> QED BY <1>8, <2>1, <2>2, <2>3, Frame DEF EditCluster, ControlTypeOK
<1>9. ASSUME BeginPublish PROVE ControlTypeOK'
  <2>0. \A n \in ListGeneration : n \in Nat
    BY DEF ControlTypeOK, ListGeneration, Generations, HoldOK, Holds, RowOK, Rows, NodeOK, Nodes
  <2>1. ScanOK'
    BY <1>9, ControlAssumption, <2>0 DEF BeginPublish, ControlTypeOK, ScanOK
  <2>2. LeftOK'
    BY <1>9, SpendOK DEF BeginPublish, ControlTypeOK
  <2> QED BY <1>9, <2>1, <2>2, Frame DEF BeginPublish, passVars, spaceVars, ControlTypeOK
<1>10. ASSUME CommitListing PROVE ControlTypeOK'
  <2>1. NodeOK'
    BY <1>10 DEF CommitListing, ControlTypeOK, NodeOK, Nodes, ScanOK
  <2>2. ScanOK'
    BY <1>10 DEF CommitListing, ControlTypeOK, ScanOK, IdleScan
  <2>3. CommittedOK'
    BY <1>10 DEF CommitListing, ControlTypeOK, CommittedOK, ScanOK
  <2> QED BY <1>10, <2>1, <2>2, <2>3, Frame DEF CommitListing, ControlTypeOK
<1>11. ASSUME AbandonScan PROVE ControlTypeOK'
  <2>1. ScanOK'
    BY <1>11 DEF AbandonScan, ControlTypeOK, ScanOK, IdleScan
  <2> QED BY <1>11, <2>1, Frame DEF AbandonScan, passVars, spaceVars, ControlTypeOK
<1>12. ASSUME RestartInventory PROVE ControlTypeOK'
  <2>1. NodeOK'
    BY <1>12 DEF RestartInventory, ControlTypeOK, NodeOK, Nodes
  <2>2. ScanOK'
    BY <1>12 DEF RestartInventory, ControlTypeOK, ScanOK, IdleScan
  <2>3. LeftOK'
    BY <1>12, SpendOK DEF RestartInventory, ControlTypeOK
  <2> QED BY <1>12, <2>1, <2>2, <2>3, Frame DEF RestartInventory, ControlTypeOK
<1>13. ASSUME Lapse PROVE ControlTypeOK'
  <2>1. NodeOK'
    BY <1>13 DEF Lapse, ControlTypeOK, NodeOK, Nodes
  <2>2. LeftOK'
    BY <1>13, SpendOK DEF Lapse, ControlTypeOK
  <2> QED BY <1>13, <2>1, <2>2, Frame DEF Lapse, passVars, ControlTypeOK
<1>14. ASSUME Heartbeat PROVE ControlTypeOK'
  <2>1. NodeOK'
    BY <1>14 DEF Heartbeat, ControlTypeOK, NodeOK, Nodes
  <2>2. LeftOK'
    BY <1>14, SpendOK DEF Heartbeat, ControlTypeOK
  <2> QED BY <1>14, <2>1, <2>2, Frame DEF Heartbeat, ControlTypeOK
<1>15. ASSUME NEW f \in Files, PublishRow(f) PROVE ControlTypeOK'
  <2>1. RowOK'
    BY <1>15 DEF PublishRow, ControlTypeOK, RowOK, Rows, ScanOK
  <2>2. ScanOK'
    BY <1>15 DEF PublishRow, ControlTypeOK, ScanOK
  <2> QED BY <1>15, <2>1, <2>2, Frame DEF PublishRow, ControlTypeOK
<1>16. ASSUME NEW f \in Files, PublishHold(f) PROVE ControlTypeOK'
  <2>1. HoldOK'
    BY <1>16 DEF PublishHold, ControlTypeOK, HoldOK, Holds, ScanOK
  <2>2. JobOK'
    BY <1>16, RefuseOK, Frame DEF PublishHold, ControlTypeOK
  <2>3. ScanOK'
    BY <1>16 DEF PublishHold, ControlTypeOK, ScanOK
  <2> QED BY <1>16, <2>1, <2>2, <2>3, Frame DEF PublishHold, ControlTypeOK
<1>17. ASSUME PassRefuse PROVE ControlTypeOK'
  <2>1. JobOK'
    BY <1>17, RefuseOK DEF PassRefuse, ControlTypeOK
  <2>2. PassOK'
    BY <1>17 DEF PassRefuse, ControlTypeOK, PassOK
  <2> QED BY <1>17, <2>1, <2>2, Frame DEF PassRefuse, ControlTypeOK
<1>18. ASSUME PassSnapshot PROVE ControlTypeOK'
  <2>1. PassOK'
    BY <1>18 DEF PassSnapshot, ControlTypeOK, PassOK
  <2>2. SnapOK'
    BY <1>18 DEF PassSnapshot, ControlTypeOK, SnapOK, ClusterOK, WantOK, HoldOK, RowOK, NodeOK,
        ProofOK, ClusterSpec, Specs
  <2> QED BY <1>18, <2>1, <2>2, Frame DEF PassSnapshot, spaceVars, ControlTypeOK
<1>19. ASSUME PassPlan PROVE ControlTypeOK'
  <2>1. CASE EndPass
    BY <2>1, <1>19, EndPassOK, Frame DEF PassPlan, spaceVars, ControlTypeOK
  <2>2. CASE ~EndPass
    <3>1. WantedFiles \in SUBSET Files /\ ApprovedFiles \in SUBSET Files
      BY DEF WantedFiles, ApprovedFiles, Listed
    <3>2. \A t \in Titles : WantPhase(FilesOf(t) \cap Listed, proof) \in {"Open", "Satisfied"}
      BY DEF WantPhase
    <3>3. snap.spec \in Specs /\ (~snap.accepted) \in BOOLEAN
      BY DEF ControlTypeOK, SnapOK
    <3> DEFINE phases == [t \in Titles |-> IF PhaseDue(t) THEN WantPhase(FilesOf(t) \cap Listed,
        proof)
                                                         ELSE "keep"]
    <3>4. PlanOK'
      <4>1. phases \in [Titles -> {"keep", "Open", "Satisfied"}]
        BY <3>2
      <4>2. plan' = [spec |-> snap.spec, wants |-> WantedFiles, phases |-> phases,
                     holds |-> ApprovedFiles, close |-> ~snap.accepted]
        BY <1>19, <2>2 DEF PassPlan
      <4> HIDE DEF phases
      <4> QED BY <3>1, <3>3, <4>1, <4>2 DEF PlanOK
    <3>5. PassOK' /\ SnapOK'
      BY <1>19, <2>2, EmptyOK DEF PassPlan, PassOK, SnapOK
    <3> QED BY <1>19, <3>4, <3>5, Frame DEF PassPlan, spaceVars, ControlTypeOK
  <2> QED BY <2>1, <2>2
<1>20. ASSUME PassAccept PROVE ControlTypeOK'
  <2>1. ClusterOK'
    BY <1>20 DEF PassAccept, ControlTypeOK, ClusterOK
  <2>2. PassOK' /\ SnapOK' /\ PlanOK'
    BY <1>20, EndPassOK, Frame DEF PassAccept
  <2> QED BY <1>20, <2>1, <2>2, Frame DEF PassAccept, ControlTypeOK
<1>21. ASSUME NEW t \in Titles, PassDrift(t) PROVE ControlTypeOK'
  <2>1. PassOK' /\ SnapOK' /\ PlanOK'
    <3>1. CASE EndPass
      BY <3>1, EndPassOK
    <3>2. CASE ~EndPass
      <4>1. snap' = [snap EXCEPT !.drift = @ \ {t}] /\ UNCHANGED <<pass, plan>>
        BY <1>21, <3>2 DEF PassDrift
      <4>2. SnapOK'
        BY <4>1 DEF ControlTypeOK, SnapOK
      <4> QED BY <4>1, <4>2, Frame
    <3> QED BY <3>1, <3>2
  <2>2. ProofOK'
    <3>1. CASE UNCHANGED proof
      BY <3>1, Frame
    <3>2. CASE ~UNCHANGED proof
      <4>1. PICK lost : proof' = [f \in Files |-> IF f \in lost THEN "drifted" ELSE proof[f]]
        BY <1>21, <3>2 DEF PassDrift
      <4> QED BY <4>1 DEF ControlTypeOK, ProofOK, Proofs
    <3> QED BY <3>1, <3>2
  <2> QED BY <1>21, <2>1, <2>2, Frame DEF PassDrift, ControlTypeOK
<1>22. ASSUME NEW t \in Titles, PassWantPhase(t) PROVE ControlTypeOK'
  <2>1. CASE EndPass /\ UNCHANGED want
    BY <1>22, <2>1, EndPassOK, Frame DEF PassWantPhase, ControlTypeOK
  <2>2. CASE ~(EndPass /\ UNCHANGED want)
    <3>1. /\ want' = [want EXCEPT ![t] = plan.phases[t]]
          /\ plan' = [plan EXCEPT !.phases = [@ EXCEPT ![t] = "keep"]]
          /\ plan.phases[t] # "keep"
          /\ UNCHANGED <<pass, snap>>
      BY <1>22, <2>2 DEF PassWantPhase
    <3>2. plan.phases[t] \in {"Open", "Satisfied"}
      BY <3>1 DEF ControlTypeOK, PlanOK
    <3>3. WantOK'
      BY <3>1, <3>2 DEF ControlTypeOK, WantOK, Wants
    <3>4. PlanOK'
      BY <3>1 DEF ControlTypeOK, PlanOK
    <3> QED BY <1>22, <3>1, <3>3, <3>4, Frame DEF PassWantPhase, ControlTypeOK
  <2> QED BY <2>1, <2>2
<1>23. ASSUME NEW f \in Files, PassWantFile(f) PROVE ControlTypeOK'
  <2>1. JobOK'
    BY <1>23, CreateOK DEF PassWantFile, ControlTypeOK
  <2>2. PlanOK'
    BY <1>23 DEF PassWantFile, ControlTypeOK, PlanOK
  <2> QED BY <1>23, <2>1, <2>2, Frame DEF PassWantFile, ControlTypeOK
<1>24. ASSUME NEW f \in Files, PassHold(f) PROVE ControlTypeOK'
  <2>1. JobOK'
    BY <1>24, CreateOK DEF PassHold, ControlTypeOK
  <2>2. PlanOK'
    BY <1>24 DEF PassHold, ControlTypeOK, PlanOK
  <2> QED BY <1>24, <2>1, <2>2, Frame DEF PassHold, ControlTypeOK
<1>25. ASSUME NEW f \in Files, Bind(f) PROVE ControlTypeOK'
  <2>1. JobOK'
    BY <1>25 DEF Bind, ControlTypeOK, JobOK, JobObjects, Terminal
  <2> QED BY <1>25, <2>1, Frame DEF Bind, passVars, ControlTypeOK
<1>26. ASSUME NEW f \in Files, RecordProof(f) PROVE ControlTypeOK'
  <2>1. ProofOK'
    BY <1>26 DEF RecordProof, ControlTypeOK, ProofOK, Proofs
  <2>2. DiskOK'
    BY <1>26 DEF RecordProof, ControlTypeOK, DiskOK
  <2>3. InstallerOK'
    BY <1>26 DEF RecordProof, ControlTypeOK, InstallerOK
  <2> QED BY <1>26, <2>1, <2>2, <2>3, Frame DEF RecordProof, ControlTypeOK
<1>27. ASSUME NEW f \in Files, EndJob(f) PROVE ControlTypeOK'
  <2>1. JobOK'
    BY <1>27 DEF EndJob, ControlTypeOK, JobOK, JobObjects, Terminal
  <2> QED BY <1>27, <2>1, Frame DEF EndJob, passVars, ControlTypeOK
<1>28. ASSUME MaintenanceLock PROVE ControlTypeOK'
  <2>1. MaintOK'
    BY <1>28 DEF MaintenanceLock, ControlTypeOK, MaintOK, ClusterOK
  <2>2. ClusterOK'
    BY <1>28 DEF MaintenanceLock, ControlTypeOK, ClusterOK, SetLock
  <2>3. LeftOK'
    BY <1>28, SpendOK DEF MaintenanceLock, ControlTypeOK
  <2> QED BY <1>28, <2>1, <2>2, <2>3, Frame DEF MaintenanceLock, ControlTypeOK
<1>29. ASSUME MaintenanceCheck PROVE ControlTypeOK'
  <2>0. maint' = [maint EXCEPT !.pc = "running"] \/ maint' = NoMaintenance
    BY <1>29 DEF MaintenanceCheck
  <2>1a. ASSUME maint' = [maint EXCEPT !.pc = "running"] PROVE MaintOK'
    BY <2>1a DEF ControlTypeOK, MaintOK
  <2>1b. ASSUME maint' = NoMaintenance PROVE MaintOK'
    BY <2>1b DEF MaintOK, NoMaintenance
  <2>1. MaintOK'
    BY <2>0, <2>1a, <2>1b
  <2>2. ClusterOK'
    BY <1>29, Frame DEF MaintenanceCheck, ControlTypeOK, ClusterOK, MaintOK, SetLock
  <2> QED BY <1>29, <2>1, <2>2, Frame DEF MaintenanceCheck, ControlTypeOK
<1>30. ASSUME Relocate PROVE ControlTypeOK'
  <2>1. ClusterOK'
    BY <1>30 DEF Relocate, ControlTypeOK, ClusterOK
  <2>2. MaintOK'
    BY <1>30 DEF Relocate, ControlTypeOK, MaintOK
  <2> QED BY <1>30, <2>1, <2>2, Frame DEF Relocate, ControlTypeOK
<1>31. ASSUME MaintenanceFinish PROVE ControlTypeOK'
  <2>1. ClusterOK'
    BY <1>31 DEF MaintenanceFinish, ControlTypeOK, ClusterOK, MaintOK, SetLock
  <2>2. MaintOK'
    BY <1>31 DEF MaintenanceFinish, ControlTypeOK, MaintOK, NoMaintenance
  <2> QED BY <1>31, <2>1, <2>2, Frame DEF MaintenanceFinish, ControlTypeOK
<1>32. ASSUME MaintenanceFails PROVE ControlTypeOK'
  <2>1. MaintOK'
    BY <1>32 DEF MaintenanceFails, ControlTypeOK, MaintOK, NoMaintenance
  <2> QED BY <1>32, <2>1, Frame DEF MaintenanceFails, passVars, spaceVars, ControlTypeOK
<1>33. ASSUME NEW f \in Files, ImportProof(f) PROVE ControlTypeOK'
  <2>1. ProofOK'
    BY <1>33 DEF ImportProof, ControlTypeOK, ProofOK, Proofs
  <2>2. DiskOK'
    BY <1>33 DEF ImportProof, ControlTypeOK, DiskOK
  <2>3. MaintOK'
    BY <1>33 DEF ImportProof, ControlTypeOK, MaintOK
  <2>4. InstallerOK'
    BY <1>33, Frame DEF ImportProof, ControlTypeOK, InstallerOK
  <2> QED BY <1>33, <2>1, <2>2, <2>3, <2>4, Frame DEF ImportProof, ControlTypeOK
<1>34. CASE UNCHANGED controlVars
  BY <1>34, Frame DEF controlVars, spaceVars, passVars, ControlTypeOK
<1> QED BY <1>1, <1>2, <1>3, <1>4, <1>5, <1>6, <1>7, <1>8, <1>9, <1>10, <1>11, <1>12, <1>13,
    <1>14, <1>15, <1>16, <1>17, <1>18, <1>19, <1>20, <1>21, <1>22, <1>23, <1>24, <1>25, <1>26,
    <1>27, <1>28, <1>29, <1>30, <1>31, <1>32, <1>33, <1>34
    DEF ControlNext, OperatorStep, InventoryStep, ControllerStep, WorkerStep, MaintenanceStep

\* The type invariant holds of every reachable state of the control plane.
THEOREM ControlTypeCorrect == ControlSpec => []ControlTypeOK
BY TypeInit, TypeStep, PTL DEF ControlSpec

-----------------------------------------------------------------------------
(* What a step does to Jobs, Holds, the Cluster, maintenance and proofs *)

\* A Job becomes bound only by Bind, and a Pending one is new or as it was.
JobEffect ==
    \A f \in Files :
        /\ f \in Bound' => \/ f \in Bound /\ job'[f].auth = job[f].auth /\ job'[f].cap = job[f].cap
                           \/ Bind(f)
        /\ job'[f].phase = "Pending" =>
              \/ job[f].phase = "Pending" /\ job'[f].root = job[f].root
              \/ job'[f].root = cluster.root

\* The approval of an active Job stays.
HoldEffect ==
    \A f \in Files :
        f \in Bound /\ job[f].auth = "hold" /\ hold[f].decision = "Approved"
          => hold'[f].decision = "Approved"

\* The root changes only past validate_root_change.
RootEffect == 
    \/ cluster'.root = cluster.root
    \/ UNCHANGED job /\ RootChangeAllowed(cluster'.root)

\* A command holds the lock while it runs, and starts on an idle worker.
MaintenanceLocks == maint.pc # "idle" => cluster.lock

MaintenanceEffect ==
    /\ MaintenanceLocks => MaintenanceLocks'
    /\ maint'.pc \in {"running", "done"} => maint.pc \in {"running", "done"} \/ Bound = {}

\* Proofs are kept, and imported only by a running command.
ProofEffect ==
    \A f \in Files :
        /\ proof[f] # "none" => proof'[f] # "none"
        /\ installer'[f] = "import" =>
              installer[f] = "import" \/ (maint.pc = "running" /\ proof'[f] # "none")

\* An action that leaves the variables of an effect alone has that effect.
LEMMA EffectFrame ==
    /\ UNCHANGED job => JobEffect
    /\ UNCHANGED hold => HoldEffect
    /\ UNCHANGED cluster => RootEffect
    /\ UNCHANGED <<cluster, maint>> => MaintenanceEffect
    /\ UNCHANGED <<proof, installer>> => ProofEffect
<1>1. UNCHANGED job => JobEffect
  BY DEF JobEffect, Bound, Active
<1>2. UNCHANGED hold => HoldEffect
  BY DEF HoldEffect
<1>3. UNCHANGED cluster => RootEffect
  BY DEF RootEffect
<1>4. UNCHANGED <<cluster, maint>> => MaintenanceEffect
  BY DEF MaintenanceEffect, MaintenanceLocks
<1>5. UNCHANGED <<proof, installer>> => ProofEffect
  BY DEF ProofEffect
<1> QED BY <1>1, <1>2, <1>3, <1>4, <1>5

\* Refusing Jobs, as refuse_revoked_jobs does, neither binds nor creates one.
LEMMA RefusedEffect ==
    ASSUME JobOK,
           \A f \in Files : job'[f] = job[f] \/ job'[f] = [job[f] EXCEPT !.phase = "Refused"]
    PROVE  JobEffect
<1> SUFFICES ASSUME NEW f \in Files
             PROVE  /\ f \in Bound' => \/ f \in Bound /\ job'[f].auth = job[f].auth /\ job'[f].cap = job[f].cap
                           \/ Bind(f)
                    /\ job'[f].phase = "Pending" =>
                          \/ job[f].phase = "Pending" /\ job'[f].root = job[f].root
                          \/ job'[f].root = cluster.root
  BY DEF JobEffect
<1>1. CASE job'[f] = job[f]
  BY <1>1 DEF Bound, Active
<1>2. CASE job'[f] = [job[f] EXCEPT !.phase = "Refused"]
  <2>1. job'[f].phase = "Refused"
    BY <1>2 DEF JobOK, JobObjects
  <2> QED BY <2>1 DEF Bound, Active, Terminal
<1> QED BY <1>1, <1>2

\* create_pull_job makes an unbound Job for the root in force.
LEMMA CreatedEffect ==
    ASSUME JobOK, ClusterOK, NEW f \in Files, NEW auth \in {"want", "hold"}, CreatePullJob(f, auth)
    PROVE  JobEffect
BY CreateOK DEF JobOK, JobObjects, JobEffect, Bound, Active, Terminal

\* The effects of every action.
LEMMA StepEffects ==
    ASSUME ControlTypeOK, ControlNext
    PROVE  JobEffect /\ HoldEffect /\ RootEffect /\ MaintenanceEffect /\ ProofEffect
<1> DEFINE Effects == JobEffect /\ HoldEffect /\ RootEffect /\ MaintenanceEffect /\ ProofEffect
<1>1. ASSUME NEW t \in Titles, CreateWant(t) PROVE Effects
  BY <1>1, EffectFrame DEF CreateWant
<1>2. ASSUME NEW t \in Titles, DeleteWant(t) PROVE Effects
  <2>1. JobEffect
    BY <1>2, RevokeHandlerOK, RefusedEffect DEF DeleteWant, ControlTypeOK
  <2> QED BY <1>2, <2>1, EffectFrame DEF DeleteWant
<1>3. ASSUME NEW f \in Files, ApproveHold(f) PROVE Effects
  <2>1. JobEffect
    BY <1>3, RevokeHandlerOK, RefusedEffect DEF ApproveHold, ControlTypeOK
  <2>2. HoldEffect
    BY <1>3 DEF ApproveHold, HoldEffect, HoldOK, Holds, ControlTypeOK
  <2> QED BY <1>3, <2>1, <2>2, EffectFrame DEF ApproveHold
<1>4. ASSUME NEW f \in Files, RevokeHold(f) PROVE Effects
  <2>1. JobEffect
    BY <1>4, RevokeHandlerOK, RefusedEffect DEF RevokeHold, ControlTypeOK
  <2>2. HoldEffect
    BY <1>4 DEF RevokeHold, HoldEffect, HoldOK, Holds, ControlTypeOK, ActiveUnderHold, Bound
  <2> QED BY <1>4, <2>1, <2>2, EffectFrame DEF RevokeHold
<1>5. ASSUME NEW f \in Files, DeleteHold(f) PROVE Effects
  <2>1. JobEffect
    BY <1>5, RevokeHandlerOK, RefusedEffect DEF DeleteHold, ControlTypeOK
  <2>2. HoldEffect
    BY <1>5 DEF DeleteHold, HoldEffect, HoldOK, Holds, ControlTypeOK, ActiveUnderHold, Bound
  <2> QED BY <1>5, <2>1, <2>2, EffectFrame DEF DeleteHold
<1>6. ASSUME NEW f \in Files, DeleteJob(f) PROVE Effects
  <2>1. JobEffect
    BY <1>6 DEF DeleteJob, JobEffect, JobOK, JobObjects, Bound, Active, Terminal, ControlTypeOK,
        NoJob
  <2> QED BY <1>6, <2>1, EffectFrame DEF DeleteJob, passVars
<1>7. ASSUME NEW f \in Files, MoveFile(f) PROVE Effects
  BY <1>7, EffectFrame DEF MoveFile, passVars
<1>8. ASSUME EditCluster PROVE Effects
  <2>1. RootEffect
    BY <1>8 DEF EditCluster, RootEffect, ClusterOK, ControlTypeOK
  <2>2. MaintenanceEffect
    BY <1>8 DEF EditCluster, MaintenanceEffect, MaintenanceLocks, MaintOK, ClusterOK, ControlTypeOK
  <2> QED BY <1>8, <2>1, <2>2, EffectFrame DEF EditCluster
<1>9. ASSUME BeginPublish PROVE Effects
  BY <1>9, EffectFrame DEF BeginPublish, passVars, spaceVars
<1>10. ASSUME CommitListing PROVE Effects
  BY <1>10, EffectFrame DEF CommitListing
<1>11. ASSUME AbandonScan PROVE Effects
  BY <1>11, EffectFrame DEF AbandonScan, passVars, spaceVars
<1>12. ASSUME RestartInventory PROVE Effects
  BY <1>12, EffectFrame DEF RestartInventory
<1>13. ASSUME Lapse PROVE Effects
  BY <1>13, EffectFrame DEF Lapse, passVars
<1>14. ASSUME Heartbeat PROVE Effects
  BY <1>14, EffectFrame DEF Heartbeat
<1>15. ASSUME NEW f \in Files, PublishRow(f) PROVE Effects
  BY <1>15, EffectFrame DEF PublishRow
<1>16. ASSUME NEW f \in Files, PublishHold(f) PROVE Effects
  <2>1. JobEffect
    BY <1>16, RefuseOK, RefusedEffect, EffectFrame DEF PublishHold, ControlTypeOK
  <2>2. HoldEffect
    BY <1>16 DEF PublishHold, HoldEffect, HoldOK, Holds, ControlTypeOK
  <2> QED BY <1>16, <2>1, <2>2, EffectFrame DEF PublishHold
<1>17. ASSUME PassRefuse PROVE Effects
  <2>1. JobEffect
    BY <1>17, RefuseOK, RefusedEffect DEF PassRefuse, ControlTypeOK
  <2> QED BY <1>17, <2>1, EffectFrame DEF PassRefuse
<1>18. ASSUME PassSnapshot PROVE Effects
  BY <1>18, EffectFrame DEF PassSnapshot, spaceVars
<1>19. ASSUME PassPlan PROVE Effects
  BY <1>19, EffectFrame DEF PassPlan, spaceVars
<1>20. ASSUME PassAccept PROVE Effects
  <2>1. RootEffect
    BY <1>20 DEF PassAccept, RootEffect, ClusterOK, ControlTypeOK
  <2>2. MaintenanceEffect
    BY <1>20 DEF PassAccept, MaintenanceEffect, MaintenanceLocks, MaintOK, ClusterOK, ControlTypeOK
  <2> QED BY <1>20, <2>1, <2>2, EffectFrame DEF PassAccept
<1>21. ASSUME NEW t \in Titles, PassDrift(t) PROVE Effects
  <2>1. ProofEffect
    BY <1>21 DEF PassDrift, ProofEffect, ProofOK, Proofs, InstallerOK, ControlTypeOK
  <2> QED BY <1>21, <2>1, EffectFrame DEF PassDrift
<1>22. ASSUME NEW t \in Titles, PassWantPhase(t) PROVE Effects
  BY <1>22, EffectFrame DEF PassWantPhase
<1>23. ASSUME NEW f \in Files, PassWantFile(f) PROVE Effects
  <2>1. JobEffect
    BY <1>23, CreatedEffect DEF PassWantFile, ControlTypeOK
  <2> QED BY <1>23, <2>1, EffectFrame DEF PassWantFile
<1>24. ASSUME NEW f \in Files, PassHold(f) PROVE Effects
  <2>1. JobEffect
    BY <1>24, CreatedEffect DEF PassHold, ControlTypeOK
  <2> QED BY <1>24, <2>1, EffectFrame DEF PassHold
<1>25. ASSUME NEW f \in Files, Bind(f) PROVE Effects
  <2>1. JobEffect
    BY <1>25 DEF Bind, JobEffect, JobOK, JobObjects, Bound, Active, Terminal, ControlTypeOK
  <2> QED BY <1>25, <2>1, EffectFrame DEF Bind, passVars
<1>26. ASSUME NEW f \in Files, RecordProof(f) PROVE Effects
  <2>1. ProofEffect
    BY <1>26 DEF RecordProof, ProofEffect, ProofOK, Proofs, InstallerOK, ControlTypeOK
  <2> QED BY <1>26, <2>1, EffectFrame DEF RecordProof
<1>27. ASSUME NEW f \in Files, EndJob(f) PROVE Effects
  <2>1. JobEffect
    BY <1>27 DEF EndJob, JobEffect, JobOK, JobObjects, Bound, Active, Terminal, ControlTypeOK
  <2> QED BY <1>27, <2>1, EffectFrame DEF EndJob, passVars
<1>28. ASSUME MaintenanceLock PROVE Effects
  <2>1. RootEffect
    BY <1>28 DEF MaintenanceLock, RootEffect, ClusterOK, ControlTypeOK, SetLock
  <2>2. MaintenanceEffect
    BY <1>28 DEF MaintenanceLock, MaintenanceEffect, MaintenanceLocks, MaintOK, ClusterOK,
        ControlTypeOK, SetLock
  <2> QED BY <1>28, <2>1, <2>2, EffectFrame DEF MaintenanceLock
<1>29. ASSUME MaintenanceCheck PROVE Effects
  <2>1. RootEffect
    BY <1>29 DEF MaintenanceCheck, RootEffect, ClusterOK, ControlTypeOK, SetLock
  <2>2. MaintenanceEffect
    BY <1>29 DEF MaintenanceCheck, MaintenanceEffect, MaintenanceLocks, MaintOK, ClusterOK,
        ControlTypeOK, NoMaintenance, SetLock
  <2> QED BY <1>29, <2>1, <2>2, EffectFrame DEF MaintenanceCheck
<1>30. ASSUME Relocate PROVE Effects
  <2>1. RootEffect
    BY <1>30 DEF Relocate, RootEffect, ClusterOK, ControlTypeOK
  <2>2. MaintenanceEffect
    BY <1>30 DEF Relocate, MaintenanceEffect, MaintenanceLocks, MaintOK, ClusterOK, ControlTypeOK
  <2> QED BY <1>30, <2>1, <2>2, EffectFrame DEF Relocate
<1>31. ASSUME MaintenanceFinish PROVE Effects
  <2>1. RootEffect
    BY <1>31 DEF MaintenanceFinish, RootEffect, ClusterOK, ControlTypeOK, SetLock
  <2>2. MaintenanceEffect
    BY <1>31 DEF MaintenanceFinish, MaintenanceEffect, MaintenanceLocks, MaintOK, ClusterOK,
        ControlTypeOK, NoMaintenance, SetLock
  <2> QED BY <1>31, <2>1, <2>2, EffectFrame DEF MaintenanceFinish
<1>32. ASSUME MaintenanceFails PROVE Effects
  <2>1. MaintenanceEffect
    BY <1>32 DEF MaintenanceFails, MaintenanceEffect, MaintenanceLocks, MaintOK, ClusterOK,
        ControlTypeOK, NoMaintenance
  <2> QED BY <1>32, <2>1, EffectFrame DEF MaintenanceFails, passVars, spaceVars
<1>33. ASSUME NEW f \in Files, ImportProof(f) PROVE Effects
  <2>1. MaintenanceEffect
    BY <1>33 DEF ImportProof, MaintenanceEffect, MaintenanceLocks, MaintOK, ClusterOK, ControlTypeOK
  <2>2. ProofEffect
    BY <1>33 DEF ImportProof, ProofEffect, ProofOK, Proofs, InstallerOK, ControlTypeOK
  <2> QED BY <1>33, <2>1, <2>2, EffectFrame DEF ImportProof
<1> QED BY <1>1, <1>2, <1>3, <1>4, <1>5, <1>6, <1>7, <1>8, <1>9, <1>10, <1>11, <1>12, <1>13,
    <1>14, <1>15, <1>16, <1>17, <1>18, <1>19, <1>20, <1>21, <1>22, <1>23, <1>24, <1>25, <1>26,
    <1>27, <1>28, <1>29, <1>30, <1>31, <1>32, <1>33
    DEF ControlNext, OperatorStep, InventoryStep, ControllerStep, WorkerStep, MaintenanceStep

-----------------------------------------------------------------------------
(* The safety invariants *)

\* An imported proof is a proof: it stands in the way of every later pull.
ImportedIsProved == \A f \in Files : installer[f] = "import" => proof[f] # "none"

SafeInv ==
    /\ ControlTypeOK
    /\ ApprovalOutlivesJob
    /\ JobsFollowRoot
    /\ MaintenanceLocks /\ MaintenanceIsAlone
    /\ ImportedIsProved /\ NoSecondInstall

\* The safety invariants hold before anything has been published.
LEMMA SafeInit == ControlInit => SafeInv
<1> SUFFICES ASSUME ControlInit PROVE SafeInv
  OBVIOUS
<1>1. ControlTypeOK
  BY TypeInit
<1>2. Bound = {} /\ maint.pc = "idle"
  BY DEF ControlInit, Bound, Active, NoJob, NoMaintenance
<1>3. \A f \in Files : job[f].phase # "Pending" /\ installer[f] # "import"
  BY DEF ControlInit, NoJob
<1> QED BY <1>1, <1>2, <1>3 DEF SafeInv, ApprovalOutlivesJob, JobsFollowRoot, MaintenanceLocks,
         MaintenanceIsAlone, ImportedIsProved, NoSecondInstall

\* Every step keeps them; each follows from the effects it depends on.
LEMMA SafeStep == SafeInv /\ [ControlNext]_controlVars => SafeInv'
<1> SUFFICES ASSUME SafeInv, [ControlNext]_controlVars PROVE SafeInv'
  OBVIOUS
<1>1. ControlTypeOK'
  BY TypeStep DEF SafeInv
<1>2. JobEffect /\ HoldEffect /\ RootEffect /\ MaintenanceEffect /\ ProofEffect
  <2>1. CASE ControlNext
    BY <2>1, StepEffects DEF SafeInv
  <2>2. CASE UNCHANGED controlVars
    BY <2>2, EffectFrame DEF controlVars, spaceVars
  <2> QED BY <2>1, <2>2
<1>3. ApprovalOutlivesJob'
  <2> SUFFICES ASSUME NEW f \in Files, f \in Bound', job'[f].auth = "hold"
               PROVE  hold'[f].decision = "Approved"
    BY DEF ApprovalOutlivesJob
  <2>1. CASE f \in Bound /\ job'[f].auth = job[f].auth
    BY <1>2, <2>1 DEF SafeInv, ApprovalOutlivesJob, HoldEffect
  <2>2. CASE Bind(f)
    <3>1. job'[f].auth = job[f].auth /\ UNCHANGED hold
      BY <2>2 DEF Bind, SafeInv, ControlTypeOK, JobOK, JobObjects
    <3> QED BY <2>2, <3>1 DEF Bind, Authorized
  <2> QED BY <1>2, <2>1, <2>2 DEF JobEffect
<1>4. JobsFollowRoot'
  <2> SUFFICES ASSUME NEW f \in Files, job'[f].phase = "Pending"
               PROVE  job'[f].root = cluster'.root
    BY DEF JobsFollowRoot
  <2>1. CASE cluster'.root = cluster.root
    BY <1>2, <2>1 DEF SafeInv, JobsFollowRoot, JobEffect
  <2>2. CASE UNCHANGED job /\ RootChangeAllowed(cluster'.root)
    BY <2>2 DEF SafeInv, JobsFollowRoot, RootChangeAllowed, Terminal
  <2> QED BY <1>2, <2>1, <2>2 DEF RootEffect
<1>5. MaintenanceLocks'
  BY <1>2 DEF SafeInv, MaintenanceEffect
<1>6. \A f \in Files : Bind(f) => maint.pc = "idle" /\ UNCHANGED <<maint,
    installer>> /\ proof[f] = "none"
  BY DEF SafeInv, MaintenanceLocks, Bind, Authorized
<1>7. MaintenanceIsAlone'
  <2> SUFFICES ASSUME maint'.pc \in {"running", "done"}, NEW f \in Bound'
               PROVE  FALSE
    BY DEF MaintenanceIsAlone
  <2>1. f \in Files
    BY DEF Bound
  <2>2. Bound = {}
    BY <1>2 DEF SafeInv, MaintenanceEffect, MaintenanceIsAlone
  <2>3. Bind(f)
    BY <1>2, <2>1, <2>2 DEF JobEffect
  <2> QED BY <1>6, <2>1, <2>3
<1>8. ImportedIsProved'
  BY <1>2 DEF SafeInv, ImportedIsProved, ProofEffect
<1>9. NoSecondInstall'
  <2> SUFFICES ASSUME NEW f \in Bound', installer'[f] = "import"
               PROVE  FALSE
    BY DEF NoSecondInstall
  <2>1. f \in Files
    BY DEF Bound
  <2>2. CASE Bind(f)
    BY <1>6, <2>1, <2>2 DEF SafeInv, ImportedIsProved
  <2>3. CASE f \in Bound
    BY <1>2, <2>1, <2>3 DEF SafeInv, NoSecondInstall, ProofEffect, MaintenanceIsAlone
  <2> QED BY <1>2, <2>1, <2>2, <2>3 DEF JobEffect
<1> QED BY <1>1, <1>3, <1>4, <1>5, <1>7, <1>8, <1>9 DEF SafeInv

\* The safety invariants always hold.
LEMMA Safe == ControlSpec => []SafeInv
BY SafeInit, SafeStep, PTL DEF ControlSpec

\* While a Job is bound under a Hold, the Hold stays approved.
THEOREM ApprovalsOutliveJobs == ControlSpec => []ApprovalOutlivesJob
<1>1. SafeInv => ApprovalOutlivesJob
  BY DEF SafeInv
<1> QED BY <1>1, Safe, PTL

\* A Pending Job, bound or not, is for the library root in force.
THEOREM JobsAlwaysFollowRoot == ControlSpec => []JobsFollowRoot
<1>1. SafeInv => JobsFollowRoot
  BY DEF SafeInv
<1> QED BY <1>1, Safe, PTL

\* No Job is bound while a maintenance command works on the library.
THEOREM MaintenanceRunsAlone == ControlSpec => []MaintenanceIsAlone
<1>1. SafeInv => MaintenanceIsAlone
  BY DEF SafeInv
<1> QED BY <1>1, Safe, PTL

\* A placement that maintenance installed is never pulled afterwards.
THEOREM InstalledOnce == ControlSpec => []NoSecondInstall
<1>1. SafeInv => NoSecondInstall
  BY DEF SafeInv
<1> QED BY <1>1, Safe, PTL

-----------------------------------------------------------------------------
(* The committed listing *)

\* What carries the generation of the scan being published belongs to it, and
\* that generation is not the committed one.
ScanIsFresh ==
    scan.pc = "rows" =>
        /\ scan.gen > node.gen
        /\ \A f \in Files : row[f] = scan.gen => f \in scan.files
        /\ \A f \in Files : hold[f].gen = scan.gen => f \in scan.held
        /\ scan.rows \subseteq scan.files /\ scan.holds \subseteq scan.held

ListingInv == ScanIsFresh /\ ListingIsOneScan

\* Only rows, Holds, the Node and the scan matter to the listing.
LEMMA ListingFrame ==
    ASSUME ListingInv, UNCHANGED <<row, hold, node, scan, committed>>
    PROVE  ListingInv'
BY DEF ListingInv, ScanIsFresh, ListingIsOneScan, Live

\* Every action keeps the listing: publication writes only the generation of
\* its scan, which no committed object carries, and the commit makes it current.
LEMMA ListingStep ==
    ASSUME ControlTypeOK, ListingInv, ControlNext
    PROVE  ListingInv'
<1>1. ASSUME NEW t \in Titles, CreateWant(t) PROVE ListingInv'
  BY <1>1, ListingFrame DEF CreateWant
<1>2. ASSUME NEW t \in Titles, DeleteWant(t) PROVE ListingInv'
  BY <1>2, ListingFrame DEF DeleteWant
<1>3. ASSUME NEW f \in Files, ApproveHold(f) PROVE ListingInv'
  <2>1. ScanIsFresh'
    BY <1>3 DEF ApproveHold, ListingInv, ScanIsFresh, ListingIsOneScan, Live, ControlTypeOK,
        ScanOK, HoldOK, Holds, RowOK, Rows,
        NodeOK, Nodes
  <2>2. ListingIsOneScan'
    BY <1>3 DEF ApproveHold, ListingInv, ScanIsFresh, ListingIsOneScan, Live, ControlTypeOK,
        ScanOK, HoldOK, Holds, RowOK, Rows,
        NodeOK, Nodes
  <2> QED BY <2>1, <2>2 DEF ListingInv
<1>4. ASSUME NEW f \in Files, RevokeHold(f) PROVE ListingInv'
  <2>1. ScanIsFresh'
    BY <1>4 DEF RevokeHold, ListingInv, ScanIsFresh, ListingIsOneScan, Live, ControlTypeOK,
        ScanOK, HoldOK, Holds, RowOK, Rows,
        NodeOK, Nodes
  <2>2. ListingIsOneScan'
    BY <1>4 DEF RevokeHold, ListingInv, ScanIsFresh, ListingIsOneScan, Live, ControlTypeOK,
        ScanOK, HoldOK, Holds, RowOK, Rows,
        NodeOK, Nodes
  <2> QED BY <2>1, <2>2 DEF ListingInv
<1>5. ASSUME NEW f \in Files, DeleteHold(f) PROVE ListingInv'
  <2>1. ScanIsFresh'
    BY <1>5 DEF DeleteHold, ListingInv, ScanIsFresh, ListingIsOneScan, Live, ControlTypeOK,
        ScanOK, HoldOK, Holds, RowOK, Rows,
        NodeOK, Nodes, NoHold
  <2>2. ListingIsOneScan'
    BY <1>5 DEF DeleteHold, ListingInv, ScanIsFresh, ListingIsOneScan, Live, ControlTypeOK,
        ScanOK, HoldOK, Holds, RowOK, Rows,
        NodeOK, Nodes, NoHold
  <2> QED BY <2>1, <2>2 DEF ListingInv
<1>6. ASSUME NEW f \in Files, DeleteJob(f) PROVE ListingInv'
  BY <1>6, ListingFrame DEF DeleteJob, passVars
<1>7. ASSUME NEW f \in Files, MoveFile(f) PROVE ListingInv'
  BY <1>7, ListingFrame DEF MoveFile, passVars
<1>8. ASSUME EditCluster PROVE ListingInv'
  BY <1>8, ListingFrame DEF EditCluster
<1>9. ASSUME BeginPublish PROVE ListingInv'
  <2>1. ScanIsFresh'
    BY <1>9 DEF BeginPublish, ListingInv, ScanIsFresh, ListingIsOneScan, Live, ControlTypeOK,
        ScanOK, HoldOK, Holds, RowOK, Rows,
        NodeOK, Nodes, ListGeneration, Generations, spaceVars
  <2>2. ListingIsOneScan'
    BY <1>9 DEF BeginPublish, ListingInv, ScanIsFresh, ListingIsOneScan, Live, ControlTypeOK,
        ScanOK, HoldOK, Holds, RowOK, Rows,
        NodeOK, Nodes, ListGeneration, Generations, spaceVars
  <2> QED BY <2>1, <2>2 DEF ListingInv
<1>10. ASSUME CommitListing PROVE ListingInv'
  <2>1. ScanIsFresh'
    BY <1>10 DEF CommitListing, ListingInv, ScanIsFresh, ListingIsOneScan, Live, ControlTypeOK,
        ScanOK, HoldOK, Holds, RowOK, Rows,
        NodeOK, Nodes, IdleScan
  <2>2. ListingIsOneScan'
    BY <1>10 DEF CommitListing, ListingInv, ScanIsFresh, ListingIsOneScan, Live, ControlTypeOK,
        ScanOK, HoldOK, Holds, RowOK, Rows,
        NodeOK, Nodes, IdleScan
  <2> QED BY <2>1, <2>2 DEF ListingInv
<1>11. ASSUME AbandonScan PROVE ListingInv'
  <2>1. ScanIsFresh'
    BY <1>11 DEF AbandonScan, ListingInv, ScanIsFresh, ListingIsOneScan, Live, ControlTypeOK,
        ScanOK, HoldOK, Holds, RowOK, Rows,
        NodeOK, Nodes, IdleScan, spaceVars
  <2>2. ListingIsOneScan'
    BY <1>11 DEF AbandonScan, ListingInv, ScanIsFresh, ListingIsOneScan, Live, ControlTypeOK,
        ScanOK, HoldOK, Holds, RowOK, Rows,
        NodeOK, Nodes, IdleScan, spaceVars
  <2> QED BY <2>1, <2>2 DEF ListingInv
<1>12. ASSUME RestartInventory PROVE ListingInv'
  <2>1. ScanIsFresh'
    BY <1>12 DEF RestartInventory, ListingInv, ScanIsFresh, ListingIsOneScan, Live,
        ControlTypeOK, ScanOK, HoldOK, Holds, RowOK, Rows,
        NodeOK, Nodes, IdleScan
  <2>2. ListingIsOneScan'
    BY <1>12 DEF RestartInventory, ListingInv, ScanIsFresh, ListingIsOneScan, Live,
        ControlTypeOK, ScanOK, HoldOK, Holds, RowOK, Rows,
        NodeOK, Nodes, IdleScan
  <2> QED BY <2>1, <2>2 DEF ListingInv
<1>13. ASSUME Lapse PROVE ListingInv'
  <2>1. ScanIsFresh'
    BY <1>13 DEF Lapse, ListingInv, ScanIsFresh, ListingIsOneScan, Live, ControlTypeOK, ScanOK,
        HoldOK, Holds, RowOK, Rows,
        NodeOK, Nodes
  <2>2. ListingIsOneScan'
    BY <1>13 DEF Lapse, ListingInv, ScanIsFresh, ListingIsOneScan, Live, ControlTypeOK, ScanOK,
        HoldOK, Holds, RowOK, Rows,
        NodeOK, Nodes
  <2> QED BY <2>1, <2>2 DEF ListingInv
<1>14. ASSUME Heartbeat PROVE ListingInv'
  <2>1. ScanIsFresh'
    BY <1>14 DEF Heartbeat, ListingInv, ScanIsFresh, ListingIsOneScan, Live, ControlTypeOK,
        ScanOK, HoldOK, Holds, RowOK, Rows,
        NodeOK, Nodes
  <2>2. ListingIsOneScan'
    BY <1>14 DEF Heartbeat, ListingInv, ScanIsFresh, ListingIsOneScan, Live, ControlTypeOK,
        ScanOK, HoldOK, Holds, RowOK, Rows,
        NodeOK, Nodes
  <2> QED BY <2>1, <2>2 DEF ListingInv
<1>15. ASSUME NEW f \in Files, PublishRow(f) PROVE ListingInv'
  <2>1. ScanIsFresh'
    BY <1>15 DEF PublishRow, ListingInv, ScanIsFresh, ListingIsOneScan, Live, ControlTypeOK,
        ScanOK, HoldOK, Holds, RowOK, Rows,
        NodeOK, Nodes
  <2>2. ListingIsOneScan'
    BY <1>15 DEF PublishRow, ListingInv, ScanIsFresh, ListingIsOneScan, Live, ControlTypeOK,
        ScanOK, HoldOK, Holds, RowOK, Rows,
        NodeOK, Nodes
  <2> QED BY <2>1, <2>2 DEF ListingInv
<1>16. ASSUME NEW f \in Files, PublishHold(f) PROVE ListingInv'
  <2>1. ScanIsFresh'
    BY <1>16 DEF PublishHold, ListingInv, ScanIsFresh, ListingIsOneScan, Live, ControlTypeOK,
        ScanOK, HoldOK, Holds, RowOK, Rows,
        NodeOK, Nodes
  <2>2. ListingIsOneScan'
    BY <1>16 DEF PublishHold, ListingInv, ScanIsFresh, ListingIsOneScan, Live, ControlTypeOK,
        ScanOK, HoldOK, Holds, RowOK, Rows,
        NodeOK, Nodes
  <2> QED BY <2>1, <2>2 DEF ListingInv
<1>17. ASSUME PassRefuse PROVE ListingInv'
  BY <1>17, ListingFrame DEF PassRefuse
<1>18. ASSUME PassSnapshot PROVE ListingInv'
  BY <1>18, ListingFrame DEF PassSnapshot, spaceVars
<1>19. ASSUME PassPlan PROVE ListingInv'
  BY <1>19, ListingFrame DEF PassPlan, spaceVars
<1>20. ASSUME PassAccept PROVE ListingInv'
  BY <1>20, ListingFrame DEF PassAccept
<1>21. ASSUME NEW t \in Titles, PassDrift(t) PROVE ListingInv'
  BY <1>21, ListingFrame DEF PassDrift
<1>22. ASSUME NEW t \in Titles, PassWantPhase(t) PROVE ListingInv'
  BY <1>22, ListingFrame DEF PassWantPhase
<1>23. ASSUME NEW f \in Files, PassWantFile(f) PROVE ListingInv'
  BY <1>23, ListingFrame DEF PassWantFile
<1>24. ASSUME NEW f \in Files, PassHold(f) PROVE ListingInv'
  BY <1>24, ListingFrame DEF PassHold
<1>25. ASSUME NEW f \in Files, Bind(f) PROVE ListingInv'
  BY <1>25, ListingFrame DEF Bind, passVars
<1>26. ASSUME NEW f \in Files, RecordProof(f) PROVE ListingInv'
  BY <1>26, ListingFrame DEF RecordProof
<1>27. ASSUME NEW f \in Files, EndJob(f) PROVE ListingInv'
  BY <1>27, ListingFrame DEF EndJob, passVars
<1>28. ASSUME MaintenanceLock PROVE ListingInv'
  BY <1>28, ListingFrame DEF MaintenanceLock
<1>29. ASSUME MaintenanceCheck PROVE ListingInv'
  BY <1>29, ListingFrame DEF MaintenanceCheck
<1>30. ASSUME Relocate PROVE ListingInv'
  BY <1>30, ListingFrame DEF Relocate
<1>31. ASSUME MaintenanceFinish PROVE ListingInv'
  BY <1>31, ListingFrame DEF MaintenanceFinish
<1>32. ASSUME MaintenanceFails PROVE ListingInv'
  BY <1>32, ListingFrame DEF MaintenanceFails, passVars, spaceVars
<1>33. ASSUME NEW f \in Files, ImportProof(f) PROVE ListingInv'
  BY <1>33, ListingFrame DEF ImportProof
<1> QED BY <1>1, <1>2, <1>3, <1>4, <1>5, <1>6, <1>7, <1>8, <1>9, <1>10, <1>11, <1>12, <1>13,
    <1>14, <1>15, <1>16, <1>17, <1>18, <1>19, <1>20, <1>21, <1>22, <1>23, <1>24, <1>25, <1>26,
    <1>27, <1>28, <1>29, <1>30, <1>31, <1>32, <1>33
    DEF ControlNext, OperatorStep, InventoryStep, ControllerStep, WorkerStep, MaintenanceStep

\* Rows and live Holds of the committed generation always stem from the one
\* scan that committed it.
THEOREM ListingsAreOneScan == ControlSpec => []ListingIsOneScan
<1>1. ControlInit => ListingInv
  BY DEF ControlInit, ListingInv, ScanIsFresh, ListingIsOneScan, Live, IdleScan, NoNode, NoHold
<1>2. ControlTypeOK /\ ListingInv /\ [ControlNext]_controlVars => ListingInv'
  BY ListingStep, ListingFrame DEF controlVars, spaceVars
<1>3. ListingInv => ListingIsOneScan
  BY DEF ListingInv
<1> QED BY <1>1, <1>2, <1>3, ControlTypeCorrect, PTL DEF ControlSpec

-----------------------------------------------------------------------------
(* Sums.  Facts about every finite set are proved of a smallest            *)
(* counterexample: numbers have a least element in each nonempty set.      *)

\* The element the fold takes first.
Pick(s) == CHOOSE x \in s : TRUE

\* f adds up every set of T.
Adds(f, T) == f = [s \in T |-> IF s = {} THEN 0 ELSE Size[Pick(s)] + f[s \ {Pick(s)}]]

\* Total is the fold's function on the subsets of S, applied to S.
LEMMA TotalIsFold ==
    ASSUME NEW S
    PROVE  Total(S) = (CHOOSE f : Adds(f, SUBSET S))[S]
  BY DEF Total, MapThenSumSet, MapThenFoldSet, Adds, Pick

\* A set of numbers that is not empty has a least element.
LEMMA Least ==
    ASSUME NEW S \in SUBSET Nat, S # {}
    PROVE  \E x \in S : \A y \in S : x <= y
<1> DEFINE R == OpToRel(<, Nat)
<1>1. IsWellFoundedOn(R, Nat)
  BY NatLessThanWellFounded
<1>2. \A x, y \in Nat : y < x => <<y, x>> \in R
  BY DEF OpToRel
<1> HIDE DEF R
<1>3. PICK x \in S : \A y \in S : ~ (<<y, x>> \in R)
  BY <1>1, WFMin
<1>4. ASSUME NEW y \in S PROVE x <= y
  <2>1. ~ (y < x)
    BY <1>2, <1>3
  <2> QED BY <2>1
<1> QED BY <1>4

\* The subsets of S with at most n elements.
UpTo(S, n) == {s \in SUBSET S : Cardinality(s) <= n}

\* Taking one element leaves a smaller set.
LEMMA Taken ==
    ASSUME NEW S, IsFiniteSet(S), NEW s \in SUBSET S, s # {}
    PROVE  /\ IsFiniteSet(s) /\ Cardinality(s) \in Nat /\ Cardinality(s) > 0
           /\ \A x \in s : /\ s \ {x} \in SUBSET S
                           /\ Cardinality(s \ {x}) = Cardinality(s) - 1
           /\ Pick(s) \in s
<1>1. IsFiniteSet(s)
  BY FS_Subset
<1>2. Cardinality(s) \in Nat /\ Cardinality(s) # 0
  BY <1>1, FS_CardinalityType, FS_EmptySet
<1>3. \A x \in s : Cardinality(s \ {x}) = Cardinality(s) - 1
  BY <1>1, FS_RemoveElement
<1>4. Pick(s) \in s
  BY DEF Pick
<1> QED BY <1>1, <1>2, <1>3, <1>4

\* The fold has a function on the subsets of S of at most n elements: by least
\* counterexample.
LEMMA FoldUpTo ==
    ASSUME NEW S, IsFiniteSet(S), NEW n \in Nat
    PROVE  \E f : Adds(f, UpTo(S, n))
<1> DEFINE Bad == {m \in Nat : ~ \E f : Adds(f, UpTo(S, m))}
<1> SUFFICES ASSUME Bad # {} PROVE FALSE
  OBVIOUS
<1>1. PICK m \in Bad : \A i \in Bad : m <= i
  <2>1. Bad \in SUBSET Nat
    OBVIOUS
  <2> HIDE DEF Bad
  <2> QED BY <2>1, Least
<1>2. m \in Nat /\ ~ \E f : Adds(f, UpTo(S, m))
  OBVIOUS
<1>3. m # 0
  <2> SUFFICES ASSUME m = 0 PROVE FALSE
    OBVIOUS
  <2>0. \A s \in SUBSET S : Cardinality(s) <= 0 <=> s = {}
    <3>1. \A s \in SUBSET S : s # {} => Cardinality(s) \in Nat /\ Cardinality(s) > 0
      BY Taken
    <3>2. Cardinality({}) = 0
      BY FS_EmptySet
    <3> QED BY <3>1, <3>2
  <2>1. UpTo(S, m) = {{}}
    BY <2>0 DEF UpTo
  <2>2. Adds([s \in {{}} |-> 0], UpTo(S, m))
    BY <2>1 DEF Adds
  <2> QED BY <1>2, <2>2
<1>4. m - 1 \in Nat /\ m - 1 \notin Bad
  BY <1>1, <1>2, <1>3
<1>5. PICK f : Adds(f, UpTo(S, m - 1))
  BY <1>4
<1> DEFINE g == [s \in UpTo(S, m) |-> IF s = {} THEN 0 ELSE Size[Pick(s)] + f[s \ {Pick(s)}]]
<1>6. ASSUME NEW s \in UpTo(S, m), s # {}
      PROVE  /\ s \ {Pick(s)} \in UpTo(S, m)
             /\ g[s \ {Pick(s)}] = f[s \ {Pick(s)}]
  <2>1. /\ s \ {Pick(s)} \in UpTo(S, m) /\ s \ {Pick(s)} \in UpTo(S, m - 1)
    BY <1>2, <1>6, Taken DEF UpTo
  <2> QED BY <2>1, <1>5 DEF Adds
<1>7. Adds(g, UpTo(S, m))
  <2>1. \A s \in UpTo(S, m) : g[s] = IF s = {} THEN 0 ELSE Size[Pick(s)] + g[s \ {Pick(s)}]
    <3> SUFFICES ASSUME NEW s \in UpTo(S, m)
                 PROVE  g[s] = IF s = {} THEN 0 ELSE Size[Pick(s)] + g[s \ {Pick(s)}]
      OBVIOUS
    <3>1. CASE s = {}
      BY <3>1
    <3>2. CASE s # {}
      <4>1. g[s] = Size[Pick(s)] + f[s \ {Pick(s)}]
        BY <3>2
      <4>2. g[s \ {Pick(s)}] = f[s \ {Pick(s)}]
        BY <1>6, <3>2
      <4> QED BY <3>2, <4>1, <4>2
    <3> QED BY <3>1, <3>2
  <2>2. g = [s \in UpTo(S, m) |-> g[s]]
    OBVIOUS
  <2> HIDE DEF g
  <2>3. g = [s \in UpTo(S, m) |-> IF s = {} THEN 0 ELSE Size[Pick(s)] + g[s \ {Pick(s)}]]
    BY <2>1, <2>2
  <2> QED BY <2>3 DEF Adds
<1> QED BY <1>2, <1>7

\* So it has one on all the subsets of a finite S.
LEMMA FoldExists ==
    ASSUME NEW S, IsFiniteSet(S)
    PROVE  Adds(CHOOSE f : Adds(f, SUBSET S), SUBSET S)
<1>1. Cardinality(S) \in Nat
  BY FS_CardinalityType
<1>2. \A s \in SUBSET S : Cardinality(s) <= Cardinality(S)
  BY FS_Subset
<1>3. UpTo(S, Cardinality(S)) = SUBSET S
  BY <1>2 DEF UpTo
<1>4. \E f : Adds(f, UpTo(S, Cardinality(S)))
  BY <1>1, FoldUpTo
<1>5. \E f : Adds(f, SUBSET S)
  BY <1>3, <1>4
<1> QED BY <1>5

\* A set of subsets that is not empty has a smallest member.
LEMMA Smallest ==
    ASSUME NEW S, IsFiniteSet(S), NEW C \in SUBSET (SUBSET S), C # {}
    PROVE  \E s \in C : \A t \in C : Cardinality(s) <= Cardinality(t)
<1> DEFINE N == {Cardinality(s) : s \in C}
<1>1. \A s \in C : Cardinality(s) \in Nat
  BY FS_Subset, FS_CardinalityType
<1>2. N \in SUBSET Nat /\ N # {}
  BY <1>1
<1>3. PICK n \in N : \A i \in N : n <= i
  <2> HIDE DEF N
  <2> QED BY <1>2, Least
<1> QED BY <1>3

\* What the total of a set is: one of its members, and the total of the rest.
LEMMA TotalTakes ==
    ASSUME NEW S \in SUBSET Files
    PROVE  Total(S) = IF S = {} THEN 0 ELSE Size[Pick(S)] + Total(S \ {Pick(S)})
<1> DEFINE F(T) == CHOOSE f : Adds(f, SUBSET T)
<1>0. \A T \in SUBSET Files : IsFiniteSet(T) /\ Adds(F(T), SUBSET T) /\ Total(T) = F(T)[T]
  BY ControlAssumption, FS_Subset, FoldExists, TotalIsFold
<1> HIDE DEF F
<1>1. \A T \in SUBSET Files : \A s \in SUBSET T :
        F(T)[s] = IF s = {} THEN 0 ELSE Size[Pick(s)] + F(T)[s \ {Pick(s)}]
  BY <1>0 DEF Adds
<1>2. ASSUME NEW T \in SUBSET Files, NEW U \in SUBSET T
      PROVE  F(T)[U] = F(U)[U]
  <2> DEFINE C == {s \in SUBSET U : F(T)[s] # F(U)[s]}
  <2> SUFFICES ASSUME C # {} PROVE FALSE
    OBVIOUS
  <2>1. PICK s \in C : \A t \in C : Cardinality(s) <= Cardinality(t)
    <3>1. IsFiniteSet(U) /\ C \in SUBSET (SUBSET U)
      BY <1>0
    <3> HIDE DEF C
    <3> QED BY <3>1, Smallest
  <2>2. s \in SUBSET U /\ s \in SUBSET T /\ F(T)[s] # F(U)[s]
    OBVIOUS
  <2>3. s # {}
    BY <1>1, <2>2
  <2>4. Cardinality(s) \in Nat /\ Cardinality(s \ {Pick(s)}) = Cardinality(s) - 1
    BY <1>0, <2>2, <2>3, Taken
  <2>5. s \ {Pick(s)} \notin C
    BY <2>1, <2>4
  <2>6. F(T)[s \ {Pick(s)}] = F(U)[s \ {Pick(s)}]
    BY <2>2, <2>5
  <2> QED BY <1>1, <2>2, <2>3, <2>6
<1>3. CASE S = {}
  BY <1>0, <1>1, <1>3
<1>4. CASE S # {}
  <2>1. Total(S) = Size[Pick(S)] + F(S)[S \ {Pick(S)}]
    BY <1>0, <1>1, <1>4
  <2>2. F(S)[S \ {Pick(S)}] = Total(S \ {Pick(S)})
    BY <1>0, <1>2
  <2> QED BY <1>4, <2>1, <2>2
<1> QED BY <1>3, <1>4

\* Totals are numbers.
LEMMA TotalType ==
    ASSUME NEW S \in SUBSET Files
    PROVE  Total(S) \in Nat
<1> DEFINE C == {s \in SUBSET Files : Total(s) \notin Nat}
<1> SUFFICES ASSUME C # {} PROVE FALSE
  OBVIOUS
<1>1. PICK s \in C : \A t \in C : Cardinality(s) <= Cardinality(t)
  <2>1. C \in SUBSET (SUBSET Files)
    OBVIOUS
  <2> HIDE DEF C
  <2> QED BY <2>1, ControlAssumption, Smallest
<1>2. s \in SUBSET Files /\ Total(s) \notin Nat
  OBVIOUS
<1>3. s # {}
  <2>1. Total({}) = 0
    BY TotalTakes
  <2> QED BY <1>2, <2>1
<1>4. /\ Cardinality(s) \in Nat /\ Cardinality(s \ {Pick(s)}) = Cardinality(s) - 1
      /\ Pick(s) \in s
  BY <1>2, <1>3, ControlAssumption, Taken
<1>5. Total(s \ {Pick(s)}) \in Nat
  BY <1>1, <1>2, <1>4
<1>6. Size[Pick(s)] \in Nat
  BY <1>2, <1>4, ControlAssumption
<1> QED BY <1>2, <1>3, <1>5, <1>6, TotalTakes

\* The order of summation does not matter.
LEMMA TotalSplits ==
    ASSUME NEW S \in SUBSET Files, NEW x \in S
    PROVE  Total(S) = Size[x] + Total(S \ {x})
<1> DEFINE C == {s \in SUBSET Files : \E y \in s : Total(s) # Size[y] + Total(s \ {y})}
<1> SUFFICES ASSUME C # {} PROVE FALSE
  OBVIOUS
<1>1. PICK s \in C : \A t \in C : Cardinality(s) <= Cardinality(t)
  <2>1. C \in SUBSET (SUBSET Files)
    OBVIOUS
  <2> HIDE DEF C
  <2> QED BY <2>1, ControlAssumption, Smallest
<1>2. PICK y \in s : Total(s) # Size[y] + Total(s \ {y})
  OBVIOUS
<1> DEFINE p == Pick(s)
           r == (s \ {p}) \ {y}
<1>3. /\ s \in SUBSET Files /\ s # {}
      /\ Cardinality(s) \in Nat /\ p \in s
      /\ Cardinality(s \ {p}) = Cardinality(s) - 1
      /\ Cardinality(s \ {y}) = Cardinality(s) - 1
  BY ControlAssumption, Taken
<1>4. Total(s) = Size[p] + Total(s \ {p})
  BY <1>3, TotalTakes
<1>5. y # p
  BY <1>2, <1>4
<1>6. s \ {p} \notin C /\ s \ {y} \notin C
  <2> HIDE DEF C, p
  <2> QED BY <1>1, <1>3
<1>7. Total(s \ {p}) = Size[y] + Total(r)
  BY <1>3, <1>5, <1>6
<1>8. Total(s \ {y}) = Size[p] + Total(r)
  <2>1. (s \ {y}) \ {p} = r /\ p \in s \ {y}
    BY <1>3, <1>5
  <2> QED BY <2>1, <1>3, <1>6
<1>9. Size[p] \in Nat /\ Size[y] \in Nat /\ Total(r) \in Nat
  BY <1>3, ControlAssumption, TotalType
<1> QED BY <1>2, <1>4, <1>7, <1>8, <1>9

\* A part is no larger than the whole.
LEMMA TotalMonotone ==
    ASSUME NEW S \in SUBSET Files, NEW T \in SUBSET S
    PROVE  Total(T) <= Total(S)
<1> DEFINE C == {s \in SUBSET S : T \subseteq s /\ ~(Total(T) <= Total(s))}
<1> SUFFICES ASSUME C # {} PROVE FALSE
  BY DEF C
<1>1. PICK s \in C : \A t \in C : Cardinality(s) <= Cardinality(t)
  <2>1. C \in SUBSET (SUBSET S) /\ IsFiniteSet(S)
    BY ControlAssumption, FS_Subset
  <2> HIDE DEF C
  <2> QED BY <2>1, Smallest
<1>2. s \in SUBSET Files /\ s \in SUBSET S /\ T \subseteq s /\ ~(Total(T) <= Total(s))
  OBVIOUS
<1>3. Total(T) \in Nat /\ Total(s) \in Nat
  BY <1>2, TotalType
<1>4. PICK x \in s : x \notin T
  BY <1>2, <1>3
<1>5. Cardinality(s) \in Nat /\ Cardinality(s \ {x}) = Cardinality(s) - 1
  BY <1>2, ControlAssumption, Taken
<1>6. Total(T) <= Total(s \ {x})
  BY <1>1, <1>2, <1>4, <1>5
<1>7. Total(s) = Size[x] + Total(s \ {x}) /\ Total(s \ {x}) \in Nat /\ Size[x] \in Nat
  BY <1>2, ControlAssumption, TotalSplits, TotalType
<1> QED BY <1>2, <1>3, <1>6, <1>7

-----------------------------------------------------------------------------
(* The copy budget *)

\* Every set of bound Jobs has a member that counted all the others: the one
\* that was bound last.  Jobs end in any order, so the bound on all of Bound
\* alone is not inductive.
BudgetInv ==
    \A S \in SUBSET Bound : S # {} =>
        \E f \in S : job[f].cap = 0 \/ Total(S) <= job[f].cap

\* Bind counts what is bound; every other step only shrinks the bound set.
LEMMA BudgetStep == SafeInv /\ BudgetInv /\ [ControlNext]_controlVars => BudgetInv'
<1> SUFFICES ASSUME SafeInv, BudgetInv, [ControlNext]_controlVars,
                    NEW S \in SUBSET Bound', S # {}
             PROVE  \E f \in S : job'[f].cap = 0 \/ Total(S) <= job'[f].cap
  BY DEF BudgetInv
<1>0. Bound \subseteq Files /\ Bound' \subseteq Files /\ S \subseteq Files
  BY DEF Bound
<1>1. JobEffect
  <2>1. CASE ControlNext
    BY <2>1, StepEffects DEF SafeInv
  <2>2. CASE UNCHANGED controlVars
    BY <2>2, EffectFrame DEF controlVars, spaceVars
  <2> QED BY <2>1, <2>2
<1>2. CASE \E f \in S : f \notin Bound
  <2>1. PICK f \in S : f \notin Bound
    BY <1>2
  <2>2. Bind(f)
    BY <1>0, <1>1, <2>1 DEF JobEffect
  <2>3. /\ job' = [job EXCEPT ![f].bound = TRUE]
        /\ job[f].cap = 0 \/ Total(Bound) + Size[f] <= job[f].cap
    BY <2>2 DEF Bind, Fits
  <2>4. job'[f].cap = job[f].cap /\ job[f].cap \in Nat
    BY <1>0, <2>3, ControlAssumption DEF SafeInv, ControlTypeOK, JobOK, JobObjects
  <2>5. S \ {f} \subseteq Bound
    BY <1>0, <2>3 DEF SafeInv, ControlTypeOK, JobOK, Bound, Active
  <2>6. Total(S) = Size[f] + Total(S \ {f})
    BY <1>0, TotalSplits
  <2>7. Total(S \ {f}) <= Total(Bound)
    BY <1>0, <2>5, TotalMonotone
  <2>8. /\ Total(S \ {f}) \in Nat /\ Total(Bound) \in Nat /\ Size[f] \in Nat
    BY <1>0, TotalType, ControlAssumption
  <2>9. Total(Bound) + Size[f] <= job[f].cap => Total(S) <= job[f].cap
    BY <2>4, <2>6, <2>7, <2>8
  <2> QED BY <2>1, <2>3, <2>4, <2>9
<1>3. CASE S \subseteq Bound
  <2>1. PICK f \in S : job[f].cap = 0 \/ Total(S) <= job[f].cap
    BY <1>3 DEF BudgetInv
  <2>2. CASE job'[f].cap = job[f].cap
    BY <2>1, <2>2
  <2>3. CASE Bind(f)
    BY <2>1, <2>3, <1>0 DEF Bind, SafeInv, ControlTypeOK, JobOK, JobObjects
  <2> QED BY <1>0, <1>1, <2>1, <2>2, <2>3 DEF JobEffect
<1> QED BY <1>2, <1>3

\* Bound bytes never exceed the budget the last bound Job was admitted under,
\* in whatever order Jobs are bound and end.
THEOREM BudgetAlwaysHolds == ControlSpec => []BudgetHolds
<1>1. ControlInit => BudgetInv
  BY DEF ControlInit, BudgetInv, Bound, Active, NoJob
<1>2. BudgetInv => BudgetHolds
  BY DEF BudgetInv, BudgetHolds
<1> QED BY <1>1, <1>2, BudgetStep, Safe, PTL DEF ControlSpec

=============================================================================
