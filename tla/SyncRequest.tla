---------------------------- MODULE SyncRequest ----------------------------
(***************************************************************************)
(* One-shot sync: a Sync request waits for an inventory scan that began    *)
(* after it was accepted, captures that scan's listing as its manifest,    *)
(* plans it, and commits the manifest with its Jobs in one transaction     *)
(* (crates/api/src/sync.rs, sync_controller.rs, sync_plan.rs,              *)
(* sync_authority.rs, sync_disk.rs, crates/store/src/api/sync.rs).         *)
(*                                                                         *)
(* Four parties interleave.  Callers submit and poll.  The controller of   *)
(* mediaops-api works through the requests on snapshots that age.          *)
(* mediaops-inventory scans the seedbox under a token the API assigns      *)
(* (bins/mediaops-inventory/src/main.rs).  Operators, the scheduler and    *)
(* the worker change everything else.  The API's mutation lock makes each  *)
(* request a single step.                                                  *)
(*                                                                         *)
(* A file has one placement, Place[f]; two files may share one.  The Job   *)
(* of a placement is named after it.  Holds that name no file are in       *)
(* JobControl.  Cluster specs are compared by generation: a Cluster        *)
(* cannot be deleted, so equal generations are equal specs.                *)
(***************************************************************************)
EXTENDS Integers, FiniteSets

CONSTANTS
    Files, Places, Place,
    Seed,         \* files on the seedbox at the start
    Media,        \* nonempty media files of a configured root
    Parsed,       \* files whose remote path parses to a placement
    Holds,
    HoldOn,       \* the file a Hold names
    Requests,     \* request IDs
    Configs,      \* library root and seedbox roots of the Cluster
    None,
    MaxScans, MaxEdits, MaxJobs, MaxLapses, MaxCrashes, MaxDeletes, MaxSubmits

\* What an instance gives the constants.
SyncAssumption ==
    /\ IsFiniteSet(Files) /\ IsFiniteSet(Holds)
    /\ Place \in [Files -> Places] /\ HoldOn \in [Holds -> Files]
    /\ Seed \subseteq Files /\ Media \subseteq Files /\ Parsed \subseteq Files
    /\ Configs # {} /\ None \notin Holds \cup Requests \cup Configs \cup Files
    /\ {MaxScans, MaxEdits, MaxJobs, MaxLapses, MaxCrashes, MaxDeletes, MaxSubmits}
         \subseteq Nat

VARIABLES
    db,         \* the object store: one snapshot of it is one value
    box,        \* files on the seedbox
    disk,       \* placements occupied in the library
    scan,       \* the running inventory scan
    late,       \* commit of a scan whose process died while the API served it
    ctl,        \* the controller's pass over the requests
    waiting,    \* requests a caller is polling
    left,       \* what remains of the bounds
    published,  \* observer: token, reading time and files of the committed scan
    basis       \* observer: what was committed when each request was captured

syncVars == <<db, box, disk, scan, late, ctl, waiting, left, published, basis>>

Unfinished == {"waiting", "captured"}
Finished == {"scheduled", "failed"}
NoRow == [gen |-> 0, rv |-> 0]
NoHold == [decision |-> "none", gen |-> 0, rv |-> 0]
NoJob == [phase |-> "none", uid |-> 0, source |-> None, sync |-> None, hold |-> None,
          config |-> None]
NoNode == [rv |-> 0, gen |-> 0, ready |-> FALSE, beat |-> FALSE, recent |-> FALSE,
           token |-> 0, clusterGen |-> 0, secret |-> 0]
NoEntry == [what |-> "none", hold |-> None, uid |-> 0]
NoSync == [phase |-> "none", rv |-> 0, expired |-> FALSE, baseline |-> 0, accepted |-> 0,
           gen |-> 0, clusterGen |-> 0, config |-> None, secret |-> 0,
           entries |-> [f \in Files |-> NoEntry]]
NoScan == [pc |-> "idle", token |-> 0, clusterGen |-> 0, secret |-> 0, readAt |-> 0,
           files |-> {}, gen |-> 0, rows |-> {}, gone |-> {}, holds |-> {},
           node |-> NoNode, tries |-> 0]
NoCtl == [pc |-> "idle", todo |-> {}, copies |-> [n \in Requests |-> NoSync], name |-> None,
          snap |-> None, plan |-> [f \in Files |-> NoEntry]]
NoBasis == [token |-> 0, readAt |-> 0, files |-> {}]

SyncInit ==
    /\ \E c \in Configs :
         db = [rv |-> 1, cluster |-> [gen |-> 1, config |-> c, lock |-> FALSE], secret |-> 1,
               node |-> NoNode, row |-> [f \in Files |-> NoRow],
               hold |-> [h \in Holds |-> NoHold], job |-> [p \in Places |-> NoJob],
               proof |-> [p \in Places |-> "none"], sync |-> [n \in Requests |-> NoSync]]
    /\ box = Seed /\ disk = {}
    /\ scan = NoScan /\ late = NoScan /\ ctl = NoCtl /\ waiting = {}
    /\ left = [scans |-> MaxScans, edits |-> MaxEdits, jobs |-> MaxJobs, lapses |-> MaxLapses,
               crashes |-> MaxCrashes, deletes |-> MaxDeletes, submits |-> MaxSubmits]
    /\ published = NoBasis /\ basis = [n \in Requests |-> NoBasis]

Spend(b) == left[b] > 0 /\ left' = [left EXCEPT ![b] = @ - 1]

-----------------------------------------------------------------------------
(* Callers *)

\* accepted(): the request remembers the revision, the listing and the
\* configuration it was accepted under.
Accepted ==
    [NoSync EXCEPT !.phase = "waiting", !.rv = db.rv + 1, !.baseline = db.node.gen,
                   !.accepted = db.rv, !.clusterGen = db.cluster.gen,
                   !.config = db.cluster.config, !.secret = db.secret]

\* The Sync call: a stored request of this ID is adopted, whatever its phase.
Start(n) ==
    /\ Spend("submits")
    /\ \/ /\ db.sync[n].phase # "none"
          /\ UNCHANGED <<db, basis>>
       \/ /\ db.sync[n].phase = "none" /\ ~db.cluster.lock
          /\ db' = [db EXCEPT !.rv = @ + 1, !.sync[n] = Accepted]
          /\ basis' = [basis EXCEPT ![n] = NoBasis]
    /\ waiting' = waiting \cup {n}
    /\ UNCHANGED <<box, disk, scan, late, ctl, published>>

\* Mutant: a request deleted meanwhile is waited for.
PollUntilFinished(n) ==
    /\ n \in waiting
    /\ db.sync[n].phase \in Finished \/ db.sync[n].expired
    /\ waiting' = waiting \ {n}
    /\ UNCHANGED <<db, box, disk, scan, late, ctl, left, published, basis>>

\* The polling loop of the call ends on a finished, deleted or expired request.
Poll(n) ==
    /\ n \in waiting
    /\ db.sync[n].phase \in Finished \cup {"none"} \/ db.sync[n].expired
    /\ waiting' = waiting \ {n}
    /\ UNCHANGED <<db, box, disk, scan, late, ctl, left, published, basis>>

\* The caller goes away, or its own 75 second limit ends the call.
Disconnect(n) ==
    /\ n \in waiting /\ waiting' = waiting \ {n}
    /\ UNCHANGED <<db, box, disk, scan, late, ctl, left, published, basis>>

\* The clock reaches deadline_unix.
Deadline(n) ==
    /\ db.sync[n].phase \in Unfinished /\ ~db.sync[n].expired
    /\ db' = [db EXCEPT !.sync[n].expired = TRUE]
    /\ ctl' = IF ctl.copies[n].rv = db.sync[n].rv
                THEN [ctl EXCEPT !.copies[n].expired = TRUE] ELSE ctl
    /\ UNCHANGED <<box, disk, scan, late, waiting, left, published, basis>>

JobTerminal == {"none", "installed", "failed", "refused"}
JobsOf(n) == {p \in Places : db.job[p].sync = n /\ db.job[p].phase \notin JobTerminal}

\* An operator deletes a request whose Jobs have ended.
DeleteSync(n) ==
    /\ db.sync[n].phase # "none" /\ Spend("deletes") /\ JobsOf(n) = {}
    /\ db' = [db EXCEPT !.rv = @ + 1, !.sync[n] = NoSync]
    /\ UNCHANGED <<box, disk, scan, late, ctl, waiting, published, basis>>

-----------------------------------------------------------------------------
(* Planning: operators on a snapshot s of the store *)

\* inventory_generation: 0 when there is no fresh committed listing.
InventoryGen(s) == IF s.node.ready /\ s.node.beat /\ s.node.recent THEN s.node.gen ELSE 0

\* qualifying_generation fails the request when this is FALSE.
SameConfig(s, r) ==
    s.cluster.gen = r.clusterGen /\ ~s.cluster.lock /\ s.secret = r.secret

Qualifying(s, r) ==
    IF /\ InventoryGen(s) > r.baseline
       /\ s.node.token > r.accepted
       /\ s.node.clusterGen = r.clusterGen /\ s.node.secret = r.secret
      THEN InventoryGen(s) ELSE 0

LiveHolds(s, f, g) == {h \in Holds : HoldOn[h] = f /\ s.hold[h].gen = g
                                     /\ s.hold[h].decision # "none"}
Approved(s, hs) == {h \in hs : s.hold[h].decision = "approved"}

\* candidate(): what one row of the listing may become.
Candidate(s, f, g) ==
    LET live == LiveHolds(s, f, g)
        ok == Approved(s, live)
        entry(what, h) == [what |-> what, hold |-> h, uid |-> 0]
    IN CASE f \notin Media -> entry("ineligible", None)
         [] f \in Media /\ Cardinality(live) = 1 /\ ok # {} ->
              entry("wouldQueue", CHOOSE h \in ok : TRUE)
         [] f \in Media /\ live = {} /\ f \in Parsed -> entry("wouldQueue", None)
         [] OTHER -> entry("blocked", None)

\* capture(): the rows of generation g, ambiguous placements blocked.
Capture(s, g) ==
    LET first == [f \in Files |-> IF s.row[f].gen = g THEN Candidate(s, f, g) ELSE NoEntry]
        clash(f) == \E e \in Files \ {f} : /\ Place[e] = Place[f]
                                           /\ first[e].what = "wouldQueue"
    IN [f \in Files |-> IF first[f].what = "wouldQueue" /\ clash(f)
                          THEN [first[f] EXCEPT !.what = "blocked"] ELSE first[f]]

\* Listing g has the source, its Holds allow it, and nothing is installed.
Eligible(s, f, h, g) ==
    /\ g > 0 /\ s.row[f].gen = g
    /\ IF h = None THEN f \in Parsed /\ LiveHolds(s, f, g) = {}
                   ELSE LiveHolds(s, f, g) = {h} /\ s.hold[h].decision = "approved"
    /\ s.proof[Place[f]] = "none"

\* authorization_refusal of a Sync Job returns None.
SourceAllowed(s, f, h) == Eligible(s, f, h, InventoryGen(s))

\* placement_state: what the Titles of the snapshot and the disk say.
PlacementState(s, p) ==
    CASE s.proof[p] = "ok" /\ p \in disk -> "present"
      [] s.proof[p] = "none" /\ p \notin disk -> "free"
      [] OTHER -> "blocked"

\* evaluate(), for one entry that would be queued.
Planned(s, r, f) ==
    LET p == Place[f]
        j == s.job[p]
    IN CASE PlacementState(s, p) # "free" -> PlacementState(s, p)
         [] PlacementState(s, p) = "free" /\ j.phase # "none" ->
              IF j.phase \notin JobTerminal /\ j.source = f /\ j.config = r.config
                THEN "alreadyQueued" ELSE "blocked"
         [] OTHER -> IF SourceAllowed(s, f, r.entries[f].hold) THEN "wouldQueue" ELSE "blocked"

Evaluate(s, r) ==
    [f \in Files |-> IF r.entries[f].what = "wouldQueue"
                       THEN [r.entries[f] EXCEPT !.what = Planned(s, r, f)]
                       ELSE r.entries[f]]

-----------------------------------------------------------------------------
(* The controller *)

CtlUnchanged == UNCHANGED <<box, disk, scan, late, waiting, left, published>>

\* reconcile() lists the requests; it works on these copies.
ListRequests ==
    /\ ctl.pc = "idle"
    /\ \E n \in Requests : db.sync[n].phase \in Unfinished
    /\ ctl' = [NoCtl EXCEPT !.pc = "next", !.copies = db.sync,
                            !.todo = {n \in Requests : db.sync[n].phase \in Unfinished}]
    /\ UNCHANGED <<db, basis>> /\ CtlUnchanged

EndPass ==
    /\ ctl.pc = "next" /\ ctl.todo = {}
    /\ ctl' = NoCtl
    /\ UNCHANGED <<db, basis>> /\ CtlUnchanged

Copy == ctl.copies[ctl.name]
Done == [ctl EXCEPT !.pc = "next", !.todo = @ \ {ctl.name}, !.name = None, !.snap = None,
                    !.plan = NoCtl.plan]

\* advance() takes its snapshot and decides what to do with this request.
Advance(n) ==
    /\ ctl.pc = "next" /\ n \in ctl.todo
    /\ LET r == ctl.copies[n]
           at(pc) == [ctl EXCEPT !.pc = pc, !.name = n, !.snap = db]
           skip == [ctl EXCEPT !.todo = @ \ {n}]
       IN ctl' = CASE r.expired \/ ~SameConfig(db, r) -> [at("fail") EXCEPT !.snap = None]
                   [] ~r.expired /\ SameConfig(db, r) /\ Qualifying(db, r) = 0 -> skip
                   [] OTHER -> IF r.phase = "waiting" THEN at("capture") ELSE at("evaluate")
    /\ UNCHANGED <<db, basis>> /\ CtlUnchanged

\* Under the mutation lock the capture is kept only if the listing and the
\* Holds are still the ones it was computed from.
CommitCapture ==
    /\ ctl.pc = "capture"
    /\ LET n == ctl.name
           g == Qualifying(ctl.snap, Copy)
           same == Qualifying(db, Copy) = g /\ db.row = ctl.snap.row /\ db.hold = ctl.snap.hold
       IN /\ IF SameConfig(db, Copy) /\ same /\ db.sync[n].rv = Copy.rv
               THEN /\ db' = [db EXCEPT !.rv = @ + 1,
                                 !.sync[n] = [Copy EXCEPT !.phase = "captured", !.gen = g,
                                                         !.rv = db.rv + 1,
                                                         !.entries = Capture(ctl.snap, g)]]
                    /\ basis' = [basis EXCEPT ![n] = published]
               ELSE UNCHANGED <<db, basis>>
          /\ ctl' = IF SameConfig(db, Copy) THEN Done
                    ELSE [ctl EXCEPT !.pc = "fail", !.snap = None]
    /\ CtlUnchanged

\* The disk is inspected outside the lock, the objects are the snapshot's.
EvaluateManifest ==
    /\ ctl.pc = "evaluate"
    /\ ctl' = [ctl EXCEPT !.pc = "schedule", !.plan = Evaluate(ctl.snap, Copy)]
    /\ UNCHANGED <<db, basis>> /\ CtlUnchanged

Queue(plan) == {f \in Files : plan[f].what = "wouldQueue"}

\* One transaction writes the Jobs and the manifest that names them.  A Job is
\* known by its name and uid; the Jobs of one transaction share a number here.
Scheduled(n, r, plan) ==
    LET q == Queue(plan)
        uid == db.rv + 1
    IN [db EXCEPT
          !.rv = uid + Cardinality(q),
          !.job = [p \in Places |->
             IF \E f \in q : Place[f] = p
               THEN LET f == CHOOSE e \in q : Place[e] = p
                    IN [phase |-> "pending", uid |-> uid, source |-> f, sync |-> n,
                        hold |-> plan[f].hold, config |-> r.config]
               ELSE db.job[p]],
          !.sync[n] = [r EXCEPT !.phase = "scheduled", !.rv = uid + Cardinality(q),
                         !.entries = [f \in Files |->
                            IF f \in q THEN [plan[f] EXCEPT !.what = "queued", !.uid = uid]
                                       ELSE plan[f]]]]

\* Mutant: only the request's own revision is compared.
ScheduleSyncOwnRevision ==
    /\ ctl.pc = "schedule"
    /\ LET n == ctl.name
       IN /\ IF ~Copy.expired /\ db.sync[n].rv = Copy.rv
               THEN db' = Scheduled(n, Copy, ctl.plan) ELSE UNCHANGED db
          /\ ctl' = IF Copy.expired THEN [ctl EXCEPT !.pc = "fail", !.snap = None] ELSE Done
    /\ UNCHANGED basis /\ CtlUnchanged

\* The deadline is checked under the lock and again in the transaction, which
\* also requires that nothing at all was written since the snapshot.
ScheduleSync ==
    /\ ctl.pc = "schedule"
    /\ LET n == ctl.name
       IN /\ IF ~Copy.expired /\ db.rv = ctl.snap.rv /\ db.sync[n].rv = Copy.rv
               THEN db' = Scheduled(n, Copy, ctl.plan) ELSE UNCHANGED db
          /\ ctl' = IF Copy.expired THEN [ctl EXCEPT !.pc = "fail", !.snap = None] ELSE Done
    /\ UNCHANGED basis /\ CtlUnchanged

\* fail() reads the request of this name again and fails it unless it ended.
Fail ==
    /\ ctl.pc = "fail"
    /\ db' = IF db.sync[ctl.name].phase \in Unfinished
               THEN [db EXCEPT !.rv = @ + 1, !.sync[ctl.name].phase = "failed",
                               !.sync[ctl.name].rv = db.rv + 1]
               ELSE db
    /\ ctl' = Done
    /\ UNCHANGED basis /\ CtlUnchanged

\* mediaops-api restarts: the pass is lost, the requests are not.
RestartApi ==
    /\ ctl # NoCtl /\ Spend("crashes")
    /\ ctl' = NoCtl /\ waiting' = {}
    /\ UNCHANGED <<db, box, disk, scan, late, published, basis>>

Controller ==
    \/ ListRequests \/ EndPass \/ CommitCapture \/ EvaluateManifest \/ ScheduleSync \/ Fail
    \/ \E n \in Requests : Advance(n)

-----------------------------------------------------------------------------
(* Inventory *)

ScanUnchanged == UNCHANGED <<disk, ctl, waiting, basis>>

\* begin_inventory: the API clears readiness and assigns the token.
BeginInventory ==
    /\ scan.pc = "idle" /\ Spend("scans")
    /\ LET token == db.rv + 1
       IN /\ db' = [db EXCEPT !.rv = token,
                      !.node = [@ EXCEPT !.rv = token, !.ready = FALSE, !.beat = TRUE,
                                         !.token = token, !.clusterGen = db.cluster.gen,
                                         !.secret = db.secret]]
          /\ scan' = [NoScan EXCEPT !.pc = "list", !.token = token,
                                    !.clusterGen = db.cluster.gen, !.secret = db.secret]
    /\ UNCHANGED <<box, late, published>> /\ ScanUnchanged

TokenHeld(s) ==
    /\ db.node.token = s.token
    /\ db.node.clusterGen = s.clusterGen /\ db.node.secret = s.secret

\* list_entries and hold_list read the seedbox over the WAN.
ListEntries ==
    /\ scan.pc = "list"
    /\ scan' = [scan EXCEPT !.pc = "open", !.files = box, !.readAt = db.rv]
    /\ UNCHANGED <<db, box, late, left, published>> /\ ScanUnchanged

Generations == {db.row[f].gen : f \in Files} \cup {db.hold[h].gen : h \in Holds}
                 \cup {db.node.gen}
NextGeneration == 1 + CHOOSE g \in Generations : \A k \in Generations : k <= g

\* The token is checked, then the generation above all others is taken.
OpenPublication ==
    /\ scan.pc = "open"
    /\ scan' = IF TokenHeld(scan)
                 THEN [scan EXCEPT !.pc = "rows", !.gen = NextGeneration, !.rows = scan.files,
                         !.gone = {f \in Files \ scan.files : db.row[f].gen # 0},
                         !.holds = {h \in Holds : HoldOn[h] \in scan.files}]
                 ELSE NoScan
    /\ UNCHANGED <<db, box, late, left, published>> /\ ScanUnchanged

\* Rows are applied and deleted one call at a time, then the Holds.
PublishRow(f) ==
    /\ scan.pc = "rows" /\ f \in scan.rows \cup scan.gone
    /\ db' = [db EXCEPT !.rv = @ + 1,
                 !.row[f] = IF f \in scan.rows THEN [gen |-> scan.gen, rv |-> db.rv + 1]
                                               ELSE NoRow]
    /\ scan' = [scan EXCEPT !.rows = @ \ {f}, !.gone = @ \ {f}]
    /\ UNCHANGED <<box, late, left, published>> /\ ScanUnchanged

PublishHold(h) ==
    /\ scan.pc = "rows" /\ scan.rows = {} /\ scan.gone = {} /\ h \in scan.holds
    /\ db' = [db EXCEPT !.rv = @ + 1,
                 !.hold[h] = [decision |-> IF @.decision = "none" THEN "open" ELSE @.decision,
                              gen |-> scan.gen, rv |-> db.rv + 1]]
    /\ scan' = [scan EXCEPT !.holds = @ \ {h}]
    /\ UNCHANGED <<box, late, left, published>> /\ ScanUnchanged

\* commit_listing: read the Node, check the token, patch the version read.
ReadNode ==
    /\ scan.pc = "rows" /\ scan.rows = {} /\ scan.gone = {} /\ scan.holds = {}
    /\ scan' = IF TokenHeld(scan) THEN [scan EXCEPT !.pc = "commit", !.node = db.node]
                                  ELSE NoScan
    /\ UNCHANGED <<db, box, late, left, published>> /\ ScanUnchanged

Committed(s) ==
    [db EXCEPT !.rv = @ + 1,
       !.node = [s.node EXCEPT !.rv = db.rv + 1, !.ready = TRUE, !.beat = TRUE,
                               !.recent = TRUE, !.gen = s.gen]]
Publishes(s) == published' = [token |-> s.token, readAt |-> s.readAt, files |-> s.files]

\* A conflict (a heartbeat came between) reads the Node again, three tries in all.
CommitListing ==
    /\ scan.pc = "commit"
    /\ \/ /\ db.node.rv = scan.node.rv
          /\ db' = Committed(scan) /\ scan' = NoScan /\ Publishes(scan)
       \/ /\ db.node.rv # scan.node.rv
          /\ scan' = IF scan.tries < 2 /\ TokenHeld(scan)
                       THEN [scan EXCEPT !.node = db.node, !.tries = @ + 1] ELSE NoScan
          /\ UNCHANGED <<db, published>>
    /\ UNCHANGED <<box, late, left>> /\ ScanUnchanged

\* Any call of refresh() fails; the loop starts over with a new scan.
AbandonScan ==
    /\ scan.pc # "idle" /\ Spend("crashes")
    /\ scan' = NoScan
    /\ UNCHANGED <<db, box, late, published>> /\ ScanUnchanged

\* The process dies while the API still serves its commit, and is restarted.
RestartInventory ==
    /\ scan.pc = "commit" /\ Spend("crashes")
    /\ late' = scan /\ scan' = [NoScan EXCEPT !.pc = "start"]
    /\ UNCHANGED <<db, box, published>> /\ ScanUnchanged

\* run() first declares the Node not ready.
Announce ==
    /\ scan.pc = "start"
    /\ db' = [db EXCEPT !.rv = @ + 1, !.node.rv = db.rv + 1, !.node.ready = FALSE,
                        !.node.beat = TRUE]
    /\ scan' = NoScan
    /\ UNCHANGED <<box, late, left, published>> /\ ScanUnchanged

LateCommit ==
    /\ late # NoScan
    /\ late' = NoScan
    /\ IF db.node.rv = late.node.rv THEN db' = Committed(late) /\ Publishes(late)
                                    ELSE UNCHANGED <<db, published>>
    /\ UNCHANGED <<box, scan, left>> /\ ScanUnchanged

\* touch_heartbeat keeps the token and the commit marker.
Heartbeat ==
    /\ db.node.rv # 0 /\ Spend("lapses")
    /\ db' = [db EXCEPT !.rv = @ + 1, !.node.rv = db.rv + 1, !.node.beat = TRUE]
    /\ UNCHANGED <<box, scan, late, published>> /\ ScanUnchanged

\* The clock outruns the last heartbeat or the last completed listing.
Lapse ==
    /\ Spend("lapses")
    /\ \/ db' = [db EXCEPT !.node.beat = FALSE]
       \/ db' = [db EXCEPT !.node.recent = FALSE]
    /\ UNCHANGED <<box, scan, late, published>> /\ ScanUnchanged

Inventory ==
    \/ Announce \/ BeginInventory \/ ListEntries \/ OpenPublication \/ ReadNode \/ CommitListing
    \/ \E f \in Files : PublishRow(f)
    \/ \E h \in Holds : PublishHold(h)

-----------------------------------------------------------------------------
(* Operators, the scheduler, the worker, and the world *)

OthersUnchanged == UNCHANGED <<scan, late, ctl, waiting, published, basis>>

\* The torrent client adds or removes a file; someone else writes the library.
BoxChanges(f) ==
    /\ Spend("edits")
    /\ box' = IF f \in box THEN box \ {f} ELSE box \cup {f}
    /\ UNCHANGED <<db, disk>> /\ OthersUnchanged
DiskChanges(p) ==
    /\ Spend("edits")
    /\ disk' = IF p \in disk THEN disk \ {p} ELSE disk \cup {p}
    /\ UNCHANGED <<db, box>> /\ OthersUnchanged

\* flag_drift: a proof whose file is gone.
FlagDrift(p) ==
    /\ db.proof[p] = "ok" /\ p \notin disk
    /\ db' = [db EXCEPT !.rv = @ + 1, !.proof[p] = "drifted"]
    /\ UNCHANGED <<box, disk, left>> /\ OthersUnchanged

\* Approval needs a Hold of the fresh committed listing; an approval under
\* which a Job is bound cannot be changed.
Decide(h, d) ==
    /\ db.hold[h].decision \notin {"none", d} /\ Spend("edits")
    /\ d = "approved" => InventoryGen(db) > 0 /\ db.hold[h].gen = db.node.gen
    /\ db.hold[h].decision = "approved" =>
         ~ \E p \in Places : db.job[p].hold = h /\ db.job[p].phase = "bound"
    /\ db' = [db EXCEPT !.rv = @ + 1, !.hold[h].decision = d, !.hold[h].rv = db.rv + 1]
    /\ UNCHANGED <<box, disk>> /\ OthersUnchanged

EditCluster(c, lock) ==
    /\ <<c, lock>> # <<db.cluster.config, db.cluster.lock>> /\ Spend("edits")
    /\ c # db.cluster.config => \A p \in Places : db.job[p].phase # "bound"
    /\ db' = [db EXCEPT !.rv = @ + 1,
                 !.cluster = [gen |-> @.gen + 1, config |-> c, lock |-> lock]]
    /\ UNCHANGED <<box, disk>> /\ OthersUnchanged
EditSecret ==
    /\ Spend("edits")
    /\ db' = [db EXCEPT !.rv = @ + 1, !.secret = db.rv + 1]
    /\ UNCHANGED <<box, disk>> /\ OthersUnchanged

\* Another controller creates the Job of a wanted file.
WantJob(f) ==
    /\ db.job[Place[f]].phase = "none" /\ SourceAllowed(db, f, None) /\ Spend("jobs")
    /\ db' = [db EXCEPT !.rv = @ + 1,
                 !.job[Place[f]] = [NoJob EXCEPT !.phase = "pending", !.uid = db.rv + 1,
                                      !.source = f, !.config = db.cluster.config]]
    /\ UNCHANGED <<box, disk>> /\ OthersUnchanged
DeleteJob(p) ==
    /\ db.job[p].phase \notin {"none", "bound"} /\ Spend("jobs")
    /\ db' = [db EXCEPT !.rv = @ + 1, !.job[p] = NoJob]
    /\ UNCHANGED <<box, disk>> /\ OthersUnchanged

\* identity_refusal returns None: the Job is in the manifest of a Scheduled
\* Sync, by name, uid and snapshot, and the configuration is still its own.
IdentityHolds(j) ==
    j.sync # None =>
    LET r == db.sync[j.sync]
    IN /\ r.phase = "scheduled"
       /\ r.config = db.cluster.config /\ r.secret = db.secret
       /\ r.entries[j.source] = [what |-> "queued", hold |-> j.hold, uid |-> j.uid]

\* The scheduler binds a Job; admission judges it.
Bind(p) ==
    LET j == db.job[p]
    IN /\ j.phase = "pending"
       /\ ~db.cluster.lock /\ j.config = db.cluster.config
       /\ IdentityHolds(j) /\ SourceAllowed(db, j.source, j.hold)
       /\ db' = [db EXCEPT !.rv = @ + 1, !.job[p].phase = "bound"]
       /\ UNCHANGED <<box, disk, left>> /\ OthersUnchanged

\* refuse_revoked_jobs, for Jobs of a Sync: an unready inventory decides nothing.
RefuseRevoked ==
    LET refused == {p \in Places :
          /\ db.job[p].phase = "pending" /\ db.job[p].sync # None
          /\ \/ ~IdentityHolds(db.job[p])
             \/ /\ InventoryGen(db) > 0
                /\ ~SourceAllowed(db, db.job[p].source, db.job[p].hold)}
    IN /\ refused # {}
       /\ db' = [db EXCEPT !.rv = @ + Cardinality(refused),
                    !.job = [p \in Places |-> IF p \in refused
                               THEN [db.job[p] EXCEPT !.phase = "refused"] ELSE db.job[p]]]
       /\ UNCHANGED <<box, disk, left>> /\ OthersUnchanged

\* The worker ends a bound Job: proof and file, or failure.
EndJob(p) ==
    /\ db.job[p].phase = "bound"
    /\ \/ /\ db' = [db EXCEPT !.rv = @ + 2, !.job[p].phase = "installed", !.proof[p] = "ok"]
          /\ disk' = disk \cup {p}
       \/ /\ db' = [db EXCEPT !.rv = @ + 1, !.job[p].phase = "failed"]
          /\ UNCHANGED disk
    /\ UNCHANGED <<box, left>> /\ OthersUnchanged

Others ==
    \/ \E f \in Files : BoxChanges(f) \/ WantJob(f)
    \/ \E p \in Places : DiskChanges(p) \/ FlagDrift(p) \/ DeleteJob(p) \/ Bind(p) \/ EndJob(p)
    \/ \E h \in Holds, d \in {"approved", "rejected"} : Decide(h, d)
    \/ \E c \in Configs, lock \in BOOLEAN : EditCluster(c, lock)
    \/ EditSecret \/ RefuseRevoked

SyncNext ==
    \/ \E n \in Requests : Start(n) \/ Poll(n) \/ Disconnect(n) \/ Deadline(n) \/ DeleteSync(n)
    \/ Controller \/ RestartApi
    \/ Inventory \/ AbandonScan \/ RestartInventory \/ LateCommit \/ Heartbeat \/ Lapse
    \/ Others

SyncSpec == SyncInit /\ [][SyncNext]_syncVars

\* The controller task wakes at least every two seconds, the clock runs, and
\* the call's loop polls.
SyncLive ==
    /\ SyncSpec
    /\ WF_syncVars(Controller)
    /\ \A n \in Requests : WF_syncVars(Deadline(n)) /\ WF_syncVars(Poll(n))

-----------------------------------------------------------------------------
(* Properties *)

\* The objects of the store have their types, and revisions never run ahead
\* of the store's counter (crates/store/src/api.rs).
SyncTypeOK ==
    /\ db.rv \in Nat /\ box \subseteq Files /\ disk \subseteq Places /\ waiting \subseteq Requests
    /\ \A n \in Requests :
         /\ db.sync[n].phase \in {"none"} \cup Unfinished \cup Finished
         /\ db.sync[n].rv <= db.rv /\ db.sync[n].accepted <= db.rv
    /\ \A p \in Places : db.job[p].uid <= db.rv
    /\ db.node.rv <= db.rv /\ db.node.token <= db.rv
    /\ scan.pc \in {"idle", "start", "list", "open", "rows", "commit"}
    /\ ctl.pc \in {"idle", "next", "capture", "evaluate", "schedule", "fail"}

\* The manifest of a request is exactly one listing of the seedbox, and that
\* listing was read after the request was accepted (qualifying_generation,
\* capture): neither a scan in flight at acceptance nor half of a later scan.
CapturedFromFreshScan ==
    \A n \in Requests :
        db.sync[n].phase \in {"captured", "scheduled"} =>
            /\ basis[n].readAt > db.sync[n].accepted
            /\ {f \in Files : db.sync[n].entries[f].what # "none"} = basis[n].files

\* While the Node is ready, the rows of its generation are the files that the
\* scan holding its token read (commit_listing): a commit that arrives after a
\* newer scan began never marks that scan complete.
ReadyMeansWholeListing ==
    db.node.ready =>
        /\ published.token = db.node.token
        /\ {f \in Files : db.row[f].gen = db.node.gen} = published.files

\* A Job made by a Sync that has not ended is named, with its uid and source,
\* by the manifest of a Scheduled request that still exists (schedule_sync,
\* validate_delete).
LiveJobsHaveManifests ==
    \A p \in Places :
        (db.job[p].sync # None /\ db.job[p].phase \notin JobTerminal) =>
            LET j == db.job[p] IN
            /\ db.sync[j.sync].phase = "scheduled"
            /\ db.sync[j.sync].entries[j.source].what = "queued"
            /\ db.sync[j.sync].entries[j.source].uid = j.uid
            /\ Place[j.source] = p

\* When the manifest is committed, everything it decided on snapshots is still
\* true: each queued entry gets the Job of its own placement, which had none
\* and no proof, the source and its Hold are in order, and the request has
\* time left (advance, schedule_sync).
SchedulesCurrent ==
    \A n \in Requests :
     (db.sync[n].phase # "scheduled" /\ db'.sync[n].phase = "scheduled") =>
         /\ ~db.sync[n].expired /\ SameConfig(db, db.sync[n])
         /\ \A f \in Files : db'.sync[n].entries[f].what = "queued" =>
              /\ db.job[Place[f]].phase = "none" /\ db'.job[Place[f]].source = f
              /\ db.node.ready
              /\ Eligible(db, f, db'.sync[n].entries[f].hold, db.node.gen)

\* A request is one-shot: once finished it never changes again, and once
\* captured its files are fixed, until it is deleted; a caller repeating the
\* request ID gets the stored request (start, fail, schedule_sync).
KeepsFinished ==
    \A n \in Requests :
     LET r == db.sync[n]
         s == db'.sync[n]
     IN s.phase # "none" =>
         /\ r.phase \in Finished => s = r
         /\ r.phase = "captured" =>
              \A f \in Files : (s.entries[f].what = "none") = (r.entries[f].what = "none")

\* Every accepted request is scheduled, failed or deleted in the end, whatever
\* inventory does and however often the API restarts (reconcile, fail).
Unended(n) == db.sync[n].phase \in Unfinished
RequestsEnd == \A n \in Requests : Unended(n) ~> ~Unended(n)

\* Every caller of Sync gets an answer (start).
CallersAnswered == \A n \in Requests : (n \in waiting) ~> (n \notin waiting)

=============================================================================
