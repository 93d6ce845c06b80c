------------------------------- MODULE MCHome -------------------------------
(***************************************************************************)
(* The processes at home, in one run: one-shot sync, the TUI's session,    *)
(* the range transfer, publication of installed files, the gateway and     *)
(* its channel pool, the supervisor, and the wire form of objects (the     *)
(* codec, which is extended: its object rests while another part runs).    *)
(***************************************************************************)
EXTENDS Daemons, ObjectCodec, Sequences, Functions

CONSTANTS NoDigest, media,
          req, h1, c0, c1, c2,   \* a Sync request, a Hold, Cluster configurations
          pu1, pu2, src1, src2,  \* pullers and remote sources
          g1, w, m               \* a gateway; the worker's and the command's file

Symmetry == Permutations({c1, c2}) \cup Permutations({src1, src2})

\* One-shot sync: the listing, under crashes of inventory and a file that comes or goes.
S1 == INSTANCE SyncRequest WITH
    db <- s1, box <- s2, disk <- s3, scan <- s4, late <- s5, ctl <- s6, waiting <- s7, left <- s8,
    published <- s9, basis <- s10,
    Files <- {1, 2}, Places <- {1}, Place <- <<1, 1>>, Seed <- {1}, Media <- {}, Parsed <- {},
    Holds <- {}, HoldOn <- <<>>, Requests <- {req}, Configs <- {c0},
    MaxScans <- 2, MaxEdits <- 1, MaxJobs <- 0, MaxLapses <- 0, MaxCrashes <- 1, MaxDeletes <- 0, MaxSubmits <- 1
FreshNext ==
    \/ S1!Start(req) \/ S1!Poll(req) \/ S1!Disconnect(req) \/ S1!Deadline(req)
    \/ S1!Controller \/ S1!RestartApi \/ S1!Inventory \/ S1!AbandonScan \/ S1!RestartInventory \/ S1!LateCommit
    \/ \E f \in {1, 2} : S1!BoxChanges(f)

\* One-shot sync: two files of one placement, one of them held, and an edit while planning.
HeldSecond == h1 :> 2
S2 == INSTANCE SyncRequest WITH
    db <- s1, box <- s2, disk <- s3, scan <- s4, late <- s5, ctl <- s6, waiting <- s7, left <- s8,
    published <- s9, basis <- s10,
    Files <- {1, 2}, Places <- {1}, Place <- <<1, 1>>, Seed <- {1, 2}, Media <- {1, 2}, Parsed <- {1},
    Holds <- {h1}, HoldOn <- HeldSecond, Requests <- {req}, Configs <- {c1, c2},
    MaxScans <- 1, MaxEdits <- 1, MaxJobs <- 0, MaxLapses <- 0, MaxCrashes <- 0, MaxDeletes <- 0, MaxSubmits <- 1

\* One-shot sync: a request that is repeated and deleted while its Job runs.
S3 == INSTANCE SyncRequest WITH
    db <- s1, box <- s2, disk <- s3, scan <- s4, late <- s5, ctl <- s6, waiting <- s7, left <- s8,
    published <- s9, basis <- s10,
    Files <- {1}, Places <- {1}, Place <- <<1>>, Seed <- {1}, Media <- {1}, Parsed <- {1},
    Holds <- {}, HoldOn <- <<>>, Requests <- {req}, Configs <- {c1, c2},
    MaxScans <- 1, MaxEdits <- 0, MaxJobs <- 1, MaxLapses <- 0, MaxCrashes <- 0, MaxDeletes <- 1, MaxSubmits <- 2

ASSUME SyncAssumptions == S1!SyncAssumption /\ S2!SyncAssumption /\ S3!SyncAssumption

\* The TUI's connection and cache: the user only asks for syncs, which reconnect.
T1 == INSTANCE TuiSession WITH
    objs <- s1, rev <- s2, log <- s3, task <- s4, chan <- s5, ses <- s6, ui <- s7, work <- s8, wire <- s9,
    dropped <- s10, Keys <- {"want", "hold"}, MaxRev <- 3, MaxEpoch <- 2, ChanCap <- 2, Gens <- {0},
    KeyReleases <- FALSE
CacheNext ==
    \/ T1!TaskStep \/ T1!Failures \/ T1!RecvSession \/ T1!Redraw(TRUE) \/ T1!PressSync(FALSE) \/ T1!SyncDone
    \/ \E k \in {"want", "hold"} : T1!StoreCreate(k) \/ T1!StoreModify(k) \/ T1!StoreDelete(k)

\* The TUI with every key, on a terminal that reports key releases; nobody else writes.
T2 == INSTANCE TuiSession WITH
    objs <- s1, rev <- s2, log <- s3, task <- s4, chan <- s5, ses <- s6, ui <- s7, work <- s8, wire <- s9,
    dropped <- s10, Keys <- {"want"}, MaxRev <- 2, MaxEpoch <- 3, ChanCap <- 1, Gens <- {0},
    KeyReleases <- TRUE

KeysNext ==
    \/ T2!TaskStep \/ T2!RecvSession \/ T2!Redraw(TRUE) \/ T2!Redraw(FALSE) \/ T2!WorkStep \/ T2!UserStep
    \/ \E r \in s9 : T2!ServeWrite(r) \/ T2!LoseWrite(r)

\* The TUI's writes: a Want that others write too.
T3 == INSTANCE TuiSession WITH
    objs <- s1, rev <- s2, log <- s3, task <- s4, chan <- s5, ses <- s6, ui <- s7, work <- s8, wire <- s9,
    dropped <- s10, Keys <- {"want"}, MaxRev <- 3, MaxEpoch <- 3, ChanCap <- 1, Gens <- {0},
    KeyReleases <- FALSE
WantNext ==
    \/ T3!TaskStep \/ T3!RecvSession \/ T3!Redraw(TRUE) \/ T3!Redraw(FALSE) \/ T3!WorkStep \/ T3!EnterDetail
    \/ T3!StoreStep \/ T3!PressMutation("apply") \/ T3!PressMutation("delete")

\* The TUI's decisions: a Hold that a scan rewrites, beside the Node of that scan.
T4 == INSTANCE TuiSession WITH
    objs <- s1, rev <- s2, log <- s3, task <- s4, chan <- s5, ses <- s6, ui <- s7, work <- s8, wire <- s9,
    dropped <- s10, Keys <- {"hold", "node"}, MaxRev <- 3, MaxEpoch <- 2, ChanCap <- 1, Gens <- {1, 2},
    KeyReleases <- FALSE
HoldNext ==
    \/ T4!TaskStep \/ T4!RecvSession \/ T4!Redraw(TRUE) \/ T4!Redraw(FALSE) \/ T4!WorkStep \/ T4!EnterDetail
    \/ T4!StoreStep \/ T4!PressMutation("approve") \/ T4!PressMutation("reject")

ASSUME TuiAssumptions == T1!TuiAssumption /\ T2!TuiAssumption /\ T3!TuiAssumption /\ T4!TuiAssumption

\* Two pullers share a staging directory and a file name; one of them cleans up.
X == INSTANCE Transfer WITH
    remote <- s1, dir <- s2, data <- s3, durable <- s4, lock <- s5, proc <- s6, faults <- s7,
    Pullers <- {pu1, pu2}, Sources <- {src1, src2}, FileLen <- 3, RangeLens <- {1, 2},
    Concurrency <- 2, MaxVersion <- 1, MaxFaults <- 2, Cleaners <- {pu1}

ASSUME TransferAssumptions == X!TransferAssumption

\* The worker's file and a manual one under one directory: modes, with a crash and an
\* error and without a power loss.
P1 == INSTANCE Publication WITH
    dir <- s1, file <- s2, inode <- s3, kdir <- s4, kfile <- s5, kinode <- s6, status <- s7, proc <- s8,
    policy <- s9, hidden <- s10, left <- s11, Kind <- media,
    Files <- {w, m}, Manual <- {m}, CrossDevice <- {w}, Restrictive <- {w, m},
    MaxCrashes <- 1, MaxPower <- 0, MaxFaults <- 1, MaxAdmin <- 1

\* The worker's file alone, with power losses, a crash and an error.
P2 == INSTANCE Publication WITH
    dir <- s1, file <- s2, inode <- s3, kdir <- s4, kfile <- s5, kinode <- s6, status <- s7, proc <- s8,
    policy <- s9, hidden <- s10, left <- s11, Kind <- media,
    Files <- {w}, Manual <- {}, CrossDevice <- {w}, Restrictive <- {w},
    MaxCrashes <- 1, MaxPower <- 2, MaxFaults <- 1, MaxAdmin <- 1

ASSUME PublicationAssumptions == P1!PublicationAssumption /\ P2!PublicationAssumption

\* Two roles of the supervisor; the worker's pull and a manual one of another
\* concurrency, and three callers of the control channel.
TwoRoles == <<"api", "gateway">>
PullWant == [worker |-> 2, manual |-> 1]
CallWant == [worker |-> 2, manual |-> 1, scan |-> 1]

Resting == kind = "Want" /\ CodecInit

HomeInit ==
    \/ /\ Resting
       /\ \/ Chosen("fresh", 10) /\ S1!SyncInit
          \/ Chosen("plan", 10) /\ S2!SyncInit
          \/ Chosen("repeat", 10) /\ S3!SyncInit
          \/ Chosen("cache", 10) /\ T1!Init
          \/ Chosen("keys", 10) /\ T2!Init
          \/ Chosen("wants", 10) /\ T3!Init
          \/ Chosen("holds", 10) /\ T4!Init
          \/ Chosen("transfer", 7) /\ X!Init
          \/ Chosen("modes", 11) /\ P1!Init
          \/ Chosen("power", 11) /\ P2!Init
          \/ DaemonsInit
    \/ Chosen("codec", 0) /\ CodecInit

HomeNext ==
    \/ /\ UNCHANGED vars
       /\ \/ Moves("fresh", 10) /\ FreshNext
          \/ Moves("plan", 10) /\ S2!SyncNext
          \/ Moves("repeat", 10) /\ S3!SyncNext
          \/ Moves("cache", 10) /\ CacheNext
          \/ Moves("keys", 10) /\ KeysNext
          \/ Moves("wants", 10) /\ WantNext
          \/ Moves("holds", 10) /\ HoldNext
          \/ Moves("transfer", 7) /\ X!Next
          \/ Moves("modes", 11) /\ P1!Next
          \/ Moves("power", 11) /\ P2!Next
          \/ DaemonsNext
    \/ Moves("codec", 0) /\ CodecNext

HomeSpec == HomeInit /\ [][HomeNext]_<<slots, vars>>

-----------------------------------------------------------------------------
(* What is promised of the parts.  Each conjunct is defined, with a comment, *)
(* in the part's module; the type invariants go with them.                   *)

\* A one-shot sync copies exactly one look at the seedbox.  The manifest is one
\* listing read after the request was accepted (qualifying_generation, capture);
\* a late commit never marks a newer scan complete (commit_listing); what a plan
\* decided on aged snapshots is still true when it is committed (schedule_sync);
\* a Job of a Sync is named by a manifest that exists (validate_delete), and a
\* finished request never changes again, however often its ID is submitted.
SyncIsExact ==
    /\ [](/\ part = "fresh" => S1!SyncTypeOK /\ S1!CapturedFromFreshScan /\ S1!ReadyMeansWholeListing
          /\ part = "plan" => S2!SyncTypeOK /\ S2!CapturedFromFreshScan /\ S2!ReadyMeansWholeListing
          /\ part = "repeat" => S3!SyncTypeOK /\ S3!LiveJobsHaveManifests /\ S3!ReadyMeansWholeListing)
    /\ [][/\ part = "plan" => S2!SchedulesCurrent
          /\ part = "repeat" => S3!SchedulesCurrent /\ S3!KeepsFinished]_slots

\* The TUI shows the server's objects and writes over what it showed.  Once
\* everything sent is applied, a current session shows exactly the store,
\* whatever was written between watch, List and Gets (subscription.rs); an object
\* that left the screen never comes back under its uid (accept_revision); the
\* pending flags are the work in flight (finish, complete_sync); a write replaces
\* the version that was drawn when its key was pressed (prepare, submit).
ScreenIsStore ==
    /\ [](/\ part = "cache" => T1!TuiTypeOK /\ T1!DroppedStaysGone /\ T1!DrainedIsStore
          /\ part = "keys" => T2!TuiTypeOK /\ T2!FlagsFollowWork)
    /\ [][/\ part = "wants" => T3!ReplacesSeen
          /\ part = "holds" => T4!ReplacesSeen]_slots

\* From the seedbox to the library no byte is missing.  What pull_file returns is
\* whole, of the requested source and survives a power loss, and a range whose
\* proof still holds is not fetched again (load_sidecar, sync_dir); a library path
\* never names incomplete bytes (copy_across_devices), what is reported as
\* installed can be read by every user unless the administrator hid it, up to the
\* first power loss, and after it if no crash, error or other installation
\* interfered (publish_readable), and a mode he chose is kept
\* (create_library_directories).
BytesAreWhole ==
    /\ [](/\ part = "modes" => P1!ReportedIsReadable /\ P1!PolicyKept
          /\ part = "transfer" => X!TransferTypeOK
          /\ part = "power" => P2!ReportedIsReadable /\ P2!PublishedIsWhole)
    /\ [][part = "transfer" => X!ReturnsWhole /\ X!ReturnsDurable /\ X!FetchesMissing]_slots

-----------------------------------------------------------------------------
(* What must happen in the end.  Each component has the fairness its own   *)
(* scheduling gives: a thread or task that can go on goes on, and a        *)
(* supervised process is started again.  Users, faults and the world owe   *)
(* nothing.  The codec rests.                                              *)

\* One-shot sync: one file, a listing that may never come, API restarts.
Sync == INSTANCE SyncRequest WITH
    db <- s1, box <- s2, disk <- s3, scan <- s4, late <- s5, ctl <- s6, waiting <- s7, left <- s8,
    published <- s9, basis <- s10,
    Files <- {1}, Places <- {1}, Place <- <<1>>, Seed <- {1}, Media <- {1}, Parsed <- {1},
    Holds <- {}, HoldOn <- <<>>, Requests <- {req}, Configs <- {c1},
    MaxScans <- 1, MaxEdits <- 0, MaxJobs <- 0, MaxLapses <- 1, MaxCrashes <- 1, MaxDeletes <- 0, MaxSubmits <- 1

\* The same with a request that may be deleted, and heartbeats in time.
Gone == INSTANCE SyncRequest WITH
    db <- s1, box <- s2, disk <- s3, scan <- s4, late <- s5, ctl <- s6, waiting <- s7, left <- s8,
    published <- s9, basis <- s10,
    Files <- {1}, Places <- {1}, Place <- <<1>>, Seed <- {1}, Media <- {1}, Parsed <- {1},
    Holds <- {}, HoldOn <- <<>>, Requests <- {req}, Configs <- {c1},
    MaxScans <- 1, MaxEdits <- 0, MaxJobs <- 0, MaxLapses <- 0, MaxCrashes <- 1, MaxDeletes <- 1, MaxSubmits <- 1

\* The TUI with one Want, which the user and others write.
Tui == INSTANCE TuiSession WITH
    objs <- s1, rev <- s2, log <- s3, task <- s4, chan <- s5, ses <- s6, ui <- s7, work <- s8, wire <- s9,
    dropped <- s10, Keys <- {"want"}, MaxRev <- 2, MaxEpoch <- 2, ChanCap <- 1, Gens <- {0},
    KeyReleases <- FALSE
TuiNext ==
    \/ Tui!TaskStep \/ Tui!Failures \/ Tui!RecvSession \/ Tui!Redraw(TRUE) \/ Tui!Redraw(FALSE)
    \/ Tui!WorkStep \/ Tui!EnterDetail \/ Tui!StoreStep \/ Tui!PressSync(FALSE)
    \/ Tui!PressMutation("delete")

\* One puller; no decay, after which a staged file is refused for ever.
Transfer == INSTANCE Transfer WITH
    remote <- s1, dir <- s2, data <- s3, durable <- s4, lock <- s5, proc <- s6, faults <- s7,
    Pullers <- {pu1}, Sources <- {src1}, FileLen <- 3, RangeLens <- {1, 2},
    Concurrency <- 2, MaxVersion <- 1, MaxFaults <- 1, Cleaners <- {}
TransferNext ==
    \/ Transfer!Pull(pu1) \/ Transfer!FetchFails(pu1) \/ Transfer!Crash(pu1)
    \/ Transfer!PowerLoss \/ Transfer!RemoteChanges(src1)

\* The worker's file across devices; an error or a death after the link.
Publish == INSTANCE Publication WITH
    dir <- s1, file <- s2, inode <- s3, kdir <- s4, kfile <- s5, kinode <- s6, status <- s7, proc <- s8,
    policy <- s9, hidden <- s10, left <- s11, Kind <- media,
    Files <- {w}, Manual <- {}, CrossDevice <- {w}, Restrictive <- {w},
    MaxCrashes <- 1, MaxPower <- 0, MaxFaults <- 1, MaxAdmin <- 1

\* Two Jobs in the worker's queue, one of them across devices.
Worker == INSTANCE PullWorker WITH
    job <- s1, proof <- s2, late <- s3, disk <- s4, data <- s5, worker <- s6, left <- s7,
    published <- s8, disturbed <- s9, unremoved <- s10,
    Jobs <- {1, 2}, CrossDevice <- {2}, MaxAttempts <- 2,
    MaxCrashes <- 1, MaxFaults <- 0, MaxUser <- 0, MaxCreations <- 2

ASSUME ProgressAssumptions ==
    /\ Sync!SyncAssumption /\ Gone!SyncAssumption /\ Tui!TuiAssumption /\ Transfer!TransferAssumption
    /\ Publish!PublicationAssumption

ProgressInit ==
    /\ Resting
    /\ \/ Chosen("sync", 10) /\ Sync!SyncInit
       \/ Chosen("gone", 10) /\ Gone!SyncInit
       \/ Chosen("tui", 10) /\ Tui!Init
       \/ Chosen("transfer", 7) /\ Transfer!Init
       \/ Chosen("gateway", 8) /\ G!GatewayInit
       \/ Chosen("control", 7) /\ O!PoolInit
       \/ Chosen("supervisor", 6) /\ R!SupervisorInit
       \/ Chosen("publish", 11) /\ Publish!Init
       \/ Chosen("queue", 10) /\ Worker!PullInit

ProgressNext ==
    /\ UNCHANGED vars
    /\ \/ Moves("sync", 10) /\ Sync!SyncNext
       \/ Moves("gone", 10) /\ Gone!SyncNext
       \/ Moves("tui", 10) /\ TuiNext
       \/ Moves("transfer", 7) /\ TransferNext
       \/ Moves("gateway", 8) /\ G!GatewayNext
       \/ Moves("control", 7) /\ O!PoolNext
       \/ Moves("supervisor", 6) /\ R!SupervisorNext
       \/ Moves("publish", 11) /\ Publish!Next
       \/ Moves("queue", 10) /\ Worker!PullNext

\* The controller task wakes every two seconds, the clock runs, the caller's loop polls.
SyncFair ==
    /\ WF_slots(Moves("sync", 10) /\ Sync!Controller)
    /\ WF_slots(Moves("sync", 10) /\ Sync!Deadline(req))
    /\ WF_slots(Moves("sync", 10) /\ Sync!Poll(req))
    /\ WF_slots(Moves("gone", 10) /\ Gone!Controller)
    /\ WF_slots(Moves("gone", 10) /\ Gone!Deadline(req))
    /\ WF_slots(Moves("gone", 10) /\ Gone!Poll(req))

\* The connection's task and the event loop go on and a due timer fires.
TuiFair ==
    /\ WF_slots(Moves("tui", 10) /\ Tui!TaskStep)
    /\ WF_slots(Moves("tui", 10) /\ Tui!RecvSession)
    /\ WF_slots(Moves("tui", 10) /\ Tui!Redraw(TRUE))
    /\ WF_slots(Moves("tui", 10) /\ Tui!WorkStep)

\* A pull that failed or died is started again.
TransferFair == WF_slots(Moves("transfer", 7) /\ Transfer!Pull(pu1))

\* The supervisor respawns the gateway, and a running one goes on.
GateFair == WF_slots(Moves("gateway", 8) /\ G!GatewayStep(g1))

\* The seedbox answers a call, or its connection breaks.
PoolFair == WF_slots(Moves("control", 7) /\ O!ControlAnswer)

\* The select! of the loop takes a delivered signal in the end, however often a role
\* dies; a role that is signalled ends.
SuperFair ==
    /\ WF_slots(Moves("supervisor", 6) /\ R!SupervisorStep)
    /\ SF_slots(Moves("supervisor", 6) /\ R!TakeSignal)
    /\ \A pid \in 1 .. 3 : WF_slots(Moves("supervisor", 6) /\ R!RoleObeys(pid))

\* The worker is restarted and repeats its pass; the administrator repairs the mode
\* an error message names.
PublishFair ==
    /\ WF_slots(Moves("publish", 11) /\ Publish!Step(w))
    /\ \A d \in {media, w} : WF_slots(Moves("publish", 11) /\ Publish!Repair(d))

\* The worker's loop goes on, and time passes.
WorkerFair ==
    /\ WF_slots(Moves("queue", 10) /\ \E j \in {1, 2} : Worker!Work(j))
    /\ \A j \in {1, 2} : WF_slots(Moves("queue", 10) /\ Worker!Expire(j))

ProgressSpec ==
    /\ ProgressInit /\ [][ProgressNext]_<<slots, vars>>
    /\ SyncFair /\ TuiFair /\ TransferFair /\ GateFair /\ PoolFair /\ SuperFair /\ PublishFair /\ WorkerFair

\* Every accepted Sync request is scheduled, failed or deleted in the end, whatever
\* inventory does and however often the API restarts (reconcile, fail).
Unended == (part = "sync" /\ Sync!Unended(req)) \/ (part = "gone" /\ Gone!Unended(req))
RequestsEnd == Unended ~> ~Unended

\* Every caller of Sync gets an answer (start).
Waiting == part \in {"sync", "gone"} /\ req \in s7
CallersAnswered == Waiting ~> ~Waiting

\* A key press that started a write or a sync is always answered (finish, complete_sync).
PendingClears ==
    /\ (part = "tui" /\ s7.pending) ~> ~(part = "tui" /\ s7.pending)
    /\ (part = "tui" /\ s7.syncing) ~> ~(part = "tui" /\ s7.syncing)

\* After the last failure and the last write the TUI is current and shows the
\* server's objects for good (subscription.rs, session.rs).
ScreenConverges ==
    <>[](part = "tui" => Tui!WritesAllowed(s6) /\ Tui!View(s6.entries) = s1)

\* One file of one source is staged in the end, however pulls fail and restart (pull_file).
PullCompletes == <>(part = "transfer" => Transfer!At(pu1, "ok"))

\* A gateway does not go on serving under a Secret that was replaced or deleted: it
\* hears of it, or its watch ends and it starts over (watch_secret).
StaleSecretEnds ==
    (part = "gateway" /\ G!ServesStale(g1)) ~> ~(part = "gateway" /\ G!ServesStale(g1))

\* Whatever was killed or left behind, a gateway serves on its path in the end once
\* configuration, API and seedbox agree.
ServesInTheEnd == (part = "gateway" /\ G!Settled) ~> (part = "gateway" /\ G!Serves)

\* Every control call through the gateway is answered, however many others keep calling.
ControlAnswered ==
    \A c \in {"worker", "manual", "scan"} :
        (part = "control" /\ c \in Range(s6)) ~> ~(part = "control" /\ c \in Range(s6))

\* SIGTERM or SIGINT ends the supervisor, whatever the roles do.
StopEnds == (part = "supervisor" /\ s4) ~> (part = "supervisor" /\ s1.pc = "exit")

\* A role whose binary is there runs again, or the supervisor is ending.
RolesComeBack ==
    \A i \in {1, 2} :
        (part = "supervisor" /\ R!Lacks(i)) ~> ~(part = "supervisor" /\ R!Lacks(i))

\* Once the worker has published a file its Job ends Installed: an error or a death
\* after the link, and a private directory, only delay the report (place_verified).
PublishedIsInstalled ==
    (part = "publish" /\ Publish!Unreported(w)) ~> ~(part = "publish" /\ Publish!Unreported(w))

\* Every bound Job settles, whatever crashes and errors happened on the way, unless a
\* proof was flagged as drifted under a Job that had not finished.
Waits(j) == Worker!Active(j) /\ \A k \in {1, 2} : ~s2[k].drifted
JobsSettle ==
    \A j \in {1, 2} : (part = "queue" /\ Waits(j)) ~> ~(part = "queue" /\ Waits(j))

\* None of the daemons stalls: requests end and their callers are answered, the
\* TUI converges, a pull completes, the gateway drops a stale Secret and serves, a
\* stop ends the supervisor and a role comes back, what is published is reported,
\* and Jobs settle.
DaemonsProgress ==
    /\ RequestsEnd /\ CallersAnswered
    /\ PendingClears /\ ScreenConverges
    /\ PullCompletes
    /\ StaleSecretEnds /\ ServesInTheEnd /\ ControlAnswered
    /\ StopEnds /\ RolesComeBack
    /\ PublishedIsInstalled /\ JobsSettle

=============================================================================
