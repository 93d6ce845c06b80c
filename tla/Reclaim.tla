------------------------------ MODULE Reclaim ------------------------------
(***************************************************************************)
(* `mediaops reclaim preview|apply`: removing from the seedbox the copies  *)
(* that are proved installed at home.  The command collects, one call      *)
(* after the other, the Title proofs of the Home API, the digests of the   *)
(* library files, a scan of the library, the listing of the box and the    *)
(* torrents of qBittorrent, plans on these snapshots, and asks the seedbox *)
(* to delete each candidate; the seedbox asks qBittorrent again, inspects  *)
(* the file and unlinks it.  Torrents, links, the library and the clients  *)
(* move between any two of these steps.  The inspection and the unlink run *)
(* on a thread of the seedbox that nothing cancels: a call its caller has  *)
(* given up, or whose caller has died, is still carried out.               *)
(*                                                                         *)
(* Paths are sequences of names: a path is [abs, names].  What pathschema  *)
(* computes from a box path is the constant LocalOf.                       *)
(***************************************************************************)
EXTENDS Integers, Sequences, SequencesExt, FiniteSets, FiniteSetsExt

CONSTANTS
    Files,      \* the refs [root, rel] of the files of the allowlisted roots
    RootPath,   \* root ID -> names of its canonical path
    LocalOf,    \* file -> the library path it would be installed at, or NoCopy
    InSchema,   \* the files whose relative path parse_placement accepts
    Mtime,      \* file -> modification time
    Torrents,   \* torrent hashes
    Content,    \* torrent -> content_path
    Save,       \* torrent -> save_path
    TorrentFacts, \* the values [state, ratio, private] a torrent may have
    Grabber,    \* "servarr" or "none"
    HasOps,     \* whether the seedbox was started with a configuration
    MaxDeletes, \* --max, or NoMax
    Meddling,   \* whether the library may change during a run ("always") or only between runs ("idle")
    MaxCalls,   \* bound: DeleteRemote calls the seedbox serves at one time
    MaxEvents,  \* bound: environment steps
    NoCopy, NoMax

\* What an instance gives the constants: the placeholders name no file and no torrent.
ReclaimAssumption == NoCopy \notin Files /\ "link" \notin Torrents

VARIABLES
    box,     \* file -> [there, nlink]
    tor,     \* torrent -> its facts, or Absent
    qbit,    \* whether qBittorrent answers
    lib,     \* library path -> bytes, or Gone
    proof,   \* library path -> [digest, drifted], or NoProof
    lock,    \* holder of the state.db flock
    run,     \* the reclaim command
    served,  \* call -> the DeleteRemote the seedbox is serving, or NoDelete
    sound,   \* ghost: library paths intact at some moment of this run
    guarded, \* ghost: call -> the reasons to keep its file that held ever since it arrived
    events   \* environment steps so far

vars == <<box, tor, qbit, lib, proof, lock, run, served, sound, guarded, events>>

Absent == [state |-> "absent", ratio |-> 0, private |-> FALSE]
Gone == "gone"
NoProof == [digest |-> Gone, drifted |-> FALSE]
Locals == {LocalOf[f] : f \in Files} \ {NoCopy}

---------------------------------------------------------------------------
(* Which torrent covers which file                                         *)

GoalRatio == 1
NonSeedStates ==
    {"downloading", "pausedDL", "queuedDL", "stalledDL", "stoppedDL", "metaDL", "forcedDL",
     "checkingDL", "allocating", "checkingResumeData", "error", "missingFiles"}

IsSeeding(state) == state \notin NonSeedStates
PrivateUnderGoal(t) == t.private /\ t.ratio < GoalRatio
BlocksDelete(t) == IsSeeding(t.state) \/ PrivateUnderGoal(t)

Path(abs, names) == [abs |-> abs, names |-> names]
AbsPath(f) == Path(TRUE, RootPath[f.root] \o f.rel)
RelPath(f) == Path(FALSE, f.rel)

\* is_strict_under: below root, and root has at least two names.
IsStrictUnder(file, root) ==
    /\ file.abs = root.abs
    /\ Len(root.names) >= 2
    /\ IsStrictPrefix(root.names, file.names)

\* A relative file of the library schema also matches as the tail of root.
CoversOne(root, file, schema) ==
    /\ root.names # <<>>
    /\ \/ file = root
       \/ IsStrictUnder(file, root)
       \/ schema /\ ~file.abs /\ IsSuffix(file.names, root.names)

Covers(t, file, schema) == CoversOne(Content[t], file, schema) \/ CoversOne(Save[t], file, schema)
CoversPath(t, f) == Covers(t, AbsPath(f), FALSE)

\* guards: the attached remote, the absolute path when there is one, the relative path.
Guards(t, remote, f, absolute) ==
    \/ remote = f
    \/ absolute /\ CoversPath(t, f)
    \/ Covers(t, RelPath(f), f \in InSchema)

---------------------------------------------------------------------------
(* The seedbox: walker and qBittorrent                                     *)

IsTorrentSkip(names) ==
    \E i \in 1 .. Len(names) - 1 : names[i] = "torrents" /\ names[i + 1] = "incomplete"

\* What Allowlist::list emits and entry/unlink accept.
Listed(b) == {f \in Files : b[f].there /\ ~IsTorrentSkip(AbsPath(f).names)}

\* list() is sorted by (root_id, rel_path); the position of a file in it.
FileOrder == SetToSeq(Files)
Before(f, g) == \E i, j \in DOMAIN FileOrder : i < j /\ FileOrder[i] = f /\ FileOrder[j] = g

Reported == {t \in Torrents : tor[t] # Absent /\ (Content[t].names # <<>> \/ Save[t].names # <<>>)}
NoTorrents == [t \in {} |-> Absent]

\* qbit_snapshot as guard_preview and delete_remote use it.
Unavailable == HasOps /\ ~qbit /\ Grabber = "servarr"
Snapshot == IF HasOps /\ qbit THEN [t \in Reported |-> tor[t]] ELSE NoTorrents

\* attach_guard_remotes: the first listed file a torrent covers.
Attached(snap, t) ==
    LET covered == {f \in Listed(box) : CoversPath(t, f)}
    IN  IF covered = {} THEN NoCopy
        ELSE CHOOSE f \in covered : \A g \in covered \ {f} : Before(f, g)
GuardItems == [t \in DOMAIN Snapshot |-> [facts |-> Snapshot[t], remote |-> Attached(Snapshot, t)]]

---------------------------------------------------------------------------
(* The plan on the snapshots                                               *)

\* reclaim_proved
Proved(r) ==
    {f \in DOMAIN r.listing :
        /\ r.listing[f] <= 1
        /\ LocalOf[f] # NoCopy
        /\ LocalOf[f] \in r.disk
        /\ LocalOf[f] \in r.verified}

Covering(r, f) == {t \in DOMAIN r.items : Guards(t, r.items[t].remote, f, FALSE)}

\* reclaim_preview: what no covering torrent blocks.
Unblocked(r) ==
    {f \in Proved(r) : \A t \in Covering(r, f) : ~BlocksDelete(r.items[t].facts)}

\* rank_key: public, low ratio, old first; the sort is stable.
RankKey(r, f) ==
    LET cover == Covering(r, f)
        best == CHOOSE t \in cover : \A u \in cover :
                   LET a == r.items[t].facts  b == r.items[u].facts
                   IN  (b.private => a.private) /\ (a.private = b.private => a.ratio >= b.ratio)
    IN  IF cover = {} THEN <<0, 0, Mtime[f]>>
        ELSE <<IF r.items[best].facts.private THEN 1 ELSE 0, r.items[best].facts.ratio, Mtime[f]>>

LexLess(a, b) ==
    \E i \in 1 .. 3 : a[i] < b[i] /\ \A j \in 1 .. i - 1 : a[j] = b[j]

\* The candidates are sorted by it; the file's place among them.
RanksBefore(r, f, g) ==
    \/ LexLess(RankKey(r, f), RankKey(r, g))
    \/ RankKey(r, f) = RankKey(r, g) /\ Before(f, g)

\* The candidates stay in the order of the listing when the torrents are unknown.
Precedes(r, f, g) == IF r.ranked THEN RanksBefore(r, f, g) ELSE Before(f, g)

\* --max keeps the first of them.
Truncated(r, cands) ==
    {f \in cands : MaxDeletes = NoMax \/ Cardinality({g \in cands : Precedes(r, g, f)}) < MaxDeletes}

---------------------------------------------------------------------------
NoRun == [at |-> "idle", cmd |-> "none", rows |-> {}, verified |-> {}, disk |-> {},
          listing |-> [f \in {} |-> 0], items |-> [t \in {} |-> NoCopy], ranked |-> FALSE, todo |-> {},
          call |-> 0, shown |-> {}, outcome |-> [f \in {} |-> "none"]]

\* A call being served; the ghost `proved` says that its file had been intact at home when it was sent.
CallIds == 1 .. MaxCalls
NoDelete == [file |-> NoCopy, at |-> "none", snap |-> NoTorrents, proved |-> FALSE]

Intact(p) == lib[p] # Gone /\ proof[p] # NoProof /\ lib[p] = proof[p].digest

\* Why a file must stay: another link, or a torrent the seedbox would be told of.
Reasons(f) ==
    (IF box[f].nlink > 1 THEN {"link"} ELSE {})
    \cup {t \in Reported : /\ HasOps /\ (qbit \/ Grabber = "servarr")
                           /\ CoversPath(t, f) /\ BlocksDelete(tor[t])}

ServedReasons(i) == IF served[i] = NoDelete THEN {} ELSE Reasons(served[i].file)

Init ==
    /\ box = [f \in Files |-> [there |-> TRUE, nlink |-> 1]]
    /\ tor \in [Torrents -> TorrentFacts]
    /\ qbit = TRUE
    /\ lib = [p \in Locals |-> "orig"]
    /\ proof = [p \in Locals |-> [digest |-> "orig", drifted |-> FALSE]]
    /\ lock = "free"
    /\ run = NoRun
    /\ served = [i \in CallIds |-> NoDelete]
    /\ sound = {}
    /\ guarded = [i \in CallIds |-> {}]
    /\ events = 0

World == <<box, tor, qbit, lib, proof, events>>

\* Mutant: apply does not take the exclusive lock.
BeginUnlocked(cmd) ==
    /\ run.at = "idle"
    /\ run' = [NoRun EXCEPT !.at = "rows", !.cmd = cmd]
    /\ UNCHANGED <<World, lock, served>>

\* Only apply takes the exclusive lock.
Begin(cmd) ==
    /\ run.at = "idle"
    /\ cmd = "apply" => lock = "free"
    /\ lock' = IF cmd = "apply" THEN "reclaim" ELSE lock
    /\ run' = [NoRun EXCEPT !.at = "rows", !.cmd = cmd]
    /\ UNCHANGED <<World, served>>

\* home.rows(false): the files of the Titles that are not known to have drifted.
Rows ==
    /\ run.at = "rows"
    /\ run' = [run EXCEPT !.at = "verify",
                          !.rows = {[path |-> p, digest |-> proof[p].digest] :
                                       p \in {q \in Locals : proof[q] # NoProof /\ ~proof[q].drifted}}]
    /\ UNCHANGED <<World, lock, served>>

\* Hash one file again; only a row whose bytes still have the current digest is kept.
VerifyRow ==
    /\ run.at = "verify"
    /\ \E row \in run.rows :
        run' = [run EXCEPT !.rows = @ \ {row},
                           !.verified = IF lib[row.path] = row.digest THEN @ \cup {row.path} ELSE @]
    /\ UNCHANGED <<World, lock, served>>

ScanDisk ==
    /\ run.at = "verify" /\ run.rows = {}
    /\ run' = [run EXCEPT !.at = "list", !.disk = {p \in Locals : lib[p] # Gone}]
    /\ UNCHANGED <<World, lock, served>>

ListBox ==
    /\ run.at = "list"
    /\ run' = [run EXCEPT !.at = "guard", !.listing = [f \in Listed(box) |-> box[f].nlink]]
    /\ UNCHANGED <<World, lock, served>>

Ended(r) == [NoRun EXCEPT !.shown = r.shown, !.outcome = r.outcome, !.cmd = r.cmd]

\* guard_preview and the plan: preview needs the torrents, apply goes on without.
PlanRun ==
    /\ run.at = "guard"
    /\ LET planned == [run EXCEPT !.items = GuardItems, !.ranked = ~Unavailable]
           todo == Truncated(planned, IF Unavailable THEN Proved(run) ELSE Unblocked(planned))
       IN  IF run.cmd = "preview"
           THEN run' = Ended([planned EXCEPT !.shown = IF Unavailable THEN {} ELSE todo])
           ELSE run' = [planned EXCEPT !.at = "delete", !.todo = todo, !.shown = todo]
    /\ UNCHANGED <<World, lock, served>>

---------------------------------------------------------------------------
(* apply_reclaim and the seedbox's DeleteRemote                            *)

\* apply_reclaim asks for one file after the other and awaits each answer.
SendDelete ==
    /\ run.at = "delete" /\ run.call = 0
    /\ \E f \in run.todo, i \in CallIds :
        /\ \A g \in run.todo \ {f} : Precedes(run, f, g)
        /\ served[i] = NoDelete /\ \A j \in 1 .. i - 1 : served[j] # NoDelete
        /\ served' = [served EXCEPT ![i] = [file |-> f, at |-> "query", snap |-> NoTorrents,
                                            proved |-> LocalOf[f] \in sound]]
        /\ run' = [run EXCEPT !.call = i]
    /\ UNCHANGED <<World, lock>>

\* What the command notes about the call it waits for.
Noted(out) ==
    LET g == served[run.call].file
    IN  [run EXCEPT !.todo = @ \ {g}, !.call = 0,
                    !.outcome = [f \in DOMAIN @ \cup {g} |-> IF f = g THEN out ELSE @[f]]]

\* A call ends; nobody hears the answer of one that was given up.
Answer(i, out) ==
    /\ run' = IF run.call = i THEN Noted(out) ELSE run
    /\ served' = [served EXCEPT ![i] = NoDelete]

\* qbit_snapshot inside the call; a Servarr box whose qBit is silent refuses.
QueryQbit(i) ==
    /\ served[i].at = "query"
    /\ IF Unavailable THEN Answer(i, "qbit_unavailable")
       ELSE /\ served' = [served EXCEPT ![i] = [file |-> @.file, at |-> "inspect", snap |-> Snapshot,
                                                proved |-> @.proved]]
            /\ UNCHANGED run
    /\ UNCHANGED <<World, lock>>

Blocked(i) ==
    \E t \in DOMAIN served[i].snap :
        Guards(t, NoCopy, served[i].file, TRUE) /\ BlocksDelete(served[i].snap[t])

\* delete_remote_locked up to the unlink: absolute, entry, nlink, torrents.
Inspect(i) ==
    /\ served[i].at = "inspect"
    /\ LET f == served[i].file
       IN  IF f \notin Listed(box) THEN Answer(i, "failed")
           ELSE IF box[f].nlink > 1 \/ Blocked(i) THEN Answer(i, "skipped_seeding")
           ELSE served' = [served EXCEPT ![i] = [@ EXCEPT !.at = "unlink"]] /\ UNCHANGED run
    /\ UNCHANGED <<World, lock>>

Unlink(i) ==
    /\ served[i].at = "unlink"
    /\ IF served[i].file \in Listed(box)
       THEN box' = [box EXCEPT ![served[i].file].there = FALSE] /\ Answer(i, "deleted")
       ELSE UNCHANGED box /\ Answer(i, "failed")
    /\ UNCHANGED <<tor, qbit, lib, proof, events, lock>>

\* What becomes of a call nobody waits for any more: before spawn_blocking it is
\* dropped if the seedbox learns of it, afterwards it is carried out.
Abandoned(i) ==
    \/ UNCHANGED served
    \/ served[i].at = "query" /\ served' = [served EXCEPT ![i] = NoDelete]

\* The connection or the gateway fails the call: the report counts it and goes on.
LoseDelete ==
    /\ run.call # 0 /\ events < MaxEvents
    /\ run' = Noted("failed")
    /\ Abandoned(run.call)
    /\ events' = events + 1
    /\ UNCHANGED <<box, tor, qbit, lib, proof, lock>>

\* The reclaim process dies or is interrupted; the kernel releases its flock.
Interrupted ==
    /\ run.at # "idle" /\ events < MaxEvents
    /\ run' = NoRun
    /\ lock' = IF run.cmd = "apply" THEN "free" ELSE lock
    /\ IF run.call = 0 THEN UNCHANGED served ELSE Abandoned(run.call)
    /\ events' = events + 1
    /\ UNCHANGED <<box, tor, qbit, lib, proof>>

\* The seedbox daemon dies with all it was serving.
SeedboxDies ==
    /\ \E i \in CallIds : served[i] # NoDelete
    /\ events < MaxEvents
    /\ run' = IF run.call = 0 THEN run ELSE Noted("failed")
    /\ served' = [i \in CallIds |-> NoDelete]
    /\ events' = events + 1
    /\ UNCHANGED <<box, tor, qbit, lib, proof, lock>>

Finish ==
    /\ run.at = "delete" /\ run.todo = {}
    /\ run' = Ended(run)
    /\ lock' = "free"
    /\ UNCHANGED <<World, served>>

---------------------------------------------------------------------------
(* Everyone else                                                           *)

Env == events < MaxEvents /\ events' = events + 1

TorrentChanges ==
    /\ Env
    /\ \E t \in Torrents, v \in TorrentFacts \cup {Absent} : tor[t] # v /\ tor' = [tor EXCEPT ![t] = v]
    /\ UNCHANGED <<box, qbit, lib, proof, lock, run, served>>

QbitFlips ==
    /\ Env /\ qbit' = ~qbit
    /\ UNCHANGED <<box, tor, lib, proof, lock, run, served>>

BoxChanges ==
    /\ Env
    /\ \E f \in Files : box[f].there /\ \E v \in {[there |-> TRUE, nlink |-> 3 - box[f].nlink], [there |-> FALSE, nlink |-> 1]} :
          box' = [box EXCEPT ![f] = v]
    /\ UNCHANGED <<tor, qbit, lib, proof, lock, run, served>>

\* Somebody edits or removes a library file; a later scan marks it drifted.
Meddle ==
    /\ Env
    /\ Meddling = "always" \/ run.at = "idle"
    /\ \E p \in Locals, v \in {"other", Gone} : lib[p] # v /\ lib' = [lib EXCEPT ![p] = v]
    /\ UNCHANGED <<box, tor, qbit, proof, lock, run, served>>

MarkDrift ==
    /\ \E p \in Locals : /\ proof[p] # NoProof /\ ~Intact(p) /\ ~proof[p].drifted /\ lock # "encode"
                         /\ proof' = [proof EXCEPT ![p].drifted = TRUE]
    /\ UNCHANGED <<box, tor, qbit, lib, lock, run, served, events>>

\* `encode run`: under the same lock, the bytes first and the proof afterwards.
EncodeReplaces ==
    /\ Env /\ lock = "free"
    /\ \E p \in Locals : Intact(p) /\ lib[p] = "orig" /\ lib' = [lib EXCEPT ![p] = "enc"]
    /\ lock' = "encode"
    /\ UNCHANGED <<box, tor, qbit, proof, run, served>>

EncodeRecords ==
    /\ lock = "encode"
    /\ proof' = [p \in Locals |-> IF lib[p] = "enc" /\ proof[p] # NoProof THEN [digest |-> "enc", drifted |-> FALSE] ELSE proof[p]]
    /\ lock' = "free"
    /\ UNCHANGED <<box, tor, qbit, lib, run, served, events>>

---------------------------------------------------------------------------
\* The ghosts follow every step.
Ghosts ==
    /\ sound' = (IF run.at = "idle" THEN {} ELSE sound) \cup {p \in Locals : Intact(p)'}
    /\ guarded' = [i \in CallIds |-> ServedReasons(i)' \cap
                      (IF served[i] = NoDelete THEN Torrents \cup {"link"} ELSE guarded[i])]

Step ==
    \/ \E cmd \in {"preview", "apply"} : Begin(cmd)
    \/ Rows \/ VerifyRow \/ ScanDisk \/ ListBox \/ PlanRun
    \/ SendDelete \/ LoseDelete \/ Interrupted \/ SeedboxDies \/ Finish
    \/ \E i \in CallIds : QueryQbit(i) \/ Inspect(i) \/ Unlink(i)
    \/ TorrentChanges \/ QbitFlips \/ BoxChanges \/ Meddle \/ MarkDrift
    \/ EncodeReplaces \/ EncodeRecords

Next == Step /\ Ghosts
Spec == Init /\ [][Next]_vars

---------------------------------------------------------------------------
\* Call i takes its file away.
Unlinked(i) ==
    /\ served[i].at = "unlink" /\ served'[i] = NoDelete
    /\ box[served[i].file].there /\ ~box'[served[i].file].there

\* The shapes of the variables.
ReclaimTypeOK ==
    /\ box \in [Files -> [there : BOOLEAN, nlink : 1 .. 2]]
    /\ tor \in [Torrents -> TorrentFacts \cup {Absent}]
    /\ lib \in [Locals -> {"orig", "enc", "other", Gone}]
    /\ lock \in {"free", "reclaim", "encode"}
    /\ run.at \in {"idle", "rows", "verify", "list", "guard", "delete"}
    /\ run.call \in CallIds \cup {0}
    /\ DOMAIN served = CallIds
    /\ \A i \in CallIds : served[i].at \in {"none", "query", "inspect", "unlink"}
    /\ run.call # 0 => run.at = "delete" /\ served[run.call].at # "none"
    /\ sound \subseteq Locals /\ guarded \in [CallIds -> SUBSET (Torrents \cup {"link"})]

\* What the seedbox unlinks had, at some moment of the run that asked for it, an
\* intact and recorded copy in the library: neither an old drift observation nor
\* a recorded proof alone is enough ("Check the current bytes immediately before
\* planning deletion", bins/mediaops/src/reclaim.rs).  This holds of every call,
\* also of one whose caller has gone.
DeletesProved ==
    \A i \in CallIds : Unlinked(i) => served[i].proved

\* As long as the library is only changed by the commands that take the lock,
\* the copy is still intact at the moment of the unlink, however long the
\* listing, the torrents and the earlier deletions took, if apply still waits
\* for this call.  It is not claimed of a call that was given up (the connection
\* failed, or apply died or was interrupted): delete_remote unlinks in
\* spawn_blocking (net/src/seedbox.rs:203), possibly when apply has ended and an
\* encode has the lock.
KeepsLastCopy ==
    \A i \in CallIds : Unlinked(i) /\ run.call = i => Intact(LocalOf[served[i].file])

\* A file that was linked elsewhere, or covered by a torrent that seeds or is
\* private under its goal, for as long as its DeleteRemote was being served is
\* not unlinked, whatever the home side planned on its older snapshot, and
\* whether or not it still waits.  (A file that changes from one reason to the
\* other meanwhile can be missed.)
SparesSeeders ==
    \A i \in CallIds : Unlinked(i) => guarded[i] = {}

\* apply_reclaim goes on after a failed call: when the command has ended every
\* candidate has an outcome.
EveryCandidateAnswered ==
    run.at = "idle" /\ run.cmd = "apply" => DOMAIN run.outcome = run.shown

=============================================================================
