------------------------------ MODULE Transfer ------------------------------
(***************************************************************************)
(* The range transfer (crates/transfer): pull_file copies a remote file in *)
(* ranges into `<name>.partial', records each range it has made durable    *)
(* with its digest in the sidecar `<name>.partial.b3', and links the whole *)
(* file to its staged name.  A later pull resumes from the sidecar, after  *)
(* hashing the bytes it claims.  Pullers of the worker and of the CLI may  *)
(* run at once; processes die and the machine loses power between any two  *)
(* steps, which takes back what was not synced.                            *)
(*                                                                         *)
(* A block of bytes is the pair of the source it came from and that        *)
(* source's version, its digest is the block itself, and all the sources   *)
(* have the length FileLen.  Progress reports and file modes are left out. *)
(***************************************************************************)
EXTENDS Integers, FiniteSets

CONSTANTS Pullers, Sources, FileLen, RangeLens, Concurrency,
          MaxVersion,  \* bound on changes of a remote file
          MaxFaults,   \* bound on crashes, power losses, refused fetches and decay
          Cleaners     \* pullers whose caller installs the file and cleans up

Nobody == "nobody"
NoSource == "none"

\* What an instance gives the constants.
TransferAssumption ==
    /\ FileLen \in Nat \ {0} /\ RangeLens \subseteq Nat \ {0} /\ Concurrency \in Nat \ {0}
    /\ MaxVersion \in Nat /\ MaxFaults \in Nat /\ Cleaners \subseteq Pullers
    /\ Nobody \notin Pullers /\ NoSource \notin Sources

VARIABLES remote,   \* the version of each source
          dir,      \* the directory: which names exist, and the sidecar
          data,     \* the blocks of the file partial and staged link to
          durable,  \* what a power loss leaves of dir and data
          lock,     \* the writer lock of the staging name
          proc,     \* the pullers
          faults
vars == <<remote, dir, data, durable, lock, proc, faults>>

Offsets == 0..(FileLen - 1)
Hole == [src |-> NoSource, ver |-> 0]
Torn == [src |-> NoSource, ver |-> 1]
Blank == [b \in Offsets |-> Hole]
NoSide == [exists |-> FALSE, src |-> NoSource, rangeLen |-> 0, proofs |-> {}]
EmptyDir == [partial |-> FALSE, staged |-> FALSE, side |-> NoSide]
Rest == [pc |-> "idle", src |-> NoSource, rangeLen |-> 0, side |-> NoSide, todo |-> {}, flight |-> {},
         range |-> <<0, 0>>]

-----------------------------------------------------------------------------
(* Ranges and their proofs *)

\* plan_ranges: the ranges <<offset, length>> that cover the file.
PlanRanges(rangeLen) ==
    {<<i * rangeLen, IF rangeLen < FileLen - i * rangeLen THEN rangeLen ELSE FileLen - i * rangeLen>> :
        i \in 0..((FileLen - 1) \div rangeLen)}

Blocks(r) == r[1]..(r[1] + r[2] - 1)
Digest(bytes, r) == [b \in Blocks(r) |-> bytes[b]]

\* remaining: the planned ranges without a proof.
Remaining(side) == {r \in PlanRanges(side.rangeLen) : ~\E p \in side.proofs : p.range = r}

\* verify_recorded_ranges: only proofs the bytes on disk still satisfy are kept.
Verified(side, present) ==
    [side EXCEPT !.proofs = {p \in @ : present /\ Digest(data, p.range) = p.digest}]

SourceIsKnown(side) == side.src # NoSource
CheckSource(side, src) == SourceIsKnown(side) => side.src = src

\* take_slots for one file: its first ranges.
TakeSlots(todo) == {r \in todo : Cardinality({q \in todo : q[1] < r[1]}) < Concurrency}

-----------------------------------------------------------------------------
(* One pull *)

Set(p, f) == proc' = [proc EXCEPT ![p] = f]
At(p, pc) == proc[p].pc = pc
Goto(p, pc) == Set(p, [proc[p] EXCEPT !.pc = pc])
SyncDir(d) == durable' = [durable EXCEPT !.dir = d]

\* pull_file ends: the lock goes with its handle.
Return(p, result) ==
    /\ Set(p, [Rest EXCEPT !.pc = result, !.src = proc[p].src])
    /\ lock' = Nobody

\* acquire_writer_lock; a second writer is refused.
LockIsFree == lock = Nobody

StartPull(p, src, rangeLen) ==
    /\ proc[p].pc \in {"idle", "failed"}
    /\ LockIsFree
    /\ lock' = p
    /\ Set(p, [Rest EXCEPT !.pc = "check", !.src = src, !.rangeLen = rangeLen])
    /\ UNCHANGED <<remote, dir, data, durable, faults>>

\* A staged file with a full and matching proof is handed on as it is; a
\* partial name that still links to it is removed.  Any other is refused.
Adoptable(p) ==
    LET side == dir.side IN
    /\ side.exists /\ CheckSource(side, proc[p].src) /\ SourceIsKnown(side)
    /\ Remaining(Verified(side, TRUE)) = {}

AdoptStaged(p) ==
    /\ At(p, "check") /\ dir.staged
    /\ \/ /\ Adoptable(p)
          /\ dir' = [dir EXCEPT !.partial = FALSE]
          /\ Return(p, "ok")
       \/ /\ ~Adoptable(p)
          /\ Return(p, "failed")
          /\ UNCHANGED dir
    /\ UNCHANGED <<remote, data, durable, faults>>

\* The sidecar of an earlier pull keeps its range length; a legacy one, which
\* names no source, keeps nothing else.  Its identity is saved before any byte.
Resumed(p) ==
    LET old == dir.side
        named == IF SourceIsKnown(old) THEN old ELSE [old EXCEPT !.proofs = {}]
        base == IF old.exists THEN Verified(named, dir.partial)
                ELSE [NoSide EXCEPT !.exists = TRUE, !.rangeLen = proc[p].rangeLen]
    IN [base EXCEPT !.src = proc[p].src]

LoadSidecar(p) ==
    /\ At(p, "check") /\ ~dir.staged
    /\ IF dir.side.exists /\ ~CheckSource(dir.side, proc[p].src)
       THEN /\ Return(p, "failed")
            /\ UNCHANGED <<dir, durable>>
       ELSE LET side == Resumed(p) IN
            /\ dir' = [dir EXCEPT !.side = side]
            /\ SyncDir(dir')
            /\ Set(p, [proc[p] EXCEPT !.pc = "open", !.side = side, !.todo = Remaining(side)])
            /\ UNCHANGED lock
    /\ UNCHANGED <<remote, data, faults>>

\* The partial file is created when it is missing, and given its length.
OpenPartial(p) ==
    /\ At(p, "open")
    /\ dir' = [dir EXCEPT !.partial = TRUE]
    /\ data' = IF dir.partial THEN data ELSE Blank
    /\ durable' = IF dir.partial THEN durable ELSE [durable EXCEPT !.data = Blank]
    /\ Goto(p, "copy")
    /\ UNCHANGED <<remote, lock, faults>>

SpawnBatch(p) ==
    /\ At(p, "copy") /\ proc[p].flight = {} /\ proc[p].todo # {}
    /\ LET batch == TakeSlots(proc[p].todo) IN
         Set(p, [proc[p] EXCEPT !.flight = batch, !.todo = @ \ batch])
    /\ UNCHANGED <<remote, dir, data, durable, lock, faults>>

\* get_range of the seedbox: the blocks of the range, as the file has them now.
Served(src, r) == [b \in Blocks(r) |-> [src |-> src, ver |-> remote[src]]]

\* A range has arrived whole: it is written ...
WriteRange(p, r) ==
    /\ At(p, "copy") /\ r \in proc[p].flight
    /\ data' = [b \in Offsets |-> IF b \in Blocks(r) THEN Served(proc[p].src, r)[b] ELSE data[b]]
    /\ Set(p, [proc[p] EXCEPT !.pc = "sync", !.range = r, !.flight = @ \ {r}])
    /\ UNCHANGED <<remote, dir, durable, lock, faults>>

\* Mutant: the range is recorded without syncing its bytes.
SyncRangeLater(p) ==
    /\ At(p, "sync")
    /\ Goto(p, "record")
    /\ UNCHANGED <<remote, dir, data, durable, lock, faults>>

\* ... synced ...
SyncRange(p) ==
    /\ At(p, "sync")
    /\ durable' = [durable EXCEPT !.data = data]
    /\ Goto(p, "record")
    /\ UNCHANGED <<remote, dir, data, lock, faults>>

\* ... and then recorded, in a sidecar that replaces the old one atomically.
Recorded(side, r) == [side EXCEPT !.proofs = @ \cup {[range |-> r, digest |-> Digest(data, r)]}]

RecordRange(p) ==
    /\ At(p, "record")
    /\ LET side == Recorded(proc[p].side, proc[p].range) IN
         /\ dir' = [dir EXCEPT !.side = side]
         /\ Set(p, [proc[p] EXCEPT !.pc = "copy", !.side = side])
    /\ SyncDir(dir')
    /\ UNCHANGED <<remote, data, lock, faults>>

\* A fetch fails or is short: the whole pull ends, with every other fetch.
FetchFails(p) ==
    /\ At(p, "copy") /\ proc[p].flight # {}
    /\ faults < MaxFaults
    /\ faults' = faults + 1
    /\ Return(p, "failed")
    /\ UNCHANGED <<remote, dir, data, durable>>

Complete(p) == proc[p].flight = {} /\ proc[p].todo = {}

LinkStaged(p) ==
    /\ At(p, "copy") /\ Complete(p)
    /\ dir' = [dir EXCEPT !.staged = TRUE]
    /\ Goto(p, "unlink")
    /\ UNCHANGED <<remote, data, durable, lock, faults>>

DropPartial(p) ==
    /\ At(p, "unlink")
    /\ dir' = [dir EXCEPT !.partial = FALSE]
    /\ Goto(p, "settle")
    /\ UNCHANGED <<remote, data, durable, lock, faults>>

SettleStaged(p) ==
    /\ At(p, "settle")
    /\ SyncDir(dir)
    /\ Return(p, "ok")
    /\ UNCHANGED <<remote, dir, data, faults>>

-----------------------------------------------------------------------------
(* Cleanup after the installation: staged file first, then its sidecar *)

StartCleanup(p) ==
    /\ p \in Cleaners /\ At(p, "ok") /\ LockIsFree
    /\ IF dir.side.exists /\ ~(CheckSource(dir.side, proc[p].src) /\ SourceIsKnown(dir.side))
       THEN Goto(p, "failed") /\ UNCHANGED lock
       ELSE Goto(p, "cleanStaged") /\ lock' = p
    /\ UNCHANGED <<remote, dir, data, durable, faults>>

CleanStaged(p) ==
    /\ At(p, "cleanStaged")
    /\ dir' = [dir EXCEPT !.staged = FALSE]
    /\ Goto(p, "cleanSide")
    /\ UNCHANGED <<remote, data, durable, lock, faults>>

CleanSide(p) ==
    /\ At(p, "cleanSide")
    /\ dir' = [dir EXCEPT !.side = NoSide]
    /\ SyncDir(dir')
    /\ Set(p, Rest) /\ lock' = Nobody
    /\ UNCHANGED <<remote, data, faults>>

-----------------------------------------------------------------------------
(* Faults *)

Fault == faults < MaxFaults /\ faults' = faults + 1

\* A process dies: its lock and its memory go, the files stay.
Crash(p) ==
    /\ Fault /\ proc[p].pc \notin {"idle"}
    /\ Set(p, Rest)
    /\ lock' = IF lock = p THEN Nobody ELSE lock
    /\ UNCHANGED <<remote, dir, data, durable>>

\* The machine stops: unsynced names are kept or lost together, and each
\* unsynced block is kept, lost or torn.
PowerLoss ==
    /\ Fault
    /\ \E kept \in SUBSET {b \in Offsets : data[b] # durable.data[b]}, torn \in BOOLEAN,
          d \in {dir, durable.dir} :
         /\ dir' = d
         /\ data' = [b \in Offsets |-> IF data[b] = durable.data[b] \/ b \in kept THEN data[b]
                                       ELSE IF torn THEN Torn ELSE durable.data[b]]
         /\ durable' = [dir |-> d, data |-> data']
    /\ proc' = [p \in Pullers |-> Rest] /\ lock' = Nobody
    /\ UNCHANGED remote

\* Bytes on disk decay while nobody works on them.
Decay(b) ==
    /\ Fault /\ lock = Nobody /\ (dir.partial \/ dir.staged)
    /\ data' = [data EXCEPT ![b] = Torn]
    /\ durable' = [durable EXCEPT !.data[b] = Torn]
    /\ proc' = [p \in Pullers |-> Rest]
    /\ UNCHANGED <<remote, dir, lock>>

\* The remote file is replaced by another of the same length.
RemoteChanges(s) ==
    /\ remote[s] < MaxVersion
    /\ remote' = [remote EXCEPT ![s] = @ + 1]
    /\ UNCHANGED <<dir, data, durable, lock, proc, faults>>

-----------------------------------------------------------------------------
\* Nothing is staged yet, or an older release left a partial file whose sidecar names no source.
LegacySide(rangeLen) ==
    [exists |-> TRUE, src |-> NoSource, rangeLen |-> rangeLen,
     proofs |-> {[range |-> r, digest |-> Digest(Blank, r)] : r \in PlanRanges(rangeLen)}]

Init ==
    /\ remote = [s \in Sources |-> 0]
    /\ dir \in {EmptyDir} \cup {[EmptyDir EXCEPT !.partial = TRUE, !.side = LegacySide(n)] : n \in RangeLens}
    /\ data = Blank
    /\ durable = [dir |-> dir, data |-> data]
    /\ lock = Nobody /\ proc = [p \in Pullers |-> Rest] /\ faults = 0

Pull(p) ==
    \/ \E s \in Sources, n \in RangeLens : StartPull(p, s, n)
    \/ AdoptStaged(p) \/ LoadSidecar(p) \/ OpenPartial(p) \/ SpawnBatch(p)
    \/ \E r \in proc[p].flight : WriteRange(p, r)
    \/ SyncRange(p) \/ RecordRange(p) \/ LinkStaged(p) \/ DropPartial(p) \/ SettleStaged(p)

Cleanup(p) == StartCleanup(p) \/ CleanStaged(p) \/ CleanSide(p)

Next ==
    \/ \E p \in Pullers : Pull(p) \/ Cleanup(p) \/ FetchFails(p) \/ Crash(p)
    \/ PowerLoss
    \/ \E b \in Offsets : Decay(b)
    \/ \E s \in Sources : RemoteChanges(s)

Spec == Init /\ [][Next]_vars

-----------------------------------------------------------------------------
(* Properties *)

\* Types; a staged file always has its sidecar beside it, also in the middle of
\* its cleanup, and only a running puller holds the lock.
TransferTypeOK ==
    /\ remote \in [Sources -> 0..MaxVersion]
    /\ \A b \in Offsets : data[b] \in {Hole, Torn} \cup [src : Sources, ver : 0..MaxVersion]
    /\ lock \in Pullers \cup {Nobody} /\ faults \in 0..MaxFaults
    /\ dir.staged => dir.side.exists
    /\ \A p \in Pullers : lock = p => proc[p].pc \notin {"idle", "ok", "failed"}

\* The step in which a pull ends with success.
Returns(p) == proc[p].pc # "ok" /\ proc'[p].pc = "ok"

\* What pull_file returns as staged is whole and of the requested source: no
\* range of it is missing, torn by a power loss, kept from another source that
\* used the same name, or adopted from a sidecar that does not name its source.
ReturnsWhole ==
    \A p \in Pullers : Returns(p) => dir'.staged /\ \A b \in Offsets : data'[b].src = proc[p].src

\* The synced file satisfies the whole synced proof.
ProofSynced ==
    /\ durable.dir.staged \/ durable.dir.partial
    /\ durable.dir.side.exists /\ durable.data = data
    /\ \A r \in PlanRanges(durable.dir.side.rangeLen) :
         [range |-> r, digest |-> Digest(data, r)] \in durable.dir.side.proofs

\* Once pull_file has returned, no power loss makes a byte of it be fetched
\* again: under one of the two names the synced file still satisfies the whole
\* synced proof, also when the staged name itself was adopted and never synced.
ReturnsDurable ==
    (\E p \in Pullers : Returns(p)) => ProofSynced'

\* A pull never fetches a range whose bytes are proved: what a recorded proof
\* covers and the disk still holds is kept across crashes and resumes.
FetchesMissing ==
    \A p \in Pullers : \A r \in proc'[p].flight \ proc[p].flight :
       ~\E q \in dir.side.proofs : q.range = r /\ Digest(data, r) = q.digest

\* One file of one source is eventually staged, however pulls fail and restart.
PullCompletes == <>(\E p \in Pullers : At(p, "ok"))

=============================================================================
