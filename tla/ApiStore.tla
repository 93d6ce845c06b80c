------------------------------ MODULE ApiStore ------------------------------
(***************************************************************************)
(* The store behind mediaops-api (crates/store/src/api.rs): one table of   *)
(* current objects, one global resource version, and a bounded history of  *)
(* watch events.  Every mutation is one SQLite transaction, so one action. *)
(* Writers are optimistic: they send back the resource version they read.  *)
(*                                                                         *)
(* A key stands for (kind, name).  Specs and statuses are opaque values:   *)
(* the store only compares them.  A uid is "<kind>-<rv of the creation>",  *)
(* so the creating resource version stands for it.                         *)
(***************************************************************************)
EXTENDS Integers, Sequences, FiniteSets, TLC

CONSTANTS
    Keys,          \* object keys (kind, name)
    StatusOnly,    \* keys of kinds that carry no spec (RemoteFile, Event)
    Wants,         \* keys of kind Want: their status is cleared on creation
    Syncs,         \* keys of kind Sync
    Specs, UnitSpec,
    Statuses, EmptyStatus, Captured, Scheduled,
    Clients,       \* API clients and in-process controllers
    NoObject,
    HistoryLimit,  \* WATCH_HISTORY_LIMIT
    LegacyRv,      \* bound: largest revision of a database opened at start
    MaxRv          \* bound: largest revision reached

ASSUME StoreAssumption ==
    /\ StatusOnly \subseteq Keys /\ Wants \subseteq Keys /\ Syncs \subseteq Keys
    /\ UnitSpec \in Specs
    /\ {EmptyStatus, Captured, Scheduled} \subseteq Statuses
    /\ HistoryLimit \in Nat \ {0}
    /\ LegacyRv \in Nat
    /\ MaxRv \in Nat

Object == [uid : Nat, generation : Nat, rv : Nat, spec : Specs, status : Statuses]
ASSUME NoObjectAssumption == NoObject \notin Object

VARIABLES
    objects,   \* table objects: the current object of each key
    rv,        \* meta.resource_version
    floor,     \* meta.watch_replay_floor
    history,   \* table history: revision -> event, revisions are its primary key
    seen,      \* what each client last read: key, object and revision of the read
    lost       \* observer: some write replaced an object its writer had not read

storeVars == <<objects, rv, floor, history, seen, lost>>

Event == [watch : {"added", "modified", "deleted"}, key : Keys, object : Object]

(***************************************************************************)
(* Opening the database.  A fresh file starts at revision 0.  A version 1  *)
(* or 2 file keeps its objects, but the migration drops its history and    *)
(* raises the replay floor to its current revision.                        *)
(***************************************************************************)
LegacyObject(r) ==
    [uid |-> r, generation |-> 1, rv |-> r, spec |-> UnitSpec, status |-> EmptyStatus]

StoreInit ==
    /\ rv \in 0..LegacyRv
    /\ \E k \in Keys \ Syncs : objects = [x \in Keys |->
            IF x = k /\ rv > 0 THEN LegacyObject(rv) ELSE NoObject]
    /\ floor = rv
    /\ history = [r \in {} |-> NoObject]
    /\ \E k \in Keys : seen = [c \in Clients |->
            [key |-> k, object |-> NoObject, at |-> 0]]
    /\ lost = FALSE

(***************************************************************************)
(* The part every transaction shares: consume revisions, upsert or delete  *)
(* rows, append to the history, compact it and raise the floor.            *)
(***************************************************************************)

\* Mutant of Upsert: delete records the tombstone but leaves the row.
UpsertKeepsDeleted(events, k) ==
    IF \E i \in DOMAIN events : events[i].key = k
    THEN events[CHOOSE i \in DOMAIN events : events[i].key = k].object
    ELSE objects[k]

\* The row an event leaves.
Row(e) == IF e.watch = "deleted" THEN NoObject ELSE e.object

\* The row a transaction leaves for key k.
Upsert(events, k) ==
    IF \E i \in DOMAIN events : events[i].key = k
    THEN Row(events[CHOOSE i \in DOMAIN events : events[i].key = k])
    ELSE objects[k]

\* Mutant of RecordEvents: the floor is one below the last compacted revision.
RecordEventsFloorLags(events, last) ==
    LET compacted == last - HistoryLimit
    IN  /\ history' = [r \in {x \in (DOMAIN history) \cup (rv + 1 .. last) : x > compacted} |->
                          IF r > rv THEN events[r - rv] ELSE history[r]]
        /\ floor' = IF floor < compacted - 1 THEN compacted - 1 ELSE floor

\* Mutant of RecordEvents: the floor follows the compaction below zero.
RecordEventsFloorUnclamped(events, last) ==
    LET compacted == last - HistoryLimit
    IN  /\ history' = [r \in {x \in (DOMAIN history) \cup (rv + 1 .. last) : x > compacted} |->
                          IF r > rv THEN events[r - rv] ELSE history[r]]
        /\ floor' = compacted

\* record_event for the revisions rv+1 .. last.
RecordEvents(events, last) ==
    LET compacted == last - HistoryLimit
    IN  /\ history' = [r \in {x \in (DOMAIN history) \cup (rv + 1 .. last) : x > compacted} |->
                          IF r > rv THEN events[r - rv] ELSE history[r]]
        /\ floor' = IF floor < compacted THEN compacted ELSE floor

\* One committed transaction.  events[i] was numbered rv + i by next_rv.
Commit(events) ==
    LET last == rv + Len(events)
    IN  /\ last <= MaxRv
        /\ rv' = last
        /\ objects' = [k \in Keys |-> Upsert(events, k)]
        /\ RecordEvents(events, last)

(***************************************************************************)
(* Clients                                                                 *)
(***************************************************************************)

\* HomeApi::get, or one row of a list: the client keeps what it read.
Get(c, k) ==
    /\ seen' = [seen EXCEPT ![c] = [key |-> k, object |-> objects[k], at |-> rv]]
    /\ UNCHANGED <<objects, rv, floor, history, lost>>

\* The resourceVersion the client sends: zero asks for a creation.
Expected(c) == IF seen[c].object = NoObject THEN 0 ELSE seen[c].object.rv

\* The response carries the written object; it may never arrive.
Respond(c, o) ==
    \/ seen' = [seen EXCEPT ![c] = [key |-> seen[c].key, object |-> o, at |-> rv']]
    \/ UNCHANGED seen

\* One object written through the optimistic path.
Write(c, watch, o) ==
    LET k == seen[c].key
    IN  /\ Commit(<<[watch |-> watch, key |-> k, object |-> o]>>)
        /\ Respond(c, IF watch = "deleted" THEN NoObject ELSE o)
        /\ lost' = (lost \/ seen[c].object # objects[k])

\* The next version of a live object, at revision r.
Revised(prev, r, spec, status) ==
    [uid |-> prev.uid,
     generation |-> IF spec # prev.spec THEN prev.generation + 1 ELSE prev.generation,
     rv |-> r, spec |-> spec, status |-> status]

SpecsOf(k) == IF k \in StatusOnly THEN {UnitSpec} ELSE Specs

\* ApiStore::apply on a name that is taken: replace the spec.
ApplyReplace(c, spec, status) ==
    LET k == seen[c].key
        prev == objects[k]
    IN  /\ prev # NoObject
        /\ Expected(c) = prev.rv
        /\ spec \in SpecsOf(k)
        /\ Write(c, "modified",
               Revised(prev, rv + 1, spec, IF k \in StatusOnly THEN status ELSE prev.status))

\* Mutant of ApplyCreate: the uid is counted per object, not per store.
ApplyCreateOwnUid(c, spec, status) ==
    LET k == seen[c].key
    IN  /\ objects[k] = NoObject
        /\ Expected(c) = 0
        /\ spec \in SpecsOf(k)
        /\ Write(c, "added",
               [uid |-> 1, generation |-> 1, rv |-> rv + 1, spec |-> spec,
                status |-> IF k \in Wants THEN EmptyStatus ELSE status])

\* ApiStore::apply on a free name: create.
ApplyCreate(c, spec, status) ==
    LET k == seen[c].key
    IN  /\ objects[k] = NoObject
        /\ Expected(c) = 0
        /\ spec \in SpecsOf(k)
        /\ Write(c, "added",
               [uid |-> rv + 1, generation |-> 1, rv |-> rv + 1, spec |-> spec,
                status |-> IF k \in Wants THEN EmptyStatus ELSE status])

\* Mutant of PatchStatus: the expected revision is not compared.
PatchStatusUnchecked(c, status) ==
    LET prev == objects[seen[c].key]
    IN  /\ prev # NoObject
        /\ Write(c, "modified", Revised(prev, rv + 1, prev.spec, status))

\* ApiStore::patch_status.
PatchStatus(c, status) ==
    LET prev == objects[seen[c].key]
    IN  /\ prev # NoObject
        /\ Expected(c) = prev.rv
        /\ Write(c, "modified", Revised(prev, rv + 1, prev.spec, status))

\* Mutant of PatchSpec: the generation is left alone.
PatchSpecSameGeneration(c, spec) ==
    LET k == seen[c].key
        prev == objects[k]
    IN  /\ prev # NoObject
        /\ Expected(c) = prev.rv
        /\ spec \in SpecsOf(k)
        /\ Write(c, "modified", [prev EXCEPT !.spec = spec, !.rv = rv + 1])

\* ApiStore::patch_spec.
PatchSpec(c, spec) ==
    LET k == seen[c].key
        prev == objects[k]
    IN  /\ prev # NoObject
        /\ Expected(c) = prev.rv
        /\ spec \in SpecsOf(k)
        /\ Write(c, "modified", Revised(prev, rv + 1, spec, prev.status))

\* Mutant of Delete: the tombstone keeps the revision of the deleted object.
DeleteOldRevision(c) ==
    LET prev == objects[seen[c].key]
    IN  /\ prev # NoObject
        /\ Expected(c) = prev.rv
        /\ Write(c, "deleted", prev)

\* ApiStore::delete: the tombstone carries the old object at a fresh revision.
Delete(c) ==
    LET prev == objects[seen[c].key]
    IN  /\ prev # NoObject
        /\ Expected(c) = prev.rv
        /\ Write(c, "deleted", [prev EXCEPT !.rv = rv + 1])

\* ApiStore::schedule_sync: the planner commits its new Title shells and Jobs
\* (new, distinct free names) and the Scheduled request, all or nothing, and
\* only if nothing at all was written since the revision it planned at.
ScheduleSync(c, new, spec) ==
    LET s == seen[c].key
        n == Len(new)
        created(i) == [watch |-> "added", key |-> new[i],
                       object |-> [uid |-> rv + i, generation |-> 1, rv |-> rv + i,
                                   spec |-> spec, status |-> EmptyStatus]]
        request == Revised(seen[c].object, rv + n + 1, seen[c].object.spec, Scheduled)
    IN  /\ s \in Syncs
        /\ seen[c].at = rv
        /\ seen[c].object # NoObject
        /\ objects[s] # NoObject
        /\ objects[s].rv = seen[c].object.rv
        /\ objects[s].status = Captured
        /\ \A i \in 1..n : objects[new[i]] = NoObject
        /\ Commit([i \in 1..(n + 1) |->
              IF i <= n THEN created(i)
              ELSE [watch |-> "modified", key |-> s, object |-> request]])
        /\ Respond(c, request)
        /\ lost' = (lost \/ seen[c].object # objects[s])

\* The plans a Sync may hold: up to two distinct Job or Title names.
Plans == {<<>>} \cup {<<k>> : k \in Keys \ (StatusOnly \cup Syncs \cup Wants)}
    \cup {p \in (Keys \ (StatusOnly \cup Syncs \cup Wants)) \X
                (Keys \ (StatusOnly \cup Syncs \cup Wants)) : p[1] # p[2]}

StoreNext ==
    \E c \in Clients :
        \/ \E k \in Keys : Get(c, k)
        \/ \E spec \in Specs, status \in Statuses :
              ApplyReplace(c, spec, status) \/ ApplyCreate(c, spec, status)
        \/ \E status \in Statuses : PatchStatus(c, status)
        \/ \E spec \in Specs : PatchSpec(c, spec)
        \/ Delete(c)
        \/ \E new \in Plans, spec \in Specs : ScheduleSync(c, new, spec)

StoreSpec == StoreInit /\ [][StoreNext]_storeVars

-----------------------------------------------------------------------------
(* Properties *)

Seen == [key : Keys, object : Object \cup {NoObject}, at : Nat]

\* Type invariant of the database and of what its clients hold.
StoreTypeOK ==
    /\ objects \in [Keys -> Object \cup {NoObject}]
    /\ rv \in Nat
    /\ floor \in Nat
    /\ DOMAIN history \subseteq Nat
    /\ \A r \in DOMAIN history : history[r] \in Event
    /\ seen \in [Clients -> Seen]
    /\ lost \in BOOLEAN

\* The history holds every revision above the replay floor and none below:
\* a cursor events_after accepts can be replayed without a hole.
HistoryCoversReplay ==
    /\ DOMAIN history = floor + 1 .. rv
    /\ \A r \in DOMAIN history : history[r].object.rv = r

Newest(k, r) ==
    /\ r \in DOMAIN history
    /\ history[r].key = k
    /\ \A q \in DOMAIN history : q > r => history[q].key # k

\* The newest retained event of a key is its current row (a tombstone: no row),
\* and a row whose event is no longer retained was written at or below the floor.
HistoryAgreesWithObjects ==
    \A k \in Keys :
        /\ \A r \in DOMAIN history : Newest(k, r) =>
              objects[k] = (IF history[r].watch = "deleted" THEN NoObject
                                                            ELSE history[r].object)
        /\ objects[k] # NoObject /\ objects[k].rv > floor => Newest(k, objects[k].rv)

\* No apply, patch, delete or schedule_sync ever replaces an object other than
\* the one its sender read, even when it was deleted and recreated in between.
NoLostUpdate == ~lost

\* A deleted object never comes back: its uid appears in no later event and in
\* no current row.  Watch consumers drop events of a uid they saw deleted.
TombstoneIsFinal ==
    \A r \in DOMAIN history : history[r].watch = "deleted" =>
        /\ \A q \in DOMAIN history : q > r => history[q].object.uid # history[r].object.uid
        /\ \A k \in Keys : objects[k] # NoObject => objects[k].uid # history[r].object.uid

\* Within the life of one object, an unchanged generation means an unchanged
\* spec and generations never go back: the Sync and inventory scan checks
\* compare Cluster generations instead of specs.
GenerationTracksSpec ==
    \A q, r \in DOMAIN history :
        q < r /\ history[q].object.uid = history[r].object.uid =>
            /\ history[q].key = history[r].key
            /\ history[q].object.generation <= history[r].object.generation
            /\ history[q].object.generation = history[r].object.generation =>
                  history[q].object.spec = history[r].object.spec

\* Clients are interchangeable.
ClientSymmetry == Permutations(Clients)
=============================================================================
