------------------------------ MODULE ApiWatch ------------------------------
(***************************************************************************)
(* The Watch rpc of mediaops-api (crates/api/src/serve.rs) over ApiStore.  *)
(* A request at revision 0 streams a snapshot and then the history after   *)
(* it; a request at a later revision replays the history only.  A spawned  *)
(* task polls events_after and feeds a bounded channel; the client reads   *)
(* at its own pace, so writes, compaction, delivery and disconnects        *)
(* interleave freely.                                                      *)
(***************************************************************************)
EXTENDS ApiStore

CONSTANTS
    Watchers,
    Filters,     \* the key sets a request may name: one kind, or all keys
    BatchLimit,  \* LIMIT of the events_after query
    ChanCap      \* capacity of the stream's mpsc channel

ASSUME WatchAssumption ==
    /\ Filters \subseteq SUBSET Keys
    /\ BatchLimit \in Nat \ {0}
    /\ ChanCap \in Nat \ {0}

VARIABLES
    stream,   \* the server task of each watcher: what it still has to send, its channel
    view,     \* the client's objects, built from the events it received
    cursor    \* the revision of the last event the client received

watchVars == <<stream, view, cursor>>
vars == <<storeVars, watchVars>>

\* The item sent when the cursor precedes the retained history.
Expired == [watch |-> "expired"]

Closed(keys) == [task |-> "none", keys |-> keys, after |-> 0,
                 pending |-> {}, chan |-> <<>>]

\* A client that watched an older server holds a cursor the migrated database
\* cannot replay from.
WatchInit ==
    /\ StoreInit
    /\ \E keys \in Filters : stream = [w \in Watchers |-> Closed(keys)]
    /\ view = [w \in Watchers |-> [k \in Keys |-> NoObject]]
    /\ cursor \in [Watchers -> {c \in 0..LegacyRv : c = 0 \/ c < rv}]

\* list_objects: the rows of one kind, or of every kind.
ListObjects(keys) == {k \in keys : objects[k] # NoObject}

\* snapshot: the current objects, sent as additions.
Snapshot(keys) ==
    {[watch |-> "added", key |-> k, object |-> objects[k]] : k \in ListObjects(keys)}

\* watch with resourceVersion 0.  The client starts over from nothing.
WatchSnapshot(w, keys) ==
    /\ stream[w].task = "none"
    /\ stream' = [stream EXCEPT ![w] =
           [task |-> "live", keys |-> keys, after |-> rv,
            pending |-> Snapshot(keys), chan |-> <<>>]]
    /\ view' = [view EXCEPT ![w] = [k \in Keys |-> NoObject]]
    /\ cursor' = [cursor EXCEPT ![w] = 0]
    /\ UNCHANGED storeVars

\* watch with a positive resourceVersion: the client resumes where it was.
WatchResume(w) ==
    /\ stream[w].task = "none"
    /\ cursor[w] > 0
    /\ stream' = [stream EXCEPT ![w].task = "live", ![w].after = cursor[w]]
    /\ UNCHANGED <<storeVars, view, cursor>>

\* Mutant of EventsAfter: the event right after the cursor is taken as seen.
EventsAfterSkipsOne(after) ==
    {r \in DOMAIN history :
        /\ r > after + 1
        /\ Cardinality({q \in DOMAIN history : after < q /\ q < r}) < BatchLimit}

\* The revisions events_after returns: the oldest BatchLimit ones past after.
EventsAfter(after) ==
    {r \in DOMAIN history :
        /\ r > after
        /\ Cardinality({q \in DOMAIN history : after < q /\ q < r}) < BatchLimit}

\* Mutant of Fetch: a cursor below the floor is served from what is left.
FetchIgnoresFloor(w) ==
    LET s == stream[w]
        revisions == EventsAfter(s.after)
        named == {r \in revisions : history[r].key \in s.keys}
    IN  /\ s.task = "live"
        /\ s.pending = {}
        /\ \E last \in revisions :
              /\ \A r \in revisions : r <= last
              /\ stream' = [stream EXCEPT ![w].after = last,
                                          ![w].pending = {history[r] : r \in named}]
        /\ UNCHANGED <<storeVars, view, cursor>>

\* One turn of the task's loop once everything fetched was sent.  It moves its
\* cursor past every event of the batch and sends those the request names.
Fetch(w) ==
    LET s == stream[w]
        revisions == EventsAfter(s.after)
        named == {r \in revisions : history[r].key \in s.keys}
    IN  /\ s.task = "live"
        /\ s.pending = {}
        /\ \/ /\ s.after < floor
              /\ stream' = [stream EXCEPT ![w].task = "ended", ![w].pending = {Expired}]
           \/ /\ s.after >= floor
              /\ \E last \in revisions :
                    /\ \A r \in revisions : r <= last
                    /\ stream' = [stream EXCEPT ![w].after = last,
                                                ![w].pending = {history[r] : r \in named}]
        /\ UNCHANGED <<storeVars, view, cursor>>

\* Mutant of First: rows in the order the query returns them, by name.
FirstByName(e, items) == e = CHOOSE f \in items : TRUE

\* Both the snapshot and the batches of events_after are in revision order.
First(e, items) == \A f \in items \ {e} : e.object.rv < f.object.rv

\* The task puts one item into the channel, waiting while it is full.
Send(w) ==
    LET s == stream[w]
    IN  /\ Len(s.chan) < ChanCap
        /\ \E e \in s.pending :
              /\ First(e, s.pending)
              /\ stream' = [stream EXCEPT ![w].pending = @ \ {e},
                                          ![w].chan = Append(@, e)]
        /\ UNCHANGED <<storeVars, view, cursor>>

\* The client takes one item; an Expired error ends the stream and its cursor
\* is void: it must list again and watch from zero.
Receive(w) ==
    LET s == stream[w]
        e == Head(s.chan)
    IN  /\ s.chan # <<>>
        /\ \/ /\ e = Expired
              /\ stream' = [stream EXCEPT ![w] = Closed(s.keys)]
              /\ cursor' = [cursor EXCEPT ![w] = 0]
              /\ UNCHANGED view
           \/ /\ e # Expired
              /\ stream' = [stream EXCEPT ![w].chan = Tail(s.chan)]
              /\ view' = [view EXCEPT ![w][e.key] = Row(e)]
              /\ cursor' = [cursor EXCEPT ![w] = e.object.rv]
        /\ UNCHANGED storeVars

\* The connection drops or the API process restarts: whatever was in flight is
\* gone, the client keeps its view and its cursor.
Disconnect(w) ==
    /\ stream[w].task # "none"
    /\ stream' = [stream EXCEPT ![w] = Closed(stream[w].keys)]
    /\ UNCHANGED <<storeVars, view, cursor>>

Deliver(w) == Fetch(w) \/ Send(w) \/ Receive(w)

WatchNext ==
    \/ StoreNext /\ UNCHANGED watchVars
    \/ \E w \in Watchers :
          \/ \E keys \in Filters : WatchSnapshot(w, keys)
          \/ WatchResume(w)
          \/ Deliver(w)
          \/ Disconnect(w)

\* The task polls, sends and is read for as long as its connection lives.
WatchSpec ==
    WatchInit /\ [][WatchNext]_vars /\ \A w \in Watchers : WF_vars(Deliver(w))

-----------------------------------------------------------------------------
(* Properties *)

Item == Event \cup {Expired}
Stream == [task : {"none", "live", "ended"}, keys : Filters, after : Nat,
           pending : SUBSET Item, chan : Seq(Item)]

\* Type invariant of the streams and of the clients' copies.
WatchTypeOK ==
    /\ stream \in [Watchers -> Stream]
    /\ view \in [Watchers -> [Keys -> Object \cup {NoObject}]]
    /\ cursor \in [Watchers -> Nat]

About(e, k) == e # Expired /\ e.key = k

\* The last event of k the stream still owes the client leaves this row: the
\* channel is read first, then what is pending, in revision order.
LastOwed(s, k, row) ==
    \/ \E e \in s.pending :
          /\ About(e, k) /\ Row(e) = row
          /\ \A f \in s.pending : About(f, k) => f.object.rv <= e.object.rv
    \/ /\ \A f \in s.pending : ~About(f, k)
       /\ \E i \in 1..Len(s.chan) :
             /\ About(s.chan[i], k) /\ Row(s.chan[i]) = row
             /\ \A n \in i + 1 .. Len(s.chan) : ~About(s.chan[n], k)

OwesNothing(s, k) ==
    /\ \A f \in s.pending : ~About(f, k)
    /\ \A i \in 1..Len(s.chan) : ~About(s.chan[i], k)

Unfetched(k, after) == {r \in DOMAIN history : r > after /\ history[r].key = k}

\* A live stream loses nothing: for every key it names, either an unfetched
\* event will still describe the current object, or the last event in flight
\* does, or the client already holds it.
StreamConverges ==
    \A w \in Watchers : stream[w].task = "live" /\ stream[w].after >= floor =>
        \A k \in stream[w].keys :
            \/ Unfetched(k, stream[w].after) # {}
            \/ LastOwed(stream[w], k, objects[k])
            \/ OwesNothing(stream[w], k) /\ view[w][k] = objects[k]

\* A client cut off anywhere, in the middle of a snapshot included, may resume
\* from its last revision: each key it watches is as it saw it, or has an event
\* after its cursor.  Snapshots are sent in revision order for this.
ResumeLosesNothing ==
    \A w \in Watchers : cursor[w] > 0 /\ cursor[w] >= floor =>
        \A k \in stream[w].keys :
            Unfetched(k, cursor[w]) # {} \/ view[w][k] = objects[k]

\* One client never sees revisions go back, across snapshot, replay and resume:
\* consumers drop anything older than what they hold.
RevisionsAscend ==
    [][\A w \in Watchers : cursor'[w] \in {0, cursor[w]} \/ cursor'[w] > cursor[w]]_vars

\* An open stream either catches up with the store or closes; no client waits
\* forever on a stale view of an idle store.
StreamCatchesUp ==
    \A w \in Watchers :
        stream[w].task = "live" ~>
            \/ stream[w].task # "live"
            \/ \A k \in stream[w].keys : view[w][k] = objects[k]
=============================================================================
