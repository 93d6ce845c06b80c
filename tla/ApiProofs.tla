------------------------------ MODULE ApiProofs ------------------------------
(***************************************************************************)
(* Proofs about the Home API: the object store, and the Watch streams over *)
(* it.                                                                     *)
(***************************************************************************)
EXTENDS ApiWatch, TLAPS, FiniteSetTheorems, WellFoundedInduction

-----------------------------------------------------------------------------
(***************************************************************************)
(* Proofs about the store, for every set of keys, clients, specs and       *)
(* statuses, every history limit and every revision bound.                 *)
(*                                                                         *)
(* Every transaction is a legal one: it numbers its events consecutively,  *)
(* touches each key once, and each event either creates an absent object   *)
(* with a fresh uid or carries on a live one.  NextCommits reduces         *)
(* StoreNext to that; the invariants are then preserved by any legal       *)
(* transaction.                                                            *)
(***************************************************************************)

table == <<objects, rv, floor, history>>

Creates(e, r) ==
    /\ e.watch = "added"
    /\ objects[e.key] = NoObject
    /\ e.object.uid = r

Continues(e) ==
    LET prev == objects[e.key]
    IN  /\ prev # NoObject
        /\ e.object.uid = prev.uid
        /\ e.object.generation >= prev.generation
        /\ e.object.generation = prev.generation => e.object.spec = prev.spec

LegalTx(events) ==
    /\ events \in Seq(Event)
    /\ \A i \in 1..Len(events) :
          /\ events[i].object.rv = rv + i
          /\ Creates(events[i], rv + i) \/ Continues(events[i])
    /\ \A i, j \in 1..Len(events) : events[i].key = events[j].key => i = j

-----------------------------------------------------------------------------
(* The inductive invariant *)

\* Revisions and uids are past revisions.
Bounded ==
    /\ floor <= rv
    /\ \A k \in Keys : objects[k] # NoObject =>
          objects[k].rv \in 1..rv /\ objects[k].uid <= rv
    /\ \A r \in DOMAIN history : history[r].object.uid <= rv

\* What a client read is at most as new as the store, and a current object of
\* the same revision is the very object it read.
SeenIsPast ==
    \A c \in Clients : seen[c].object # NoObject =>
        /\ seen[c].object.rv \in 1..rv
        /\ LET o == objects[seen[c].key]
           IN  o # NoObject /\ o.rv = seen[c].object.rv => o = seen[c].object

\* Two live objects never share a uid, and a retained event of a live uid is
\* about that object, at an earlier or the same generation.
UidIdentifies ==
    /\ \A j, k \in Keys :
          objects[j] # NoObject /\ objects[k] # NoObject
            /\ objects[j].uid = objects[k].uid => j = k
    /\ \A r \in DOMAIN history : \A k \in Keys :
          objects[k] # NoObject /\ history[r].object.uid = objects[k].uid =>
            /\ history[r].key = k
            /\ history[r].object.generation <= objects[k].generation
            /\ history[r].object.generation = objects[k].generation =>
                  history[r].object.spec = objects[k].spec

StoreInv ==
    /\ StoreTypeOK
    /\ Bounded
    /\ HistoryCoversReplay
    /\ SeenIsPast
    /\ NoLostUpdate

IdentityInv ==
    /\ UidIdentifies
    /\ TombstoneIsFinal
    /\ GenerationTracksSpec

-----------------------------------------------------------------------------
(* Operators *)

\* A transaction leaves the row of its event at each key it touches.
LEMMA UpsertTouched ==
    ASSUME NEW events, LegalTx(events), NEW i \in 1..Len(events)
    PROVE  Upsert(events, events[i].key) = Row(events[i])
<1>1. DOMAIN events = 1..Len(events)
  BY DEF LegalTx
<1> DEFINE j == CHOOSE x \in DOMAIN events : events[x].key = events[i].key
<1>2. j \in DOMAIN events /\ events[j].key = events[i].key
  BY <1>1
<1>3. j = i
  BY <1>1, <1>2 DEF LegalTx
<1> QED
  BY <1>1, <1>2, <1>3 DEF Upsert, Row

\* A transaction leaves every other row alone.
LEMMA UpsertOther ==
    ASSUME NEW events, LegalTx(events), NEW k \in Keys,
           \A i \in 1..Len(events) : events[i].key # k
    PROVE  Upsert(events, k) = objects[k]
  BY DEF LegalTx, Upsert

-----------------------------------------------------------------------------
(* What a committed transaction does to the tables *)

\* The next tables, in terms of the events of the transaction.
LEMMA CommitTables ==
    ASSUME StoreTypeOK, Bounded, HistoryCoversReplay,
           NEW events, LegalTx(events), Commit(events)
    PROVE  /\ Len(events) \in Nat
           /\ rv' = rv + Len(events)
           /\ floor' = IF floor < rv' - HistoryLimit THEN rv' - HistoryLimit ELSE floor
           /\ floor' \in Nat /\ floor <= floor' /\ floor' <= rv'
           /\ DOMAIN history' = floor' + 1 .. rv'
           /\ \A r \in DOMAIN history' :
                 \/ /\ r \in DOMAIN history /\ r <= rv
                    /\ history'[r] = history[r]
                 \/ /\ r > rv /\ r - rv \in 1..Len(events)
                    /\ history'[r] = events[r - rv]
<1>1. Len(events) \in Nat
  BY DEF LegalTx
<1>2. /\ rv' = rv + Len(events)
      /\ floor' = IF floor < rv' - HistoryLimit THEN rv' - HistoryLimit ELSE floor
  BY DEF Commit, RecordEvents
<1>3. floor' \in Nat /\ floor <= floor' /\ floor' <= rv'
  BY <1>1, <1>2, StoreAssumption DEF StoreTypeOK, Bounded
<1> DEFINE S == {x \in (DOMAIN history) \cup (rv + 1 .. rv') : x > rv' - HistoryLimit}
<1>4. history' = [r \in S |-> IF r > rv THEN events[r - rv] ELSE history[r]]
  BY <1>2 DEF Commit, RecordEvents
<1>5. S = floor' + 1 .. rv'
  BY <1>1, <1>2, <1>3, StoreAssumption DEF StoreTypeOK, Bounded, HistoryCoversReplay
<1>6. DOMAIN history' = floor' + 1 .. rv'
  BY <1>4, <1>5
<1>7. ASSUME NEW r \in DOMAIN history'
      PROVE  \/ r \in DOMAIN history /\ r <= rv /\ history'[r] = history[r]
             \/ r > rv /\ r - rv \in 1..Len(events) /\ history'[r] = events[r - rv]
  <2>1. r \in S
    BY <1>5, <1>6, <1>7
  <2>2. CASE r > rv
    BY <2>1, <2>2, <1>1, <1>2, <1>4 DEF StoreTypeOK, HistoryCoversReplay
  <2>3. CASE ~(r > rv)
    BY <2>1, <2>3, <1>1, <1>2, <1>4 DEF StoreTypeOK, HistoryCoversReplay
  <2> QED BY <2>2, <2>3
<1> QED
  BY <1>1, <1>2, <1>3, <1>6, <1>7

\* The row of each key after the transaction: an event's, or the old one.
LEMMA CommitRows ==
    ASSUME NEW events, LegalTx(events), Commit(events), NEW k \in Keys
    PROVE  \/ /\ objects'[k] = objects[k]
              /\ \A i \in 1..Len(events) : events[i].key # k
           \/ \E i \in 1..Len(events) :
                 events[i].key = k /\ objects'[k] = Row(events[i])
<1>1. objects'[k] = Upsert(events, k)
  BY DEF Commit
<1>2. CASE \E i \in 1..Len(events) : events[i].key = k
  BY <1>1, <1>2, UpsertTouched
<1>3. CASE ~ \E i \in 1..Len(events) : events[i].key = k
  BY <1>1, <1>3, UpsertOther
<1> QED BY <1>2, <1>3

-----------------------------------------------------------------------------
(* Legal transactions preserve the invariant *)

\* The tables keep their types and bounds, and the history its coverage.
LEMMA CommitKeepsTables ==
    ASSUME StoreTypeOK, Bounded, HistoryCoversReplay,
           NEW events, LegalTx(events), Commit(events)
    PROVE  /\ objects' \in [Keys -> Object \cup {NoObject}]
           /\ rv' \in Nat /\ floor' \in Nat
           /\ DOMAIN history' \subseteq Nat
           /\ \A r \in DOMAIN history' : history'[r] \in Event
           /\ Bounded'
           /\ HistoryCoversReplay'
<1>0. /\ Len(events) \in Nat
      /\ rv' = rv + Len(events)
      /\ floor' \in Nat /\ floor <= floor' /\ floor' <= rv'
      /\ DOMAIN history' = floor' + 1 .. rv'
      /\ \A r \in DOMAIN history' :
            \/ /\ r \in DOMAIN history /\ r <= rv
               /\ history'[r] = history[r]
            \/ /\ r > rv /\ r - rv \in 1..Len(events)
               /\ history'[r] = events[r - rv]
  BY CommitTables
<1> USE <1>0
<1>1. \A i \in 1..Len(events) :
        /\ events[i] \in Event
        /\ events[i].object \in Object
        /\ events[i].object.rv = rv + i
        /\ events[i].object.uid <= rv + i
  <2> SUFFICES ASSUME NEW i \in 1..Len(events)
               PROVE  /\ events[i] \in Event
                      /\ events[i].object \in Object
                      /\ events[i].object.rv = rv + i
                      /\ events[i].object.uid <= rv + i
    OBVIOUS
  <2>1. events[i] \in Event /\ events[i].object.rv = rv + i
    BY DEF LegalTx
  <2>2. events[i].object \in Object /\ events[i].key \in Keys
    BY <2>1 DEF Event
  <2>3. CASE Creates(events[i], rv + i)
    BY <2>1, <2>2, <2>3 DEF Creates, StoreTypeOK
  <2>4. CASE Continues(events[i])
    <3>1. objects[events[i].key] # NoObject /\ events[i].object.uid = objects[events[i].key].uid
      BY <2>4 DEF Continues
    <3>2. events[i].object.uid <= rv /\ events[i].object.uid \in Nat
      BY <3>1, <2>2 DEF Bounded, Object
    <3> QED BY <3>2, <2>1, <2>2 DEF StoreTypeOK
  <2> QED BY <2>1, <2>2, <2>3, <2>4 DEF LegalTx
<1>2. ASSUME NEW k \in Keys
      PROVE  /\ objects'[k] \in Object \cup {NoObject}
             /\ objects'[k] # NoObject => objects'[k].rv \in 1..rv' /\ objects'[k].uid <= rv'
  <2>1. CASE objects'[k] = objects[k]
    <3>1. objects[k] \in Object \cup {NoObject}
      BY DEF StoreTypeOK
    <3>2. objects[k] # NoObject =>
            objects[k].rv \in 1..rv /\ objects[k].uid <= rv /\ objects[k].uid \in Nat
      BY <3>1 DEF Bounded, Object
    <3> QED BY <2>1, <3>1, <3>2 DEF StoreTypeOK
  <2>2. CASE \E i \in 1..Len(events) : objects'[k] = Row(events[i])
    <3>1. PICK i \in 1..Len(events) : objects'[k] = Row(events[i])
      BY <2>2
    <3>2. objects'[k] = NoObject \/ objects'[k] = events[i].object
      BY <3>1 DEF Row
    <3>3. /\ events[i].object \in Object
          /\ events[i].object.rv = rv + i
          /\ events[i].object.uid <= rv + i
          /\ events[i].object.uid \in Nat
      BY <1>1 DEF Object
    <3>4. events[i].object.rv \in 1..rv' /\ events[i].object.uid <= rv'
      BY <3>3 DEF StoreTypeOK
    <3> QED BY <3>2, <3>3, <3>4
  <2> QED BY <2>1, <2>2, CommitRows
<1>3. objects' \in [Keys -> Object \cup {NoObject}]
  <2>1. objects' = [k \in Keys |-> Upsert(events, k)]
    BY DEF Commit
  <2>2. \A k \in Keys : Upsert(events, k) \in Object \cup {NoObject}
    BY <2>1, <1>2
  <2> QED BY <2>1, <2>2
<1>4. rv' \in Nat /\ floor' \in Nat
  BY DEF StoreTypeOK
<1>5. DOMAIN history' \subseteq Nat
  BY <1>4
<1>6. ASSUME NEW r \in DOMAIN history'
      PROVE  /\ history'[r] \in Event
             /\ history'[r].object.rv = r
             /\ history'[r].object.uid <= rv'
  <2>1. CASE r \in DOMAIN history /\ history'[r] = history[r]
    <3>1. history[r] \in Event /\ history[r].object.rv = r /\ history[r].object.uid <= rv
      BY <2>1 DEF StoreTypeOK, HistoryCoversReplay, Bounded
    <3>2. history[r].object.uid \in Nat
      BY <3>1 DEF Event, Object
    <3> QED BY <2>1, <3>1, <3>2 DEF StoreTypeOK
  <2>2. CASE r > rv /\ r - rv \in 1..Len(events) /\ history'[r] = events[r - rv]
    <3>1. events[r - rv].object.uid \in Nat
      BY <2>2, <1>1 DEF Object
    <3>2. r \in Nat
      BY <1>5
    <3> QED BY <2>2, <3>1, <3>2, <1>1 DEF StoreTypeOK
  <2> QED BY <2>1, <2>2
<1>7. Bounded'
  BY <1>2, <1>6 DEF Bounded
<1>8. HistoryCoversReplay'
  BY <1>6 DEF HistoryCoversReplay
<1> QED BY <1>3, <1>4, <1>5, <1>6, <1>7, <1>8

-----------------------------------------------------------------------------
(* Every action is a legal transaction or a read *)

\* A client either holds what it held, or what its key now is.
SeenStep ==
    /\ seen' \in [Clients -> Seen]
    /\ \A d \in Clients : seen'[d] = seen[d] \/ seen'[d].object = objects'[seen'[d].key]

\* The response of a transaction gives its client the row of its key.
LEMMA RespondStep ==
    ASSUME StoreTypeOK, rv' \in Nat, NEW c \in Clients,
           NEW o \in Object \cup {NoObject}, objects'[seen[c].key] = o, Respond(c, o)
    PROVE  SeenStep
<1>1. CASE UNCHANGED seen
  BY <1>1 DEF SeenStep, StoreTypeOK
<1>2. CASE seen' = [seen EXCEPT ![c] = [key |-> seen[c].key, object |-> o, at |-> rv']]
  <2>1. seen \in [Clients -> Seen]
    BY DEF StoreTypeOK
  <2>3. seen[c].key \in Keys
    BY <2>1 DEF Seen
  <2>4. seen' \in [Clients -> Seen]
    BY <1>2, <2>1, <2>3 DEF Seen
  <2>5. seen'[c].object = objects'[seen'[c].key]
    BY <1>2, <2>1
  <2>6. \A d \in Clients \ {c} : seen'[d] = seen[d]
    BY <1>2, <2>1
  <2> QED BY <2>4, <2>5, <2>6 DEF SeenStep
<1> QED BY <1>1, <1>2 DEF Respond

\* A write whose expected revision matched replaces what its client read.
LEMMA ExpectedMatches ==
    ASSUME StoreInv, NEW c \in Clients
    PROVE  /\ seen[c] \in Seen
           /\ objects[seen[c].key] \in Object \cup {NoObject}
           /\ objects[seen[c].key] # NoObject /\ Expected(c) = objects[seen[c].key].rv =>
                 seen[c].object = objects[seen[c].key]
           /\ Expected(c) = 0 => seen[c].object = NoObject
<1>1. seen[c] \in Seen
  BY DEF StoreInv, StoreTypeOK
<1>2. seen[c].key \in Keys
  BY <1>1 DEF Seen
<1>3. objects[seen[c].key] \in Object \cup {NoObject}
  BY <1>2 DEF StoreInv, StoreTypeOK
<1>4. objects[seen[c].key] # NoObject => objects[seen[c].key].rv \in 1..rv
  BY <1>2 DEF StoreInv, Bounded
<1>5. rv \in Nat
  BY DEF StoreInv, StoreTypeOK
<1>6. seen[c].object # NoObject =>
        /\ seen[c].object.rv \in 1..rv
        /\ objects[seen[c].key] # NoObject
             /\ objects[seen[c].key].rv = seen[c].object.rv =>
                objects[seen[c].key] = seen[c].object
  BY DEF StoreInv, SeenIsPast
<1> QED BY <1>1, <1>3, <1>4, <1>5, <1>6 DEF Expected

\* What a Write establishes, given that it creates or carries on an object
\* and that its client read the row it replaces.
LEMMA WriteStep ==
    ASSUME StoreInv, NEW c \in Clients, NEW watch \in {"added", "modified", "deleted"},
           NEW o \in Object, o.rv = rv + 1,
           seen[c].object = objects[seen[c].key],
           LET e == [watch |-> watch, key |-> seen[c].key, object |-> o]
           IN  Creates(e, rv + 1) \/ Continues(e),
           Write(c, watch, o)
    PROVE  /\ \E events : LegalTx(events) /\ Commit(events)
           /\ SeenStep
           /\ lost' = FALSE
<1> DEFINE e == [watch |-> watch, key |-> seen[c].key, object |-> o]
           tx == <<e>>
<1>1. seen[c].key \in Keys
  BY ExpectedMatches DEF Seen
<1>2. e \in Event
  BY <1>1 DEF Event
<1>3. Len(tx) = 1 /\ tx[1] = e /\ tx \in Seq(Event)
  BY <1>2
<1>4. LegalTx(tx)
  <2>1. \A i \in 1..Len(tx) : i = 1
    BY <1>3
  <2>2. e.object.rv = rv + 1 /\ (Creates(e, rv + 1) \/ Continues(e))
    OBVIOUS
  <2>3. \A i \in 1..Len(tx) :
          /\ tx[i].object.rv = rv + i
          /\ Creates(tx[i], rv + i) \/ Continues(tx[i])
    BY <2>1, <2>2, <1>3
  <2> QED BY <2>1, <2>3, <1>3 DEF LegalTx
<1>5. Commit(tx)
  BY DEF Write
<1>6. objects'[seen[c].key] = Row(e)
  <2>1. objects'[seen[c].key] = Upsert(tx, seen[c].key)
    BY <1>1, <1>5 DEF Commit
  <2>2. Upsert(tx, tx[1].key) = Row(tx[1])
    <3>1. 1 \in 1..Len(tx)
      BY <1>3
    <3> QED BY <3>1, <1>4, UpsertTouched
  <2> QED BY <2>1, <2>2, <1>3
<1>7. rv' \in Nat
  BY <1>3, <1>5 DEF Commit, StoreInv, StoreTypeOK
<1>8. Respond(c, Row(e))
  BY DEF Write, Row
<1>9. Row(e) \in Object \cup {NoObject}
  BY DEF Row
<1>10. SeenStep
  BY <1>6, <1>7, <1>8, <1>9, RespondStep DEF StoreInv
<1>11. lost' = FALSE
  <2>1. lost = FALSE
    BY DEF StoreInv, StoreTypeOK, NoLostUpdate
  <2> QED BY <2>1 DEF Write
<1> QED BY <1>4, <1>5, <1>10, <1>11

\* The single-object actions.
LEMMA WritersCommit ==
    ASSUME StoreInv, NEW c \in Clients, NEW spec \in Specs, NEW status \in Statuses,
           \/ ApplyReplace(c, spec, status)
           \/ ApplyCreate(c, spec, status)
           \/ PatchStatus(c, status)
           \/ PatchSpec(c, spec)
           \/ Delete(c)
    PROVE  /\ \E events : LegalTx(events) /\ Commit(events)
           /\ SeenStep
           /\ lost' = FALSE
<1> DEFINE k == seen[c].key
           prev == objects[k]
           e(watch, o) == [watch |-> watch, key |-> k, object |-> o]
<1>1. /\ prev \in Object \cup {NoObject}
      /\ prev # NoObject /\ Expected(c) = prev.rv => seen[c].object = prev
      /\ Expected(c) = 0 => seen[c].object = NoObject
  BY ExpectedMatches
<1>2. rv \in Nat
  BY DEF StoreInv, StoreTypeOK
<1>3. CASE ApplyReplace(c, spec, status)
  <2> DEFINE o == Revised(prev, rv + 1, spec, IF k \in StatusOnly THEN status ELSE prev.status)
  <2>1. prev # NoObject /\ Expected(c) = prev.rv /\ Write(c, "modified", o)
    BY <1>3 DEF ApplyReplace
  <2>2. prev \in Object
    BY <1>1, <2>1
  <2>3. o \in Object /\ o.rv = rv + 1
    BY <1>2, <2>2, StoreAssumption DEF Object, Revised
  <2>4. Continues(e("modified", o))
    BY <2>1, <2>2 DEF Continues, Object, Revised
  <2> HIDE DEF o
  <2> QED BY <1>1, <2>1, <2>3, <2>4, WriteStep
<1>4. CASE ApplyCreate(c, spec, status)
  <2> DEFINE o == [uid |-> rv + 1, generation |-> 1, rv |-> rv + 1, spec |-> spec,
                   status |-> IF k \in Wants THEN EmptyStatus ELSE status]
  <2>1. prev = NoObject /\ Expected(c) = 0 /\ Write(c, "added", o)
    BY <1>4 DEF ApplyCreate
  <2>2. o \in Object /\ o.rv = rv + 1
    BY <1>2, StoreAssumption DEF Object
  <2>3. Creates(e("added", o), rv + 1)
    BY <2>1 DEF Creates
  <2> HIDE DEF o
  <2> QED BY <1>1, <2>1, <2>2, <2>3, WriteStep
<1>5. CASE PatchStatus(c, status)
  <2> DEFINE o == Revised(prev, rv + 1, prev.spec, status)
  <2>1. prev # NoObject /\ Expected(c) = prev.rv /\ Write(c, "modified", o)
    BY <1>5 DEF PatchStatus
  <2>2. prev \in Object
    BY <1>1, <2>1
  <2>3. o \in Object /\ o.rv = rv + 1
    BY <1>2, <2>2, StoreAssumption DEF Object, Revised
  <2>4. Continues(e("modified", o))
    BY <2>1, <2>2 DEF Continues, Object, Revised
  <2> HIDE DEF o
  <2> QED BY <1>1, <2>1, <2>3, <2>4, WriteStep
<1>6. CASE PatchSpec(c, spec)
  <2> DEFINE o == Revised(prev, rv + 1, spec, prev.status)
  <2>1. prev # NoObject /\ Expected(c) = prev.rv /\ Write(c, "modified", o)
    BY <1>6 DEF PatchSpec
  <2>2. prev \in Object
    BY <1>1, <2>1
  <2>3. o \in Object /\ o.rv = rv + 1
    BY <1>2, <2>2, StoreAssumption DEF Object, Revised
  <2>4. Continues(e("modified", o))
    BY <2>1, <2>2 DEF Continues, Object, Revised
  <2> HIDE DEF o
  <2> QED BY <1>1, <2>1, <2>3, <2>4, WriteStep
<1>7. CASE Delete(c)
  <2> DEFINE o == [prev EXCEPT !.rv = rv + 1]
  <2>1. prev # NoObject /\ Expected(c) = prev.rv /\ Write(c, "deleted", o)
    BY <1>7 DEF Delete
  <2>2. prev \in Object
    BY <1>1, <2>1
  <2>3. o \in Object /\ o.rv = rv + 1
    BY <1>2, <2>2 DEF Object
  <2>4. Continues(e("deleted", o))
    BY <2>1, <2>2 DEF Continues, Object
  <2> HIDE DEF o
  <2> QED BY <1>1, <2>1, <2>3, <2>4, WriteStep
<1> QED BY <1>3, <1>4, <1>5, <1>6, <1>7

\* The planner's transaction over several objects.
LEMMA ScheduleSyncCommits ==
    ASSUME StoreInv, NEW c \in Clients, NEW new \in Plans, NEW spec \in Specs,
           ScheduleSync(c, new, spec)
    PROVE  /\ \E events : LegalTx(events) /\ Commit(events)
           /\ SeenStep
           /\ lost' = FALSE
<1> DEFINE s == seen[c].key
           n == Len(new)
           created(i) == [watch |-> "added", key |-> new[i],
                          object |-> [uid |-> rv + i, generation |-> 1, rv |-> rv + i,
                                      spec |-> spec, status |-> EmptyStatus]]
           request == Revised(seen[c].object, rv + n + 1, seen[c].object.spec, Scheduled)
           last == [watch |-> "modified", key |-> s, object |-> request]
           tx == [i \in 1..(n + 1) |-> IF i <= n THEN created(i) ELSE last]
<1>1. /\ n \in Nat
      /\ \A i \in 1..n : new[i] \in Keys /\ new[i] \notin Syncs
      /\ \A i, j \in 1..n : new[i] = new[j] => i = j
  BY DEF Plans
<1>2. /\ s \in Syncs /\ objects[s] # NoObject /\ seen[c].object # NoObject
      /\ objects[s].rv = seen[c].object.rv
      /\ \A i \in 1..n : objects[new[i]] = NoObject
      /\ Commit(tx)
      /\ Respond(c, request)
      /\ lost' = (lost \/ seen[c].object # objects[s])
  BY DEF ScheduleSync
<1>3. /\ rv \in Nat /\ s \in Keys
      /\ seen[c].object = objects[s] /\ objects[s] \in Object
  <2>1. seen[c] \in Seen /\ objects[s] \in Object \cup {NoObject}
    BY ExpectedMatches
  <2>2. seen[c].object = objects[s]
    BY <1>2 DEF StoreInv, SeenIsPast
  <2> QED BY <1>2, <2>1, <2>2 DEF Seen, StoreInv, StoreTypeOK
<1>4. request \in Object /\ request.rv = rv + n + 1
  BY <1>1, <1>3, StoreAssumption DEF Object, Revised
<1>5. Continues(last)
  BY <1>2, <1>3 DEF Continues, Object, Revised
<1>6. last \in Event
  BY <1>3, <1>4 DEF Event
<1>7. \A i \in 1..n : created(i) \in Event /\ Creates(created(i), rv + i)
  BY <1>1, <1>2, <1>3, StoreAssumption DEF Event, Object, Creates
<1>8. /\ tx \in Seq(Event) /\ Len(tx) = n + 1
      /\ \A i \in 1..n : tx[i] = created(i)
      /\ tx[n + 1] = last
  <2>1. tx \in [1..(n + 1) -> Event]
    BY <1>1, <1>6, <1>7
  <2>2. tx \in Seq(Event) /\ Len(tx) = n + 1
    <3> HIDE DEF tx, n
    <3>1. n + 1 \in Nat
      BY <1>1
    <3> QED BY <2>1, <3>1
  <2>3. \A i \in 1..n : tx[i] = created(i)
    BY <1>1
  <2>4. tx[n + 1] = last
    BY <1>1
  <2> QED BY <2>2, <2>3, <2>4
<1>9. LegalTx(tx)
  <2>1. ASSUME NEW i \in 1..(n + 1)
        PROVE  /\ tx[i].object.rv = rv + i
               /\ Creates(tx[i], rv + i) \/ Continues(tx[i])
    <3>1. CASE i \in 1..n
      BY <3>1, <1>7, <1>8
    <3>2. CASE i = n + 1
      <4>1. tx[i] = last /\ last.object = request
        BY <3>2, <1>8
      <4> QED BY <4>1, <3>2, <1>1, <1>3, <1>4, <1>5
    <3> QED BY <3>1, <3>2, <1>1
  <2>2. ASSUME NEW i \in 1..(n + 1), NEW j \in 1..(n + 1), tx[i].key = tx[j].key
        PROVE  i = j
    <3>1. \A m \in 1..n : tx[m].key = new[m]
      BY <1>8
    <3>2. tx[n + 1].key = s
      BY <1>8
    <3> QED BY <2>2, <3>1, <3>2, <1>1, <1>2
  <2> HIDE DEF tx
  <2> QED BY <2>1, <2>2, <1>8 DEF LegalTx
<1>10. objects'[s] = request
  <2>1. n + 1 \in 1..Len(tx) /\ tx[n + 1].key = s /\ Row(tx[n + 1]) = request
    BY <1>1, <1>8 DEF Row
  <2>2. objects'[s] = Upsert(tx, s)
    BY <1>2, <1>3 DEF Commit
  <2> HIDE DEF tx, request, s
  <2> QED BY <2>1, <2>2, <1>9, UpsertTouched
<1>11. rv' \in Nat
  BY <1>1, <1>2, <1>3, <1>8 DEF Commit
<1>12. SeenStep
  BY <1>2, <1>4, <1>10, <1>11, RespondStep DEF StoreInv
<1>13. lost' = FALSE
  <2>1. lost = FALSE
    BY DEF StoreInv, StoreTypeOK, NoLostUpdate
  <2> QED BY <2>1, <1>2, <1>3
<1> QED BY <1>2, <1>9, <1>12, <1>13

\* Each step of the store commits a legal transaction or leaves the tables
\* alone, gives clients only current rows, and loses no update.
LEMMA NextCommits ==
    ASSUME StoreInv, StoreNext
    PROVE  /\ UNCHANGED table \/ \E events : LegalTx(events) /\ Commit(events)
           /\ SeenStep
           /\ lost' = FALSE
<1>1. PICK c \in Clients :
        \/ \E k \in Keys : Get(c, k)
        \/ \E spec \in Specs, status \in Statuses :
              ApplyReplace(c, spec, status) \/ ApplyCreate(c, spec, status)
        \/ \E status \in Statuses : PatchStatus(c, status)
        \/ \E spec \in Specs : PatchSpec(c, spec)
        \/ Delete(c)
        \/ \E new \in Plans, spec \in Specs : ScheduleSync(c, new, spec)
  BY DEF StoreNext
<1>2. UnitSpec \in Specs /\ EmptyStatus \in Statuses
  BY StoreAssumption
<1>3. CASE \E k \in Keys : Get(c, k)
  <2>1. PICK k \in Keys : Get(c, k)
    BY <1>3
  <2>2. /\ seen' = [seen EXCEPT ![c] = [key |-> k, object |-> objects[k], at |-> rv]]
        /\ UNCHANGED table
        /\ lost' = lost
    BY <2>1 DEF Get, table
  <2>3. [key |-> k, object |-> objects[k], at |-> rv] \in Seen
    BY DEF StoreInv, StoreTypeOK, Seen
  <2>4. seen \in [Clients -> Seen]
    BY DEF StoreInv, StoreTypeOK
  <2>5. SeenStep
    BY <2>2, <2>3, <2>4 DEF SeenStep, table
  <2>6. lost' = FALSE
    BY <2>2 DEF StoreInv, StoreTypeOK, NoLostUpdate
  <2> QED BY <2>2, <2>5, <2>6
<1>4. CASE \E spec \in Specs, status \in Statuses :
              ApplyReplace(c, spec, status) \/ ApplyCreate(c, spec, status)
  BY <1>4, WritersCommit
<1>5. CASE \E status \in Statuses : PatchStatus(c, status)
  BY <1>2, <1>5, WritersCommit
<1>6. CASE \E spec \in Specs : PatchSpec(c, spec)
  BY <1>2, <1>6, WritersCommit
<1>7. CASE Delete(c)
  BY <1>2, <1>7, WritersCommit
<1>8. CASE \E new \in Plans, spec \in Specs : ScheduleSync(c, new, spec)
  BY <1>8, ScheduleSyncCommits
<1> QED BY <1>1, <1>3, <1>4, <1>5, <1>6, <1>7, <1>8

-----------------------------------------------------------------------------
(* Theorems *)

\* What a client holds stays past: a transaction gives new revisions only.
LEMMA CommitKeepsSeen ==
    ASSUME StoreInv, NEW events, LegalTx(events), Commit(events), SeenStep
    PROVE  SeenIsPast'
<1>1. /\ rv' \in Nat /\ rv \in Nat /\ Len(events) \in Nat /\ rv' = rv + Len(events)
      /\ Bounded'
  BY CommitTables, CommitKeepsTables DEF StoreInv, StoreTypeOK
<1> SUFFICES ASSUME NEW c \in Clients, seen'[c].object # NoObject
             PROVE  /\ seen'[c].object.rv \in 1..rv'
                    /\ objects'[seen'[c].key] # NoObject
                         /\ objects'[seen'[c].key].rv = seen'[c].object.rv =>
                            objects'[seen'[c].key] = seen'[c].object
  BY DEF SeenIsPast
<1>2. seen'[c].key \in Keys
  BY DEF SeenStep, Seen
<1>3. CASE seen'[c].object = objects'[seen'[c].key]
  BY <1>1, <1>2, <1>3 DEF Bounded
<1>4. CASE seen'[c] = seen[c]
  <2> DEFINE k == seen[c].key
             held == seen[c].object
  <2>1. /\ held.rv \in 1..rv
        /\ objects[k] # NoObject /\ objects[k].rv = held.rv => objects[k] = held
    BY <1>4 DEF StoreInv, SeenIsPast
  <2>2. CASE objects'[k] = objects[k]
    BY <1>1, <1>4, <2>1, <2>2
  <2>3. CASE \E i \in 1..Len(events) : objects'[k] = Row(events[i])
    <3>1. PICK i \in 1..Len(events) : objects'[k] = Row(events[i])
      BY <2>3
    <3>2. events[i].object.rv = rv + i
      BY DEF LegalTx
    <3>3. objects'[k] # NoObject => objects'[k].rv = rv + i
      BY <3>1, <3>2 DEF Row
    <3>4. objects'[k] # NoObject => objects'[k].rv # held.rv
      BY <3>3, <2>1, <1>1
    <3> QED BY <3>4, <2>1, <1>1, <1>4
  <2> QED BY <2>2, <2>3, <1>2, <1>4, CommitRows
<1> QED BY <1>3, <1>4 DEF SeenStep

\* The invariant of the tables and of what clients hold is inductive.
LEMMA StoreInvInductive ==
    StoreInv /\ [StoreNext]_storeVars => StoreInv'
<1> SUFFICES ASSUME StoreInv, [StoreNext]_storeVars
             PROVE  StoreInv'
  OBVIOUS
<1>1. CASE UNCHANGED storeVars
  BY <1>1 DEF storeVars, StoreInv, StoreTypeOK, Bounded, HistoryCoversReplay,
              SeenIsPast, NoLostUpdate
<1>2. CASE StoreNext
  <2>1. /\ UNCHANGED table \/ \E events : LegalTx(events) /\ Commit(events)
        /\ SeenStep
        /\ lost' = FALSE
    BY <1>2, NextCommits
  <2>2. CASE UNCHANGED table
    <3>1. StoreTypeOK'
      BY <2>1, <2>2 DEF table, SeenStep, StoreInv, StoreTypeOK
    <3>2. Bounded' /\ HistoryCoversReplay'
      BY <2>2 DEF table, StoreInv, Bounded, HistoryCoversReplay
    <3>3. SeenIsPast'
      BY <2>1, <2>2 DEF table, SeenStep, StoreInv, Bounded, SeenIsPast, Seen
    <3> QED BY <2>1, <3>1, <3>2, <3>3 DEF StoreInv, NoLostUpdate
  <2>3. CASE \E events : LegalTx(events) /\ Commit(events)
    <3>1. PICK events : LegalTx(events) /\ Commit(events)
      BY <2>3
    <3>2. /\ objects' \in [Keys -> Object \cup {NoObject}]
          /\ rv' \in Nat /\ floor' \in Nat
          /\ DOMAIN history' \subseteq Nat
          /\ \A r \in DOMAIN history' : history'[r] \in Event
          /\ Bounded' /\ HistoryCoversReplay'
      BY <3>1, CommitKeepsTables DEF StoreInv
    <3>3. SeenIsPast'
      BY <2>1, <3>1, CommitKeepsSeen
    <3>4. StoreTypeOK'
      BY <2>1, <3>2 DEF SeenStep, StoreTypeOK
    <3> QED BY <2>1, <3>2, <3>3, <3>4 DEF StoreInv, NoLostUpdate
  <2> QED BY <2>1, <2>2, <2>3
<1> QED BY <1>1, <1>2

\* A fresh or migrated database satisfies every invariant.
LEMMA InitEstablishes ==
    StoreInit => StoreInv /\ HistoryAgreesWithObjects /\ IdentityInv
<1> SUFFICES ASSUME StoreInit
             PROVE  StoreInv /\ HistoryAgreesWithObjects /\ IdentityInv
  OBVIOUS
<1>1. rv \in Nat /\ floor = rv /\ lost = FALSE
  BY StoreAssumption DEF StoreInit
<1>2. DOMAIN history = {}
  BY DEF StoreInit
<1>3. floor + 1 .. rv = {}
  BY <1>1
<1>4. PICK k \in Keys \ Syncs : objects = [x \in Keys |->
          IF x = k /\ rv > 0 THEN LegacyObject(rv) ELSE NoObject]
  BY DEF StoreInit
<1>5. rv > 0 => LegacyObject(rv) \in Object
  BY <1>1, StoreAssumption DEF LegacyObject, Object
<1>6. \A x \in Keys : \/ objects[x] = NoObject
                      \/ x = k /\ rv > 0 /\ objects[x] = LegacyObject(rv)
  BY <1>4
<1>7. objects \in [Keys -> Object \cup {NoObject}]
  BY <1>4, <1>5
<1>8. seen \in [Clients -> Seen] /\ \A c \in Clients : seen[c].object = NoObject
  <2>1. PICK j \in Keys : seen = [c \in Clients |-> [key |-> j, object |-> NoObject, at |-> 0]]
    BY DEF StoreInit
  <2> QED BY <2>1 DEF Seen
<1>9. StoreTypeOK
  BY <1>1, <1>2, <1>7, <1>8 DEF StoreTypeOK
<1>10. Bounded
  BY <1>1, <1>2, <1>6 DEF Bounded, LegacyObject
<1>11. HistoryCoversReplay
  BY <1>2, <1>3 DEF HistoryCoversReplay
<1>12. HistoryAgreesWithObjects
  BY <1>1, <1>2, <1>6 DEF HistoryAgreesWithObjects, LegacyObject
<1>13. IdentityInv
  BY <1>2, <1>6 DEF IdentityInv, UidIdentifies, TombstoneIsFinal, GenerationTracksSpec
<1> QED BY <1>1, <1>8, <1>9, <1>10, <1>11, <1>12, <1>13
           DEF StoreInv, SeenIsPast, NoLostUpdate

\* The store's invariant holds in every reachable state.
THEOREM StoreInvHolds == StoreSpec => []StoreInv
<1>1. StoreInit => StoreInv
  BY InitEstablishes
<1> QED BY <1>1, StoreInvInductive, PTL DEF StoreSpec

\* Objects, revision, floor, history and the clients' copies keep their types
\* under every interleaving of clients.
THEOREM StoreTypeCorrect == StoreSpec => []StoreTypeOK
<1>1. StoreInv => StoreTypeOK
  BY DEF StoreInv
<1> QED BY <1>1, StoreInvHolds, PTL

\* events_after can replay every revision above the floor: compaction never
\* outruns the floor it publishes.
THEOREM ReplayIsComplete == StoreSpec => []HistoryCoversReplay
<1>1. StoreInv => HistoryCoversReplay
  BY DEF StoreInv
<1> QED BY <1>1, StoreInvHolds, PTL

\* Optimistic concurrency works: a write succeeds only on the object its
\* sender read, deletion and recreation included.
THEOREM UpdatesAreNotLost == StoreSpec => []NoLostUpdate
<1>1. StoreInv => NoLostUpdate
  BY DEF StoreInv
<1> QED BY <1>1, StoreInvHolds, PTL

-----------------------------------------------------------------------------
(* The history describes the current objects *)

\* A legal transaction keeps the newest event of every key its current row.
LEMMA CommitKeepsAgreement ==
    ASSUME StoreInv, HistoryAgreesWithObjects,
           NEW events, LegalTx(events), Commit(events)
    PROVE  HistoryAgreesWithObjects'
<1>0. /\ Len(events) \in Nat
      /\ rv' = rv + Len(events)
      /\ floor' \in Nat /\ floor <= floor' /\ floor' <= rv'
      /\ DOMAIN history' = floor' + 1 .. rv'
      /\ \A r \in DOMAIN history' :
            \/ /\ r \in DOMAIN history /\ r <= rv
               /\ history'[r] = history[r]
            \/ /\ r > rv /\ r - rv \in 1..Len(events)
               /\ history'[r] = events[r - rv]
  BY CommitTables DEF StoreInv
<1>1. rv \in Nat /\ floor \in Nat /\ DOMAIN history = floor + 1 .. rv
  BY DEF StoreInv, StoreTypeOK, HistoryCoversReplay
<1>d. DOMAIN history' = floor' + 1 .. rv' /\ floor' \in Nat /\ rv' \in Nat
  BY <1>0, <1>1
<1> DEFINE NewestNext(k, r) == /\ r \in DOMAIN history' /\ history'[r].key = k
                         /\ \A q \in DOMAIN history' : q > r => history'[q].key # k
<1> SUFFICES ASSUME NEW k \in Keys
             PROVE  /\ \A r \in DOMAIN history' : NewestNext(k, r) =>
                         objects'[k] = Row(history'[r])
                    /\ objects'[k] # NoObject /\ objects'[k].rv > floor' =>
                         NewestNext(k, objects'[k].rv)
  BY DEF HistoryAgreesWithObjects, Newest, Row
<1>2. CASE /\ objects'[k] = objects[k]
           /\ \A i \in 1..Len(events) : events[i].key # k
  <2>1. ASSUME NEW r \in DOMAIN history', NewestNext(k, r)
        PROVE  objects'[k] = Row(history'[r])
    <3>1. r \in DOMAIN history /\ history'[r] = history[r] /\ history[r].key = k
      BY <1>0, <1>2, <2>1 DEF Newest
    <3>2. ASSUME NEW q \in DOMAIN history, q > r
          PROVE  history[q].key # k
      <4>1. q \in DOMAIN history' /\ history'[q] = history[q]
        BY <1>0, <1>1, <3>1, <3>2
      <4> QED BY <4>1, <3>2, <2>1 DEF Newest
    <3>3. Newest(k, r)
      BY <3>1, <3>2 DEF Newest
    <3> QED BY <3>1, <3>3, <1>2 DEF HistoryAgreesWithObjects, Row
  <2>2. ASSUME objects'[k] # NoObject, objects'[k].rv > floor'
        PROVE  NewestNext(k, objects'[k].rv)
    <3> DEFINE r == objects[k].rv
    <3>1. r \in 1..rv
      BY <1>2, <2>2 DEF StoreInv, Bounded
    <3>2. Newest(k, r)
      BY <1>0, <1>1, <1>2, <2>2, <3>1 DEF HistoryAgreesWithObjects
    <3>3. r \in DOMAIN history' /\ history'[r] = history[r]
      BY <1>0, <1>1, <1>2, <2>2, <3>1
    <3>4. ASSUME NEW q \in DOMAIN history', q > r
          PROVE  history'[q].key # k
      BY <1>0, <1>2, <3>2, <3>4 DEF Newest
    <3> QED BY <1>2, <3>2, <3>3, <3>4 DEF Newest
  <2> QED BY <2>1, <2>2
<1>3. CASE \E i \in 1..Len(events) : events[i].key = k /\ objects'[k] = Row(events[i])
  <2>1. PICK i \in 1..Len(events) : events[i].key = k /\ objects'[k] = Row(events[i])
    BY <1>3
  <2>i. i \in Nat /\ 1 <= i /\ i <= Len(events) /\ rv + i \in Nat /\ rv + i <= rv'
        /\ rv + i > rv /\ (rv + i) - rv = i
    BY <1>0, <1>1
  <2>2. events[i].object.rv = rv + i
        /\ \A j \in 1..Len(events) : events[j].key = k => j = i
    BY <2>1 DEF LegalTx
  <2>3. ASSUME NEW r \in DOMAIN history', NewestNext(k, r)
        PROVE  objects'[k] = Row(history'[r])
    <3>1. CASE r > rv
      <4>1. r - rv \in 1..Len(events) /\ history'[r] = events[r - rv]
        <5>1. r \in Int /\ ~(r <= rv)
          BY <1>0, <1>1, <3>1
        <5> QED BY <5>1, <1>0
      <4>2. r - rv = i
        BY <4>1, <2>2, <2>3 DEF Newest
      <4> QED BY <4>1, <4>2, <2>1
    <3>2. CASE r <= rv
      <4>1. rv + i \in DOMAIN history' /\ rv + i > r
        <5>1. r \in Nat /\ floor' + 1 <= r
          BY <1>d
        <5>2. rv + i > r
          BY <5>1, <1>1, <3>2, <2>i
        <5>3. rv + i >= floor' + 1
          BY <5>1, <5>2, <1>d, <2>i
        <5> QED BY <5>2, <5>3, <1>d, <2>i
      <4>2. history'[rv + i] = events[i]
        <5>1. ~(rv + i <= rv)
          BY <2>i, <1>1
        <5> QED BY <5>1, <2>i, <4>1, <1>0
      <4> QED BY <4>1, <4>2, <2>1, <2>3 DEF Newest
    <3> QED BY <3>1, <3>2, <1>0, <1>1
  <2>4. ASSUME objects'[k] # NoObject, objects'[k].rv > floor'
        PROVE  NewestNext(k, objects'[k].rv)
    <3>1. objects'[k].rv = rv + i
      BY <2>1, <2>2, <2>4 DEF Row
    <3>2. rv + i \in DOMAIN history'
      <4>1. rv + i > floor'
        BY <2>4, <3>1
      <4> QED BY <4>1, <1>d, <2>i
    <3>3. history'[rv + i] = events[i]
      <4>1. ~(rv + i <= rv)
        BY <2>i, <1>1
      <4> QED BY <4>1, <2>i, <3>2, <1>0
    <3>4. ASSUME NEW q \in DOMAIN history', q > rv + i
          PROVE  history'[q].key # k
      <4>1. q - rv \in 1..Len(events) /\ history'[q] = events[q - rv] /\ q - rv # i
        BY <1>0, <1>1, <3>4
      <4> QED BY <4>1, <2>2
    <3> QED BY <3>1, <3>2, <3>3, <3>4, <2>1 DEF Newest
  <2> QED BY <2>3, <2>4
<1> QED BY <1>2, <1>3, CommitRows

\* The retained history always ends in the current state of each object: a
\* consumer that applied it holds what a fresh snapshot would give it.
THEOREM HistoryEndsInObjects == StoreSpec => []HistoryAgreesWithObjects
<1>1. StoreInit => StoreInv /\ HistoryAgreesWithObjects
  BY InitEstablishes
<1>2. ASSUME StoreInv, HistoryAgreesWithObjects, [StoreNext]_storeVars
      PROVE  HistoryAgreesWithObjects'
  <2>1. CASE UNCHANGED table
    BY <1>2, <2>1 DEF table, HistoryAgreesWithObjects, Newest
  <2>2. CASE \E events : LegalTx(events) /\ Commit(events)
    BY <1>2, <2>2, CommitKeepsAgreement
  <2>3. UNCHANGED storeVars => UNCHANGED table
    BY DEF storeVars, table
  <2> QED BY <1>2, <2>1, <2>2, <2>3, NextCommits
<1> QED BY <1>1, <1>2, StoreInvHolds, PTL DEF StoreSpec

-----------------------------------------------------------------------------
(* Identity: uids and generations *)

\* What an event of a legal transaction says about uids: it is new to the
\* store, or it is the uid of the live object at its key.
LEMMA EventIdentity ==
    ASSUME StoreInv, NEW events, LegalTx(events), NEW i \in 1..Len(events)
    PROVE  LET e == events[i]
               prev == objects[e.key]
           IN  /\ e \in Event /\ e.key \in Keys /\ e.object \in Object
               /\ \/ /\ e.watch = "added"
                     /\ prev = NoObject
                     /\ e.object.uid = rv + i
                  \/ /\ prev # NoObject /\ prev \in Object
                     /\ e.object.uid = prev.uid
                     /\ prev.uid <= rv
                     /\ prev.generation <= e.object.generation
                     /\ e.object.generation = prev.generation =>
                           e.object.spec = prev.spec
<1> DEFINE e == events[i]
           prev == objects[e.key]
<1>1. e \in Event /\ (Creates(e, rv + i) \/ Continues(e))
  BY DEF LegalTx
<1>2. e.key \in Keys /\ e.object \in Object
  BY <1>1 DEF Event
<1>3. prev \in Object \cup {NoObject}
  BY <1>2 DEF StoreInv, StoreTypeOK
<1>4. CASE Creates(e, rv + i)
  BY <1>1, <1>2, <1>4 DEF Creates
<1>5. CASE Continues(e)
  <2>1. prev # NoObject /\ prev \in Object /\ e.object.uid = prev.uid
        /\ e.object.generation >= prev.generation
        /\ (e.object.generation = prev.generation => e.object.spec = prev.spec)
    BY <1>3, <1>5 DEF Continues
  <2>2. prev.uid <= rv
    BY <1>2, <2>1 DEF StoreInv, Bounded
  <2>3. prev.generation <= e.object.generation
    BY <1>2, <2>1 DEF Object
  <2> QED BY <1>1, <1>2, <2>1, <2>2, <2>3
<1> QED BY <1>1, <1>4, <1>5

\* The uid of the row of k after a legal transaction: untouched, created at a
\* new revision, or carried on.
LEMMA RowIdentity ==
    ASSUME StoreInv, NEW events, LegalTx(events), Commit(events),
           NEW k \in Keys, objects'[k] # NoObject
    PROVE  \/ /\ objects'[k] = objects[k]
              /\ \A i \in 1..Len(events) : events[i].key # k
           \/ \E i \in 1..Len(events) :
                 /\ events[i].key = k /\ events[i].watch # "deleted"
                 /\ objects'[k] = events[i].object
                 /\ \/ objects'[k].uid = rv + i /\ objects[k] = NoObject
                    \/ objects[k] # NoObject /\ objects'[k].uid = objects[k].uid
<1>1. CASE \E i \in 1..Len(events) : events[i].key = k /\ objects'[k] = Row(events[i])
  <2>1. PICK i \in 1..Len(events) : events[i].key = k /\ objects'[k] = Row(events[i])
    BY <1>1
  <2>2. events[i].watch # "deleted" /\ objects'[k] = events[i].object
    BY <2>1 DEF Row
  <2> QED BY <2>1, <2>2, EventIdentity
<1> QED BY <1>1, CommitRows

\* A legal transaction keeps uids unique, tombstones final and generations
\* in step with specs.
LEMMA CommitKeepsIdentity ==
    ASSUME StoreInv, IdentityInv, NEW events, LegalTx(events), Commit(events)
    PROVE  IdentityInv'
<1> DEFINE New == 1..Len(events)
           ev(i) == events[i].object
           Fresh(i) == /\ events[i].watch = "added"
                       /\ objects[events[i].key] = NoObject
                       /\ ev(i).uid = rv + i
           Carried(i) == LET prev == objects[events[i].key]
                         IN  /\ prev # NoObject
                             /\ ev(i).uid = prev.uid
                             /\ prev.uid <= rv /\ prev.uid \in Nat
                             /\ prev.generation \in Nat
                             /\ prev.generation <= ev(i).generation
                             /\ ev(i).generation = prev.generation => ev(i).spec = prev.spec
           Old(r) == r \in DOMAIN history /\ r <= rv /\ history'[r] = history[r]
           Added(r) == r > rv /\ r - rv \in New /\ history'[r] = events[r - rv]
<1>1. /\ rv \in Nat /\ rv' \in Nat
      /\ New \subseteq Nat \ {0}
      /\ DOMAIN history' \subseteq Nat
      /\ \A r \in DOMAIN history' : Old(r) \/ Added(r)
  BY CommitTables, CommitKeepsTables DEF StoreInv, StoreTypeOK
<1>2. \A i \in New : /\ events[i].key \in Keys
                     /\ ev(i).uid \in Nat /\ ev(i).generation \in Nat
                     /\ Fresh(i) \/ Carried(i)
  BY EventIdentity DEF Object
<1>3. \A i, j \in New : events[i].key = events[j].key => i = j
  BY DEF LegalTx
<1>4. \A r \in DOMAIN history :
        /\ history[r].object.uid \in Nat /\ history[r].object.uid <= rv
        /\ history[r].object.generation \in Nat
  BY DEF StoreInv, StoreTypeOK, Bounded, Event, Object
<1>5. /\ UidIdentifies /\ TombstoneIsFinal /\ GenerationTracksSpec
  BY DEF IdentityInv
<1> DEFINE RowFresh(k) == \E i \in New : /\ events[i].key = k
                                         /\ objects'[k] = ev(i)
                                         /\ objects'[k].uid = rv + i
           RowKept(k) == /\ objects'[k] = objects[k]
                         /\ \A i \in New : events[i].key # k
           RowCarried(k) == \E i \in New : /\ events[i].key = k /\ Carried(i)
                                           /\ objects'[k] = ev(i)
<1>6. ASSUME NEW k \in Keys, objects'[k] # NoObject
      PROVE  \/ RowFresh(k)
             \/ objects[k] # NoObject /\ objects'[k].uid = objects[k].uid
                  /\ objects[k].uid <= rv /\ objects[k].uid \in Nat
                  /\ (RowKept(k) \/ RowCarried(k))
  <2>1. objects[k] # NoObject => objects[k].uid <= rv /\ objects[k].uid \in Nat
    BY DEF StoreInv, StoreTypeOK, Bounded, Object
  <2>2. CASE objects'[k] = objects[k] /\ \A i \in New : events[i].key # k
    BY <1>6, <2>1, <2>2
  <2>3. CASE \E i \in New : events[i].key = k /\ objects'[k] = ev(i)
    <3>1. PICK i \in New : events[i].key = k /\ objects'[k] = ev(i)
      BY <2>3
    <3>2. CASE Fresh(i)
      BY <3>1, <3>2
    <3>3. CASE Carried(i)
      BY <3>1, <3>3, <2>1
    <3> QED BY <3>2, <3>3, <1>2
  <2> QED BY <1>6, <2>2, <2>3, RowIdentity
<1>7. ASSUME NEW i \in New, Carried(i), NEW k \in Keys, objects'[k] # NoObject,
             objects'[k].uid = ev(i).uid
      PROVE  events[i].key = k /\ objects'[k] = ev(i) /\ events[i].watch # "deleted"
  <2>1. ~RowFresh(k)
    BY <1>1, <1>7
  <2>2. objects[k] # NoObject /\ objects'[k].uid = objects[k].uid
    BY <1>6, <1>7, <2>1
  <2>3. events[i].key = k
    BY <1>2, <1>5, <1>7, <2>2 DEF UidIdentifies
  <2>4. \E j \in New : events[j].key = k /\ events[j].watch # "deleted" /\ objects'[k] = ev(j)
    BY <1>7, <2>3, RowIdentity
  <2> QED BY <2>3, <2>4, <1>3
<1>8. UidIdentifies'
  <2>1. ASSUME NEW j \in Keys, NEW k \in Keys, objects'[j] # NoObject,
               objects'[k] # NoObject, objects'[j].uid = objects'[k].uid
        PROVE  j = k
    <3>1. CASE RowFresh(j) /\ RowFresh(k)
      BY <3>1, <1>1, <2>1
    <3>2. CASE ~RowFresh(j) /\ ~RowFresh(k)
      BY <3>2, <1>5, <1>6, <2>1 DEF UidIdentifies
    <3>3. CASE RowFresh(j) /\ ~RowFresh(k)
      BY <3>3, <1>1, <1>6, <2>1
    <3>4. CASE ~RowFresh(j) /\ RowFresh(k)
      BY <3>4, <1>1, <1>6, <2>1
    <3> QED BY <3>1, <3>2, <3>3, <3>4
  <2>2. ASSUME NEW r \in DOMAIN history', NEW k \in Keys, objects'[k] # NoObject,
               history'[r].object.uid = objects'[k].uid
        PROVE  /\ history'[r].key = k
               /\ history'[r].object.generation <= objects'[k].generation
               /\ history'[r].object.generation = objects'[k].generation =>
                     history'[r].object.spec = objects'[k].spec
    <3>1. CASE Old(r)
      <4>1. history'[r] = history[r] /\ r \in DOMAIN history
            /\ history[r].object.uid <= rv /\ history[r].object.uid \in Nat
        BY <3>1, <1>4
      <4>2. ~RowFresh(k)
        BY <4>1, <1>1, <2>2
      <4>3. objects[k] # NoObject /\ history[r].object.uid = objects[k].uid
            /\ (RowKept(k) \/ RowCarried(k))
        BY <4>1, <4>2, <1>6, <2>2
      <4>4. /\ history[r].key = k
            /\ history[r].object.generation <= objects[k].generation
            /\ history[r].object.generation = objects[k].generation =>
                  history[r].object.spec = objects[k].spec
        BY <4>1, <4>3, <1>5 DEF UidIdentifies
      <4>5. CASE RowKept(k)
        BY <4>1, <4>4, <4>5
      <4>6. CASE RowCarried(k)
        <5>1. PICK i \in New : events[i].key = k /\ Carried(i) /\ objects'[k] = ev(i)
          BY <4>6
        <5>2. /\ objects[k].generation \in Nat
              /\ objects[k].generation <= objects'[k].generation
              /\ objects'[k].generation \in Nat
              /\ objects'[k].generation = objects[k].generation =>
                    objects'[k].spec = objects[k].spec
          BY <5>1, <1>2
        <5>3. history[r].object.generation \in Nat
          BY <4>1, <1>4
        <5> QED BY <5>2, <5>3, <4>1, <4>4
      <4> QED BY <4>3, <4>5, <4>6
    <3>2. CASE Added(r)
      <4> DEFINE i == r - rv
      <4>1. i \in New /\ history'[r] = events[i]
        BY <3>2
      <4>2. CASE Fresh(i)
        <5>0. i \in Nat /\ i > 0 /\ objects'[k].uid = rv + i
          BY <4>1, <4>2, <1>1, <2>2
        <5> HIDE DEF i
        <5>1. RowFresh(k)
          <6>1. ~(objects'[k].uid <= rv)
            BY <5>0, <1>1
          <6>2. CASE objects'[k].uid = objects[k].uid /\ objects[k].uid <= rv
            BY <6>1, <6>2
          <6> QED BY <6>2, <1>6, <2>2
        <5>2. PICK j \in New : events[j].key = k /\ objects'[k] = ev(j)
                               /\ objects'[k].uid = rv + j
          BY <5>1
        <5>3. j = i
          BY <5>2, <4>1, <4>2, <1>1, <2>2
        <5> QED BY <5>2, <5>3, <4>1, <1>2
      <4>3. CASE Carried(i)
        <5>1. events[i].key = k /\ objects'[k] = ev(i)
          BY <4>1, <4>3, <1>7, <2>2
        <5> QED BY <5>1, <4>1, <1>2
      <4> QED BY <4>1, <4>2, <4>3, <1>2
    <3> QED BY <3>1, <3>2, <1>1
  <2> QED BY <2>1, <2>2 DEF UidIdentifies
<1>9. TombstoneIsFinal'
  <2>1. ASSUME NEW r \in DOMAIN history', history'[r].watch = "deleted",
               NEW q \in DOMAIN history', q > r
        PROVE  history'[q].object.uid # history'[r].object.uid
    <3>1. CASE Old(r) /\ Old(q)
      BY <3>1, <1>5, <2>1 DEF TombstoneIsFinal
    <3>2. CASE Old(r) /\ Added(q)
      <4>1. CASE Fresh(q - rv)
        BY <4>1, <3>2, <1>1, <1>4
      <4>2. CASE Carried(q - rv)
        BY <4>2, <3>2, <1>2, <1>5, <2>1 DEF TombstoneIsFinal
      <4> QED BY <4>1, <4>2, <3>2, <1>2
    <3>3. CASE Added(r) /\ Added(q)
      <4>1. Carried(r - rv)
        BY <3>3, <1>2, <2>1
      <4>2. q - rv # r - rv
        BY <1>1, <2>1
      <4>3. CASE Fresh(q - rv)
        BY <4>1, <4>3, <3>3, <1>1
      <4>4. CASE Carried(q - rv)
        BY <4>1, <4>2, <4>4, <3>3, <1>2, <1>3, <1>5 DEF UidIdentifies
      <4> QED BY <4>3, <4>4, <3>3, <1>2
    <3>4. ~(Added(r) /\ Old(q))
      BY <1>1, <2>1
    <3> QED BY <3>1, <3>2, <3>3, <3>4, <1>1
  <2>2. ASSUME NEW r \in DOMAIN history', history'[r].watch = "deleted",
               NEW k \in Keys, objects'[k] # NoObject
        PROVE  objects'[k].uid # history'[r].object.uid
    <3>1. CASE Old(r)
      <4>1. CASE RowFresh(k)
        BY <4>1, <3>1, <1>1, <1>4
      <4>2. CASE ~RowFresh(k)
        BY <4>2, <3>1, <1>5, <1>6, <2>2 DEF TombstoneIsFinal
      <4> QED BY <4>1, <4>2
    <3>2. CASE Added(r)
      <4>1. Carried(r - rv) /\ r - rv \in New /\ events[r - rv].watch = "deleted"
        BY <3>2, <1>2, <2>2
      <4> QED BY <4>1, <3>2, <1>7, <2>2
    <3> QED BY <3>1, <3>2, <1>1
  <2> QED BY <2>1, <2>2 DEF TombstoneIsFinal
<1>10. GenerationTracksSpec'
  <2> SUFFICES ASSUME NEW q \in DOMAIN history', NEW r \in DOMAIN history', q < r,
                      history'[q].object.uid = history'[r].object.uid
               PROVE  /\ history'[q].key = history'[r].key
                      /\ history'[q].object.generation <= history'[r].object.generation
                      /\ history'[q].object.generation = history'[r].object.generation =>
                            history'[q].object.spec = history'[r].object.spec
    BY DEF GenerationTracksSpec
  <2>1. CASE Old(q) /\ Old(r)
    BY <2>1, <1>5 DEF GenerationTracksSpec
  <2>2. CASE Old(q) /\ Added(r)
    <3> DEFINE i == r - rv
    <3>0. /\ i \in New /\ i \in Nat /\ i > 0
          /\ history[q].object.uid = ev(i).uid
          /\ history[q].object.uid <= rv
      BY <2>2, <1>1, <1>4
    <3>1. Carried(i)
      <4> HIDE DEF i
      <4>1. ev(i).uid # rv + i
        BY <3>0, <1>1, <1>2
      <4> QED BY <4>1, <3>0, <1>2
    <3>2. /\ history[q].key = events[i].key
          /\ history[q].object.generation <= objects[events[i].key].generation
          /\ history[q].object.generation = objects[events[i].key].generation =>
                history[q].object.spec = objects[events[i].key].spec
      BY <2>2, <3>1, <1>2, <1>5 DEF UidIdentifies
    <3>3. history[q].object.generation \in Nat /\ ev(i).generation \in Nat
      BY <2>2, <1>2, <1>4
    <3> QED BY <2>2, <3>1, <3>2, <3>3
  <2>3. ~(Added(q) /\ Added(r))
    <3> SUFFICES ASSUME Added(q), Added(r) PROVE FALSE
      OBVIOUS
    <3>1. q - rv # r - rv
      BY <1>1
    <3> DEFINE i == q - rv
               j == r - rv
    <3>0. /\ i \in New /\ j \in New /\ i \in Nat \ {0} /\ j \in Nat \ {0}
          /\ i # j /\ ev(i).uid = ev(j).uid
      BY <3>1, <1>1
    <3>2. CASE Fresh(q - rv) \/ Fresh(r - rv)
      <4> HIDE DEF i, j
      <4>1. Fresh(i) \/ Fresh(j)
        BY <3>2 DEF i, j
      <4>2. \A m, n \in New : m \in Nat \ {0} /\ Fresh(m) /\ ev(m).uid = ev(n).uid => ~Carried(n)
        BY <1>1
      <4>3. Fresh(i) /\ Fresh(j)
        BY <4>1, <4>2, <3>0, <1>2
      <4> QED BY <4>3, <3>0, <1>1
    <3>3. CASE Carried(q - rv) /\ Carried(r - rv)
      BY <3>1, <3>3, <1>2, <1>3, <1>5 DEF UidIdentifies
    <3> QED BY <3>2, <3>3, <1>2
  <2>4. ~(Added(q) /\ Old(r))
    BY <1>1
  <2> QED BY <2>1, <2>2, <2>3, <2>4, <1>1
<1> QED BY <1>8, <1>9, <1>10 DEF IdentityInv

\* Uids are unique among live objects, tombstones are final and generations
\* follow specs, in every reachable state.
THEOREM IdentityHolds == StoreSpec => []IdentityInv
<1>1. StoreInit => IdentityInv
  BY InitEstablishes
<1>2. ASSUME StoreInv, IdentityInv, [StoreNext]_storeVars
      PROVE  IdentityInv'
  <2>1. CASE UNCHANGED table
    BY <1>2, <2>1 DEF table, IdentityInv, UidIdentifies, TombstoneIsFinal, GenerationTracksSpec
  <2>2. CASE \E events : LegalTx(events) /\ Commit(events)
    BY <1>2, <2>2, CommitKeepsIdentity
  <2>3. UNCHANGED storeVars => UNCHANGED table
    BY DEF storeVars, table
  <2> QED BY <1>2, <2>1, <2>2, <2>3, NextCommits
<1> QED BY <1>1, <1>2, StoreInvHolds, PTL DEF StoreSpec

\* A deleted uid never reappears, which is what lets a watch consumer drop
\* every event of a uid it saw deleted.
THEOREM TombstonesAreFinal == StoreSpec => []TombstoneIsFinal
<1>1. IdentityInv => TombstoneIsFinal
  BY DEF IdentityInv
<1> QED BY <1>1, IdentityHolds, PTL

\* Comparing generations of one object compares its specs.
THEOREM GenerationsTrackSpecs == StoreSpec => []GenerationTracksSpec
<1>1. IdentityInv => GenerationTracksSpec
  BY DEF IdentityInv
<1> QED BY <1>1, IdentityHolds, PTL

-----------------------------------------------------------------------------
(***************************************************************************)
(* Proofs about the Watch streams, for any set of watchers and filters,    *)
(* any batch limit and channel capacity, over the store.                   *)
(*                                                                         *)
(* The invariant speaks of every revision the client may pass on its way   *)
(* from its cursor to the position of the server's task, not only of the   *)
(* two ends: a stream that is cut off leaves the client at any of them.    *)
(* At each such revision x, and for each key, what the client will hold    *)
(* when it has read everything up to x is the current row, or there is a   *)
(* retained event after x.                                                 *)
(***************************************************************************)

-----------------------------------------------------------------------------
(* The inductive invariant *)

Sent(s) == {s.chan[i] : i \in 1..Len(s.chan)}

\* The events on their way to the client.
Flight(s) == (s.pending \cup Sent(s)) \ {Expired}

Owed(s, k, x) == {f \in Flight(s) : f.key = k /\ f.object.rv <= x}

\* Revisions ascend along the channel, and from the channel to what is pending.
InOrder(s) ==
    /\ \A i, j \in 1..Len(s.chan) :
          (i < j /\ s.chan[i] # Expired /\ s.chan[j] # Expired) =>
              s.chan[i].object.rv < s.chan[j].object.rv
    /\ \A e \in Sent(s), f \in s.pending :
          (e # Expired /\ f # Expired) => e.object.rv < f.object.rv

\* What is in flight lies between the client's cursor and the task's.
AheadOfClient(w) ==
    /\ \A f \in Flight(stream[w]) : cursor[w] < f.object.rv /\ f.object.rv <= stream[w].after
    /\ cursor[w] <= rv
    /\ stream[w].task = "none" => stream[w].pending = {} /\ stream[w].chan = <<>>
    /\ stream[w].task # "none" => cursor[w] <= stream[w].after /\ stream[w].after <= rv

\* The row of k is known to a client that has read up to x.
KnowsKey(w, x, k) ==
    \/ Unfetched(k, x) # {}
    \/ \E e \in Owed(stream[w], k, x) :
          /\ Row(e) = objects[k]
          /\ \A f \in Owed(stream[w], k, x) : f.object.rv <= e.object.rv
    \/ Owed(stream[w], k, x) = {} /\ view[w][k] = objects[k]

Knows(w, x) == x >= floor => \A k \in stream[w].keys : KnowsKey(w, x, k)

\* The revisions at which the stream may be cut off.
Positions(w) ==
    IF stream[w].task = "none" THEN {cursor[w]} \ {0} ELSE cursor[w] .. stream[w].after

StreamInv(w) ==
    /\ InOrder(stream[w])
    /\ AheadOfClient(w)
    /\ \A x \in Positions(w) : Knows(w, x)

WatchInv == WatchTypeOK /\ \A w \in Watchers : StreamInv(w)

\* What the store provides.
TableInv == StoreInv /\ HistoryAgreesWithObjects

Untouched(w) == stream'[w] = stream[w] /\ view'[w] = view[w] /\ cursor'[w] = cursor[w]

-----------------------------------------------------------------------------
(* Numbers and finite sets *)

\* A bounded, nonempty set of numbers has a greatest element.
LEMMA Greatest ==
    ASSUME NEW S \in SUBSET Nat, S # {}, NEW n \in Nat, \A x \in S : x <= n
    PROVE  \E x \in S : \A y \in S : y <= x
<1> DEFINE R == OpToRel(<, Nat)
           D == {d \in Nat : d <= n /\ n - d \in S}
<1>1. IsWellFoundedOn(R, Nat)
  BY NatLessThanWellFounded
<1>2. \A x, y \in Nat : y < x => <<y, x>> \in R
  BY DEF OpToRel
<1>3. D \subseteq Nat /\ D # {} /\ \A x \in S : n - x \in D
  <2>1. \A x \in S : x \in Nat /\ n - x \in Nat /\ n - x <= n /\ n - (n - x) = x
    OBVIOUS
  <2>2. \A x \in S : n - x \in D
    BY <2>1
  <2> QED BY <2>2
<1> HIDE DEF R, D
<1>4. PICK d \in D : \A e \in D : ~ (<<e, d>> \in R)
  BY <1>1, <1>3, WFMin
<1>5. \A e \in D : d <= e
  <2> SUFFICES ASSUME NEW e \in D PROVE d <= e
    OBVIOUS
  <2>1. ~ (e < d)
    BY <1>2, <1>3, <1>4
  <2> QED BY <2>1, <1>3
<1>6. n - d \in S /\ \A x \in S : n - x \in D
  BY <1>3, <1>4 DEF D
<1>7. \A x \in S : x <= n - d
  <2> SUFFICES ASSUME NEW x \in S PROVE x <= n - d
    OBVIOUS
  <2>1. d <= n - x /\ d \in Nat /\ x \in Nat
    BY <1>3, <1>5, <1>6
  <2> QED BY <2>1
<1> QED BY <1>6, <1>7

\* A batch of events_after leaves no hole: it holds every retained revision
\* between the cursor and its last one.
LEMMA BatchHasNoHole ==
    ASSUME StoreInv, NEW after \in Nat, NEW last \in EventsAfter(after),
           NEW r \in DOMAIN history, after < r, r <= last
    PROVE  r \in EventsAfter(after)
<1> DEFINE Before(x) == {q \in DOMAIN history : after < q /\ q < x}
<1>1. /\ DOMAIN history \subseteq Nat
      /\ DOMAIN history = floor + 1 .. rv
      /\ floor \in Nat /\ rv \in Nat
  BY DEF StoreInv, StoreTypeOK, HistoryCoversReplay
<1>2. last \in DOMAIN history /\ Cardinality(Before(last)) < BatchLimit
  BY DEF EventsAfter
<1>3. IsFiniteSet(DOMAIN history)
  BY <1>1, FS_Interval
<1>4. Before(r) \subseteq Before(last) /\ Before(last) \subseteq DOMAIN history
  BY <1>1, <1>2
<1>5. IsFiniteSet(Before(last)) /\ IsFiniteSet(Before(r))
  BY <1>3, <1>4, FS_Subset
<1>6. Cardinality(Before(r)) <= Cardinality(Before(last))
  BY <1>4, <1>5, FS_Subset
<1>7. Cardinality(Before(r)) \in Nat /\ Cardinality(Before(last)) \in Nat
  BY <1>5, FS_CardinalityType
<1>8. Cardinality(Before(r)) < BatchLimit
  BY <1>2, <1>6, <1>7, WatchAssumption
<1> QED BY <1>8 DEF EventsAfter

-----------------------------------------------------------------------------
(* Streams *)

\* The fields of a typed stream.
LEMMA StreamFields ==
    ASSUME WatchTypeOK, NEW w \in Watchers
    PROVE  /\ stream[w].task \in {"none", "live", "ended"}
           /\ stream[w].keys \in Filters /\ stream[w].keys \subseteq Keys
           /\ stream[w].after \in Nat
           /\ stream[w].pending \subseteq Item
           /\ stream[w].chan \in Seq(Item)
           /\ cursor[w] \in Nat
           /\ view[w] \in [Keys -> Object \cup {NoObject}]
  BY WatchAssumption DEF WatchTypeOK, Stream

\* What is in flight are events.
LEMMA FlightEvents ==
    ASSUME WatchTypeOK, NEW w \in Watchers
    PROVE  \A f \in Flight(stream[w]) :
              /\ f \in Event /\ f # Expired
              /\ f.key \in Keys /\ f.object \in Object /\ f.object.rv \in Nat
<1>1. \A i \in 1..Len(stream[w].chan) : stream[w].chan[i] \in Item
  BY StreamFields
<1>2. \A f \in Flight(stream[w]) : f \in Item /\ f # Expired
  BY <1>1, StreamFields DEF Flight, Sent
<1> QED BY <1>2 DEF Item, Event, Object

\* No event of the store is the Expired item.
LEMMA EventIsNotExpired ==
    ASSUME NEW e \in Event
    PROVE  e # Expired
<1>1. e.watch \in {"added", "modified", "deleted"}
  BY DEF Event
<1>2. Expired.watch = "expired"
  BY DEF Expired
<1> QED BY <1>1, <1>2

\* A stream nobody touches keeps its invariant while the tables stay.
LEMMA UntouchedKeeps ==
    ASSUME NEW w \in Watchers, StreamInv(w), Untouched(w), UNCHANGED table
    PROVE  StreamInv(w)'
  BY DEF StreamInv, Untouched, table, InOrder, AheadOfClient, Positions, Knows, KnowsKey,
         Owed, Flight, Sent, Unfetched

-----------------------------------------------------------------------------
(* Each action keeps the invariant *)

\* A snapshot: every key it names is in flight, at its revision, or absent.
LEMMA SnapshotKeeps ==
    ASSUME TableInv, WatchTypeOK, NEW w \in Watchers, NEW keys \in Filters,
           WatchSnapshot(w, keys)
    PROVE  /\ WatchTypeOK' /\ StreamInv(w)'
           /\ \A v \in Watchers \ {w} : Untouched(v)
<1> DEFINE s == [task |-> "live", keys |-> keys, after |-> rv,
                 pending |-> Snapshot(keys), chan |-> <<>>]
<1>0. /\ rv \in Nat /\ floor \in Nat /\ DOMAIN history \subseteq Nat
      /\ objects \in [Keys -> Object \cup {NoObject}]
      /\ keys \subseteq Keys
  BY WatchAssumption DEF TableInv, StoreInv, StoreTypeOK
<1>1. /\ stream' = [stream EXCEPT ![w] = s]
      /\ view' = [view EXCEPT ![w] = [k \in Keys |-> NoObject]]
      /\ cursor' = [cursor EXCEPT ![w] = 0]
      /\ UNCHANGED table
  BY DEF WatchSnapshot, storeVars, table
<1>2. stream'[w] = s /\ view'[w] = [k \in Keys |-> NoObject] /\ cursor'[w] = 0
  BY <1>1 DEF WatchTypeOK
<1>3. \A e \in Snapshot(keys) :
        /\ e \in Event /\ e.key \in keys
        /\ e.object = objects[e.key] /\ e.object # NoObject
        /\ Row(e) = objects[e.key]
        /\ e.object.rv \in 1..rv
  <2> SUFFICES ASSUME NEW k \in keys, objects[k] # NoObject
               PROVE  LET e == [watch |-> "added", key |-> k, object |-> objects[k]]
                      IN  e \in Event /\ Row(e) = objects[k] /\ objects[k].rv \in 1..rv
    BY DEF Snapshot, ListObjects
  <2>1. objects[k] \in Object /\ k \in Keys
    BY <1>0
  <2>2. objects[k].rv \in 1..rv
    BY <2>1 DEF TableInv, StoreInv, Bounded
  <2> QED BY <2>1, <2>2 DEF Event, Row
<1>4. WatchTypeOK'
  <2>1. s \in Stream
    BY <1>0, <1>3 DEF Item, Stream
  <2>2. [k \in Keys |-> NoObject] \in [Keys -> Object \cup {NoObject}]
    OBVIOUS
  <2> HIDE DEF s
  <2> QED BY <1>1, <2>1, <2>2 DEF WatchTypeOK
<1>5. Flight(s) = Snapshot(keys)
  <2>1. Sent(s) = {}
    BY DEF Sent
  <2>2. \A e \in Snapshot(keys) : e # Expired
    BY <1>3, EventIsNotExpired
  <2> QED BY <2>1, <2>2 DEF Flight
<1>6. InOrder(s)
  BY DEF InOrder, Sent
<1>7. AheadOfClient(w)'
  <2>1. \A f \in Flight(s) : 0 < f.object.rv /\ f.object.rv <= rv
    BY <1>0, <1>3, <1>5
  <2> QED BY <1>0, <1>1, <1>2, <2>1 DEF AheadOfClient, table
<1>8. ASSUME NEW x \in 0..rv, x >= floor, NEW k \in keys
      PROVE  \/ Unfetched(k, x) # {}
             \/ \E e \in Owed(s, k, x) :
                   /\ Row(e) = objects[k]
                   /\ \A f \in Owed(s, k, x) : f.object.rv <= e.object.rv
             \/ Owed(s, k, x) = {} /\ objects[k] = NoObject
  <2>0. Owed(s, k, x) = {f \in Snapshot(keys) : f.key = k /\ f.object.rv <= x}
    BY <1>5 DEF Owed
  <2>1. CASE objects[k] = NoObject
    BY <2>0, <2>1, <1>3
  <2>2. CASE objects[k] # NoObject /\ objects[k].rv <= x
    <3> DEFINE e == [watch |-> "added", key |-> k, object |-> objects[k]]
    <3>1. e \in Snapshot(keys)
      BY <2>2 DEF Snapshot, ListObjects
    <3>2. e \in Owed(s, k, x) /\ Row(e) = objects[k]
      BY <2>0, <2>2, <3>1 DEF Row
    <3>3. \A f \in Owed(s, k, x) : f.object = objects[k]
      BY <2>0, <1>3
    <3>4. objects[k].rv \in Nat
      BY <2>2, <1>0 DEF Object
    <3> QED BY <3>2, <3>3, <3>4
  <2>3. CASE objects[k] # NoObject /\ ~(objects[k].rv <= x)
    <3>1. objects[k].rv \in Nat /\ objects[k].rv > x /\ objects[k].rv > floor
      BY <2>3, <1>0, <1>8 DEF Object
    <3>2. Newest(k, objects[k].rv)
      BY <2>3, <3>1, <1>0 DEF TableInv, HistoryAgreesWithObjects
    <3> QED BY <3>1, <3>2 DEF Newest, Unfetched
  <2> QED BY <2>1, <2>2, <2>3
<1>9. ASSUME NEW x \in Positions(w)' PROVE Knows(w, x)'
  <2>1. x \in 0..rv
    BY <1>2 DEF Positions
  <2> SUFFICES ASSUME (x >= floor)', NEW k \in keys PROVE KnowsKey(w, x, k)'
    BY <1>2 DEF Knows
  <2>2. x >= floor
    BY <1>1 DEF table
  <2>3. view'[w][k] = NoObject
    BY <1>0, <1>2
  <2>4. /\ Unfetched(k, x)' = Unfetched(k, x)
        /\ objects'[k] = objects[k]
        /\ Owed(stream[w], k, x)' = Owed(s, k, x)
    BY <1>1, <1>2 DEF table, Unfetched, Owed, Flight, Sent
  <2> QED BY <2>1, <2>2, <2>3, <2>4, <1>8 DEF KnowsKey
<1>10. StreamInv(w)'
  BY <1>2, <1>6, <1>7, <1>9 DEF StreamInv, InOrder, Sent
<1>11. \A v \in Watchers \ {w} : Untouched(v)
  BY <1>1 DEF Untouched, WatchTypeOK
<1> QED BY <1>4, <1>10, <1>11

\* A resumed stream starts at the client's cursor, with nothing in flight.
LEMMA ResumeKeeps ==
    ASSUME TableInv, WatchTypeOK, NEW w \in Watchers, StreamInv(w), WatchResume(w)
    PROVE  /\ WatchTypeOK' /\ StreamInv(w)'
           /\ \A v \in Watchers \ {w} : Untouched(v)
<1> DEFINE s == stream[w]
<1>0. /\ stream[w].task = "none" /\ cursor[w] > 0
      /\ s.pending = {} /\ s.chan = <<>>
      /\ cursor[w] \in Nat /\ cursor[w] <= rv
  BY StreamFields DEF WatchResume, StreamInv, AheadOfClient
<1>1. /\ stream' = [stream EXCEPT ![w].task = "live", ![w].after = cursor[w]]
      /\ UNCHANGED <<view, cursor>>
      /\ UNCHANGED table
  BY DEF WatchResume, storeVars, table
<1> DEFINE t == [s EXCEPT !.task = "live", !.after = cursor[w]]
<1>2. /\ t.task = "live" /\ t.after = cursor[w]
      /\ t.keys = s.keys /\ t.pending = {} /\ t.chan = <<>>
      /\ t \in Stream
  BY <1>0 DEF WatchTypeOK, Stream
<1>3. stream' = [stream EXCEPT ![w] = t]
  BY <1>1
<1> HIDE DEF t
<1>30. stream'[w] = t
  BY <1>3 DEF WatchTypeOK
<1>31. WatchTypeOK'
  BY <1>1, <1>2, <1>3 DEF WatchTypeOK
<1>4. Flight(stream[w])' = {} /\ Flight(stream[w]) = {}
  BY <1>0, <1>2, <1>30 DEF Flight, Sent
<1>5. InOrder(stream[w])'
  BY <1>2, <1>30 DEF InOrder, Sent
<1>6. AheadOfClient(w)'
  <2>1. cursor'[w] = cursor[w] /\ rv' = rv
    BY <1>1 DEF table
  <2> QED BY <1>0, <1>2, <1>30, <1>4, <2>1 DEF AheadOfClient
<1>7. Positions(w)' = {cursor[w]} /\ cursor[w] \in Positions(w)
  BY <1>0, <1>1, <1>2, <1>30 DEF Positions
<1>8. Knows(w, cursor[w])
  BY <1>7 DEF StreamInv
<1>9. \A x \in Positions(w)' : Knows(w, x)'
  <2> SUFFICES ASSUME NEW x \in Positions(w)' PROVE Knows(w, x)'
    OBVIOUS
  <2>0. Knows(w, x)
    BY <1>7, <1>8
  <2>1. \A k : /\ Owed(stream[w], k, x)' = {} /\ Owed(stream[w], k, x) = {}
              /\ Unfetched(k, x)' = Unfetched(k, x)
              /\ view'[w][k] = view[w][k] /\ objects'[k] = objects[k]
    BY <1>1, <1>4 DEF Owed, Unfetched, table
  <2>2. stream'[w].keys = stream[w].keys /\ floor' = floor
    BY <1>1, <1>2, <1>30 DEF table
  <2> QED BY <2>0, <2>1, <2>2 DEF Knows, KnowsKey
<1>10. \A v \in Watchers \ {w} : Untouched(v)
  BY <1>1 DEF Untouched, WatchTypeOK
<1> QED BY <1>31, <1>5, <1>6, <1>9, <1>10 DEF StreamInv

\* A client that is cut off resumes from its cursor: everything in flight was
\* beyond it.
LEMMA DisconnectKeeps ==
    ASSUME TableInv, WatchTypeOK, NEW w \in Watchers, StreamInv(w), Disconnect(w)
    PROVE  /\ WatchTypeOK' /\ StreamInv(w)'
           /\ \A v \in Watchers \ {w} : Untouched(v)
<1> DEFINE s == stream[w]
           t == Closed(s.keys)
<1>0. /\ s.task # "none"
      /\ cursor[w] \in Nat /\ s.after \in Nat /\ cursor[w] <= s.after
      /\ cursor[w] <= rv
  BY StreamFields DEF Disconnect, StreamInv, AheadOfClient
<1>1. /\ stream' = [stream EXCEPT ![w] = t]
      /\ UNCHANGED <<view, cursor>>
      /\ UNCHANGED table
  BY DEF Disconnect, storeVars, table
<1>2. /\ t.task = "none" /\ t.keys = s.keys /\ t.pending = {} /\ t.chan = <<>>
      /\ t \in Stream
  BY StreamFields DEF Closed, Stream
<1> HIDE DEF t
<1>3. stream'[w] = t
  BY <1>1 DEF WatchTypeOK
<1>4. WatchTypeOK'
  BY <1>1, <1>2 DEF WatchTypeOK
<1>5. Flight(stream[w])' = {}
  BY <1>2, <1>3 DEF Flight, Sent
<1>6. InOrder(stream[w])'
  BY <1>2, <1>3 DEF InOrder, Sent
<1>7. AheadOfClient(w)'
  <2>1. cursor'[w] = cursor[w] /\ rv' = rv
    BY <1>1 DEF table
  <2> QED BY <1>0, <1>2, <1>3, <1>5, <2>1 DEF AheadOfClient
<1>8. ASSUME NEW x \in Positions(w)' PROVE Knows(w, x)'
  <2>1. x = cursor[w] /\ x \in Positions(w)
    BY <1>0, <1>1, <1>2, <1>3 DEF Positions
  <2>2. Knows(w, x)
    BY <2>1 DEF StreamInv
  <2>3. \A k : /\ Owed(stream[w], k, x)' = {} /\ Owed(stream[w], k, x) = {}
               /\ Unfetched(k, x)' = Unfetched(k, x)
               /\ view'[w][k] = view[w][k] /\ objects'[k] = objects[k]
    <3>1. \A f \in Flight(stream[w]) : ~(f.object.rv <= x)
      BY <2>1, <1>0, FlightEvents DEF StreamInv, AheadOfClient
    <3> QED BY <3>1, <1>1, <1>5 DEF Owed, Unfetched, table
  <2>4. stream'[w].keys = stream[w].keys /\ floor' = floor
    BY <1>1, <1>2, <1>3 DEF table
  <2> QED BY <2>2, <2>3, <2>4 DEF Knows, KnowsKey
<1>9. \A v \in Watchers \ {w} : Untouched(v)
  BY <1>1 DEF Untouched, WatchTypeOK
<1> QED BY <1>4, <1>6, <1>7, <1>8, <1>9 DEF StreamInv

\* The task moves an item from its batch to the channel: the same events are
\* in flight, in the same order.
LEMMA SendKeeps ==
    ASSUME TableInv, WatchTypeOK, NEW w \in Watchers, StreamInv(w), Send(w)
    PROVE  /\ WatchTypeOK' /\ StreamInv(w)'
           /\ \A v \in Watchers \ {w} : Untouched(v)
<1> DEFINE s == stream[w]
<1>0. PICK e \in s.pending :
        /\ First(e, s.pending)
        /\ stream' = [stream EXCEPT ![w].pending = @ \ {e}, ![w].chan = Append(@, e)]
  BY DEF Send
<1> DEFINE t == [s EXCEPT !.pending = s.pending \ {e}, !.chan = Append(s.chan, e)]
<1>1. /\ stream' = [stream EXCEPT ![w] = t]
      /\ UNCHANGED <<view, cursor>>
      /\ UNCHANGED table
  BY <1>0 DEF Send, storeVars, table
<1>a. s \in Stream /\ s.chan \in Seq(Item) /\ s.pending \subseteq Item /\ e \in Item
  BY StreamFields DEF WatchTypeOK
<1>b. Append(s.chan, e) \in Seq(Item)
  BY <1>a
<1>2. /\ t.task = s.task /\ t.keys = s.keys /\ t.after = s.after
      /\ t.pending = s.pending \ {e} /\ t.chan = Append(s.chan, e)
      /\ t \in Stream
  BY <1>a, <1>b DEF Stream
<1> HIDE DEF t
<1>3. stream'[w] = t
  BY <1>1 DEF WatchTypeOK
<1>4. WatchTypeOK'
  BY <1>1, <1>2 DEF WatchTypeOK
<1>5. /\ Len(t.chan) = Len(s.chan) + 1 /\ Len(s.chan) \in Nat
      /\ \A i \in 1..Len(s.chan) : t.chan[i] = s.chan[i]
      /\ t.chan[Len(s.chan) + 1] = e
  BY <1>2, <1>a
<1>6. Sent(t) = Sent(s) \cup {e}
  <2>1. \A i \in 1..Len(t.chan) : i \in 1..Len(s.chan) \/ i = Len(s.chan) + 1
    BY <1>5
  <2>2. Sent(t) \subseteq Sent(s) \cup {e}
    BY <1>5, <2>1 DEF Sent
  <2>3. Len(s.chan) + 1 \in 1..Len(t.chan) /\ 1..Len(s.chan) \subseteq 1..Len(t.chan)
    BY <1>5
  <2>4. e \in Sent(t)
    BY <1>5, <2>3 DEF Sent
  <2>5. Sent(s) \subseteq Sent(t)
    BY <1>5, <2>3 DEF Sent
  <2> QED BY <2>2, <2>4, <2>5
<1>7. Flight(t) = Flight(s)
  BY <1>2, <1>6 DEF Flight
<1>8. InOrder(t)
  <2>1. InOrder(s)
    BY DEF StreamInv
  <2>2. ASSUME NEW i \in 1..Len(t.chan), NEW j \in 1..Len(t.chan), i < j,
               t.chan[i] # Expired, t.chan[j] # Expired
        PROVE  t.chan[i].object.rv < t.chan[j].object.rv
    <3>1. i \in 1..Len(s.chan) /\ t.chan[i] = s.chan[i] /\ t.chan[i] \in Sent(s)
      BY <1>5, <2>2 DEF Sent
    <3>2. CASE j \in 1..Len(s.chan)
      BY <3>1, <3>2, <2>1, <2>2, <1>5 DEF InOrder
    <3>3. CASE j = Len(s.chan) + 1
      BY <3>1, <3>3, <2>1, <2>2, <1>5 DEF InOrder
    <3> QED BY <3>2, <3>3, <1>5
  <2>3. ASSUME NEW g \in Sent(t), NEW f \in t.pending, g # Expired, f # Expired
        PROVE  g.object.rv < f.object.rv
    <3>1. CASE g = e
      BY <3>1, <2>3, <1>0, <1>2 DEF First
    <3>2. CASE g \in Sent(s)
      BY <3>2, <2>1, <2>3, <1>2 DEF InOrder
    <3> QED BY <3>1, <3>2, <1>6
  <2> QED BY <2>2, <2>3 DEF InOrder
<1>9. InOrder(stream[w])'
  BY <1>3, <1>8 DEF InOrder, Sent
<1>10. Flight(stream[w])' = Flight(stream[w])
  BY <1>3, <1>7 DEF Flight, Sent
<1>11. s.task # "none"
  BY <1>0 DEF StreamInv, AheadOfClient
<1>12. AheadOfClient(w)'
  <2>1. cursor'[w] = cursor[w] /\ rv' = rv
    BY <1>1 DEF table
  <2> QED BY <1>2, <1>3, <1>10, <1>11, <2>1 DEF AheadOfClient, StreamInv
<1>13. ASSUME NEW x \in Positions(w)' PROVE Knows(w, x)'
  <2>1. x \in Positions(w)
    BY <1>1, <1>2, <1>3 DEF Positions
  <2>2. Knows(w, x)
    BY <2>1 DEF StreamInv
  <2>3. \A k : /\ Owed(stream[w], k, x)' = Owed(stream[w], k, x)
               /\ Unfetched(k, x)' = Unfetched(k, x)
               /\ view'[w][k] = view[w][k] /\ objects'[k] = objects[k]
    BY <1>1, <1>10 DEF Owed, Unfetched, table
  <2>4. stream'[w].keys = stream[w].keys /\ floor' = floor
    BY <1>1, <1>2, <1>3 DEF table
  <2> QED BY <2>2, <2>3, <2>4 DEF Knows, KnowsKey
<1>14. \A v \in Watchers \ {w} : Untouched(v)
  BY <1>1 DEF Untouched, WatchTypeOK
<1> QED BY <1>4, <1>9, <1>12, <1>13, <1>14 DEF StreamInv

\* The client takes the oldest event in flight: its view of that key is then
\* what the event said, and every revision from there on was covered before.
LEMMA ReceiveKeeps ==
    ASSUME TableInv, WatchTypeOK, NEW w \in Watchers, StreamInv(w), Receive(w)
    PROVE  /\ WatchTypeOK' /\ StreamInv(w)'
           /\ \A v \in Watchers \ {w} : Untouched(v)
           /\ cursor'[w] = 0 \/ cursor'[w] > cursor[w]
<1> DEFINE s == stream[w]
           e == Head(s.chan)
<1>0. /\ s \in Stream /\ s.chan \in Seq(Item) /\ s.chan # <<>>
      /\ cursor[w] \in Nat /\ view[w] \in [Keys -> Object \cup {NoObject}]
      /\ s.after \in Nat /\ s.pending \subseteq Item
      /\ UNCHANGED table
      /\ rv \in Nat
  BY StreamFields DEF WatchTypeOK, Receive, storeVars, table, TableInv, StoreInv, StoreTypeOK
<1>1. /\ Len(s.chan) \in Nat /\ Len(s.chan) > 0
      /\ e = s.chan[1] /\ e \in Item
      /\ Tail(s.chan) \in Seq(Item) /\ Len(Tail(s.chan)) = Len(s.chan) - 1
      /\ \A i \in 1..Len(Tail(s.chan)) : Tail(s.chan)[i] = s.chan[i + 1]
  BY <1>0
<1>2. e \in Sent(s)
  BY <1>1 DEF Sent
<1>3. CASE e = Expired
  <2> DEFINE t == Closed(s.keys)
  <2>1. /\ stream' = [stream EXCEPT ![w] = t]
        /\ cursor' = [cursor EXCEPT ![w] = 0]
        /\ view' = view
    BY <1>3 DEF Receive
  <2>2. /\ t.task = "none" /\ t.pending = {} /\ t.chan = <<>>
        /\ t \in Stream
    BY StreamFields DEF Closed, Stream
  <2> HIDE DEF t
  <2>3. stream'[w] = t /\ cursor'[w] = 0
    BY <2>1 DEF WatchTypeOK
  <2>4. WatchTypeOK'
    BY <2>1, <2>2 DEF WatchTypeOK
  <2>5. Flight(stream[w])' = {} /\ InOrder(stream[w])' /\ Positions(w)' = {}
    BY <2>2, <2>3 DEF Flight, Sent, InOrder, Positions
  <2>6. AheadOfClient(w)'
    <3>1. rv' = rv
      BY <1>0 DEF table
    <3> QED BY <3>1, <2>2, <2>3, <2>5, <1>0 DEF AheadOfClient
  <2>7. \A v \in Watchers \ {w} : Untouched(v)
    BY <2>1 DEF Untouched, WatchTypeOK
  <2> QED BY <2>3, <2>4, <2>5, <2>6, <2>7 DEF StreamInv
<1>4. CASE e # Expired
  <2> DEFINE t == [s EXCEPT !.chan = Tail(s.chan)]
  <2>1. /\ stream' = [stream EXCEPT ![w] = t]
        /\ view' = [view EXCEPT ![w][e.key] = Row(e)]
        /\ cursor' = [cursor EXCEPT ![w] = e.object.rv]
    BY <1>4 DEF Receive
  <2>2. /\ t.task = s.task /\ t.keys = s.keys /\ t.after = s.after
        /\ t.pending = s.pending /\ t.chan = Tail(s.chan)
        /\ t \in Stream
    BY <1>0, <1>1 DEF Stream
  <2> HIDE DEF t
  <2>3. e \in Flight(s) /\ e.key \in Keys /\ e.object \in Object /\ e.object.rv \in Nat
    BY <1>2, <1>4, FlightEvents DEF Flight
  <2>4. Row(e) \in Object \cup {NoObject}
    BY <2>3 DEF Row
  <2>5. /\ stream'[w] = t /\ cursor'[w] = e.object.rv
        /\ view'[w] = [view[w] EXCEPT ![e.key] = Row(e)]
    BY <2>1 DEF WatchTypeOK
  <2>6. WatchTypeOK'
    <3>1. view' = [view EXCEPT ![w] = [view[w] EXCEPT ![e.key] = Row(e)]]
      BY <2>1
    <3>2. [view[w] EXCEPT ![e.key] = Row(e)] \in [Keys -> Object \cup {NoObject}]
      BY <1>0, <2>4
    <3> QED BY <2>1, <2>2, <2>3, <3>1, <3>2 DEF WatchTypeOK
  <2>7. \A i \in 2..Len(s.chan) : s.chan[i] # Expired => e.object.rv < s.chan[i].object.rv
    BY <1>1, <1>4 DEF StreamInv, InOrder
  <2>8. \A f \in s.pending : f # Expired => e.object.rv < f.object.rv
    BY <1>2, <1>4 DEF StreamInv, InOrder
  <2>9. Sent(t) = {s.chan[i] : i \in 2..Len(s.chan)}
    <3>1. \A i \in 1..Len(t.chan) : i + 1 \in 2..Len(s.chan) /\ t.chan[i] = s.chan[i + 1]
      BY <1>1, <2>2
    <3>2. \A i \in 2..Len(s.chan) : i - 1 \in 1..Len(t.chan) /\ t.chan[i - 1] = s.chan[i]
      BY <1>1, <2>2
    <3>3. Sent(t) \subseteq {s.chan[i] : i \in 2..Len(s.chan)}
      BY <3>1 DEF Sent
    <3>4. {s.chan[i] : i \in 2..Len(s.chan)} \subseteq Sent(t)
      BY <3>2 DEF Sent
    <3> QED BY <3>3, <3>4
  <2>10. Sent(s) = Sent(t) \cup {e}
    <3>1. \A i \in 1..Len(s.chan) : i = 1 \/ i \in 2..Len(s.chan)
      BY <1>1
    <3>2. 2..Len(s.chan) \subseteq 1..Len(s.chan)
      BY <1>1
    <3>3. Sent(s) \subseteq Sent(t) \cup {e}
      BY <3>1, <2>9, <1>1 DEF Sent
    <3>4. Sent(t) \subseteq Sent(s)
      BY <3>2, <2>9 DEF Sent
    <3> QED BY <3>3, <3>4, <1>2
  <2>11. \A f \in Flight(t) : e.object.rv < f.object.rv
    BY <2>2, <2>7, <2>8, <2>9 DEF Flight
  <2>12. e \notin Flight(t)
    BY <2>3, <2>11
  <2>13. Flight(s) = Flight(t) \cup {e}
    BY <2>2, <2>10, <1>4 DEF Flight
  <2>14. InOrder(t)
    <3>1. InOrder(s)
      BY DEF StreamInv
    <3>2. ASSUME NEW i \in 1..Len(t.chan), NEW j \in 1..Len(t.chan), i < j,
                 t.chan[i] # Expired, t.chan[j] # Expired
          PROVE  t.chan[i].object.rv < t.chan[j].object.rv
      <4>1. /\ i + 1 \in 1..Len(s.chan) /\ j + 1 \in 1..Len(s.chan) /\ i + 1 < j + 1
            /\ t.chan[i] = s.chan[i + 1] /\ t.chan[j] = s.chan[j + 1]
        BY <3>2, <1>1, <2>2
      <4> QED BY <4>1, <3>1, <3>2 DEF InOrder
    <3>3. ASSUME NEW g \in Sent(t), NEW f \in t.pending, g # Expired, f # Expired
          PROVE  g.object.rv < f.object.rv
      BY <3>1, <3>3, <2>2, <2>10 DEF InOrder
    <3> QED BY <3>2, <3>3 DEF InOrder
  <2>15. InOrder(stream[w])' /\ Flight(stream[w])' = Flight(t)
    BY <2>5, <2>14 DEF InOrder, Sent, Flight
  <2>16. cursor[w] < e.object.rv /\ e.object.rv <= s.after
    BY <2>3 DEF StreamInv, AheadOfClient
  <2>17. s.task # "none"
    BY <1>0 DEF StreamInv, AheadOfClient
  <2>18. s.after <= rv
    BY <2>17 DEF StreamInv, AheadOfClient
  <2>19. AheadOfClient(w)'
    <3>1. rv' = rv
      BY <1>0 DEF table
    <3>2. \A f \in Flight(t) : f.object.rv <= s.after
      BY <2>13 DEF StreamInv, AheadOfClient
    <3>3. e.object.rv <= rv
      BY <1>0, <2>3, <2>16, <2>18
    <3> QED BY <3>1, <3>2, <3>3, <2>2, <2>5, <2>11, <2>15, <2>16, <2>17, <2>18 DEF AheadOfClient
  <2>20. ASSUME NEW x \in Positions(w)' PROVE Knows(w, x)'
    <3>1. /\ x \in Positions(w) /\ e.object.rv <= x /\ x \in Nat
      BY <1>0, <2>2, <2>3, <2>5, <2>16, <2>17 DEF Positions
    <3>2. Knows(w, x)
      BY <3>1 DEF StreamInv
    <3>3. \A k : /\ Unfetched(k, x)' = Unfetched(k, x)
                 /\ objects'[k] = objects[k]
                 /\ Owed(stream[w], k, x)' = Owed(t, k, x)
      BY <1>0, <2>15 DEF Unfetched, Owed, table
    <3>4. stream'[w].keys = s.keys /\ floor' = floor
      BY <1>0, <2>2, <2>5 DEF table
    <3> SUFFICES ASSUME x >= floor, NEW k \in s.keys PROVE KnowsKey(w, x, k)'
      BY <3>4 DEF Knows
    <3>5. KnowsKey(w, x, k)
      BY <3>2 DEF Knows
    <3>6. k \in Keys
      BY StreamFields
    <3>7. CASE k # e.key
      <4>1. Owed(t, k, x) = Owed(s, k, x)
        BY <3>7, <2>13 DEF Owed
      <4>2. view'[w][k] = view[w][k]
        BY <3>6, <3>7, <2>5, <1>0
      <4> QED BY <4>1, <4>2, <3>3, <3>5 DEF KnowsKey
    <3>8. CASE k = e.key
      <4>1. view'[w][k] = Row(e)
        BY <3>6, <3>8, <2>5, <1>0
      <4>2. e \in Owed(s, k, x) /\ Owed(s, k, x) = Owed(t, k, x) \cup {e}
        BY <3>1, <3>8, <2>3, <2>13 DEF Owed
      <4>3. CASE Unfetched(k, x) # {}
        BY <4>3, <3>3 DEF KnowsKey
      <4>4. CASE \E g \in Owed(s, k, x) :
                   /\ Row(g) = objects[k]
                   /\ \A f \in Owed(s, k, x) : f.object.rv <= g.object.rv
        <5>1. PICK g \in Owed(s, k, x) :
                   /\ Row(g) = objects[k]
                   /\ \A f \in Owed(s, k, x) : f.object.rv <= g.object.rv
          BY <4>4
        <5>2. CASE g = e
          <6>1. \A f \in Owed(t, k, x) : f \in Flight(s) /\ f.object.rv \in Nat /\ e.object.rv < f.object.rv
            BY <2>11, <2>13, FlightEvents DEF Owed
          <6>2. \A f \in Owed(t, k, x) : f.object.rv <= e.object.rv
            BY <5>1, <5>2, <4>2
          <6>3. Owed(t, k, x) = {}
            BY <6>1, <6>2, <2>3
          <6> QED BY <6>3, <5>1, <5>2, <4>1, <3>3 DEF KnowsKey
        <5>3. CASE g # e
          BY <5>1, <5>3, <4>2, <3>3 DEF KnowsKey
        <5> QED BY <5>2, <5>3
      <4> QED BY <4>2, <4>3, <4>4, <3>5 DEF KnowsKey
    <3> QED BY <3>7, <3>8
  <2>21. \A v \in Watchers \ {w} : Untouched(v)
    BY <2>1 DEF Untouched, WatchTypeOK
  <2>22. cursor'[w] > cursor[w]
    BY <2>3, <2>5, <2>16, <1>0
  <2> QED BY <2>6, <2>15, <2>19, <2>20, <2>21, <2>22 DEF StreamInv
<1> QED BY <1>3, <1>4

\* A turn of the task's loop: the batch holds every event between the old and
\* the new position, so the newest event of a key up to any revision between
\* them is the row the client will hold there.
LEMMA FetchKeeps ==
    ASSUME TableInv, WatchTypeOK, NEW w \in Watchers, StreamInv(w), Fetch(w)
    PROVE  /\ WatchTypeOK' /\ StreamInv(w)'
           /\ \A v \in Watchers \ {w} : Untouched(v)
<1> DEFINE s == stream[w]
           revisions == EventsAfter(s.after)
           named == {r \in revisions : history[r].key \in s.keys}
<1>0. /\ s \in Stream /\ s.task = "live" /\ s.pending = {}
      /\ cursor[w] \in Nat /\ s.after \in Nat /\ s.chan \in Seq(Item)
      /\ rv \in Nat /\ floor \in Nat /\ DOMAIN history \subseteq Nat
      /\ DOMAIN history = floor + 1 .. rv
      /\ UNCHANGED <<view, cursor>> /\ UNCHANGED table
  BY StreamFields DEF WatchTypeOK, Fetch, storeVars, table, TableInv, StoreInv, StoreTypeOK,
                      HistoryCoversReplay
<1>1. /\ cursor[w] <= s.after /\ s.after <= rv
      /\ \A f \in Flight(s) : cursor[w] < f.object.rv /\ f.object.rv <= s.after
  BY <1>0 DEF StreamInv, AheadOfClient
<1>2. Flight(s) = Sent(s) \ {Expired}
  BY <1>0 DEF Flight
<1>3. CASE /\ s.after < floor
           /\ stream' = [stream EXCEPT ![w].task = "ended", ![w].pending = {Expired}]
  <2> DEFINE t == [s EXCEPT !.task = "ended", !.pending = {Expired}]
  <2>1. stream' = [stream EXCEPT ![w] = t]
    BY <1>3
  <2>2. /\ t.task = "ended" /\ t.keys = s.keys /\ t.after = s.after
        /\ t.pending = {Expired} /\ t.chan = s.chan /\ t \in Stream
    BY <1>0 DEF Stream, Item
  <2> HIDE DEF t
  <2>3. stream'[w] = t
    BY <2>1 DEF WatchTypeOK
  <2>4. WatchTypeOK'
    BY <1>0, <2>1, <2>2 DEF WatchTypeOK
  <2>5. Flight(stream[w])' = Flight(s)
    BY <2>2, <2>3, <1>2 DEF Flight, Sent
  <2>6. InOrder(t)
    BY <2>2 DEF StreamInv, InOrder, Sent
  <2>7. AheadOfClient(w)'
    <3>1. cursor'[w] = cursor[w] /\ rv' = rv
      BY <1>0 DEF table
    <3>2. cursor[w] <= rv
      BY <1>0, <1>1
    <3> QED BY <3>1, <3>2, <1>1, <2>2, <2>3, <2>5 DEF AheadOfClient
  <2>8. ASSUME NEW x \in Positions(w)' PROVE Knows(w, x)'
    <3>1. x \in Positions(w)
      BY <1>0, <2>2, <2>3 DEF Positions
    <3>2. Knows(w, x)
      BY <3>1 DEF StreamInv
    <3>3. \A k : /\ Owed(stream[w], k, x)' = Owed(stream[w], k, x)
                 /\ Unfetched(k, x)' = Unfetched(k, x)
                 /\ view'[w][k] = view[w][k] /\ objects'[k] = objects[k]
      BY <1>0, <2>5 DEF Owed, Unfetched, table
    <3>4. stream'[w].keys = stream[w].keys /\ floor' = floor
      BY <1>0, <2>2, <2>3 DEF table
    <3> QED BY <3>2, <3>3, <3>4 DEF Knows, KnowsKey
  <2>9. \A v \in Watchers \ {w} : Untouched(v)
    BY <1>0, <2>1 DEF Untouched, WatchTypeOK
  <2>10. InOrder(stream[w])'
    BY <2>3, <2>6 DEF InOrder, Sent
  <2> QED BY <2>4, <2>7, <2>8, <2>9, <2>10 DEF StreamInv
<1>4. CASE /\ s.after >= floor
           /\ \E last \in revisions :
                 /\ \A r \in revisions : r <= last
                 /\ stream' = [stream EXCEPT ![w].after = last,
                                             ![w].pending = {history[r] : r \in named}]
  <2>0. PICK last \in revisions :
           stream' = [stream EXCEPT ![w].after = last,
                                    ![w].pending = {history[r] : r \in named}]
             /\ \A r \in revisions : r <= last
    BY <1>4
  <2> DEFINE t == [s EXCEPT !.after = last, !.pending = {history[r] : r \in named}]
  <2>1. stream' = [stream EXCEPT ![w] = t]
    BY <2>0
  <2>2. /\ revisions \subseteq DOMAIN history
        /\ \A r \in revisions : r \in Nat /\ s.after < r /\ r <= rv /\ r <= last
        /\ last \in Nat
    BY <1>0, <2>0 DEF EventsAfter
  <2>3. \A r \in DOMAIN history : /\ history[r] \in Event /\ history[r].object.rv = r
                                  /\ history[r] # Expired
    BY EventIsNotExpired DEF TableInv, StoreInv, StoreTypeOK, HistoryCoversReplay
  <2>4. /\ t.task = "live" /\ t.keys = s.keys /\ t.after = last
        /\ t.pending = {history[r] : r \in named} /\ t.chan = s.chan
    BY <1>0 DEF Stream
  <2>5. t \in Stream
    <3>1. {history[r] : r \in named} \subseteq Item
      BY <2>2, <2>3 DEF Item
    <3> QED BY <3>1, <1>0, <2>2 DEF Stream
  <2> HIDE DEF t
  <2>6. stream'[w] = t
    BY <2>1 DEF WatchTypeOK
  <2>7. WatchTypeOK'
    BY <1>0, <2>1, <2>5 DEF WatchTypeOK
  <2>8. Flight(t) = Flight(s) \cup {history[r] : r \in named}
    BY <1>2, <2>2, <2>3, <2>4 DEF Flight, Sent
  <2>9. InOrder(t)
    <3>1. InOrder(s)
      BY DEF StreamInv
    <3>2. Sent(t) = Sent(s)
      BY <2>4 DEF Sent
    <3>3. ASSUME NEW g \in Sent(t), NEW f \in t.pending, g # Expired, f # Expired
          PROVE  g.object.rv < f.object.rv
      <4>1. g \in Flight(s)
        BY <3>2, <3>3, <1>2
      <4>2. g.object.rv <= s.after /\ g.object.rv \in Nat
        BY <4>1, <1>1, FlightEvents
      <4>3. PICK r \in named : f = history[r]
        BY <3>3, <2>4
      <4>4. f.object.rv = r /\ r \in Nat /\ s.after < r
        BY <4>3, <2>2, <2>3
      <4> QED BY <4>2, <4>4, <1>0
    <3> QED BY <3>1, <3>3, <2>4 DEF InOrder
  <2>10. InOrder(stream[w])' /\ Flight(stream[w])' = Flight(t)
    BY <2>6, <2>9 DEF InOrder, Sent, Flight
  <2>11. s.after < last /\ last <= rv
    BY <2>2
  <2>12. AheadOfClient(w)'
    <3>1. cursor'[w] = cursor[w] /\ rv' = rv
      BY <1>0 DEF table
    <3>2. ASSUME NEW f \in Flight(t)
          PROVE  cursor[w] < f.object.rv /\ f.object.rv <= last
      <4>1. CASE f \in Flight(s)
        BY <4>1, <1>0, <1>1, <2>2, <2>11, FlightEvents
      <4>2. CASE f \in {history[r] : r \in named}
        BY <4>2, <1>0, <1>1, <2>2, <2>3
      <4> QED BY <4>1, <4>2, <2>8
    <3>3. cursor[w] <= last /\ cursor[w] <= rv
      BY <1>0, <1>1, <2>2, <2>11
    <3> QED BY <3>1, <3>2, <3>3, <2>4, <2>6, <2>10, <2>11 DEF AheadOfClient
  <2>13. ASSUME NEW x \in cursor[w] .. last, x >= floor, NEW k \in s.keys
         PROVE  \/ Unfetched(k, x) # {}
                \/ \E e \in Owed(t, k, x) :
                      /\ Row(e) = objects[k]
                      /\ \A f \in Owed(t, k, x) : f.object.rv <= e.object.rv
                \/ Owed(t, k, x) = {} /\ view[w][k] = objects[k]
    <3>0. x \in Nat /\ k \in Keys
      BY <1>0, <2>2, StreamFields
    <3>1. CASE x <= s.after
      <4>1. Owed(t, k, x) = Owed(s, k, x)
        <5>1. \A r \in named : ~(history[r].object.rv <= x)
          BY <3>0, <3>1, <2>2, <2>3, <1>0
        <5> QED BY <5>1, <2>8 DEF Owed
      <4>2. x \in Positions(w)
        BY <3>0, <3>1, <1>0, <1>1 DEF Positions
      <4>3. KnowsKey(w, x, k)
        BY <4>2, <2>13 DEF StreamInv, Knows
      <4> QED BY <4>1, <4>3 DEF KnowsKey
    <3>2. CASE x > s.after /\ Unfetched(k, x) = {}
      <4> DEFINE U == {r \in DOMAIN history : s.after < r /\ r <= x /\ history[r].key = k}
      <4>1. \A r \in DOMAIN history : r > x => history[r].key # k
        BY <3>2 DEF Unfetched
      <4>2. U \subseteq named
        BY <3>0, <2>0, <2>13, <2>2, <1>0, BatchHasNoHole DEF TableInv
      <4>3. CASE U # {}
        <5>1. PICK r \in U : \A y \in U : y <= r
          BY <4>3, <3>0, <1>0, Greatest
        <5>2. r \in DOMAIN history /\ r \in Nat /\ s.after < r /\ r <= x /\ history[r].key = k
          BY <1>0
        <5>3. Newest(k, r)
          <6>1. ASSUME NEW q \in DOMAIN history, q > r PROVE history[q].key # k
            <7>1. q \in Nat
              BY <1>0
            <7>2. CASE q > x
              BY <7>2, <4>1
            <7>3. CASE ~(q > x)
              BY <7>1, <7>3, <6>1, <5>1, <5>2, <3>0, <1>0
            <7> QED BY <7>2, <7>3
          <6> QED BY <6>1, <5>2 DEF Newest
        <5>4. objects[k] = Row(history[r])
          BY <5>2, <5>3, <3>0 DEF TableInv, HistoryAgreesWithObjects, Row
        <5>5. history[r] \in Owed(t, k, x)
          BY <5>2, <4>2, <2>3, <2>8 DEF Owed
        <5>6. ASSUME NEW f \in Owed(t, k, x)
              PROVE  f.object.rv <= history[r].object.rv
          <6>1. history[r].object.rv = r
            BY <5>2, <2>3
          <6>2. CASE f \in Flight(s)
            <7>1. f.object.rv \in Nat /\ f.object.rv <= s.after
              BY <6>2, <1>1, FlightEvents
            <7> QED BY <7>1, <6>1, <5>2, <1>0
          <6>3. CASE f \in {history[q] : q \in named}
            <7>1. PICK q \in named : f = history[q]
              BY <6>3
            <7>2. f.object.rv = q /\ q \in DOMAIN history /\ s.after < q
              BY <7>1, <2>2, <2>3
            <7>3. q \in U
              BY <7>1, <7>2 DEF Owed
            <7> QED BY <7>2, <7>3, <6>1, <5>1
          <6> QED BY <6>2, <6>3, <2>8 DEF Owed
        <5> QED BY <5>4, <5>5, <5>6
      <4>4. CASE U = {}
        <5>1. \A r \in DOMAIN history : r > s.after => history[r].key # k
          <6> SUFFICES ASSUME NEW r \in DOMAIN history, r > s.after PROVE history[r].key # k
            OBVIOUS
          <6>1. r \in Nat
            BY <1>0
          <6>2. CASE r > x
            BY <6>2, <4>1
          <6>3. CASE r <= x
            BY <6>3, <4>4
          <6> QED BY <6>1, <6>2, <6>3, <3>0
        <5>2. Unfetched(k, s.after) = {}
          BY <5>1 DEF Unfetched
        <5>3. KnowsKey(w, s.after, k)
          <6>1. s.after \in Positions(w)
            BY <1>0, <1>1 DEF Positions
          <6> QED BY <6>1, <1>4 DEF StreamInv, Knows
        <5>4. Owed(s, k, s.after) = {f \in Flight(s) : f.key = k}
          BY <1>1 DEF Owed
        <5>5. Owed(t, k, x) = {f \in Flight(s) : f.key = k}
          <6>1. \A r \in named : history[r].key # k
            BY <5>1, <2>2
          <6>2. \A f \in Flight(s) : f.object.rv <= x
            BY <1>0, <1>1, <3>0, <3>2, FlightEvents
          <6> QED BY <6>1, <6>2, <2>8 DEF Owed
        <5> QED BY <5>2, <5>3, <5>4, <5>5 DEF KnowsKey
      <4> QED BY <4>3, <4>4
    <3> QED BY <3>0, <3>1, <3>2, <1>0
  <2>14. ASSUME NEW x \in Positions(w)' PROVE Knows(w, x)'
    <3>1. x \in cursor[w] .. last
      BY <1>0, <2>4, <2>6 DEF Positions
    <3>2. \A k : /\ Unfetched(k, x)' = Unfetched(k, x)
                 /\ view'[w][k] = view[w][k] /\ objects'[k] = objects[k]
                 /\ Owed(stream[w], k, x)' = Owed(t, k, x)
      BY <1>0, <2>10 DEF Unfetched, Owed, table
    <3>3. stream'[w].keys = s.keys /\ floor' = floor
      BY <1>0, <2>4, <2>6 DEF table
    <3> SUFFICES ASSUME x >= floor, NEW k \in s.keys PROVE KnowsKey(w, x, k)'
      BY <3>3 DEF Knows
    <3> QED BY <3>1, <3>2, <2>13 DEF KnowsKey
  <2>15. \A v \in Watchers \ {w} : Untouched(v)
    BY <1>0, <2>1 DEF Untouched, WatchTypeOK
  <2> QED BY <2>7, <2>10, <2>12, <2>14, <2>15 DEF StreamInv
<1> QED BY <1>3, <1>4 DEF Fetch

\* A transaction: a key it writes gets an event after every position of every
\* stream, and compaction only removes events at or below the new floor.
LEMMA CommitKeepsStreams ==
    ASSUME TableInv, WatchTypeOK, NEW w \in Watchers, StreamInv(w),
           NEW events, LegalTx(events), Commit(events), UNCHANGED watchVars
    PROVE  StreamInv(w)'
<1>0. /\ stream' = stream /\ view' = view /\ cursor' = cursor
      /\ rv \in Nat /\ floor \in Nat /\ DOMAIN history \subseteq Nat
      /\ DOMAIN history = floor + 1 .. rv
      /\ cursor[w] \in Nat /\ stream[w].after \in Nat
      /\ stream[w].keys \subseteq Keys
  BY StreamFields DEF watchVars, TableInv, StoreInv, StoreTypeOK, HistoryCoversReplay
<1>1. /\ Len(events) \in Nat
      /\ rv' = rv + Len(events)
      /\ floor' \in Nat /\ floor <= floor' /\ floor' <= rv'
      /\ DOMAIN history' = floor' + 1 .. rv'
      /\ \A r \in DOMAIN history' :
            \/ /\ r \in DOMAIN history /\ r <= rv
               /\ history'[r] = history[r]
            \/ /\ r > rv /\ r - rv \in 1..Len(events)
               /\ history'[r] = events[r - rv]
  BY CommitTables DEF TableInv, StoreInv
<1>2. InOrder(stream[w])'
  BY <1>0 DEF StreamInv, InOrder, Sent
<1>3. AheadOfClient(w)'
  <2>1. Flight(stream[w])' = Flight(stream[w])
    BY <1>0 DEF Flight, Sent
  <2>2. cursor[w] <= rv' /\ (stream[w].after <= rv => stream[w].after <= rv')
    BY <1>0, <1>1 DEF StreamInv, AheadOfClient
  <2> QED BY <1>0, <2>1, <2>2 DEF StreamInv, AheadOfClient
<1>4. ASSUME NEW x \in Positions(w)' PROVE Knows(w, x)'
  <2>1. x \in Positions(w) /\ x \in Nat /\ x <= rv
    BY <1>0 DEF Positions, StreamInv, AheadOfClient
  <2>2. Knows(w, x)
    BY <2>1 DEF StreamInv
  <2> SUFFICES ASSUME x >= floor', NEW k \in stream[w].keys PROVE KnowsKey(w, x, k)'
    BY <1>0 DEF Knows
  <2>3. x >= floor /\ k \in Keys
    BY <1>0, <1>1, <2>1
  <2>4. KnowsKey(w, x, k)
    BY <2>2, <2>3 DEF Knows
  <2>5. CASE \E i \in 1..Len(events) : events[i].key = k
    <3>1. PICK i \in 1..Len(events) : events[i].key = k
      BY <2>5
    <3> DEFINE r == rv + i
    <3>2. r \in DOMAIN history' /\ r > x /\ r > rv /\ r - rv = i
      <4>1. i \in Nat /\ 0 < i /\ i <= Len(events) /\ floor' <= x
        BY <1>1, <3>1
      <4>2. r > rv /\ r > x /\ r - rv = i /\ r <= rv' /\ r \in Nat /\ r > floor'
        BY <1>0, <1>1, <2>1, <4>1
      <4>3. r \in floor' + 1 .. rv'
        BY <1>0, <1>1, <4>2
      <4> QED BY <4>2, <4>3, <1>1
    <3>3. history'[r] = events[i]
      <4>1. \/ r <= rv
            \/ r > rv /\ history'[r] = events[r - rv]
        BY <1>1, <3>2
      <4>2. ~(r <= rv) /\ r - rv = i
        BY <1>0, <3>1, <3>2
      <4> HIDE DEF r
      <4> QED BY <4>1, <4>2
    <3>4. r \in Unfetched(k, x)'
      BY <3>1, <3>2, <3>3 DEF Unfetched
    <3> QED BY <3>4 DEF KnowsKey
  <2>6. CASE \A i \in 1..Len(events) : events[i].key # k
    <3>1. objects'[k] = objects[k]
      BY <2>3, <2>6, CommitRows
    <3>2. CASE Unfetched(k, x) # {}
      <4>1. PICK r \in DOMAIN history : r > x /\ history[r].key = k
        BY <3>2 DEF Unfetched
      <4>2. r \in DOMAIN history' /\ r <= rv /\ r \in Nat
        BY <4>1, <1>0, <1>1, <2>1
      <4>3. history'[r] = history[r]
        BY <4>2, <1>0, <1>1
      <4>4. r \in Unfetched(k, x)'
        BY <4>1, <4>2, <4>3 DEF Unfetched
      <4> QED BY <4>4 DEF KnowsKey
    <3>3. CASE Unfetched(k, x) = {}
      <4>1. Owed(stream[w], k, x)' = Owed(stream[w], k, x)
        BY <1>0 DEF Owed, Flight, Sent
      <4> QED BY <4>1, <3>1, <3>3, <2>4, <1>0 DEF KnowsKey
    <3> QED BY <3>2, <3>3
  <2> QED BY <2>5, <2>6
<1> QED BY <1>2, <1>3, <1>4 DEF StreamInv

\* At the start no stream is open, and a cursor from an older server is below
\* the floor.
LEMMA WatchInitEstablishes ==
    ASSUME WatchInit
    PROVE  WatchInv
<1>1. PICK keys \in Filters : stream = [w \in Watchers |-> Closed(keys)]
  BY DEF WatchInit
<1>2. /\ rv \in Nat /\ floor = rv
      /\ view = [w \in Watchers |-> [k \in Keys |-> NoObject]]
      /\ cursor \in [Watchers -> {c \in 0..LegacyRv : c = 0 \/ c < rv}]
  BY StoreAssumption DEF WatchInit, StoreInit
<1>3. /\ Closed(keys) \in Stream
      /\ Closed(keys).pending = {} /\ Closed(keys).chan = <<>> /\ Closed(keys).task = "none"
  BY DEF Closed, Stream
<1>4. \A w \in Watchers : cursor[w] \in Nat /\ (cursor[w] = 0 \/ cursor[w] < rv)
  BY <1>2, StoreAssumption
<1>5. WatchTypeOK
  BY <1>1, <1>2, <1>3, <1>4 DEF WatchTypeOK
<1>6. ASSUME NEW w \in Watchers PROVE StreamInv(w)
  <2>1. stream[w] = Closed(keys)
    BY <1>1
  <2>2. Flight(stream[w]) = {}
    BY <2>1, <1>3 DEF Flight, Sent
  <2>3. InOrder(stream[w])
    BY <2>1, <1>3 DEF InOrder, Sent
  <2>4. AheadOfClient(w)
    BY <2>1, <2>2, <1>2, <1>3, <1>4 DEF AheadOfClient
  <2>5. \A x \in Positions(w) : ~(x >= floor)
    BY <2>1, <1>2, <1>3, <1>4 DEF Positions
  <2> QED BY <2>3, <2>4, <2>5 DEF StreamInv, Knows
<1> QED BY <1>5, <1>6 DEF WatchInv

\* One watcher's step keeps the invariant of all, if it keeps its own.
LEMMA OthersKeep ==
    ASSUME WatchInv, NEW w \in Watchers, UNCHANGED storeVars,
           WatchTypeOK', StreamInv(w)', \A v \in Watchers \ {w} : Untouched(v)
    PROVE  WatchInv'
<1>1. UNCHANGED table
  BY DEF storeVars, table
<1>2. ASSUME NEW v \in Watchers \ {w} PROVE StreamInv(v)'
  BY <1>1, <1>2, UntouchedKeeps DEF WatchInv
<1> QED BY <1>2 DEF WatchInv

\* Every step keeps the invariant, and moves a cursor only forward or to zero.
LEMMA WatchStep ==
    ASSUME TableInv, WatchInv, [WatchNext]_vars
    PROVE  /\ WatchInv'
           /\ \A w \in Watchers : cursor'[w] \in {0, cursor[w]} \/ cursor'[w] > cursor[w]
<1>1. CASE StoreNext /\ UNCHANGED watchVars
  <2>1. WatchTypeOK'
    BY <1>1 DEF watchVars, WatchInv, WatchTypeOK
  <2>2. \A w \in Watchers : cursor'[w] = cursor[w]
    BY <1>1 DEF watchVars
  <2>3. CASE UNCHANGED table
    <3>1. \A w \in Watchers : Untouched(w)
      BY <1>1 DEF watchVars, Untouched
    <3> QED BY <2>1, <2>2, <2>3, <3>1, UntouchedKeeps DEF WatchInv
  <2>4. CASE \E events : LegalTx(events) /\ Commit(events)
    BY <1>1, <2>1, <2>2, <2>4, CommitKeepsStreams DEF WatchInv
  <2> QED BY <1>1, <2>3, <2>4, NextCommits DEF TableInv
<1>2. ASSUME NEW w \in Watchers,
             \/ \E keys \in Filters : WatchSnapshot(w, keys)
             \/ WatchResume(w)
             \/ Deliver(w)
             \/ Disconnect(w)
      PROVE  /\ WatchInv'
             /\ \A v \in Watchers : cursor'[v] \in {0, cursor[v]} \/ cursor'[v] > cursor[v]
  <2>0. WatchTypeOK /\ StreamInv(w)
    BY DEF WatchInv
  <2>1. UNCHANGED storeVars
    BY <1>2 DEF WatchSnapshot, WatchResume, Deliver, Fetch, Send, Receive, Disconnect
  <2>2. /\ WatchTypeOK' /\ StreamInv(w)'
        /\ \A v \in Watchers \ {w} : Untouched(v)
    BY <1>2, <2>0, SnapshotKeeps, ResumeKeeps, FetchKeeps, SendKeeps, ReceiveKeeps,
       DisconnectKeeps DEF Deliver
  <2>3. cursor'[w] \in {0, cursor[w]} \/ cursor'[w] > cursor[w]
    <3>1. CASE \E keys \in Filters : WatchSnapshot(w, keys)
      BY <3>1, <2>0 DEF WatchSnapshot, WatchTypeOK
    <3>2. CASE Receive(w)
      BY <3>2, <2>0, ReceiveKeeps
    <3>3. CASE cursor' = cursor
      BY <3>3
    <3> QED BY <1>2, <3>1, <3>2, <3>3 DEF Deliver, WatchResume, Fetch, Send, Disconnect
  <2>4. \A v \in Watchers \ {w} : cursor'[v] = cursor[v]
    BY <2>2 DEF Untouched
  <2>5. WatchInv'
    BY <2>1, <2>2, OthersKeep
  <2> QED BY <2>3, <2>4, <2>5
<1>3. CASE UNCHANGED vars
  <2>1. UNCHANGED table /\ \A w \in Watchers : Untouched(w)
    BY <1>3 DEF vars, storeVars, watchVars, table, Untouched
  <2>2. WatchTypeOK'
    BY <1>3 DEF vars, watchVars, WatchInv, WatchTypeOK
  <2>3. \A w \in Watchers : cursor'[w] = cursor[w]
    BY <2>1 DEF Untouched
  <2> QED BY <2>1, <2>2, <2>3, UntouchedKeeps DEF WatchInv
<1> QED BY <1>1, <1>2, <1>3 DEF WatchNext

-----------------------------------------------------------------------------
(* Theorems *)

\* The server with its streams is still the store: no step of a stream writes
\* to the tables, so every theorem about StoreSpec holds under watchers too.
THEOREM WatchImplementsStore == WatchSpec => StoreSpec
<1>1. WatchInit => StoreInit
  BY DEF WatchInit
<1>2. [WatchNext]_vars => [StoreNext]_storeVars
  BY DEF WatchNext, WatchSnapshot, WatchResume, Deliver, Fetch, Send, Receive, Disconnect,
         vars
<1> QED BY <1>1, <1>2, PTL DEF WatchSpec, StoreSpec

\* The invariant holds whatever writers, compaction, batches and cuts do.
THEOREM WatchInvHolds == WatchSpec => []WatchInv
<1>1. WatchSpec => []TableInv
  <2>1. StoreInv /\ HistoryAgreesWithObjects => TableInv
    BY DEF TableInv
  <2> QED BY <2>1, WatchImplementsStore, StoreInvHolds, HistoryEndsInObjects, PTL
<1>2. WatchInit => WatchInv
  BY WatchInitEstablishes
<1>3. TableInv /\ WatchInv /\ [WatchNext]_vars => WatchInv'
  BY WatchStep
<1> QED BY <1>1, <1>2, <1>3, PTL DEF WatchSpec

\* The streams, the clients' copies and their cursors keep their types.
THEOREM WatchTypeCorrect == WatchSpec => []WatchTypeOK
<1>1. WatchInv => WatchTypeOK
  BY DEF WatchInv
<1> QED BY <1>1, WatchInvHolds, PTL

\* A live stream that has not expired owes its client the current row of every
\* key it names, or the client holds it: nothing is lost between the snapshot,
\* the batches of events_after and the channel.
THEOREM StreamsConverge == WatchSpec => []StreamConverges
<1>1. ASSUME WatchInv PROVE StreamConverges
  <2> SUFFICES ASSUME NEW w \in Watchers, stream[w].task = "live", stream[w].after >= floor,
                      NEW k \in stream[w].keys
               PROVE  \/ Unfetched(k, stream[w].after) # {}
                      \/ LastOwed(stream[w], k, objects[k])
                      \/ OwesNothing(stream[w], k) /\ view[w][k] = objects[k]
    BY DEF StreamConverges
  <2> DEFINE s == stream[w]
  <2>0. /\ WatchTypeOK /\ StreamInv(w)
        /\ cursor[w] \in Nat /\ s.after \in Nat /\ cursor[w] <= s.after
        /\ \A f \in Flight(s) : f.object.rv <= s.after
        /\ s.chan \in Seq(Item) /\ s.pending \subseteq Item
    BY <1>1, StreamFields DEF WatchInv, StreamInv, AheadOfClient
  <2>1. KnowsKey(w, s.after, k)
    <3>1. s.after \in Positions(w)
      BY <2>0 DEF Positions
    <3> QED BY <3>1, <2>0 DEF StreamInv, Knows
  <2>2. \A f : f \in Owed(s, k, s.after) <=> (f \in s.pending \cup Sent(s) /\ About(f, k))
    BY <2>0 DEF Owed, Flight, About
  <2>3. CASE Owed(s, k, s.after) = {} /\ view[w][k] = objects[k]
    BY <2>2, <2>3 DEF OwesNothing, Sent
  <2>4. CASE \E e \in Owed(s, k, s.after) :
               /\ Row(e) = objects[k]
               /\ \A f \in Owed(s, k, s.after) : f.object.rv <= e.object.rv
    <3>1. PICK e \in Owed(s, k, s.after) :
               /\ Row(e) = objects[k]
               /\ \A f \in Owed(s, k, s.after) : f.object.rv <= e.object.rv
      BY <2>4
    <3>2. About(e, k) /\ e # Expired
      BY <3>1, <2>2 DEF About
    <3>3. \A f \in Owed(s, k, s.after) : f.object.rv \in Nat
      BY <2>0, FlightEvents DEF Owed
    <3>4. CASE e \in s.pending
      BY <3>1, <3>2, <3>4, <2>2 DEF LastOwed
    <3>5. CASE e \in Sent(s)
      <4>1. ASSUME NEW f \in s.pending PROVE ~About(f, k)
        <5> SUFFICES ASSUME About(f, k) PROVE FALSE
          OBVIOUS
        <5>1. f \in Owed(s, k, s.after) /\ f # Expired
          BY <2>2 DEF About
        <5>2. e.object.rv < f.object.rv
          BY <5>1, <3>2, <3>5, <2>0 DEF StreamInv, InOrder
        <5> QED BY <5>1, <5>2, <3>1, <3>3
      <4>2. PICK i \in 1..Len(s.chan) : e = s.chan[i]
        BY <3>5 DEF Sent
      <4>3. ASSUME NEW n \in i + 1 .. Len(s.chan) PROVE ~About(s.chan[n], k)
        <5> SUFFICES ASSUME About(s.chan[n], k) PROVE FALSE
          OBVIOUS
        <5>0. n \in 1..Len(s.chan) /\ i < n
          BY <2>0
        <5>1. s.chan[n] \in Owed(s, k, s.after) /\ s.chan[n] # Expired
          BY <5>0, <2>2 DEF About, Sent
        <5>2. e.object.rv < s.chan[n].object.rv
          BY <5>0, <5>1, <4>2, <3>2, <2>0 DEF StreamInv, InOrder
        <5> QED BY <5>1, <5>2, <3>1, <3>3
      <4> QED BY <4>1, <4>2, <4>3, <3>1, <3>2 DEF LastOwed
    <3> QED BY <3>4, <3>5, <2>2
  <2> QED BY <2>1, <2>3, <2>4 DEF KnowsKey
<1> QED BY <1>1, WatchInvHolds, PTL

\* A client that was cut off at any point may resume from its cursor.
THEOREM ResumesLoseNothing == WatchSpec => []ResumeLosesNothing
<1>1. ASSUME WatchInv PROVE ResumeLosesNothing
  <2> SUFFICES ASSUME NEW w \in Watchers, cursor[w] > 0, cursor[w] >= floor,
                      NEW k \in stream[w].keys
               PROVE  Unfetched(k, cursor[w]) # {} \/ view[w][k] = objects[k]
    BY DEF ResumeLosesNothing
  <2>1. WatchTypeOK /\ StreamInv(w) /\ cursor[w] \in Nat /\ stream[w].after \in Nat
    BY <1>1, StreamFields DEF WatchInv
  <2>2. cursor[w] \in Positions(w)
    BY <2>1 DEF Positions, StreamInv, AheadOfClient
  <2>3. KnowsKey(w, cursor[w], k)
    BY <2>1, <2>2 DEF StreamInv, Knows
  <2>4. Owed(stream[w], k, cursor[w]) = {}
    BY <2>1, FlightEvents DEF Owed, StreamInv, AheadOfClient
  <2> QED BY <2>3, <2>4 DEF KnowsKey
<1> QED BY <1>1, WatchInvHolds, PTL

\* One client sees ascending revisions, across snapshot, replay and resume.
THEOREM RevisionsAlwaysAscend == WatchSpec => RevisionsAscend
<1>1. WatchSpec => []TableInv
  <2>1. StoreInv /\ HistoryAgreesWithObjects => TableInv
    BY DEF TableInv
  <2> QED BY <2>1, WatchImplementsStore, StoreInvHolds, HistoryEndsInObjects, PTL
<1>2. TableInv /\ WatchInv /\ [WatchNext]_vars =>
        [\A w \in Watchers : cursor'[w] \in {0, cursor[w]} \/ cursor'[w] > cursor[w]]_vars
  BY WatchStep
<1> QED BY <1>1, <1>2, WatchInvHolds, PTL DEF WatchSpec, RevisionsAscend
=============================================================================
