------------------------------- MODULE Grabber -------------------------------
(***************************************************************************)
(* The inventory worker and the *arr apps of the seedbox: reading the      *)
(* import queues for Holds, carrying out rejections, and unmonitoring what *)
(* the library has.  Queues are read page by page while they change, apps  *)
(* and their key files come and go, and every call may fail or lose its    *)
(* answer.                                                                 *)
(***************************************************************************)
EXTENDS Integers, Sequences, FiniteSets

CONSTANTS
    Apps,         \* the apps, in the order they are asked
    AppOf,        \* Title -> the app that owns it
    Releases,     \* hold keys: records with a field title
    Packs,        \* releases the queue shows as two records
    Titles, Series, \* movies and albums; series
    PageSize, MaxPages, \* paged_inner: 200 records, 100 pages
    KeysVanish,   \* whether a key file may be missing for a while
    MaxEvents, MaxFaults, \* bounds: steps of the box and the operator; failed calls
    None

VARIABLES
    queue,    \* app -> sequence of [id, key], the records that are importBlocked
    next,     \* app -> last record id it gave
    came,     \* releases that were ever queued
    removed,  \* releases an app removed from its client and blocklisted
    keyfile,  \* app -> ok | none | bad
    up,       \* apps that answer
    hold,     \* release -> None or [decision, observed, rv]
    meant,    \* releases whose Hold was Rejected at some time
    monitored,\* Titles the apps look for
    copy,     \* Title -> good | drifted | none, at home
    had,      \* Titles that had a good copy since the scan looked
    scan,     \* the scan of the inventory worker
    events, faults

vars == <<queue, next, came, removed, keyfile, up, hold, meant, monitored, copy, had, scan, events, faults>>
Box == <<queue, next, came, removed, keyfile, up>>
Home == <<hold, meant, monitored, copy, had>>

AppSet == {Apps[i] : i \in DOMAIN Apps}

\* One scan: what it does, the app and page it is at, the keys it discovered;
\* thin is an observer: apps whose queue the listing may have seen in part only.
Idle == [pc |-> "idle", app |-> 1, page |-> 1, keys |-> {}, acc |-> <<>>, live |-> {}, todo |-> {},
         key |-> None, hit |-> FALSE, wanted |-> {}, answered |-> 0, elig |-> {}, thin |-> {}]

GrabberInit ==
    /\ queue = [a \in AppSet |-> <<>>] /\ next = [a \in AppSet |-> 0]
    /\ came = {} /\ removed = {}
    /\ keyfile = [a \in AppSet |-> "ok"] /\ up = AppSet
    /\ hold = [k \in Releases |-> None] /\ meant = {}
    /\ monitored = Titles \cup Series
    /\ copy \in [Titles \cup Series -> {"good", "drifted", "none"}] /\ had = {}
    /\ scan = Idle /\ events = 0 /\ faults = 0

---------------------------------------------------------------------------
(* Calls                                                                   *)

At(pc) == scan.pc = pc

\* refresh returns the error; the loop logs it and sleeps.
Abandon == scan' = Idle

\* discover_keys: a missing file or an empty tag is an app without a key, a masked
\* key or an unreadable file fails the call.
Discovers == \A a \in AppSet : keyfile[a] # "bad"
Keyed == {a \in AppSet : keyfile[a] = "ok"}

App == Apps[scan.app]
OverApps == scan.app > Len(Apps)

\* A call that asks the apps one after the other, from the first.
Ask(s) == [s EXCEPT !.app = 1, !.page = 1, !.keys = Keyed, !.acc = <<>>]
AskNext(s) == [s EXCEPT !.app = @ + 1, !.page = 1, !.acc = <<>>]

Page(q) == SubSeq(q, (scan.page - 1) * PageSize + 1,
                  IF scan.page * PageSize < Len(q) THEN scan.page * PageSize ELSE Len(q))
Walked == scan.acc \o Page(queue[App])

\* paged_inner ends with an empty page or when it has totalRecords of this page.
LastPage == Page(queue[App]) = <<>> \/ Len(Walked) >= Len(queue[App])

\* One GET of the queue; Then says what is done with the records of all pages.
ReadPage(Then) ==
    IF App \notin up THEN Abandon
    ELSE IF LastPage THEN scan' = Then
    ELSE IF scan.page = MaxPages THEN Abandon
    ELSE scan' = [scan EXCEPT !.page = @ + 1, !.acc = Walked]

KeysIn(records) == {records[i].key : i \in DOMAIN records}

---------------------------------------------------------------------------
(* The scan                                                                *)

\* The listing of the files is SyncRequest's; then hold_list.
StartScan ==
    /\ At("idle")
    /\ IF Discovers THEN scan' = Ask([Idle EXCEPT !.pc = "list"]) ELSE Abandon
    /\ UNCHANGED <<Box, Home, events, faults>>

\* hold_list: the blocked records of every app with a key; one that fails fails all.
ListHolds ==
    /\ At("list")
    /\ IF OverApps THEN scan' = [scan EXCEPT !.pc = "reconcile"]
       ELSE IF App \notin scan.keys THEN scan' = AskNext([scan EXCEPT !.thin = @ \cup {App}])
       ELSE ReadPage(AskNext([scan EXCEPT !.live = @ \cup KeysIn(Walked)]))
    /\ UNCHANGED <<Box, Home, events, faults>>

\* reconcile_rejections lists the Holds once: Rejected and not observed, as they are.
ListRejections ==
    /\ At("reconcile")
    /\ scan' = [scan EXCEPT !.pc = "next",
           !.todo = {<<k, hold[k].rv>> : k \in {r \in Releases : IF hold[r] = None THEN FALSE
                                                 ELSE hold[r].decision = "rejected" /\ ~hold[r].observed}}]
    /\ UNCHANGED <<Box, Home, events, faults>>

\* The next one: reject it when the listing has it, else only acknowledge.
NextRejection ==
    /\ At("next")
    /\ IF scan.todo = {} THEN scan' = [scan EXCEPT !.pc = "publish"]
       ELSE \E t \in scan.todo :
            LET s == [scan EXCEPT !.todo = @ \ {t}, !.key = t, !.hit = FALSE] IN
            IF t[1] \notin scan.live THEN scan' = [s EXCEPT !.pc = "ack"]
            ELSE IF Discovers THEN scan' = Ask([s EXCEPT !.pc = "reject"]) ELSE Abandon
    /\ UNCHANGED <<Box, Home, events, faults>>

\* hold_reject_queue: the record's key, title and release.
Matches(record) == record.key = scan.key[1]

\* hold_reject asks the apps again until one had the release; none is an error.
RejectIn ==
    /\ At("reject")
    /\ IF OverApps THEN Abandon
       ELSE IF App \notin scan.keys THEN scan' = AskNext(scan)
       ELSE ReadPage([scan EXCEPT !.pc = "delete", !.acc = SelectSeq(Walked, Matches)])
    /\ UNCHANGED <<Box, Home, events, faults>>

Without(q, id) == SelectSeq(q, LAMBDA r : r.id # id)

\* DELETE queue/{id}?removeFromClient=true&blocklist=true of each; 404 is an error.
DeleteRecord ==
    /\ At("delete") /\ scan.acc # <<>>
    /\ LET r == Head(scan.acc) IN
       IF App \notin up \/ r \notin {queue[App][i] : i \in DOMAIN queue[App]}
       THEN Abandon /\ UNCHANGED <<queue, removed, faults>>
       ELSE /\ queue' = [queue EXCEPT ![App] = Without(@, r.id)]
            /\ removed' = removed \cup {r.key}
            /\ \/ scan' = [scan EXCEPT !.acc = Tail(@), !.hit = TRUE] /\ UNCHANGED faults
               \/ faults < MaxFaults /\ faults' = faults + 1 /\ Abandon
    /\ UNCHANGED <<next, came, keyfile, up, Home, events>>

\* All records of this app are done: the next app, unless this one had the release.
Deleted ==
    /\ At("delete") /\ scan.acc = <<>>
    /\ scan' = IF scan.hit THEN [scan EXCEPT !.pc = "ack"] ELSE AskNext([scan EXCEPT !.pc = "reject"])
    /\ UNCHANGED <<Box, Home, events, faults>>

\* rejection_observed, in the Hold as it was listed; a Hold changed since is a conflict.
Acknowledge ==
    /\ At("ack")
    /\ LET k == scan.key[1] IN
       IF hold[k].rv # scan.key[2] THEN Abandon /\ UNCHANGED hold
       ELSE /\ hold' = [hold EXCEPT ![k].observed = TRUE, ![k].rv = @ + 1]
            /\ scan' = [scan EXCEPT !.pc = "next"]
    /\ UNCHANGED <<Box, meant, monitored, copy, had, events, faults>>

\* publish_inventory: live Holds are created undecided, or kept; then the listing is
\* committed and wanted_missing is asked for, if its keys can be read.
Publish ==
    /\ At("publish")
    /\ hold' = [k \in Releases |-> IF k \in scan.live /\ hold[k] = None
                                   THEN [decision |-> "empty", observed |-> FALSE, rv |-> 0] ELSE hold[k]]
    /\ IF Discovers THEN scan' = Ask([Idle EXCEPT !.pc = "wanted"]) ELSE Abandon
    /\ UNCHANGED <<Box, meant, monitored, copy, had, events, faults>>

\* wanted/missing of an app: its monitored Titles, by either of their identities.
WantedOf(a) == {t \in monitored : AppOf[t] = a}

\* wanted_missing: the apps that fail are left out, unless all do.
Wanted ==
    /\ At("wanted") /\ ~OverApps
    /\ scan' = AskNext(IF App \in scan.keys \cap up
                       THEN [scan EXCEPT !.wanted = @ \cup WantedOf(App), !.answered = @ + 1]
                       ELSE scan)
    /\ UNCHANGED <<Box, Home, events, faults>>

\* Mutant of Eligible: any file will do.
EligibleObserved(t) == t \notin Series /\ t \in scan.wanted /\ copy[t] # "none"

\* eligible_title_ids: wanted, not a series, with a proven file that is on disk.
Eligible(t) == t \notin Series /\ t \in scan.wanted /\ copy[t] = "good"

ChooseEligible ==
    /\ At("wanted") /\ OverApps
    /\ IF scan.keys # {} /\ scan.answered = 0 THEN Abandon
       ELSE scan' = [scan EXCEPT !.pc = "unmonitor", !.elig = {t \in Titles \cup Series : Eligible(t)}]
    /\ had' = {t \in Titles \cup Series : copy[t] = "good"}
    /\ UNCHANGED <<Box, hold, meant, monitored, copy, events, faults>>

\* unmonitor walks wanted/missing of the owning app; without a key, or when the Title
\* is no longer there, nothing is left to do; an error is logged and left to the next scan.
FindParent ==
    /\ At("unmonitor")
    /\ IF scan.elig = {} THEN Abandon
       ELSE \E t \in scan.elig :
            scan' = IF Discovers /\ AppOf[t] \in Keyed \cap up /\ t \in WantedOf(AppOf[t])
                    THEN [scan EXCEPT !.elig = @ \ {t}, !.pc = "put", !.wanted = {t}] ELSE [scan EXCEPT !.elig = @ \ {t}]
    /\ UNCHANGED <<Box, Home, events, faults>>

\* unmonitor_doc: GET of the parent, PUT of it unmonitored.
PutParent ==
    /\ At("put")
    /\ monitored' = {t \in monitored : t \notin scan.wanted \/ AppOf[t] \notin up}
    /\ scan' = [scan EXCEPT !.pc = "unmonitor"]
    /\ UNCHANGED <<Box, hold, meant, copy, had, events, faults>>

ScanStep ==
    \/ StartScan \/ ListHolds \/ ListRejections \/ NextRejection \/ RejectIn \/ DeleteRecord \/ Deleted
    \/ Acknowledge \/ Publish \/ Wanted \/ ChooseEligible \/ FindParent \/ PutParent

\* Any call fails, or its answer is lost, or the worker restarts.
Fail ==
    /\ ~At("idle") /\ faults < MaxFaults /\ faults' = faults + 1
    /\ \/ UNCHANGED hold
       \/ IF At("ack") THEN hold[scan.key[1]].rv = scan.key[2]
                            /\ hold' = [hold EXCEPT ![scan.key[1]].observed = TRUE, ![scan.key[1]].rv = @ + 1]
          ELSE FALSE
    /\ Abandon
    /\ UNCHANGED <<Box, meant, monitored, copy, had, events>>

---------------------------------------------------------------------------
(* The box and the operator                                                *)

Event == events < MaxEvents /\ events' = events + 1

\* A download ends and its import is blocked; a pack has a record per episode.
Block ==
    /\ Event
    /\ \E k \in Releases \ came :
           LET a == AppOf[k.title]
               n == IF k \in Packs THEN 2 ELSE 1 IN
           /\ came' = came \cup {k} /\ next' = [next EXCEPT ![a] = @ + n]
           /\ queue' = [queue EXCEPT ![a] = @ \o [i \in 1..n |-> [id |-> next[a] + i, key |-> k]]]
    /\ UNCHANGED <<removed, keyfile, up, Home, scan, faults>>

\* A record leaves: imported by hand, or its download is no longer in the client.
Leave ==
    /\ \E a \in AppSet : \E i \in DOMAIN queue[a] :
           /\ IF queue[a][i].key \in removed THEN UNCHANGED events ELSE Event
           /\ queue' = [queue EXCEPT ![a] = Without(@, queue[a][i].id)]
           /\ scan' = IF At("list") /\ scan.page > 1 /\ App = a
                      THEN [scan EXCEPT !.thin = @ \cup {a}] ELSE scan
    /\ UNCHANGED <<next, came, removed, keyfile, up, Home, faults>>

Decide ==
    /\ Event
    /\ \E k \in {r \in Releases : hold[r] # None}, d \in {"approved", "rejected"} :
           /\ hold[k].decision # d
           /\ hold' = [hold EXCEPT ![k].decision = d, ![k].rv = @ + 1]
           /\ meant' = IF d = "rejected" THEN meant \cup {k} ELSE meant
    /\ UNCHANGED <<Box, monitored, copy, had, scan, faults>>

\* An app stops or starts; its config.xml is replaced.
AppChanges ==
    /\ Event
    /\ \E a \in AppSet :
           \/ up' = (IF a \in up THEN up \ {a} ELSE up \cup {a}) /\ UNCHANGED keyfile
           \/ \E f \in {"ok", "bad"} \cup (IF KeysVanish THEN {"none"} ELSE {}) :
                  f # keyfile[a] /\ keyfile' = [keyfile EXCEPT ![a] = f] /\ UNCHANGED up
    /\ UNCHANGED <<queue, next, came, removed, Home, scan, faults>>

\* A pull or a decayed file; a Title is monitored again.
LibraryChanges ==
    /\ Event
    /\ \/ \E t \in Titles \cup Series, c \in {"good", "drifted"} :
              /\ copy[t] # c /\ copy' = [copy EXCEPT ![t] = c]
              /\ had' = IF c = "good" THEN had \cup {t} ELSE had
              /\ UNCHANGED monitored
       \/ \E t \in (Titles \cup Series) \ monitored : monitored' = monitored \cup {t} /\ UNCHANGED <<copy, had>>
    /\ UNCHANGED <<Box, hold, meant, scan, faults>>

GrabberNext == ScanStep \/ Fail \/ Block \/ Leave \/ Decide \/ AppChanges \/ LibraryChanges

Spec == GrabberInit /\ [][GrabberNext]_vars

\* The worker's loop goes on; an app drops the records of downloads that are gone.
LiveSpec == Spec /\ WF_vars(ScanStep)

---------------------------------------------------------------------------
(* Properties                                                              *)

\* Type correctness; record ids are unique in a queue and belong to the app's releases.
GrabberTypeOK ==
    /\ \A a \in AppSet : \A i, j \in DOMAIN queue[a] :
           /\ queue[a][i].id = queue[a][j].id => i = j
           /\ AppOf[queue[a][i].key.title] = a /\ queue[a][i].id <= next[a]
    /\ \A k \in Releases : hold[k] # None => k \in came /\ hold[k].decision \in {"empty", "approved", "rejected"}
    /\ scan.live \subseteq came

Acknowledged(k) == IF hold[k] = None THEN FALSE ELSE hold[k].observed

\* "If the exact release has already disappeared, a previous rejection may have
\* succeeded": a rejection is acknowledged only for a release that it removed, or
\* that has left the queue, or that the scan's own listing could not be relied on
\* to show: the app had no key when it was asked, which counts as an empty queue,
\* or a record left between two pages and moved later ones to a page already
\* read.  In those cases the code takes a release that still waits for gone.
AcknowledgesGone ==
    \A k \in Releases : Acknowledged(k)' /\ ~Acknowledged(k) =>
        \/ k \in removed \/ k \notin KeysIn(queue[AppOf[k.title]])
        \/ AppOf[k.title] \in scan.thin

\* Only a release whose own Hold the operator rejected is removed from the client and
\* blocklisted, never another release of the same Title.
RemovedWasRejected == removed \subseteq meant

\* "present locally": a Title is unmonitored only when the library had an undrifted
\* file of it since this scan looked, and never a series.
UnmonitorsPresent ==
    \A t \in monitored \ monitored' : t \in had /\ t \notin Series

Healthy == up = AppSet /\ \A a \in AppSet : keyfile[a] = "ok"

\* A rejection that stands ends acknowledged once the apps stay up, also when records
\* of one pack vanish under the deletion of the others, or an answer was lost.
Rejected(k) == Healthy /\ (IF hold[k] = None THEN FALSE ELSE hold[k].decision = "rejected")
RejectionsLand == \A k \in Releases : <>[]Rejected(k) => <>Acknowledged(k)

\* A Title that is in the library and still wanted ends unmonitored once the apps stay up.
PresentSettles ==
    \A t \in Titles : <>[](Healthy /\ copy[t] = "good") => []<>(t \notin monitored)
===============================================================================
