----------------------------- MODULE TuiSession -----------------------------
(***************************************************************************)
(* The terminal client (bins/mediaops-tui): the subscription task that     *)
(* opens a watch, lists the objects and forwards both to the user          *)
(* interface (subscription.rs), the cache and connection state they are    *)
(* applied to (cache.rs, session.rs), and the event loop that draws it and *)
(* turns key presses into writes (runtime.rs, update.rs, actions.rs).      *)
(*                                                                         *)
(* The API server is the store of module ApiStore reduced to what a client *)
(* can see of it: objects with a uid and a revision, and the ordered log   *)
(* of their events.  There is one row for each screen that can write: the  *)
(* Want of a title, shown on Wants and on Titles, and one Hold.  A Node    *)
(* whose generation is 0 is one that is not ready.  Texts, colours,        *)
(* layout and scrolling are left out.                                      *)
(***************************************************************************)
EXTENDS Integers, Sequences, FiniteSets

CONSTANTS Keys,        \* the names in use: a subset of {"want", "hold", "node"}
          MaxRev,      \* bound on store revisions
          MaxEpoch,    \* bound on connections of the session
          ChanCap,     \* capacity of the task's event channel (64 in the code)
          Gens,        \* generations an inventory Node or Hold may carry
          KeyReleases  \* whether the terminal reports key releases

\* What an instance gives the constants.
TuiAssumption ==
    /\ Keys \subseteq {"want", "hold", "node"}
    /\ MaxRev \in Nat /\ MaxEpoch \in Nat \ {0} /\ ChanCap \in Nat \ {0}
    /\ Gens \subseteq Nat /\ KeyReleases \in BOOLEAN

VARIABLES objs,    \* the server's objects
          rev,     \* its last revision
          log,     \* its events, in revision order
          task,    \* the subscription task of the current connection
          chan,    \* events the tasks have sent and the loop has not received
          ses,     \* Session: epoch, state, cache
          ui,      \* UiModel: what the user looks at
          work,    \* the spawned prepare, submit or sync
          wire,    \* write requests the server may still serve
          dropped  \* history: uids that were on the screen and left it
vars == <<objs, rev, log, task, chan, ses, ui, work, wire, dropped>>
server == <<objs, rev, log>>

Nothing == "none"
Absent == [uid |-> 0, rv |-> 0, dec |-> "empty", gen |-> 0]
NoEntry == [obj |-> Absent, uid |-> 0, rv |-> 0, tomb |-> FALSE, epoch |-> 0]
Object(uid, rv, dec, gen) == [uid |-> uid, rv |-> rv, dec |-> dec, gen |-> gen]
Event(t, k, o) == [type |-> t, key |-> k, obj |-> o]
Target(k, o, e) == [key |-> k, uid |-> o.uid, rv |-> o.rv, epoch |-> e]
NoTarget == Target("none", Absent, 0)
Idle == [stage |-> "idle", mutation |-> Nothing, target |-> NoTarget, obj |-> Absent, result |-> Nothing]
NoTask == [pc |-> "off", epoch |-> 0, todo |-> <<>>, pos |-> 0, listed |-> [k \in Keys |-> Absent],
           seen |-> [k \in Keys |-> NoEntry], held |-> <<>>]
Uids == 0..MaxRev

-----------------------------------------------------------------------------
(* The cache *)

\* accept_revision: a tombstone stays dead, revisions never go back, and an
\* equal revision of the same object only counts when it deletes it.
AcceptRevision(e, ev) ==
    /\ ~(e.tomb /\ ev.obj.uid = e.uid)
    /\ ev.obj.rv >= e.rv
    /\ (ev.obj.rv = e.rv /\ ev.obj.uid = e.uid) => (ev.type = "deleted" /\ ~e.tomb)

Entry(ev, epoch) ==
    [obj |-> IF ev.type = "deleted" THEN Absent ELSE ev.obj, uid |-> ev.obj.uid, rv |-> ev.obj.rv,
     tomb |-> ev.type = "deleted", epoch |-> epoch]

Accepts(entries, ev) == entries[ev.key] = NoEntry \/ AcceptRevision(entries[ev.key], ev)

ApplyEvent(entries, epoch, ev) ==
    IF Accepts(entries, ev) THEN [entries EXCEPT ![ev.key] = Entry(ev, epoch)] ELSE entries

\* install_baseline: the listed objects, under the entries this epoch already has.
InstallBaseline(entries, epoch, listed) ==
    [k \in Keys |->
        LET base == IF listed[k] = Absent THEN NoEntry ELSE Entry(Event("added", k, listed[k]), epoch)
            over == entries[k]
        IN IF over.epoch = epoch /\ (base = NoEntry \/ over.rv >= base.rv) THEN over ELSE base]

Live(entries) == {k \in Keys : entries[k].obj # Absent}
Shown(entries) == {entries[k].uid : k \in Live(entries)}

\* The generation of the committed listing, 0 without a ready inventory Node.
CommittedGeneration(view) == IF "node" \in Keys THEN view["node"].gen ELSE 0
View(entries) == [k \in Keys |-> entries[k].obj]

MatchesObject(t, o) == t.uid = o.uid /\ t.rv = o.rv
\* A Want that was absent is the target with neither uid nor revision: Absent has both 0.
MatchesCache(t, s) == t.epoch = s.epoch /\ MatchesObject(t, s.entries[t.key].obj)
                         /\ (s.entries[t.key].obj = Absent => t.key = "want")

-----------------------------------------------------------------------------
(* The server: other clients write, and the requests of this one arrive *)

Commit(k, o, type) ==
    /\ rev < MaxRev
    /\ rev' = rev + 1
    /\ objs' = [objs EXCEPT ![k] = IF type = "deleted" THEN Absent ELSE o]
    /\ log' = Append(log, Event(type, k, o))

StoreCreate(k) ==
    /\ objs[k] = Absent
    /\ \E g \in Gens : Commit(k, Object(rev + 1, rev + 1, "empty", g), "added")
    /\ UNCHANGED <<task, chan, ses, ui, work, wire, dropped>>

StoreModify(k) ==
    /\ objs[k] # Absent
    /\ \E g \in Gens : Commit(k, [objs[k] EXCEPT !.rv = rev + 1, !.gen = g], "modified")
    /\ UNCHANGED <<task, chan, ses, ui, work, wire, dropped>>

StoreDelete(k) ==
    /\ objs[k] # Absent
    /\ Commit(k, [objs[k] EXCEPT !.rv = rev + 1], "deleted")
    /\ UNCHANGED <<task, chan, ses, ui, work, wire, dropped>>

\* The write a request asks for, under optimistic concurrency and admission.
Allowed(r) ==
    LET o == objs[r.target.key] IN
    CASE r.mutation = "apply"   -> o.rv = r.obj.rv
      [] r.mutation = "delete"  -> o # Absent /\ o.rv = r.obj.rv
      [] r.mutation = "approve" -> o # Absent /\ o.rv = r.obj.rv /\ o.gen = CommittedGeneration(objs) /\ o.gen > 0
      [] OTHER                  -> o # Absent /\ o.rv = r.obj.rv

Written(r) ==
    LET k == r.target.key
        o == objs[k]
    IN CASE r.mutation = "apply" /\ o = Absent -> Commit(k, Object(rev + 1, rev + 1, "empty", 0), "added")
         [] r.mutation = "apply"   -> Commit(k, [o EXCEPT !.rv = rev + 1], "modified")
         [] r.mutation = "delete"  -> Commit(k, [o EXCEPT !.rv = rev + 1], "deleted")
         [] OTHER -> Commit(k, [o EXCEPT !.rv = rev + 1, !.dec = r.mutation], "modified")

Answer(r, res) ==
    work' = IF work.stage = "submit" /\ work.target = r.target /\ work.mutation = r.mutation
            THEN [work EXCEPT !.stage = "finished", !.result = res] ELSE work

ServeWrite(r) ==
    /\ r \in wire
    /\ wire' = wire \ {r}
    /\ \/ Allowed(r) /\ Written(r) /\ Answer(r, "applied")
       \/ ~Allowed(r) /\ Answer(r, "conflict") /\ UNCHANGED server
    /\ UNCHANGED <<task, chan, ses, ui, dropped>>

\* The request never reaches the server.
LoseWrite(r) ==
    /\ r \in wire
    /\ wire' = wire \ {r}
    /\ UNCHANGED <<objs, rev, log, task, chan, ses, ui, work, dropped>>

-----------------------------------------------------------------------------
(* The subscription task *)

SessionEvent(t, listed, ev) == [type |-> t, epoch |-> task.epoch, listed |-> listed, ev |-> ev]
NoEv == Event(Nothing, Nothing, Absent)
Bare(t) == SessionEvent(t, task.listed, NoEv)
Room == Len(chan) < ChanCap
Send(e) == Room /\ chan' = Append(chan, e)
Quiet == UNCHANGED <<objs, rev, log, ses, ui, work, wire, dropped>>

Connect ==
    /\ task.pc = "connect"
    /\ task' = [task EXCEPT !.pc = "watch"]
    /\ UNCHANGED chan /\ Quiet

\* Connecting, watching, listing, resolving or the stream fails: the task
\* reports it and ends.  Only new connections fail at the bound.
TaskFails(pc, type) ==
    /\ task.pc = pc
    /\ task.epoch < MaxEpoch
    /\ Send(Bare(type))
    /\ task' = NoTask
    /\ Quiet

\* The watch is opened at revision 0: a snapshot in revision order, then the log.
Snapshot ==
    LET live == {k \in Keys : objs[k] # Absent}
    IN CHOOSE s \in [1..Cardinality(live) -> {Event("added", k, objs[k]) : k \in live}] :
         \A i, j \in DOMAIN s : i < j => s[i].obj.rv < s[j].obj.rv

OpenWatch ==
    /\ task.pc = "watch"
    /\ task' = [task EXCEPT !.pc = "list", !.todo = Snapshot, !.pos = Len(log)]
    /\ UNCHANGED chan /\ Quiet

ListObjects ==
    /\ task.pc = "list"
    /\ task' = [task EXCEPT !.pc = "announce", !.listed = objs,
                  !.seen = InstallBaseline([k \in Keys |-> NoEntry], task.epoch, objs)]
    /\ UNCHANGED chan /\ Quiet

Announce ==
    /\ task.pc = "announce"
    /\ Send(Bare("connected"))
    /\ task' = [task EXCEPT !.pc = "baseline"]
    /\ Quiet

SendBaseline ==
    /\ task.pc = "baseline"
    /\ Send(SessionEvent("baseline", task.listed, NoEv))
    /\ task' = [task EXCEPT !.pc = "stream"]
    /\ Quiet

\* A live event of a name the task has not seen is resolved by a Get first.
Resolves(ev) == ev.type # "deleted" /\ task.seen[ev.key] = NoEntry

Receive ==
    /\ task.pc = "stream"
    /\ LET replay == task.todo = <<>>
           ev == IF replay THEN log[task.pos + 1] ELSE Head(task.todo)
       IN /\ replay => task.pos < Len(log)
          /\ task' = [task EXCEPT !.pc = IF Resolves(ev) THEN "resolve" ELSE "deliver",
                        !.held = <<ev>>,
                        !.todo = IF replay THEN @ ELSE Tail(@),
                        !.pos = IF replay THEN @ + 1 ELSE @]
    /\ UNCHANGED chan /\ Quiet

Resolve ==
    /\ task.pc = "resolve"
    /\ LET ev == task.held[1]
           now == objs[ev.key]
       IN task' = [task EXCEPT !.pc = "deliver",
                     !.held = <<IF now = Absent THEN Event("deleted", ev.key, ev.obj)
                                ELSE Event("added", ev.key, now)>>]
    /\ UNCHANGED chan /\ Quiet

Deliver ==
    /\ task.pc = "deliver"
    /\ LET ev == task.held[1] IN
         IF Accepts(task.seen, ev)
         THEN Send(SessionEvent("watch", task.listed, ev))
         ELSE UNCHANGED chan
    /\ task' = [task EXCEPT !.pc = "stream", !.held = <<>>,
                  !.seen = ApplyEvent(task.seen, task.epoch, task.held[1])]
    /\ Quiet

-----------------------------------------------------------------------------
(* The session *)

Fresh(e) == [NoTask EXCEPT !.pc = "connect", !.epoch = e]

\* bootstrap: abort the old task, start one for the next epoch.
Bootstrap(s) ==
    [s EXCEPT !.epoch = @ + 1, !.failed = FALSE, !.api = FALSE,
       !.sync = IF Live(s.entries) # {} THEN "stale" ELSE "synchronizing"]

Failed(s, type) ==
    [s EXCEPT !.failed = TRUE, !.api = FALSE, !.timer = TRUE,
       !.sync = IF type = "connectFailed" /\ Live(s.entries) = {} THEN "connecting" ELSE "stale"]

WritesAllowed(s) == s.sync = "current"

\* Session::apply_event: events of another epoch or of a failed one are ignored.
Stale(s, e) == e.epoch # s.epoch \/ s.failed

Applied(s, e) ==
    IF Stale(s, e) THEN s
    ELSE CASE e.type = "connected" -> [s EXCEPT !.api = TRUE]
           [] e.type = "baseline"  -> [s EXCEPT !.entries = InstallBaseline(@, s.epoch, e.listed), !.sync = "current"]
           [] e.type = "watch"     -> [s EXCEPT !.entries = ApplyEvent(@, s.epoch, e.ev)]
           [] OTHER                -> Failed(s, e.type)

\* The loop receives one session event; a cache that may not be written clears the target.
RecvSession ==
    /\ chan # <<>>
    /\ chan' = Tail(chan)
    /\ LET e == Head(chan)
           s == Applied(ses, e)
       IN /\ ses' = s
          /\ ui' = IF WritesAllowed(s) THEN ui ELSE [ui EXCEPT !.target = NoTarget]
          /\ task' = IF s.failed /\ ~ses.failed THEN NoTask ELSE task
          /\ dropped' = dropped \cup (Shown(ses.entries) \ Shown(s.entries))
    /\ UNCHANGED <<objs, rev, log, work, wire>>

-----------------------------------------------------------------------------
(* The user interface *)

Screens == {"wants", "titles", "holds"}
KeyOf(screen) == IF screen = "holds" THEN "hold" ELSE "want"
ScreenOf == {s \in Screens : KeyOf(s) \in Keys}

\* filtered_rows: the uid of the screen's row; the row of Titles is the title itself.
Row(s, screen) == IF screen = "titles" THEN -1 ELSE s.entries[KeyOf(screen)].obj.uid
HasRow(s, screen) == Row(s, screen) # 0

Deselected(u) == [u EXCEPT !.detail = FALSE, !.target = NoTarget, !.clipped = FALSE]

\* reconcile_ui: a selection whose row is gone or another object leaves the detail view.
Reconciled(s, u) ==
    IF u.sel = Row(s, u.screen) /\ HasRow(s, u.screen) THEN u
    ELSE IF u.sel = 0 /\ HasRow(s, u.screen) THEN [u EXCEPT !.sel = Row(s, u.screen)]
         ELSE [Deselected(u) EXCEPT !.sel = Row(s, u.screen)]

Covered(u) == u.help \/ u.small

MutationsEnabled(s, u) ==
    /\ WritesAllowed(s) /\ u.detail /\ ~u.clipped /\ ~u.editing /\ ~Covered(u)
    /\ ~u.pending /\ ~u.syncing /\ ~u.report /\ u.sel # 0

SyncActionsEnabled(s, u) ==
    /\ WritesAllowed(s) /\ ~u.editing /\ ~Covered(u) /\ ~u.pending /\ ~u.syncing

\* project_ui: the target is captured from what is about to be drawn, never while a write is pending.
Projected(s, u) ==
    LET r == Reconciled(s, u)
        k == KeyOf(r.screen)
    IN IF r.pending \/ ~HasRow(s, r.screen) THEN r
       ELSE [r EXCEPT !.target = IF MutationsEnabled(s, r)
                                 THEN Target(k, s.entries[k].obj, s.epoch) ELSE NoTarget]

\* The redraw tick: a due reconnection, then the projection that is drawn.
Redraw(due) ==
    /\ due => ses.timer
    /\ LET s == IF due THEN [Bootstrap(ses) EXCEPT !.timer = FALSE]
               ELSE [ses EXCEPT !.timer = @ /\ ~WritesAllowed(ses)]
       IN /\ ses' = s
          /\ task' = IF due THEN Fresh(s.epoch) ELSE task
          /\ ui' = Projected(s, IF due THEN Deselected(ui) ELSE ui)
    /\ UNCHANGED <<objs, rev, log, chan, work, wire, dropped>>

CanSubmit(s, u, t) ==
    /\ WritesAllowed(s) /\ u.detail /\ ~u.clipped /\ ~Covered(u) /\ ~u.editing
    /\ t # NoTarget /\ u.target = t /\ MatchesCache(t, s)
    /\ t.key = "hold" =>
         LET h == s.entries["hold"].obj
             g == CommittedGeneration(View(s.entries))
         IN h # Absent /\ h.dec = "empty" /\ h.gen = g /\ g > 0

\* command_for_ui: too small a terminal or an open editor decode no other command.
Decodes == ~ui.small /\ ~ui.editing
Pressed == Reconciled(ses, ui)
UiStep(u) == ui' = u /\ UNCHANGED <<objs, rev, log, task, chan, ses, work, wire, dropped>>

\* Screen, NextScreen, PrevScreen, Help, EnterDetail, Back, Resize: navigation never keeps the target.
OnScreen(u, screen) ==
    [Deselected(u) EXCEPT !.screen = screen, !.sel = 0, !.report = FALSE, !.help = FALSE]

ChangeScreen(screen) == Decodes /\ UiStep(OnScreen(Pressed, screen))

ToggleHelp == Decodes /\ UiStep([Pressed EXCEPT !.help = ~@, !.target = NoTarget])

Resize(small) == UiStep([Pressed EXCEPT !.small = small, !.target = NoTarget])

\* RowDelta, PageDelta, RowHome, RowEnd: another row, or a detail whose identity may scroll away.
Move(clipped) ==
    /\ Decodes /\ ~ui.help /\ ~ui.report
    /\ UiStep(IF Pressed.detail THEN [Pressed EXCEPT !.target = NoTarget, !.clipped = clipped]
              ELSE [Pressed EXCEPT !.target = NoTarget, !.sel = 0])

EnterDetail ==
    /\ Decodes
    /\ HasRow(ses, ui.screen) /\ ~ui.help /\ ~ui.report
    /\ UiStep([Pressed EXCEPT !.detail = TRUE, !.target = NoTarget])

\* Back closes help, the report or the detail view, in this order.
Back ==
    /\ Decodes
    /\ UiStep([Pressed EXCEPT !.target = NoTarget, !.help = FALSE,
                 !.report = @ /\ ui.help, !.detail = @ /\ (ui.help \/ ui.report)])

\* Filter leaves the detail view, the command line does not.
OpenEditor(filter) ==
    /\ Decodes
    /\ UiStep(IF filter THEN [Deselected(Pressed) EXCEPT !.editing = TRUE, !.help = FALSE, !.report = FALSE]
              ELSE [Pressed EXCEPT !.editing = TRUE, !.target = NoTarget])

\* InputAccept and InputCancel, with a screen if the command named one; a report
\* that arrived under the editor is presented now.
CloseEditor(screen) ==
    /\ ui.editing /\ ~ui.small
    /\ LET u == IF screen = Nothing THEN [Pressed EXCEPT !.target = NoTarget] ELSE OnScreen(Pressed, screen)
       IN UiStep([u EXCEPT !.editing = FALSE, !.report = @ \/ ui.deferred, !.deferred = FALSE])

MutationsOn(screen) ==
    CASE screen = "wants" -> {"apply", "delete"}
      [] screen = "titles" -> {"apply"}
      [] OTHER -> {"approve", "reject"}

\* A mutation key: nothing is queued; the target drawn last must still be current.
PressMutation(mutation) ==
    /\ Decodes
    /\ mutation \in MutationsOn(ui.screen)
    /\ MutationsEnabled(ses, Pressed) /\ ses.epoch < MaxEpoch
    /\ IF ses.api /\ CanSubmit(ses, Pressed, Pressed.target)
       THEN /\ ui' = [Pressed EXCEPT !.pending = TRUE]
            /\ work' = [Idle EXCEPT !.stage = "prepare", !.mutation = mutation, !.target = Pressed.target]
       ELSE /\ ui' = Deselected(Pressed)
            /\ UNCHANGED work
    /\ UNCHANGED <<objs, rev, log, task, chan, ses, wire, dropped>>

\* Mutant: whatever is there now is what will be written.
PreparedAnyVersion(t, mutation) == objs[t.key] # Absent

\* prepare: the object is read again and must be the version that was drawn.
Prepared(t, mutation) ==
    LET o == objs[t.key] IN
    IF t.key = "hold"
    THEN MatchesObject(t, o) /\ o # Absent /\ o.dec = "empty" /\ o.gen = CommittedGeneration(objs) /\ o.gen > 0
    ELSE MatchesObject(t, o) /\ (o = Absent => mutation = "apply")

Prepare ==
    /\ work.stage = "prepare"
    /\ \/ work' = [work EXCEPT !.stage = "prepared", !.obj = objs[work.target.key],
                     !.result = IF Prepared(work.target, work.mutation) THEN "ok" ELSE "conflict"]
       \/ work' = [work EXCEPT !.stage = "prepared", !.result = "preflightFailed"]
    /\ UNCHANGED <<objs, rev, log, task, chan, ses, ui, wire, dropped>>

\* finish: report, forget the selection, connect again.
Finish(s, u) ==
    /\ ses' = Bootstrap(s)
    /\ task' = Fresh(s.epoch + 1)
    /\ ui' = [Deselected(u) EXCEPT !.pending = FALSE]
    /\ work' = Idle

\* The prepared write is submitted only if the user still sees its target.
WorkPrepared ==
    /\ work.stage = "prepared"
    /\ IF work.result = "ok" /\ ses.api /\ work.mutation \in MutationsOn(ui.screen) /\ CanSubmit(ses, ui, work.target)
       THEN /\ work' = [work EXCEPT !.stage = "submit", !.result = Nothing]
            /\ wire' = wire \cup {[mutation |-> work.mutation, target |-> work.target, obj |-> work.obj]}
            /\ UNCHANGED <<ses, task, ui>>
       ELSE Finish(ses, ui) /\ UNCHANGED wire
    /\ UNCHANGED <<objs, rev, log, chan, dropped>>

\* The answer is late or lost: the outcome is unknown and nothing is sent again.
SubmitTimeout ==
    /\ work.stage = "submit"
    /\ work' = [work EXCEPT !.stage = "finished", !.result = "unknown"]
    /\ UNCHANGED <<objs, rev, log, task, chan, ses, ui, wire, dropped>>

WorkFinished ==
    /\ work.stage = "finished"
    /\ Finish(ses, ui)
    /\ UNCHANGED <<objs, rev, log, chan, wire, dropped>>

\* request_sync; without key releases the latch is never opened again.
PressSync(dryRun) ==
    /\ Decodes
    /\ SyncActionsEnabled(ses, Pressed) /\ ses.epoch < MaxEpoch
    /\ ~dryRun => ~ui.held
    /\ IF ses.api
       THEN /\ ui' = [Pressed EXCEPT !.syncing = TRUE, !.held = @ \/ ~dryRun]
            /\ work' = [Idle EXCEPT !.stage = "sync", !.mutation = IF dryRun THEN "preview" ELSE "sync"]
       ELSE ui' = [Pressed EXCEPT !.held = @ \/ ~dryRun] /\ UNCHANGED work
    /\ UNCHANGED <<objs, rev, log, task, chan, ses, wire, dropped>>

ReleaseSync ==
    /\ ui.held
    /\ UiStep([Pressed EXCEPT !.held = @ /\ ~KeyReleases])

\* SyncDone: a report is shown or deferred; a real sync refreshes the session.
SyncDone ==
    /\ work.stage = "sync"
    /\ work' = Idle
    /\ \E ok \in BOOLEAN :
         LET u == [ui EXCEPT !.syncing = FALSE,
                     !.report = @ \/ (ok /\ ~ui.editing), !.deferred = @ \/ (ok /\ ui.editing)]
             refresh == ok /\ work.mutation = "sync"
         IN /\ ui' = u
            /\ ses' = IF refresh THEN Bootstrap(ses) ELSE ses
            /\ task' = IF refresh THEN Fresh(ses.epoch + 1) ELSE task
    /\ UNCHANGED <<objs, rev, log, chan, wire, dropped>>

-----------------------------------------------------------------------------
Init ==
    /\ objs = [k \in Keys |-> Absent] /\ rev = 0 /\ log = <<>>
    /\ ses = [epoch |-> 1, failed |-> FALSE, api |-> FALSE, sync |-> "synchronizing", timer |-> FALSE,
              entries |-> [k \in Keys |-> NoEntry]]
    /\ task = Fresh(1) /\ chan = <<>>
    /\ ui = [screen |-> CHOOSE s \in ScreenOf : TRUE, sel |-> 0, detail |-> FALSE, target |-> NoTarget,
             editing |-> FALSE, help |-> FALSE, small |-> FALSE, clipped |-> FALSE, pending |-> FALSE, syncing |-> FALSE,
             held |-> FALSE, report |-> FALSE, deferred |-> FALSE]
    /\ work = Idle /\ wire = {} /\ dropped = {}

TaskStep ==
    \/ Connect \/ OpenWatch \/ ListObjects \/ Announce \/ SendBaseline \/ Receive \/ Resolve \/ Deliver

Failures ==
    \/ TaskFails("connect", "connectFailed")
    \/ TaskFails("list", "baselineFailed")
    \/ \E pc \in {"watch", "stream", "resolve"} : TaskFails(pc, "watchFailed")

WorkStep == Prepare \/ WorkPrepared \/ SubmitTimeout \/ WorkFinished \/ SyncDone

UserStep ==
    \/ \E s \in ScreenOf : ChangeScreen(s) \/ CloseEditor(s)
    \/ CloseEditor(Nothing) \/ ToggleHelp \/ EnterDetail \/ Back \/ ReleaseSync
    \/ \E b \in BOOLEAN : Resize(b) \/ Move(b) \/ OpenEditor(b) \/ PressSync(b)
    \/ \E m \in {"apply", "delete", "approve", "reject"} : PressMutation(m)

StoreStep ==
    \/ \E k \in Keys : StoreCreate(k) \/ StoreModify(k) \/ StoreDelete(k)
    \/ \E r \in wire : ServeWrite(r) \/ LoseWrite(r)

Next == TaskStep \/ Failures \/ RecvSession \/ Redraw(TRUE) \/ Redraw(FALSE) \/ WorkStep \/ UserStep \/ StoreStep

Spec == Init /\ [][Next]_vars

\* The task and the event loop keep running and a due timer fires; every call
\* of the task or of a write has a time limit.  Users and the server owe nothing.
Fairness ==
    /\ WF_vars(TaskStep) /\ WF_vars(RecvSession) /\ WF_vars(Redraw(TRUE))
    /\ WF_vars(WorkStep)

LiveSpec == Spec /\ Fairness

-----------------------------------------------------------------------------
(* Properties *)

\* Types and bounds; the epoch of the task never runs ahead of the session's,
\* and a session that may write holds a connection.
TuiTypeOK ==
    /\ rev \in 0..MaxRev /\ Len(log) = rev
    /\ \A k \in Keys : objs[k].uid \in Uids /\ objs[k].rv \in objs[k].uid..rev
    /\ ses.epoch \in 1..(MaxEpoch + 2) /\ task.epoch \in {0, ses.epoch}
    /\ ses.sync \in {"connecting", "synchronizing", "current", "stale"}
    /\ Len(chan) <= ChanCap /\ ui.screen \in ScreenOf
    /\ WritesAllowed(ses) => ses.api

\* An object that has left the screen never comes back under its uid: neither
\* the snapshot opened before List, nor a late event, nor a reconnection
\* resurrects it (subscription.rs and accept_revision).
DroppedStaysGone == Shown(ses.entries) \cap dropped = {}

\* Once everything sent has been applied, a current session shows exactly the
\* server's objects, whatever was written between the watch, the List and the
\* Gets, and whatever older connections left in the cache or the channel.
DrainedIsStore ==
    /\ WritesAllowed(ses) /\ chan = <<>>
    /\ task.pc = "stream" /\ task.todo = <<>> /\ task.pos = Len(log)
    => View(ses.entries) = objs

\* The pending flags are the in-flight work, so no key is dead for ever and no
\* second write starts beside the first (finish, complete_sync).
FlagsFollowWork ==
    /\ ui.pending <=> work.stage \in {"prepare", "prepared", "submit", "finished"}
    /\ ui.syncing <=> work.stage = "sync"

\* What a write of this client replaces in the store is the very version that
\* was drawn when its key was pressed, also when the request arrives after the
\* client gave up on it, and a decided Hold is not decided again.
ReplacesSeen ==
    \A r \in wire \ wire' : rev' # rev =>
       /\ MatchesObject(r.target, objs[r.target.key])
       /\ r.target.key = "hold" => objs["hold"].dec = "empty"

\* A pending key press is always answered.
PendingClears == (ui.pending ~> ~ui.pending) /\ (ui.syncing ~> ~ui.syncing)

\* After the last failure and the last write the session becomes current and
\* shows the server's objects for good.
ScreenConverges == <>[](WritesAllowed(ses) /\ View(ses.entries) = objs)

=============================================================================
