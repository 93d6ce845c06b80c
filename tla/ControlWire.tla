----------------------------- MODULE ControlWire -----------------------------
(***************************************************************************)
(* The calls of the Home side on the seedbox daemon: the client's          *)
(* conversions, the gateway that relays the call and its Status, the       *)
(* daemon's handlers, and what the caller is told.  Requests and replies   *)
(* may be lost, and the daemon may be of a later release.  What the        *)
(* handlers do inside the apps is in Grabber, GrabApply, Reclaim and       *)
(* EdgeRepair; here only that it was done.                                 *)
(***************************************************************************)
EXTENDS Integers, Sequences, FiniteSets

CONSTANTS
    FileNames,   \* refs of files; "odd" is no UTF-8, and "lossy" is how it is shown
    Keys,        \* holds the grabber may have
    OutputOf,    \* hold -> the files its output path covers (one may be the path itself)
    PlacementOf, \* release of the daemon -> hold -> its placement there, or None
    Titles,      \* titles the grabber may monitor
    Releases,     \* releases of the daemon: "v1", "later" (same package) or "v2"
    Boxes,       \* grabber and ops: "bare" (no ops), "none" or "servarr"
    Ops,         \* the calls that are made
    MaxCalls,    \* bound: calls
    MaxChanges,  \* bound: changes of the box between the steps
    None

VARIABLES
    daemon, box,             \* how the daemon was built and started
    files, queue, monitored, \* the box: files, holds waiting, titles monitored
    applied,                 \* whether the grabber has the configuration of the caller
    call,                    \* None or the call under way
    result,                  \* None or what the caller was told last
    calls, changes

onbox == <<files, queue, monitored, applied>>
vars == <<daemon, box, onbox, call, result, calls, changes>>

---------------------------------------------------------------------------
(* Conversions                                                             *)

U8 == 255
U16 == 65535
Utf8(f) == f # "odd"
Err(code) == [err |-> code]
IsErr(v) == "err" \in DOMAIN v
Val(v) == [val |-> v]
NotTold == <<>>   \* no handler has answered

\* RemoteRef::try_from (remote_ref_to_wire_utf8).
RefToWire(f) == IF Utf8(f) THEN Val(f) ELSE Err("Runtime")

\* remote_ref_to_wire, for holds.
HoldRefToWire(f) == IF f = None THEN None ELSE IF Utf8(f) THEN f ELSE "lossy"

\* From<&Placement>: numbers are widened; a later daemon may have larger ones.
PlacementToWire(p) == p

\* fit_u8 and fit_u16: -1 is refusal.
Fits(n, max) == IF n <= max THEN n ELSE -1

\* TryFrom<Placement>: numbers that do not fit refuse it, an empty title is none.
PlacementFromWire(p) ==
    IF p = None THEN Val(None)
    ELSE LET year == Fits(p.year, U16)
             season == IF p.kind = "episode" THEN Fits(p.season, U8) ELSE 0
             last == IF p.kind # "episode" \/ p.last = None THEN None ELSE Fits(p.last, U16) IN
         IF p.kind = "unset" \/ year = -1 \/ season = -1 \/ last = -1 THEN Err("Runtime")
         ELSE Val([kind |-> p.kind, year |-> year, season |-> season, last |-> last,
                   name |-> IF p.name = "" THEN None ELSE p.name])

\* From<&HoldItem> and TryFrom<HoldItem>.
HoldToWire(i) ==
    [key |-> i.key, remote |-> HoldRefToWire(i.remote), placement |-> PlacementToWire(i.placement)]
HoldFromWire(i) ==
    [key |-> i.key, remote |-> i.remote, placement |-> PlacementFromWire(i.placement).val]

\* TryFrom<HoldListResponse>: one item that does not convert fails the list.
HoldsFromWire(items) ==
    IF \E i \in items : IsErr(PlacementFromWire(i.placement)) THEN Err("Runtime")
    ELSE Val({HoldFromWire(i) : i \in items})

\* list and guard_preview: one ref that does not convert fails the reply.
RefsToWire(refs) == IF \E f \in refs : ~Utf8(f) THEN Err("Runtime") ELSE Val(refs)

\* TryFrom<DeleteRemoteResponse>.
OutcomeFromWire(n) ==
    CASE n = 1 -> Val("Deleted") [] n = 2 -> Val("SkippedSeeding") [] n = 3 -> Val("QbitUnavailable")
      [] OTHER -> Err("Runtime")

\* ErrorDetail packed in the Status: the details of a domain error, None from transport.
DomainStatus(code) == [status |-> code]
TransportStatus == [status |-> None]
IsStatus(w) == "status" \in DOMAIN w

Known == {"Runtime", "Usage", "LockConflict", "DriftVerify", "PolicyRefusal"}

\* control_error_from_status with error_detail_from_status and exit_code_from_i32.
ControlErrorFromStatus(w) == Err(IF w.status \in Known THEN w.status ELSE "Runtime")

\* Placement: only an episode has a season and a last episode.
IsPlacement(p) ==
    /\ p = [kind |-> p.kind, year |-> p.year, season |-> p.season, last |-> p.last, name |-> p.name]
    /\ p.year \in Nat /\ p.season \in Nat /\ (p.last = None \/ p.last \in Nat)
    /\ p.kind # "episode" => p.season = 0 /\ p.last = None

\* None is no code and no name.
WireAssumption ==
    /\ None \notin Known \cup {"lossy"}
    /\ \A release \in Releases, k \in Keys :
           IF PlacementOf[release][k] = None THEN TRUE ELSE IsPlacement(PlacementOf[release][k])

---------------------------------------------------------------------------
(* The caller                                                              *)

ControlInit ==
    /\ daemon \in Releases /\ box \in Boxes
    /\ files \in SUBSET FileNames
    /\ queue \in SUBSET Keys /\ monitored = Titles /\ applied = FALSE
    /\ call = None /\ result = None /\ calls = 0 /\ changes = 0

Args(op) ==
    CASE op \in {"delete_remote", "stat"} -> FileNames
      [] op = "unmonitor" -> Titles [] op = "hold_reject" -> Keys
      [] OTHER -> {None}

\* What a call hands back; did and told are ghosts: what the daemon did for it, and what
\* its handler answered.
Outcome(c, v) == [op |-> c.op, arg |-> c.arg, told |-> c.told, did |-> c.did,
                  ok |-> ~IsErr(v), code |-> IF IsErr(v) THEN v.err ELSE "Ok",
                  value |-> IF IsErr(v) THEN None ELSE v.val]

\* ControlPortClient: the request is built, or the call fails before it is sent.
Call ==
    /\ call = None /\ calls < MaxCalls
    /\ calls' = calls + 1
    /\ \E op \in Ops : \E arg \in Args(op) :
           LET wire == IF op \in {"delete_remote", "stat"} THEN RefToWire(arg) ELSE Val(arg)
               c == [op |-> op, arg |-> arg, wire |-> wire, at |-> "home", told |-> NotTold, did |-> {}] IN
           IF IsErr(wire) THEN result' = Outcome(c, wire) /\ call' = None
           ELSE call' = c /\ result' = None
    /\ UNCHANGED <<daemon, box, onbox, changes>>

\* The gateway passes requests and replies on, a Status with its details.
Relay ==
    /\ call # None
    /\ call.at \in {"home", "answered"}
    /\ call' = [call EXCEPT !.at = IF call.at = "home" THEN "box" ELSE "back"]
    /\ UNCHANGED <<daemon, box, onbox, result, calls, changes>>

\* A connection breaks: the caller sees a transport Status, whatever was done.
Break ==
    /\ call # None
    /\ call.at # "back"
    /\ call' = [call EXCEPT !.at = "back", !.wire = TransportStatus, !.told = NotTold]
    /\ UNCHANGED <<daemon, box, onbox, result, calls, changes>>

Decode(op, body) ==
    CASE op = "delete_remote" -> OutcomeFromWire(body)
      [] op = "hold_list" -> HoldsFromWire(body)
      [] OTHER -> Val(body)

\* The end of each ControlPort method: status, then accept_handshake, then conversion;
\* list and stat have no handshake.
Answer(c) ==
    IF IsStatus(c.wire) THEN ControlErrorFromStatus(c.wire)
    ELSE IF c.op \notin {"list", "stat"} /\ c.wire.package # "mediaops.v1" THEN Err("Runtime")
    ELSE Decode(c.op, c.wire.body)

Return ==
    /\ call # None
    /\ call.at = "back"
    /\ result' = Outcome(call, Answer(call))
    /\ call' = None
    /\ UNCHANGED <<daemon, box, onbox, calls, changes>>

---------------------------------------------------------------------------
(* The daemon                                                              *)

At(op) ==
    /\ call # None
    /\ call.at = "box" /\ call.op = op
    /\ UNCHANGED <<daemon, box, result, calls, changes>>

Package == IF daemon = "v2" THEN "mediaops.v2" ELSE "mediaops.v1"

\* The handler's reply: true is its answer before conversion.
Say(wire, true, did) ==
    call' = [call EXCEPT !.at = "answered", !.wire = wire, !.told = true, !.did = did]
Reply(body, true, did) == Say([package |-> Package, body |-> body], Val(true), did)
Fail(code) == Say(DomainStatus(code), Err(code), {}) /\ UNCHANGED onbox

\* What the ops behind the handler may fail with.
OpsCodes == {"Runtime", "PolicyRefusal"} \cup (IF daemon = "later" THEN {"Quota"} ELSE {})
OpsFail == \E code \in OpsCodes : Fail(code)

\* df, edge_check and key_discovery: what they report is what is there.
Report ==
    /\ At("df") \/ At("edge_check") \/ At("key_discovery")
    /\ \/ OpsFail
       \/ \E body \in {"fine", "poor"} : Reply(body, body, {}) /\ UNCHANGED onbox

Unmonitor ==
    /\ At("unmonitor")
    /\ IF box # "servarr" THEN Fail("Usage")
       ELSE \/ OpsFail
            \/ /\ monitored' = monitored \ {call.wire.val}
               /\ Reply(None, None, {<<"unmonitor", call.wire.val>>})
               /\ UNCHANGED <<files, queue, applied>>

\* A later daemon has a result of its own: the deletion is put off.
DeleteRemote ==
    /\ At("delete_remote")
    /\ LET f == call.wire.val IN
       \/ box = "servarr" /\ Reply(3, "QbitUnavailable", {}) /\ UNCHANGED onbox
       \/ f \notin files /\ Fail("Runtime")
       \/ f \in files /\ Reply(2, "SkippedSeeding", {}) /\ UNCHANGED onbox
       \/ f \in files /\ daemon = "later" /\ Reply(4, "Deferred", {}) /\ UNCHANGED onbox
       \/ /\ f \in files
          /\ files' = files \ {f}
          /\ Reply(1, "Deleted", {<<"delete", f>>})
          /\ UNCHANGED <<queue, monitored, applied>>

\* grab_apply and edge_apply.
Apply ==
    /\ At("grab_apply") \/ At("edge_apply")
    /\ IF box # "servarr" THEN Reply("noop", "noop", {}) /\ UNCHANGED onbox
       ELSE \/ OpsFail
            \/ applied /\ Reply("noop", "noop", {}) /\ UNCHANGED onbox
            \/ /\ applied' = TRUE
               /\ Reply("changed", "changed", {<<"apply">>})
               /\ UNCHANGED <<files, queue, monitored>>

\* attach_remote_from_output_path: the path itself, or the only media file below it.
Attach(k) ==
    LET own == {f \in files : f \in OutputOf[k].itself}
        media == {f \in files : f \in OutputOf[k].below}
    IN  IF own # {} THEN CHOOSE f \in own : TRUE
        ELSE IF Cardinality(media) = 1 THEN CHOOSE f \in media : TRUE ELSE None

HoldItems == {[key |-> k, remote |-> Attach(k), placement |-> PlacementOf[daemon][k]] : k \in queue}

HoldList ==
    /\ At("hold_list")
    /\ LET items == IF box = "servarr" THEN HoldItems ELSE {} IN
       \/ box = "servarr" /\ OpsFail
       \/ /\ Reply({HoldToWire(i) : i \in items}, items, {})
          /\ UNCHANGED onbox

HoldReject ==
    /\ At("hold_reject")
    /\ IF box # "servarr" THEN Fail("Usage")
       ELSE \/ OpsFail
            \/ /\ queue' = queue \ {call.wire.val}
               /\ Reply(None, None, {<<"reject", call.wire.val>>})
               /\ UNCHANGED <<files, monitored, applied>>

WantedMissing ==
    /\ At("wanted_missing")
    /\ \/ box = "servarr" /\ OpsFail
       \/ LET ids == IF box = "servarr" THEN monitored ELSE {} IN Reply(ids, ids, {}) /\ UNCHANGED onbox

\* guard_preview (each file may be covered by a torrent) and TransferService::list.
ListFiles ==
    /\ At("guard_preview") \/ At("list")
    /\ \/ call.op = "guard_preview" /\ box = "servarr" /\ OpsFail
       \/ LET refs == IF call.op = "guard_preview" /\ box = "bare" THEN {} ELSE files IN
          IF IsErr(RefsToWire(refs)) THEN Fail("Runtime")
          ELSE Reply(RefsToWire(refs).val, refs, {}) /\ UNCHANGED onbox

Stat ==
    /\ At("stat")
    /\ IF call.wire.val \in files THEN Reply(call.wire.val, call.wire.val, {}) /\ UNCHANGED onbox
       ELSE Fail("Runtime")

\* Files and holds come and go.
BoxChanges ==
    /\ changes < MaxChanges /\ changes' = changes + 1
    /\ \/ \E f \in FileNames : files' = (files \ {f}) \cup ({f} \ files) /\ queue' = queue
       \/ \E k \in Keys : queue' = (queue \ {k}) \cup ({k} \ queue) /\ files' = files
    /\ UNCHANGED <<daemon, box, monitored, applied, call, result, calls>>

ControlNext ==
    \/ Call \/ Relay \/ Break \/ Return
    \/ Report \/ Unmonitor \/ DeleteRemote \/ Apply \/ HoldList \/ HoldReject \/ WantedMissing \/ ListFiles \/ Stat
    \/ BoxChanges

ControlSpec == ControlInit /\ [][ControlNext]_vars

---------------------------------------------------------------------------
(* Properties                                                              *)

\* Nothing is done on the box but the
\* asked deed on the asked thing, and success of a mutating call means that it was done
\* (a name that cannot be sent exactly, a result the client does not know and a daemon
\* of another package are no success).
OkMeansPerformed ==
    /\ \A c \in {call, result} : IF c = None THEN TRUE ELSE
           c.did \subseteq {<<"unmonitor", c.arg>>, <<"delete", c.arg>>, <<"reject", c.arg>>, <<"apply">>}
    /\ IF result = None THEN TRUE ELSE result.ok =>
           CASE result.op = "delete_remote" -> (result.value = "Deleted" <=> <<"delete", result.arg>> \in result.did)
             [] result.op = "unmonitor" -> <<"unmonitor", result.arg>> \in result.did
             [] result.op = "hold_reject" -> <<"reject", result.arg>> \in result.did
             [] result.op \in {"grab_apply", "edge_apply"} -> (result.value = "changed" <=> <<"apply">> \in result.did)
             [] OTHER -> result.did = {}

\* The exit code a handler failed with is the caller's, through the gateway; every other
\* failure is a runtime error.  Success is never a failure's answer, nor the answer of "a
\* daemon whose proto package we do not speak".
ExitCodeSurvives ==
    IF result = None THEN TRUE
    ELSE IF result.told = NotTold THEN ~result.ok /\ result.code = "Runtime"
    ELSE IF IsErr(result.told) THEN ~result.ok /\ (result.told.err \in Known => result.code = result.told.err)
    ELSE IF result.ok THEN daemon = "v2" => result.op \in {"list", "stat"}
    ELSE result.code = "Runtime"

\* A placement with an empty title as the reader has it.
Untitled(p) == [p EXCEPT !.name = IF @ = "" THEN None ELSE @]

\* "Hold live remotes must not be dropped: UTF-8 paths stay exact": a hold list that
\* arrives has every hold of the daemon, its file if the daemon found one, and its
\* placement's numbers unchanged.
HoldsArriveWhole ==
    IF result = None THEN TRUE
    ELSE result.ok /\ result.op = "hold_list" =>
             /\ {i.key : i \in result.value} = {i.key : i \in result.told.val}
             /\ \A i \in result.value : \E j \in result.told.val :
                    /\ i.key = j.key
                    /\ IF j.remote = None THEN i.remote = None
                       ELSE i.remote # None /\ (Utf8(j.remote) => i.remote = j.remote)
                    /\ IF j.placement = None THEN i.placement = None
                       ELSE i.placement = Untitled(j.placement)

\* A listing of files or of wanted titles is the daemon's or it fails: never a part.
ListingsArriveWhole ==
    IF result = None THEN TRUE
    ELSE result.ok /\ result.op \in {"list", "guard_preview", "wanted_missing"} => result.value = result.told.val
===============================================================================
