----------------------------- MODULE ObjectCodec -----------------------------
(***************************************************************************)
(* The forms one Home object takes on its way from the store to a client   *)
(* and back: the domain object, the protobuf message with its blanks for   *)
(* what is absent, and the JSON or TOML document of get and apply -f.      *)
(* Clients read, print, edit and write back, while others write too.       *)
(*                                                                         *)
(* A field is described once, by its class: the values it has, its value   *)
(* on the wire, what a blank or a missing key decodes to, and what         *)
(* validation accepts.  Nested messages are flattened.                     *)
(***************************************************************************)
EXTENDS Integers, FiniteSets, TLC

CONSTANTS
    Kinds,        \* the kinds of Home objects under study
    MaxVaried,    \* bound: fields in which the stored object differs from a plain one
    MaxWrites,    \* bound: writes that succeed
    None

VARIABLES
    kind,         \* the kind of the object
    stored, rv,   \* the object, as a function on its fields; its resourceVersion
    entered,      \* field -> the value that a writer who succeeded last gave it
    held,         \* None or what a client got: [actor, obj, rv]
    doc,          \* None or a document: [obj, text, rv, edit]
    reply         \* None or how the write of the last step ended

vars == <<kind, stored, rv, entered, held, doc, reply>>

---------------------------------------------------------------------------
(* Classes of fields                                                       *)

Id(S) == [v \in S |-> v]
\* Two functions as one; where both are defined, the first.
Joined(f, g) == [x \in DOMAIN f \cup DOMAIN g |-> IF x \in DOMAIN f THEN f[x] ELSE g[x]]

\* vals, the default of the Rust type, the protobuf blank, both conversions, validity.
Same(vals, dflt, ok) ==
    [vals |-> vals, dflt |-> dflt, blank |-> dflt, to |-> Id(vals), from |-> Id(vals), ok |-> ok]

Text(ok) == Same({"", "good", "odd"}, "", ok)
AnyText == Text({"", "good", "odd"})
GoodText == Text({"good"})
BlankOrGood == Text({"", "good"})
SomeText == Text({"good", "odd"})
Version == Same({"", "v1", "v999"}, "v1", {"v1"})
Unsigned(ok) == Same({"0", "1", "65"}, "0", ok)
AnySize == Unsigned({"0", "1", "65"})
NonZero == Unsigned({"1", "65"})
SmallSize == Unsigned({"0", "1"})
Positive == Unsigned({"1"})
\* range_concurrency of a Job: a missing key means one, a blank means zero.
Concurrency == [Positive EXCEPT !.dflt = "1"]
Signed(ok) == Same({"-1", "0", "1"}, "0", ok)
AnyNumber == Signed({"-1", "0", "1"})
NonNegative == Signed({"0", "1"})
PositiveInt == Signed({"1"})
Flag == Same({"false", "true"}, "false", {"false", "true"})

\* Option<u32> of range_concurrency: absent is zero on the wire.
OptNumber == [vals |-> {"none", "0", "1", "65"}, dflt |-> "none", blank |-> "0",
              to |-> [v \in {"none", "0", "1", "65"} |-> IF v = "none" THEN "0" ELSE v],
              from |-> [w \in {"0", "1", "65"} |-> IF w = "0" THEN "none" ELSE w], ok |-> {"none", "1"}]

\* Option<Blake3Hex>: absent is the empty text.
OptDigest == [vals |-> {"none", "b3"}, dflt |-> "none", blank |-> "",
              to |-> [v \in {"none", "b3"} |-> IF v = "none" THEN "" ELSE v],
              from |-> [w \in {"", "b3"} |-> IF w = "" THEN "none" ELSE w], ok |-> {"none", "b3"}]
\* An enumeration by its as_str and parse: the blank is the first value, or refused.
Enum(vals, dflt) == [vals |-> vals, dflt |-> dflt, blank |-> "", to |-> Id(vals),
                     from |-> [w \in vals \cup {""} |-> IF w = "" THEN dflt ELSE w], ok |-> vals]
Strict(vals, dflt) == [vals |-> vals, dflt |-> dflt, blank |-> "", to |-> Id(vals),
                       from |-> [w \in vals \cup {""} |-> IF w = "" THEN "bad" ELSE w], ok |-> vals]

\* HoldDecisionSpec: Empty is "empty" in documents and the empty text on the wire.
Decision == [vals |-> {"empty", "approved", "rejected"}, dflt |-> "empty", blank |-> "",
             to |-> [v \in {"empty", "approved", "rejected"} |-> IF v = "empty" THEN "" ELSE v],
             from |-> [w \in {"", "approved", "rejected"} |-> IF w = "" THEN "empty" ELSE w],
             ok |-> {"empty", "approved", "rejected"}]

\* The files of a Title: none, canonical placements, one that is not, the same one twice.
Placements == Same({"none", "good", "odd", "twice"}, "none", {"none", "good"})
\* Option<TitleKind> of a root.
OptKind == [vals |-> {"none", "movie", "album"}, dflt |-> "none", blank |-> "",
            to |-> [v \in {"none", "movie", "album"} |-> IF v = "none" THEN "" ELSE v],
            from |-> [w \in {"", "movie", "album"} |-> IF w = "" THEN "none" ELSE w], ok |-> {"none", "movie", "album"}]
\* An optional message, of which only the presence is kept.
Optional == Same({"none", "some"}, "none", {"none", "some"})

Spec(c) == [class |-> c, part |-> "spec", needed |-> FALSE]
Needed(c) == [class |-> c, part |-> "spec", needed |-> TRUE]
Status(c) == [class |-> c, part |-> "status", needed |-> FALSE]
NeededStatus(c) == [class |-> c, part |-> "status", needed |-> TRUE]

---------------------------------------------------------------------------
(* The kinds                                                               *)

ClusterFields ==
    [maxCopy |-> Needed(AnySize), minFree |-> Needed(AnySize),
     rangeLen |-> Needed(Positive), rangeConcurrency |-> Spec(OptNumber),
     grabber |-> Needed(Enum({"none", "servarr"}, "none")), lock |-> Spec(Flag), encodePause |-> Spec(Flag),
     libraryRoot |-> Spec(BlankOrGood), rootId |-> Spec(GoodText), rootKind |-> Spec(OptKind),
     acceptedGeneration |-> Status(AnyNumber), reconcileGeneration |-> Status(AnyNumber)]

SecretFields ==
    [seedboxAddress |-> Needed(GoodText), caSha256 |-> Spec(BlankOrGood),
     serverSha256 |-> Spec(BlankOrGood), clientSha256 |-> Spec(BlankOrGood)]

TitleFields ==
    [titleId |-> Spec(GoodText), desiredPresent |-> Spec(Flag),
     files |-> Status(Placements), path |-> Status(AnyText), installB3 |-> Status(OptDigest), currentB3 |-> Status(OptDigest),
     drifted |-> Status(Flag)]

WantFields ==
    [titleId |-> Needed(GoodText), phase |-> Status(Enum({"open", "satisfied", "dropped"}, "open"))]

JobPhases == Enum({"pending", "pulling", "verifying", "installed", "refused", "failed"}, "pending")
JobSpecFields ==
    [syncName |-> Spec(AnyText), holdName |-> Spec(AnyText), libraryRoot |-> Spec(GoodText),
     rangeConcurrency |-> Spec(Concurrency), kind |-> Needed(Enum({"pull"}, "pull")), titleId |-> Spec(GoodText),
     remote |-> Spec(GoodText), destRel |-> Spec(GoodText), fileLen |-> Spec(NonZero),
     rangeLen |-> Spec(Positive), maxCopy |-> Spec(AnySize),
     minFree |-> Spec(AnySize), nodeName |-> Spec(BlankOrGood), workerKind |-> Spec(GoodText)]
JobStatusFields ==
    [startedUnix |-> Status(NonNegative), verifiedB3 |-> Status(OptDigest), phase |-> NeededStatus(JobPhases),
     bytesDone |-> Status(SmallSize), attempts |-> Status(SmallSize), message |-> Status(AnyText)]
JobFields == Joined(JobSpecFields, JobStatusFields)

HoldFields ==
    [titleId |-> Spec(GoodText), releaseId |-> Spec(GoodText), decision |-> Spec(Decision),
     listGeneration |-> Status(NonNegative), rejectionObserved |-> Status(Flag), remote |-> Status(BlankOrGood),
     placement |-> Status(Optional), addedUnix |-> Status(AnyNumber), reason |-> Status(AnyText),
     size |-> Status(AnySize), release |-> Status(AnyText)]

RemoteFileFields ==
    [remote |-> Status(GoodText), len |-> Status(AnySize), parseOk |-> Status(Flag),
     titleId |-> Status(AnyText), listGeneration |-> Status(PositiveInt)]

NodeFields ==
    [workerKind |-> Needed(Strict({"pull", "scheduler", "inventory"}, "pull")), listGeneration |-> Status(NonNegative),
     listCompletedUnix |-> Status(NonNegative), ready |-> Status(Flag), lastHeartbeatUnix |-> Status(NonNegative),
     scanStartedRv |-> Status(NonNegative), scanClusterGeneration |-> Status(NonNegative),
     scanSecretResourceVersion |-> Status(NonNegative)]

EventFields ==
    [involvedKind |-> Status(AnyText), involvedName |-> Status(AnyText), reason |-> Status(AnyText),
     message |-> Status(AnyText), ts |-> Status(AnyNumber)]

SyncFields ==
    [scope |-> Spec(Enum({"allEligibleCompleted"}, "allEligibleCompleted")),
     phase |-> Status(Enum({"waitingInventory", "captured", "scheduled", "failed"}, "waitingInventory")),
     acceptedUnix |-> Status(NonNegative), deadlineUnix |-> Status(NonNegative), baselineGeneration |-> Status(NonNegative),
     acceptanceRv |-> Status(NonNegative), listGeneration |-> Status(NonNegative), cluster |-> Status(Optional),
     clusterGeneration |-> Status(NonNegative), secretResourceVersion |-> Status(NonNegative), message |-> Status(AnyText),
     entryRemote |-> Status(AnyText), entryLen |-> Status(AnySize), entryTitle |-> Status(AnyText),
     entryPlacement |-> Status(Optional), entryJob |-> Status(Optional),
     entryDisposition |-> Status(Enum({"wouldQueue", "queued", "alreadyQueued", "present", "blocked", "ineligible"}, "wouldQueue")),
     entryReason |-> Status(AnyText), entryJobName |-> Status(AnyText), entryJobUid |-> Status(AnyText)]

Bodies ==
    [Cluster |-> ClusterFields, Secret |-> SecretFields, Title |-> TitleFields, Want |-> WantFields,
     Job |-> JobFields, Hold |-> HoldFields, RemoteFile |-> RemoteFileFields, Node |-> NodeFields,
     Event |-> EventFields, Sync |-> SyncFields]

\* The name is good when it is what the kind demands; some kinds demand nothing.
NamedBySpec == {"Cluster", "Secret", "Title", "Want", "Hold", "Node"}
Meta(k) ==
    [apiVersion |-> [class |-> Version, part |-> "meta", needed |-> FALSE],
     name |-> [class |-> IF k \in NamedBySpec THEN GoodText ELSE SomeText, part |-> "meta", needed |-> FALSE]]

ASSUME CodecAssumption == Kinds \subseteq DOMAIN Bodies

Schemas == [k \in Kinds |-> Joined(Meta(k), Bodies[k])]
Schema == Schemas[kind]
Fields == DOMAIN Schema
In(part) == {f \in Fields : Schema[f].part = part}
ClassOf(f) == Schema[f].class
Values == UNION {ClassOf(f).vals : f \in Fields}
StatusOnly == kind \in {"RemoteFile", "Event"}

---------------------------------------------------------------------------
(* Conversions                                                             *)

\* home_object_to_wire.
ToWire(obj) == [f \in Fields |-> ClassOf(f).to[obj[f]]]

\* default_name: kinds whose name follows from the spec.
HasDefaultName == kind \in {"Cluster", "Secret", "Want", "Title", "Node"}

\* home_object_from_wire: any field that does not parse refuses the message.
FromWire(msg) ==
    [f \in Fields |->
        CASE f = "apiVersion" -> IF msg[f] = "" THEN "v1" ELSE msg[f]
          [] f = "name" -> IF msg[f] = "" /\ HasDefaultName THEN "good" ELSE msg[f]
          [] OTHER -> ClassOf(f).from[msg[f]]]
Parses(obj) == \A f \in Fields : obj[f] # "bad"

\* HomeObject::redact, for the CLI.
Redacted(actor, obj) ==
    IF actor = "cli" /\ kind = "Secret" THEN [obj EXCEPT !["seedboxAddress"] = ""] ELSE obj

\* HomeObject::validate: each field by itself, and the fields that are judged together.
Validate(obj) ==
    /\ \A f \in Fields : obj[f] \in ClassOf(f).ok
    /\ kind = "Title" => (obj["path"] = "odd" => "none" \in {obj["installB3"], obj["currentB3"]})
    /\ kind = "RemoteFile" => (obj["parseOk"] = "true" => obj["titleId"] = "good")

\* The serde form: optional fields that are absent, and some that are blank, have no key.
SkippedIfBlank ==
    CASE kind = "Job" -> {"syncName"}
      [] kind = "Node" -> {"scanStartedRv", "scanClusterGeneration", "scanSecretResourceVersion"}
      [] kind = "Sync" -> In("status")
      [] OTHER -> {}
Skipped(f, v) ==
    \/ v = "none" /\ ~Schema[f].needed
    \/ f \in SkippedIfBlank /\ v \in {"", "0"}
Document(obj) == [f \in {g \in Fields : ~Skipped(g, obj[g])} |-> obj[f]]

\* from_bytes and from_document: a JSON document has camelCase keys (those of a
\* TOML document are converted, which makes it one); unknown keys and missing ones without a default are refused.
Decodes(d) ==
    /\ d.text # "snakeJson"
    /\ \A f \in Fields \ DOMAIN d.obj : ~Schema[f].needed
Decode(d) == [f \in Fields |-> IF f \in DOMAIN d.obj THEN d.obj[f]
                                ELSE IF f = "name" THEN "" ELSE ClassOf(f).dflt]

---------------------------------------------------------------------------
(* The service                                                             *)

MayApply(actor) ==
    \/ kind \in {"Cluster", "Secret", "Want", "Title"} /\ actor \in {"cli", "import"}
    \/ kind = "Hold" /\ actor \in {"import", "worker"}
    \/ kind \in {"RemoteFile", "Node"} /\ actor = "worker"
    \/ kind = "Event"
MayPatch(actor, part) ==
    \/ part = "spec" /\ kind \in {"Cluster", "Secret", "Want", "Title", "Hold"} /\ actor \in {"cli", "import"}
    \/ part = "status" /\ kind \in {"Job", "Title", "Hold", "RemoteFile", "Node"} /\ actor = "worker"
    \/ part = "status" /\ kind = "Title" /\ actor = "import"

EmptyStatus(obj) == \A f \in In("status") : obj[f] = ClassOf(f).dflt
SameIn(part, a, b) == \A f \in In(part) : a[f] = b[f]

\* Mutant of ApplyResult: any status in the message is refused.
ApplyResultNoStatus(actor, obj, at, allowed) ==
    IF ~Parses(obj) THEN "Invalid"
    ELSE IF ~MayApply(actor) THEN "Denied"
    ELSE IF ~Validate(obj) THEN "Invalid"
    ELSE IF obj["name"] # stored["name"] \/ at # rv THEN "Conflict"
    ELSE IF ~StatusOnly /\ ~EmptyStatus(obj) THEN "Denied"
    ELSE "ok"

\* validate_apply for an object that exists: an error or "ok".  Under another name it is
\* a new object, which may not have a version.  allowed: the rules about the change of a
\* root, which JobControl has.
ApplyResult(actor, obj, at, allowed) ==
    IF ~Parses(obj) THEN "Invalid"
    ELSE IF ~MayApply(actor) THEN "Denied"
    ELSE IF ~Validate(obj) THEN "Invalid"
    ELSE IF obj["name"] # stored["name"] THEN "Conflict"
    ELSE IF ~allowed /\ ~SameIn("spec", obj, stored) THEN "Denied"
    ELSE IF at # rv THEN "Conflict"
    ELSE IF kind = "Hold" /\ ~SameIn("spec", obj, stored) THEN "Denied"
    ELSE IF ~StatusOnly /\ ~SameIn("status", obj, stored) /\ ~EmptyStatus(obj) THEN "Denied"
    ELSE "ok"

\* validate_patch: the part replaced in the stored object.  allowed: the rules about
\* each transition, which JobLifecycle and JobControl have.
Patched(part, obj) == [f \in Fields |-> IF f \in In(part) THEN obj[f] ELSE stored[f]]

PatchResult(actor, part, obj, at, allowed) ==
    IF ~Parses(obj) THEN "Invalid"
    ELSE IF ~MayPatch(actor, part) THEN "Denied"
    ELSE IF at # rv THEN "Conflict"
    ELSE IF ~Validate(Patched(part, obj)) THEN "Invalid"
    ELSE IF ~allowed THEN "Denied"
    ELSE "ok"

\* home_status and the client's reading of the code.
Code(err) == CASE err = "Conflict" -> "FailedPrecondition" [] err = "Denied" -> "PermissionDenied"
               [] err = "Invalid" -> "InvalidArgument" [] OTHER -> "Ok"
Reads(code) == CASE code \in {"FailedPrecondition", "AlreadyExists"} -> "conflict"
                 [] code = "PermissionDenied" -> "denied" [] code = "NotFound" -> "not_found"
                 [] code \in {"DeadlineExceeded", "Unavailable", "Cancelled"} -> "uncertain"
                 [] code = "Ok" -> "ok" [] OTHER -> "usage"

Write(obj) == stored' = obj /\ rv' = rv + 1

---------------------------------------------------------------------------
(* Clients                                                                 *)

Plain == [f \in Fields |-> CHOOSE v \in ClassOf(f).ok : v = ClassOf(f).dflt \/ ClassOf(f).dflt \notin ClassOf(f).ok]

Actors == {"cli", "import", "worker"}

CodecInit ==
    /\ kind \in Kinds
    /\ stored = Plain /\ rv = 0 /\ entered = stored
    /\ held = None /\ doc = None /\ reply = None

\* Somebody set nothing, or one field in the parts that are written.
Given(edit, parts) ==
    entered' = IF edit = <<>> THEN entered
               ELSE IF Schema[edit[1]].part \in parts THEN [entered EXCEPT ![edit[1]] = edit[2]] ELSE entered

\* HomeApi::get.
Get ==
    /\ rv < MaxWrites /\ held = None /\ doc = None
    /\ \E actor \in Actors :
           held' = [actor |-> actor, obj |-> FromWire(ToWire(Redacted(actor, stored))), rv |-> rv]
    /\ reply' = None
    /\ UNCHANGED <<kind, stored, rv, entered, doc>>

\* What may become of a document in an editor: a key is set to anything or taken out.
Edited(d) ==
    {[d EXCEPT !.obj = Joined([f \in {e[1]} |-> e[2]], @), !.edit = e] : e \in {p \in Fields \X Values : p[2] \in ClassOf(p[1]).vals}}
    \cup {[d EXCEPT !.obj = [g \in DOMAIN d.obj \ {f} |-> d.obj[g]], !.edit = <<f, ClassOf(f).dflt>>] : f \in DOMAIN d.obj}

\* get -o json, kept as a file; the operator may spell its keys the way TOML has them,
\* and may edit it.
PrintDoc ==
    /\ held # None
    /\ held.actor = "cli"
    /\ \E text \in {"json", "snakeJson"} :
           LET d == [obj |-> Document(held.obj), text |-> text, rv |-> held.rv, edit |-> <<>>] IN
           doc' \in IF text = "json" THEN {d} \cup Edited(d) ELSE {d}
    /\ held' = None
    /\ reply' = None
    /\ UNCHANGED <<kind, stored, rv, entered>>

\* The reply as the client reads it, with what it was about.
Answer(err, at, same, how) ==
    [err |-> err, seen |-> Reads(Code(err)), stale |-> at # rv, same |-> same, how |-> how]

\* An apply that was admitted changes the spec, or all of a kind that has no spec.
Applied(obj) == IF StatusOnly THEN obj ELSE [f \in Fields |-> IF f \in In("status") THEN stored[f] ELSE obj[f]]

Finish(err, obj, edit, parts) ==
    IF err = "ok" THEN Write(obj) /\ Given(edit, parts) ELSE UNCHANGED <<stored, rv, entered>>

\* apply_file: decoded and validated here, converted, then decided by the service.
ApplyDoc ==
    /\ doc # None
    /\ rv < MaxWrites
    /\ \E allowed \in BOOLEAN :
           LET obj == FromWire(ToWire(Decode(doc)))
               fit == IF Decodes(doc) THEN Validate(Decode(doc)) ELSE FALSE
               err == IF fit THEN ApplyResult("cli", obj, doc.rv, allowed) ELSE "Invalid" IN
           /\ reply' = Answer(err, doc.rv, doc.edit = <<>>, IF Decodes(doc) THEN "apply" ELSE "undecodable")
           /\ Finish(err, Applied(obj), doc.edit, IF StatusOnly THEN {"status"} ELSE {"meta", "spec"})
    /\ doc' = None
    /\ UNCHANGED <<kind, held>>

\* A program changes a field of what it got to something valid, or nothing, and patches
\* it back.
Patch ==
    /\ held # None
    /\ rv < MaxWrites
    /\ \E edit \in {<<>>} \cup {p \in (In("spec") \cup In("status")) \X Values : p[2] \in ClassOf(p[1]).ok},
          part \in {"spec", "status"}, allowed \in BOOLEAN :
           LET sent == IF edit = <<>> THEN held.obj ELSE [held.obj EXCEPT ![edit[1]] = edit[2]]
               obj == FromWire(ToWire(sent))
               err == PatchResult(held.actor, part, obj, held.rv, allowed) IN
           /\ reply' = Answer(err, held.rv, edit = <<>>, "patch")
           /\ Finish(err, Patched(part, obj), edit, {part})
    /\ held' = None
    /\ UNCHANGED <<kind, doc>>

\* The wire form of the stored object, with the spec left out of it.
Bare == [f \in Fields |-> IF f \in In("spec") THEN ClassOf(f).blank ELSE ToWire(stored)[f]]

\* A message without a body is refused; one whose body has no spec has all its blanks.
SendBare ==
    /\ rv < MaxWrites /\ held = None /\ doc = None
    /\ \E actor \in Actors, body \in BOOLEAN, allowed \in BOOLEAN :
           LET err == IF body /\ In("spec") # {} THEN ApplyResult(actor, FromWire(Bare), rv, allowed) ELSE "Invalid" IN
           /\ reply' = Answer(err, rv, FALSE, "bare")
           /\ Finish(err, Applied(FromWire(Bare)), <<>>, {})
    /\ UNCHANGED <<kind, held, doc>>

\* Somebody else writes a valid object.
OtherWrites ==
    /\ rv < MaxWrites
    /\ \E f \in In("spec") \cup In("status") : \E v \in ClassOf(f).ok \ {stored[f]} :
           LET next == [stored EXCEPT ![f] = v] IN
           /\ Validate(next)
           /\ Cardinality({g \in Fields : next[g] # Plain[g]}) <= MaxVaried
           /\ Write(next)
           /\ Given(<<f, v>>, {"spec", "status"})
    /\ reply' = None
    /\ UNCHANGED <<kind, held, doc>>

CodecNext == Get \/ PrintDoc \/ ApplyDoc \/ Patch \/ SendBare \/ OtherWrites

CodecSpec == CodecInit /\ [][CodecNext]_vars

---------------------------------------------------------------------------
(* Properties                                                              *)

\* Type correctness; what is stored is an object that validation accepts, whatever
\* blanks and defaults it passed through.
StoredIsValid == stored \in [Fields -> Values] /\ Validate(stored)

\* A client holds exactly what is stored at that version, each
\* field after two conversions, but for the address that the CLI does not get to see.
ReadsBackExactly ==
    IF held = None THEN TRUE
    ELSE held.rv = rv => held.obj = Redacted(held.actor, stored)

\* "Defaulting here would let apply with an empty body silently reset a stored object":
\* each field has the value that somebody gave it last, never a blank of the wire, a
\* redacted address written back, the default of a message that lacked it, or what an
\* earlier reader wrote back over somebody else's change.
NothingInvented == \A f \in Fields : stored[f] = entered[f]

\* A document printed by get and applied as it is, with nobody writing in between, is
\* admitted, status included; only a Secret is refused, for its redacted address.
ReapplyAdmitted ==
    IF reply = None THEN TRUE
    ELSE reply.same /\ reply.how = "apply" /\ ~reply.stale /\ MayApply("cli") =>
             (reply.err = "ok") = (kind # "Secret")

\* What the client reads from the code is what happened: a conflict on an object that
\* was not edited means that somebody else wrote, success that nobody did, and a refusal
\* never reads as an uncertain outcome.
ReplyTellsTruth ==
    IF reply = None THEN TRUE
    ELSE /\ reply.seen = "conflict" => reply.stale \/ ~reply.same
         /\ reply.seen = "ok" => ~reply.stale
         /\ reply.seen # "uncertain"

\* An object means the same on both sides of the wire.  What is stored is valid
\* and read back exactly (home_convert.rs), a field nobody sent is not invented, a
\* client that applies what it read is admitted, and the reply tells what is
\* stored (apply).
ObjectsKeepMeaning == StoredIsValid /\ ReadsBackExactly /\ NothingInvented /\ ReapplyAdmitted /\ ReplyTellsTruth
===============================================================================
