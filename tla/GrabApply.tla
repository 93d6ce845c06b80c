------------------------------ MODULE GrabApply ------------------------------
(***************************************************************************)
(* seedbox apply: bring the *arr apps of the seedbox to the sets of        *)
(* config.toml, app by app and resource by resource, over HTTP calls that  *)
(* fail or lose their answer, while somebody uses the apps' own settings.  *)
(***************************************************************************)
EXTENDS Integers, Sequences, FiniteSets

CONSTANTS
    Media, Others,   \* apps with a key: sonarr, radarr, lidarr in their order; prowlarr
    Servarr,         \* grabber = "servarr"
    WantIndexers,    \* app -> set of [name, val]
    WantClients,     \* set of [name, val], for every media app
    WantFormats,     \* custom formats of the packs
    WantScores, WantDelay, \* whether policy names a quality profile, a delay
    Masked,          \* names whose managed value the app does not show
    Names, Values,   \* names and contents the operator may enter
    Profiles,        \* delay profiles
    MaxEvents, MaxFaults \* bounds: edits by the operator; applies that die

VARIABLES
    res,      \* app -> kind -> set of [id, name, val, extra]
    ids,      \* last id given
    format,   \* app -> names of custom formats
    scores,   \* app -> whether the quality profile has our scores
    delay,    \* app -> profile -> whether it has our delay
    op,       \* the apply
    clean,    \* nobody edited since the apply began
    settled,  \* the last apply ended well and nobody edited since
    before,   \* res when the apply began
    events, faults

vars == <<res, ids, format, scores, delay, op, clean, settled, before, events, faults>>
Live == <<res, ids, format, scores, delay>>
Ghost == <<clean, settled, before>>

AppSeq == Media \o Others
AppSet == {AppSeq[i] : i \in DOMAIN AppSeq}
MediaSet == {Media[i] : i \in DOMAIN Media}
Kinds == {"indexer", "client"}

Want(a, k) == IF k = "indexer" THEN WantIndexers[a] ELSE WantClients

NoApply == [pc |-> "idle", app |-> 1, kind |-> "indexer", listed |-> {}, left |-> {}, body |-> 0, diffs |-> {}]

ApplyInit ==
    /\ res \in [AppSet -> [Kinds -> {{}} \cup {{[id |-> 1, name |-> n, val |-> v, extra |-> v]} : n \in Names, v \in Values}]]
    /\ \A a, b \in AppSet : res[a]["client"] = res[b]["client"]
    /\ ids = 1 /\ format = [a \in AppSet |-> {}]
    /\ scores = [a \in AppSet |-> FALSE] /\ delay = [a \in AppSet |-> [p \in Profiles |-> FALSE]]
    /\ op = NoApply /\ clean = TRUE /\ settled = FALSE /\ before = res /\ events = 0 /\ faults = 0

---------------------------------------------------------------------------
At(pc) == op.pc = pc

\* Lines of the report that name no resource: update quality scores, update delay.
Scored == "quality"
Delayed == "delay"
App == AppSeq[op.app]
Abort == op' = NoApply
WantNames(a, k) == {w.name : w \in Want(a, k)}

\* with_desired, discover_keys and require_keys_for_desired; a grabber of none ends here.
Start ==
    /\ At("idle")
    /\ op' = [NoApply EXCEPT !.pc = IF Servarr THEN "list" ELSE "done"]
    /\ clean' = TRUE /\ before' = res
    /\ UNCHANGED <<Live, settled, events, faults>>

\* apply_app: indexers, then for a media app clients, formats and the delay.
NextPart ==
    CASE op.kind = "indexer" /\ App \in MediaSet -> [op EXCEPT !.pc = "list", !.kind = "client"]
      [] op.kind = "client" -> [op EXCEPT !.pc = "formats", !.kind = "format"]
      [] op.kind = "format" -> [op EXCEPT !.pc = "delay", !.kind = "delay"]
      [] OTHER -> IF op.app = Len(AppSeq) THEN [op EXCEPT !.pc = "done"]
                  ELSE [op EXCEPT !.pc = "list", !.kind = "indexer", !.app = @ + 1]

Duplicate(rs) == \E r, s \in rs : r # s /\ r.name = s.name

\* apply_indexers, apply_download_clients: names twice are refused, nothing wanted is
\* nothing done.
List ==
    /\ At("list")
    /\ LET live == res[App][op.kind] IN
       IF Duplicate(live) THEN Abort
       ELSE IF Want(App, op.kind) = {} THEN op' = NextPart
       ELSE op' = [op EXCEPT !.pc = "delete", !.listed = live, !.left = Want(App, op.kind)]
    /\ UNCHANGED <<Live, Ghost, events, faults>>

Extra == {r \in op.listed : r.name \notin WantNames(App, op.kind)}

\* DELETE of what is not wanted, one after the other; an id that is gone is an error.
DeleteExtra ==
    /\ At("delete")
    /\ IF Extra = {} THEN op' = [op EXCEPT !.pc = "set"] /\ UNCHANGED res
       ELSE \E r \in Extra :
            IF \E l \in res[App][op.kind] : l.id = r.id
            THEN /\ res' = [res EXCEPT ![App][op.kind] = {l \in @ : l.id # r.id}]
                 /\ op' = [op EXCEPT !.listed = @ \ {r}, !.diffs = @ \cup {r.name}]
            ELSE Abort /\ UNCHANGED res
    /\ UNCHANGED <<ids, format, scores, delay, Ghost, events, faults>>

\* The listed resource of that name.
Found(w) == {r \in op.listed : r.name = w.name}

\* What GET shows of a managed value.
Shown(r) == IF r.name \in Masked THEN "masked" ELSE r.val

\* indexer_resource over the live resource: ours where config.toml says, the rest as read.
Merged(w, l) == [id |-> l.id, name |-> w.name, val |-> w.val, extra |-> l.extra]

\* POST of a wanted name that was not listed; a name that is there by now is refused.
Post(w) ==
    IF \E l \in res[App][op.kind] : l.name = w.name THEN Abort /\ UNCHANGED <<res, ids>>
    ELSE /\ res' = [res EXCEPT ![App][op.kind] = @ \cup {[id |-> ids + 1, name |-> w.name, val |-> w.val, extra |-> w.val]}]
         /\ ids' = ids + 1
         /\ op' = [op EXCEPT !.left = @ \ {w}, !.diffs = @ \cup {w.name}]

\* GET of the listed id and, if the merge differs from what was shown, a PUT to come.
Get(w, r) ==
    /\ IF \E l \in res[App][op.kind] : l.id = r.id
       THEN \E l \in res[App][op.kind] :
            /\ l.id = r.id
            /\ op' = IF Shown(l) = w.val /\ l.name = w.name THEN [op EXCEPT !.left = @ \ {w}]
                     ELSE [op EXCEPT !.pc = "put", !.left = @ \ {w}, !.body = Merged(w, l)]
       ELSE Abort
    /\ UNCHANGED <<res, ids>>

SetWanted ==
    /\ At("set")
    /\ IF op.left = {} THEN op' = NextPart /\ UNCHANGED <<res, ids>>
       ELSE \E w \in op.left : IF Found(w) = {} THEN Post(w) ELSE \E r \in Found(w) : Get(w, r)
    /\ UNCHANGED <<format, scores, delay, Ghost, events, faults>>

\* PUT of the merged resource to its id.
Put ==
    /\ At("put")
    /\ IF \E l \in res[App][op.kind] : l.id = op.body.id
       THEN /\ res' = [res EXCEPT ![App][op.kind] = {l \in @ : l.id # op.body.id} \cup {op.body}]
            /\ op' = [op EXCEPT !.pc = "set", !.body = 0, !.diffs = @ \cup {op.body.name}]
       ELSE Abort /\ UNCHANGED res
    /\ UNCHANGED <<ids, format, scores, delay, Ghost, events, faults>>

\* apply_cf_packs: the formats that are missing are created ...
Formats ==
    /\ At("formats")
    /\ IF WantFormats = {} THEN op' = NextPart /\ UNCHANGED format
       ELSE IF WantFormats \subseteq format[App]
       THEN op' = [op EXCEPT !.pc = "scores"] /\ UNCHANGED format
       ELSE \E f \in WantFormats \ format[App] :
            format' = [format EXCEPT ![App] = @ \cup {f}] /\ op' = [op EXCEPT !.diffs = @ \cup {f}]
    /\ UNCHANGED <<res, ids, scores, delay, Ghost, events, faults>>

\* ... and then scored in the quality profile, if policy names one.
Scores ==
    /\ At("scores") /\ op' = [NextPart EXCEPT !.diffs = IF WantScores /\ ~scores[App] THEN @ \cup {Scored} ELSE @]
    /\ scores' = [scores EXCEPT ![App] = @ \/ WantScores]
    /\ UNCHANGED <<res, ids, format, delay, Ghost, events, faults>>

\* apply_policy: each delay profile that differs.
Delay ==
    /\ At("delay")
    /\ IF WantDelay /\ \E p \in Profiles : ~delay[App][p]
       THEN \E p \in Profiles : ~delay[App][p] /\ delay' = [delay EXCEPT ![App][p] = TRUE] /\ op' = [op EXCEPT !.diffs = @ \cup {Delayed}]
       ELSE op' = NextPart /\ UNCHANGED delay
    /\ UNCHANGED <<res, ids, format, scores, Ghost, events, faults>>

\* The report: noop when there were no diffs.
Report ==
    /\ At("done") /\ op' = NoApply /\ settled' = clean
    /\ UNCHANGED <<Live, clean, before, events, faults>>

\* A call fails or its answer is lost; either end dies.
Die ==
    /\ ~At("idle") /\ faults < MaxFaults /\ faults' = faults + 1
    /\ Abort /\ settled' = FALSE
    /\ UNCHANGED <<Live, clean, before, events>>

\* Somebody adds, changes or removes a resource, or resets a profile.
Edit ==
    /\ events < MaxEvents /\ events' = events + 1
    /\ \E a \in AppSet, k \in Kinds :
           \/ \E n \in Names, v \in Values :
                  /\ res' = [res EXCEPT ![a][k] = @ \cup {[id |-> ids + 1, name |-> n, val |-> v, extra |-> v]}]
                  /\ ids' = ids + 1 /\ UNCHANGED <<scores, delay>>
           \/ \E r \in res[a][k] :
                  /\ res' = [res EXCEPT ![a][k] = @ \ {r}] /\ UNCHANGED <<ids, scores, delay>>
           \/ \E r \in res[a][k], v \in Values :
                  /\ r.val # v
                  /\ res' = [res EXCEPT ![a][k] = (@ \ {r}) \cup {[r EXCEPT !.val = v]}] /\ UNCHANGED <<ids, scores, delay>>
           \/ a \in MediaSet /\ \E p \in Profiles :
                  delay' = [delay EXCEPT ![a][p] = FALSE] /\ scores' = [scores EXCEPT ![a] = FALSE] /\ UNCHANGED <<res, ids>>
    /\ clean' = FALSE /\ settled' = FALSE
    /\ UNCHANGED <<format, op, before, faults>>

ApplyStep == Start \/ List \/ DeleteExtra \/ SetWanted \/ Put \/ Formats \/ Scores \/ Delay \/ Report
ApplyNext == ApplyStep \/ Die \/ Edit

Spec == ApplyInit /\ [][ApplyNext]_vars
LiveSpec == Spec /\ WF_vars(ApplyStep)

---------------------------------------------------------------------------
(* Properties                                                              *)

\* Type correctness; ids are unique in a set and were given before.
GrabApplyTypeOK ==
    /\ op.app \in DOMAIN AppSeq /\ op.diffs \subseteq Names \cup WantFormats \cup {Scored, Delayed}
    /\ \A a \in AppSet, k \in Kinds :
           \A r, s \in res[a][k] : r.id <= ids /\ (r.id = s.id => r = s)

\* An apply that ends without interference has brought every app to the sets of
\* config.toml, also after applies that died half way, and what config.toml does not
\* speak of in a kept resource is as it was.
AppliedMeansDesired ==
    At("done") /\ clean /\ Servarr =>
        \A a \in AppSet :
            /\ \A k \in Kinds : (k = "client" => a \in MediaSet) /\ Want(a, k) # {} =>
                   /\ {[name |-> r.name, val |-> r.val] : r \in res[a][k]} = Want(a, k)
                   /\ \A r \in res[a][k] : \A b \in before[a][k] : b.id = r.id => b.extra = r.extra
            /\ a \in MediaSet => /\ WantFormats \subseteq format[a]
                                 /\ WantFormats # {} /\ WantScores => scores[a]
                                 /\ WantDelay => \A p \in Profiles : delay[a][p]

\* "Empty [grab] is a no-op, never a wipe" (docs/config.md): no step of an apply
\* touches a set that config.toml leaves empty, and nothing without a grabber.
KeepsUnspoken ==
    events' = events => \A a \in AppSet, k \in Kinds :
        ~Servarr \/ Want(a, k) = {} => res'[a][k] = res[a][k]

\* "second apply must be no-op": right after an apply that ended well, another
\* changes nothing, except that it writes again every resource with a managed value
\* the app masks: what GET shows of it never equals config.toml.
SecondIsNoop == settled => op.diffs \subseteq Masked

\* Once nobody interferes and nothing fails, an apply that is repeated ends, unless
\* the operator left two resources of one name.
Distinct == \A a \in AppSet, k \in Kinds : ~Duplicate(res[a][k])
ApplyConverges == <>[]Distinct => <>At("done")
===============================================================================
