----------------------------- MODULE EdgeRepair -----------------------------
(***************************************************************************)
(* The edge of the seedbox: the nginx confs of the *arr apps, which the    *)
(* hosting panel rewrites when it likes, and the host settings of the      *)
(* apps.  repair edge splices the confs over ssh, reloads nginx, sets the  *)
(* apps through the daemon, verifies, and records the fingerprint of the   *)
(* confs; doctor and seedbox apply are frozen while confs and record       *)
(* differ.  Runs die between any two steps.                                *)
(***************************************************************************)
EXTENDS Integers, Sequences

CONSTANTS
    Apps,       \* the governed apps, in the order repair visits them
    Confs,      \* contents the panel writes: sequences of kinds of lines
    Keyless,    \* apps whose API key cannot be discovered
    MaxRewrites, MaxFaults, MaxEdits, \* bounds: rewrites by the panel, faults, edits of [edge]
    Missing     \* a conf that is not there

VARIABLES
    conf,      \* app -> content of /etc/nginx/apps/<app>.conf
    served,    \* app -> content nginx has loaded
    host,      \* app -> version of [edge] its bind, base and auth agree with, 0 for none
    link,      \* app -> whether Prowlarr's application URL carries the base
    want,      \* version of [edge] in config.toml at home
    started,   \* version of [edge] the daemon read when it started
    record,    \* the fingerprint in state.db, or <<>>
    cmd,       \* the command that holds mediaops.lock
    rewrites, faults, edits

vars == <<conf, served, host, link, want, started, record, cmd, rewrites, faults, edits>>
bounds == <<rewrites, faults, edits>>

Positions == DOMAIN Apps
AppSet == {Apps[i] : i \in Positions}
NoCmd == [pc |-> "idle", at |-> 1, text |-> <<>>, fp |-> <<>>]

---------------------------------------------------------------------------
(* The confs                                                               *)

Has(c, kind) == \E i \in DOMAIN c : c[i] = kind

\* nginx_host_ok: one line "Host $host" is enough, wherever it stands.
NginxHostOk(c) == Has(c, "host")

FirstPass(c) == CHOOSE i \in DOMAIN c : c[i] = "pass" /\ \A j \in 1 .. i - 1 : c[j] # "pass"

\* splice_host_dollar_host: replace every other Host line, else insert one after
\* the first proxy_pass, else append one.
Splice(c) ==
    IF NginxHostOk(c) THEN c
    ELSE IF Has(c, "rewritten") THEN [i \in DOMAIN c |-> IF c[i] = "rewritten" THEN "host" ELSE c[i]]
    ELSE IF Has(c, "pass")
         THEN LET i == FirstPass(c) IN SubSeq(c, 1, i) \o <<"host">> \o SubSeq(c, i + 1, Len(c))
    ELSE Append(c, "host")

\* desired_nginx_app, for a conf that is empty.
Desired(c) == IF c = <<>> THEN <<"pass", "host">> ELSE Splice(c)

\* panel_fingerprint: the confs that are there, by name.
Fingerprint == <<conf>>

---------------------------------------------------------------------------
(* What the daemon answers                                                 *)

\* check_edge_apps compares with the [edge] the daemon was started with.
ApiDrift ==
    \E a \in AppSet : a \in Keyless \/ host[a] # started \/ ~link[a]

NginxDrift == \E a \in AppSet : conf[a] # Missing /\ ~NginxHostOk(conf[a])

InvariantOk == ~NginxDrift /\ ~ApiDrift

Frozen == ~InvariantOk \/ (record # <<>> /\ record # Fingerprint)

EdgeInit ==
    /\ conf \in [AppSet -> Confs]
    /\ served = conf
    /\ host \in [AppSet -> {0, 1}]
    /\ link \in [AppSet -> BOOLEAN]
    /\ want = 1 /\ started = 1
    /\ record = <<>>
    /\ cmd = NoCmd
    /\ rewrites = 0 /\ faults = 0 /\ edits = 0

---------------------------------------------------------------------------
(* repair edge                                                             *)

At(pc) == cmd.pc = pc
Goto(pc) == cmd' = [cmd EXCEPT !.pc = pc, !.at = 1]
Next_(pc, then) == IF cmd.at = Len(Apps) THEN Goto(then) ELSE cmd' = [cmd EXCEPT !.pc = pc, !.at = @ + 1]
App == Apps[cmd.at]
Others == <<want, started, bounds>>

\* --repair with --confirm or --pin, the flock, config.toml and the gateway.
StartRepair ==
    /\ At("idle") /\ Goto("cat")
    /\ UNCHANGED <<conf, served, host, link, record, Others>>

\* sudo cat: a missing file makes SystemExec::run an error, which ends the run.
CatConf ==
    /\ At("cat")
    /\ IF conf[App] = Missing THEN cmd' = NoCmd
       ELSE cmd' = [cmd EXCEPT !.pc = "write", !.text = Desired(conf[App])]
    /\ UNCHANGED <<conf, served, host, link, record, Others>>

\* write_remote_file reads the conf again, for the diff, and writes the text that
\* was spliced before.
WriteConf ==
    /\ At("write")
    /\ IF conf[App] = Missing THEN cmd' = NoCmd /\ UNCHANGED conf
       ELSE /\ conf' = [conf EXCEPT ![App] = cmd.text]
            /\ Next_("cat", "reload")
    /\ UNCHANGED <<served, host, link, record, Others>>

\* nginx -t and nginx -s reload.
Reload ==
    /\ At("reload") /\ served' = conf /\ Goto("host")
    /\ UNCHANGED <<conf, host, link, record, Others>>

\* apply_edge_host: GET config/host, PUT it when it differs; no key, no change.
ApplyHost ==
    /\ At("host")
    /\ host' = IF App \in Keyless THEN host ELSE [host EXCEPT ![App] = want]
    /\ Next_("host", "link")
    /\ UNCHANGED <<conf, served, link, record, Others>>

\* apply_prowlarr_app_urls, application by application.
ApplyLink ==
    /\ At("link")
    /\ link' = [link EXCEPT ![App] = TRUE]
    /\ Next_("link", "check")
    /\ UNCHANGED <<conf, served, host, record, Others>>

\* edge_check: still drifted ends the run with DriftVerify.
CheckEdge ==
    /\ At("check")
    /\ IF InvariantOk THEN cmd' = [cmd EXCEPT !.pc = "record", !.fp = Fingerprint] ELSE cmd' = NoCmd
    /\ UNCHANGED <<conf, served, host, link, record, Others>>

\* put_machine of the fingerprint the check returned.
Record ==
    /\ At("record") /\ record' = cmd.fp /\ cmd' = NoCmd
    /\ UNCHANGED <<conf, served, host, link, Others>>

---------------------------------------------------------------------------
(* The panel, faults and the operator                                      *)

\* The panel writes a conf, or removes it with its app, and reloads nginx.
Rewrite ==
    /\ rewrites < MaxRewrites /\ rewrites' = rewrites + 1
    /\ \E a \in AppSet, c \in Confs :
           /\ c # conf[a]
           /\ conf' = [conf EXCEPT ![a] = c]
           /\ served' = [served EXCEPT ![a] = c]
    /\ UNCHANGED <<host, link, record, cmd, want, started, faults, edits>>

\* An app is reconfigured in its own interface.
Drift ==
    /\ rewrites < MaxRewrites /\ rewrites' = rewrites + 1
    /\ \E a \in AppSet :
           \/ host' = [host EXCEPT ![a] = 0] /\ UNCHANGED link
           \/ link' = [link EXCEPT ![a] = FALSE] /\ UNCHANGED host
    /\ UNCHANGED <<conf, served, record, cmd, want, started, faults, edits>>

\* A command, a call or the process fails; a redirect may leave the conf empty.
Fault ==
    /\ ~At("idle") /\ faults < MaxFaults /\ faults' = faults + 1
    /\ cmd' = NoCmd
    /\ \/ UNCHANGED conf
       \/ At("write") /\ conf[App] # Missing /\ conf' = [conf EXCEPT ![App] = <<>>]
    /\ UNCHANGED <<served, host, link, record, want, started, rewrites, edits>>

\* [edge] is edited at home.
EditConfig ==
    /\ edits < MaxEdits /\ edits' = edits + 1 /\ want' = want + 1
    /\ UNCHANGED <<conf, served, host, link, record, cmd, started, rewrites, faults>>

\* bootstrap brings config.toml to the box and restarts the daemon.
Redeploy ==
    /\ At("idle") /\ started # want /\ started' = want
    /\ UNCHANGED <<conf, served, host, link, record, cmd, want, bounds>>

RepairStep ==
    \/ CatConf \/ WriteConf \/ Reload \/ ApplyHost \/ ApplyLink \/ CheckEdge \/ Record

EdgeNext == StartRepair \/ RepairStep \/ Rewrite \/ Drift \/ Fault \/ EditConfig \/ Redeploy

Spec == EdgeInit /\ [][EdgeNext]_vars

\* The operator repeats the repair while the edge is frozen.
Repairing == StartRepair /\ Frozen
LiveSpec == Spec /\ WF_vars(Repairing) /\ WF_vars(RepairStep)

---------------------------------------------------------------------------
(* Properties                                                              *)

\* Type correctness.
EdgeTypeOK ==
    /\ \A a \in AppSet : host[a] \in 0 .. MaxEdits + 1 /\ link[a] \in BOOLEAN
    /\ record = <<>> \/ Len(record) = 1
    /\ cmd.at \in Positions
    /\ started <= want

\* What repair (and bootstrap) record is the fingerprint of healthy confs: every one
\* of them carried Host $host in one and the same check, whatever the panel did
\* between the splices.
RecordedWasHealthy ==
    record # <<>> =>
        \A a \in AppSet : record[1][a] # Missing => NginxHostOk(record[1][a])

\* splice_host_dollar_host keeps every line but the Host lines, and applying it
\* to what repair wrote changes nothing.
SpliceHeals ==
    \A a \in AppSet :
        conf[a] # Missing =>
            LET new == Desired(conf[a])
                keep(c) == SelectSeq(c, LAMBDA l : l \notin {"host", "rewritten"})
            IN  /\ NginxHostOk(new) /\ Desired(new) = new
                /\ conf[a] # <<>> => keep(new) = keep(conf[a])

\* nginx_test_and_reload: while repair verifies and records, nginx serves the confs
\* that are verified, also when an earlier run died after it had written them.
VerifiesWhatIsServed == At("check") \/ At("record") => served = conf

\* "run mediaops repair edge --repair --confirm": once the panel, the faults and
\* the edits stop, repairs end the freeze.
RepairEndsFreeze == []<>~Frozen
===============================================================================
